------------------------------- MODULE SGXCalls -------------------------------
(***************************************************************************)
(* The bridge calls of the graphics core, each a set of paths.             *)
(***************************************************************************)
EXTENDS BridgeSteps

(* The most parts a shared parameter buffer has beside its four.            *)
MAX_SUBMEMINFOS == 1
MAX_HEAPS       == 2

Looks(keys) == {[i \in DOMAIN keys |-> Lookup(keys[i])] \o <<KM>>}

-----------------------------------------------------------------------------
\* The device.
SGXGetClientInfoBW     == Looks(<<"DEV_NODE">>)
SGXReleaseClientInfoBW == Looks(<<"DEV_NODE">>)
SGXGetInternalDevInfoBW == {<<Lookup("DEV_NODE"), KM, Checked(Whole("MEM_INFO"))>>}
SGXGetMiscInfoBW == Looks(<<"DEV_NODE">>) \cup Looks(<<"DEV_NODE", "DEV_MEM_CONTEXT">>)
SGXReadHWPerfCBBW == Looks(<<"DEV_NODE">>)

SGXGetInfoForSrvinitBW ==
    {<<Batch(MAX_HEAPS), InitOnly, Lookup("DEV_NODE"), KM, Whole("DEV_MEM_HEAP"), Commit>>}

(* The server hands over the memory it made for the device, a piece for     *)
(* each purpose and perhaps others: all are found before any handle goes,   *)
(* all handles go before any piece is given up, and then it is no longer    *)
(* the server's, whatever fails afterwards.                                 *)
PurposesFound   == <<InitOnly, Lookup("DEV_NODE"), Lookup("MEM_INFO")>>
OthersFound     == <<LookupAny({"MEM_INFO"}, "OTHER_MEM_INFO")>>
PurposesReleased == <<Release("MEM_INFO")>>
OthersReleased   == <<Release("OTHER_MEM_INFO")>>
PurposesGivenUp == <<Destroys("MEM_INFO")>>
OthersGivenUp   == <<Destroys("OTHER_MEM_INFO")>>
SGXDevInitPart2BW ==
    {PurposesFound \o PurposesReleased \o PurposesGivenUp \o <<KM>>,
     PurposesFound \o OthersFound \o PurposesReleased \o OthersReleased
        \o PurposesGivenUp \o OthersGivenUp \o <<KM>>}

-----------------------------------------------------------------------------
\* Work for the core; sync infos are given or not.  Cores with a certain
\* fault need to know the memory context as well.
Fault31620 == {<<>>, <<Lookup("DEV_MEM_CONTEXT")>>}

(* A kick: the device and the buffer of commands; the syncs of its two      *)
(* parts; those it reads; where it leaves its status; those it writes, with *)
(* the memory of their list.                                                *)
KickBuffer       == <<Lookup("DEV_NODE"), Lookup("MEM_INFO")>>
KickSyncs(fault) == <<Optional("SYNC_INFO")>> \o fault
KickSources      == <<Optional("SYNC_INFO")>>
KickStatus       == <<Optional("MEM_INFO")>>
KickDestinations == {<<>>, <<Lookup("SYNC_INFO"), Lookup("MEM_INFO")>>}
SGXDoKickBW ==
    {KickBuffer \o KickSyncs(fault) \o KickSources \o KickStatus \o written \o <<KM>> :
        fault \in Fault31620, written \in KickDestinations}
SGXScheduleProcessQueuesBW == Looks(<<"DEV_NODE">>)

Submits(fault) == fault \o <<Lookup("DEV_NODE"), Lookup("MEM_INFO"), Optional("SYNC_INFO"), KM>>
SGXSubmitTransferBW == {Submits(fault) : fault \in Fault31620}
SGXSubmit2DBW       == {Submits(fault) : fault \in Fault31620}
SGX2DQueryBlitsCompleteBW == Looks(<<"DEV_NODE", "SYNC_INFO">>)
SGXFlushHWRenderTargetBW == Looks(<<"DEV_NODE">>)

\* Contexts of the core.
Registers(t) == {<<Batch(1), Lookup("DEV_NODE"), Creates(t, {}), Made(t, {}), Commit>>}
Unregisters(t) == {<<Lookup(t), Destroys(t), Release(t)>>}

SGXRegisterHWRenderContextBW     == Registers("SGX_HW_RENDER_CONTEXT")
SGXUnregisterHWRenderContextBW   == Unregisters("SGX_HW_RENDER_CONTEXT")
SGXRegisterHWTransferContextBW   == Registers("SGX_HW_TRANSFER_CONTEXT")
SGXUnregisterHWTransferContextBW == Unregisters("SGX_HW_TRANSFER_CONTEXT")
SGXRegisterHW2DContextBW         == Registers("SGX_HW_2D_CONTEXT")
SGXUnregisterHW2DContextBW       == Unregisters("SGX_HW_2D_CONTEXT")

-----------------------------------------------------------------------------
\* Shared parameter buffers, in SharedPB.

(* Four handles for the parts of the descriptor, one for each of the others *)
(* and one for the descriptor itself, in a batch for one less.              *)
SGXFindSharedPBDescBW ==
    LET part  == Part("MEM_INFO_REF", {"MULTI"}, "SHARED_PB_DESC")
        start == <<Batch(MAX_SUBMEMINFOS + 4), Lookup("DEV_NODE")>>
    IN  {start \o <<KM, Commit>>,
         start \o <<Creates("SHARED_PB_DESC", {"MEM_INFO"}), Made("SHARED_PB_DESC", {}),
                    part, part, part, part, Below("MEM_INFO_REF", "MEM_INFO_REF"), Commit>>}
SGXUnrefSharedPBDescBW == Unregisters("SHARED_PB_DESC")

(* The memory becomes a part of the descriptor; its handles are gone even   *)
(* if that fails.                                                           *)
PartsFound ==
    <<Batch(1), Lookup("DEV_NODE"), Lookup("SHARED_SYS_MEM_INFO"), Lookup("MEM_INFO"), KM>>
SGXAddSharedPBDescBW ==
    {PartsFound \o
     <<Release("SHARED_SYS_MEM_INFO"), Release("MEM_INFO"),
       Absorbs("SHARED_PB_DESC", {"SHARED_SYS_MEM_INFO", "MEM_INFO"}),
       Made("SHARED_PB_DESC", {}), Commit>>}

=============================================================================
