---------------------------- MODULE ServicesCalls ----------------------------
(***************************************************************************)
(* The bridge calls of the services, each a set of paths: the steps of the *)
(* wrapper when nothing fails, in the code's order.  What a wrapper only   *)
(* reads or converts is left out.                                          *)
(***************************************************************************)
EXTENDS BridgeSteps

(* The most heaps a context has, and buffers a chain has.                   *)
MAX_CLIENT_HEAPS      == 2
MAX_SWAPCHAIN_BUFFERS == 1

\* Calls that look something up, if anything, and have the kernel do the rest.
Reads(keys) == {[i \in DOMAIN keys |-> Lookup(keys[i])] \o <<KM>>}

-----------------------------------------------------------------------------
\* Devices, contexts and heaps.
EnumerateDevicesBW == {<<KM>>}
AcquireDeviceDataBW == {<<KM, Checked(Whole("DEV_NODE"))>>}

(* A process has one context per device: asking again finds its handles.    *)
CreateDeviceMemContextBW ==
    {<<Batch(MAX_CLIENT_HEAPS + 1), Lookup("DEV_NODE"),
       Missing("DEV_MEM_CONTEXT"), Creates("DEV_MEM_CONTEXT", {"DEV_MEM_HEAP"}),
       Made("DEV_MEM_CONTEXT", {}), Whole("DEV_MEM_HEAP"),
       Part("DEV_MEM_HEAP", {}, "DEV_MEM_CONTEXT"), Commit>>,
     <<Batch(MAX_CLIENT_HEAPS + 1), Lookup("DEV_NODE"), KM,
       Find("DEV_MEM_CONTEXT"), Whole("DEV_MEM_HEAP"), Find("DEV_MEM_HEAP"), Commit>>}

\* Mutant of DestroyDeviceMemContextBW: the handle goes while the context stays.
DestroyDeviceMemContextBWAlways ==
    {<<Lookup("DEV_NODE"), Lookup("DEV_MEM_CONTEXT"), Release("DEV_MEM_CONTEXT"), Destroys("DEV_MEM_CONTEXT")>>}

(* The context stays, with its handle, as long as it is in use.             *)
DestroyDeviceMemContextBW ==
    {<<Lookup("DEV_NODE"), Lookup("DEV_MEM_CONTEXT"), Destroys("DEV_MEM_CONTEXT"), Release("DEV_MEM_CONTEXT")>>,
     <<Lookup("DEV_NODE"), Lookup("DEV_MEM_CONTEXT"), KM>>}
GetDeviceMemHeapInfoBW ==
    {<<Batch(MAX_CLIENT_HEAPS), Lookup("DEV_NODE"), Lookup("DEV_MEM_CONTEXT"), KM,
       Whole("DEV_MEM_HEAP"), Find("DEV_MEM_HEAP"), Commit>>}
MMU_GetPDDevPAddrBW == Reads(<<"DEV_MEM_CONTEXT">>)

-----------------------------------------------------------------------------
\* Memory.  A sync info is a part of the memory it guards.

\* Mutant of AllocDeviceMemBW: the batch has no room for the sync info.
AllocDeviceMemBWShort ==
    {<<Batch(1), Lookup("DEV_NODE"), Lookup("DEV_MEM_HEAP"), Creates("MEM_INFO", {"SYNC_INFO"}),
       Made("MEM_INFO", {}), Part("SYNC_INFO", {}, "MEM_INFO"), Commit>>}

MemoryNamed(flags) == <<Made("MEM_INFO", {}), Part("SYNC_INFO", flags, "MEM_INFO"), Commit>>

AllocDeviceMemBW ==
    {<<Batch(2), Lookup("DEV_NODE"), Lookup("DEV_MEM_HEAP"), Creates("MEM_INFO", parts)>>
        \o MemoryNamed({}) : parts \in {{}, {"SYNC_INFO"}}}

\* Mutant of FreeDeviceMemBW: the handle goes before the memory is freed.
FreeDeviceMemBWEarly == {<<Lookup("DEV_NODE"), Lookup("MEM_INFO"), Release("MEM_INFO"), Destroys("MEM_INFO")>>}

FreeDeviceMemBW == {<<Lookup("DEV_NODE"), Lookup("MEM_INFO"), Destroys("MEM_INFO"), Release("MEM_INFO")>>}
ExportDeviceMemBW == {<<Lookup("DEV_NODE"), Lookup("MEM_INFO"), Exports("MEM_INFO")>>}
MapDeviceMemoryBW ==
    {<<Batch(2), Lookup("EXPORTED"), Lookup("DEV_MEM_HEAP"), Shares("MEM_INFO", "EXPORTED")>>
        \o MemoryNamed({"MULTI"})}
UnmapDeviceMemoryBW == {<<Lookup("MEM_INFO"), Destroys("MEM_INFO"), Release("MEM_INFO")>>}

WrapExtMemoryBW ==
    {<<Batch(2), Lookup("DEV_NODE"), Lookup("DEV_MEM_CONTEXT"), Creates("MEM_INFO", {"SYNC_INFO"})>>
        \o MemoryNamed({})}
UnwrapExtMemoryBW == {<<Lookup("MEM_INFO"), Destroys("MEM_INFO"), Release("MEM_INFO")>>}

AllocSharedSysMemoryBW ==
    {<<Batch(1), Creates("SHARED_SYS_MEM_INFO", {}), Made("SHARED_SYS_MEM_INFO", {}), Commit>>}
FreeSharedSysMemoryBW ==
    {<<Lookup("SHARED_SYS_MEM_INFO"), Destroys("SHARED_SYS_MEM_INFO"), Release("SHARED_SYS_MEM_INFO")>>}

(* Another handle for memory, under the parent of the one there is.         *)
MapMemInfoMemBW ==
    {<<Batch(2), LookupAny({"MEM_INFO", "MEM_INFO_REF", "SHARED_SYS_MEM_INFO"}, "MEMORY"),
       Again("MEM_INFO_REF", "MEMORY"), Part("SYNC_INFO", {"MULTI"}, "MEM_INFO_REF"), Commit>>}

(* Mapped memory is found by whichever handle there is for it.              *)
OfMemory == {"MEM_INFO", "MEM_INFO_REF", "SHARED_SYS_MEM_INFO", "SOC_TIMER"}
MapOSMemHandleToMMapDataBW == {<<LookupAny(OfMemory, "MEMORY"), KM>>}
MapReleaseMMapDataBW       == {<<LookupAny(OfMemory, "MEMORY"), KM>>}
GetFreeDeviceMemBW             == {<<KM>>}
ChangeDeviceMemoryAttributesBW == {<<>>}

-----------------------------------------------------------------------------
\* Displays, swap chains, buffer devices.  The buffers of a chain are parts of
\* it, the system buffer is a part of the open display.
EnumerateDCBW == {<<KM>>}
OpenDCDeviceBW ==
    {<<Batch(1), Lookup("DEV_NODE"), Creates("DISP_INFO", {"DISP_BUFFER"}), Made("DISP_INFO", {}), Commit>>}
CloseDCDeviceBW == {<<Lookup("DISP_INFO"), Destroys("DISP_INFO"), Release("DISP_INFO")>>}
EnumDCFormatsBW == Reads(<<"DISP_INFO">>)
EnumDCDimsBW    == Reads(<<"DISP_INFO">>)
GetDCInfoBW     == Reads(<<"DISP_INFO">>)
GetDCSystemBufferBW ==
    {<<Batch(1), Lookup("DISP_INFO"), KM,
       Part("DISP_BUFFER", {"PRIVATE", "SHARED"}, "DISP_INFO"), Commit>>}
CreateDCSwapChainBW ==
    {<<Batch(1), Lookup("DISP_INFO"), Creates("DISP_SWAP_CHAIN", {"DISP_BUFFER"}),
       MadeUnder("DISP_SWAP_CHAIN", "DISP_INFO"), Commit>>}
DestroyDCSwapChainBW ==
    {<<Lookup("DISP_SWAP_CHAIN"), Destroys("DISP_SWAP_CHAIN"), Release("DISP_SWAP_CHAIN")>>}
SetDCDstRectBW      == Reads(<<"DISP_INFO", "DISP_SWAP_CHAIN">>)
SetDCSrcRectBW      == Reads(<<"DISP_INFO", "DISP_SWAP_CHAIN">>)
SetDCDstColourKeyBW == Reads(<<"DISP_INFO", "DISP_SWAP_CHAIN">>)
SetDCSrcColourKeyBW == Reads(<<"DISP_INFO", "DISP_SWAP_CHAIN">>)
GetDCBuffersBW ==
    {<<Batch(MAX_SWAPCHAIN_BUFFERS), Lookup("DISP_INFO"), Lookup("DISP_SWAP_CHAIN"), KM,
       Part("DISP_BUFFER", {"PRIVATE", "SHARED"}, "DISP_SWAP_CHAIN"), Commit>>}
SwapToDCBufferBW == {<<Lookup("DISP_INFO"), LookupSub("DISP_BUFFER", "DISP_INFO"), KM>>}
SwapToDCSystemBW == {<<Lookup("DISP_INFO"), LookupSub("DISP_SWAP_CHAIN", "DISP_INFO"), KM>>}

(* Memory of a buffer, under the buffer's handle.                           *)
MapDeviceClassMemoryBW ==
    {<<Batch(2), LookupAny({"DISP_BUFFER", "BUF_BUFFER"}, "BUFFER"), Lookup("DEV_MEM_CONTEXT"),
       Shares("MEM_INFO", "BUFFER"), MadeUnder("MEM_INFO", "BUFFER"),
       Part("SYNC_INFO", {"MULTI"}, "MEM_INFO"), Commit>>}
UnmapDeviceClassMemoryBW == {<<Lookup("MEM_INFO"), Destroys("MEM_INFO"), Release("MEM_INFO")>>}

OpenBCDeviceBW ==
    {<<Batch(1), Lookup("DEV_NODE"), Creates("BUF_INFO", {"BUF_BUFFER"}), Made("BUF_INFO", {}), Commit>>}
CloseBCDeviceBW == {<<Lookup("BUF_INFO"), Destroys("BUF_INFO"), Release("BUF_INFO")>>}
GetBCInfoBW     == Reads(<<"BUF_INFO">>)
GetBCBufferBW ==
    {<<Batch(1), Lookup("BUF_INFO"), KM, Part("BUF_BUFFER", {"PRIVATE", "SHARED"}, "BUF_INFO"), Commit>>}

-----------------------------------------------------------------------------
\* Connections, the server that initialises the device, and the dispatcher's own.
ConnectBW    == {<<>>}
DisconnectBW == {<<>>}
InitSrvConnectBW    == {<<Server({"notRun"}, "running")>>}
InitSrvDisconnectBW == {<<InitOnly, Server({"running"}, result)>> : result \in {"ok", "failed"}}
DummyBW == {<<>>}

-----------------------------------------------------------------------------
\* Events.

MiscInfoNamed == {<<Checked(Whole("SHARED_EVENT_OBJECT"))>>,
                  <<Checked(Whole("SHARED_EVENT_OBJECT")), Checked(Whole("SOC_TIMER"))>>}
GetMiscInfoBW == {<<KM>> \o named : named \in MiscInfoNamed}
EventObjectWaitBW == Reads(<<"EVENT_OBJECT_CONNECT">>)
EventObjectOpenBW ==
    {<<Batch(1), Lookup("SHARED_EVENT_OBJECT"), Creates("EVENT_OBJECT_CONNECT", {}),
       Made("EVENT_OBJECT_CONNECT", {"MULTI"}), Commit>>}
EventObjectCloseBW ==
    {<<Lookup("SHARED_EVENT_OBJECT"), Lookup("EVENT_OBJECT_CONNECT"), Release("EVENT_OBJECT_CONNECT"),
       Destroys("EVENT_OBJECT_CONNECT")>>}

-----------------------------------------------------------------------------
\* Sync infos, and operations on them.
AllocSyncInfoBWKeeps ==  \* Mutant of AllocSyncInfoBW: without a handle it is not freed.
    {<<Batch(1), Lookup("DEV_NODE"), Creates("SYNC_INFO", {}),
       Checked(Made("SYNC_INFO", {"PRIVATE"})), Commit>>}

AllocSyncInfoBW ==
    {<<Batch(1), Lookup("DEV_NODE"), Creates("SYNC_INFO", {}),
       CheckedOrFreed(Made("SYNC_INFO", {"PRIVATE"})), Commit>>}
FreeSyncInfoBW == {<<Lookup("SYNC_INFO"), Release("SYNC_INFO"), Destroys("SYNC_INFO")>>}

CreateSyncInfoModObjBW ==
    {<<Batch(1), Creates("SYNC_INFO_MOD_OBJ", {}),
       Checked(Made("SYNC_INFO_MOD_OBJ", {"PRIVATE"})), Commit>>}
(* It fails while an operation is modified.                                 *)
DestroySyncInfoModObjBW ==
    {<<Lookup("SYNC_INFO_MOD_OBJ"), KM, Release("SYNC_INFO_MOD_OBJ"), Destroys("SYNC_INFO_MOD_OBJ")>>}
ModifyPendingSyncOpsBW  == Reads(<<"SYNC_INFO_MOD_OBJ", "SYNC_INFO">>)
ModifyCompleteSyncOpsBW == Reads(<<"SYNC_INFO_MOD_OBJ">>)
SyncOpsTakeTokenBW      == Reads(<<"SYNC_INFO">>)
SyncOpsFlushToTokenBW   == Reads(<<"SYNC_INFO">>)
SyncOpsFlushToModObjBW  == Reads(<<"SYNC_INFO_MOD_OBJ">>)
SyncOpsFlushToDeltaBW   == Reads(<<"SYNC_INFO">>)

=============================================================================
