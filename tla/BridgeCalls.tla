----------------------------- MODULE BridgeCalls -----------------------------
(***************************************************************************)
(* A process that makes bridge calls: BridgedDispatchKM, which admits a    *)
(* call or not, runs its wrapper, and gives a batch back that the wrapper  *)
(* left open.  The bridge lock is held all along, so a call is one action. *)
(*                                                                         *)
(* The client is a legal one: it destroys and exports only what it made    *)
(* for itself, and gives no handle of what is gone.  Any step that can     *)
(* fail may.                                                               *)
(***************************************************************************)
EXTENDS ServicesCalls, SGXCalls

CONSTANTS
    Topics,         \* of the calls, below: one process keeps to one topic
    MaxOwn,         \* bounds, for each topic: the objects a process makes for
    MaxHandles      \* itself, and its handles, when it makes another

VARIABLES
    topic,
    world,      \* what the process has
    last        \* how the last call ended

vars == <<topic, world, last>>

-----------------------------------------------------------------------------
MemoryCalls ==
    UNION {EnumerateDevicesBW, AcquireDeviceDataBW, CreateDeviceMemContextBW, DestroyDeviceMemContextBW,
           GetDeviceMemHeapInfoBW, MMU_GetPDDevPAddrBW, AllocDeviceMemBW, FreeDeviceMemBW,
           ExportDeviceMemBW, MapDeviceMemoryBW, UnmapDeviceMemoryBW, GetFreeDeviceMemBW,
           ChangeDeviceMemoryAttributesBW, DummyBW}
WrapCalls ==
    UNION {DestroyDeviceMemContextBW, WrapExtMemoryBW,
           UnwrapExtMemoryBW, MapMemInfoMemBW, MapOSMemHandleToMMapDataBW, MapReleaseMMapDataBW,
           AllocSharedSysMemoryBW, FreeSharedSysMemoryBW}
DisplayCalls ==
    UNION {EnumerateDCBW, OpenDCDeviceBW, CloseDCDeviceBW,
           EnumDCFormatsBW, EnumDCDimsBW, GetDCInfoBW, GetDCSystemBufferBW, CreateDCSwapChainBW,
           DestroyDCSwapChainBW, SetDCDstRectBW, SetDCSrcRectBW, SetDCDstColourKeyBW, SetDCSrcColourKeyBW,
           GetDCBuffersBW, SwapToDCBufferBW, SwapToDCSystemBW, MapDeviceClassMemoryBW,
           UnmapDeviceClassMemoryBW, MapMemInfoMemBW}
BufferCalls ==
    UNION {OpenBCDeviceBW, CloseBCDeviceBW, GetBCInfoBW,
           GetBCBufferBW, MapDeviceClassMemoryBW, UnmapDeviceClassMemoryBW, MapMemInfoMemBW}
SyncCalls ==
    UNION {AcquireDeviceDataBW, GetMiscInfoBW, EventObjectWaitBW, EventObjectOpenBW, EventObjectCloseBW,
           AllocSyncInfoBW, FreeSyncInfoBW, CreateSyncInfoModObjBW, DestroySyncInfoModObjBW,
           ModifyPendingSyncOpsBW, ModifyCompleteSyncOpsBW, SyncOpsTakeTokenBW, SyncOpsFlushToTokenBW,
           SyncOpsFlushToModObjBW, SyncOpsFlushToDeltaBW}
CoreCalls ==
    UNION {AllocDeviceMemBW, AllocSharedSysMemoryBW,
           SGXDoKickBW, SGXScheduleProcessQueuesBW, SGXSubmitTransferBW, SGXSubmit2DBW,
           SGX2DQueryBlitsCompleteBW, SGXFlushHWRenderTargetBW, SGXFindSharedPBDescBW,
           SGXUnrefSharedPBDescBW, SGXAddSharedPBDescBW}
ContextCalls ==
    UNION {AcquireDeviceDataBW, SGXGetClientInfoBW, SGXReleaseClientInfoBW, SGXGetInternalDevInfoBW,
           SGXGetMiscInfoBW, SGXReadHWPerfCBBW, SGXRegisterHWRenderContextBW, SGXUnregisterHWRenderContextBW,
           SGXRegisterHWTransferContextBW, SGXUnregisterHWTransferContextBW,
           SGXRegisterHW2DContextBW, SGXUnregisterHW2DContextBW}
ServerCalls ==
    UNION {AcquireDeviceDataBW, SGXGetInfoForSrvinitBW, AllocDeviceMemBW, SGXDevInitPart2BW}

Calls == [memory |-> MemoryCalls, wrap |-> WrapCalls, display |-> DisplayCalls, buffer |-> BufferCalls, sync |-> SyncCalls,
          core |-> CoreCalls, context |-> ContextCalls, server |-> ServerCalls]

(* Calls that are admitted before the server has run.                       *)
EarlyCalls == UNION {ConnectBW, DisconnectBW, InitSrvConnectBW, InitSrvDisconnectBW}

(* Calls that release handles, or make something, before they may fail.     *)
ConsumingCalls ==
    UNION {EventObjectCloseBW, DestroySyncInfoModObjBW, CreateSyncInfoModObjBW, FreeSyncInfoBW,
           SGXAddSharedPBDescBW, SGXDevInitPart2BW, GetMiscInfoBW}
(* A call whose batch may be too small.                                     *)
ShortCalls == SGXFindSharedPBDescBW

-----------------------------------------------------------------------------
Own(w) == {o \in DOMAIN w.objects : w.objects[o].own}
Steps(path, kinds) == {s \in Range(path) : s.do \in kinds}

Short(M, path) == M.batch # 0 /\ M.taken > M.batch /\ path \notin ShortCalls

Ended(how, path, open, short) ==
    [how |-> how, consuming |-> how = "failed" /\ path \in ConsumingCalls, open |-> open, short |-> short]
NoCall == [how |-> "none", consuming |-> FALSE, open |-> 0, short |-> FALSE]

(* Before the calls of some topics the process has made two others.         *)
Started ==
    LET device == Course(CHOOSE p \in AcquireDeviceDataBW : TRUE, NothingYet("ok"), <<>>).at
        path   == CHOOSE p \in CreateDeviceMemContextBW : Steps(p, {"creates"}) # {}
    IN  Course(path, device.w, device.args).at.w
Beginning == CASE topic = "server" -> NothingYet("notRun")
               [] topic \in {"wrap", "display", "buffer", "core"} -> Started
               [] OTHER -> NothingYet("ok")

Init ==
    /\ topic \in Topics
    /\ world = Beginning
    /\ last = NoCall

-----------------------------------------------------------------------------
(* What may be given to a call, for each thing it looks up.                 *)
Args(path) ==
    LET given == Steps(path, {"lookup", "sub", "optional"})
        mine  == {s.key : s \in Steps(path, {"destroys", "exports"})} \cup
                 UNION {s.keys : s \in Steps(path, {"absorbs"})}
        choices(s) == IF s.key = "EXPORTED" THEN world.exported
                      ELSE {h \in DOMAIN world.handles :
                               /\ world.handles[h].type \in s.types
                               /\ world.handles[h].object \in DOMAIN world.objects
                               /\ s.key \in mine => world.handles[h].object \in Own(world)}
        found == {s \in given : choices(s) # {}}
        one   == [k \in {s.key : s \in found} |-> UNION {choices(s) : s \in {x \in found : x.key = k}}]
    IN  {f \in [DOMAIN one -> UNION Range(one)] : \A k \in DOMAIN one : f[k] \in one[k]}

(* PVRSRVGetInitServerState.                                                *)
Ready == world.init \/ world.server = "ok"
Admitted(path) == IF path \in EarlyCalls THEN Ready \/ world.server = "notRun" ELSE Ready

WithinBounds(path) ==
    /\ Steps(path, {"creates", "shares", "absorbs"}) # {} => Cardinality(Own(world)) < MaxOwn[topic]
    /\ Steps(path, {"name", "alloc", "allocOrFree"}) # {} => Cardinality(DOMAIN world.handles) < MaxHandles[topic]

(* The wrapper has succeeded.                                               *)
Succeeds(path, c) ==
    /\ ~c.stuck
    /\ world' = c.at.w
    /\ last' = Ended("done", path, c.at.batch, path # <<>> /\ Short(Last(c.before), path))

(* A handle of the batch could not be made, which only the commit sees, and *)
(* does not tell: the call reports success.                                 *)
Spoiled(path, c) ==
    /\ ~c.stuck /\ path # <<>> /\ Last(path) = Commit
    /\ LET M == Last(c.before)
       IN  /\ \E h \in M.fresh : "MULTI" \notin M.w.handles[h].flags \/ M.taken > M.batch
           /\ world' = Settled([M EXCEPT !.failures = 1], TRUE).w
           /\ last' = Ended("spoiled", path, 0, Short(M, path))

\* Mutant of Settles: an open batch is left open.
SettlesNot(M) == M

Settles(M) == Settled(M, FALSE)

(* The wrapper has given up at a step.                                      *)
Fails(path, c) ==
    \E k \in DOMAIN c.before :
        /\ path[k].do \notin NeverFails
        /\ LET M == Settles(Fail(c.before[k], path[k]))
           IN  world' = M.w /\ last' = Ended("failed", path, M.batch, FALSE)

BridgedDispatchKM(path) ==
    /\ Admitted(path) /\ WithinBounds(path)
    /\ \E args \in Args(path) :
          LET c == Course(path, world, args)
          IN  Succeeds(path, c) \/ Spoiled(path, c) \/ Fails(path, c)
    /\ UNCHANGED topic

(* Its handles and its objects go with the process, and another begins.     *)
(* That a server has gone before it was finished is noticed nowhere.        *)
ProcessEnds ==
    /\ world' = [Beginning EXCEPT !.server = world.server]
    /\ last' = NoCall
    /\ UNCHANGED topic

Next ==
    \/ \E path \in Calls[topic] \cup EarlyCalls : BridgedDispatchKM(path)
    \/ ProcessEnds

-----------------------------------------------------------------------------
Heads(h) == {x \in DOMAIN world.handles : h \in Family(world.handles, x)}

(* A reference to the mapped memory of a buffer is put under the buffer's   *)
(* handle, not the memory's: it outlives the memory.                        *)
UnderBuffer(h) == \E x \in Heads(h) : /\ world.handles[x].type = "MEM_INFO_REF"
                                      /\ \E y \in Heads(x) : world.handles[y].type \in {"DISP_BUFFER", "BUF_BUFFER"}

(* Every handle's parent is there, and so is the object it names, of its    *)
(* type, except for a reference under a buffer; what is exported is there;  *)
(* a call leaves no batch open, and made no more handles than it asked for. *)
HandlesName ==
    /\ \A h \in DOMAIN world.handles : world.handles[h].parent \in {0} \cup DOMAIN world.handles
    /\ \A h \in DOMAIN world.handles :
          LET x == world.handles[h]
          IN  ~UnderBuffer(h) => /\ x.object \in DOMAIN world.objects
                                 /\ \/ x.type = world.objects[x.object].type
                                    \/ x.type = "MEM_INFO_REF" /\ world.objects[x.object].type
                                                                   \in {"MEM_INFO", "SHARED_SYS_MEM_INFO"}
    /\ world.exported \subseteq DOMAIN world.objects
    /\ last.open = 0 /\ ~last.short

Named(w) == {w.handles[h].object : h \in DOMAIN w.handles}

(* A call that fails leaves the process what it had, unless it is one that  *)
(* consumes; one that succeeds has made no object without a handle, unless  *)
(* the batch was spoiled.                                                   *)
AllOrNothing ==
    [][/\ last'.how = "failed" /\ ~last'.consuming => world' = world
       /\ last'.how = "done" => Own(world') \ Own(world) \subseteq Named(world')]_vars

=============================================================================
