---------------------------- MODULE CommandQueue ----------------------------
(***************************************************************************)
(* The kernel command queues of queue.c together with everything that      *)
(* drives them: the bridge call that inserts a flip (deviceclass.c), the   *)
(* MISR work item and the hardware-recovery pass that walk the queues      *)
(* (pvrsrv.c, sgxinit.c), the frame-buffer driver that swaps a buffer on   *)
(* its own work queue and completes the command (dc_omapfb3_linux), and    *)
(* the renders SGX runs on the same surfaces (sgxkick.c).                  *)
(*                                                                         *)
(* Every surface has one sync object: four counters, the operations issued *)
(* (pending) and finished (complete), for reads and for writes.  An        *)
(* operation remembers the pending counts it saw when it was issued and    *)
(* may start when the complete counts have reached exactly these.  The     *)
(* queues are those of live swap chains; their creation and destruction    *)
(* are the business of other modules.  A command is counted as one unit of *)
(* queue space here: CommandRing models the offsets.                       *)
(***************************************************************************)
EXTENDS Naturals, Sequences, FiniteSets

CONSTANTS
    Devices,     \* the display devices, each with one flip command type
    Syncs,       \* the surfaces, each named by its sync object
    psQueueList, \* the queues in list order, one per swap chain
    DeviceOf,    \* DeviceOf[q]: the device a swap chain belongs to
    BuffersOf,   \* BuffersOf[q]: the surfaces of a swap chain
    SystemBuffer,\* SystemBuffer[d]: the surface of the device's frame buffer
    NoBuffer,    \* the null buffer pointer
    NumSlots,    \* DC_NUM_COMMANDS_PER_TYPE
    QueueCap,    \* commands that fit in a queue
    MaxOps,      \* bound: MaxOps[s] operations are issued on surface s
    ClipRects    \* bound: the clip rectangle counts a client passes

Queues  == {psQueueList[i] : i \in DOMAIN psQueueList}
Slots   == 0 .. NumSlots - 1
Walkers == {"MISR", "HWR"}
Chain(q) == BuffersOf[q] \cup {SystemBuffer[DeviceOf[q]]}

ASSUME ListAssumption ==
    /\ psQueueList \in Seq(Queues)
    /\ \A i, j \in DOMAIN psQueueList : psQueueList[i] = psQueueList[j] => i = j
ASSUME ConstantsAssumption ==
    /\ DeviceOf \in [Queues -> Devices]
    /\ BuffersOf \in [Queues -> SUBSET Syncs]
    /\ SystemBuffer \in [Devices -> Syncs]
    /\ \A p, q \in Queues : DeviceOf[p] = DeviceOf[q] => p = q  \* FLIP_CHAIN_EXISTS
    /\ \A p, q \in Queues : p # q => Chain(p) \cap Chain(q) = {}
    /\ NoBuffer \notin Syncs
    /\ NumSlots \in Nat \ {0}
    /\ QueueCap \in Nat \ {0}
    /\ MaxOps \in [Syncs -> Nat]
    /\ ClipRects \in SUBSET Nat

VARIABLES
    syncData,    \* PVRSRV_SYNC_DATA of every surface
    cmds,        \* the commands between a queue's read and write offsets
    resource,    \* the ID that holds sQProcessResource, or "free"
    misrPending, \* the MISR work item is queued
    walker,      \* the threads running PVRSRVProcessQueues
    slot,        \* apsCmdCompleteData
    ccbOffset,   \* ui32CCBOffset
    swapWork,    \* the buffers on the swap work queue of a device
    hCmdComplete,\* OMAPLFB_BUFFER.hCmdComplete: the slot a buffer completes
    handler,     \* OMAPLFBSwapHandler of a device
    lastFlip,    \* psLastFlipBuffer of a swap chain
    client,      \* the bridge call in progress (the bridge runs one at a time)
    renders,     \* the renders SGX has been given and not finished
    running,     \* those it is executing
    ukKick,      \* the microkernel has been told to look at its queues
    irq          \* SGX raised an interrupt nobody has handled

vars == <<syncData, cmds, resource, misrPending, walker, slot, ccbOffset,
          swapWork, hCmdComplete, handler, lastFlip, client, renders,
          running, ukKick, irq>>

queueVars  == <<cmds, resource, walker, slot, ccbOffset>>
driverVars == <<swapWork, hCmdComplete, handler>>
clientVars == <<lastFlip, client>>
gpuVars    == <<renders, running, irq>>

-----------------------------------------------------------------------------
(* An operation on a surface, with the pending counts it was issued at.     *)
Op  == [sync : Syncs, kind : {"read", "write"}, wop : Nat, rop : Nat]
Cmd == [buf : Syncs, ops : SUBSET Op, rects : Nat]

Issue(s, kind) ==
    [sync |-> s, kind |-> kind, wop |-> syncData[s].wop, rop |-> syncData[s].rop]

AddPending(s, kind) ==
    IF kind = "write" THEN [syncData EXCEPT ![s].wop = @ + 1]
                      ELSE [syncData EXCEPT ![s].rop = @ + 1]

AddComplete(s, kind) ==
    IF kind = "write" THEN [syncData EXCEPT ![s].woc = @ + 1]
                      ELSE [syncData EXCEPT ![s].roc = @ + 1]

Met(op)   == syncData[op.sync].woc = op.wop /\ syncData[op.sync].roc = op.rop
Stale(op) == syncData[op.sync].woc >= op.wop /\ syncData[op.sync].roc >= op.rop

(* Mutants of DependenciesMet: the write count is not looked at; a flushing *)
(* pass looks at nothing.                                                   *)
DependenciesMetReadsOnly(ops, bFlush) ==
    \A op \in ops : syncData[op.sync].roc = op.rop \/ (bFlush /\ Stale(op))
DependenciesMetFlushAll(ops, bFlush) == bFlush \/ \A op \in ops : Met(op)

DependenciesMet(ops, bFlush) ==
    \A op \in ops : Met(op) \/ (bFlush /\ Stale(op))

HasRoom(s) == syncData[s].wop + syncData[s].rop < MaxOps[s]

-----------------------------------------------------------------------------
Init ==
    /\ syncData = [s \in Syncs |-> [wop |-> 0, rop |-> 0, woc |-> 0, roc |-> 0]]
    /\ cmds = [q \in Queues |-> <<>>]
    /\ resource = "free"
    /\ misrPending = FALSE
    /\ walker = [w \in Walkers |-> [pc |-> "idle", todo |-> <<>>, flush |-> FALSE]]
    /\ slot = [d \in Devices |-> [k \in Slots |-> [bInUse |-> FALSE, ops |-> {}]]]
    /\ ccbOffset = [d \in Devices |-> 0]
    /\ swapWork = [d \in Devices |-> <<>>]
    /\ hCmdComplete = [s \in Syncs |-> 0]
    /\ handler = [d \in Devices |-> [pc |-> "idle", buf |-> NoBuffer, slot |-> 0, todo |-> {}]]
    /\ lastFlip = [q \in Queues |-> NoBuffer]
    /\ client = [pc |-> "idle"]
    /\ renders = {}
    /\ running = {}
    /\ ukKick = FALSE
    /\ irq = FALSE

-----------------------------------------------------------------------------
(* The client: PVRSRVSwapToDCBufferKM and PVRSRVSwapToDCSystemKM.           *)

(* The surfaces a flip reads: the new one and the one it replaces.          *)
SrcSyncs(q, buf) ==
    IF lastFlip[q] # NoBuffer /\ lastFlip[q] # buf
    THEN <<buf, lastFlip[q]>>
    ELSE <<buf>>

BeginSwap(q, buf, rects) ==
    /\ client.pc = "idle"
    /\ \A i \in DOMAIN SrcSyncs(q, buf) : HasRoom(SrcSyncs(q, buf)[i])
    /\ client' = [pc |-> "space", q |-> q, todo |-> SrcSyncs(q, buf),
                  cmd |-> [buf |-> buf, ops |-> {}, rects |-> rects]]
    /\ UNCHANGED <<syncData, misrPending, lastFlip, ukKick, queueVars, driverVars, gpuVars>>

SwapToDCBufferKM(q) == \E buf \in BuffersOf[q], n \in ClipRects : BeginSwap(q, buf, n)
SwapToDCSystemKM(q) == BeginSwap(q, SystemBuffer[DeviceOf[q]], 0)

(* The wait of PVRSRVGetQueueSpaceKM ends with space or with the timeout,   *)
(* before any counter has moved; the caller then sees PVRSRV_ERROR_RETRY.   *)
GetQueueSpaceKM ==
    /\ client.pc = "space"
    /\ \/ /\ Len(cmds[client.q]) < QueueCap
          /\ client' = [client EXCEPT !.pc = "insert"]
       \/ /\ Len(cmds[client.q]) >= QueueCap
          /\ client' = [pc |-> "idle"]
    /\ UNCHANGED <<syncData, misrPending, lastFlip, ukKick, queueVars, driverVars, gpuVars>>

(* One turn of the source loop of PVRSRVInsertCommandKM.                    *)
InsertCommandKM ==
    /\ client.pc = "insert"
    /\ client.todo # <<>>
    /\ LET s == Head(client.todo)
       IN  /\ client' = [client EXCEPT !.todo = Tail(@),
                                       !.cmd.ops = @ \cup {Issue(s, "read")}]
           /\ syncData' = AddPending(s, "read")
    /\ UNCHANGED <<misrPending, lastFlip, ukKick, queueVars, driverVars, gpuVars>>

SubmitCommandKM ==
    /\ client.pc = "insert"
    /\ client.todo = <<>>
    /\ cmds' = [cmds EXCEPT ![client.q] = Append(@, client.cmd)]
    /\ client' = [pc |-> "schedule", q |-> client.q, buf |-> client.cmd.buf]
    /\ UNCHANGED <<syncData, resource, misrPending, walker, slot, ccbOffset,
                   lastFlip, ukKick, driverVars, gpuVars>>

(* OSScheduleMISR, then the chain remembers the buffer it shows next.       *)
ScheduleSwap ==
    /\ client.pc = "schedule"
    /\ misrPending' = TRUE
    /\ lastFlip' = [lastFlip EXCEPT ![client.q] = client.buf]
    /\ client' = [pc |-> "idle"]
    /\ UNCHANGED <<syncData, ukKick, queueVars, driverVars, gpuVars>>

(* SGXDoKickKM renders to a surface: one more pending write, and a kick.    *)
DoKickKM(s) ==
    /\ client.pc = "idle"
    /\ HasRoom(s)
    /\ renders' = renders \cup {Issue(s, "write")}
    /\ syncData' = AddPending(s, "write")
    /\ ukKick' = TRUE
    /\ UNCHANGED <<misrPending, running, irq, queueVars, driverVars, clientVars>>

-----------------------------------------------------------------------------
(* The walkers: PVRSRVProcessQueues.  The MISR runs a flushing pass first   *)
(* when the device's handler finds that SGX asked for a recovery; the other *)
(* walker is the recovery the lockup timer starts.  A recovery kicks SGX    *)
(* before it walks the queues; one that cannot have the power lock does     *)
(* nothing at all.                                                          *)

StartMISR ==
    /\ misrPending
    /\ walker["MISR"].pc = "idle"
    /\ misrPending' = FALSE
    /\ \E f \in BOOLEAN :
          /\ walker' = [walker EXCEPT !["MISR"] = [pc |-> "spin", todo |-> <<>>, flush |-> f]]
          /\ ukKick' = (f \/ ukKick)
    /\ UNCHANGED <<syncData, cmds, resource, slot, ccbOffset, driverVars, clientVars, gpuVars>>

HWRecoveryResetSGX ==
    /\ walker["HWR"].pc = "idle"
    /\ walker' = [walker EXCEPT !["HWR"] = [pc |-> "spin", todo |-> <<>>, flush |-> TRUE]]
    /\ ukKick' = TRUE
    /\ UNCHANGED <<syncData, cmds, resource, misrPending, slot, ccbOffset, driverVars,
                   clientVars, gpuVars>>

(* Mutant of LockQueues: the result of OSLockResource is not looked at.     *)
LockQueuesNoTest(w) ==
    /\ walker[w].pc = "spin"
    /\ resource' = "ISR_ID"
    /\ walker' = [walker EXCEPT ![w].pc = "walk", ![w].todo = psQueueList]
    /\ UNCHANGED <<syncData, cmds, misrPending, slot, ccbOffset, ukKick,
                   driverVars, clientVars, gpuVars>>

LockQueues(w) ==
    /\ walker[w].pc = "spin"
    /\ resource = "free"
    /\ resource' = "ISR_ID"
    /\ walker' = [walker EXCEPT ![w].pc = "walk", ![w].todo = psQueueList]
    /\ UNCHANGED <<syncData, cmds, misrPending, slot, ccbOffset, ukKick,
                   driverVars, clientVars, gpuVars>>

CurrentSlot(d) == slot[d][ccbOffset[d]]
NextQueue(w)   == [walker EXCEPT ![w].todo = Tail(@)]

AdvanceCCB(d) == [ccbOffset EXCEPT ![d] = (@ + 1) % NumSlots]

(* The display driver takes a flip unless its data size is not that of a   *)
(* flip without clip rectangles.                                            *)
FlipAccepted(cmd) == cmd.rects = 0

(* queue_work does nothing for a buffer whose work item is still queued.    *)
QueueBufferForSwap(d, buf) ==
    IF \E i \in DOMAIN swapWork[d] : swapWork[d][i] = buf
    THEN swapWork
    ELSE [swapWork EXCEPT ![d] = Append(@, buf)]

(* Mutant of Blocked: bInUse is not tested.                                 *)
BlockedNoSlotTest(w, q) == ~ DependenciesMet(Head(cmds[q]).ops, walker[w].flush)

Blocked(w, q) ==
    LET d == DeviceOf[q]
    IN  ~ DependenciesMet(Head(cmds[q]).ops, walker[w].flush) \/ CurrentSlot(d).bInUse

(* PVRSRVProcessCommand on the head of a queue, three outcomes.  The read   *)
(* offset moves in the same step: only the space check reads it.            *)
ProcessCommand(w, q) ==
    /\ walker[w].pc = "walk"
    /\ walker[w].todo # <<>>
    /\ q = Head(walker[w].todo)
    /\ cmds[q] # <<>>
    /\ ~ Blocked(w, q)
    /\ FlipAccepted(Head(cmds[q]))
    /\ LET d == DeviceOf[q]
           c == Head(cmds[q])
       IN  /\ slot' = [slot EXCEPT ![d][ccbOffset[d]] = [bInUse |-> TRUE, ops |-> c.ops]]
           /\ hCmdComplete' = [hCmdComplete EXCEPT ![c.buf] = ccbOffset[d]]
           /\ swapWork' = QueueBufferForSwap(d, c.buf)
           /\ ccbOffset' = AdvanceCCB(d)
           /\ cmds' = [cmds EXCEPT ![q] = Tail(@)]
    /\ UNCHANGED <<syncData, resource, misrPending, walker, handler, ukKick,
                   clientVars, gpuVars>>

(* Mutant of CommandRefused: bInUse is not reset.                           *)
CommandRefusedKeepsSlot(w, q) ==
    /\ walker[w].pc = "walk"
    /\ walker[w].todo # <<>>
    /\ q = Head(walker[w].todo)
    /\ cmds[q] # <<>>
    /\ ~ Blocked(w, q)
    /\ ~ FlipAccepted(Head(cmds[q]))
    /\ slot' = [slot EXCEPT ![DeviceOf[q]][ccbOffset[DeviceOf[q]]] =
                   [bInUse |-> TRUE, ops |-> Head(cmds[q]).ops]]
    /\ ccbOffset' = AdvanceCCB(DeviceOf[q])
    /\ walker' = NextQueue(w)
    /\ UNCHANGED <<syncData, cmds, resource, misrPending, ukKick, driverVars, clientVars, gpuVars>>

(* Mutant of CommandRefused: the whole walk ends, not the walk of one queue.*)
CommandRefusedEndsWalk(w, q) ==
    /\ walker[w].pc = "walk"
    /\ walker[w].todo # <<>>
    /\ q = Head(walker[w].todo)
    /\ cmds[q] # <<>>
    /\ ~ Blocked(w, q)
    /\ ~ FlipAccepted(Head(cmds[q]))
    /\ slot' = [slot EXCEPT ![DeviceOf[q]][ccbOffset[DeviceOf[q]]] =
                   [bInUse |-> FALSE, ops |-> Head(cmds[q]).ops]]
    /\ ccbOffset' = AdvanceCCB(DeviceOf[q])
    /\ walker' = [walker EXCEPT ![w].todo = <<>>]
    /\ UNCHANGED <<syncData, cmds, resource, misrPending, ukKick, driverVars, clientVars, gpuVars>>

(* The driver refuses: the slot is released and the walk leaves the queue.  *)
CommandRefused(w, q) ==
    /\ walker[w].pc = "walk"
    /\ walker[w].todo # <<>>
    /\ q = Head(walker[w].todo)
    /\ cmds[q] # <<>>
    /\ ~ Blocked(w, q)
    /\ ~ FlipAccepted(Head(cmds[q]))
    /\ LET d == DeviceOf[q]
       IN  /\ slot' = [slot EXCEPT ![d][ccbOffset[d]] =
                          [bInUse |-> FALSE, ops |-> Head(cmds[q]).ops]]
           /\ ccbOffset' = AdvanceCCB(d)
    /\ walker' = NextQueue(w)
    /\ UNCHANGED <<syncData, cmds, resource, misrPending, ukKick, driverVars, clientVars, gpuVars>>

(* The queue is empty or its head must wait: on to the next queue.          *)
LeaveQueue(w, q) ==
    /\ walker[w].pc = "walk"
    /\ walker[w].todo # <<>>
    /\ q = Head(walker[w].todo)
    /\ cmds[q] # <<>> => Blocked(w, q)
    /\ walker' = NextQueue(w)
    /\ UNCHANGED <<syncData, cmds, resource, misrPending, slot, ccbOffset, ukKick,
                   driverVars, clientVars, gpuVars>>

UnlockQueues(w) ==
    /\ walker[w].pc = "walk"
    /\ walker[w].todo = <<>>
    /\ resource' = IF resource = "ISR_ID" THEN "free" ELSE resource
    /\ walker' = [walker EXCEPT ![w] =
                     IF w = "MISR" /\ @.flush
                     THEN [pc |-> "spin", todo |-> <<>>, flush |-> FALSE]
                     ELSE [pc |-> "idle", todo |-> <<>>, flush |-> FALSE]]
    /\ UNCHANGED <<syncData, cmds, misrPending, slot, ccbOffset, ukKick,
                   driverVars, clientVars, gpuVars>>

-----------------------------------------------------------------------------
(* The frame-buffer driver: one swap at a time, then PVRSRVCommandCompleteKM *)

SwapHandler(d) ==
    /\ handler[d].pc = "idle"
    /\ swapWork[d] # <<>>
    /\ handler' = [handler EXCEPT ![d] =
                      [pc |-> "flip", buf |-> Head(swapWork[d]), slot |-> 0, todo |-> {}]]
    /\ swapWork' = [swapWork EXCEPT ![d] = Tail(@)]
    /\ UNCHANGED <<syncData, misrPending, hCmdComplete, ukKick, queueVars, clientVars, gpuVars>>

(* The flip is done, maybe after a vertical sync: only now does the handler *)
(* read the buffer's cookie and call PVRSRVCommandCompleteKM with it.       *)
CommandCompleteKM(d) ==
    /\ handler[d].pc = "flip"
    /\ LET k == hCmdComplete[handler[d].buf]
       IN  handler' = [handler EXCEPT ![d] =
              [pc |-> "complete", buf |-> NoBuffer, slot |-> k, todo |-> slot[d][k].ops]]
    /\ UNCHANGED <<syncData, misrPending, swapWork, hCmdComplete, ukKick, queueVars,
                   clientVars, gpuVars>>

(* One turn of the counter loops of PVRSRVCommandCompleteKM.                *)
CompleteOp(d) ==
    /\ handler[d].pc = "complete"
    /\ \E op \in handler[d].todo :
          /\ handler' = [handler EXCEPT ![d].todo = @ \ {op}]
          /\ syncData' = AddComplete(op.sync, op.kind)
    /\ UNCHANGED <<misrPending, swapWork, hCmdComplete, ukKick, queueVars, clientVars, gpuVars>>

ReleaseSlot(d) ==
    /\ handler[d].pc = "complete"
    /\ handler[d].todo = {}
    /\ slot' = [slot EXCEPT ![d][handler[d].slot].bInUse = FALSE]
    /\ handler' = [handler EXCEPT ![d].pc = "callbacks"]
    /\ UNCHANGED <<syncData, misrPending, cmds, resource, walker, ccbOffset,
                   swapWork, hCmdComplete, ukKick, clientVars, gpuVars>>

(* PVRSRVScheduleDeviceCallbacks kicks SGX, then the MISR is scheduled.     *)
ScheduleDeviceCallbacks(d) ==
    /\ handler[d].pc = "callbacks"
    /\ ukKick' = TRUE
    /\ handler' = [handler EXCEPT ![d].pc = "misr"]
    /\ UNCHANGED <<syncData, misrPending, swapWork, hCmdComplete, queueVars, clientVars, gpuVars>>

(* Mutant of ScheduleMISR: the command completes with bScheduleMISR false.  *)
ScheduleMISRNever(d) ==
    /\ handler[d].pc = "misr"
    /\ handler' = [handler EXCEPT ![d].pc = "idle"]
    /\ UNCHANGED <<syncData, misrPending, swapWork, hCmdComplete, ukKick, queueVars,
                   clientVars, gpuVars>>

ScheduleMISR(d) ==
    /\ handler[d].pc = "misr"
    /\ misrPending' = TRUE
    /\ handler' = [handler EXCEPT ![d].pc = "idle"]
    /\ UNCHANGED <<syncData, swapWork, hCmdComplete, ukKick, queueVars, clientVars, gpuVars>>

-----------------------------------------------------------------------------
(* SGX: the microkernel looks at its renders when it is kicked or when one  *)
(* of them ends; a finished render writes its count, then interrupts.       *)

StartRender ==
    /\ ukKick
    /\ \E op \in renders \ running :
          /\ Met(op)
          /\ running' = running \cup {op}
    /\ UNCHANGED <<syncData, misrPending, renders, irq, ukKick, queueVars, driverVars, clientVars>>

Sleep ==
    /\ ukKick
    /\ \A op \in renders \ running : ~ Met(op)
    /\ ukKick' = FALSE
    /\ UNCHANGED <<syncData, misrPending, queueVars, driverVars, clientVars, gpuVars>>

FinishRender ==
    /\ \E op \in running :
          /\ running' = running \ {op}
          /\ renders' = renders \ {op}
          /\ syncData' = AddComplete(op.sync, op.kind)
    /\ ukKick' = TRUE
    /\ irq' = TRUE
    /\ UNCHANGED <<misrPending, queueVars, driverVars, clientVars>>

DeviceISR ==
    /\ irq
    /\ irq' = FALSE
    /\ misrPending' = TRUE
    /\ UNCHANGED <<syncData, renders, running, ukKick, queueVars, driverVars, clientVars>>

-----------------------------------------------------------------------------
Request == \/ \E q \in Queues : SwapToDCBufferKM(q) \/ SwapToDCSystemKM(q)
           \/ \E s \in Syncs : DoKickKM(s)
BridgeCall == GetQueueSpaceKM \/ InsertCommandKM \/ SubmitCommandKM \/ ScheduleSwap
ProcessQueues(w) ==
    \/ LockQueues(w)
    \/ \E q \in Queues : ProcessCommand(w, q) \/ CommandRefused(w, q) \/ LeaveQueue(w, q)
    \/ UnlockQueues(w)
Driver(d) == \/ SwapHandler(d) \/ CommandCompleteKM(d) \/ CompleteOp(d)
             \/ ReleaseSlot(d) \/ ScheduleDeviceCallbacks(d) \/ ScheduleMISR(d)
Gpu == StartRender \/ Sleep \/ FinishRender

Next == \/ Request
        \/ BridgeCall
        \/ StartMISR
        \/ HWRecoveryResetSGX
        \/ \E w \in Walkers : ProcessQueues(w)
        \/ \E d \in Devices : Driver(d)
        \/ Gpu
        \/ DeviceISR

Spec == Init /\ [][Next]_vars

(* Every thread that has work runs; requests and lockups need never come.   *)
Fairness == /\ WF_vars(BridgeCall)
            /\ WF_vars(StartMISR)
            /\ \A w \in Walkers : WF_vars(ProcessQueues(w))
            /\ \A d \in Devices : WF_vars(Driver(d))
            /\ WF_vars(StartRender \/ Sleep)
            /\ WF_vars(FinishRender)
            /\ WF_vars(DeviceISR)

FairSpec == Spec /\ Fairness

-----------------------------------------------------------------------------
(* Properties                                                               *)

TypeOK ==
    /\ syncData \in [Syncs -> [wop : Nat, rop : Nat, woc : Nat, roc : Nat]]
    /\ cmds \in [Queues -> Seq(Cmd)]
    /\ resource \in {"free", "ISR_ID"}
    /\ misrPending \in BOOLEAN
    /\ walker \in [Walkers -> [pc : {"idle", "spin", "walk"}, todo : Seq(Queues),
                               flush : BOOLEAN]]
    /\ slot \in [Devices -> [Slots -> [bInUse : BOOLEAN, ops : SUBSET Op]]]
    /\ ccbOffset \in [Devices -> Slots]
    /\ swapWork \in [Devices -> Seq(Syncs)]
    /\ hCmdComplete \in [Syncs -> Slots]
    /\ handler \in [Devices -> [pc : {"idle", "flip", "complete", "callbacks", "misr"},
                                buf : Syncs \cup {NoBuffer}, slot : Slots, todo : SUBSET Op]]
    /\ \A d \in Devices : handler[d].pc = "flip" => handler[d].buf \in Syncs
    /\ lastFlip \in [Queues -> Syncs \cup {NoBuffer}]
    /\ client \in      [pc : {"idle"}]
                  \cup [pc : {"space", "insert"}, q : Queues, todo : Seq(Syncs), cmd : Cmd]
                  \cup [pc : {"schedule"}, q : Queues, buf : Syncs]
    /\ renders \in SUBSET Op
    /\ running \in SUBSET renders
    /\ ukKick \in BOOLEAN
    /\ irq \in BOOLEAN

(* Where the operations issued and not finished are.                        *)
ClientOps ==
    IF client.pc \in {"space", "insert"} THEN client.cmd.ops ELSE {}

SlotOps(d, k) ==
    IF ~ slot[d][k].bInUse THEN {}
    ELSE IF handler[d].pc = "complete" /\ handler[d].slot = k THEN handler[d].todo
    ELSE slot[d][k].ops

AtClient      == [at |-> "client"]
AtGpu         == [at |-> "gpu"]
AtQueue(q, i) == [at |-> "queue", q |-> q, i |-> i]
AtSlot(d, k)  == [at |-> "slot", d |-> d, k |-> k]

Holders == {AtClient, AtGpu}
           \cup (UNION {{AtQueue(q, i) : i \in DOMAIN cmds[q]} : q \in Queues})
           \cup {AtSlot(d, k) : d \in Devices, k \in Slots}

OpsAt(h) ==
    CASE h.at = "client" -> ClientOps
      [] h.at = "gpu"    -> renders
      [] h.at = "queue"  -> cmds[h.q][h.i].ops
      [] h.at = "slot"   -> SlotOps(h.d, h.k)

Outstanding(s, kind) ==
    UNION {{<<h, op>> : op \in {o \in OpsAt(h) : o.sync = s /\ o.kind = kind}} : h \in Holders}

(* Every operation counted as pending and not complete is held exactly once:*)
(* by the call that inserts it, in a queue, in a slot or on the GPU.  None  *)
(* is lost, completed twice, or taken back by the wrong holder.             *)
PendingIsHeld ==
    \A s \in Syncs :
        /\ syncData[s].rop = syncData[s].roc + Cardinality(Outstanding(s, "read"))
        /\ syncData[s].wop = syncData[s].woc + Cardinality(Outstanding(s, "write"))

(* The purpose of the sync objects: while a flip that shows or replaces a   *)
(* surface is with the display driver, SGX does not render to that surface  *)
(* and no other flip that reads it is with a driver; SGX never runs two     *)
(* renders to one surface.                                                  *)
SurfaceExclusive ==
    /\ \A r1, r2 \in running : r1.sync = r2.sync => r1 = r2
    /\ \A d \in Devices, k \in Slots : \A op \in SlotOps(d, k) :
          /\ \A r \in running : r.sync # op.sync
          /\ \A d2 \in Devices, k2 \in Slots : \A op2 \in SlotOps(d2, k2) :
                op2.sync = op.sync => d2 = d /\ k2 = k /\ op2 = op

(* A slot in use has its one completion still to come: the buffer that      *)
(* carries it is on the swap work queue or in the swap handler.             *)
NoCompletionLost ==
    \A d \in Devices, k \in Slots :
        slot[d][k].bInUse =>
            \/ \E i \in DOMAIN swapWork[d] : hCmdComplete[swapWork[d][i]] = k
            \/ handler[d].pc = "flip" /\ hCmdComplete[handler[d].buf] = k
            \/ handler[d].pc = "complete" /\ handler[d].slot = k

(* sQProcessResource keeps the MISR and a recovery pass off the queues at   *)
(* the same time, although both lock it with ISR_ID.                        *)
OneWalker ==
    \A v, w \in Walkers : walker[v].pc = "walk" /\ walker[w].pc = "walk" => v = w

InFlight == running \cup (UNION {SlotOps(d, k) : d \in Devices, k \in Slots})
Before(o, op) == o.sync = op.sync /\ o.wop + o.rop < op.wop + op.rop

(* Operations on a surface start in the order they were issued, whichever   *)
(* queue or engine runs them, flushing passes included: what starts has no  *)
(* earlier unfinished operation on its surface anywhere.                    *)
StartsInOrder ==
    [][\A op \in InFlight' \ InFlight : \A h \in Holders : \A o \in OpsAt(h) : ~ Before(o, op)]_vars

(* Every read and every write issued on a surface is completed in the end:  *)
(* no wakeup of the MISR, the driver or SGX is lost and no two commands wait*)
(* for each other.  MaxOps ends the stream of requests, so the surfaces must*)
(* all come to rest with nothing pending.                                   *)
EveryOpCompletes ==
    <>[](\A s \in Syncs : syncData[s].rop = syncData[s].roc /\ syncData[s].wop = syncData[s].woc)

(* A queue whose head the driver refuses for ever does not hold up the      *)
(* queues behind it: in the end every queue is empty or has such a head.    *)
QueuesSettle ==
    \A q \in Queues : <>[](cmds[q] = <<>> \/ ~ FlipAccepted(Head(cmds[q])))

=============================================================================
