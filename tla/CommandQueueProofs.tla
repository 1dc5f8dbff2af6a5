------------------------- MODULE CommandQueueProofs -------------------------
(* Theorems about CommandQueue, for every list of queues, every set of      *)
(* surfaces, every ring of complete-data slots and every bound.             *)
EXTENDS CommandQueue, FiniteSetTheorems, TLAPS

LEMMA TypeInit == Init => TypeOK
<1> USE ListAssumption, ConstantsAssumption
<1> SUFFICES ASSUME Init PROVE TypeOK
  OBVIOUS
<1>1. cmds \in [Queues -> Seq(Cmd)] /\ swapWork \in [Devices -> Seq(Syncs)]
  BY DEF Init
<1>2. syncData \in [Syncs -> [wop : Nat, rop : Nat, woc : Nat, roc : Nat]]
  BY DEF Init
<1>3. walker \in [Walkers -> [pc : {"idle", "spin", "walk"}, todo : Seq(Queues), flush : BOOLEAN]]
  BY DEF Init
<1>4. 0 \in Slots
  BY DEF Slots
<1>5. slot \in [Devices -> [Slots -> [bInUse : BOOLEAN, ops : SUBSET Op]]]
  BY DEF Init
<1>6. ccbOffset \in [Devices -> Slots] /\ hCmdComplete \in [Syncs -> Slots]
  BY <1>4 DEF Init
<1>7. /\ handler \in [Devices -> [pc : {"idle", "flip", "complete", "callbacks", "misr"},
                                buf : Syncs \cup {NoBuffer}, slot : Slots, todo : SUBSET Op]]
      /\ \A d \in Devices : handler[d].pc = "flip" => handler[d].buf \in Syncs
  BY <1>4 DEF Init
<1>8. client \in [pc : {"idle"}] /\ renders = {} /\ running = {}
  BY DEF Init
<1>9. /\ lastFlip \in [Queues -> Syncs \cup {NoBuffer}]
      /\ resource \in {"free", "ISR_ID"}
      /\ misrPending \in BOOLEAN /\ ukKick \in BOOLEAN /\ irq \in BOOLEAN
  BY DEF Init
<1> QED BY <1>1, <1>2, <1>3, <1>5, <1>6, <1>7, <1>8, <1>9 DEF TypeOK

(* The bridge call in progress has the fields its stage needs.              *)
LEMMA ClientShape ==
  ASSUME TypeOK
  PROVE  /\ client.pc \in {"space", "insert"} =>
              client \in [pc : {"space", "insert"}, q : Queues, todo : Seq(Syncs), cmd : Cmd]
         /\ client.pc = "schedule" => client \in [pc : {"schedule"}, q : Queues, buf : Syncs]
BY DEF TypeOK

LEMMA IssueType ==
  ASSUME TypeOK, NEW s \in Syncs, NEW kind \in {"read", "write"}
  PROVE  /\ Issue(s, kind) \in Op
         /\ AddPending(s, kind)  \in [Syncs -> [wop : Nat, rop : Nat, woc : Nat, roc : Nat]]
         /\ AddComplete(s, kind) \in [Syncs -> [wop : Nat, rop : Nat, woc : Nat, roc : Nat]]
<1> DEFINE Counters == [wop : Nat, rop : Nat, woc : Nat, roc : Nat]
<1>1. syncData \in [Syncs -> Counters] /\ syncData[s] \in Counters
  BY DEF TypeOK
<1>2. Issue(s, kind) \in Op
  BY <1>1 DEF Issue, Op
<1>3. /\ [syncData[s] EXCEPT !.wop = @ + 1] \in Counters
      /\ [syncData[s] EXCEPT !.rop = @ + 1] \in Counters
      /\ [syncData[s] EXCEPT !.woc = @ + 1] \in Counters
      /\ [syncData[s] EXCEPT !.roc = @ + 1] \in Counters
  BY <1>1
<1>4. \A r \in Counters : [syncData EXCEPT ![s] = r] \in [Syncs -> Counters]
  BY <1>1
<1> QED BY <1>2, <1>3, <1>4 DEF AddPending, AddComplete

LEMMA AdvanceType ==
  ASSUME ccbOffset \in [Devices -> Slots], NEW d \in Devices
  PROVE  AdvanceCCB(d) \in [Devices -> Slots]
<1>1. \A k \in Slots : (k + 1) % NumSlots \in Slots
  BY ConstantsAssumption DEF Slots
<1> QED BY <1>1 DEF AdvanceCCB

LEMMA QueueType ==
  ASSUME swapWork \in [Devices -> Seq(Syncs)], NEW d \in Devices, NEW buf \in Syncs
  PROVE  QueueBufferForSwap(d, buf) \in [Devices -> Seq(Syncs)]
BY DEF QueueBufferForSwap


(* The types survive each thread's steps.                                   *)
LEMMA TypeRequest == TypeOK /\ Request => TypeOK'
<1> USE ListAssumption, ConstantsAssumption
<1> SUFFICES ASSUME TypeOK, Request PROVE TypeOK'
  OBVIOUS
<1>1. ASSUME NEW q \in Queues, NEW buf \in Syncs, NEW n \in Nat, BeginSwap(q, buf, n)
      PROVE  TypeOK'
  <2>1. SrcSyncs(q, buf) \in Seq(Syncs)
    <3>1. lastFlip[q] # NoBuffer => lastFlip[q] \in Syncs
      BY DEF TypeOK
    <3> QED BY <3>1 DEF SrcSyncs
  <2>2. [buf |-> buf, ops |-> {}, rects |-> n] \in Cmd
    BY DEF Cmd
  <2>3. client' \in [pc : {"space", "insert"}, q : Queues, todo : Seq(Syncs), cmd : Cmd]
    BY <1>1, <2>1, <2>2 DEF BeginSwap
  <2> QED BY <1>1, <2>3 DEF BeginSwap, TypeOK, queueVars, driverVars, gpuVars
<1>2. ASSUME NEW s \in Syncs, DoKickKM(s) PROVE TypeOK'
  <2>1. Issue(s, "write") \in Op /\ syncData' \in [Syncs -> [wop : Nat, rop : Nat, woc : Nat, roc : Nat]]
    BY <1>2, IssueType DEF DoKickKM
  <2>2. renders' \in SUBSET Op /\ running \in SUBSET renders'
    BY <1>2, <2>1 DEF DoKickKM, TypeOK
  <2> QED BY <1>2, <2>1, <2>2 DEF DoKickKM, TypeOK, queueVars, driverVars, clientVars
<1>3. \A q \in Queues : BuffersOf[q] \subseteq Syncs /\ SystemBuffer[DeviceOf[q]] \in Syncs
  OBVIOUS
<1> QED BY <1>1, <1>2, <1>3 DEF Request, SwapToDCBufferKM, SwapToDCSystemKM

LEMMA TypeBridgeCall == TypeOK /\ BridgeCall => TypeOK'
<1> USE ListAssumption, ConstantsAssumption
<1> SUFFICES ASSUME TypeOK, BridgeCall PROVE TypeOK'
  OBVIOUS
<1>1. CASE GetQueueSpaceKM
  <2>1. client.pc = "space" /\ client \in [pc : {"space", "insert"}, q : Queues, todo : Seq(Syncs), cmd : Cmd]
    BY <1>1, ClientShape DEF GetQueueSpaceKM
  <2>2. \/ client' \in [pc : {"space", "insert"}, q : Queues, todo : Seq(Syncs), cmd : Cmd]
        \/ client' \in [pc : {"idle"}]
    <3>1. CASE client' = [client EXCEPT !.pc = "insert"]
      BY <2>1, <3>1
    <3>2. CASE client' = [pc |-> "idle"]
      BY <3>2
    <3> QED BY <1>1, <3>1, <3>2 DEF GetQueueSpaceKM
  <2> QED BY <1>1, <2>2 DEF GetQueueSpaceKM, TypeOK, queueVars, driverVars, gpuVars
<1>2. CASE InsertCommandKM
  <2> DEFINE s == Head(client.todo)
  <2>1. client \in [pc : {"space", "insert"}, q : Queues, todo : Seq(Syncs), cmd : Cmd]
    BY <1>2, ClientShape DEF InsertCommandKM
  <2>2. s \in Syncs /\ Tail(client.todo) \in Seq(Syncs)
    BY <1>2, <2>1 DEF InsertCommandKM
  <2>3. Issue(s, "read") \in Op /\ syncData' \in [Syncs -> [wop : Nat, rop : Nat, woc : Nat, roc : Nat]]
    BY <1>2, <2>2, IssueType DEF InsertCommandKM
  <2>4. [client.cmd EXCEPT !.ops = @ \cup {Issue(s, "read")}] \in Cmd
    BY <2>1, <2>3 DEF Cmd
  <2>5. client' \in [pc : {"space", "insert"}, q : Queues, todo : Seq(Syncs), cmd : Cmd]
    BY <1>2, <2>1, <2>2, <2>4 DEF InsertCommandKM
  <2> QED BY <1>2, <2>3, <2>5 DEF InsertCommandKM, TypeOK, queueVars, driverVars, gpuVars
<1>3. CASE SubmitCommandKM
  <2>1. client \in [pc : {"space", "insert"}, q : Queues, todo : Seq(Syncs), cmd : Cmd]
    BY <1>3, ClientShape DEF SubmitCommandKM
  <2>2. client.cmd \in Cmd /\ client.q \in Queues /\ client.cmd.buf \in Syncs
    BY <2>1 DEF Cmd
  <2>3. client' \in [pc : {"schedule"}, q : Queues, buf : Syncs]
    BY <1>3, <2>2 DEF SubmitCommandKM
  <2>4. cmds' \in [Queues -> Seq(Cmd)]
    BY <1>3, <2>2 DEF SubmitCommandKM, TypeOK
  <2> QED BY <1>3, <2>3, <2>4 DEF SubmitCommandKM, TypeOK, driverVars, gpuVars
<1>4. CASE ScheduleSwap
  <2>1. client \in [pc : {"schedule"}, q : Queues, buf : Syncs]
    BY <1>4, ClientShape DEF ScheduleSwap
  <2>2. lastFlip' \in [Queues -> Syncs \cup {NoBuffer}] /\ client' \in [pc : {"idle"}]
    BY <1>4, <2>1 DEF ScheduleSwap, TypeOK
  <2> QED BY <1>4, <2>2 DEF ScheduleSwap, TypeOK, queueVars, driverVars, gpuVars
<1> QED BY <1>1, <1>2, <1>3, <1>4 DEF BridgeCall


LEMMA TypeMISR == TypeOK /\ (StartMISR \/ HWRecoveryResetSGX \/ DeviceISR) => TypeOK'
<1> SUFFICES ASSUME TypeOK, StartMISR \/ HWRecoveryResetSGX \/ DeviceISR PROVE TypeOK'
  OBVIOUS
<1>1. <<>> \in Seq(Queues)
  OBVIOUS
<1>2. CASE StartMISR
  <2>1. PICK f \in BOOLEAN :
          walker' = [walker EXCEPT !["MISR"] = [pc |-> "spin", todo |-> <<>>, flush |-> f]]
    BY <1>2 DEF StartMISR
  <2>2. walker' \in [Walkers -> [pc : {"idle", "spin", "walk"}, todo : Seq(Queues), flush : BOOLEAN]]
    BY <1>1, <2>1 DEF TypeOK
  <2> QED BY <1>2, <2>2 DEF StartMISR, TypeOK, driverVars, clientVars, gpuVars
<1>3. CASE HWRecoveryResetSGX
  BY <1>1, <1>3 DEF HWRecoveryResetSGX, TypeOK, Walkers, driverVars, clientVars, gpuVars
<1>4. CASE DeviceISR
  BY <1>4 DEF DeviceISR, TypeOK, queueVars, driverVars, clientVars
<1> QED BY <1>2, <1>3, <1>4

(* The first element of a sequence, and the rest of it.                     *)
LEMMA HeadOfSeq ==
  ASSUME NEW S, NEW list \in Seq(S), list # <<>>
  PROVE  Head(list) \in S /\ Tail(list) \in Seq(S)
OBVIOUS

(* NextQueue leaves the walker a list of queues.                            *)
LEMMA NextQueueType ==
  ASSUME TypeOK, NEW w \in Walkers, walker[w].todo # <<>>
  PROVE  NextQueue(w) \in [Walkers -> [pc : {"idle", "spin", "walk"}, todo : Seq(Queues),
                                       flush : BOOLEAN]]
<1>1. walker[w].todo \in Seq(Queues)
  BY DEF TypeOK
<1>2. Tail(walker[w].todo) \in Seq(Queues)
  BY <1>1
<1>3. walker \in [Walkers -> [pc : {"idle", "spin", "walk"}, todo : Seq(Queues), flush : BOOLEAN]]
  BY DEF TypeOK
<1> QED BY <1>2, <1>3 DEF NextQueue

LEMMA TypeProcessQueues == ASSUME NEW w \in Walkers PROVE TypeOK /\ ProcessQueues(w) => TypeOK'
<1> USE ListAssumption, ConstantsAssumption
<1> SUFFICES ASSUME TypeOK, ProcessQueues(w) PROVE TypeOK'
  OBVIOUS
<1>1. CASE LockQueues(w)
  <2>1. psQueueList \in Seq(Queues)
    BY DEF ListAssumption
  <2>2. walker' \in [Walkers -> [pc : {"idle", "spin", "walk"}, todo : Seq(Queues), flush : BOOLEAN]]
    <3> DEFINE W == [pc : {"idle", "spin", "walk"}, todo : Seq(Queues), flush : BOOLEAN]
    <3>1. walker \in [Walkers -> W] /\ walker[w] \in W
      BY DEF TypeOK
    <3>2. [walker[w] EXCEPT !.pc = "walk"] \in W
      BY <3>1
    <3>3. [walker EXCEPT ![w].pc = "walk"] \in [Walkers -> W]
      BY <3>1, <3>2
    <3>4. [[walker EXCEPT ![w].pc = "walk"][w] EXCEPT !.todo = psQueueList] \in W
      BY Zenon, <2>1, <3>3
    <3>5. [[walker EXCEPT ![w].pc = "walk"] EXCEPT ![w].todo = psQueueList] \in [Walkers -> W]
      BY <3>3, <3>4
    <3> QED BY <1>1, <3>5, Zenon DEF LockQueues
  <2> QED BY <1>1, <2>2 DEF LockQueues, TypeOK, driverVars, clientVars, gpuVars
<1>2. ASSUME NEW q \in Queues, ProcessCommand(w, q) PROVE TypeOK'
  <2> DEFINE d == DeviceOf[q]
             c == Head(cmds[q])
  <2>1. c \in Cmd /\ Tail(cmds[q]) \in Seq(Cmd) /\ d \in Devices
    <3>1. cmds[q] \in Seq(Cmd) /\ cmds[q] # <<>>
      BY <1>2 DEF ProcessCommand, TypeOK
    <3>2. Head(cmds[q]) \in Cmd /\ Tail(cmds[q]) \in Seq(Cmd)
      BY <3>1, HeadOfSeq
    <3>3. d \in Devices
      BY Zenon
    <3> QED BY Zenon, <3>2, <3>3
  <2>2. /\ slot \in [Devices -> [Slots -> [bInUse : BOOLEAN, ops : SUBSET Op]]]
        /\ cmds \in [Queues -> Seq(Cmd)]
        /\ hCmdComplete \in [Syncs -> Slots]
    BY Zenon DEF TypeOK
  <2>3. /\ slot' = [slot EXCEPT ![d][ccbOffset[d]] = [bInUse |-> TRUE, ops |-> c.ops]]
        /\ cmds' = [cmds EXCEPT ![q] = Tail(@)]
        /\ hCmdComplete' = [hCmdComplete EXCEPT ![c.buf] = ccbOffset[d]]
    BY Zenon, <1>2 DEF ProcessCommand
  <2>4. c.ops \in SUBSET Op /\ c.buf \in Syncs /\ ccbOffset[d] \in Slots
    BY <2>1 DEF Cmd, TypeOK
  <2>5. slot' \in [Devices -> [Slots -> [bInUse : BOOLEAN, ops : SUBSET Op]]]
    BY <2>1, <2>2, <2>3, <2>4
  <2>6. cmds' \in [Queues -> Seq(Cmd)]
    BY <2>1, <2>2, <2>3
  <2>7. hCmdComplete' \in [Syncs -> Slots]
    <3>1. hCmdComplete \in [Syncs -> Slots] /\ hCmdComplete' = [hCmdComplete EXCEPT ![c.buf] = ccbOffset[d]]
      BY Zenon, <2>2, <2>3
    <3> HIDE DEF c, d
    <3> QED BY Zenon, <2>4, <3>1
  <2>8. swapWork' \in [Devices -> Seq(Syncs)]
    BY <1>2, <2>1, <2>4, QueueType DEF ProcessCommand, TypeOK
  <2>9. ccbOffset' \in [Devices -> Slots]
    BY <1>2, <2>1, AdvanceType DEF ProcessCommand, TypeOK
  <2> QED BY Zenon, <1>2, <2>5, <2>6, <2>7, <2>8, <2>9 DEF ProcessCommand, TypeOK, clientVars, gpuVars
<1>3. ASSUME NEW q \in Queues, CommandRefused(w, q) PROVE TypeOK'
  <2> DEFINE d == DeviceOf[q]
  <2>1. Head(cmds[q]) \in Cmd /\ d \in Devices
    <3>1. cmds[q] \in Seq(Cmd) /\ cmds[q] # <<>>
      BY <1>3 DEF CommandRefused, TypeOK
    <3>2. Head(cmds[q]) \in Cmd
      BY <3>1, HeadOfSeq
    <3>3. d \in Devices
      BY Zenon
    <3> QED BY Zenon, <3>2, <3>3
  <2>2. Head(cmds[q]).ops \in SUBSET Op
    BY <2>1 DEF Cmd
  <2>3. ccbOffset[d] \in Slots
    BY <2>1 DEF TypeOK
  <2>4. Head(cmds[q]).ops \in SUBSET Op /\ ccbOffset[d] \in Slots
    BY <2>2, <2>3
  <2>5. slot' \in [Devices -> [Slots -> [bInUse : BOOLEAN, ops : SUBSET Op]]]
    <3>1. slot \in [Devices -> [Slots -> [bInUse : BOOLEAN, ops : SUBSET Op]]]
      BY Zenon DEF TypeOK
    <3>2. slot' = [slot EXCEPT ![d][ccbOffset[d]] = [bInUse |-> FALSE, ops |-> Head(cmds[q]).ops]]
      BY Zenon, <1>3 DEF CommandRefused
    <3> QED BY <2>1, <2>4, <3>1, <3>2
  <2>6. ccbOffset' \in [Devices -> Slots]
    BY <1>3, <2>1, AdvanceType DEF CommandRefused, TypeOK
  <2> QED BY <1>3, <2>5, <2>6, NextQueueType DEF CommandRefused, TypeOK, driverVars, clientVars, gpuVars
<1>4. ASSUME NEW q \in Queues, LeaveQueue(w, q) PROVE TypeOK'
  BY <1>4, NextQueueType DEF LeaveQueue, TypeOK, driverVars, clientVars, gpuVars
<1>5. CASE UnlockQueues(w)
  <2>1. <<>> \in Seq(Queues)
    OBVIOUS
  <2>2. walker' \in [Walkers -> [pc : {"idle", "spin", "walk"}, todo : Seq(Queues), flush : BOOLEAN]]
    BY <1>5, <2>1 DEF UnlockQueues, TypeOK
  <2> QED BY <1>5, <2>2 DEF UnlockQueues, TypeOK, driverVars, clientVars, gpuVars
<1> QED BY <1>1, <1>2, <1>3, <1>4, <1>5 DEF ProcessQueues

LEMMA TypeDriver == ASSUME NEW d \in Devices PROVE TypeOK /\ Driver(d) => TypeOK'
<1> SUFFICES ASSUME TypeOK, Driver(d) PROVE TypeOK'
  OBVIOUS
<1> DEFINE H == [pc : {"idle", "flip", "complete", "callbacks", "misr"},
                 buf : Syncs \cup {NoBuffer}, slot : Slots, todo : SUBSET Op]
           Flips(f) == \A e \in Devices : f[e].pc = "flip" => f[e].buf \in Syncs
<1>1. handler \in [Devices -> H] /\ handler[d] \in H /\ Flips(handler)
  BY DEF TypeOK
<1>2. CASE SwapHandler(d)
  <2>1. Head(swapWork[d]) \in Syncs /\ Tail(swapWork[d]) \in Seq(Syncs) /\ 0 \in Slots
    <3>1. 0 \in Slots
      BY ConstantsAssumption DEF Slots
    <3>2. swapWork[d] \in Seq(Syncs) /\ swapWork[d] # <<>>
      BY <1>2 DEF SwapHandler, TypeOK
    <3> QED BY <3>1, <3>2
  <2>2. handler' \in [Devices -> H] /\ Flips(handler')
    <3> DEFINE h == [pc |-> "flip", buf |-> Head(swapWork[d]), slot |-> 0, todo |-> {}]
    <3>1. h \in H /\ h.buf \in Syncs
      BY <2>1
    <3>2. handler' = [handler EXCEPT ![d] = h]
      BY <1>2 DEF SwapHandler
    <3> HIDE DEF h
    <3> QED BY <1>1, <3>1, <3>2
  <2>3. swapWork' \in [Devices -> Seq(Syncs)]
    BY <1>2, <2>1 DEF SwapHandler, TypeOK
  <2> QED BY <1>2, <2>2, <2>3 DEF SwapHandler, TypeOK, queueVars, clientVars, gpuVars
<1>3. CASE CommandCompleteKM(d)
  <2> DEFINE k == hCmdComplete[handler[d].buf]
  <2>1. k \in Slots /\ slot[d][k].ops \in SUBSET Op
    BY <1>3 DEF CommandCompleteKM, TypeOK
  <2>2. handler' \in [Devices -> H] /\ Flips(handler')
    BY <1>1, <1>3, <2>1 DEF CommandCompleteKM
  <2> QED BY <1>3, <2>2 DEF CommandCompleteKM, TypeOK, queueVars, clientVars, gpuVars
<1>4. CASE CompleteOp(d)
  <2>1. PICK op \in handler[d].todo : /\ handler' = [handler EXCEPT ![d].todo = @ \ {op}]
                                      /\ syncData' = AddComplete(op.sync, op.kind)
    BY <1>4 DEF CompleteOp
  <2>2. op.sync \in Syncs /\ op.kind \in {"read", "write"}
    BY <1>1, <2>1 DEF Op
  <2>3. syncData' \in [Syncs -> [wop : Nat, rop : Nat, woc : Nat, roc : Nat]]
    BY <2>1, <2>2, IssueType
  <2>4. handler' \in [Devices -> H] /\ Flips(handler')
    BY <1>1, <2>1
  <2> QED BY <1>4, <2>3, <2>4 DEF CompleteOp, TypeOK, queueVars, clientVars, gpuVars
<1>5. CASE ReleaseSlot(d)
  <2>1. slot' \in [Devices -> [Slots -> [bInUse : BOOLEAN, ops : SUBSET Op]]]
    <3> DEFINE k == handler[d].slot
               S == [bInUse : BOOLEAN, ops : SUBSET Op]
    <3>1. k \in Slots /\ slot[d][k] \in S
      BY <1>1 DEF TypeOK
    <3>2. [slot[d][k] EXCEPT !.bInUse = FALSE] \in S
      BY <3>1
    <3>3. \A r \in S : [slot EXCEPT ![d][k] = r] \in [Devices -> [Slots -> S]]
      BY <3>1 DEF TypeOK
    <3> QED BY <1>5, <3>2, <3>3 DEF ReleaseSlot
  <2>2. handler' \in [Devices -> H] /\ Flips(handler')
    BY <1>1, <1>5 DEF ReleaseSlot
  <2> QED BY <1>5, <2>1, <2>2 DEF ReleaseSlot, TypeOK, clientVars, gpuVars
<1>6. CASE ScheduleDeviceCallbacks(d)
  <2>1. handler' \in [Devices -> H] /\ Flips(handler')
    BY <1>1, <1>6 DEF ScheduleDeviceCallbacks
  <2> QED BY <1>6, <2>1 DEF ScheduleDeviceCallbacks, TypeOK, queueVars, clientVars, gpuVars
<1>7. CASE ScheduleMISR(d)
  <2>1. handler' \in [Devices -> H] /\ Flips(handler')
    BY <1>1, <1>7 DEF ScheduleMISR
  <2> QED BY <1>7, <2>1 DEF ScheduleMISR, TypeOK, queueVars, clientVars, gpuVars
<1> QED BY <1>2, <1>3, <1>4, <1>5, <1>6, <1>7 DEF Driver

LEMMA TypeGpu == TypeOK /\ Gpu => TypeOK'
<1> SUFFICES ASSUME TypeOK, Gpu PROVE TypeOK'
  OBVIOUS
<1>1. CASE StartRender
  BY <1>1 DEF StartRender, TypeOK, queueVars, driverVars, clientVars
<1>2. CASE Sleep
  BY <1>2 DEF Sleep, TypeOK, queueVars, driverVars, clientVars, gpuVars
<1>3. CASE FinishRender
  <2>1. PICK op \in running : /\ running' = running \ {op}
                              /\ renders' = renders \ {op}
                              /\ syncData' = AddComplete(op.sync, op.kind)
    BY <1>3 DEF FinishRender
  <2>2. op.sync \in Syncs /\ op.kind \in {"read", "write"}
    BY <2>1 DEF Op, TypeOK
  <2>3. syncData' \in [Syncs -> [wop : Nat, rop : Nat, woc : Nat, roc : Nat]]
    BY <2>1, <2>2, IssueType
  <2> QED BY <1>3, <2>1, <2>3 DEF FinishRender, TypeOK, queueVars, driverVars, clientVars
<1> QED BY <1>1, <1>2, <1>3 DEF Gpu

LEMMA TypeStep == TypeOK /\ [Next]_vars => TypeOK'
<1> SUFFICES ASSUME TypeOK, [Next]_vars PROVE TypeOK'
  OBVIOUS
<1>1. CASE UNCHANGED vars
  BY <1>1 DEF vars, TypeOK
<1> QED BY <1>1, TypeRequest, TypeBridgeCall, TypeMISR, TypeProcessQueues, TypeDriver, TypeGpu DEF Next

(* Every reachable state is typed: in particular the ring offset of the     *)
(* complete-data slots stays in range and the driver's handle is a slot.    *)
THEOREM TypeCorrect == Spec => []TypeOK
BY TypeInit, TypeStep, PTL DEF Spec


-----------------------------------------------------------------------------
(* The resource lock is held exactly while somebody walks the queues.  This *)
(* is what makes OneWalker inductive: a walker enters only through "free".  *)
LockInv == OneWalker /\ (resource = "free" => \A w \in Walkers : walker[w].pc # "walk")

LEMMA LockStep == TypeOK /\ LockInv /\ [Next]_vars => LockInv'
<1> SUFFICES ASSUME TypeOK, LockInv, [Next]_vars PROVE LockInv'
  OBVIOUS
<1>1. /\ DOMAIN walker = Walkers
      /\ \A w \in Walkers : walker[w] \in [pc : {"idle", "spin", "walk"}, todo : Seq(Queues), flush : BOOLEAN]
  BY DEF TypeOK
<1> DEFINE SameWalks == resource' = resource /\ \A w \in Walkers : walker'[w].pc = walker[w].pc
<1>2. ASSUME SameWalks PROVE LockInv'
  BY <1>2 DEF LockInv, OneWalker
<1>3. ASSUME NEW w \in Walkers, ProcessQueues(w) PROVE LockInv'
  <2>1. CASE LockQueues(w)
    <3>1. /\ \A v \in Walkers : v # w => walker'[v] = walker[v]
          /\ resource' = "ISR_ID" /\ resource = "free"
      <4> DEFINE once  == [walker EXCEPT ![w].pc = "walk"]
                 twice == [once EXCEPT ![w].todo = psQueueList]
      <4>1. \A v \in Walkers : v # w => once[v] = walker[v] /\ twice[v] = once[v]
        BY <1>1
      <4>2. walker' = twice /\ resource' = "ISR_ID" /\ resource = "free"
        BY <2>1, Zenon DEF LockQueues
      <4> QED BY <4>1, <4>2, Zenon
    <3> QED BY <3>1 DEF LockInv, OneWalker
  <2>2. ASSUME NEW q \in Queues, ProcessCommand(w, q) \/ CommandRefused(w, q) \/ LeaveQueue(w, q)
        PROVE  LockInv'
    <3>1. \A v \in Walkers : NextQueue(w)[v].pc = walker[v].pc
      BY <1>1 DEF NextQueue
    <3> QED BY <1>2, <2>2, <3>1 DEF ProcessCommand, CommandRefused, LeaveQueue
  <2>3. CASE UnlockQueues(w)
    <3>1. walker[w].pc = "walk" /\ walker'[w].pc # "walk"
      BY <1>1, <2>3 DEF UnlockQueues
    <3>2. \A v \in Walkers : v # w => walker'[v] = walker[v] /\ walker[v].pc # "walk"
      BY <1>1, <2>3, <3>1 DEF UnlockQueues, LockInv, OneWalker
    <3> QED BY <3>1, <3>2 DEF LockInv, OneWalker
  <2> QED BY <1>3, <2>1, <2>2, <2>3 DEF ProcessQueues
<1>4. ASSUME StartMISR \/ HWRecoveryResetSGX PROVE LockInv'
  <2>1. PICK w \in Walkers : /\ walker'[w].pc = "spin"
                             /\ \A v \in Walkers : v # w => walker'[v] = walker[v]
    BY <1>1, <1>4 DEF StartMISR, HWRecoveryResetSGX, Walkers
  <2>2. resource' = resource
    BY <1>4 DEF StartMISR, HWRecoveryResetSGX
  <2> QED BY <2>1, <2>2 DEF LockInv, OneWalker
<1>5. ASSUME \/ Request \/ BridgeCall \/ Gpu \/ DeviceISR
             \/ \E d \in Devices : Driver(d)
             \/ UNCHANGED vars
      PROVE  LockInv'
  <2>1. resource' = resource /\ walker' = walker
    <3>1. CASE Request \/ UNCHANGED vars
      BY <3>1 DEF Request, SwapToDCBufferKM, SwapToDCSystemKM, BeginSwap, DoKickKM, vars, queueVars
    <3>2. CASE BridgeCall
      BY <3>2 DEF BridgeCall, GetQueueSpaceKM, InsertCommandKM, SubmitCommandKM, ScheduleSwap, queueVars
    <3>3. CASE \E d \in Devices : Driver(d)
      BY <3>3 DEF Driver, SwapHandler, CommandCompleteKM, CompleteOp, ReleaseSlot,
                  ScheduleDeviceCallbacks, ScheduleMISR, queueVars
    <3>4. CASE Gpu \/ DeviceISR
      BY <3>4 DEF Gpu, StartRender, Sleep, FinishRender, DeviceISR, queueVars
    <3> QED BY <1>5, <3>1, <3>2, <3>3, <3>4
  <2> QED BY <1>2, <2>1
<1> QED BY <1>3, <1>4, <1>5 DEF Next

(* However the MISR and the recovery passes interleave, only one thread at a*)
(* time walks the queues and moves commands into slots.                     *)
THEOREM WalkersExclude == Spec => []OneWalker
<1>1. Init => LockInv
  BY DEF Init, LockInv, OneWalker
<1> QED BY <1>1, LockStep, TypeCorrect, PTL DEF Spec, LockInv

-----------------------------------------------------------------------------
(* Why a surface is never shared: the inductive invariant behind            *)
(* SurfaceExclusive, NoCompletionLost and StartsInOrder, and its proof.     *)
(*                                                                          *)
(* Read the pending counts an operation was issued at as a ticket, and the  *)
(* complete counts of its surface as the number being served.  Tickets of a *)
(* surface are never given twice, none outstanding has been passed, and an  *)
(* operation starts at its own number: so at most one is in flight.         *)

Ticket(op)  == op.wop + op.rop
Served(s)   == syncData[s].woc + syncData[s].roc
NextTicket(s) == syncData[s].wop + syncData[s].rop

TicketsInRange ==
    /\ \A s \in Syncs : Served(s) <= NextTicket(s)
    /\ \A h \in Holders : \A op \in OpsAt(h) :
          op \in Op /\ Served(op.sync) <= Ticket(op) /\ Ticket(op) < NextTicket(op.sync)

TicketsUnique ==
    \A g, h \in Holders : \A o \in OpsAt(g), p \in OpsAt(h) :
        o.sync = p.sync /\ Ticket(o) = Ticket(p) => g = h /\ o = p

InFlightIsMet == \A op \in InFlight : Met(op)

Reads(ops, buf) == \E op \in ops : op.sync = buf

(* What is flipped is a buffer of the chain, and the command reads it.      *)
CommandsReadTheirBuffer ==
    /\ \A q \in Queues : \A i \in DOMAIN cmds[q] :
          cmds[q][i].buf \in Chain(q) /\ Reads(cmds[q][i].ops, cmds[q][i].buf)
    /\ client.pc \in {"space", "insert"} =>
          /\ client.cmd.buf \in Chain(client.q)
          /\ \/ client.todo # <<>> /\ Head(client.todo) = client.cmd.buf
             \/ Reads(client.cmd.ops, client.cmd.buf)

(* A buffer on the swap work queue carries a slot in use of its own.        *)
SwapWorkHoldsSlots ==
    \A d \in Devices : \A i \in DOMAIN swapWork[d] :
        LET buf == swapWork[d][i]
            k   == hCmdComplete[buf]
        IN  /\ \E q \in Queues : DeviceOf[q] = d /\ buf \in Chain(q)
            /\ slot[d][k].bInUse
            /\ Reads(slot[d][k].ops, buf)
            /\ ~ (handler[d].pc = "complete" /\ handler[d].slot = k)
            /\ \A j \in DOMAIN swapWork[d] : hCmdComplete[swapWork[d][j]] = k => i = j

(* And so does the buffer the swap handler shows.                           *)
FlipHoldsSlot ==
    \A d \in Devices : handler[d].pc = "flip" =>
        LET buf == handler[d].buf
            k   == hCmdComplete[buf]
        IN  /\ buf \in Syncs
            /\ \E q \in Queues : DeviceOf[q] = d /\ buf \in Chain(q)
            /\ slot[d][k].bInUse
            /\ Reads(slot[d][k].ops, buf)
            /\ \A j \in DOMAIN swapWork[d] : hCmdComplete[swapWork[d][j]] # k

HandlerHoldsSlot ==
    \A d \in Devices : handler[d].pc = "complete" => slot[d][handler[d].slot].bInUse

OrderInv ==
    /\ TicketsInRange
    /\ TicketsUnique
    /\ InFlightIsMet
    /\ CommandsReadTheirBuffer
    /\ SwapWorkHoldsSlots
    /\ FlipHoldsSlot
    /\ HandlerHoldsSlot
    /\ NoCompletionLost

-----------------------------------------------------------------------------
(* The four kinds of holders.                                               *)
IsHolder(h) ==
    \/ h = AtClient
    \/ h = AtGpu
    \/ \E q \in Queues : \E i \in DOMAIN cmds[q] : h = AtQueue(q, i)
    \/ \E d \in Devices, k \in Slots : h = AtSlot(d, k)

LEMMA QueueHolders ==
  ASSUME NEW f, NEW h
  PROVE  h \in UNION {{AtQueue(q, i) : i \in DOMAIN f[q]} : q \in Queues}
         <=> \E q \in Queues : \E i \in DOMAIN f[q] : h = AtQueue(q, i)
<1> DEFINE U(q) == {AtQueue(q, i) : i \in DOMAIN f[q]}
<1>1. \A q : h \in U(q) <=> \E i \in DOMAIN f[q] : h = AtQueue(q, i)
  OBVIOUS
<1> HIDE DEF U
<1>2. h \in UNION {U(q) : q \in Queues} <=> \E q \in Queues : h \in U(q)
  OBVIOUS
<1> QED BY <1>1, <1>2 DEF U

LEMMA SlotHolders ==
  \A h : h \in {AtSlot(d, k) : d \in Devices, k \in Slots}
        <=> \E d \in Devices, k \in Slots : h = AtSlot(d, k)
OBVIOUS

LEMMA HolderForms ==
  /\ \A h : h \in Holders <=> IsHolder(h)
  /\ \A h : h \in Holders' <=> IsHolder(h)'
<1>1. ASSUME NEW h PROVE h \in Holders <=> IsHolder(h)
  <2> DEFINE QS == UNION {{AtQueue(q, i) : i \in DOMAIN cmds[q]} : q \in Queues}
             SS == {AtSlot(d, k) : d \in Devices, k \in Slots}
  <2>1. h \in QS <=> \E q \in Queues : \E i \in DOMAIN cmds[q] : h = AtQueue(q, i)
    BY QueueHolders
  <2>2. h \in SS <=> \E d \in Devices, k \in Slots : h = AtSlot(d, k)
    BY SlotHolders
  <2>3. Holders = {AtClient, AtGpu} \cup QS \cup SS
    BY DEF Holders
  <2> HIDE DEF QS, SS
  <2> QED BY <2>1, <2>2, <2>3 DEF IsHolder
<1>2. ASSUME NEW h PROVE h \in Holders' <=> IsHolder(h)'
  <2> DEFINE QS == UNION {{AtQueue(q, i) : i \in DOMAIN cmds'[q]} : q \in Queues}
             SS == {AtSlot(d, k) : d \in Devices, k \in Slots}
  <2>1. h \in QS <=> \E q \in Queues : \E i \in DOMAIN cmds'[q] : h = AtQueue(q, i)
    BY QueueHolders
  <2>2. h \in SS <=> \E d \in Devices, k \in Slots : h = AtSlot(d, k)
    BY SlotHolders
  <2>3. Holders' = {AtClient, AtGpu} \cup QS \cup SS
    BY DEF Holders
  <2> HIDE DEF QS, SS
  <2> QED BY <2>1, <2>2, <2>3 DEF IsHolder
<1> QED BY <1>1, <1>2

LEMMA HoldersDiffer ==
  /\ AtClient # AtGpu
  /\ \A q, i : AtQueue(q, i) # AtClient /\ AtQueue(q, i) # AtGpu
  /\ \A d, k : AtSlot(d, k) # AtClient /\ AtSlot(d, k) # AtGpu
  /\ \A q, i, d, k : AtQueue(q, i) # AtSlot(d, k)
  /\ \A q, i, p, j : AtQueue(q, i) = AtQueue(p, j) => q = p /\ i = j
  /\ \A d, k, e, l : AtSlot(d, k) = AtSlot(e, l) => d = e /\ k = l
<1>1. /\ AtClient.at = "client" /\ AtGpu.at = "gpu"
      /\ \A q, i : AtQueue(q, i).at = "queue" /\ AtQueue(q, i).q = q /\ AtQueue(q, i).i = i
      /\ \A d, k : AtSlot(d, k).at = "slot" /\ AtSlot(d, k).d = d /\ AtSlot(d, k).k = k
  BY DEF AtClient, AtGpu, AtQueue, AtSlot
<1>2. "client" # "gpu" /\ "client" # "queue" /\ "client" # "slot" /\ "gpu" # "queue"
      /\ "gpu" # "slot" /\ "queue" # "slot"
  OBVIOUS
<1>3. ASSUME NEW q, NEW i, NEW p, NEW j, AtQueue(q, i) = AtQueue(p, j) PROVE q = p /\ i = j
  BY <1>1, <1>3
<1>4. ASSUME NEW d, NEW k, NEW e, NEW l, AtSlot(d, k) = AtSlot(e, l) PROVE d = e /\ k = l
  BY <1>1, <1>4
<1>5. ASSUME NEW q, NEW i, NEW d, NEW k
      PROVE  /\ AtQueue(q, i) # AtClient /\ AtQueue(q, i) # AtGpu
             /\ AtSlot(d, k) # AtClient /\ AtSlot(d, k) # AtGpu
             /\ AtQueue(q, i) # AtSlot(d, k)
  BY <1>1, <1>2
<1>6. AtClient # AtGpu
  BY <1>1, <1>2
<1> QED BY <1>3, <1>4, <1>5, <1>6

LEMMA OpsAtForms ==
  /\ OpsAt(AtClient) = ClientOps /\ OpsAt(AtClient)' = ClientOps'
  /\ OpsAt(AtGpu) = renders      /\ OpsAt(AtGpu)' = renders'
  /\ \A q, i : OpsAt(AtQueue(q, i)) = cmds[q][i].ops /\ OpsAt(AtQueue(q, i))' = cmds'[q][i].ops
  /\ \A d, k : OpsAt(AtSlot(d, k)) = SlotOps(d, k)   /\ OpsAt(AtSlot(d, k))' = SlotOps(d, k)'
<1>1. /\ OpsAt(AtClient) = ClientOps /\ OpsAt(AtClient)' = ClientOps'
      /\ OpsAt(AtGpu) = renders      /\ OpsAt(AtGpu)' = renders'
  BY DEF OpsAt, AtClient, AtGpu
<1>2. ASSUME NEW q, NEW i
      PROVE  OpsAt(AtQueue(q, i)) = cmds[q][i].ops /\ OpsAt(AtQueue(q, i))' = cmds'[q][i].ops
  BY DEF OpsAt, AtQueue
<1>3. ASSUME NEW d, NEW k
      PROVE  OpsAt(AtSlot(d, k)) = SlotOps(d, k)   /\ OpsAt(AtSlot(d, k))' = SlotOps(d, k)'
  BY DEF OpsAt, AtSlot
<1> QED BY <1>1, <1>2, <1>3

-----------------------------------------------------------------------------
(* The ways a step can treat the tickets.  First: operations change hands,  *)
(* M giving the former holder of what a holder has now.                     *)
LEMMA TicketsMove ==
  ASSUME TicketsInRange, TicketsUnique, syncData' = syncData, NEW M,
         \A h \in Holders' : M[h] \in Holders /\ OpsAt(h)' \subseteq OpsAt(M[h]),
         \A g, h \in Holders' : OpsAt(g)' # {} /\ OpsAt(h)' # {} /\ M[g] = M[h] => g = h
  PROVE  TicketsInRange' /\ TicketsUnique'
<1>1. TicketsInRange'
  BY DEF TicketsInRange, Served, NextTicket, Ticket
<1>2. TicketsUnique'
  <2> SUFFICES ASSUME NEW g \in Holders', NEW h \in Holders', NEW o \in OpsAt(g)', NEW p \in OpsAt(h)',
                      o.sync = p.sync, Ticket(o) = Ticket(p)
               PROVE  g = h /\ o = p
    BY DEF TicketsUnique, Ticket
  <2>1. o \in OpsAt(M[g]) /\ p \in OpsAt(M[h]) /\ M[g] \in Holders /\ M[h] \in Holders
    OBVIOUS
  <2>2. M[g] = M[h] /\ o = p
    BY <2>1 DEF TicketsUnique
  <2> QED BY <2>2
<1> QED BY <1>1, <1>2

(* No holder gets an operation it did not have.                             *)
LEMMA TicketsStay ==
  ASSUME TicketsInRange, TicketsUnique, syncData' = syncData,
         \A h \in Holders' : h \in Holders /\ OpsAt(h)' \subseteq OpsAt(h)
  PROVE  TicketsInRange' /\ TicketsUnique'
<1> DEFINE M == [h \in Holders' |-> h]
<1>1. \A h \in Holders' : M[h] = h
  OBVIOUS
<1> HIDE DEF M
<1> QED BY <1>1, TicketsMove

(* One holder is given an operation issued in this step.                    *)
LEMMA TicketIssued ==
  ASSUME TypeOK, TicketsInRange, TicketsUnique,
         NEW s \in Syncs, NEW kind \in {"read", "write"}, NEW g0,
         syncData' = AddPending(s, kind),
         \A h \in Holders' : h \in Holders,
         \A h \in Holders' : \A o \in OpsAt(h)' :
             o \in OpsAt(h) \/ (h = g0 /\ o = Issue(s, kind))
  PROVE  TicketsInRange' /\ TicketsUnique'
<1> DEFINE Counters == [wop : Nat, rop : Nat, woc : Nat, roc : Nat]
           new == Issue(s, kind)
<1>1. syncData \in [Syncs -> Counters] /\ syncData' \in [Syncs -> Counters] /\ new \in Op
  BY IssueType DEF TypeOK
<1>2. /\ NextTicket(s)' = NextTicket(s) + 1 /\ Served(s)' = Served(s)
      /\ \A t \in Syncs : t # s => NextTicket(t)' = NextTicket(t) /\ Served(t)' = Served(t)
  <2>1. CASE kind = "write"
    BY <1>1, <2>1 DEF AddPending, NextTicket, Served
  <2>2. CASE kind = "read"
    BY <1>1, <2>2 DEF AddPending, NextTicket, Served
  <2> QED BY <2>1, <2>2
<1>3. \A t \in Syncs : NextTicket(t) \in Nat /\ Served(t) \in Nat
  BY <1>1 DEF NextTicket, Served
<1>4. new.sync = s /\ Ticket(new) = NextTicket(s)
  BY DEF Issue, Ticket, NextTicket
<1>5. TicketsInRange'
  <2>1. ASSUME NEW h \in Holders', NEW o \in OpsAt(h)'
        PROVE  o \in Op /\ Served(o.sync)' <= Ticket(o) /\ Ticket(o) < NextTicket(o.sync)'
    <3>1. CASE o \in OpsAt(h)
      <4>1. o \in Op /\ Served(o.sync) <= Ticket(o) /\ Ticket(o) < NextTicket(o.sync)
        BY <3>1 DEF TicketsInRange
      <4>2. o.sync \in Syncs /\ Ticket(o) \in Nat
        BY <4>1 DEF Op, Ticket
      <4> QED BY <1>2, <1>3, <4>1, <4>2
    <3>2. CASE o = new
      <4>1. Served(s) <= NextTicket(s)
        BY DEF TicketsInRange
      <4> QED BY <1>1, <1>2, <1>3, <1>4, <3>2, <4>1
    <3> QED BY <3>1, <3>2
  <2>2. \A t \in Syncs : Served(t)' <= NextTicket(t)'
    BY <1>2, <1>3 DEF TicketsInRange
  <2> QED BY <2>1, <2>2 DEF TicketsInRange, Ticket
<1>6. \A h \in Holders : \A o \in OpsAt(h) : Ticket(o) \in Nat /\ (o.sync = s => Ticket(o) # Ticket(new))
  <2> SUFFICES ASSUME NEW h \in Holders, NEW o \in OpsAt(h)
               PROVE  Ticket(o) \in Nat /\ (o.sync = s => Ticket(o) # Ticket(new))
    OBVIOUS
  <2>1. o \in Op /\ Ticket(o) < NextTicket(o.sync)
    BY DEF TicketsInRange
  <2>2. Ticket(o) \in Nat
    BY <2>1 DEF Op, Ticket
  <2> QED BY <1>3, <1>4, <2>1, <2>2
<1>7. TicketsUnique'
  <2> SUFFICES ASSUME NEW g \in Holders', NEW h \in Holders', NEW o \in OpsAt(g)', NEW p \in OpsAt(h)',
                      o.sync = p.sync, Ticket(o) = Ticket(p)
               PROVE  g = h /\ o = p
    BY DEF TicketsUnique, Ticket
  <2>1. CASE o \in OpsAt(g) /\ p \in OpsAt(h)
    BY <2>1 DEF TicketsUnique
  <2>2. CASE g = g0 /\ o = new /\ h = g0 /\ p = new
    BY <2>2
  <2>3. CASE (o \in OpsAt(g) /\ p = new) \/ (p \in OpsAt(h) /\ o = new)
    BY <1>4, <1>6, <2>3
  <2> QED BY <2>1, <2>2, <2>3
<1> QED BY <1>5, <1>7

(* One operation in flight is completed.                                    *)
LEMMA TicketCompleted ==
  ASSUME TypeOK, TicketsInRange, TicketsUnique,
         NEW g0 \in Holders, NEW op \in OpsAt(g0), Met(op),
         syncData' = AddComplete(op.sync, op.kind),
         \A h \in Holders' : h \in Holders,
         \A h \in Holders' : \A o \in OpsAt(h)' : o \in OpsAt(h) /\ (h = g0 => o # op)
  PROVE  TicketsInRange' /\ TicketsUnique'
<1> DEFINE Counters == [wop : Nat, rop : Nat, woc : Nat, roc : Nat]
           s == op.sync
<1>1. op \in Op /\ s \in Syncs /\ op.kind \in {"read", "write"} /\ Ticket(op) < NextTicket(s)
  BY DEF TicketsInRange, Op
<1>2. syncData \in [Syncs -> Counters] /\ syncData' \in [Syncs -> Counters]
  BY <1>1, IssueType DEF TypeOK
<1>3. /\ NextTicket(s)' = NextTicket(s) /\ Served(s)' = Served(s) + 1
      /\ \A t \in Syncs : t # s => NextTicket(t)' = NextTicket(t) /\ Served(t)' = Served(t)
  <2>1. CASE op.kind = "write"
    BY <1>1, <1>2, <2>1 DEF AddComplete, NextTicket, Served
  <2>2. CASE op.kind = "read"
    BY <1>1, <1>2, <2>2 DEF AddComplete, NextTicket, Served
  <2> QED BY <1>1, <2>1, <2>2
<1>4. \A t \in Syncs : NextTicket(t) \in Nat /\ Served(t) \in Nat
  BY <1>2 DEF NextTicket, Served
<1>5. Ticket(op) = Served(s)
  BY DEF Met, Ticket, Served
<1>6. TicketsInRange'
  <2>1. ASSUME NEW h \in Holders', NEW o \in OpsAt(h)'
        PROVE  o \in Op /\ Served(o.sync)' <= Ticket(o) /\ Ticket(o) < NextTicket(o.sync)'
    <3>1. o \in OpsAt(h) /\ h \in Holders /\ (h = g0 => o # op)
      OBVIOUS
    <3>2. o \in Op /\ Served(o.sync) <= Ticket(o) /\ Ticket(o) < NextTicket(o.sync)
      BY <3>1 DEF TicketsInRange
    <3>3. o.sync \in Syncs /\ Ticket(o) \in Nat
      BY <3>2 DEF Op, Ticket
    <3>4. o.sync = s => Ticket(o) # Ticket(op)
      BY <3>1 DEF TicketsUnique
    <3> QED BY <1>3, <1>4, <1>5, <3>2, <3>3, <3>4
  <2>2. \A t \in Syncs : Served(t)' <= NextTicket(t)'
    BY <1>1, <1>3, <1>4, <1>5 DEF TicketsInRange
  <2> QED BY <2>1, <2>2 DEF TicketsInRange, Ticket
<1>7. TicketsUnique'
  BY DEF TicketsUnique, Ticket
<1> QED BY <1>6, <1>7


-----------------------------------------------------------------------------
(* Frames: what a step keeps by leaving the parts alone.                    *)
LEMMA InFlightForms ==
  /\ \A o : o \in InFlight <=> o \in running \/ \E d \in Devices, k \in Slots : o \in SlotOps(d, k)
  /\ \A o : o \in InFlight' <=> o \in running' \/ \E d \in Devices, k \in Slots : o \in SlotOps(d, k)'
BY DEF InFlight

LEMMA HoldersKept ==
  ASSUME cmds' = cmds, ClientOps' \subseteq ClientOps, renders' \subseteq renders,
         \A d \in Devices, k \in Slots : SlotOps(d, k)' \subseteq SlotOps(d, k)
  PROVE  \A h \in Holders' : h \in Holders /\ OpsAt(h)' \subseteq OpsAt(h)
<1> SUFFICES ASSUME NEW h \in Holders' PROVE h \in Holders /\ OpsAt(h)' \subseteq OpsAt(h)
  OBVIOUS
<1>1. IsHolder(h)' /\ (IsHolder(h) => h \in Holders)
  BY HolderForms
<1>2. CASE h = AtClient
  BY <1>1, <1>2, OpsAtForms DEF IsHolder
<1>3. CASE h = AtGpu
  BY <1>1, <1>3, OpsAtForms DEF IsHolder
<1>4. ASSUME NEW q \in Queues, NEW i \in DOMAIN cmds[q], h = AtQueue(q, i)
      PROVE  h \in Holders /\ OpsAt(h)' \subseteq OpsAt(h)
  BY <1>1, <1>4, OpsAtForms DEF IsHolder
<1>5. ASSUME NEW d \in Devices, NEW k \in Slots, h = AtSlot(d, k)
      PROVE  h \in Holders /\ OpsAt(h)' \subseteq OpsAt(h)
  BY <1>1, <1>5, OpsAtForms DEF IsHolder
<1> QED BY <1>1, <1>2, <1>3, <1>4, <1>5 DEF IsHolder

LEMMA InFlightKept ==
  ASSUME InFlightIsMet, syncData' = syncData, running' \subseteq running,
         \A d \in Devices, k \in Slots : SlotOps(d, k)' \subseteq SlotOps(d, k)
  PROVE  InFlightIsMet'
BY InFlightForms DEF InFlightIsMet, Met

(* The command queues, the client and the driver's state left alone.        *)
LEMMA CommandsKept ==
  ASSUME CommandsReadTheirBuffer, cmds' = cmds, client' = client
  PROVE  CommandsReadTheirBuffer'
BY DEF CommandsReadTheirBuffer, Reads

LEMMA DriverKept ==
  ASSUME SwapWorkHoldsSlots, FlipHoldsSlot, HandlerHoldsSlot, NoCompletionLost,
         slot' = slot, handler' = handler, UNCHANGED <<swapWork, hCmdComplete>>
  PROVE  SwapWorkHoldsSlots' /\ FlipHoldsSlot' /\ HandlerHoldsSlot' /\ NoCompletionLost'
BY DEF SwapWorkHoldsSlots, FlipHoldsSlot, HandlerHoldsSlot, NoCompletionLost, Reads

LEMMA QuietStep ==
  ASSUME OrderInv, UNCHANGED <<syncData, cmds, client, slot, handler, renders>>,
         running' \subseteq running, UNCHANGED <<swapWork, hCmdComplete>>
  PROVE  OrderInv'
<1>1. \A d \in Devices, k \in Slots : SlotOps(d, k)' \subseteq SlotOps(d, k)
  BY DEF SlotOps
<1>2. ClientOps' \subseteq ClientOps
  BY DEF ClientOps
<1>3. TicketsInRange' /\ TicketsUnique'
  BY <1>1, <1>2, HoldersKept, TicketsStay DEF OrderInv
<1> QED BY <1>1, <1>3, InFlightKept, CommandsKept, DriverKept DEF OrderInv

(* In flight together on a surface means the same ticket: so at most one.   *)
LEMMA SameTurn ==
  ASSUME OrderInv, NEW g \in Holders, NEW h \in Holders, NEW o \in OpsAt(g), NEW p \in OpsAt(h),
         Met(o), Met(p), o.sync = p.sync
  PROVE  g = h /\ o = p
BY DEF OrderInv, TicketsUnique, Met, Ticket

(* A flushing pass accepts nothing more than a normal one: stale is met.    *)
LEMMA StaleIsMet ==
  ASSUME TypeOK, OrderInv, NEW h \in Holders, NEW op \in OpsAt(h), Stale(op)
  PROVE  Met(op)
<1>1. op \in Op /\ Served(op.sync) <= Ticket(op)
  BY DEF OrderInv, TicketsInRange
<1>2. syncData[op.sync] \in [wop : Nat, rop : Nat, woc : Nat, roc : Nat] /\ op.wop \in Nat /\ op.rop \in Nat
  BY <1>1 DEF TypeOK, Op
<1> QED BY <1>1, <1>2 DEF Stale, Met, Served, Ticket


(* What is in flight is held by the GPU or by a slot.                       *)
LEMMA FlightHeld ==
  ASSUME TypeOK, OrderInv, NEW o \in InFlight
  PROVE  /\ \E h \in Holders : o \in OpsAt(h)
         /\ o \in Op /\ o.sync \in Syncs
<1>1. CASE o \in running
  <2>1. AtGpu \in Holders /\ o \in OpsAt(AtGpu)
    BY <1>1, HolderForms, OpsAtForms DEF IsHolder, TypeOK
  <2> QED BY <2>1 DEF OrderInv, TicketsInRange, Op
<1>2. ASSUME NEW d \in Devices, NEW k \in Slots, o \in SlotOps(d, k)
      PROVE  /\ \E h \in Holders : o \in OpsAt(h)
             /\ o \in Op /\ o.sync \in Syncs
  <2>1. AtSlot(d, k) \in Holders /\ o \in OpsAt(AtSlot(d, k))
    BY <1>2, HolderForms, OpsAtForms DEF IsHolder
  <2> QED BY <2>1 DEF OrderInv, TicketsInRange, Op
<1> QED BY <1>1, <1>2, InFlightForms

LEMMA FlightPlace ==
  ASSUME running' \subseteq renders'
  PROVE  \A o \in InFlight' : \E h \in Holders' : o \in OpsAt(h)'
<1> SUFFICES ASSUME NEW o \in InFlight' PROVE \E h \in Holders' : o \in OpsAt(h)'
  OBVIOUS
<1>1. CASE o \in running'
  <2>1. AtGpu \in Holders' /\ o \in OpsAt(AtGpu)'
    BY <1>1, HolderForms, OpsAtForms DEF IsHolder
  <2> QED BY <2>1
<1>2. ASSUME NEW d \in Devices, NEW k \in Slots, o \in SlotOps(d, k)'
      PROVE  \E h \in Holders' : o \in OpsAt(h)'
  <2>1. AtSlot(d, k) \in Holders' /\ o \in OpsAt(AtSlot(d, k))'
    BY <1>2, HolderForms, OpsAtForms DEF IsHolder
  <2> QED BY <2>1
<1> QED BY <1>1, <1>2, InFlightForms

(* Issuing moves no complete count.                                         *)
LEMMA IssueKeepsComplete ==
  ASSUME TypeOK, NEW s \in Syncs, NEW kind \in {"read", "write"}, syncData' = AddPending(s, kind)
  PROVE  \A t \in Syncs : syncData'[t].woc = syncData[t].woc /\ syncData'[t].roc = syncData[t].roc
<1>1. syncData \in [Syncs -> [wop : Nat, rop : Nat, woc : Nat, roc : Nat]]
  BY DEF TypeOK
<1>2. CASE kind = "write"
  BY <1>1, <1>2 DEF AddPending
<1>3. CASE kind = "read"
  BY <1>1, <1>3 DEF AddPending
<1> QED BY <1>2, <1>3

-----------------------------------------------------------------------------
(* The invariant survives each action.                                      *)
LEMMA OrderInit == Init => OrderInv
<1> SUFFICES ASSUME Init PROVE OrderInv
  OBVIOUS
<1>1. \A d \in Devices, k \in Slots : SlotOps(d, k) = {}
  BY DEF Init, SlotOps
<1>2. \A h \in Holders : OpsAt(h) = {}
  <2>1. ClientOps = {} /\ renders = {} /\ \A q \in Queues : DOMAIN cmds[q] = {}
    BY DEF Init, ClientOps
  <2> QED BY <1>1, <2>1, HolderForms, OpsAtForms DEF IsHolder
<1>3. TicketsInRange /\ TicketsUnique
  BY <1>2 DEF TicketsInRange, TicketsUnique, Served, NextTicket, Init
<1>4. InFlightIsMet
  BY <1>1, InFlightForms DEF InFlightIsMet, Init
<1>5. CommandsReadTheirBuffer
  BY DEF CommandsReadTheirBuffer, Init
<1>6. SwapWorkHoldsSlots /\ FlipHoldsSlot /\ HandlerHoldsSlot /\ NoCompletionLost
  BY DEF SwapWorkHoldsSlots, FlipHoldsSlot, HandlerHoldsSlot, NoCompletionLost, Init
<1> QED BY <1>3, <1>4, <1>5, <1>6 DEF OrderInv

LEMMA OrderBeginSwap ==
  ASSUME TypeOK, OrderInv, NEW q \in Queues, NEW buf \in Chain(q), NEW n \in Nat, BeginSwap(q, buf, n)
  PROVE  OrderInv'
<1>1. UNCHANGED <<syncData, cmds, renders, running, slot, handler, swapWork, hCmdComplete>>
  BY DEF BeginSwap, queueVars, driverVars, gpuVars
<1>2. client'.pc = "space" /\ client'.q = q /\ client'.todo = SrcSyncs(q, buf)
      /\ client'.cmd = [buf |-> buf, ops |-> {}, rects |-> n]
  BY DEF BeginSwap
<1>3. ClientOps' = {}
  BY <1>2 DEF ClientOps
<1>4. \A d \in Devices, k \in Slots : SlotOps(d, k)' \subseteq SlotOps(d, k)
  BY <1>1 DEF SlotOps
<1>5. TicketsInRange' /\ TicketsUnique'
  BY <1>1, <1>3, <1>4, HoldersKept, TicketsStay DEF OrderInv
<1>6. CommandsReadTheirBuffer'
  <2>1. client'.todo # <<>> /\ Head(client'.todo) = buf
    BY <1>2 DEF SrcSyncs
  <2> QED BY <1>1, <1>2, <2>1 DEF OrderInv, CommandsReadTheirBuffer, Reads
<1> QED BY <1>1, <1>4, <1>5, <1>6, InFlightKept, DriverKept DEF OrderInv

LEMMA OrderGetQueueSpace == TypeOK /\ OrderInv /\ GetQueueSpaceKM => OrderInv'
<1> SUFFICES ASSUME TypeOK, OrderInv, GetQueueSpaceKM PROVE OrderInv'
  OBVIOUS
<1>1. UNCHANGED <<syncData, cmds, renders, running, slot, handler, swapWork, hCmdComplete>>
  BY DEF GetQueueSpaceKM, queueVars, driverVars, gpuVars
<1>2. client' = [client EXCEPT !.pc = "insert"] \/ client' = [pc |-> "idle"]
  BY DEF GetQueueSpaceKM
<1>3. client.pc = "space" /\ client \in [pc : {"space", "insert"}, q : Queues, todo : Seq(Syncs), cmd : Cmd]
  BY ClientShape DEF GetQueueSpaceKM
<1>4. \/ client'.pc = "idle"
      \/ client'.pc = "insert" /\ client'.q = client.q /\ client'.todo = client.todo /\ client'.cmd = client.cmd
  BY <1>2, <1>3
<1>5. ClientOps' \subseteq ClientOps
  BY <1>3, <1>4 DEF ClientOps
<1>6. \A d \in Devices, k \in Slots : SlotOps(d, k)' \subseteq SlotOps(d, k)
  BY <1>1 DEF SlotOps
<1>7. TicketsInRange' /\ TicketsUnique'
  BY <1>1, <1>5, <1>6, HoldersKept, TicketsStay DEF OrderInv
<1>8. CommandsReadTheirBuffer'
  BY <1>1, <1>3, <1>4 DEF OrderInv, CommandsReadTheirBuffer, Reads
<1> QED BY <1>1, <1>6, <1>7, <1>8, InFlightKept, DriverKept DEF OrderInv

LEMMA OrderInsertCommand == TypeOK /\ OrderInv /\ InsertCommandKM => OrderInv'
<1> SUFFICES ASSUME TypeOK, OrderInv, InsertCommandKM PROVE OrderInv'
  OBVIOUS
<1> DEFINE s == Head(client.todo)
           op == Issue(s, "read")
<1>1. UNCHANGED <<cmds, renders, running, slot, handler, swapWork, hCmdComplete>>
  BY DEF InsertCommandKM, queueVars, driverVars, gpuVars
<1>2. client.pc = "insert" /\ client \in [pc : {"space", "insert"}, q : Queues, todo : Seq(Syncs), cmd : Cmd]
  BY ClientShape DEF InsertCommandKM
<1>3. s \in Syncs /\ syncData' = AddPending(s, "read") /\ client.todo # <<>>
  BY <1>2 DEF InsertCommandKM
<1>4. client'.pc = "insert" /\ client'.q = client.q
      /\ client'.cmd.buf = client.cmd.buf /\ client'.cmd.ops = client.cmd.ops \cup {op}
  BY <1>2 DEF InsertCommandKM, Cmd
<1>5. ClientOps' = ClientOps \cup {op}
  BY <1>2, <1>4 DEF ClientOps
<1>6. \A d \in Devices, k \in Slots : SlotOps(d, k)' = SlotOps(d, k)
  BY <1>1 DEF SlotOps
<1>7. \A h \in Holders' : h \in Holders /\ \A o \in OpsAt(h)' : o \in OpsAt(h) \/ (h = AtClient /\ o = op)
  <2> SUFFICES ASSUME NEW h \in Holders'
               PROVE  h \in Holders /\ \A o \in OpsAt(h)' : o \in OpsAt(h) \/ (h = AtClient /\ o = op)
    OBVIOUS
  <2> HIDE DEF op, s
  <2>1. IsHolder(h)' /\ IsHolder(h) /\ h \in Holders
    BY <1>1, HolderForms DEF IsHolder
  <2>2. CASE h = AtClient
    BY <1>5, <2>1, <2>2, OpsAtForms
  <2>3. CASE h = AtGpu
    BY <1>1, <2>1, <2>3, OpsAtForms
  <2>4. ASSUME NEW q \in Queues, NEW i \in DOMAIN cmds[q], h = AtQueue(q, i)
        PROVE  OpsAt(h)' = OpsAt(h)
    BY <1>1, <2>4, OpsAtForms
  <2>5. ASSUME NEW d \in Devices, NEW k \in Slots, h = AtSlot(d, k)
        PROVE  OpsAt(h)' = OpsAt(h)
    BY <1>6, <2>5, OpsAtForms
  <2> QED BY <2>1, <2>2, <2>3, <2>4, <2>5 DEF IsHolder
<1>8. TicketsInRange' /\ TicketsUnique'
  BY <1>3, <1>7, TicketIssued DEF OrderInv
<1>9. InFlightIsMet'
  <2>1. \A o \in InFlight' : o \in InFlight
    BY <1>1, <1>6, InFlightForms
  <2> QED BY <1>3, <2>1, FlightHeld, IssueKeepsComplete DEF InFlightIsMet, Met, OrderInv
<1>10. CommandsReadTheirBuffer'
  <2>1. s = client.cmd.buf => Reads(client'.cmd.ops, client.cmd.buf)
    <3>1. op.sync = s
      BY DEF Issue
    <3> HIDE DEF op, s
    <3> QED BY <1>4, <3>1 DEF Reads
  <2>2. Reads(client.cmd.ops, client.cmd.buf) => Reads(client'.cmd.ops, client.cmd.buf)
    BY <1>4 DEF Reads
  <2> QED BY <1>1, <1>2, <1>4, <2>1, <2>2 DEF OrderInv, CommandsReadTheirBuffer
<1> QED BY <1>1, <1>8, <1>9, <1>10, DriverKept DEF OrderInv


LEMMA OrderSubmitCommand == TypeOK /\ OrderInv /\ SubmitCommandKM => OrderInv'
<1> SUFFICES ASSUME TypeOK, OrderInv, SubmitCommandKM PROVE OrderInv'
  OBVIOUS
<1> DEFINE q == client.q
           c == client.cmd
           n == Len(cmds[q]) + 1
<1>1. UNCHANGED <<syncData, renders, running, slot, handler, swapWork, hCmdComplete>>
  BY DEF SubmitCommandKM, driverVars, gpuVars
<1>2. client.pc = "insert" /\ client.todo = <<>> /\ client'.pc = "schedule"
      /\ q \in Queues /\ c \in Cmd /\ cmds' = [cmds EXCEPT ![q] = Append(@, c)]
  BY ClientShape DEF SubmitCommandKM
<1>3. ClientOps = c.ops /\ ClientOps' = {}
  BY <1>2 DEF ClientOps
<1>4. \A d \in Devices, k \in Slots : SlotOps(d, k)' = SlotOps(d, k)
  BY <1>1 DEF SlotOps
<1>5. cmds \in [Queues -> Seq(Cmd)] /\ cmds[q] \in Seq(Cmd)
  BY <1>2 DEF TypeOK
<1>6. /\ DOMAIN Append(cmds[q], c) = DOMAIN cmds[q] \cup {n} /\ n \notin DOMAIN cmds[q]
      /\ Append(cmds[q], c)[n] = c
      /\ \A i \in DOMAIN cmds[q] : Append(cmds[q], c)[i] = cmds[q][i]
  BY <1>2, <1>5
<1>7. /\ \A p \in Queues : p # q => cmds'[p] = cmds[p]
      /\ cmds'[q] = Append(cmds[q], c)
  BY <1>2, <1>5
<1> HIDE DEF q, c, n
<1>8. \A p \in Queues : \A i \in DOMAIN cmds'[p] :
         \/ i \in DOMAIN cmds[p] /\ cmds'[p][i] = cmds[p][i] /\ AtQueue(p, i) # AtQueue(q, n)
         \/ p = q /\ i = n /\ cmds'[p][i] = c
  BY <1>6, <1>7, HoldersDiffer
<1> DEFINE M == [h \in Holders' |-> IF h = AtQueue(q, n) THEN AtClient ELSE h]
<1>9. \A h \in Holders' : M[h] = IF h = AtQueue(q, n) THEN AtClient ELSE h
  OBVIOUS
<1> HIDE DEF M
<1>10. \A h \in Holders' : M[h] \in Holders /\ OpsAt(h)' \subseteq OpsAt(M[h])
  <2> SUFFICES ASSUME NEW h \in Holders'
               PROVE  M[h] \in Holders /\ OpsAt(h)' \subseteq OpsAt(M[h])
    OBVIOUS
  <2>1. CASE h = AtClient \/ h = AtGpu
    BY <1>1, <1>3, <1>9, <2>1, HoldersDiffer, HolderForms, OpsAtForms DEF IsHolder
  <2>2. ASSUME NEW p \in Queues, NEW i \in DOMAIN cmds'[p], h = AtQueue(p, i)
        PROVE  M[h] \in Holders /\ OpsAt(h)' \subseteq OpsAt(M[h])
    <3>1. CASE p = q /\ i = n /\ cmds'[p][i] = c
      BY <1>3, <1>9, <2>2, <3>1, HolderForms, OpsAtForms DEF IsHolder
    <3>2. CASE i \in DOMAIN cmds[p] /\ cmds'[p][i] = cmds[p][i] /\ AtQueue(p, i) # AtQueue(q, n)
      <4>1. M[h] = h /\ h \in Holders
        BY <1>9, <2>2, <3>2, HolderForms DEF IsHolder
      <4> QED BY <2>2, <3>2, <4>1, OpsAtForms
    <3> QED BY <1>8, <3>1, <3>2
  <2>3. ASSUME NEW d \in Devices, NEW k \in Slots, h = AtSlot(d, k)
        PROVE  M[h] \in Holders /\ OpsAt(h)' \subseteq OpsAt(M[h])
    <3>1. M[h] = h /\ h \in Holders
      BY <1>9, <2>3, HoldersDiffer, HolderForms DEF IsHolder
    <3> QED BY <1>4, <2>3, <3>1, OpsAtForms
  <2> QED BY <2>1, <2>2, <2>3, HolderForms DEF IsHolder
<1>11. \A g, h \in Holders' : OpsAt(g)' # {} /\ OpsAt(h)' # {} /\ M[g] = M[h] => g = h
  BY <1>3, <1>9, OpsAtForms
<1>12. TicketsInRange' /\ TicketsUnique'
  BY <1>1, <1>10, <1>11, TicketsMove DEF OrderInv
<1>13. CommandsReadTheirBuffer'
  <2>1. c.buf \in Chain(q) /\ Reads(c.ops, c.buf)
    BY <1>2 DEF OrderInv, CommandsReadTheirBuffer, q, c
  <2>2. \A p \in Queues : \A i \in DOMAIN cmds'[p] :
           cmds'[p][i].buf \in Chain(p) /\ Reads(cmds'[p][i].ops, cmds'[p][i].buf)
    BY <1>8, <2>1 DEF OrderInv, CommandsReadTheirBuffer
  <2> QED BY <1>2, <2>2 DEF CommandsReadTheirBuffer, Reads
<1> QED BY <1>1, <1>4, <1>12, <1>13, InFlightKept, DriverKept DEF OrderInv

LEMMA OrderDoKick ==
  ASSUME TypeOK, OrderInv, NEW s \in Syncs, DoKickKM(s)
  PROVE  OrderInv'
<1> DEFINE op == Issue(s, "write")
<1>1. UNCHANGED <<cmds, client, running, slot, handler, swapWork, hCmdComplete>>
      /\ renders' = renders \cup {op} /\ syncData' = AddPending(s, "write")
  BY DEF DoKickKM, queueVars, driverVars, clientVars
<1> HIDE DEF op
<1>2. \A d \in Devices, k \in Slots : SlotOps(d, k)' = SlotOps(d, k)
  BY <1>1 DEF SlotOps
<1>3. ClientOps' = ClientOps
  BY <1>1 DEF ClientOps
<1>4. \A h \in Holders' : h \in Holders /\ \A o \in OpsAt(h)' : o \in OpsAt(h) \/ (h = AtGpu /\ o = op)
  <2> SUFFICES ASSUME NEW h \in Holders'
               PROVE  h \in Holders /\ \A o \in OpsAt(h)' : o \in OpsAt(h) \/ (h = AtGpu /\ o = op)
    OBVIOUS
  <2>1. IsHolder(h) /\ h \in Holders
    BY <1>1, HolderForms DEF IsHolder
  <2>2. CASE h = AtClient \/ h = AtGpu
    BY <1>1, <1>3, <2>1, <2>2, OpsAtForms
  <2>3. ASSUME NEW q \in Queues, NEW i \in DOMAIN cmds[q], h = AtQueue(q, i)
        PROVE  OpsAt(h)' = OpsAt(h)
    BY <1>1, <2>3, OpsAtForms
  <2>4. ASSUME NEW d \in Devices, NEW k \in Slots, h = AtSlot(d, k)
        PROVE  OpsAt(h)' = OpsAt(h)
    BY <1>2, <2>4, OpsAtForms
  <2> QED BY <2>1, <2>2, <2>3, <2>4 DEF IsHolder
<1>5. TicketsInRange' /\ TicketsUnique'
  BY <1>1, <1>4, TicketIssued DEF OrderInv, op
<1>6. InFlightIsMet'
  <2>1. \A o \in InFlight' : o \in InFlight
    BY <1>1, <1>2, InFlightForms
  <2> QED BY <1>1, <2>1, FlightHeld, IssueKeepsComplete DEF InFlightIsMet, Met, OrderInv
<1> QED BY <1>1, <1>5, <1>6, CommandsKept, DriverKept DEF OrderInv


(* The head of a queue moves into the free slot; its buffer cannot be on    *)
(* the swap work queue already, for that flip would still be in flight.     *)
LEMMA OrderProcessCommand ==
  ASSUME TypeOK, OrderInv, NEW w \in Walkers, NEW q \in Queues, ProcessCommand(w, q)
  PROVE  OrderInv'
<1> DEFINE d == DeviceOf[q]
           c == Head(cmds[q])
<1>1. PICK k \in Slots : k = ccbOffset[d]
  <2>1. ccbOffset \in [Devices -> Slots] /\ d \in Devices
    BY Zenon, ConstantsAssumption DEF TypeOK
  <2> QED BY <2>1
<1>2. /\ UNCHANGED <<syncData, renders, running, client, handler>>
      /\ cmds' = [cmds EXCEPT ![q] = Tail(@)]
      /\ slot' = [slot EXCEPT ![d][k] = [bInUse |-> TRUE, ops |-> c.ops]]
      /\ hCmdComplete' = [hCmdComplete EXCEPT ![c.buf] = k]
      /\ swapWork' = QueueBufferForSwap(d, c.buf)
      /\ DependenciesMet(c.ops, walker[w].flush) /\ ~ slot[d][k].bInUse
  BY Zenon, <1>1 DEF ProcessCommand, clientVars, gpuVars, Blocked, CurrentSlot
<1>3. cmds \in [Queues -> Seq(Cmd)] /\ cmds[q] \in Seq(Cmd) /\ cmds[q] # <<>>
  BY DEF ProcessCommand, TypeOK
<1>4. /\ 1 \in DOMAIN cmds[q] /\ c = cmds[q][1] /\ c \in Cmd
      /\ \A i \in DOMAIN Tail(cmds[q]) : /\ i \in Nat /\ i + 1 \in DOMAIN cmds[q] /\ i + 1 # 1
                                         /\ Tail(cmds[q])[i] = cmds[q][i + 1]
  BY <1>3
<1>5. d \in Devices /\ k \in Slots /\ c.buf \in Syncs
  BY <1>4, ConstantsAssumption DEF TypeOK, Cmd
<1>6. /\ \A p \in Queues : p # q => cmds'[p] = cmds[p]
      /\ cmds'[q] = Tail(cmds[q])
  BY <1>2, <1>3
<1>7. /\ \A e \in Devices, l \in Slots : ~ (e = d /\ l = k) => slot'[e][l] = slot[e][l]
      /\ slot'[d][k].bInUse = TRUE /\ slot'[d][k].ops = c.ops
  BY <1>2, <1>5 DEF TypeOK
<1> HIDE DEF d, c
<1>8. ~ (handler[d].pc = "complete" /\ handler[d].slot = k)
  BY <1>2, <1>5 DEF OrderInv, HandlerHoldsSlot
<1>9. /\ SlotOps(d, k) = {} /\ SlotOps(d, k)' = c.ops
      /\ \A e \in Devices, l \in Slots : ~ (e = d /\ l = k) => SlotOps(e, l)' = SlotOps(e, l)
  <2>1. SlotOps(d, k) = {}
    BY <1>2 DEF SlotOps
  <2>2. SlotOps(d, k)' = c.ops
    BY <1>2, <1>7, <1>8 DEF SlotOps
  <2>3. ASSUME NEW e \in Devices, NEW l \in Slots, ~ (e = d /\ l = k) PROVE SlotOps(e, l)' = SlotOps(e, l)
    <3>1. slot'[e][l] = slot[e][l]
      BY <1>7, <2>3
    <3> QED BY <1>2, <3>1 DEF SlotOps
  <2> QED BY <2>1, <2>2, <2>3
<1>10. AtQueue(q, 1) \in Holders /\ OpsAt(AtQueue(q, 1)) = c.ops
  BY <1>4, HolderForms, OpsAtForms DEF IsHolder
<1>11. \A op \in c.ops : Met(op)
  BY <1>2, <1>10, StaleIsMet DEF DependenciesMet
<1>12. ClientOps' = ClientOps
  BY <1>2 DEF ClientOps
<1>13. TicketsInRange' /\ TicketsUnique'
  <2> DEFINE M == [h \in Holders' |-> IF h = AtSlot(d, k) THEN AtQueue(q, 1)
                                      ELSE IF \E i \in DOMAIN cmds'[q] : h = AtQueue(q, i)
                                      THEN AtQueue(q, h.i + 1)
                                      ELSE h]
  <2>1. /\ AtSlot(d, k) \in Holders' => M[AtSlot(d, k)] = AtQueue(q, 1)
        /\ \A i \in DOMAIN cmds'[q] : M[AtQueue(q, i)] = AtQueue(q, i + 1)
        /\ \A h \in Holders' : h # AtSlot(d, k) /\ (\A i \in DOMAIN cmds'[q] : h # AtQueue(q, i)) => M[h] = h
    <3>1. AtSlot(d, k) \in Holders' => M[AtSlot(d, k)] = AtQueue(q, 1)
      OBVIOUS
    <3>2. ASSUME NEW i \in DOMAIN cmds'[q] PROVE M[AtQueue(q, i)] = AtQueue(q, i + 1)
      <4>1. AtQueue(q, i) \in Holders' /\ AtQueue(q, i) # AtSlot(d, k)
        BY HolderForms, HoldersDiffer DEF IsHolder
      <4>2. AtQueue(q, i).i = i
        BY DEF AtQueue
      <4> QED BY <4>1, <4>2
    <3>3. ASSUME NEW h \in Holders', h # AtSlot(d, k), \A i \in DOMAIN cmds'[q] : h # AtQueue(q, i)
          PROVE  M[h] = h
      BY <3>3
    <3> QED BY <3>1, <3>2, <3>3
  <2> HIDE DEF M
  <2>2. ASSUME NEW h \in Holders'
        PROVE  M[h] \in Holders /\ OpsAt(h)' \subseteq OpsAt(M[h])
    <3>1. CASE h = AtClient \/ h = AtGpu
      <4>1. M[h] = h /\ h \in Holders
        BY <2>1, <3>1, HoldersDiffer, HolderForms DEF IsHolder
      <4> QED BY <1>2, <1>12, <3>1, <4>1, OpsAtForms
    <3>2. ASSUME NEW p \in Queues, NEW i \in DOMAIN cmds'[p], h = AtQueue(p, i)
          PROVE  M[h] \in Holders /\ OpsAt(h)' \subseteq OpsAt(M[h])
      <4>1. CASE p = q
        <5>1. M[h] = AtQueue(q, i + 1) /\ i + 1 \in DOMAIN cmds[q] /\ cmds'[q][i] = cmds[q][i + 1]
          BY <1>4, <1>6, <2>1, <3>2, <4>1
        <5>2. M[h] \in Holders
          BY <5>1, HolderForms DEF IsHolder
        <5> QED BY <3>2, <4>1, <5>1, <5>2, OpsAtForms
      <4>2. CASE p # q
        <5>1. M[h] = h /\ cmds'[p] = cmds[p]
          BY <1>6, <2>1, <3>2, <4>2, HoldersDiffer
        <5>2. h \in Holders
          BY <3>2, <5>1, HolderForms DEF IsHolder
        <5> QED BY <3>2, <5>1, <5>2, OpsAtForms
      <4> QED BY <4>1, <4>2
    <3>3. ASSUME NEW e \in Devices, NEW l \in Slots, h = AtSlot(e, l)
          PROVE  M[h] \in Holders /\ OpsAt(h)' \subseteq OpsAt(M[h])
      <4>1. CASE e = d /\ l = k
        <5>1. M[h] = AtQueue(q, 1) /\ h = AtSlot(d, k)
          BY <2>1, <3>3, <4>1
        <5>2. OpsAt(h)' = c.ops
          BY <1>9, <5>1, OpsAtForms
        <5> QED BY <1>10, <5>1, <5>2
      <4>2. CASE ~ (e = d /\ l = k)
        <5>1. M[h] = h /\ h \in Holders
          BY <2>1, <3>3, <4>2, HoldersDiffer, HolderForms DEF IsHolder
        <5> QED BY <1>9, <3>3, <4>2, <5>1, OpsAtForms
      <4> QED BY <4>1, <4>2
    <3> QED BY <3>1, <3>2, <3>3, HolderForms DEF IsHolder
  <2>3. ASSUME NEW h \in Holders'
        PROVE  \/ h = AtSlot(d, k) /\ M[h] = AtQueue(q, 1)
               \/ \E i \in DOMAIN cmds'[q] : h = AtQueue(q, i) /\ M[h] = AtQueue(q, i + 1)
               \/ /\ M[h] = h
                  /\ \A i : h # AtQueue(q, i)
    <3>1. CASE h = AtSlot(d, k) \/ \E i \in DOMAIN cmds'[q] : h = AtQueue(q, i)
      BY <2>1, <3>1
    <3>2. CASE h # AtSlot(d, k) /\ \A i \in DOMAIN cmds'[q] : h # AtQueue(q, i)
      <4>1. M[h] = h
        BY <2>1, <3>2
      <4>2. \A i : h # AtQueue(q, i)
        BY <3>2, HolderForms, HoldersDiffer DEF IsHolder
      <4> QED BY <4>1, <4>2
    <3> QED BY <3>1, <3>2
  <2>4. ASSUME NEW g \in Holders', NEW h \in Holders', M[g] = M[h] PROVE g = h
    <3>1. \A i, j \in DOMAIN cmds'[q] : /\ i + 1 # 1
                                        /\ AtQueue(q, i + 1) = AtQueue(q, j + 1) => i = j
                                        /\ AtQueue(q, i + 1) # AtQueue(q, 1)
      <4>1. \A i, j \in DOMAIN cmds'[q] : i \in Nat /\ j \in Nat /\ i + 1 # 1
        BY <1>4, <1>6
      <4> QED BY <4>1, HoldersDiffer
    <3> QED BY <2>3, <2>4, <3>1
  <2> QED BY <1>2, <2>2, <2>4, TicketsMove DEF OrderInv
<1>14. InFlightIsMet'
  <2>1. \A o \in InFlight' : o \in InFlight \/ o \in c.ops
    <3>1. ASSUME NEW o, NEW e \in Devices, NEW l \in Slots, o \in SlotOps(e, l)'
          PROVE  o \in InFlight \/ o \in c.ops
      <4>1. CASE e = d /\ l = k
        BY <1>9, <3>1, <4>1
      <4>2. CASE ~ (e = d /\ l = k)
        BY <1>9, <3>1, <4>2, InFlightForms
      <4> QED BY <4>1, <4>2
    <3> QED BY <1>2, <3>1, InFlightForms
  <2> QED BY <1>2, <1>11, <2>1 DEF InFlightIsMet, Met, OrderInv
<1>15. c.buf \in Chain(q) /\ Reads(c.ops, c.buf)
  BY <1>4 DEF OrderInv, CommandsReadTheirBuffer
<1>16. CommandsReadTheirBuffer'
  <2>1. ASSUME NEW p \in Queues, NEW i \in DOMAIN cmds'[p]
        PROVE  \E j \in DOMAIN cmds[p] : cmds'[p][i] = cmds[p][j]
    <3>1. CASE p = q
      BY <1>4, <1>6, <3>1
    <3>2. CASE p # q
      BY <1>6, <3>2
    <3> QED BY <3>1, <3>2
  <2> QED BY <1>2, <2>1 DEF OrderInv, CommandsReadTheirBuffer, Reads
<1>17. \A i \in DOMAIN swapWork[d] : swapWork[d][i] # c.buf
  <2> SUFFICES ASSUME NEW i \in DOMAIN swapWork[d], swapWork[d][i] = c.buf PROVE FALSE
    OBVIOUS
  <2> DEFINE l == hCmdComplete[c.buf]
  <2>1. l \in Slots
    BY <1>5 DEF TypeOK
  <2>2. /\ slot[d][l].bInUse /\ ~ (handler[d].pc = "complete" /\ handler[d].slot = l)
        /\ Reads(slot[d][l].ops, c.buf)
    BY <1>5 DEF OrderInv, SwapWorkHoldsSlots
  <2>3. PICK o \in slot[d][l].ops : o.sync = c.buf
    BY <2>2 DEF Reads
  <2>4. PICK p \in c.ops : p.sync = c.buf
    BY <1>15 DEF Reads
  <2>5. o \in SlotOps(d, l)
    BY <2>2, <2>3 DEF SlotOps
  <2>6. AtSlot(d, l) \in Holders /\ o \in OpsAt(AtSlot(d, l)) /\ o \in InFlight
    BY <1>5, <2>1, <2>5, HolderForms, OpsAtForms, InFlightForms DEF IsHolder
  <2>7. Met(o) /\ Met(p)
    BY <1>11, <2>6 DEF OrderInv, InFlightIsMet
  <2> QED BY <1>10, <2>3, <2>4, <2>6, <2>7, SameTurn, HoldersDiffer
<1>18. handler[d].pc = "flip" => handler[d].buf # c.buf /\ hCmdComplete[handler[d].buf] # k
  <2> SUFFICES ASSUME handler[d].pc = "flip"
               PROVE  handler[d].buf # c.buf /\ hCmdComplete[handler[d].buf] # k
    OBVIOUS
  <2> DEFINE buf == handler[d].buf
  <2>1. PICK l \in Slots : l = hCmdComplete[buf]
    BY <1>5 DEF TypeOK
  <2>2. slot[d][l].bInUse /\ Reads(slot[d][l].ops, buf)
    BY <1>5, <2>1 DEF OrderInv, FlipHoldsSlot
  <2>3. l # k
    BY <1>2, <2>2
  <2>4. SlotOps(d, l) = slot[d][l].ops
    BY <2>2 DEF SlotOps
  <2>5. ASSUME buf = c.buf PROVE FALSE
    <3>1. PICK o \in slot[d][l].ops : o.sync = c.buf
      BY <2>2, <2>5 DEF Reads
    <3>2. PICK p \in c.ops : p.sync = c.buf
      BY <1>15 DEF Reads
    <3>3. AtSlot(d, l) \in Holders /\ o \in OpsAt(AtSlot(d, l)) /\ o \in InFlight
      BY <1>5, <2>4, <3>1, HolderForms, OpsAtForms, InFlightForms DEF IsHolder
    <3>4. Met(o) /\ Met(p)
      BY <1>11, <3>2, <3>3 DEF OrderInv, InFlightIsMet
    <3> QED BY <1>10, <3>1, <3>2, <3>3, <3>4, SameTurn, HoldersDiffer
  <2> QED BY <2>1, <2>3, <2>5
<1>19. /\ swapWork' = [swapWork EXCEPT ![d] = Append(@, c.buf)]
       /\ swapWork \in [Devices -> Seq(Syncs)] /\ hCmdComplete \in [Syncs -> Slots]
  BY <1>2, <1>17 DEF QueueBufferForSwap, TypeOK
<1>20. \A e \in Devices : \A i \in DOMAIN swapWork'[e] :
          \/ /\ i \in DOMAIN swapWork[e] /\ swapWork'[e][i] = swapWork[e][i]
             /\ ~ (e = d /\ i = Len(swapWork[d]) + 1)
          \/ e = d /\ i = Len(swapWork[d]) + 1 /\ swapWork'[e][i] = c.buf
  BY <1>5, <1>19
<1>21. \A e \in Devices : \A i \in DOMAIN swapWork[e] :
          /\ i \in DOMAIN swapWork'[e] /\ swapWork'[e][i] = swapWork[e][i]
          /\ swapWork[e][i] \in Syncs
          /\ swapWork[e][i] # c.buf
          /\ hCmdComplete'[swapWork[e][i]] = hCmdComplete[swapWork[e][i]]
  <2> SUFFICES ASSUME NEW e \in Devices, NEW i \in DOMAIN swapWork[e]
               PROVE  /\ i \in DOMAIN swapWork'[e] /\ swapWork'[e][i] = swapWork[e][i]
                      /\ swapWork[e][i] \in Syncs
                      /\ swapWork[e][i] # c.buf
                      /\ hCmdComplete'[swapWork[e][i]] = hCmdComplete[swapWork[e][i]]
    OBVIOUS
  <2>1. i \in DOMAIN swapWork'[e] /\ swapWork'[e][i] = swapWork[e][i] /\ swapWork[e][i] \in Syncs
    BY <1>5, <1>19
  <2>2. swapWork[e][i] # c.buf
    <3>1. CASE e = d
      BY <1>17, <3>1
    <3>2. CASE e # d
      <4>1. PICK p \in Queues : DeviceOf[p] = e /\ swapWork[e][i] \in Chain(p)
        BY DEF OrderInv, SwapWorkHoldsSlots
      <4>2. p # q
        BY <3>2, <4>1 DEF d
      <4> QED BY <1>15, <4>1, <4>2, ConstantsAssumption
    <3> QED BY <3>1, <3>2
  <2> QED BY <1>2, <1>5, <1>19, <2>1, <2>2
<1>22. hCmdComplete'[c.buf] = k
  BY <1>2, <1>5, <1>19
<1>23. \A e \in Devices : \A i \in DOMAIN swapWork[e] : ~ (e = d /\ hCmdComplete[swapWork[e][i]] = k)
  BY <1>2 DEF OrderInv, SwapWorkHoldsSlots
<1>24. SwapWorkHoldsSlots'
  <2> SUFFICES ASSUME NEW e \in Devices, NEW i \in DOMAIN swapWork'[e]
               PROVE  LET buf == swapWork'[e][i]
                          l   == hCmdComplete'[buf]
                      IN  /\ \E p \in Queues : DeviceOf[p] = e /\ buf \in Chain(p)
                          /\ slot'[e][l].bInUse
                          /\ Reads(slot'[e][l].ops, buf)
                          /\ ~ (handler'[e].pc = "complete" /\ handler'[e].slot = l)
                          /\ \A j \in DOMAIN swapWork'[e] : hCmdComplete'[swapWork'[e][j]] = l => i = j
    BY Zenon DEF SwapWorkHoldsSlots, Reads, Chain
  <2> DEFINE buf == swapWork'[e][i]
             l   == hCmdComplete'[buf]
  <2>1. CASE /\ i \in DOMAIN swapWork[e] /\ swapWork'[e][i] = swapWork[e][i]
             /\ ~ (e = d /\ i = Len(swapWork[d]) + 1)
    <3>1. l = hCmdComplete[buf] /\ buf = swapWork[e][i] /\ l \in Slots /\ ~ (e = d /\ l = k)
      BY <1>19, <1>21, <1>23, <2>1
    <3>2. slot'[e][l] = slot[e][l]
      BY <1>7, <3>1
    <3>3. /\ \E p \in Queues : DeviceOf[p] = e /\ buf \in Chain(p)
          /\ slot[e][l].bInUse /\ Reads(slot[e][l].ops, buf)
          /\ ~ (handler[e].pc = "complete" /\ handler[e].slot = l)
          /\ \A j \in DOMAIN swapWork[e] : hCmdComplete[swapWork[e][j]] = l => i = j
      BY <2>1, <3>1 DEF OrderInv, SwapWorkHoldsSlots
    <3>4. \A j \in DOMAIN swapWork'[e] : hCmdComplete'[swapWork'[e][j]] = l => i = j
      BY <1>20, <1>21, <1>22, <3>1, <3>3
    <3> QED BY Zenon, <1>2, <3>2, <3>3, <3>4
  <2>2. CASE e = d /\ i = Len(swapWork[d]) + 1 /\ swapWork'[e][i] = c.buf
    <3>1. l = k /\ buf = c.buf
      BY <1>22, <2>2
    <3>2. \A j \in DOMAIN swapWork'[e] : hCmdComplete'[swapWork'[e][j]] = l => i = j
      BY <1>20, <1>21, <1>23, <2>2, <3>1
    <3>3. \E p \in Queues : DeviceOf[p] = e /\ buf \in Chain(p)
      BY <1>15, <2>2, <3>1 DEF d
    <3> QED BY <1>2, <1>7, <1>8, <1>15, <2>2, <3>1, <3>2, <3>3
  <2> QED BY <1>20, <2>1, <2>2
<1>25. ASSUME NEW e \in Devices, handler[e].pc = "flip"
       PROVE  /\ hCmdComplete'[handler[e].buf] = hCmdComplete[handler[e].buf]
              /\ handler[e].buf \in Syncs /\ handler[e].buf # c.buf
  <2>1. handler[e].buf \in Syncs /\ \E p \in Queues : DeviceOf[p] = e /\ handler[e].buf \in Chain(p)
    BY <1>25 DEF OrderInv, FlipHoldsSlot
  <2>2. handler[e].buf # c.buf
    <3>1. CASE e = d
      BY <1>18, <1>25, <3>1
    <3>2. CASE e # d
      <4>1. PICK p \in Queues : DeviceOf[p] = e /\ handler[e].buf \in Chain(p)
        BY <2>1
      <4>2. p # q
        BY Zenon, <3>2, <4>1 DEF d
      <4> QED BY <1>15, <4>1, <4>2, ConstantsAssumption
    <3> QED BY <3>1, <3>2
  <2> QED BY <1>2, <1>19, <2>1, <2>2
<1>26. FlipHoldsSlot'
  <2> SUFFICES ASSUME NEW e \in Devices, handler'[e].pc = "flip"
               PROVE  LET buf == handler'[e].buf
                          l   == hCmdComplete'[buf]
                      IN  /\ buf \in Syncs
                          /\ \E p \in Queues : DeviceOf[p] = e /\ buf \in Chain(p)
                          /\ slot'[e][l].bInUse
                          /\ Reads(slot'[e][l].ops, buf)
                          /\ \A j \in DOMAIN swapWork'[e] : hCmdComplete'[swapWork'[e][j]] # l
    BY DEF FlipHoldsSlot, Reads, Chain
  <2>1. handler'[e] = handler[e]
    BY <1>2
  <2> DEFINE buf == handler[e].buf
             l   == hCmdComplete[buf]
  <2>2. /\ buf \in Syncs /\ \E p \in Queues : DeviceOf[p] = e /\ buf \in Chain(p)
        /\ slot[e][l].bInUse /\ Reads(slot[e][l].ops, buf)
        /\ \A j \in DOMAIN swapWork[e] : hCmdComplete[swapWork[e][j]] # l
    BY <2>1 DEF OrderInv, FlipHoldsSlot
  <2>3. hCmdComplete'[buf] = l /\ l \in Slots /\ ~ (e = d /\ l = k)
    BY <1>18, <1>19, <1>25, <2>1, <2>2
  <2>4. slot'[e][l] = slot[e][l]
    BY <1>7, <2>3
  <2>5. \A j \in DOMAIN swapWork'[e] : hCmdComplete'[swapWork'[e][j]] # l
    BY <1>20, <1>21, <1>22, <2>2, <2>3
  <2> QED BY <2>1, <2>2, <2>3, <2>4, <2>5
<1>27. HandlerHoldsSlot'
  <2> SUFFICES ASSUME NEW e \in Devices, handler'[e].pc = "complete" PROVE slot'[e][handler'[e].slot].bInUse
    BY DEF HandlerHoldsSlot
  <2>1. handler[e].slot \in Slots /\ handler'[e] = handler[e] /\ slot[e][handler[e].slot].bInUse
    BY <1>2 DEF TypeOK, OrderInv, HandlerHoldsSlot
  <2> QED BY <1>7, <2>1
<1>28. NoCompletionLost'
  <2> SUFFICES ASSUME NEW e \in Devices, NEW l \in Slots, slot'[e][l].bInUse
               PROVE  \/ \E i \in DOMAIN swapWork'[e] : hCmdComplete'[swapWork'[e][i]] = l
                      \/ handler'[e].pc = "flip" /\ hCmdComplete'[handler'[e].buf] = l
                      \/ handler'[e].pc = "complete" /\ handler'[e].slot = l
    BY DEF NoCompletionLost
  <2>1. CASE e = d /\ l = k
    <3>1. Len(swapWork[d]) + 1 \in DOMAIN swapWork'[d] /\ swapWork'[d][Len(swapWork[d]) + 1] = c.buf
      BY <1>5, <1>19
    <3> QED BY <1>22, <2>1, <3>1
  <2>2. CASE ~ (e = d /\ l = k)
    <3>1. slot[e][l].bInUse
      BY <1>7, <2>2
    <3> QED BY <1>2, <1>21, <1>25, <3>1 DEF OrderInv, NoCompletionLost
  <2> QED BY <2>1, <2>2
<1> QED BY <1>13, <1>14, <1>16, <1>24, <1>26, <1>27, <1>28 DEF OrderInv


(* Slots that are not in use may change what they last held.                *)
LEMMA OrderCommandRefused ==
  ASSUME TypeOK, OrderInv, NEW w \in Walkers, NEW q \in Queues, CommandRefused(w, q)
  PROVE  OrderInv'
<1> DEFINE d == DeviceOf[q]
<1>1. PICK k \in Slots : k = ccbOffset[d]
  <2>1. ccbOffset \in [Devices -> Slots] /\ d \in Devices
    BY ConstantsAssumption DEF TypeOK
  <2> QED BY <2>1
<1>2. /\ UNCHANGED <<syncData, cmds, renders, running, client, handler, swapWork, hCmdComplete>>
      /\ ~ slot[d][k].bInUse /\ d \in Devices
      /\ slot' = [slot EXCEPT ![d][k] = [bInUse |-> FALSE, ops |-> Head(cmds[q]).ops]]
  BY Zenon, <1>1, ConstantsAssumption
     DEF CommandRefused, driverVars, clientVars, gpuVars, Blocked, CurrentSlot
<1>3. /\ \A e \in Devices, l \in Slots : ~ (e = d /\ l = k) => slot'[e][l] = slot[e][l]
      /\ ~ slot'[d][k].bInUse
  BY <1>2 DEF TypeOK
<1> HIDE DEF d
<1>4. \A e \in Devices, l \in Slots : slot[e][l].bInUse => slot'[e][l] = slot[e][l]
  BY <1>2, <1>3
<1>5. \A e \in Devices, l \in Slots : slot'[e][l].bInUse => slot[e][l].bInUse /\ slot'[e][l] = slot[e][l]
  BY <1>3
<1>6. \A e \in Devices, l \in Slots : SlotOps(e, l)' \subseteq SlotOps(e, l)
  BY <1>2, <1>5 DEF SlotOps
<1>7. ClientOps' \subseteq ClientOps
  BY <1>2 DEF ClientOps
<1>8. TicketsInRange' /\ TicketsUnique'
  BY Zenon, <1>2, <1>6, <1>7, HoldersKept, TicketsStay DEF OrderInv
<1>9. SwapWorkHoldsSlots'
  <2>1. \A e \in Devices : \A i \in DOMAIN swapWork[e] : hCmdComplete[swapWork[e][i]] \in Slots
    BY DEF TypeOK
  <2> QED BY <1>2, <1>4, <2>1 DEF OrderInv, SwapWorkHoldsSlots, Reads
<1>10. HandlerHoldsSlot'
  <2>1. \A e \in Devices : handler[e].slot \in Slots
    BY DEF TypeOK
  <2> QED BY <1>2, <1>4, <2>1 DEF OrderInv, HandlerHoldsSlot
<1>11. NoCompletionLost'
  BY <1>2, <1>5 DEF OrderInv, NoCompletionLost
<1>12. FlipHoldsSlot'
  <2>1. \A e \in Devices : handler[e].pc = "flip" => hCmdComplete[handler[e].buf] \in Slots
    BY DEF TypeOK
  <2> QED BY <1>2, <1>4, <2>1 DEF OrderInv, FlipHoldsSlot, Reads
<1> QED BY <1>2, <1>6, <1>8, <1>9, <1>10, <1>11, <1>12, InFlightKept, CommandsKept DEF OrderInv

(* The swap handler takes the first buffer off its queue.                   *)
LEMMA OrderSwapHandler ==
  ASSUME TypeOK, OrderInv, NEW d \in Devices, SwapHandler(d)
  PROVE  OrderInv'
<1> DEFINE b == Head(swapWork[d])
<1>1. PICK k \in Slots : k = hCmdComplete[b]
  BY DEF SwapHandler, TypeOK
<1>2. /\ UNCHANGED <<syncData, cmds, renders, running, client, slot, hCmdComplete>>
      /\ handler[d].pc = "idle"
      /\ handler' = [handler EXCEPT ![d] = [pc |-> "flip", buf |-> b, slot |-> 0, todo |-> {}]]
      /\ swapWork' = [swapWork EXCEPT ![d] = Tail(@)]
  BY DEF SwapHandler, queueVars, clientVars, gpuVars
<1>3. /\ swapWork[d] \in Seq(Syncs) /\ swapWork[d] # <<>> /\ swapWork \in [Devices -> Seq(Syncs)]
  BY DEF SwapHandler, TypeOK
<1>4. /\ 1 \in DOMAIN swapWork[d] /\ Head(swapWork[d]) = swapWork[d][1]
      /\ \A i \in DOMAIN Tail(swapWork[d]) : /\ i \in Nat /\ i + 1 \in DOMAIN swapWork[d] /\ i + 1 # 1
                                             /\ Tail(swapWork[d])[i] = swapWork[d][i + 1]
      /\ \A i \in DOMAIN swapWork[d] : i # 1 => /\ i - 1 \in DOMAIN Tail(swapWork[d])
                                                /\ Tail(swapWork[d])[i - 1] = swapWork[d][i]
  BY <1>3
<1>5. /\ swapWork'[d] = Tail(swapWork[d])
      /\ \A e \in Devices : e # d => swapWork'[e] = swapWork[e] /\ handler'[e] = handler[e]
      /\ handler'[d].pc = "flip" /\ handler'[d].buf = b
  BY <1>2, <1>3 DEF TypeOK
<1>6. /\ slot[d][k].bInUse /\ Reads(slot[d][k].ops, b) /\ b \in Syncs
      /\ \E q \in Queues : DeviceOf[q] = d /\ b \in Chain(q)
      /\ \A j \in DOMAIN swapWork[d] : hCmdComplete[swapWork[d][j]] = k => j = 1
  BY <1>1, <1>3, <1>4 DEF OrderInv, SwapWorkHoldsSlots
<1>7. \A e \in Devices, l \in Slots : SlotOps(e, l)' \subseteq SlotOps(e, l)
  <2> SUFFICES ASSUME NEW e \in Devices, NEW l \in Slots PROVE SlotOps(e, l)' \subseteq SlotOps(e, l)
    OBVIOUS
  <2>1. CASE e # d
    BY <1>2, <1>5, <2>1 DEF SlotOps
  <2>2. CASE e = d
    BY <1>2, <1>5, <2>2 DEF SlotOps
  <2> QED BY <2>1, <2>2
<1>8. ClientOps' \subseteq ClientOps
  BY <1>2 DEF ClientOps
<1>9. TicketsInRange' /\ TicketsUnique'
  BY Zenon, <1>2, <1>7, <1>8, HoldersKept, TicketsStay DEF OrderInv
<1>10. SwapWorkHoldsSlots'
  <2>1. ASSUME NEW e \in Devices, NEW i \in DOMAIN swapWork'[e]
        PROVE  \E j \in DOMAIN swapWork[e] :
                  /\ swapWork'[e][i] = swapWork[e][j]
                  /\ e = d => j = i + 1 /\ hCmdComplete[swapWork[e][j]] # k
                  /\ e # d => j = i
    <3>1. CASE e = d
      <4>1. i + 1 \in DOMAIN swapWork[d] /\ swapWork'[d][i] = swapWork[d][i + 1] /\ i + 1 # 1
        BY <1>4, <1>5, <3>1
      <4>2. hCmdComplete[swapWork[d][i + 1]] # k
        BY <1>6, <4>1
      <4> QED BY <3>1, <4>1, <4>2
    <3>2. CASE e # d
      BY <1>5, <3>2
    <3> QED BY <3>1, <3>2
  <2> SUFFICES ASSUME NEW e \in Devices, NEW i \in DOMAIN swapWork'[e]
               PROVE  LET buf == swapWork'[e][i]
                          l   == hCmdComplete'[buf]
                      IN  /\ \E p \in Queues : DeviceOf[p] = e /\ buf \in Chain(p)
                          /\ slot'[e][l].bInUse
                          /\ Reads(slot'[e][l].ops, buf)
                          /\ ~ (handler'[e].pc = "complete" /\ handler'[e].slot = l)
                          /\ \A j \in DOMAIN swapWork'[e] : hCmdComplete'[swapWork'[e][j]] = l => i = j
    BY DEF SwapWorkHoldsSlots, Reads, Chain
  <2>2. PICK m \in DOMAIN swapWork[e] : /\ swapWork'[e][i] = swapWork[e][m]
                                        /\ e = d => m = i + 1 /\ hCmdComplete[swapWork[e][m]] # k
                                        /\ e # d => m = i
    BY <2>1
  <2> DEFINE buf == swapWork[e][m]
             l   == hCmdComplete[buf]
  <2>3. /\ \E p \in Queues : DeviceOf[p] = e /\ buf \in Chain(p)
        /\ slot[e][l].bInUse /\ Reads(slot[e][l].ops, buf)
        /\ ~ (handler[e].pc = "complete" /\ handler[e].slot = l)
        /\ \A j \in DOMAIN swapWork[e] : hCmdComplete[swapWork[e][j]] = l => m = j
    BY DEF OrderInv, SwapWorkHoldsSlots
  <2>4. ~ (handler'[e].pc = "complete" /\ handler'[e].slot = l)
    BY <1>5, <2>2, <2>3
  <2>5. ASSUME NEW j \in DOMAIN swapWork'[e], hCmdComplete[swapWork'[e][j]] = l PROVE i = j
    <3>1. PICK n \in DOMAIN swapWork[e] : /\ swapWork'[e][j] = swapWork[e][n]
                                          /\ e = d => n = j + 1
                                          /\ e # d => n = j
      BY <2>1
    <3>2. m = n
      BY <2>3, <2>5, <3>1
    <3>3. CASE e = d
      <4>1. i \in Nat /\ j \in Nat
        BY <1>4, <1>5, <3>3
      <4> QED BY <2>2, <3>1, <3>2, <3>3, <4>1
    <3> QED BY <2>2, <3>1, <3>2, <3>3
  <2> QED BY <1>2, <2>2, <2>3, <2>4, <2>5
<1>11. HandlerHoldsSlot'
  BY <1>2, <1>5 DEF OrderInv, HandlerHoldsSlot
<1>12. FlipHoldsSlot'
  <2>1. ASSUME NEW e \in Devices, e # d, handler'[e].pc = "flip"
        PROVE  handler'[e] = handler[e] /\ swapWork'[e] = swapWork[e] /\ handler[e].pc = "flip"
    BY <1>5, <2>1
  <2>2. \A j \in DOMAIN swapWork'[d] : hCmdComplete[swapWork'[d][j]] # k
    BY <1>4, <1>5, <1>6
  <2> SUFFICES ASSUME NEW e \in Devices, handler'[e].pc = "flip"
               PROVE  LET buf == handler'[e].buf
                          l   == hCmdComplete'[buf]
                      IN  /\ buf \in Syncs
                          /\ \E q \in Queues : DeviceOf[q] = e /\ buf \in Chain(q)
                          /\ slot'[e][l].bInUse
                          /\ Reads(slot'[e][l].ops, buf)
                          /\ \A j \in DOMAIN swapWork'[e] : hCmdComplete'[swapWork'[e][j]] # l
    BY DEF FlipHoldsSlot
  <2>3. CASE e = d
    <3>1. /\ handler'[e].buf = b /\ hCmdComplete'[b] = k
          /\ slot'[e][k] = slot[d][k] /\ hCmdComplete' = hCmdComplete
      BY <1>1, <1>2, <1>5, <2>3
    <3> QED BY <1>6, <2>2, <2>3, <3>1
  <2>4. CASE e # d
    BY <1>2, <2>1, <2>4 DEF OrderInv, FlipHoldsSlot
  <2> QED BY <2>3, <2>4
<1>13. NoCompletionLost'
  <2> SUFFICES ASSUME NEW e \in Devices, NEW l \in Slots, slot[e][l].bInUse
               PROVE  \/ \E i \in DOMAIN swapWork'[e] : hCmdComplete[swapWork'[e][i]] = l
                      \/ handler'[e].pc = "flip" /\ hCmdComplete[handler'[e].buf] = l
                      \/ handler'[e].pc = "complete" /\ handler'[e].slot = l
    BY <1>2 DEF NoCompletionLost
  <2>1. \/ \E i \in DOMAIN swapWork[e] : hCmdComplete[swapWork[e][i]] = l
        \/ handler[e].pc = "flip" /\ hCmdComplete[handler[e].buf] = l
        \/ handler[e].pc = "complete" /\ handler[e].slot = l
    BY DEF OrderInv, NoCompletionLost
  <2>2. CASE e # d
    BY <1>5, <2>1, <2>2
  <2>3. CASE e = d
    <3>1. PICK i \in DOMAIN swapWork[d] : hCmdComplete[swapWork[d][i]] = l
      BY <1>2, <2>1, <2>3
    <3>2. CASE i = 1
      BY <1>1, <1>4, <1>5, <2>3, <3>1, <3>2
    <3>3. CASE i # 1
      <4>1. i - 1 \in DOMAIN swapWork'[d] /\ swapWork'[d][i - 1] = swapWork[d][i]
        BY <1>4, <1>5, <3>3
      <4> QED BY <2>3, <3>1, <4>1
    <3> QED BY <3>2, <3>3
  <2> QED BY <2>2, <2>3
<1> QED BY <1>2, <1>7, <1>9, <1>10, <1>11, <1>12, <1>13, InFlightKept, CommandsKept DEF OrderInv


(* Its completion call picks up the slot the buffer carries.                *)
LEMMA OrderCommandComplete ==
  ASSUME TypeOK, OrderInv, NEW d \in Devices, CommandCompleteKM(d)
  PROVE  OrderInv'
<1>1. PICK k \in Slots : k = hCmdComplete[handler[d].buf]
  BY DEF CommandCompleteKM, TypeOK
<1>2. /\ UNCHANGED <<syncData, cmds, renders, running, client, slot, swapWork, hCmdComplete>>
      /\ handler[d].pc = "flip"
      /\ handler' = [handler EXCEPT ![d] =
                       [pc |-> "complete", buf |-> NoBuffer, slot |-> k, todo |-> slot[d][k].ops]]
  BY <1>1 DEF CommandCompleteKM, queueVars, clientVars, gpuVars
<1>3. /\ \A e \in Devices : e # d => handler'[e] = handler[e]
      /\ handler'[d].pc = "complete" /\ handler'[d].slot = k /\ handler'[d].todo = slot[d][k].ops
  BY <1>2 DEF TypeOK
<1>4. /\ slot[d][k].bInUse
      /\ \A j \in DOMAIN swapWork[d] : hCmdComplete[swapWork[d][j]] # k
  BY <1>1, <1>2 DEF OrderInv, FlipHoldsSlot
<1>5. \A e \in Devices, l \in Slots : SlotOps(e, l)' \subseteq SlotOps(e, l)
  <2> SUFFICES ASSUME NEW e \in Devices, NEW l \in Slots PROVE SlotOps(e, l)' \subseteq SlotOps(e, l)
    OBVIOUS
  <2>1. CASE e # d
    BY <1>2, <1>3, <2>1 DEF SlotOps
  <2>2. CASE e = d
    BY <1>2, <1>3, <2>2 DEF SlotOps
  <2> QED BY <2>1, <2>2
<1>6. ClientOps' \subseteq ClientOps
  BY <1>2 DEF ClientOps
<1>7. TicketsInRange' /\ TicketsUnique'
  BY <1>2, <1>5, <1>6, HoldersKept, TicketsStay DEF OrderInv
<1>8. SwapWorkHoldsSlots'
  <2>1. ASSUME NEW e \in Devices, NEW i \in DOMAIN swapWork[e]
        PROVE  ~ (handler'[e].pc = "complete" /\ handler'[e].slot = hCmdComplete[swapWork[e][i]])
    <3>1. CASE e = d
      BY <1>3, <1>4, <3>1
    <3>2. CASE e # d
      BY <1>3, <3>2 DEF OrderInv, SwapWorkHoldsSlots
    <3> QED BY <3>1, <3>2
  <2> QED BY <1>2, <2>1 DEF OrderInv, SwapWorkHoldsSlots, Reads
<1>9. FlipHoldsSlot'
  BY <1>2, <1>3 DEF OrderInv, FlipHoldsSlot, Reads
<1>10. HandlerHoldsSlot'
  BY <1>2, <1>3, <1>4 DEF OrderInv, HandlerHoldsSlot
<1>11. NoCompletionLost'
  BY <1>1, <1>2, <1>3 DEF OrderInv, NoCompletionLost
<1> QED BY <1>2, <1>5, <1>7, <1>8, <1>9, <1>10, <1>11, InFlightKept, CommandsKept DEF OrderInv

(* What the completion of an operation in flight does to the tickets and to *)
(* what remains in flight.                                                  *)
LEMMA OrderComplete ==
  ASSUME TypeOK, OrderInv, NEW g \in Holders, NEW op \in OpsAt(g), Met(op),
         syncData' = AddComplete(op.sync, op.kind),
         cmds' = cmds, client' = client,
         \A h \in Holders' : h \in Holders /\ OpsAt(h)' \subseteq OpsAt(h),
         op \notin OpsAt(g)',
         \A o \in InFlight' : o \in InFlight /\ \E h \in Holders' : o \in OpsAt(h)'
  PROVE  TicketsInRange' /\ TicketsUnique' /\ InFlightIsMet' /\ CommandsReadTheirBuffer'
<1>1. op.sync \in Syncs /\ op.kind \in {"read", "write"}
  BY DEF OrderInv, TicketsInRange, Op
<1>2. TicketsInRange' /\ TicketsUnique'
  <2>1. \A h \in Holders' : \A o \in OpsAt(h)' : o \in OpsAt(h) /\ (h = g => o # op)
    OBVIOUS
  <2> QED BY <2>1, TicketCompleted DEF OrderInv
<1>3. \A t \in Syncs : t # op.sync => syncData'[t] = syncData[t]
  BY <1>1 DEF AddComplete, TypeOK
<1>4. InFlightIsMet'
  <2> SUFFICES ASSUME NEW o \in InFlight' PROVE Met(o)'
    BY DEF InFlightIsMet, Met
  <2>1. o \in InFlight /\ Met(o) /\ o.sync \in Syncs
    BY FlightHeld DEF OrderInv, InFlightIsMet
  <2>2. PICK h \in Holders' : o \in OpsAt(h)'
    OBVIOUS
  <2>3. o.sync # op.sync
    <3>1. h \in Holders /\ o \in OpsAt(h)
      BY <2>2
    <3>2. o.sync = op.sync => h = g /\ o = op
      BY <2>1, <3>1, SameTurn
    <3> QED BY <2>2, <3>2
  <2> QED BY <1>3, <2>1, <2>3 DEF Met
<1> QED BY <1>2, <1>4, CommandsKept DEF OrderInv

LEMMA OrderCompleteOp ==
  ASSUME TypeOK, OrderInv, NEW d \in Devices, CompleteOp(d)
  PROVE  OrderInv'
<1>1. PICK op \in handler[d].todo : /\ handler' = [handler EXCEPT ![d].todo = @ \ {op}]
                                    /\ syncData' = AddComplete(op.sync, op.kind)
  BY DEF CompleteOp
<1>2. /\ UNCHANGED <<cmds, renders, running, client, slot, swapWork, hCmdComplete>>
      /\ handler[d].pc = "complete"
  BY DEF CompleteOp, queueVars, clientVars, gpuVars
<1>3. PICK k \in Slots : k = handler[d].slot
  BY DEF TypeOK
<1>4. /\ handler'[d].pc = "complete" /\ handler'[d].slot = k /\ handler'[d].todo = handler[d].todo \ {op}
      /\ \A e \in Devices : /\ e # d => handler'[e] = handler[e]
                            /\ handler'[e].pc = handler[e].pc /\ handler'[e].slot = handler[e].slot
                            /\ handler'[e].buf = handler[e].buf
  BY <1>1, <1>2, <1>3 DEF TypeOK
<1>5. slot[d][k].bInUse
  BY <1>2, <1>3 DEF OrderInv, HandlerHoldsSlot
<1>6. SlotOps(d, k) = handler[d].todo /\ SlotOps(d, k)' = handler[d].todo \ {op}
  BY <1>2, <1>3, <1>4, <1>5 DEF SlotOps
<1>7. \A e \in Devices, l \in Slots : SlotOps(e, l)' \subseteq SlotOps(e, l)
  <2> SUFFICES ASSUME NEW e \in Devices, NEW l \in Slots PROVE SlotOps(e, l)' \subseteq SlotOps(e, l)
    OBVIOUS
  <2>1. CASE e # d
    BY <1>2, <1>4, <2>1 DEF SlotOps
  <2>2. CASE e = d
    BY <1>2, <1>3, <1>4, <2>2 DEF SlotOps
  <2> QED BY <2>1, <2>2
<1>8. AtSlot(d, k) \in Holders /\ op \in OpsAt(AtSlot(d, k)) /\ op \notin OpsAt(AtSlot(d, k))' /\ Met(op)
  <2>1. AtSlot(d, k) \in Holders /\ op \in SlotOps(d, k)
    BY <1>6, HolderForms DEF IsHolder
  <2>2. OpsAt(AtSlot(d, k)) = SlotOps(d, k) /\ OpsAt(AtSlot(d, k))' = SlotOps(d, k)'
    BY OpsAtForms
  <2> QED BY <1>6, <2>1, <2>2, InFlightForms DEF OrderInv, InFlightIsMet
<1>9. ClientOps' \subseteq ClientOps
  BY <1>2 DEF ClientOps
<1>10. \A h \in Holders' : h \in Holders /\ OpsAt(h)' \subseteq OpsAt(h)
  BY <1>2, <1>7, <1>9, HoldersKept
<1>11. \A o \in InFlight' : o \in InFlight /\ \E h \in Holders' : o \in OpsAt(h)'
  <2>1. running' \subseteq renders'
    BY <1>2 DEF TypeOK
  <2> QED BY <1>2, <1>7, <2>1, FlightPlace, InFlightForms
<1>12. TicketsInRange' /\ TicketsUnique' /\ InFlightIsMet' /\ CommandsReadTheirBuffer'
  BY <1>1, <1>2, <1>8, <1>10, <1>11, OrderComplete
<1>13. SwapWorkHoldsSlots' /\ FlipHoldsSlot' /\ HandlerHoldsSlot' /\ NoCompletionLost'
  <2>1. SwapWorkHoldsSlots'
    BY <1>2, <1>4 DEF OrderInv, SwapWorkHoldsSlots, Reads
  <2>2. HandlerHoldsSlot'
    BY <1>2, <1>4 DEF OrderInv, HandlerHoldsSlot
  <2>3. NoCompletionLost'
    BY <1>2, <1>4 DEF OrderInv, NoCompletionLost
  <2>4. FlipHoldsSlot'
    BY <1>2, <1>4 DEF OrderInv, FlipHoldsSlot, Reads
  <2> QED BY <2>1, <2>2, <2>3, <2>4
<1> QED BY <1>12, <1>13 DEF OrderInv

LEMMA OrderFinishRender == TypeOK /\ OrderInv /\ FinishRender => OrderInv'
<1> SUFFICES ASSUME TypeOK, OrderInv, FinishRender PROVE OrderInv'
  OBVIOUS
<1>1. PICK op \in running : /\ running' = running \ {op}
                            /\ renders' = renders \ {op}
                            /\ syncData' = AddComplete(op.sync, op.kind)
  BY DEF FinishRender
<1>2. UNCHANGED <<cmds, client, slot, handler, swapWork, hCmdComplete>>
  BY DEF FinishRender, queueVars, driverVars, clientVars
<1>3. \A e \in Devices, l \in Slots : SlotOps(e, l)' \subseteq SlotOps(e, l)
  BY <1>2 DEF SlotOps
<1>4. AtGpu \in Holders /\ op \in OpsAt(AtGpu) /\ op \notin OpsAt(AtGpu)' /\ Met(op)
  BY <1>1, HolderForms, OpsAtForms, InFlightForms DEF IsHolder, TypeOK, OrderInv, InFlightIsMet
<1>5. ClientOps' \subseteq ClientOps
  BY <1>2 DEF ClientOps
<1>6. \A h \in Holders' : h \in Holders /\ OpsAt(h)' \subseteq OpsAt(h)
  BY <1>1, <1>2, <1>3, <1>5, HoldersKept
<1>7. running' \subseteq renders'
  BY <1>1 DEF TypeOK
<1>8. \A o \in InFlight' : o \in InFlight /\ \E h \in Holders' : o \in OpsAt(h)'
  BY <1>1, <1>3, <1>7, FlightPlace, InFlightForms
<1>9. TicketsInRange' /\ TicketsUnique' /\ InFlightIsMet' /\ CommandsReadTheirBuffer'
  BY <1>1, <1>2, <1>4, <1>6, <1>8, OrderComplete
<1> QED BY <1>2, <1>9, DriverKept DEF OrderInv


LEMMA OrderReleaseSlot ==
  ASSUME TypeOK, OrderInv, NEW d \in Devices, ReleaseSlot(d)
  PROVE  OrderInv'
<1>1. PICK k \in Slots : k = handler[d].slot
  BY DEF TypeOK
<1>2. /\ UNCHANGED <<syncData, cmds, renders, running, client, swapWork, hCmdComplete>>
      /\ handler[d].pc = "complete" /\ handler[d].todo = {}
      /\ slot' = [slot EXCEPT ![d][k].bInUse = FALSE]
      /\ handler' = [handler EXCEPT ![d].pc = "callbacks"]
  BY <1>1 DEF ReleaseSlot, clientVars, gpuVars
<1>3. /\ \A e \in Devices : /\ e # d => handler'[e] = handler[e]
      /\ handler'[d].pc = "callbacks"
  BY <1>2 DEF TypeOK
<1>4. /\ \A e \in Devices, l \in Slots : ~ (e = d /\ l = k) => slot'[e][l] = slot[e][l]
      /\ slot'[d][k].bInUse = FALSE
  <2>1. slot \in [Devices -> [Slots -> [bInUse : BOOLEAN, ops : SUBSET Op]]]
    BY DEF TypeOK
  <2>2. slot' = [slot EXCEPT ![d] = [slot[d] EXCEPT ![k] = [slot[d][k] EXCEPT !.bInUse = FALSE]]]
    BY <1>2, Zenon
  <2>3. [slot[d][k] EXCEPT !.bInUse = FALSE].bInUse = FALSE
    BY <2>1
  <2> QED BY <2>1, <2>2, <2>3
<1>5. \A e \in Devices, l \in Slots : SlotOps(e, l)' \subseteq SlotOps(e, l)
  <2> SUFFICES ASSUME NEW e \in Devices, NEW l \in Slots PROVE SlotOps(e, l)' \subseteq SlotOps(e, l)
    OBVIOUS
  <2>1. CASE e = d /\ l = k
    BY <1>4, <2>1 DEF SlotOps
  <2>2. CASE ~ (e = d /\ l = k)
    BY <1>1, <1>2, <1>3, <1>4, <2>2 DEF SlotOps
  <2> QED BY <2>1, <2>2
<1>6. ClientOps' \subseteq ClientOps
  BY <1>2 DEF ClientOps
<1>7. TicketsInRange' /\ TicketsUnique'
  BY Zenon, <1>2, <1>5, <1>6, HoldersKept, TicketsStay DEF OrderInv
<1>8. SwapWorkHoldsSlots'
  <2>1. \A e \in Devices : \A i \in DOMAIN swapWork[e] :
           /\ hCmdComplete[swapWork[e][i]] \in Slots
           /\ ~ (e = d /\ hCmdComplete[swapWork[e][i]] = k)
    BY <1>1, <1>2 DEF TypeOK, OrderInv, SwapWorkHoldsSlots
  <2>2. \A e \in Devices : \A i \in DOMAIN swapWork[e] :
           slot'[e][hCmdComplete[swapWork[e][i]]] = slot[e][hCmdComplete[swapWork[e][i]]]
    BY <1>4, <2>1
  <2>3. \A e \in Devices : handler'[e].pc = "complete" => handler'[e] = handler[e]
    BY <1>3
  <2>4. ASSUME NEW e \in Devices, NEW i \in DOMAIN swapWork[e]
        PROVE  LET buf == swapWork[e][i]
                   l   == hCmdComplete[buf]
               IN  /\ \E p \in Queues : DeviceOf[p] = e /\ buf \in Chain(p)
                   /\ slot'[e][l].bInUse
                   /\ Reads(slot'[e][l].ops, buf)
                   /\ ~ (handler'[e].pc = "complete" /\ handler'[e].slot = l)
                   /\ \A j \in DOMAIN swapWork[e] : hCmdComplete[swapWork[e][j]] = l => i = j
    BY <2>2, <2>3 DEF OrderInv, SwapWorkHoldsSlots
  <2> QED BY <1>2, <2>4 DEF SwapWorkHoldsSlots, Reads
<1>9. HandlerHoldsSlot'
  <2>1. \A e \in Devices : handler[e].slot \in Slots
    BY DEF TypeOK
  <2> QED BY <1>3, <1>4, <2>1 DEF OrderInv, HandlerHoldsSlot
<1>10. NoCompletionLost'
  <2> SUFFICES ASSUME NEW e \in Devices, NEW l \in Slots, slot'[e][l].bInUse
               PROVE  \/ \E i \in DOMAIN swapWork[e] : hCmdComplete[swapWork[e][i]] = l
                      \/ handler'[e].pc = "flip" /\ hCmdComplete[handler'[e].buf] = l
                      \/ handler'[e].pc = "complete" /\ handler'[e].slot = l
    BY <1>2 DEF NoCompletionLost
  <2>1. ~ (e = d /\ l = k) /\ slot[e][l].bInUse
    BY <1>4
  <2>2. \/ \E i \in DOMAIN swapWork[e] : hCmdComplete[swapWork[e][i]] = l
        \/ handler[e].pc = "flip" /\ hCmdComplete[handler[e].buf] = l
        \/ handler[e].pc = "complete" /\ handler[e].slot = l
    BY <2>1 DEF OrderInv, NoCompletionLost
  <2>3. e = d => handler[e].pc = "complete"
    BY <1>2
  <2> QED BY <1>1, <1>3, <2>1, <2>2, <2>3
<1>11. FlipHoldsSlot'
  <2> SUFFICES ASSUME NEW e \in Devices, handler'[e].pc = "flip"
               PROVE  LET buf == handler'[e].buf
                          l   == hCmdComplete'[buf]
                      IN  /\ buf \in Syncs
                          /\ \E q \in Queues : DeviceOf[q] = e /\ buf \in Chain(q)
                          /\ slot'[e][l].bInUse
                          /\ Reads(slot'[e][l].ops, buf)
                          /\ \A j \in DOMAIN swapWork'[e] : hCmdComplete'[swapWork'[e][j]] # l
    BY DEF FlipHoldsSlot, Reads, Chain
  <2>1. e # d /\ handler'[e] = handler[e]
    BY <1>3
  <2>2. hCmdComplete[handler[e].buf] \in Slots
    BY <2>1 DEF TypeOK
  <2>3. slot'[e][hCmdComplete[handler[e].buf]] = slot[e][hCmdComplete[handler[e].buf]]
    BY <1>4, <2>1, <2>2
  <2> QED BY <1>2, <2>1, <2>3 DEF OrderInv, FlipHoldsSlot
<1> QED BY <1>2, <1>5, <1>7, <1>8, <1>9, <1>10, <1>11, InFlightKept, CommandsKept DEF OrderInv

LEMMA OrderStartRender == TypeOK /\ OrderInv /\ StartRender => OrderInv'
<1> SUFFICES ASSUME TypeOK, OrderInv, StartRender PROVE OrderInv'
  OBVIOUS
<1>1. /\ UNCHANGED <<syncData, cmds, client, slot, handler, renders, swapWork, hCmdComplete>>
      /\ \E op \in renders \ running : Met(op) /\ running' = running \cup {op}
  BY DEF StartRender, queueVars, driverVars, clientVars
<1>2. \A e \in Devices, l \in Slots : SlotOps(e, l)' = SlotOps(e, l)
  BY <1>1 DEF SlotOps
<1>3. ClientOps' \subseteq ClientOps
  BY <1>1 DEF ClientOps
<1>4. TicketsInRange' /\ TicketsUnique'
  BY <1>1, <1>2, <1>3, HoldersKept, TicketsStay DEF OrderInv
<1>5. InFlightIsMet'
  BY <1>1, <1>2, InFlightForms DEF OrderInv, InFlightIsMet, Met
<1> QED BY <1>1, <1>4, <1>5, CommandsKept, DriverKept DEF OrderInv

(* ScheduleDeviceCallbacks and ScheduleMISR move a handler past its slot.   *)
LEMMA OrderHandlerMoves ==
  ASSUME TypeOK, OrderInv, NEW d \in Devices, ScheduleDeviceCallbacks(d) \/ ScheduleMISR(d)
  PROVE  OrderInv'
<1>1. /\ UNCHANGED <<syncData, cmds, renders, running, client, slot, swapWork, hCmdComplete>>
      /\ \A e \in Devices : /\ handler'[e].slot = handler[e].slot
                            /\ handler'[e].todo = handler[e].todo
                            /\ handler'[e].buf = handler[e].buf
                            /\ handler'[e].pc = "complete" <=> handler[e].pc = "complete"
                            /\ handler'[e].pc = "flip" <=> handler[e].pc = "flip"
  <2>1. UNCHANGED <<syncData, cmds, renders, running, client, slot, swapWork, hCmdComplete>>
    BY DEF ScheduleDeviceCallbacks, ScheduleMISR, queueVars, clientVars, gpuVars
  <2>2. PICK pc \in {"misr", "idle"} : /\ handler' = [handler EXCEPT ![d].pc = pc]
                               /\ handler[d].pc # "complete" /\ handler[d].pc # "flip"
    BY DEF ScheduleDeviceCallbacks, ScheduleMISR
  <2>3. \A e \in Devices : /\ handler'[e].slot = handler[e].slot
                            /\ handler'[e].todo = handler[e].todo
                            /\ handler'[e].buf = handler[e].buf
                            /\ handler'[e].pc = IF e = d THEN pc ELSE handler[e].pc
    BY <2>2 DEF TypeOK
  <2>4. pc # "complete" /\ pc # "flip"
    OBVIOUS
  <2> QED BY <2>1, <2>2, <2>3, <2>4
<1>2. \A e \in Devices, l \in Slots : SlotOps(e, l)' \subseteq SlotOps(e, l)
  BY <1>1 DEF SlotOps
<1>3. ClientOps' \subseteq ClientOps
  BY <1>1 DEF ClientOps
<1>4. TicketsInRange' /\ TicketsUnique'
  BY Zenon, <1>1, <1>2, <1>3, HoldersKept, TicketsStay DEF OrderInv
<1>5. SwapWorkHoldsSlots' /\ FlipHoldsSlot' /\ HandlerHoldsSlot' /\ NoCompletionLost'
  BY <1>1 DEF OrderInv, SwapWorkHoldsSlots, FlipHoldsSlot, HandlerHoldsSlot, NoCompletionLost, Reads
<1> QED BY <1>1, <1>2, <1>4, <1>5, InFlightKept, CommandsKept DEF OrderInv

LEMMA OrderStep == TypeOK /\ OrderInv /\ [Next]_vars => OrderInv'
<1> SUFFICES ASSUME TypeOK, OrderInv, [Next]_vars PROVE OrderInv'
  OBVIOUS
<1>1. ASSUME Request PROVE OrderInv'
  <2>1. ASSUME NEW q \in Queues, SwapToDCBufferKM(q) \/ SwapToDCSystemKM(q) PROVE OrderInv'
    <3>1. PICK buf \in Chain(q), n \in Nat : BeginSwap(q, buf, n)
      BY <2>1, ConstantsAssumption DEF SwapToDCBufferKM, SwapToDCSystemKM, Chain
    <3> QED BY <3>1, OrderBeginSwap
  <2> QED BY <1>1, <2>1, OrderDoKick DEF Request
<1>2. ASSUME BridgeCall PROVE OrderInv'
  <2>1. CASE ScheduleSwap
    <3>1. /\ UNCHANGED <<syncData, cmds, renders, running, slot, handler, swapWork, hCmdComplete>>
          /\ client.pc = "schedule" /\ client'.pc = "idle"
      BY <2>1 DEF ScheduleSwap, queueVars, driverVars, gpuVars
    <3>2. ClientOps' = {}
      BY <3>1 DEF ClientOps
    <3>3. \A e \in Devices, l \in Slots : SlotOps(e, l)' \subseteq SlotOps(e, l)
      BY <3>1 DEF SlotOps
    <3>4. TicketsInRange' /\ TicketsUnique'
      BY <3>1, <3>2, <3>3, HoldersKept, TicketsStay DEF OrderInv
    <3>5. CommandsReadTheirBuffer'
      BY <3>1 DEF OrderInv, CommandsReadTheirBuffer, Reads
    <3> QED BY <3>1, <3>3, <3>4, <3>5, InFlightKept, DriverKept DEF OrderInv
  <2> QED BY <1>2, <2>1, OrderGetQueueSpace, OrderInsertCommand, OrderSubmitCommand DEF BridgeCall
<1>3. ASSUME NEW w \in Walkers, ProcessQueues(w) PROVE OrderInv'
  <2>1. ASSUME LockQueues(w) \/ UnlockQueues(w) \/ \E q \in Queues : LeaveQueue(w, q) PROVE OrderInv'
    BY <2>1, QuietStep DEF LockQueues, UnlockQueues, LeaveQueue, driverVars, clientVars, gpuVars
  <2> QED BY <1>3, <2>1, OrderProcessCommand, OrderCommandRefused DEF ProcessQueues
<1>4. ASSUME NEW d \in Devices, Driver(d) PROVE OrderInv'
  BY <1>4, OrderSwapHandler, OrderCommandComplete, OrderCompleteOp, OrderReleaseSlot, OrderHandlerMoves DEF Driver
<1>5. ASSUME StartMISR \/ HWRecoveryResetSGX \/ DeviceISR \/ Sleep \/ UNCHANGED vars PROVE OrderInv'
  BY <1>5, QuietStep DEF StartMISR, HWRecoveryResetSGX, DeviceISR, Sleep, vars,
                         queueVars, driverVars, clientVars, gpuVars
<1> QED BY <1>1, <1>2, <1>3, <1>4, <1>5, OrderStartRender, OrderFinishRender DEF Next, Gpu

LEMMA OrderAlways == Spec => []OrderInv
BY OrderInit, OrderStep, TypeCorrect, PTL DEF Spec


-----------------------------------------------------------------------------
(* The theorems.                                                            *)

LEMMA OrderExcludes == TypeOK /\ OrderInv => SurfaceExclusive
<1> SUFFICES ASSUME TypeOK, OrderInv PROVE SurfaceExclusive
  OBVIOUS
<1>1. \A r \in running : AtGpu \in Holders /\ r \in OpsAt(AtGpu) /\ Met(r)
  BY HolderForms, OpsAtForms, InFlightForms DEF IsHolder, TypeOK, OrderInv, InFlightIsMet
<1>2. \A d \in Devices, k \in Slots : \A op \in SlotOps(d, k) :
         AtSlot(d, k) \in Holders /\ op \in OpsAt(AtSlot(d, k)) /\ Met(op)
  BY HolderForms, OpsAtForms, InFlightForms DEF IsHolder, OrderInv, InFlightIsMet
<1>3. \A r1, r2 \in running : r1.sync = r2.sync => r1 = r2
  BY <1>1, SameTurn
<1>4. ASSUME NEW d \in Devices, NEW k \in Slots, NEW op \in SlotOps(d, k), NEW r \in running
      PROVE  r.sync # op.sync
  BY <1>1, <1>2, SameTurn, HoldersDiffer
<1>5. ASSUME NEW d \in Devices, NEW k \in Slots, NEW op \in SlotOps(d, k),
             NEW d2 \in Devices, NEW k2 \in Slots, NEW op2 \in SlotOps(d2, k2), op2.sync = op.sync
      PROVE  d2 = d /\ k2 = k /\ op2 = op
  <2>1. AtSlot(d, k) = AtSlot(d2, k2) /\ op = op2
    BY <1>2, <1>5, SameTurn
  <2> QED BY <2>1, HoldersDiffer
<1> QED BY <1>3, <1>4, <1>5 DEF SurfaceExclusive

(* While a flip of a surface is with the display driver nothing else uses   *)
(* the surface, with any number of displays, slots, queues and operations,  *)
(* recovery passes that flush included.                                     *)
THEOREM SurfacesExclude == Spec => []SurfaceExclusive
BY OrderAlways, TypeCorrect, OrderExcludes, PTL

(* A complete-data slot in use always has its completion on the way: the    *)
(* ring of slots is never stuck on a slot nobody will release.              *)
THEOREM CompletionsKept == Spec => []NoCompletionLost
<1>1. OrderInv => NoCompletionLost
  BY DEF OrderInv
<1> QED BY <1>1, OrderAlways, PTL

(* A step that completes an operation starts none.                          *)
LEMMA CompletionStartsNone ==
  ASSUME TypeOK, FinishRender \/ \E d \in Devices : CompleteOp(d)
  PROVE  \A op \in InFlight' : op \in InFlight
<1>1. CASE FinishRender
  <2>1. running' \subseteq running /\ UNCHANGED <<slot, handler>>
    BY <1>1 DEF FinishRender, queueVars, driverVars
  <2>2. \A e \in Devices, l \in Slots : SlotOps(e, l)' \subseteq SlotOps(e, l)
    BY <2>1 DEF SlotOps
  <2> QED BY <2>1, <2>2, InFlightForms
<1>2. ASSUME NEW d \in Devices, CompleteOp(d) PROVE \A op \in InFlight' : op \in InFlight
  <2>1. PICK op \in handler[d].todo : handler' = [handler EXCEPT ![d].todo = @ \ {op}]
    BY <1>2 DEF CompleteOp
  <2>2. \A e \in Devices : /\ handler'[e].pc = handler[e].pc
                            /\ handler'[e].slot = handler[e].slot
                            /\ handler'[e].todo \subseteq handler[e].todo
    BY <2>1 DEF TypeOK
  <2>3. UNCHANGED <<slot, running>>
    BY <1>2 DEF CompleteOp, queueVars, gpuVars
  <2>4. \A e \in Devices, l \in Slots : SlotOps(e, l)' \subseteq SlotOps(e, l)
    BY <2>2, <2>3 DEF SlotOps
  <2> QED BY <2>3, <2>4, InFlightForms
<1> QED BY <1>1, <1>2

LEMMA ServedSteps ==
  ASSUME TypeOK, [Next]_vars
  PROVE  \/ \A s \in Syncs : Served(s)' = Served(s)
         \/ FinishRender \/ \E d \in Devices : CompleteOp(d)
<1>1. CASE syncData' = syncData
  BY <1>1 DEF Served
<1>2. ASSUME NEW s \in Syncs, DoKickKM(s) PROVE \A t \in Syncs : Served(t)' = Served(t)
  BY <1>2, IssueKeepsComplete DEF DoKickKM, Served
<1>3. ASSUME InsertCommandKM PROVE \A t \in Syncs : Served(t)' = Served(t)
  <2>1. PICK s \in Syncs : syncData' = AddPending(s, "read")
    BY <1>3, ClientShape DEF InsertCommandKM
  <2> QED BY <2>1, IssueKeepsComplete DEF Served
<1>4. CASE Request
  BY <1>1, <1>2, <1>4 DEF Request, SwapToDCBufferKM, SwapToDCSystemKM, BeginSwap
<1>5. CASE BridgeCall
  BY <1>1, <1>3, <1>5 DEF BridgeCall, GetQueueSpaceKM, SubmitCommandKM, ScheduleSwap
<1>6. ASSUME NEW w \in Walkers, ProcessQueues(w) PROVE syncData' = syncData
  BY <1>6 DEF ProcessQueues, LockQueues, ProcessCommand, CommandRefused, LeaveQueue, UnlockQueues
<1>7. ASSUME NEW d \in Devices, Driver(d) PROVE syncData' = syncData \/ CompleteOp(d)
  BY <1>7 DEF Driver, SwapHandler, CommandCompleteKM, ReleaseSlot, ScheduleDeviceCallbacks, ScheduleMISR
<1>8. CASE Gpu
  BY <1>1, <1>8 DEF Gpu, StartRender, Sleep
<1>9. CASE StartMISR \/ HWRecoveryResetSGX \/ DeviceISR \/ UNCHANGED vars
  BY <1>1, <1>9 DEF StartMISR, HWRecoveryResetSGX, DeviceISR, vars
<1> QED BY <1>1, <1>4, <1>5, <1>6, <1>7, <1>8, <1>9 DEF Next

LEMMA OrderStarts ==
  ASSUME TypeOK, TypeOK', OrderInv, OrderInv', [Next]_vars
  PROVE  \A op \in InFlight' \ InFlight : \A h \in Holders : \A o \in OpsAt(h) : ~ Before(o, op)
<1> SUFFICES ASSUME NEW op \in InFlight' \ InFlight, NEW h \in Holders, NEW o \in OpsAt(h), Before(o, op)
             PROVE  FALSE
  OBVIOUS
<1>1. \A s \in Syncs : Served(s)' = Served(s)
  BY ServedSteps, CompletionStartsNone
<1>2. Met(op)' /\ op \in Op
  <2>1. \E g \in Holders' : op \in OpsAt(g)'
    BY FlightPlace DEF TypeOK
  <2> QED BY <2>1 DEF OrderInv, InFlightIsMet, TicketsInRange
<1>3. op.sync \in Syncs /\ Ticket(op) \in Nat /\ Served(op.sync)' = Ticket(op)
  BY <1>2 DEF Met, Served, Ticket, Op
<1>4. o \in Op /\ Served(o.sync) <= Ticket(o) /\ Ticket(o) \in Nat
  BY DEF OrderInv, TicketsInRange, Op, Ticket
<1>5. o.sync = op.sync /\ Ticket(o) < Ticket(op)
  BY DEF Before, Ticket
<1> QED BY <1>1, <1>3, <1>4, <1>5

(* Flips and renders of a surface start in the order they were issued,      *)
(* across all queues and the GPU, even in a flushing pass.                  *)
THEOREM StartsOrdered == Spec => StartsInOrder
<1>1. TypeOK /\ TypeOK' /\ OrderInv /\ OrderInv' /\ [Next]_vars
        => [\A op \in InFlight' \ InFlight : \A h \in Holders : \A o \in OpsAt(h) : ~ Before(o, op)]_vars
  BY OrderStarts
<1> QED BY <1>1, OrderAlways, TypeCorrect, PTL DEF Spec, StartsInOrder

-----------------------------------------------------------------------------
(* Pending is held: what the counters say is outstanding is somewhere.      *)

HeldInQueue(list, o) == \E i \in DOMAIN list : o \in list[i].ops

Held(o) == \/ o \in ClientOps
           \/ o \in renders
           \/ \E q \in Queues : HeldInQueue(cmds[q], o)
           \/ \E d \in Devices, k \in Slots : o \in SlotOps(d, k)

HeldOps(s, kind) == {o \in Op : o.sync = s /\ o.kind = kind /\ Held(o)}

(* A call that waits for space has issued nothing; the operations that are  *)
(* held are as many as the counters say.                                    *)
CountInv ==
    /\ client.pc = "space" => client.cmd.ops = {}
    /\ \A s \in Syncs :
        /\ IsFiniteSet(HeldOps(s, "read")) /\ IsFiniteSet(HeldOps(s, "write"))
        /\ syncData[s].rop = syncData[s].roc + Cardinality(HeldOps(s, "read"))
        /\ syncData[s].wop = syncData[s].woc + Cardinality(HeldOps(s, "write"))

(* Being held is having a holder.                                           *)
LEMMA HeldForms == \A o : Held(o) <=> \E h \in Holders : o \in OpsAt(h)
<1> SUFFICES ASSUME NEW o PROVE Held(o) <=> \E h \in Holders : o \in OpsAt(h)
  OBVIOUS
<1>1. ASSUME Held(o) PROVE \E h \in Holders : o \in OpsAt(h)
  BY <1>1, HolderForms, OpsAtForms DEF Held, HeldInQueue, IsHolder
<1>2. ASSUME NEW h \in Holders, o \in OpsAt(h) PROVE Held(o)
  BY <1>2, HolderForms, OpsAtForms DEF Held, HeldInQueue, IsHolder
<1> QED BY <1>1, <1>2

(* What is held is an operation with a ticket that was given.               *)
LEMMA HeldTickets ==
  ASSUME OrderInv, NEW o, Held(o)
  PROVE  o \in Op /\ Ticket(o) < NextTicket(o.sync)
BY HeldForms DEF OrderInv, TicketsInRange

(* A step that leaves the counters and what is held alone.                  *)
LEMMA CountKept ==
  ASSUME CountInv, syncData' = syncData, \A o \in Op : Held(o)' <=> Held(o),
         client'.pc = "space" => client'.cmd.ops = {}
  PROVE  CountInv'
<1>1. \A s, kind : HeldOps(s, kind)' = HeldOps(s, kind)
  BY DEF HeldOps
<1> QED BY <1>1 DEF CountInv

(* One operation more, and one pending count.                               *)
LEMMA CountIssued ==
  ASSUME TypeOK, OrderInv, CountInv, NEW s \in Syncs, NEW kind \in {"read", "write"},
         syncData' = AddPending(s, kind),
         \A o \in Op : Held(o)' <=> Held(o) \/ o = Issue(s, kind),
         client'.pc = "space" => client'.cmd.ops = {}
  PROVE  CountInv'
<1> DEFINE new == Issue(s, kind)
           Counters == [wop : Nat, rop : Nat, woc : Nat, roc : Nat]
<1>1. new \in Op /\ new.sync = s /\ new.kind = kind /\ Ticket(new) = NextTicket(s)
  BY IssueType DEF Issue, Ticket, NextTicket
<1>2. syncData \in [Syncs -> Counters]
  BY DEF TypeOK
<1>3. NextTicket(s) \in Nat
  BY <1>2 DEF NextTicket
<1>4. ~ Held(new)
  BY <1>1, <1>3, HeldTickets
<1> HIDE DEF new
<1>5. ASSUME NEW r \in Syncs, NEW k
      PROVE  HeldOps(r, k)' = IF r = s /\ k = kind THEN HeldOps(r, k) \cup {new} ELSE HeldOps(r, k)
  BY <1>1 DEF HeldOps, new
<1>6. /\ \A r \in Syncs : r # s => syncData'[r] = syncData[r]
      /\ syncData'[s].woc = syncData[s].woc /\ syncData'[s].roc = syncData[s].roc
      /\ syncData'[s].wop = IF kind = "write" THEN syncData[s].wop + 1 ELSE syncData[s].wop
      /\ syncData'[s].rop = IF kind = "read" THEN syncData[s].rop + 1 ELSE syncData[s].rop
  BY <1>2 DEF AddPending
<1>7. ASSUME NEW k \in {"read", "write"}
      PROVE  /\ IsFiniteSet(HeldOps(s, k)')
             /\ Cardinality(HeldOps(s, k)) \in Nat
             /\ Cardinality(HeldOps(s, k)') = IF k = kind THEN Cardinality(HeldOps(s, k)) + 1
                                                          ELSE Cardinality(HeldOps(s, k))
  <2>1. IsFiniteSet(HeldOps(s, k)) /\ Cardinality(HeldOps(s, k)) \in Nat
    BY FS_CardinalityType DEF CountInv
  <2>2. CASE k = kind
    <3>1. new \notin HeldOps(s, k)
      BY <1>4 DEF HeldOps
    <3>2. HeldOps(s, k)' = HeldOps(s, k) \cup {new}
      BY <1>5, <2>2
    <3> QED BY <2>1, <2>2, <3>1, <3>2, FS_AddElement
  <2>3. CASE k # kind
    BY <1>5, <2>1, <2>3
  <2> QED BY <2>2, <2>3
<1>8. ASSUME NEW r \in Syncs
      PROVE  /\ IsFiniteSet(HeldOps(r, "read")') /\ IsFiniteSet(HeldOps(r, "write")')
             /\ syncData'[r].rop = syncData'[r].roc + Cardinality(HeldOps(r, "read")')
             /\ syncData'[r].wop = syncData'[r].woc + Cardinality(HeldOps(r, "write")')
  <2>1. CASE r # s
    BY <1>5, <1>6, <2>1 DEF CountInv
  <2>2. CASE r = s
    <3>1. /\ syncData[s].rop = syncData[s].roc + Cardinality(HeldOps(s, "read"))
          /\ syncData[s].wop = syncData[s].woc + Cardinality(HeldOps(s, "write"))
          /\ syncData[s].roc \in Nat /\ syncData[s].woc \in Nat
      BY <1>2 DEF CountInv
    <3>2. CASE kind = "read"
      BY <1>6, <1>7, <2>2, <3>1, <3>2
    <3>3. CASE kind = "write"
      BY <1>6, <1>7, <2>2, <3>1, <3>3
    <3> QED BY <3>2, <3>3
  <2> QED BY <2>1, <2>2
<1> QED BY <1>8 DEF CountInv

(* One operation less, and one complete count more.                         *)
LEMMA CountCompleted ==
  ASSUME TypeOK, CountInv, NEW op \in Op, Held(op),
         syncData' = AddComplete(op.sync, op.kind),
         \A o \in Op : Held(o)' <=> Held(o) /\ o # op,
         client'.pc = "space" => client'.cmd.ops = {}
  PROVE  CountInv'
<1> DEFINE Counters == [wop : Nat, rop : Nat, woc : Nat, roc : Nat]
           s == op.sync
           kind == op.kind
<1>1. s \in Syncs /\ kind \in {"read", "write"}
  BY DEF Op
<1>2. syncData \in [Syncs -> Counters]
  BY DEF TypeOK
<1>3. syncData' = AddComplete(s, kind)
  OBVIOUS
<1>4. ASSUME NEW r \in Syncs, NEW k
      PROVE  HeldOps(r, k)' = IF r = s /\ k = kind THEN HeldOps(r, k) \ {op} ELSE HeldOps(r, k)
  BY DEF HeldOps
<1>5. op \in HeldOps(s, kind)
  BY DEF HeldOps
<1> HIDE DEF s, kind
<1>6. /\ \A r \in Syncs : r # s => syncData'[r] = syncData[r]
      /\ syncData'[s].wop = syncData[s].wop /\ syncData'[s].rop = syncData[s].rop
      /\ syncData'[s].woc = IF kind = "write" THEN syncData[s].woc + 1 ELSE syncData[s].woc
      /\ syncData'[s].roc = IF kind = "read" THEN syncData[s].roc + 1 ELSE syncData[s].roc
  BY <1>1, <1>2, <1>3 DEF AddComplete
<1>7. ASSUME NEW k \in {"read", "write"}
      PROVE  /\ IsFiniteSet(HeldOps(s, k)')
             /\ Cardinality(HeldOps(s, k)) \in Nat
             /\ Cardinality(HeldOps(s, k)') = IF k = kind THEN Cardinality(HeldOps(s, k)) - 1
                                                          ELSE Cardinality(HeldOps(s, k))
  <2>1. IsFiniteSet(HeldOps(s, k)) /\ Cardinality(HeldOps(s, k)) \in Nat
    BY <1>1, FS_CardinalityType DEF CountInv
  <2>2. CASE k = kind
    <3>1. HeldOps(s, k)' = HeldOps(s, k) \ {op} /\ op \in HeldOps(s, k)
      BY <1>1, <1>4, <1>5, <2>2
    <3> QED BY <2>1, <2>2, <3>1, FS_RemoveElement
  <2>3. CASE k # kind
    BY <1>1, <1>4, <2>1, <2>3
  <2> QED BY <2>2, <2>3
<1>8. ASSUME NEW r \in Syncs
      PROVE  /\ IsFiniteSet(HeldOps(r, "read")') /\ IsFiniteSet(HeldOps(r, "write")')
             /\ syncData'[r].rop = syncData'[r].roc + Cardinality(HeldOps(r, "read")')
             /\ syncData'[r].wop = syncData'[r].woc + Cardinality(HeldOps(r, "write")')
  <2>1. CASE r # s
    BY <1>4, <1>6, <2>1 DEF CountInv
  <2>2. CASE r = s
    <3>1. /\ syncData[s].rop = syncData[s].roc + Cardinality(HeldOps(s, "read"))
          /\ syncData[s].wop = syncData[s].woc + Cardinality(HeldOps(s, "write"))
          /\ syncData[s].roc \in Nat /\ syncData[s].woc \in Nat
      BY <1>1, <1>2 DEF CountInv
    <3>2. IsFiniteSet(HeldOps(s, "read")') /\ IsFiniteSet(HeldOps(s, "write")')
      BY <1>7
    <3>3. CASE kind = "read"
      <4>1. /\ Cardinality(HeldOps(s, "read")) \in Nat
            /\ Cardinality(HeldOps(s, "read")') = Cardinality(HeldOps(s, "read")) - 1
            /\ Cardinality(HeldOps(s, "write")') = Cardinality(HeldOps(s, "write"))
        BY <1>7, <3>3
      <4> QED BY <1>6, <2>2, <3>1, <3>2, <3>3, <4>1
    <3>4. CASE kind = "write"
      <4>1. /\ Cardinality(HeldOps(s, "write")) \in Nat
            /\ Cardinality(HeldOps(s, "write")') = Cardinality(HeldOps(s, "write")) - 1
            /\ Cardinality(HeldOps(s, "read")') = Cardinality(HeldOps(s, "read"))
        BY <1>7, <3>4
      <4> QED BY <1>6, <2>2, <3>1, <3>2, <3>4, <4>1
    <3> QED BY <1>1, <3>3, <3>4
  <2> QED BY <2>1, <2>2
<1> QED BY <1>8 DEF CountInv

(* Everybody holds what he held.                                            *)
LEMMA HeldKept ==
  ASSUME cmds' = cmds, ClientOps' = ClientOps, renders' = renders,
         \A d \in Devices, k \in Slots : SlotOps(d, k)' = SlotOps(d, k)
  PROVE  \A o \in Op : Held(o)' <=> Held(o)
BY DEF Held

LEMMA CountInit == Init => CountInv
<1> SUFFICES ASSUME Init PROVE CountInv
  OBVIOUS
<1>1. \A d \in Devices, k \in Slots : SlotOps(d, k) = {}
  BY DEF Init, SlotOps
<1>2. ClientOps = {} /\ renders = {} /\ \A q \in Queues : DOMAIN cmds[q] = {}
  BY DEF Init, ClientOps
<1>3. \A o : ~ Held(o)
  BY <1>1, <1>2 DEF Held, HeldInQueue
<1>4. \A s, kind : HeldOps(s, kind) = {}
  BY <1>3 DEF HeldOps
<1>5. client.pc # "space"
  BY DEF Init
<1>6. \A s \in Syncs : syncData[s] = [wop |-> 0, rop |-> 0, woc |-> 0, roc |-> 0]
  BY DEF Init
<1> QED BY <1>4, <1>5, <1>6, FS_EmptySet DEF CountInv

(* The calls of the client.                                                 *)
LEMMA CountClient ==
  ASSUME TypeOK, OrderInv, CountInv,
         \/ ScheduleSwap \/ GetQueueSpaceKM
         \/ \E q \in Queues, buf \in Syncs, n \in Nat : BeginSwap(q, buf, n)
  PROVE  CountInv'
<1>1. UNCHANGED <<syncData, cmds, renders, slot, handler>>
  BY DEF ScheduleSwap, GetQueueSpaceKM, BeginSwap, queueVars, driverVars, gpuVars
<1>2. \A d \in Devices, k \in Slots : SlotOps(d, k)' = SlotOps(d, k)
  BY <1>1 DEF SlotOps
<1>3. ClientOps' = ClientOps /\ (client'.pc = "space" => client'.cmd.ops = {})
  <2>1. CASE ScheduleSwap
    <3>1. client.pc = "schedule" /\ client'.pc = "idle"
      BY <2>1 DEF ScheduleSwap
    <3> QED BY <3>1 DEF ClientOps
  <2>2. CASE GetQueueSpaceKM
    <3>1. client.pc = "space" /\ client \in [pc : {"space", "insert"}, q : Queues, todo : Seq(Syncs), cmd : Cmd]
      BY <2>2, ClientShape DEF GetQueueSpaceKM
    <3>2. client.cmd.ops = {}
      BY <3>1 DEF CountInv
    <3>3. \/ client'.pc = "idle"
          \/ client'.pc = "insert" /\ client'.cmd = client.cmd
      BY <2>2, <3>1 DEF GetQueueSpaceKM
    <3> QED BY <3>1, <3>2, <3>3 DEF ClientOps
  <2>3. ASSUME NEW q \in Queues, NEW buf \in Syncs, NEW n \in Nat, BeginSwap(q, buf, n)
        PROVE  ClientOps' = ClientOps /\ (client'.pc = "space" => client'.cmd.ops = {})
    <3>1. client.pc = "idle" /\ client'.pc = "space" /\ client'.cmd.ops = {}
      BY <2>3 DEF BeginSwap
    <3> QED BY <3>1 DEF ClientOps
  <2> QED BY <2>1, <2>2, <2>3
<1> QED BY <1>1, <1>2, <1>3, HeldKept, CountKept

LEMMA CountInsertCommand == TypeOK /\ OrderInv /\ CountInv /\ InsertCommandKM => CountInv'
<1> SUFFICES ASSUME TypeOK, OrderInv, CountInv, InsertCommandKM PROVE CountInv'
  OBVIOUS
<1> DEFINE s == Head(client.todo)
           op == Issue(s, "read")
<1>1. UNCHANGED <<cmds, renders, slot, handler>>
  BY DEF InsertCommandKM, queueVars, driverVars, gpuVars
<1>2. client.pc = "insert" /\ client \in [pc : {"space", "insert"}, q : Queues, todo : Seq(Syncs), cmd : Cmd]
  BY ClientShape DEF InsertCommandKM
<1>3. s \in Syncs /\ syncData' = AddPending(s, "read")
  BY <1>2 DEF InsertCommandKM
<1>4. client'.pc = "insert" /\ client'.cmd.ops = client.cmd.ops \cup {op}
  BY <1>2 DEF InsertCommandKM, Cmd
<1>5. ClientOps' = ClientOps \cup {op}
  BY <1>2, <1>4 DEF ClientOps
<1>6. \A d \in Devices, k \in Slots : SlotOps(d, k)' = SlotOps(d, k)
  BY <1>1 DEF SlotOps
<1> HIDE DEF op, s
<1>7. \A o \in Op : Held(o)' <=> Held(o) \/ o = op
  BY <1>1, <1>5, <1>6 DEF Held
<1> QED BY <1>3, <1>4, <1>7, CountIssued DEF op

LEMMA CountDoKick ==
  ASSUME TypeOK, OrderInv, CountInv, NEW s \in Syncs, DoKickKM(s)
  PROVE  CountInv'
<1> DEFINE op == Issue(s, "write")
<1>1. UNCHANGED <<cmds, client, slot, handler>>
      /\ renders' = renders \cup {op} /\ syncData' = AddPending(s, "write")
      /\ client.pc = "idle"
  BY DEF DoKickKM, queueVars, driverVars, clientVars
<1>2. \A d \in Devices, k \in Slots : SlotOps(d, k)' = SlotOps(d, k)
  BY <1>1 DEF SlotOps
<1>3. ClientOps' = ClientOps
  BY <1>1 DEF ClientOps
<1> HIDE DEF op
<1>4. \A o \in Op : Held(o)' <=> Held(o) \/ o = op
  BY <1>1, <1>2, <1>3 DEF Held
<1> QED BY <1>1, <1>4, CountIssued DEF op

(* The command leaves the client and is the last of its queue.              *)
LEMMA CountSubmitCommand == TypeOK /\ CountInv /\ SubmitCommandKM => CountInv'
<1> SUFFICES ASSUME TypeOK, CountInv, SubmitCommandKM PROVE CountInv'
  OBVIOUS
<1> DEFINE q == client.q
           c == client.cmd
           n == Len(cmds[q]) + 1
<1>1. UNCHANGED <<syncData, renders, slot, handler>>
  BY DEF SubmitCommandKM, driverVars, gpuVars
<1>2. client.pc = "insert" /\ client'.pc = "schedule"
      /\ q \in Queues /\ c \in Cmd /\ cmds' = [cmds EXCEPT ![q] = Append(@, c)]
  BY ClientShape DEF SubmitCommandKM
<1>3. ClientOps = c.ops /\ ClientOps' = {}
  BY <1>2 DEF ClientOps
<1>4. \A d \in Devices, k \in Slots : SlotOps(d, k)' = SlotOps(d, k)
  BY <1>1 DEF SlotOps
<1>5. cmds \in [Queues -> Seq(Cmd)] /\ cmds[q] \in Seq(Cmd)
  BY <1>2 DEF TypeOK
<1>6. /\ DOMAIN Append(cmds[q], c) = DOMAIN cmds[q] \cup {n}
      /\ n \notin DOMAIN cmds[q]
      /\ Append(cmds[q], c)[n] = c
      /\ \A i \in DOMAIN cmds[q] : Append(cmds[q], c)[i] = cmds[q][i]
  BY <1>2, <1>5
<1>7. /\ \A p \in Queues : p # q => cmds'[p] = cmds[p]
      /\ cmds'[q] = Append(cmds[q], c)
  BY <1>2, <1>5
<1> HIDE DEF q, c, n
<1>8. \A o : HeldInQueue(cmds'[q], o) <=> HeldInQueue(cmds[q], o) \/ o \in c.ops
  BY <1>6, <1>7 DEF HeldInQueue
<1>9. \A o \in Op : Held(o)' <=> Held(o)
  <2> SUFFICES ASSUME NEW o \in Op PROVE Held(o)' <=> Held(o)
    OBVIOUS
  <2>1. (\E p \in Queues : HeldInQueue(cmds'[p], o))
        <=> (\E p \in Queues : HeldInQueue(cmds[p], o)) \/ o \in c.ops
    BY <1>2, <1>7, <1>8
  <2>2. Held(o)' <=> \/ o \in ClientOps'
                     \/ o \in renders'
                     \/ \E p \in Queues : HeldInQueue(cmds'[p], o)
                     \/ \E d \in Devices, k \in Slots : o \in SlotOps(d, k)'
    BY DEF Held, HeldInQueue
  <2> QED BY <1>1, <1>3, <1>4, <2>1, <2>2 DEF Held
<1> QED BY <1>1, <1>2, <1>9, CountKept

(* The head of a queue moves to a slot that held nothing.                   *)
LEMMA CountProcessCommand ==
  ASSUME TypeOK, OrderInv, CountInv, NEW w \in Walkers, NEW q \in Queues, ProcessCommand(w, q)
  PROVE  CountInv'
<1> DEFINE d == DeviceOf[q]
           c == Head(cmds[q])
<1>1. PICK k \in Slots : k = ccbOffset[d]
  <2>1. ccbOffset \in [Devices -> Slots] /\ d \in Devices
    BY Zenon, ConstantsAssumption DEF TypeOK
  <2> QED BY <2>1
<1>2. /\ UNCHANGED <<syncData, renders, client, handler>>
      /\ cmds' = [cmds EXCEPT ![q] = Tail(@)]
      /\ slot' = [slot EXCEPT ![d][k] = [bInUse |-> TRUE, ops |-> c.ops]]
      /\ ~ slot[d][k].bInUse
  BY Zenon, <1>1 DEF ProcessCommand, clientVars, gpuVars, Blocked, CurrentSlot
<1>3. cmds \in [Queues -> Seq(Cmd)] /\ cmds[q] \in Seq(Cmd) /\ cmds[q] # <<>>
  BY DEF ProcessCommand, TypeOK
<1>4. /\ 1 \in DOMAIN cmds[q] /\ c = cmds[q][1]
      /\ \A i \in DOMAIN Tail(cmds[q]) : /\ i + 1 \in DOMAIN cmds[q]
                                         /\ Tail(cmds[q])[i] = cmds[q][i + 1]
      /\ \A i \in DOMAIN cmds[q] : i # 1 => /\ i - 1 \in DOMAIN Tail(cmds[q])
                                            /\ Tail(cmds[q])[i - 1] = cmds[q][i]
  BY <1>3
<1>5. d \in Devices /\ k \in Slots
  BY ConstantsAssumption
<1>6. /\ \A p \in Queues : p # q => cmds'[p] = cmds[p]
      /\ cmds'[q] = Tail(cmds[q])
  BY <1>2, <1>3
<1>7. /\ \A e \in Devices, l \in Slots : ~ (e = d /\ l = k) => slot'[e][l] = slot[e][l]
      /\ slot'[d][k].bInUse = TRUE /\ slot'[d][k].ops = c.ops
  BY <1>2, <1>5 DEF TypeOK
<1> HIDE DEF d, c
<1>8. ~ (handler[d].pc = "complete" /\ handler[d].slot = k)
  BY <1>2, <1>5 DEF OrderInv, HandlerHoldsSlot
<1>9. /\ SlotOps(d, k) = {} /\ SlotOps(d, k)' = c.ops
      /\ \A e \in Devices, l \in Slots : ~ (e = d /\ l = k) => SlotOps(e, l)' = SlotOps(e, l)
  <2>1. SlotOps(d, k) = {}
    BY <1>2 DEF SlotOps
  <2>2. SlotOps(d, k)' = c.ops
    BY <1>2, <1>7, <1>8 DEF SlotOps
  <2>3. ASSUME NEW e \in Devices, NEW l \in Slots, ~ (e = d /\ l = k) PROVE SlotOps(e, l)' = SlotOps(e, l)
    <3>1. slot'[e][l] = slot[e][l]
      BY <1>7, <2>3
    <3> QED BY <1>2, <3>1 DEF SlotOps
  <2> QED BY <2>1, <2>2, <2>3
<1>10. \A o : HeldInQueue(cmds[q], o) <=> HeldInQueue(cmds'[q], o) \/ o \in c.ops
  <2> TAKE o
  <2>1. ASSUME HeldInQueue(cmds[q], o) PROVE HeldInQueue(cmds'[q], o) \/ o \in c.ops
    <3>1. PICK i \in DOMAIN cmds[q] : o \in cmds[q][i].ops
      BY <2>1 DEF HeldInQueue
    <3>2. CASE i = 1
      BY Zenon, <1>4, <3>1, <3>2
    <3>3. CASE i # 1
      BY Zenon, <1>4, <1>6, <3>1, <3>3 DEF HeldInQueue
    <3> QED BY <3>2, <3>3
  <2>2. ASSUME HeldInQueue(cmds'[q], o) PROVE HeldInQueue(cmds[q], o)
    <3>1. PICK i \in DOMAIN Tail(cmds[q]) : o \in Tail(cmds[q])[i].ops
      BY <1>6, <2>2 DEF HeldInQueue
    <3> QED BY Zenon, <1>4, <3>1 DEF HeldInQueue
  <2>3. ASSUME o \in c.ops PROVE HeldInQueue(cmds[q], o)
    BY Zenon, <1>4, <2>3 DEF HeldInQueue
  <2> QED BY <2>1, <2>2, <2>3
<1>11. ClientOps' = ClientOps
  BY <1>2 DEF ClientOps
<1>12. \A o \in Op : Held(o)' <=> Held(o)
  <2> SUFFICES ASSUME NEW o \in Op PROVE Held(o)' <=> Held(o)
    OBVIOUS
  <2>1. (\E p \in Queues : HeldInQueue(cmds[p], o))
        <=> (\E p \in Queues : HeldInQueue(cmds'[p], o)) \/ o \in c.ops
    BY <1>6, <1>10
  <2>2. (\E e \in Devices, l \in Slots : o \in SlotOps(e, l)')
        <=> (\E e \in Devices, l \in Slots : o \in SlotOps(e, l)) \/ o \in c.ops
    <3>1. ASSUME NEW e \in Devices, NEW l \in Slots, o \in SlotOps(e, l)'
          PROVE  (\E f \in Devices, m \in Slots : o \in SlotOps(f, m)) \/ o \in c.ops
      BY <1>9, <3>1
    <3>2. ASSUME NEW e \in Devices, NEW l \in Slots, o \in SlotOps(e, l)
          PROVE  \E f \in Devices, m \in Slots : o \in SlotOps(f, m)'
      BY <1>9, <3>2
    <3>3. ASSUME o \in c.ops PROVE \E f \in Devices, m \in Slots : o \in SlotOps(f, m)'
      BY <1>5, <1>9, <3>3
    <3> QED BY <3>1, <3>2, <3>3
  <2>3. Held(o)' <=> \/ o \in ClientOps'
                     \/ o \in renders'
                     \/ \E p \in Queues : HeldInQueue(cmds'[p], o)
                     \/ \E e \in Devices, l \in Slots : o \in SlotOps(e, l)'
    BY DEF Held, HeldInQueue
  <2> QED BY <1>2, <1>11, <2>1, <2>2, <2>3 DEF Held
<1>13. client'.pc = "space" => client'.cmd.ops = {}
  BY <1>2 DEF CountInv
<1> QED BY <1>2, <1>12, <1>13, CountKept

(* What the walkers and the driver do to the slots without completing an    *)
(* operation.                                                               *)
LEMMA CountSlots ==
  ASSUME CountInv, UNCHANGED <<syncData, cmds, renders, client>>,
         \A d \in Devices, k \in Slots : SlotOps(d, k)' = SlotOps(d, k)
  PROVE  CountInv'
<1>1. ClientOps' = ClientOps
  BY DEF ClientOps
<1>2. client'.pc = "space" => client'.cmd.ops = {}
  BY DEF CountInv
<1> QED BY <1>1, <1>2, HeldKept, CountKept

LEMMA CountCommandRefused ==
  ASSUME TypeOK, CountInv, NEW w \in Walkers, NEW q \in Queues, CommandRefused(w, q)
  PROVE  CountInv'
<1> DEFINE d == DeviceOf[q]
<1>1. PICK k \in Slots : k = ccbOffset[d]
  <2>1. ccbOffset \in [Devices -> Slots] /\ d \in Devices
    BY ConstantsAssumption DEF TypeOK
  <2> QED BY <2>1
<1>2. /\ UNCHANGED <<syncData, cmds, renders, client, handler>>
      /\ ~ slot[d][k].bInUse /\ d \in Devices
      /\ slot' = [slot EXCEPT ![d][k] = [bInUse |-> FALSE, ops |-> Head(cmds[q]).ops]]
  BY Zenon, <1>1, ConstantsAssumption
     DEF CommandRefused, driverVars, clientVars, gpuVars, Blocked, CurrentSlot
<1>3. /\ \A e \in Devices, l \in Slots : ~ (e = d /\ l = k) => slot'[e][l] = slot[e][l]
      /\ ~ slot'[d][k].bInUse
  BY <1>2 DEF TypeOK
<1> HIDE DEF d
<1>4. ASSUME NEW e \in Devices, NEW l \in Slots PROVE SlotOps(e, l)' = SlotOps(e, l)
  <2>1. CASE e = d /\ l = k
    BY <1>2, <1>3, <2>1 DEF SlotOps
  <2>2. CASE ~ (e = d /\ l = k)
    BY <1>2, <1>3, <2>2 DEF SlotOps
  <2> QED BY <2>1, <2>2
<1> QED BY Zenon, <1>2, <1>4, CountSlots

(* The driver's steps that complete nothing.                                *)
LEMMA CountDriver ==
  ASSUME TypeOK, OrderInv, CountInv, NEW d \in Devices,
         \/ SwapHandler(d) \/ CommandCompleteKM(d) \/ ReleaseSlot(d)
         \/ ScheduleDeviceCallbacks(d) \/ ScheduleMISR(d)
  PROVE  CountInv'
<1> USE DEF queueVars, clientVars, gpuVars
<1>1. UNCHANGED <<syncData, cmds, renders, client>>
  BY DEF SwapHandler, CommandCompleteKM, ReleaseSlot, ScheduleDeviceCallbacks, ScheduleMISR
<1>2. CASE SwapHandler(d) \/ ScheduleDeviceCallbacks(d) \/ ScheduleMISR(d)
  <2>1. slot' = slot /\ handler[d].pc # "complete"
    BY <1>2 DEF SwapHandler, ScheduleDeviceCallbacks, ScheduleMISR
  <2>2. handler'[d].pc # "complete" /\ \A e \in Devices : e # d => handler'[e] = handler[e]
    <3>1. handler \in [Devices -> [pc : {"idle", "flip", "complete", "callbacks", "misr"},
                                   buf : Syncs \cup {NoBuffer}, slot : Slots, todo : SUBSET Op]]
      BY DEF TypeOK
    <3>2. CASE SwapHandler(d)
      BY <3>1, <3>2 DEF SwapHandler
    <3>3. CASE ScheduleDeviceCallbacks(d)
      BY <3>1, <3>3 DEF ScheduleDeviceCallbacks
    <3>4. CASE ScheduleMISR(d)
      BY <3>1, <3>4 DEF ScheduleMISR
    <3> QED BY <1>2, <3>2, <3>3, <3>4
  <2>3. ASSUME NEW e \in Devices, NEW l \in Slots PROVE SlotOps(e, l)' = SlotOps(e, l)
    <3>1. CASE e = d
      BY <2>1, <2>2, <3>1 DEF SlotOps
    <3>2. CASE e # d
      BY <2>1, <2>2, <3>2 DEF SlotOps
    <3> QED BY <3>1, <3>2
  <2> QED BY <1>1, <2>3, CountSlots
<1>3. CASE CommandCompleteKM(d)
  <2>1. PICK k \in Slots : k = hCmdComplete[handler[d].buf]
    BY <1>3 DEF CommandCompleteKM, TypeOK
  <2>2. /\ slot' = slot /\ handler[d].pc = "flip"
        /\ handler' = [handler EXCEPT ![d] =
                         [pc |-> "complete", buf |-> NoBuffer, slot |-> k, todo |-> slot[d][k].ops]]
    BY <1>3, <2>1 DEF CommandCompleteKM
  <2>3. /\ \A e \in Devices : e # d => handler'[e] = handler[e]
        /\ handler'[d].pc = "complete" /\ handler'[d].slot = k /\ handler'[d].todo = slot[d][k].ops
    BY <2>2 DEF TypeOK
  <2>4. ASSUME NEW e \in Devices, NEW l \in Slots PROVE SlotOps(e, l)' = SlotOps(e, l)
    <3>1. CASE e = d
      BY <2>2, <2>3, <3>1 DEF SlotOps
    <3>2. CASE e # d
      BY <2>2, <2>3, <3>2 DEF SlotOps
    <3> QED BY <3>1, <3>2
  <2> QED BY <1>1, <2>4, CountSlots
<1>4. CASE ReleaseSlot(d)
  <2>1. PICK k \in Slots : k = handler[d].slot
    BY DEF TypeOK
  <2>2. /\ handler[d].pc = "complete" /\ handler[d].todo = {}
        /\ slot' = [slot EXCEPT ![d][k].bInUse = FALSE]
        /\ handler' = [handler EXCEPT ![d].pc = "callbacks"]
    BY <1>4, <2>1 DEF ReleaseSlot
  <2>3. /\ \A e \in Devices : e # d => handler'[e] = handler[e]
        /\ handler'[d].pc = "callbacks"
    BY <2>2 DEF TypeOK
  <2>4. /\ \A e \in Devices, l \in Slots : ~ (e = d /\ l = k) => slot'[e][l] = slot[e][l]
        /\ slot'[d][k].bInUse = FALSE
    <3>1. slot \in [Devices -> [Slots -> [bInUse : BOOLEAN, ops : SUBSET Op]]]
      BY DEF TypeOK
    <3>2. slot' = [slot EXCEPT ![d] = [slot[d] EXCEPT ![k] = [slot[d][k] EXCEPT !.bInUse = FALSE]]]
      BY <2>2, Zenon
    <3>3. [slot[d][k] EXCEPT !.bInUse = FALSE].bInUse = FALSE
      BY <3>1
    <3> QED BY <3>1, <3>2, <3>3
  <2>5. ASSUME NEW e \in Devices, NEW l \in Slots PROVE SlotOps(e, l)' = SlotOps(e, l)
    <3>1. CASE e = d /\ l = k
      BY <2>1, <2>2, <2>4, <3>1 DEF SlotOps
    <3>2. CASE ~ (e = d /\ l = k)
      BY <2>1, <2>2, <2>3, <2>4, <3>2 DEF SlotOps
    <3> QED BY <3>1, <3>2
  <2> QED BY <1>1, <2>5, CountSlots
<1> QED BY <1>2, <1>3, <1>4

(* A completed operation had one holder, so now it has none.                *)
LEMMA HeldOnce ==
  ASSUME OrderInv, NEW g \in Holders, NEW op \in OpsAt(g), op \notin OpsAt(g)',
         \A h \in Holders : h # g => OpsAt(h)' = OpsAt(h),
         OpsAt(g) \subseteq OpsAt(g)' \cup {op}, OpsAt(g)' \subseteq OpsAt(g),
         cmds' = cmds
  PROVE  Held(op) /\ \A o \in Op : Held(o)' <=> Held(o) /\ o # op
<1>1. \A h : h \in Holders' <=> h \in Holders
  BY HolderForms DEF IsHolder
<1>2. \A o : Held(o)' <=> \E h \in Holders' : o \in OpsAt(h)'
  <2> SUFFICES ASSUME NEW o PROVE Held(o)' <=> \E h \in Holders' : o \in OpsAt(h)'
    OBVIOUS
  <2>1. ASSUME Held(o)' PROVE \E h \in Holders' : o \in OpsAt(h)'
    BY <2>1, HolderForms, OpsAtForms DEF Held, HeldInQueue, IsHolder
  <2>2. ASSUME NEW h \in Holders', o \in OpsAt(h)' PROVE Held(o)'
    BY <2>2, HolderForms, OpsAtForms DEF Held, HeldInQueue, IsHolder
  <2> QED BY <2>1, <2>2
<1>3. \A h \in Holders : op \in OpsAt(h) => h = g
  BY DEF OrderInv, TicketsUnique
<1>4. ASSUME NEW o \in Op PROVE Held(o)' <=> Held(o) /\ o # op
  <2>1. ASSUME NEW h \in Holders, o \in OpsAt(h)' PROVE o \in OpsAt(h) /\ o # op
    BY <1>3, <2>1
  <2>2. ASSUME NEW h \in Holders, o \in OpsAt(h), o # op PROVE o \in OpsAt(h)'
    BY <2>2
  <2>3. Held(o) <=> \E h \in Holders : o \in OpsAt(h)
    BY HeldForms
  <2> QED BY <1>1, <1>2, <2>1, <2>2, <2>3
<1>5. Held(op)
  BY HeldForms
<1> QED BY <1>4, <1>5

LEMMA CountCompleteOp ==
  ASSUME TypeOK, OrderInv, CountInv, NEW d \in Devices, CompleteOp(d)
  PROVE  CountInv'
<1>1. PICK op \in handler[d].todo : /\ handler' = [handler EXCEPT ![d].todo = @ \ {op}]
                                    /\ syncData' = AddComplete(op.sync, op.kind)
  BY DEF CompleteOp
<1>2. /\ UNCHANGED <<cmds, renders, client, slot>>
      /\ handler[d].pc = "complete"
  BY DEF CompleteOp, queueVars, clientVars, gpuVars
<1>3. PICK k \in Slots : k = handler[d].slot
  BY DEF TypeOK
<1>4. /\ handler'[d].pc = "complete" /\ handler'[d].slot = k /\ handler'[d].todo = handler[d].todo \ {op}
      /\ \A e \in Devices : e # d => handler'[e] = handler[e]
  BY <1>1, <1>2, <1>3 DEF TypeOK
<1>5. slot[d][k].bInUse
  BY <1>2, <1>3 DEF OrderInv, HandlerHoldsSlot
<1>6. SlotOps(d, k) = handler[d].todo /\ SlotOps(d, k)' = handler[d].todo \ {op}
  BY <1>2, <1>3, <1>4, <1>5 DEF SlotOps
<1>7. \A e \in Devices, l \in Slots : ~ (e = d /\ l = k) => SlotOps(e, l)' = SlotOps(e, l)
  <2> SUFFICES ASSUME NEW e \in Devices, NEW l \in Slots, ~ (e = d /\ l = k)
               PROVE  SlotOps(e, l)' = SlotOps(e, l)
    OBVIOUS
  <2>1. CASE e # d
    BY <1>2, <1>4, <2>1 DEF SlotOps
  <2>2. CASE e = d
    BY <1>2, <1>3, <1>4, <2>2 DEF SlotOps
  <2> QED BY <2>1, <2>2
<1>8. ClientOps' = ClientOps
  BY <1>2 DEF ClientOps
<1> DEFINE g == AtSlot(d, k)
<1>9. g \in Holders /\ OpsAt(g) = handler[d].todo /\ OpsAt(g)' = handler[d].todo \ {op}
  BY <1>6, HolderForms, OpsAtForms DEF IsHolder
<1>10. ASSUME NEW h \in Holders, h # g PROVE OpsAt(h)' = OpsAt(h)
  <2>1. IsHolder(h)
    BY HolderForms
  <2>2. CASE h = AtClient \/ h = AtGpu
    BY <1>2, <1>8, <2>2, OpsAtForms
  <2>3. ASSUME NEW q \in Queues, NEW i \in DOMAIN cmds[q], h = AtQueue(q, i)
        PROVE  OpsAt(h)' = OpsAt(h)
    BY <1>2, <2>3, OpsAtForms
  <2>4. ASSUME NEW e \in Devices, NEW l \in Slots, h = AtSlot(e, l)
        PROVE  OpsAt(h)' = OpsAt(h)
    <3>1. ~ (e = d /\ l = k)
      BY <1>10, <2>4
    <3> QED BY <1>7, <2>4, <3>1, OpsAtForms
  <2> QED BY <2>1, <2>2, <2>3, <2>4 DEF IsHolder
<1> HIDE DEF g
<1>11. Held(op) /\ \A o \in Op : Held(o)' <=> Held(o) /\ o # op
  BY <1>2, <1>9, <1>10, HeldOnce
<1>12. op \in Op
  BY <1>11, HeldTickets
<1>13. client'.pc = "space" => client'.cmd.ops = {}
  BY <1>2 DEF CountInv
<1> QED BY <1>1, <1>11, <1>12, <1>13, CountCompleted

LEMMA CountFinishRender == TypeOK /\ OrderInv /\ CountInv /\ FinishRender => CountInv'
<1> SUFFICES ASSUME TypeOK, OrderInv, CountInv, FinishRender PROVE CountInv'
  OBVIOUS
<1>1. PICK op \in running : /\ renders' = renders \ {op}
                            /\ syncData' = AddComplete(op.sync, op.kind)
  BY DEF FinishRender
<1>2. UNCHANGED <<cmds, client, slot, handler>>
  BY DEF FinishRender, queueVars, driverVars, clientVars
<1>3. \A e \in Devices, l \in Slots : SlotOps(e, l)' = SlotOps(e, l)
  BY <1>2 DEF SlotOps
<1>4. AtGpu \in Holders /\ op \in OpsAt(AtGpu) /\ OpsAt(AtGpu)' = OpsAt(AtGpu) \ {op}
  BY <1>1, HolderForms, OpsAtForms DEF IsHolder, TypeOK
<1>5. ClientOps' = ClientOps
  BY <1>2 DEF ClientOps
<1>6. ASSUME NEW h \in Holders, h # AtGpu PROVE OpsAt(h)' = OpsAt(h)
  <2>1. IsHolder(h)
    BY HolderForms
  <2>2. CASE h = AtClient
    BY <1>5, <2>2, OpsAtForms
  <2>3. ASSUME NEW q \in Queues, NEW i \in DOMAIN cmds[q], h = AtQueue(q, i)
        PROVE  OpsAt(h)' = OpsAt(h)
    BY <1>2, <2>3, OpsAtForms
  <2>4. ASSUME NEW e \in Devices, NEW l \in Slots, h = AtSlot(e, l)
        PROVE  OpsAt(h)' = OpsAt(h)
    BY <1>3, <2>4, OpsAtForms
  <2> QED BY <1>6, <2>1, <2>2, <2>3, <2>4 DEF IsHolder
<1>7. Held(op) /\ \A o \in Op : Held(o)' <=> Held(o) /\ o # op
  BY <1>2, <1>4, <1>6, HeldOnce
<1>8. op \in Op
  BY <1>7, HeldTickets
<1>9. client'.pc = "space" => client'.cmd.ops = {}
  BY <1>2 DEF CountInv
<1> QED BY <1>1, <1>7, <1>8, <1>9, CountCompleted

LEMMA CountStep == TypeOK /\ OrderInv /\ CountInv /\ [Next]_vars => CountInv'
<1> SUFFICES ASSUME TypeOK, OrderInv, CountInv, [Next]_vars PROVE CountInv'
  OBVIOUS
<1>1. ASSUME Request PROVE CountInv'
  <2>1. ASSUME NEW q \in Queues, SwapToDCBufferKM(q) \/ SwapToDCSystemKM(q) PROVE CountInv'
    <3>1. PICK buf \in Syncs, n \in Nat : BeginSwap(q, buf, n)
      BY <2>1, ConstantsAssumption DEF SwapToDCBufferKM, SwapToDCSystemKM
    <3> QED BY <3>1, CountClient
  <2> QED BY <1>1, <2>1, CountDoKick DEF Request
<1>2. ASSUME BridgeCall PROVE CountInv'
  BY <1>2, CountClient, CountInsertCommand, CountSubmitCommand DEF BridgeCall
<1>3. ASSUME UNCHANGED <<syncData, cmds, renders, client, slot, handler>> PROVE CountInv'
  <2>1. \A e \in Devices, l \in Slots : SlotOps(e, l)' = SlotOps(e, l)
    BY <1>3 DEF SlotOps
  <2> QED BY <1>3, <2>1, CountSlots
<1>4. ASSUME NEW w \in Walkers, ProcessQueues(w) PROVE CountInv'
  <2>1. ASSUME LockQueues(w) \/ UnlockQueues(w) \/ \E q \in Queues : LeaveQueue(w, q) PROVE CountInv'
    BY <1>3, <2>1 DEF LockQueues, UnlockQueues, LeaveQueue, driverVars, clientVars, gpuVars
  <2> QED BY <1>4, <2>1, CountProcessCommand, CountCommandRefused DEF ProcessQueues
<1>5. ASSUME NEW d \in Devices, Driver(d) PROVE CountInv'
  BY <1>5, CountDriver, CountCompleteOp DEF Driver
<1>6. ASSUME StartMISR \/ HWRecoveryResetSGX \/ DeviceISR \/ StartRender \/ Sleep \/ UNCHANGED vars
      PROVE  CountInv'
  BY <1>3, <1>6 DEF StartMISR, HWRecoveryResetSGX, DeviceISR, StartRender, Sleep, vars,
                    queueVars, driverVars, clientVars, gpuVars
<1> QED BY <1>1, <1>2, <1>4, <1>5, <1>6, CountFinishRender DEF Next, Gpu

LEMMA CountAlways == Spec => []CountInv
BY CountInit, CountStep, OrderAlways, TypeCorrect, PTL DEF Spec

(* With one holder each, the operations are as many as the pairs of holder  *)
(* and operation that Outstanding collects.                                 *)
LEMMA OutstandingPairs ==
  ASSUME NEW s, NEW kind, NEW x
  PROVE  x \in Outstanding(s, kind) <=>
            \E h \in Holders : \E o \in OpsAt(h) : o.sync = s /\ o.kind = kind /\ x = <<h, o>>
<1> DEFINE U(h) == {<<h, op>> : op \in {o \in OpsAt(h) : o.sync = s /\ o.kind = kind}}
<1>1. \A h : x \in U(h) <=> \E o \in OpsAt(h) : o.sync = s /\ o.kind = kind /\ x = <<h, o>>
  OBVIOUS
<1>2. Outstanding(s, kind) = UNION {U(h) : h \in Holders}
  BY DEF Outstanding
<1> HIDE DEF U
<1>3. x \in UNION {U(h) : h \in Holders} <=> \E h \in Holders : x \in U(h)
  OBVIOUS
<1> QED BY <1>1, <1>2, <1>3

LEMMA OutstandingSize ==
  ASSUME OrderInv, NEW s \in Syncs, NEW kind, IsFiniteSet(HeldOps(s, kind))
  PROVE  Cardinality(Outstanding(s, kind)) = Cardinality(HeldOps(s, kind))
<1> DEFINE S == HeldOps(s, kind)
           T == Outstanding(s, kind)
           where(o) == CHOOSE h \in Holders : o \in OpsAt(h)
           f == [o \in S |-> <<where(o), o>>]
<1>1. \A o \in S : where(o) \in Holders /\ o \in OpsAt(where(o)) /\ o.sync = s /\ o.kind = kind
  BY HeldForms DEF HeldOps
<1>2. \A h \in Holders : \A o \in OpsAt(h) : o.sync = s /\ o.kind = kind => o \in S /\ h = where(o)
  <2> SUFFICES ASSUME NEW h \in Holders, NEW o \in OpsAt(h), o.sync = s, o.kind = kind
               PROVE  o \in S /\ h = where(o)
    OBVIOUS
  <2>1. o \in S
    BY HeldForms DEF HeldOps, OrderInv, TicketsInRange
  <2> QED BY <1>1, <2>1 DEF OrderInv, TicketsUnique
<1>3. \A x : x \in T <=> \E h \in Holders : \E o \in OpsAt(h) : o.sync = s /\ o.kind = kind /\ x = <<h, o>>
  BY OutstandingPairs
<1> HIDE DEF S, T, where
<1>4. f \in [S -> T]
  BY <1>1, <1>3
<1>5. \A a, b \in S : f[a] = f[b] => a = b
  OBVIOUS
<1>6. \A x \in T : \E o \in S : f[o] = x
  BY <1>2, <1>3
<1> HIDE DEF f
<1>7. f \in Bijection(S, T)
  BY <1>4, <1>5, <1>6 DEF Bijection, Injection, Surjection, IsInjective
<1>8. IsFiniteSet(S)
  BY DEF S
<1>9. Cardinality(T) = Cardinality(S)
  BY <1>7, <1>8, FS_Bijection DEF ExistsBijection
<1> QED BY <1>9 DEF S, T

(* Every operation counted as pending and not complete is held exactly      *)
(* once: no walk, refusal, flush or completion drops one or counts it twice.*)
THEOREM PendingHeld == Spec => []PendingIsHeld
<1>1. OrderInv /\ CountInv => PendingIsHeld
  BY OutstandingSize DEF CountInv, PendingIsHeld
<1> QED BY <1>1, OrderAlways, CountAlways, PTL

=============================================================================
