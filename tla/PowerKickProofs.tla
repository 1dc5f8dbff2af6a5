-------------------------- MODULE PowerKickProofs --------------------------
(* Theorems about PowerKick, for both builds of the power lock, any set of  *)
(* renders and any number of suspends, hangs and failed starts.             *)
EXTENDS PowerKick, TLAPS

(* The stage a thread may be in when it is at a place.                      *)
Fits(pc, stage) ==
    /\ pc = "lock" => stage \in {"render", "kick", "test", "recover", "suspend", "resume"}
    /\ pc \in {"ack", "post"} => stage = "test"
    /\ pc \in {"disable", "flush", "poll"} => stage \in {"test", "suspend"}
    /\ pc \in {"on", "init", "submit", "write"} => stage \in {"render", "kick"}
    /\ pc = "system" => stage \in {"suspend", "resume"}
    /\ pc = "recover" => stage = "recover"

ThreadState == [pc : PCs, todo : Seq(Stages), cmd : Renders \cup {"none", "PROCESS_QUEUES"}]

WellFormed(r) ==
    /\ r \in ThreadState
    /\ r.pc # "idle" => r.todo # <<>> /\ r.cmd # "none" /\ Fits(r.pc, Head(r.todo))

ThreadsOK ==
    /\ thread \in [Threads -> ThreadState]
    /\ \A t \in Threads : WellFormed(thread[t])

LEMMA RunWellFormed ==
  ASSUME NEW todo \in Seq(Stages)
  PROVE  WellFormed(Run(todo)) /\ Run(todo).pc \in {"idle", "begin", "lock"}
<1>1. CASE todo = <<>>
  BY <1>1 DEF Run, Idle, WellFormed, ThreadState, PCs
<1>2. CASE todo # <<>>
  <2>1. Head(todo) \in Stages
    BY <1>2
  <2> QED BY <1>2, <2>1 DEF Run, WellFormed, ThreadState, PCs, Fits, Stages
<1> QED BY <1>1, <1>2

(* A thread changes and the others stay.                                    *)
LEMMA ThreadChange ==
  ASSUME ThreadsOK, NEW t \in Threads, NEW r, WellFormed(r), thread' = [thread EXCEPT ![t] = r]
  PROVE  ThreadsOK' /\ thread'[t] = r /\ \A u \in Threads \ {t} : thread'[u] = thread[u]
BY DEF ThreadsOK, WellFormed

(* A thread ends its stage.                                                 *)
LEMMA Leaves ==
  ASSUME ThreadsOK, NEW t \in Threads, thread[t].pc # "idle",
         \/ StageDone(t)
         \/ thread' = [thread EXCEPT ![t] = Idle]
         \/ \E stages \in Seq(Stages) : Continue(t, stages)
  PROVE  /\ ThreadsOK'
         /\ thread'[t].pc \in {"idle", "begin", "lock"}
         /\ \A u \in Threads \ {t} : thread'[u] = thread[u]
<1>1. thread[t].todo \in Seq(Stages) /\ thread[t].todo # <<>>
  BY DEF ThreadsOK, WellFormed, ThreadState
<1>2. Tail(thread[t].todo) \in Seq(Stages)
  BY <1>1
<1>3. CASE StageDone(t)
  <2>1. thread' = [thread EXCEPT ![t] = Run(Tail(thread[t].todo))]
    BY <1>3 DEF StageDone
  <2> QED BY <1>2, <2>1, RunWellFormed, ThreadChange
<1>4. CASE thread' = [thread EXCEPT ![t] = Idle]
  <2>1. WellFormed(Idle) /\ Idle.pc = "idle"
    BY DEF WellFormed, Idle, ThreadState, PCs
  <2> QED BY <1>4, <2>1, ThreadChange
<1>5. ASSUME NEW stages \in Seq(Stages), Continue(t, stages)
      PROVE  /\ ThreadsOK'
             /\ thread'[t].pc \in {"idle", "begin", "lock"}
             /\ \A u \in Threads \ {t} : thread'[u] = thread[u]
  <2>1. thread' = [thread EXCEPT ![t] = Run(stages \o Tail(thread[t].todo))]
    BY <1>5 DEF Continue
  <2>2. stages \o Tail(thread[t].todo) \in Seq(Stages)
    BY <1>2
  <2> QED BY <2>1, <2>2, RunWellFormed, ThreadChange
<1> QED BY <1>3, <1>4, <1>5

(* A thread goes on within its stage.                                       *)
LEMMA Goes ==
  ASSUME ThreadsOK, NEW t \in Threads, NEW pc \in PCs, thread[t].pc # "idle",
         Goto(t, pc), Fits(pc, Stage(t))
  PROVE  /\ ThreadsOK'
         /\ thread'[t] = [thread[t] EXCEPT !.pc = pc]
         /\ thread'[t].pc = pc /\ Stage(t)' = Stage(t)
         /\ \A u \in Threads \ {t} : thread'[u] = thread[u]
<1> DEFINE r == [thread[t] EXCEPT !.pc = pc]
<1>1. thread[t] \in ThreadState /\ WellFormed(thread[t])
  BY DEF ThreadsOK
<1>2. r \in ThreadState /\ r.pc = pc /\ r.todo = thread[t].todo /\ r.cmd = thread[t].cmd
  BY <1>1 DEF ThreadState
<1>3. WellFormed(r)
  BY <1>1, <1>2 DEF WellFormed, Stage
<1>4. thread' = [thread EXCEPT ![t] = r]
  BY DEF Goto, ThreadsOK
<1> HIDE DEF r
<1>5. ThreadsOK' /\ thread'[t] = r /\ \A u \in Threads \ {t} : thread'[u] = thread[u]
  BY <1>3, <1>4, ThreadChange
<1> QED BY <1>2, <1>5 DEF Stage, r

-----------------------------------------------------------------------------
(* The types of everything but the threads.                                 *)
DataOK ==
    /\ resource \in Threads \cup {"free"}
    /\ sysPowered \in BOOLEAN
    /\ devPower \in {"ON", "OFF"}
    /\ bActive \in BOOLEAN /\ bReProcess \in BOOLEAN /\ misrPending \in BOOLEAN
    /\ powerStatus \in SUBSET {"NO_WORK", "POWEROFF_COMPLETE", "RESTART_IMMEDIATE"}
    /\ activePower \in BOOLEAN /\ clearActive \in BOOLEAN
    /\ ccb \in Seq(Commands)
    /\ work \in SUBSET Renders /\ ready \in SUBSET work
    /\ done \in SUBSET Renders /\ submitted \in SUBSET Renders
    /\ hung \in BOOLEAN
    /\ suspends \in Nat /\ hangs \in Nat /\ initFails \in Nat

LEMMA ExclusiveKept ==
  ASSUME PowerExclusive, NEW t \in Threads, resource' = resource,
         \A u \in Threads \ {t} : thread'[u] = thread[u],
         thread[t].pc \in UnderLock <=> thread'[t].pc \in UnderLock
  PROVE  PowerExclusive'
BY DEF PowerExclusive

LEMMA ExclusiveTaken ==
  ASSUME PowerExclusive, NEW t \in Threads, resource = "free", resource' = t,
         \A u \in Threads \ {t} : thread'[u] = thread[u], thread'[t].pc \in UnderLock
  PROVE  PowerExclusive'
BY DEF PowerExclusive, Threads

LEMMA ExclusiveGiven ==
  ASSUME PowerExclusive, NEW t \in Threads, thread[t].pc \in UnderLock, resource' = "free",
         \A u \in Threads \ {t} : thread'[u] = thread[u], thread'[t].pc \notin UnderLock
  PROVE  PowerExclusive'
BY DEF PowerExclusive, Threads

Inv == ThreadsOK /\ DataOK /\ PowerExclusive

USE DEF UnderLock

LEMMA InitInv == Init => Inv
<1> SUFFICES ASSUME Init PROVE Inv
  OBVIOUS
<1>1. ThreadsOK
  BY DEF Init, ThreadsOK, WellFormed, ThreadState, Idle, PCs
<1>2. DataOK
  <2>1. ccb \in Seq(Commands) /\ powerStatus \in SUBSET {"NO_WORK", "POWEROFF_COMPLETE", "RESTART_IMMEDIATE"}
    BY DEF Init
  <2>2. /\ work \in SUBSET Renders /\ ready \in SUBSET work
        /\ done \in SUBSET Renders /\ submitted \in SUBSET Renders
    BY DEF Init
  <2> QED BY <2>1, <2>2 DEF Init, DataOK
<1>3. PowerExclusive
  BY DEF Init, PowerExclusive, Idle, Threads
<1> QED BY <1>1, <1>2, <1>3 DEF Inv

(* A thread that starts was idle and does not hold the lock.                *)
LEMMA Starts ==
  ASSUME Inv, NEW t \in Threads, NEW r, WellFormed(r), r.pc \notin UnderLock,
         thread[t] = Idle, thread' = [thread EXCEPT ![t] = r], resource' = resource
  PROVE  ThreadsOK' /\ PowerExclusive'
<1>1. ThreadsOK' /\ thread'[t] = r /\ \A u \in Threads \ {t} : thread'[u] = thread[u]
  BY ThreadChange DEF Inv
<1>2. thread[t].pc \notin UnderLock
  BY DEF Idle
<1> QED BY <1>1, <1>2, ExclusiveKept DEF Inv

LEMMA OutsideInv ==
  ASSUME Inv, Request \/ PVRSRVMISR \/ SGXOSTimer \/ DriverResume
  PROVE  Inv'
<1> USE DEF hostCtl, ukVars, power, requests, bounds
<1>1. ASSUME NEW r \in Renders, SGXDoKick(r) PROVE Inv'
  <2> DEFINE call == [pc |-> "lock", todo |-> <<"render", "test">>, cmd |-> r]
  <2>1. <<"render", "test">> \in Seq(Stages) /\ Head(<<"render", "test">>) = "render"
    BY DEF Stages
  <2>2. WellFormed(call) /\ call.pc \notin UnderLock
    BY <2>1, RendersAssumption DEF WellFormed, ThreadState, PCs, Fits
  <2>3. ThreadsOK' /\ PowerExclusive'
    BY <1>1, <2>2, Starts DEF SGXDoKick, Threads
  <2>4. DataOK'
    BY <1>1 DEF SGXDoKick, Inv, DataOK
  <2> QED BY <2>3, <2>4 DEF Inv
<1>2. ASSUME NEW t \in Threads, NEW todo \in Seq(Stages), thread[t] = Idle, resource' = resource,
             thread' = [thread EXCEPT ![t] = Run(todo)]
      PROVE  ThreadsOK' /\ PowerExclusive'
  BY <1>2, RunWellFormed, Starts
<1>3. ASSUME NEW r \in Renders, CommandComplete(r) PROVE Inv'
  <2>1. <<"kick", "misr">> \in Seq(Stages)
    BY DEF Stages
  <2>2. ThreadsOK' /\ PowerExclusive'
    BY <1>2, <1>3, <2>1 DEF CommandComplete, Threads
  <2>3. done' \in SUBSET Renders
    BY <1>3 DEF CommandComplete, Inv, DataOK
  <2>4. UNCHANGED <<resource, bReProcess, misrPending, submitted, power, hostCtl, ukVars, bounds>>
    BY <1>3 DEF CommandComplete
  <2>5. DataOK'
    BY <2>3, <2>4 DEF Inv, DataOK
  <2> QED BY <2>2, <2>5 DEF Inv
<1>4. CASE DriverSuspend
  <2>1. <<"suspend">> \in Seq(Stages)
    BY DEF Stages
  <2>2. ThreadsOK' /\ PowerExclusive'
    BY <1>2, <1>4, <2>1 DEF DriverSuspend, Threads
  <2>3. DataOK'
    BY <1>4 DEF DriverSuspend, Inv, DataOK
  <2> QED BY <2>2, <2>3 DEF Inv
<1>5. CASE UkHang
  <2>1. ThreadsOK' /\ PowerExclusive'
    BY <1>5 DEF UkHang, Inv, ThreadsOK, PowerExclusive
  <2>2. misrPending' \in BOOLEAN /\ hung' \in BOOLEAN
    BY <1>5 DEF UkHang, Inv, DataOK
  <2>3. hangs' \in Nat
    BY <1>5 DEF UkHang, Inv, DataOK
  <2>4. UNCHANGED <<resource, bReProcess, power, hostCtl, ccb, work, ready, requests, suspends, initFails>>
    BY <1>5 DEF UkHang
  <2>5. DataOK'
    BY <2>2, <2>3, <2>4 DEF Inv, DataOK
  <2> QED BY <2>1, <2>5 DEF Inv
<1>6. CASE PVRSRVMISR
  <2>1. <<"retry", "test", "retry">> \in Seq(Stages)
        /\ <<"recover", "retry", "test", "retry">> \in Seq(Stages)
    BY DEF Stages
  <2>2. ThreadsOK' /\ PowerExclusive'
    BY <1>2, <1>6, <2>1 DEF PVRSRVMISR, Threads
  <2>3. DataOK'
    BY <1>6 DEF PVRSRVMISR, Inv, DataOK
  <2> QED BY <2>2, <2>3 DEF Inv
<1>7. CASE SGXOSTimer
  <2>1. <<"recover">> \in Seq(Stages)
    BY DEF Stages
  <2>2. ThreadsOK' /\ PowerExclusive'
    BY <1>2, <1>7, <2>1 DEF SGXOSTimer, Threads
  <2>3. DataOK'
    BY <1>7 DEF SGXOSTimer, Inv, DataOK
  <2> QED BY <2>2, <2>3 DEF Inv
<1>8. CASE DriverResume
  <2>1. <<"resume", "kick">> \in Seq(Stages)
    BY DEF Stages
  <2>2. ThreadsOK' /\ PowerExclusive'
    BY <1>2, <1>8, <2>1 DEF DriverResume, Threads
  <2>3. DataOK'
    BY <1>8 DEF DriverResume, Inv, DataOK
  <2> QED BY <2>2, <2>3 DEF Inv
<1> QED BY <1>1, <1>3, <1>4, <1>5, <1>6, <1>7, <1>8 DEF Request

(* What Goes and Leaves give for a thread that does not touch the lock.     *)
LEMMA GoesOutside ==
  ASSUME Inv, NEW t \in Threads, NEW pc \in PCs, thread[t].pc # "idle",
         Goto(t, pc), Fits(pc, Stage(t)), resource' = resource,
         thread[t].pc \in UnderLock <=> pc \in UnderLock
  PROVE  ThreadsOK' /\ PowerExclusive'
<1>1. /\ ThreadsOK' /\ thread'[t].pc = pc
      /\ \A u \in Threads \ {t} : thread'[u] = thread[u]
  BY Goes DEF Inv
<1> QED BY <1>1, ExclusiveKept DEF Inv

LEMMA LeavesOutside ==
  ASSUME Inv, NEW t \in Threads, thread[t].pc \notin UnderLock \cup {"idle"}, resource' = resource,
         \/ StageDone(t)
         \/ thread' = [thread EXCEPT ![t] = Idle]
         \/ \E stages \in Seq(Stages) : Continue(t, stages)
  PROVE  ThreadsOK' /\ PowerExclusive'
<1>1. /\ ThreadsOK'
      /\ thread'[t].pc \in {"idle", "begin", "lock"}
      /\ \A u \in Threads \ {t} : thread'[u] = thread[u]
  BY Leaves DEF Inv
<1> QED BY <1>1, ExclusiveKept DEF Inv

(* Before the lock and after it.                                            *)
LEMMA OutsideLockInv ==
  ASSUME Inv, NEW t \in Threads,
         \/ SGXScheduleProcessQueuesKM(t) \/ Retry(t) \/ SGXTestActivePowerEvent(t)
         \/ AcknowledgeActivePower(t) \/ OSScheduleMISR(t)
         \/ PowerLockRetry(t) \/ PowerLockTimeout(t) \/ SGXPostActivePowerEvent(t)
  PROVE  Inv'
<1> USE DEF hostCtl, ukVars, power, requests, bounds
<1>1. <<"kick">> \in Seq(Stages)
  BY DEF Stages
<1>2. CASE SGXScheduleProcessQueuesKM(t)
  <2>1. ThreadsOK' /\ PowerExclusive'
    BY <1>2, GoesOutside, LeavesOutside DEF SGXScheduleProcessQueuesKM, PCs, Fits
  <2>2. DataOK'
    BY <1>2 DEF SGXScheduleProcessQueuesKM, Inv, DataOK
  <2> QED BY <2>1, <2>2 DEF Inv
<1>3. CASE Retry(t)
  <2>1. ThreadsOK' /\ PowerExclusive'
    BY <1>1, <1>3, LeavesOutside DEF Retry
  <2>2. DataOK'
    BY <1>3 DEF Retry, Inv, DataOK
  <2> QED BY <2>1, <2>2 DEF Inv
<1>4. CASE SGXTestActivePowerEvent(t)
  <2>1. ThreadsOK' /\ PowerExclusive'
    BY <1>4, GoesOutside, LeavesOutside DEF SGXTestActivePowerEvent, PCs, Fits
  <2>2. DataOK'
    BY <1>4 DEF SGXTestActivePowerEvent, Inv, DataOK
  <2> QED BY <2>1, <2>2 DEF Inv
<1>5. CASE AcknowledgeActivePower(t)
  <2>1. Stage(t) = "test"
    BY <1>5 DEF AcknowledgeActivePower, Inv, ThreadsOK, WellFormed, Fits, Stage
  <2>2. ThreadsOK' /\ PowerExclusive'
    BY <1>5, <2>1, GoesOutside DEF AcknowledgeActivePower, PCs, Fits
  <2>3. DataOK'
    BY <1>5 DEF AcknowledgeActivePower, Inv, DataOK
  <2> QED BY <2>2, <2>3 DEF Inv
<1>6. CASE OSScheduleMISR(t)
  <2>1. ThreadsOK' /\ PowerExclusive'
    BY <1>6, LeavesOutside DEF OSScheduleMISR
  <2>2. DataOK'
    BY <1>6 DEF OSScheduleMISR, Inv, DataOK
  <2> QED BY <2>1, <2>2 DEF Inv
<1>7. CASE PowerLockRetry(t)
  <2>1. ThreadsOK' /\ PowerExclusive'
    BY <1>7, LeavesOutside DEF PowerLockRetry, GiveUp
  <2>2. bReProcess' \in BOOLEAN /\ clearActive' \in BOOLEAN
    BY <1>7 DEF PowerLockRetry, GiveUp, Inv, DataOK
  <2>3. DataOK'
    BY <1>7, <2>2 DEF PowerLockRetry, Inv, DataOK
  <2> QED BY <2>1, <2>3 DEF Inv
<1>8. CASE PowerLockTimeout(t)
  <2>1. ThreadsOK' /\ PowerExclusive'
    BY <1>8, LeavesOutside DEF PowerLockTimeout
  <2>2. DataOK'
    BY <1>8 DEF PowerLockTimeout, Inv, DataOK
  <2> QED BY <2>1, <2>2 DEF Inv
<1>9. CASE SGXPostActivePowerEvent(t)
  <2>1. ThreadsOK' /\ PowerExclusive'
    BY <1>1, <1>9, LeavesOutside DEF SGXPostActivePowerEvent
  <2>2. bReProcess' \in BOOLEAN
    BY <1>9 DEF SGXPostActivePowerEvent, Inv, DataOK
  <2>3. DataOK'
    BY <1>9, <2>2 DEF SGXPostActivePowerEvent, Inv, DataOK
  <2> QED BY <2>1, <2>3 DEF Inv
<1> QED BY <1>2, <1>3, <1>4, <1>5, <1>6, <1>7, <1>8, <1>9

(* Taking the lock, and giving it back.                                     *)
LEMMA LockInv ==
  ASSUME Inv, NEW t \in Threads, PowerLock(t) \/ PowerUnlock(t) \/ SGXInitialiseTimeout(t)
  PROVE  Inv'
<1> USE DEF hostCtl, ukVars, power, requests, bounds
<1>1. CASE PowerLock(t)
  <2>1. Stage(t) \in {"render", "kick", "test", "recover", "suspend", "resume"}
    BY <1>1 DEF PowerLock, Inv, ThreadsOK, WellFormed, Fits, Stage
  <2>2. Locked(t) \in UnderLock /\ Locked(t) \in PCs /\ Fits(Locked(t), Stage(t))
    BY <2>1 DEF Locked, PCs, Fits
  <2>3. ThreadsOK' /\ thread'[t].pc = Locked(t) /\ \A u \in Threads \ {t} : thread'[u] = thread[u]
    BY <1>1, <2>2, Goes DEF PowerLock, Inv
  <2>4. PowerExclusive'
    BY <1>1, <2>2, <2>3, ExclusiveTaken DEF PowerLock, Inv
  <2>5. DataOK'
    BY <1>1 DEF PowerLock, Inv, DataOK
  <2> QED BY <2>3, <2>4, <2>5 DEF Inv
<1>2. CASE PowerUnlock(t)
  <2>1. /\ ThreadsOK'
        /\ thread'[t].pc \notin UnderLock
        /\ \A u \in Threads \ {t} : thread'[u] = thread[u]
    <3>1. CASE Stage(t) = "test"
      <4>1. Goto(t, "post") /\ Fits("post", Stage(t)) /\ "post" \in PCs
        BY <1>2, <3>1 DEF PowerUnlock, Fits, PCs
      <4> QED BY <1>2, <4>1, Goes DEF PowerUnlock, Inv
    <3>2. CASE Stage(t) # "test"
      <4>1. <<"kick", "retry">> \in Seq(Stages)
        BY DEF Stages
      <4>2. StageDone(t) \/ Continue(t, <<"kick", "retry">>)
        BY <1>2, <3>2 DEF PowerUnlock
      <4> QED BY <1>2, <4>1, <4>2, Leaves DEF PowerUnlock, Inv
    <3> QED BY <3>1, <3>2
  <2>2. PowerExclusive'
    BY <1>2, <2>1, ExclusiveGiven DEF PowerUnlock, Inv
  <2>3. DataOK'
    BY <1>2 DEF PowerUnlock, Inv, DataOK
  <2> QED BY <2>1, <2>2, <2>3 DEF Inv
<1>3. CASE SGXInitialiseTimeout(t)
  <2>1. /\ ThreadsOK'
        /\ thread'[t].pc \notin UnderLock
        /\ \A u \in Threads \ {t} : thread'[u] = thread[u]
    BY <1>3, Leaves DEF SGXInitialiseTimeout, GiveUp, Inv
  <2>2. PowerExclusive'
    BY <1>3, <2>1, ExclusiveGiven DEF SGXInitialiseTimeout, Inv
  <2>3. bReProcess' \in BOOLEAN /\ clearActive' \in BOOLEAN
    BY <1>3 DEF SGXInitialiseTimeout, GiveUp, Inv, DataOK
  <2>4. DataOK'
    BY <1>3, <2>3 DEF SGXInitialiseTimeout, Inv, DataOK
  <2> QED BY <2>1, <2>2, <2>4 DEF Inv
<1> QED BY <1>1, <1>2, <1>3

(* A step under the lock that keeps it.                                     *)
LEMMA UnderLockInv ==
  ASSUME Inv, NEW t \in Threads,
         \/ OSDisableTimer(t) \/ SendPowerOff(t) \/ DevicePowerOff(t)
         \/ ResetPowerStatus(t) \/ SGXInitialise(t) \/ ClearReProcess(t)
         \/ SGXScheduleCCBCommand(t) \/ SystemPostPowerState(t) \/ HWRecoveryResetSGX(t)
  PROVE  Inv'
<1> USE DEF hostCtl, ukVars, power, requests, bounds
<1>1. thread[t].pc # "idle" => Fits(thread[t].pc, Stage(t)) /\ thread[t].cmd # "none"
  BY DEF Inv, ThreadsOK, WellFormed, Stage
<1>2. thread[t].cmd \in Renders \cup {"none", "PROCESS_QUEUES"}
  BY DEF Inv, ThreadsOK, ThreadState
<1>3. CASE OSDisableTimer(t)
  <2>1. ThreadsOK' /\ PowerExclusive'
    BY <1>1, <1>3, GoesOutside DEF OSDisableTimer, PCs, Fits
  <2>2. DataOK'
    BY <1>3 DEF OSDisableTimer, Inv, DataOK
  <2> QED BY <2>1, <2>2 DEF Inv
<1>4. CASE SendPowerOff(t)
  <2>1. ThreadsOK' /\ PowerExclusive'
    BY <1>1, <1>4, GoesOutside DEF SendPowerOff, PCs, Fits
  <2>2. ccb' \in Seq(Commands)
    BY <1>4 DEF SendPowerOff, Inv, DataOK, Commands
  <2>3. DataOK'
    BY <1>4, <2>2 DEF SendPowerOff, Inv, DataOK
  <2> QED BY <2>1, <2>3 DEF Inv
<1>5. CASE DevicePowerOff(t)
  <2>1. ThreadsOK' /\ PowerExclusive'
    BY <1>1, <1>5, GoesOutside DEF DevicePowerOff, PCs, Fits
  <2>2. DataOK'
    BY <1>5 DEF DevicePowerOff, Inv, DataOK
  <2> QED BY <2>1, <2>2 DEF Inv
<1>6. CASE ResetPowerStatus(t)
  <2>1. ThreadsOK' /\ PowerExclusive'
    BY <1>1, <1>6, GoesOutside DEF ResetPowerStatus, PCs, Fits
  <2>2. powerStatus' \in SUBSET {"NO_WORK", "POWEROFF_COMPLETE", "RESTART_IMMEDIATE"}
    BY <1>6 DEF ResetPowerStatus
  <2>3. DataOK'
    BY <1>6, <2>2 DEF ResetPowerStatus, Inv, DataOK
  <2> QED BY <2>1, <2>3 DEF Inv
<1>7. StartMicrokernel => /\ ccb' \in Seq(Commands) /\ work' \in SUBSET Renders
                          /\ work \subseteq work' /\ hung' \in BOOLEAN
                          /\ activePower' \in BOOLEAN /\ clearActive' \in BOOLEAN
  <2> SUFFICES ASSUME StartMicrokernel
               PROVE  /\ ccb' \in Seq(Commands) /\ work' \in SUBSET Renders
                      /\ work \subseteq work' /\ hung' \in BOOLEAN
                      /\ activePower' \in BOOLEAN /\ clearActive' \in BOOLEAN
    OBVIOUS
  <2>1. ccb' \in Seq(Commands)
    BY DEF StartMicrokernel
  <2>2. hung' \in BOOLEAN /\ clearActive' \in BOOLEAN
    BY Zenon DEF StartMicrokernel
  <2>3. work' \in SUBSET Renders /\ work \subseteq work'
    BY DEF StartMicrokernel, Inv, DataOK
  <2>4. activePower' \in BOOLEAN
    BY Zenon DEF StartMicrokernel
  <2> QED BY <2>1, <2>2, <2>3, <2>4
<1>8. CASE SGXInitialise(t)
  <2>1. ThreadsOK' /\ PowerExclusive'
    BY <1>1, <1>8, GoesOutside DEF SGXInitialise, PCs, Fits
  <2>2. ready' \in SUBSET work'
    BY <1>7, <1>8 DEF SGXInitialise, Inv, DataOK
  <2>3. DataOK'
    BY <1>7, <1>8, <2>2 DEF SGXInitialise, Inv, DataOK
  <2> QED BY <2>1, <2>3 DEF Inv
<1>9. CASE ClearReProcess(t)
  <2>1. ThreadsOK' /\ PowerExclusive'
    BY <1>1, <1>9, GoesOutside DEF ClearReProcess, PCs, Fits
  <2>2. DataOK'
    BY <1>9 DEF ClearReProcess, Inv, DataOK
  <2> QED BY <2>1, <2>2 DEF Inv
<1>10. CASE SGXScheduleCCBCommand(t)
  <2>1. ThreadsOK' /\ PowerExclusive'
    BY <1>10, GoesOutside DEF SGXScheduleCCBCommand, PCs, Fits
  <2>2. thread[t].cmd \in Commands
    BY <1>1, <1>2, <1>10 DEF SGXScheduleCCBCommand, Commands
  <2>3. ccb' \in Seq(Commands) /\ submitted' \in SUBSET Renders
    BY <1>10, <2>2 DEF SGXScheduleCCBCommand, Inv, DataOK
  <2>4. UNCHANGED <<resource, bReProcess, misrPending, power, hostCtl, work, ready, hung, done, bounds>>
    BY <1>10 DEF SGXScheduleCCBCommand
  <2>5. DataOK'
    BY <2>3, <2>4 DEF Inv, DataOK
  <2> QED BY <2>1, <2>5 DEF Inv
<1>11. CASE SystemPostPowerState(t)
  <2>1. ThreadsOK' /\ PowerExclusive'
    BY <1>1, <1>11, GoesOutside DEF SystemPostPowerState, PCs, Fits
  <2>2. DataOK'
    BY <1>11 DEF SystemPostPowerState, Inv, DataOK
  <2> QED BY <2>1, <2>2 DEF Inv
<1>12. CASE HWRecoveryResetSGX(t)
  <2>1. ThreadsOK' /\ PowerExclusive'
    BY <1>1, <1>12, GoesOutside DEF HWRecoveryResetSGX, PCs, Fits
  <2>2. ready' \in SUBSET work'
    BY <1>7, <1>12 DEF HWRecoveryResetSGX, Inv, DataOK
  <2>3. DataOK'
    BY <1>7, <1>12, <2>2 DEF HWRecoveryResetSGX, Inv, DataOK
  <2> QED BY <2>1, <2>3 DEF Inv
<1> QED BY <1>3, <1>4, <1>5, <1>6, <1>8, <1>9, <1>10, <1>11, <1>12

(* The microkernel touches neither threads nor the lock.                    *)
LEMMA MicrokernelInv == Inv /\ (Microkernel \/ UkIdle) => Inv'
<1> USE DEF hostCtl, ukVars, power, requests, bounds
<1> SUFFICES ASSUME Inv, Microkernel \/ UkIdle PROVE Inv'
  OBVIOUS
<1>1. UNCHANGED <<thread, resource>>
  BY DEF Microkernel, UkCommand, UkPowerOff, UkFinish, UkIdle
<1>2. ThreadsOK' /\ PowerExclusive'
  BY <1>1 DEF Inv, ThreadsOK, PowerExclusive
<1>3. CASE UkCommand
  <2>1. ccb' \in Seq(Commands) /\ work' \in SUBSET Renders /\ ready' \in SUBSET work'
    BY <1>3 DEF UkCommand, Inv, DataOK
  <2>2. UNCHANGED <<resource, bReProcess, misrPending, power, hostCtl, hung, requests, bounds>>
    BY <1>3 DEF UkCommand
  <2> QED BY <1>2, <2>1, <2>2 DEF Inv, DataOK
<1>4. CASE UkPowerOff
  <2>1. ccb' \in Seq(Commands)
    BY <1>4 DEF UkPowerOff, Inv, DataOK
  <2>2. clearActive' \in BOOLEAN
    BY <1>4, Zenon DEF UkPowerOff
  <2>3. activePower' \in BOOLEAN
    BY <1>4, Zenon DEF UkPowerOff
  <2>4. powerStatus' \in SUBSET {"NO_WORK", "POWEROFF_COMPLETE", "RESTART_IMMEDIATE"}
    BY <1>4 DEF UkPowerOff
  <2>5. UNCHANGED <<resource, bReProcess, misrPending, power, work, ready, hung, requests, bounds>>
    BY <1>4 DEF UkPowerOff
  <2> QED BY <1>2, <2>1, <2>2, <2>3, <2>4, <2>5 DEF Inv, DataOK
<1>5. ASSUME NEW r \in Renders, UkFinish(r) PROVE DataOK'
  <2>1. work' \in SUBSET Renders /\ ready' \in SUBSET work' /\ misrPending' \in BOOLEAN
    BY <1>5 DEF UkFinish, Inv, DataOK
  <2>2. UNCHANGED <<resource, bReProcess, power, hostCtl, ccb, hung, requests, bounds>>
    BY <1>5 DEF UkFinish
  <2> QED BY <2>1, <2>2 DEF Inv, DataOK
<1>6. CASE UkIdle
  <2>1. DataOK'
    BY <1>6 DEF UkIdle, Inv, DataOK
  <2> QED BY <1>2, <2>1 DEF Inv
<1> QED BY <1>2, <1>3, <1>4, <1>5, <1>6 DEF Microkernel, Inv

LEMMA NextInv == Inv /\ [Next]_vars => Inv'
<1> SUFFICES ASSUME Inv, [Next]_vars PROVE Inv'
  OBVIOUS
<1>1. ASSUME NEW t \in Threads, Step(t) PROVE Inv'
  BY <1>1, OutsideLockInv, LockInv, UnderLockInv DEF Step
<1>2. CASE UNCHANGED vars
  BY <1>2 DEF vars, Inv, ThreadsOK, DataOK, PowerExclusive
<1> QED BY <1>1, <1>2, OutsideInv, MicrokernelInv DEF Next

THEOREM InvHolds == Spec => []Inv
BY InitInv, NextInv, PTL DEF Spec

(* Every reachable state is of the declared types: thread states, power     *)
(* states, host control words and the kernel CCB.                           *)
THEOREM TypeCorrect == Spec => []TypeOK
<1>1. Inv => TypeOK
  BY DEF Inv, ThreadsOK, WellFormed, ThreadState, DataOK, TypeOK
<1> QED BY <1>1, InvHolds, PTL

(* sPowerStateChangeResource is held by exactly the thread that is in a     *)
(* power transition or a submission, in both builds of PVRSRVPowerLock and  *)
(* on every error path.                                                     *)
THEOREM PowerLockExcludes == Spec => []PowerExclusive
<1>1. Inv => PowerExclusive
  BY DEF Inv
<1> QED BY <1>1, InvHolds, PTL

-----------------------------------------------------------------------------
(* The stages of the watchdog's work item: it recovers once, and only first.*)
TimerList == thread["timer"].todo \in
    {<<>>, <<"recover">>, <<"kick", "retry">>, <<"retry">>, <<"kick">>}

(* How the list of a thread may change.                                     *)
LEMMA StepShape ==
  ASSUME Inv, NEW t \in Threads, Step(t)
  PROVE  /\ thread[t].pc # "idle"
         /\ \/ \E pc \in PCs : Goto(t, pc)
            \/ StageDone(t)
            \/ thread' = [thread EXCEPT ![t] = Idle]
            \/ Stage(t) \in {"retry", "test"} /\ Continue(t, <<"kick">>)
            \/ Stage(t) = "recover" /\ Continue(t, <<"kick", "retry">>)
<1>1. thread[t].pc # "idle" => Fits(thread[t].pc, Stage(t))
  BY DEF Inv, ThreadsOK, WellFormed, Stage
<1>2. CASE \/ SGXScheduleProcessQueuesKM(t) \/ Retry(t) \/ SGXTestActivePowerEvent(t)
           \/ AcknowledgeActivePower(t) \/ OSScheduleMISR(t)
  BY <1>2 DEF SGXScheduleProcessQueuesKM, Retry, SGXTestActivePowerEvent,
              AcknowledgeActivePower, OSScheduleMISR, PCs
<1>3. CASE PowerLockRetry(t) \/ PowerLockTimeout(t) \/ SGXInitialiseTimeout(t)
  BY <1>3 DEF PowerLockRetry, PowerLockTimeout, SGXInitialiseTimeout, GiveUp
<1>4. CASE SGXPostActivePowerEvent(t)
  BY <1>1, <1>4 DEF SGXPostActivePowerEvent, Fits
<1>5. CASE PowerLock(t)
  <2>1. Locked(t) \in PCs
    BY <1>1, <1>5 DEF PowerLock, Locked, PCs, Fits
  <2> QED BY <1>5, <2>1 DEF PowerLock
<1>6. CASE PowerUnlock(t)
  BY <1>6 DEF PowerUnlock, PCs
<1>7. CASE \/ OSDisableTimer(t) \/ SendPowerOff(t) \/ DevicePowerOff(t)
           \/ ResetPowerStatus(t) \/ SGXInitialise(t) \/ ClearReProcess(t)
           \/ SGXScheduleCCBCommand(t) \/ SystemPostPowerState(t) \/ HWRecoveryResetSGX(t)
  BY <1>7 DEF OSDisableTimer, SendPowerOff, DevicePowerOff, ResetPowerStatus, SGXInitialise,
              ClearReProcess, SGXScheduleCCBCommand, SystemPostPowerState,
              HWRecoveryResetSGX, PCs
<1> QED BY <1>2, <1>3, <1>4, <1>5, <1>6, <1>7 DEF Step

LEMMA RunList ==
  ASSUME NEW todo \in Seq(Stages)
  PROVE  Run(todo).todo = todo /\ (todo = <<>> => Run(todo).pc = "idle")
BY DEF Run, Idle

LEMMA TimerLeaves ==
  ASSUME Inv, TimerList, thread["timer"].pc # "idle",
         \/ StageDone("timer")
         \/ thread' = [thread EXCEPT !["timer"] = Idle]
         \/ Stage("timer") \in {"retry", "test"} /\ Continue("timer", <<"kick">>)
         \/ Stage("timer") = "recover" /\ Continue("timer", <<"kick", "retry">>)
  PROVE  TimerList' /\ (thread'["timer"].pc = "idle" \/ Stage("timer")' # "recover")
<1> DEFINE list == thread["timer"].todo
<1>1. "timer" \in Threads /\ thread \in [Threads -> ThreadState]
  BY DEF Threads, Inv, ThreadsOK
<1>2. list # <<>> /\ list \in Seq(Stages)
  BY <1>1 DEF Inv, ThreadsOK, WellFormed, ThreadState
<1>3. /\ Tail(<<"recover">>) = <<>> /\ Tail(<<"retry">>) = <<>> /\ Tail(<<"kick">>) = <<>>
      /\ Tail(<<"kick", "retry">>) = <<"retry">>
  OBVIOUS
<1>4. /\ Head(<<"recover">>) = "recover" /\ Head(<<"retry">>) = "retry"
      /\ Head(<<"kick">>) = "kick" /\ Head(<<"kick", "retry">>) = "kick"
  OBVIOUS
<1>5. /\ <<>> \in Seq(Stages) /\ <<"kick">> \in Seq(Stages) /\ <<"retry">> \in Seq(Stages)
      /\ <<"kick", "retry">> \in Seq(Stages)
  BY DEF Stages
<1>6. /\ <<"kick">> \o <<>> = <<"kick">>
      /\ <<"kick", "retry">> \o <<>> = <<"kick", "retry">>
  OBVIOUS
<1>7. CASE StageDone("timer")
  <2>1. thread'["timer"] = Run(Tail(list))
    BY <1>1, <1>7 DEF StageDone
  <2>2. Tail(list) \in {<<>>, <<"retry">>}
    BY <1>2, <1>3 DEF TimerList
  <2>3. thread'["timer"].todo = Tail(list) /\ (Tail(list) = <<>> => thread'["timer"].pc = "idle")
    BY <1>5, <2>1, <2>2, RunList
  <2> QED BY <1>4, <2>2, <2>3 DEF TimerList, Stage
<1>8. CASE thread' = [thread EXCEPT !["timer"] = Idle]
  BY <1>1, <1>8 DEF Idle, TimerList
<1>9. CASE Stage("timer") \in {"retry", "test"} /\ Continue("timer", <<"kick">>)
  <2>1. list = <<"retry">>
    BY <1>2, <1>4, <1>9 DEF TimerList, Stage
  <2>2. thread'["timer"] = Run(<<"kick">> \o Tail(list))
    BY <1>1, <1>9 DEF Continue
  <2>3. Tail(list) = <<>>
    BY <1>3, <2>1
  <2>4. thread'["timer"] = Run(<<"kick">>)
    BY <1>6, <2>2, <2>3
  <2>5. thread'["timer"].todo = <<"kick">>
    BY <1>5, <2>4, RunList
  <2> QED BY <1>4, <2>5 DEF TimerList, Stage
<1>10. CASE Stage("timer") = "recover" /\ Continue("timer", <<"kick", "retry">>)
  <2>1. list = <<"recover">>
    BY <1>2, <1>4, <1>10 DEF TimerList, Stage
  <2>2. thread'["timer"] = Run(<<"kick", "retry">> \o Tail(list))
    BY <1>1, <1>10 DEF Continue
  <2>3. Tail(list) = <<>>
    BY <1>3, <2>1
  <2>4. thread'["timer"] = Run(<<"kick", "retry">>)
    BY <1>6, <2>2, <2>3
  <2>5. thread'["timer"].todo = <<"kick", "retry">>
    BY <1>5, <2>4, RunList
  <2> QED BY <1>4, <2>5 DEF TimerList, Stage
<1> QED BY <1>1, <1>7, <1>8, <1>9, <1>10

LEMMA TimerGoes ==
  ASSUME Inv, NEW pc \in PCs, Goto("timer", pc)
  PROVE  /\ thread'["timer"].pc = pc /\ Stage("timer")' = Stage("timer")
         /\ TimerList => TimerList'
<1>1. thread["timer"] \in ThreadState /\ thread \in [Threads -> ThreadState]
  BY DEF Inv, ThreadsOK, Threads
<1>2. thread'["timer"].todo = thread["timer"].todo /\ thread'["timer"].pc = pc
  BY <1>1 DEF Goto, ThreadState, Threads
<1> QED BY <1>2 DEF TimerList, Stage

LEMMA TimerListStep ==
  ASSUME Inv, TimerList, NEW t \in Threads, Step(t)
  PROVE  TimerList'
<1>1. CASE t = "timer"
  BY <1>1, StepShape, TimerLeaves, TimerGoes
<1>2. CASE t # "timer"
  <2>1. thread \in [Threads -> ThreadState] /\ "timer" \in Threads
    BY DEF Inv, ThreadsOK, Threads
  <2>2. thread'["timer"] = thread["timer"]
    BY <1>2, <2>1, StepShape DEF Goto, StageDone, Continue
  <2> QED BY <2>2 DEF TimerList
<1> QED BY <1>1, <1>2

(* What the places of the threads say about the power of core and system.   *)
PlaceOK(t) ==
    /\ thread[t].pc \in {"disable", "flush", "poll", "submit", "write"}
          => devPower = "ON" /\ sysPowered
    /\ thread[t].pc \in {"on", "init"} => sysPowered
    /\ thread[t].pc = "system" /\ Stage(t) = "suspend" => devPower = "OFF"
    /\ thread[t].pc \in {"flush", "poll"} => ~ bActive
    /\ thread[t].pc = "poll" => thread["timer"] = Idle

(* The watchdog keeps the core on from its look at it to its recovery.      *)
TimerOK ==
    /\ thread["timer"].pc \in {"lock", "recover"} /\ Stage("timer") = "recover"
          => devPower = "ON"
    /\ thread["timer"].pc = "recover" => sysPowered

PowerOK ==
    /\ bActive => devPower = "ON"
    /\ ~ sysPowered => devPower = "OFF"

HardwareInv == Inv /\ TimerList /\ (\A t \in Threads : PlaceOK(t)) /\ TimerOK /\ PowerOK

LEMMA HardwareInit == Init => HardwareInv
<1> SUFFICES ASSUME Init PROVE HardwareInv
  OBVIOUS
<1>1. \A t \in Threads : thread[t] = Idle
  BY DEF Init
<1>2. "timer" \in Threads /\ Idle.pc = "idle" /\ Idle.todo = <<>>
  BY DEF Threads, Idle
<1>3. TimerList /\ (\A t \in Threads : PlaceOK(t)) /\ TimerOK
  BY <1>1, <1>2 DEF TimerList, PlaceOK, TimerOK
<1>4. PowerOK
  BY DEF Init, PowerOK
<1> QED BY <1>3, <1>4, InitInv DEF HardwareInv

(* A step of a thread that holds no lock afterwards: the others see no      *)
(* change, and the watchdog only comes to a recovery of a core that is on.  *)
LEMMA HardwareOutside ==
  ASSUME HardwareInv, NEW t \in Threads,
         \A u \in Threads \ {t} : thread'[u] = thread[u],
         thread'[t].pc \notin UnderLock, t = "timer" => thread[t] # Idle \/ bActive,
         thread'["timer"].pc = "lock" /\ Stage("timer")' = "recover" => devPower = "ON",
         UNCHANGED power
  PROVE  (\A u \in Threads : PlaceOK(u)') /\ TimerOK' /\ PowerOK'
<1> USE DEF power
<1>1. "timer" \in Threads
  BY DEF Threads
<1>2. ASSUME NEW u \in Threads \ {t} PROVE PlaceOK(u)'
  <2>1. PlaceOK(u) /\ thread'[u] = thread[u] /\ Stage(u)' = Stage(u)
    BY DEF HardwareInv, Stage
  <2>2. thread[u].pc = "poll" => t # "timer"
    BY <2>1 DEF PlaceOK
  <2> QED BY <1>1, <2>1, <2>2 DEF PlaceOK
<1>3. PlaceOK(t)'
  BY DEF PlaceOK
<1>4. TimerOK'
  <2>1. CASE t = "timer"
    BY <2>1 DEF TimerOK
  <2>2. CASE t # "timer"
    <3>1. thread'["timer"] = thread["timer"] /\ Stage("timer")' = Stage("timer")
      BY <1>1, <2>2 DEF Stage
    <3> QED BY <3>1 DEF TimerOK, HardwareInv
  <2> QED BY <2>1, <2>2
<1>5. PowerOK'
  BY DEF PowerOK, HardwareInv
<1> QED BY <1>2, <1>3, <1>4, <1>5

(* A step of the thread that holds the lock, or takes it: no other place is *)
(* under the lock.                                                          *)
LEMMA HardwareLocked ==
  ASSUME HardwareInv, NEW t \in Threads, thread[t] # Idle,
         \A u \in Threads \ {t} : thread'[u] = thread[u] /\ thread[u].pc \notin UnderLock,
         PlaceOK(t)', PowerOK',
         devPower' = devPower \/ thread'["timer"].pc \notin {"lock", "recover"},
         t = "timer" => TimerOK'
  PROVE  (\A u \in Threads : PlaceOK(u)') /\ TimerOK' /\ PowerOK'
<1>1. "timer" \in Threads
  BY DEF Threads
<1>2. ASSUME NEW u \in Threads \ {t} PROVE PlaceOK(u)'
  BY DEF PlaceOK
<1>3. CASE t # "timer"
  <2>1. thread'["timer"] = thread["timer"] /\ Stage("timer")' = Stage("timer")
        /\ thread["timer"].pc # "recover"
    BY <1>1, <1>3 DEF Stage
  <2>2. TimerOK'
    BY <2>1 DEF TimerOK, HardwareInv
  <2> QED BY <1>2, <2>2
<1> QED BY <1>2, <1>3

LEMMA OthersStay ==
  ASSUME Inv, NEW t \in Threads, Step(t)
  PROVE  thread[t] # Idle /\ \A u \in Threads \ {t} : thread'[u] = thread[u]
<1>1. thread \in [Threads -> ThreadState]
  BY DEF Inv, ThreadsOK
<1>2. \A r : thread' = [thread EXCEPT ![t] = r] => \A u \in Threads \ {t} : thread'[u] = thread[u]
  BY <1>1
<1> QED BY <1>1, <1>2, StepShape DEF Goto, StageDone, Continue, Idle

LEMMA HardwareOutsideStep ==
  ASSUME HardwareInv, NEW t \in Threads,
         \/ SGXScheduleProcessQueuesKM(t) \/ Retry(t) \/ SGXTestActivePowerEvent(t)
         \/ AcknowledgeActivePower(t) \/ OSScheduleMISR(t)
         \/ PowerLockRetry(t) \/ PowerLockTimeout(t) \/ SGXPostActivePowerEvent(t)
         \/ PowerUnlock(t) \/ SGXInitialiseTimeout(t)
  PROVE  (\A u \in Threads : PlaceOK(u)') /\ TimerOK' /\ PowerOK'
<1>1. Step(t)
  BY DEF Step
<1>2. UNCHANGED power
  BY DEF SGXScheduleProcessQueuesKM, Retry, SGXTestActivePowerEvent, AcknowledgeActivePower,
         OSScheduleMISR, PowerLockRetry, PowerLockTimeout, SGXPostActivePowerEvent,
         PowerUnlock, SGXInitialiseTimeout
<1>3. Inv' /\ thread[t] # Idle /\ \A u \in Threads \ {t} : thread'[u] = thread[u]
  BY <1>1, OthersStay, NextInv DEF HardwareInv, Next
<1>4. resource' # t
  <2>1. CASE PowerUnlock(t) \/ SGXInitialiseTimeout(t)
    BY <2>1 DEF PowerUnlock, SGXInitialiseTimeout, Threads
  <2>2. CASE ~ (PowerUnlock(t) \/ SGXInitialiseTimeout(t))
    <3>1. resource' = resource /\ thread[t].pc \notin UnderLock
      BY <2>2 DEF SGXScheduleProcessQueuesKM, Retry, SGXTestActivePowerEvent,
         AcknowledgeActivePower, OSScheduleMISR, PowerLockRetry, PowerLockTimeout,
         SGXPostActivePowerEvent
    <3> QED BY <3>1 DEF HardwareInv, Inv, PowerExclusive
  <2> QED BY <2>1, <2>2
<1>5. thread'[t].pc \notin UnderLock
  BY <1>3, <1>4 DEF Inv, PowerExclusive
<1>6. thread'["timer"].pc = "lock" /\ Stage("timer")' = "recover" => devPower = "ON"
  <2>1. CASE t # "timer"
    BY <1>3, <2>1 DEF Threads, Stage, HardwareInv, TimerOK
  <2>2. CASE t = "timer"
    <3>1. thread["timer"].pc # "idle" => Fits(thread["timer"].pc, Stage("timer"))
      BY <2>2 DEF HardwareInv, Inv, ThreadsOK, WellFormed, Stage
    <3>2. CASE \/ StageDone("timer")
               \/ thread' = [thread EXCEPT !["timer"] = Idle]
               \/ Stage("timer") \in {"retry", "test"} /\ Continue("timer", <<"kick">>)
               \/ Stage("timer") = "recover" /\ Continue("timer", <<"kick", "retry">>)
      BY <1>1, <2>2, <3>2, StepShape, TimerLeaves DEF HardwareInv
    <3>3. CASE /\ ~ StageDone("timer")
               /\ thread' # [thread EXCEPT !["timer"] = Idle]
               /\ ~ (Stage("timer") \in {"retry", "test"} /\ Continue("timer", <<"kick">>))
               /\ ~ (Stage("timer") = "recover" /\ Continue("timer", <<"kick", "retry">>))
      <4>1. \/ Goto("timer", "lock") /\ Stage("timer") \in {"kick", "test"}
            \/ Goto("timer", "ack") \/ Goto("timer", "post")
        BY <2>2, <3>1, <3>3 DEF SGXScheduleProcessQueuesKM, Retry, SGXTestActivePowerEvent,
           AcknowledgeActivePower, OSScheduleMISR, PowerLockRetry, PowerLockTimeout, GiveUp,
           SGXPostActivePowerEvent, PowerUnlock, SGXInitialiseTimeout, Fits
      <4> QED BY <4>1, TimerGoes DEF HardwareInv, PCs
    <3> QED BY <3>2, <3>3
  <2> QED BY <2>1, <2>2
<1> QED BY <1>2, <1>3, <1>5, <1>6, HardwareOutside

(* A step under the lock, or into it.                                       *)
LEMMA HardwareLockedStep ==
  ASSUME HardwareInv, NEW t \in Threads,
         \/ PowerLock(t) \/ OSDisableTimer(t) \/ SendPowerOff(t) \/ DevicePowerOff(t)
         \/ ResetPowerStatus(t) \/ SGXInitialise(t) \/ ClearReProcess(t)
         \/ SGXScheduleCCBCommand(t) \/ SystemPostPowerState(t) \/ HWRecoveryResetSGX(t)
  PROVE  (\A u \in Threads : PlaceOK(u)') /\ TimerOK' /\ PowerOK'
<1> USE DEF power
<1>1. Step(t)
  BY DEF Step
<1>2. Inv' /\ thread[t] # Idle /\ \A u \in Threads \ {t} : thread'[u] = thread[u]
  BY <1>1, OthersStay, NextInv DEF HardwareInv, Next
<1>3. \A u \in Threads \ {t} : thread[u].pc \notin UnderLock
  <2>1. CASE PowerLock(t)
    BY <2>1 DEF PowerLock, HardwareInv, Inv, PowerExclusive, Threads
  <2>2. CASE ~ PowerLock(t)
    <3>1. thread[t].pc \in UnderLock
      BY <2>2 DEF OSDisableTimer, SendPowerOff, DevicePowerOff, ResetPowerStatus, SGXInitialise,
         ClearReProcess, SGXScheduleCCBCommand, SystemPostPowerState, HWRecoveryResetSGX
    <3> QED BY <3>1 DEF HardwareInv, Inv, PowerExclusive
  <2> QED BY <2>1, <2>2
<1>4. Fits(thread[t].pc, Stage(t)) /\ PlaceOK(t) /\ PowerOK /\ TimerOK /\ devPower \in {"ON", "OFF"}
  <2>1. thread[t].pc # "idle"
    BY <1>1, StepShape DEF HardwareInv
  <2> QED BY <2>1 DEF HardwareInv, Inv, ThreadsOK, WellFormed, Stage, DataOK
<1>5. ASSUME NEW pc \in PCs, Goto(t, pc), thread[t].pc # "idle", Fits(pc, Stage(t))
      PROVE  thread'[t].pc = pc /\ Stage(t)' = Stage(t)
  BY <1>5, Goes DEF HardwareInv, Inv
<1>6. CASE PowerLock(t)
  <2>1. /\ thread'[t].pc = Locked(t) /\ Stage(t)' = Stage(t)
        /\ Stage(t) \in {"render", "kick", "test", "recover", "suspend", "resume"}
    <3>1. Stage(t) \in {"render", "kick", "test", "recover", "suspend", "resume"}
      BY <1>4, <1>6 DEF PowerLock, Fits
    <3>2. Locked(t) \in PCs /\ Fits(Locked(t), Stage(t))
      BY <3>1 DEF Locked, PCs, Fits
    <3> QED BY <1>5, <1>6, <3>1, <3>2 DEF PowerLock
  <2>2. UNCHANGED <<sysPowered, devPower, bActive>> /\ (sysPowered \/ Stage(t) \in {"suspend", "resume"})
    BY <1>6 DEF PowerLock, SystemPowerEvent
  <2>3. Locked(t) \notin {"flush", "poll", "write", "init"}
    BY <2>1 DEF Locked
  <2>4. PlaceOK(t)'
    BY <1>4, <2>1, <2>2, <2>3 DEF PlaceOK, Locked, PowerOK
  <2>5. t = "timer" => TimerOK'
    BY <1>4, <1>6, <2>1, <2>2 DEF TimerOK, Locked, PowerLock, PowerOK
  <2> QED BY <1>2, <1>3, <1>4, <2>2, <2>4, <2>5, HardwareLocked DEF PowerOK
<1>7. CASE OSDisableTimer(t)
  <2>1. thread'[t].pc = "flush" /\ Stage(t)' = Stage(t)
    BY <1>4, <1>5, <1>7 DEF OSDisableTimer, PCs, Fits
  <2>2. PlaceOK(t)' /\ PowerOK' /\ (t = "timer" => TimerOK')
    BY <1>4, <1>7, <2>1 DEF OSDisableTimer, PlaceOK, PowerOK, TimerOK, Fits
  <2> QED BY <1>2, <1>3, <1>7, <2>2, HardwareLocked DEF OSDisableTimer
<1>8. CASE SendPowerOff(t)
  <2>1. thread'[t].pc = "poll" /\ Stage(t)' = Stage(t) /\ t # "timer"
    BY <1>2, <1>4, <1>5, <1>8 DEF SendPowerOff, PCs, Fits
  <2>2. thread'["timer"] = Idle
    BY <1>2, <1>8, <2>1 DEF SendPowerOff, Threads
  <2>3. PlaceOK(t)' /\ PowerOK'
    BY <1>4, <1>8, <2>1, <2>2 DEF SendPowerOff, PlaceOK, PowerOK
  <2> QED BY <1>2, <1>3, <1>8, <2>1, <2>3, HardwareLocked DEF SendPowerOff
<1>9. CASE DevicePowerOff(t)
  <2>1. thread'[t].pc \in {"system", "unlock"} /\ Stage(t)' = Stage(t)
    BY <1>4, <1>5, <1>9 DEF DevicePowerOff, PCs, Fits
  <2>2. thread["timer"] = Idle /\ t # "timer" /\ thread'["timer"] = Idle
    BY <1>2, <1>4, <1>9 DEF DevicePowerOff, PlaceOK, Threads
  <2>3. ~ bActive /\ bActive' = bActive /\ devPower' = "OFF" /\ sysPowered' = sysPowered
    BY <1>4, <1>9 DEF DevicePowerOff, PlaceOK
  <2>4. PlaceOK(t)' /\ PowerOK'
    BY <2>1, <2>3 DEF PlaceOK, PowerOK
  <2> QED BY <1>2, <1>3, <2>2, <2>4, HardwareLocked DEF Idle
<1>10. CASE ResetPowerStatus(t)
  <2>1. thread'[t].pc = "init" /\ Stage(t)' = Stage(t)
    BY <1>4, <1>5, <1>10 DEF ResetPowerStatus, PCs, Fits
  <2>2. PlaceOK(t)' /\ PowerOK' /\ (t = "timer" => TimerOK')
    BY <1>4, <1>10, <2>1 DEF ResetPowerStatus, PlaceOK, PowerOK, TimerOK, Fits
  <2> QED BY <1>2, <1>3, <1>10, <2>2, HardwareLocked DEF ResetPowerStatus
<1>11. CASE SGXInitialise(t)
  <2>1. thread'[t].pc = "submit" /\ Stage(t)' = Stage(t)
    BY <1>4, <1>5, <1>11 DEF SGXInitialise, PCs, Fits
  <2>2. devPower' = "ON" /\ sysPowered /\ sysPowered' = sysPowered
    BY <1>4, <1>11 DEF SGXInitialise, PlaceOK
  <2>3. PlaceOK(t)' /\ PowerOK'
    BY <2>1, <2>2 DEF PlaceOK, PowerOK
  <2>4. ASSUME NEW u \in Threads \ {t} PROVE PlaceOK(u)'
    BY <1>2, <1>3, <2>4 DEF PlaceOK
  <2>5. TimerOK'
    <3>1. thread'["timer"].pc # "recover"
      BY <1>2, <1>3, <2>1 DEF Threads
    <3> QED BY <2>2, <3>1 DEF TimerOK
  <2> QED BY <2>3, <2>4, <2>5
<1>12. CASE ClearReProcess(t)
  <2>1. thread'[t].pc = "write" /\ Stage(t)' = Stage(t)
    BY <1>4, <1>5, <1>12 DEF ClearReProcess, PCs, Fits
  <2>2. PlaceOK(t)' /\ PowerOK' /\ (t = "timer" => TimerOK')
    BY <1>4, <1>12, <2>1 DEF ClearReProcess, PlaceOK, PowerOK, TimerOK, Fits
  <2> QED BY <1>2, <1>3, <1>12, <2>2, HardwareLocked DEF ClearReProcess
<1>13. CASE SGXScheduleCCBCommand(t)
  <2>1. thread'[t].pc = "unlock" /\ Stage(t)' = Stage(t)
    BY <1>4, <1>5, <1>13 DEF SGXScheduleCCBCommand, PCs, Fits
  <2>2. PlaceOK(t)' /\ PowerOK' /\ (t = "timer" => TimerOK')
    BY <1>4, <1>13, <2>1 DEF SGXScheduleCCBCommand, PlaceOK, PowerOK, TimerOK, Fits
  <2> QED BY <1>2, <1>3, <1>13, <2>2, HardwareLocked DEF SGXScheduleCCBCommand
<1>14. CASE SystemPostPowerState(t)
  <2>1. thread'[t].pc = "unlock" /\ Stage(t)' = Stage(t)
    BY <1>4, <1>5, <1>14 DEF SystemPostPowerState, PCs, Fits
  <2>2. UNCHANGED <<devPower, bActive>> /\ (Stage(t) # "suspend" => sysPowered')
        /\ (Stage(t) = "suspend" => devPower = "OFF")
    BY <1>4, <1>14 DEF SystemPostPowerState, PlaceOK, Fits
  <2>3. PlaceOK(t)' /\ PowerOK' /\ (t = "timer" => TimerOK')
    BY <1>4, <2>1, <2>2 DEF PlaceOK, PowerOK, TimerOK
  <2> QED BY <1>2, <1>3, <2>2, <2>3, HardwareLocked
<1>15. CASE HWRecoveryResetSGX(t)
  <2>1. thread'[t].pc = "unlock" /\ Stage(t)' = Stage(t)
    BY <1>4, <1>5, <1>15 DEF HWRecoveryResetSGX, PCs, Fits
  <2>2. PlaceOK(t)' /\ PowerOK' /\ (t = "timer" => TimerOK')
    BY <1>4, <1>15, <2>1 DEF HWRecoveryResetSGX, PlaceOK, PowerOK, TimerOK, Fits
  <2> QED BY <1>2, <1>3, <1>15, <2>2, HardwareLocked DEF HWRecoveryResetSGX
<1> QED BY <1>6, <1>7, <1>8, <1>9, <1>10, <1>11, <1>12, <1>13, <1>14, <1>15

LEMMA HardwareRequest ==
  ASSUME HardwareInv, Request \/ PVRSRVMISR \/ SGXOSTimer \/ DriverResume
  PROVE  HardwareInv'
<1>1. Inv' /\ UNCHANGED power
  BY OutsideInv DEF HardwareInv, Request, SGXDoKick, CommandComplete, DriverSuspend, UkHang,
     PVRSRVMISR, SGXOSTimer, DriverResume
<1>2. /\ thread \in [Threads -> ThreadState] /\ "timer" \in Threads
      /\ "bridge" \in Threads /\ "flip" \in Threads /\ "pm" \in Threads /\ "misr" \in Threads
  BY DEF HardwareInv, Inv, ThreadsOK, Threads
<1>3. ASSUME NEW t \in Threads \ {"timer"}, NEW r, r.pc \notin UnderLock, thread' = [thread EXCEPT ![t] = r]
      PROVE  HardwareInv'
  <2>1. thread'[t] = r /\ \A u \in Threads \ {t} : thread'[u] = thread[u]
    BY <1>2, <1>3
  <2>2. thread'["timer"] = thread["timer"]
    BY <1>2, <2>1
  <2>3. TimerList' /\ (thread'["timer"].pc = "lock" /\ Stage("timer")' = "recover" => devPower = "ON")
    BY <2>2 DEF HardwareInv, TimerList, TimerOK, Stage
  <2> QED BY <1>1, <1>3, <2>1, <2>3, HardwareOutside DEF HardwareInv
<1>4. ASSUME NEW todo \in Seq(Stages) PROVE Run(todo).pc \notin UnderLock
  BY RunWellFormed
<1>5. ASSUME NEW r \in Renders, SGXDoKick(r) PROVE HardwareInv'
  BY <1>2, <1>3, <1>5 DEF SGXDoKick
<1>6. /\ <<"kick", "misr">> \in Seq(Stages) /\ <<"suspend">> \in Seq(Stages)
      /\ <<"retry", "test", "retry">> \in Seq(Stages)
      /\ <<"recover", "retry", "test", "retry">> \in Seq(Stages)
      /\ <<"resume", "kick">> \in Seq(Stages) /\ <<"recover">> \in Seq(Stages)
  BY DEF Stages
<1>7. ASSUME NEW r \in Renders, CommandComplete(r) PROVE HardwareInv'
  BY <1>2, <1>3, <1>4, <1>6, <1>7 DEF CommandComplete
<1>8. CASE DriverSuspend
  BY <1>2, <1>3, <1>4, <1>6, <1>8 DEF DriverSuspend
<1>9. CASE UkHang
  <2>1. UNCHANGED thread
    BY <1>9 DEF UkHang
  <2>2. TimerList' /\ (\A t \in Threads : PlaceOK(t)') /\ TimerOK' /\ PowerOK'
    BY <1>1, <2>1 DEF HardwareInv, TimerList, PlaceOK, TimerOK, PowerOK, Stage, power
  <2> QED BY <1>1, <2>2 DEF HardwareInv
<1>10. CASE PVRSRVMISR
  BY <1>2, <1>3, <1>4, <1>6, <1>10 DEF PVRSRVMISR
<1>11. CASE SGXOSTimer
  <2>1. /\ thread' = [thread EXCEPT !["timer"] = Run(<<"recover">>)]
        /\ bActive /\ devPower = "ON"
    BY <1>11 DEF SGXOSTimer
  <2>2. /\ thread'["timer"] = Run(<<"recover">>)
        /\ \A u \in Threads \ {"timer"} : thread'[u] = thread[u]
    BY <1>2, <2>1
  <2>3. thread'["timer"].todo = <<"recover">> /\ thread'["timer"].pc \notin UnderLock
    BY <1>4, <1>6, <2>2, RunList
  <2>4. TimerList'
    BY <2>3 DEF TimerList
  <2> QED BY <1>1, <1>2, <2>1, <2>2, <2>3, <2>4, HardwareOutside DEF HardwareInv
<1>12. CASE DriverResume
  BY <1>2, <1>3, <1>4, <1>6, <1>12 DEF DriverResume
<1> QED BY <1>5, <1>7, <1>8, <1>9, <1>10, <1>11, <1>12 DEF Request

LEMMA HardwareNext == HardwareInv /\ [Next]_vars => HardwareInv'
<1> SUFFICES ASSUME HardwareInv, [Next]_vars PROVE HardwareInv'
  OBVIOUS
<1>1. Inv'
  BY NextInv DEF HardwareInv
<1>2. ASSUME NEW t \in Threads, Step(t) PROVE HardwareInv'
  <2>1. TimerList'
    BY <1>2, TimerListStep DEF HardwareInv
  <2>2. (\A u \in Threads : PlaceOK(u)') /\ TimerOK' /\ PowerOK'
    BY <1>2, HardwareOutsideStep, HardwareLockedStep DEF Step
  <2> QED BY <1>1, <2>1, <2>2 DEF HardwareInv
<1>3. CASE Microkernel \/ UkIdle
  <2>1. UNCHANGED <<thread, power>>
    BY <1>3 DEF Microkernel, UkCommand, UkPowerOff, UkFinish, UkIdle
  <2>2. TimerList' /\ (\A t \in Threads : PlaceOK(t)') /\ TimerOK' /\ PowerOK'
    BY <2>1 DEF HardwareInv, TimerList, PlaceOK, TimerOK, PowerOK, Stage, power
  <2> QED BY <1>1, <2>2 DEF HardwareInv
<1>4. CASE UNCHANGED vars
  <2>1. UNCHANGED <<thread, power>>
    BY <1>4 DEF vars, power
  <2>2. TimerList' /\ (\A t \in Threads : PlaceOK(t)') /\ TimerOK' /\ PowerOK'
    BY <2>1 DEF HardwareInv, TimerList, PlaceOK, TimerOK, PowerOK, Stage, power
  <2> QED BY <1>1, <2>2 DEF HardwareInv
<1> QED BY <1>2, <1>3, <1>4, HardwareRequest DEF Next

(* The host submits commands, and the watchdog resets the core, only while  *)
(* SGX is powered and the system awake; a sleeping system has SGX turned    *)
(* off: PVRSRVSetDevicePowerStateKM, OSDisableTimer and SGXOSTimer agree.   *)
THEOREM HardwareIsOnHolds == Spec => []HardwareIsOn
<1>1. HardwareInv => HardwareIsOn
  <2> SUFFICES ASSUME HardwareInv PROVE HardwareIsOn
    OBVIOUS
  <2>1. ASSUME NEW t \in Threads
        PROVE  \/ thread[t].pc \in {"flush", "poll", "submit", "write"}
               \/ thread[t].pc = "recover" /\ t = "timer"
               => devPower = "ON" /\ sysPowered
    <3>1. CASE thread[t].pc = "recover" /\ t = "timer"
      <4>1. Stage("timer") = "recover"
        BY <3>1 DEF HardwareInv, Inv, ThreadsOK, WellFormed, Fits, Stage
      <4> QED BY <3>1, <4>1 DEF HardwareInv, TimerOK
    <3>2. CASE thread[t].pc \in {"flush", "poll", "submit", "write"}
      BY <3>2 DEF HardwareInv, PlaceOK
    <3> QED BY <3>1, <3>2
  <2> QED BY <2>1 DEF HardwareInv, PowerOK, HardwareIsOn
<1> QED BY <1>1, HardwareInit, HardwareNext, PTL DEF Spec

-----------------------------------------------------------------------------
(* A power-off command is the last command, and the thread that sent it     *)
(* waits for the answer, after which the CCB is empty.                      *)
Polling == \E t \in Threads : thread[t].pc = "poll"

PowerOffLast ==
    devPower = "ON" => \A i \in 1 .. Len(ccb) : ccb[i] = "POWEROFF" => i = Len(ccb) /\ Polling

AnswerMeansEmpty ==
    devPower = "ON" /\ "POWEROFF_COMPLETE" \in powerStatus => Polling /\ ccb = <<>>

StartsFromOff ==
    \A t \in Threads :
        /\ thread[t].pc \in {"on", "init"} => devPower = "OFF"
        /\ thread[t].pc = "init" => "POWEROFF_COMPLETE" \notin powerStatus

HangsCounted == hung => hangs > 0

CoreOK == PowerOffLast /\ AnswerMeansEmpty /\ HangsCounted /\ AsleepMeansEmpty

CoreInv == HardwareInv /\ CoreOK /\ StartsFromOff

LEMMA CoreInit == Init => CoreInv
<1> SUFFICES ASSUME Init PROVE CoreInv
  OBVIOUS
<1>1. StartsFromOff
  BY DEF Init, StartsFromOff
<1>2. CoreOK
  BY DEF Init, CoreOK, PowerOffLast, AnswerMeansEmpty, HangsCounted, AsleepMeansEmpty
<1> QED BY <1>1, <1>2, HardwareInit DEF CoreInv

(* Steps that leave the core, the CCB and the status alone.                 *)
LEMMA CoreKept ==
  ASSUME CoreOK, UNCHANGED <<devPower, ccb, powerStatus, hung, hangs>>, Polling => Polling'
  PROVE  CoreOK'
BY DEF CoreOK, PowerOffLast, AnswerMeansEmpty, HangsCounted, AsleepMeansEmpty

LEMMA StartsKept ==
  ASSUME StartsFromOff, NEW t \in Threads, UNCHANGED <<devPower, powerStatus>>,
         \A u \in Threads \ {t} : thread'[u] = thread[u], thread'[t].pc \notin {"on", "init"}
  PROVE  StartsFromOff'
BY DEF StartsFromOff

LEMMA PollingKept ==
  ASSUME Inv, NEW t \in Threads, Step(t), ~ DevicePowerOff(t)
  PROVE  Polling => Polling'
<1>1. \A u \in Threads \ {t} : thread'[u] = thread[u]
  BY OthersStay
<1>2. thread[t].pc # "poll"
  BY DEF Step, SGXScheduleProcessQueuesKM, Retry, SGXTestActivePowerEvent, AcknowledgeActivePower,
     OSScheduleMISR, PowerLock, PowerLockRetry, PowerLockTimeout, OSDisableTimer, SendPowerOff,
     ResetPowerStatus, SGXInitialise, SGXInitialiseTimeout, ClearReProcess,
     SGXScheduleCCBCommand, SystemPostPowerState, HWRecoveryResetSGX, PowerUnlock,
     SGXPostActivePowerEvent
<1> QED BY <1>1, <1>2 DEF Polling

(* Steps of threads that neither write the CCB nor turn the core on or off. *)
LEMMA CoreQuietStep ==
  ASSUME CoreInv, NEW t \in Threads,
         \/ SGXScheduleProcessQueuesKM(t) \/ Retry(t) \/ SGXTestActivePowerEvent(t)
         \/ AcknowledgeActivePower(t) \/ OSScheduleMISR(t)
         \/ PowerLock(t) \/ PowerLockRetry(t) \/ PowerLockTimeout(t)
         \/ SGXPostActivePowerEvent(t) \/ PowerUnlock(t) \/ SGXInitialiseTimeout(t)
         \/ OSDisableTimer(t) \/ ClearReProcess(t) \/ SystemPostPowerState(t)
  PROVE  CoreOK' /\ StartsFromOff'
<1> USE DEF power, hostCtl, ukVars, bounds
<1>1. Step(t) /\ ~ DevicePowerOff(t)
  BY DEF Step, SGXScheduleProcessQueuesKM, Retry, SGXTestActivePowerEvent, AcknowledgeActivePower,
     OSScheduleMISR, PowerLock, PowerLockRetry, PowerLockTimeout, OSDisableTimer, DevicePowerOff,
     SGXInitialiseTimeout, ClearReProcess, SystemPostPowerState, PowerUnlock,
     SGXPostActivePowerEvent
<1>2. UNCHANGED <<devPower, ccb, powerStatus, hung, hangs>>
  BY DEF SGXScheduleProcessQueuesKM, Retry, SGXTestActivePowerEvent, AcknowledgeActivePower,
     OSScheduleMISR, PowerLock, PowerLockRetry, PowerLockTimeout, OSDisableTimer,
     SGXInitialiseTimeout, ClearReProcess, SystemPostPowerState, PowerUnlock,
     SGXPostActivePowerEvent
<1>3. CoreOK'
  BY <1>1, <1>2, PollingKept, CoreKept DEF CoreInv, HardwareInv
<1>4. Inv' /\ \A u \in Threads \ {t} : thread'[u] = thread[u]
  BY <1>1, OthersStay, NextInv DEF CoreInv, HardwareInv, Next
<1>5. CASE PowerLock(t)
  <2>1. thread'[t].pc = Locked(t) /\ Stage(t) \in {"render", "kick", "test", "recover", "suspend", "resume"}
    <3>1. Stage(t) \in {"render", "kick", "test", "recover", "suspend", "resume"}
      BY <1>5 DEF PowerLock, CoreInv, HardwareInv, Inv, ThreadsOK, WellFormed, Fits, Stage
    <3>2. Locked(t) \in PCs /\ Fits(Locked(t), Stage(t))
      BY <3>1 DEF Locked, PCs, Fits
    <3> QED BY <1>5, <3>1, <3>2, Goes DEF PowerLock, CoreInv, HardwareInv, Inv
  <2>2. Locked(t) # "init" /\ (Locked(t) = "on" => devPower = "OFF")
    BY <2>1 DEF Locked, CoreInv, HardwareInv, Inv, DataOK
  <2>3. StartsFromOff'
    BY <1>2, <1>4, <2>1, <2>2 DEF StartsFromOff, CoreInv
  <2> QED BY <1>3, <2>3
<1>6. CASE OSDisableTimer(t) \/ ClearReProcess(t) \/ SystemPostPowerState(t)
  <2>1. thread'[t].pc \notin {"on", "init"}
    <3>1. thread[t] \in ThreadState /\ thread \in [Threads -> ThreadState]
      BY DEF CoreInv, HardwareInv, Inv, ThreadsOK
    <3> QED BY <1>6, <3>1 DEF OSDisableTimer, ClearReProcess, SystemPostPowerState, Goto, ThreadState
  <2> QED BY <1>2, <1>3, <1>4, <2>1, StartsKept DEF CoreInv
<1>7. CASE ~ (PowerLock(t) \/ OSDisableTimer(t) \/ ClearReProcess(t) \/ SystemPostPowerState(t))
  <2>1. resource' # t
    <3>1. CASE PowerUnlock(t) \/ SGXInitialiseTimeout(t)
      BY <3>1 DEF PowerUnlock, SGXInitialiseTimeout, Threads
    <3>2. CASE ~ (PowerUnlock(t) \/ SGXInitialiseTimeout(t))
      <4>1. resource' = resource /\ thread[t].pc \notin UnderLock
        BY <1>7, <3>2 DEF SGXScheduleProcessQueuesKM, Retry, SGXTestActivePowerEvent,
           AcknowledgeActivePower, OSScheduleMISR, PowerLockRetry, PowerLockTimeout,
           SGXPostActivePowerEvent
      <4> QED BY <4>1 DEF CoreInv, HardwareInv, Inv, PowerExclusive
    <3> QED BY <3>1, <3>2
  <2>2. thread'[t].pc \notin {"on", "init"}
    BY <1>4, <2>1 DEF Inv, PowerExclusive
  <2> QED BY <1>2, <1>3, <1>4, <2>2, StartsKept DEF CoreInv
<1> QED BY <1>5, <1>6, <1>7

(* Steps under the lock that write the CCB or turn the core on or off.      *)
LEMMA CoreLockedStep ==
  ASSUME CoreInv, NEW t \in Threads,
         \/ SendPowerOff(t) \/ DevicePowerOff(t) \/ ResetPowerStatus(t) \/ SGXInitialise(t)
         \/ SGXScheduleCCBCommand(t) \/ HWRecoveryResetSGX(t)
  PROVE  CoreOK' /\ StartsFromOff'
<1> USE DEF power, hostCtl, ukVars, bounds
<1>1. Step(t) /\ thread[t].pc \in UnderLock
  BY DEF Step, SendPowerOff, DevicePowerOff, ResetPowerStatus, SGXInitialise,
     SGXScheduleCCBCommand, HWRecoveryResetSGX
<1>2. Inv /\ PlaceOK(t) /\ CoreOK /\ ccb \in Seq(Commands)
  BY DEF CoreInv, HardwareInv, Inv, DataOK
<1>3. \A u \in Threads \ {t} : thread'[u] = thread[u] /\ thread[u].pc \notin UnderLock
  BY <1>1, <1>2, OthersStay DEF Inv, PowerExclusive
<1>4. thread[t] \in ThreadState /\ thread \in [Threads -> ThreadState] /\ WellFormed(thread[t])
  BY <1>2 DEF Inv, ThreadsOK
<1>5. thread[t].pc # "poll" => ~ Polling
  BY <1>3 DEF Polling
<1>6. ASSUME thread'[t].pc \notin {"on", "init"} PROVE StartsFromOff'
  BY <1>3, <1>6 DEF StartsFromOff
<1>7. CASE SendPowerOff(t)
  <2>1. thread'[t].pc = "poll" /\ thread[t].pc = "flush"
    BY <1>4, <1>7 DEF SendPowerOff, Goto, ThreadState
  <2>2. devPower = "ON" /\ devPower' = devPower /\ powerStatus' = powerStatus /\ UNCHANGED <<hung, hangs>>
    BY <1>2, <1>7, <2>1 DEF SendPowerOff, PlaceOK
  <2>3. Polling' /\ ~ Polling
    BY <1>5, <2>1 DEF Polling
  <2>4. \A i \in 1 .. Len(ccb) : ccb[i] # "POWEROFF"
    BY <1>2, <2>2, <2>3 DEF CoreOK, PowerOffLast
  <2>5. ccb' = Append(ccb, "POWEROFF")
    BY <1>7 DEF SendPowerOff
  <2>6. \A i \in 1 .. Len(ccb') : ccb'[i] = "POWEROFF" => i = Len(ccb')
    BY <1>2, <2>4, <2>5
  <2>7. "POWEROFF_COMPLETE" \notin powerStatus
    BY <1>2, <2>2, <2>3 DEF CoreOK, AnswerMeansEmpty
  <2>8. CoreOK'
    BY <1>2, <2>2, <2>3, <2>6, <2>7
       DEF CoreOK, PowerOffLast, AnswerMeansEmpty, HangsCounted, AsleepMeansEmpty
  <2> QED BY <1>6, <2>1, <2>8
<1>8. CASE DevicePowerOff(t)
  <2>1. thread[t].pc = "poll" /\ thread'[t].pc \notin {"on", "init"}
    BY <1>4, <1>8 DEF DevicePowerOff, Goto, ThreadState
  <2>2. devPower = "ON" /\ devPower' = "OFF" /\ UNCHANGED <<ccb, hung, hangs>>
        /\ ("POWEROFF_COMPLETE" \in powerStatus \/ hung)
    BY <1>2, <1>8, <2>1 DEF DevicePowerOff, PlaceOK
  <2>3. hangs = 0 => ccb = <<>>
    BY <1>2, <2>2 DEF CoreOK, AnswerMeansEmpty, HangsCounted
  <2>4. CoreOK'
    BY <1>2, <2>2, <2>3
       DEF CoreOK, PowerOffLast, AnswerMeansEmpty, HangsCounted, AsleepMeansEmpty
  <2> QED BY <1>6, <2>1, <2>4
<1>9. CASE ResetPowerStatus(t)
  <2>1. thread[t].pc = "on" /\ devPower = "OFF"
    BY <1>9 DEF ResetPowerStatus, CoreInv, StartsFromOff
  <2>2. powerStatus' = {} /\ UNCHANGED <<devPower, ccb, hung, hangs>>
    BY <1>9 DEF ResetPowerStatus
  <2>3. CoreOK'
    BY <1>2, <2>1, <2>2
       DEF CoreOK, PowerOffLast, AnswerMeansEmpty, HangsCounted, AsleepMeansEmpty
  <2>4. StartsFromOff'
    BY <1>3, <2>1, <2>2 DEF StartsFromOff
  <2> QED BY <2>3, <2>4
<1>10. StartMicrokernel => ccb' = <<>> /\ ~ hung'
  BY DEF StartMicrokernel
<1>11. CASE SGXInitialise(t)
  <2>1. thread[t].pc = "init" /\ thread'[t].pc = "submit" /\ "POWEROFF_COMPLETE" \notin powerStatus
    BY <1>4, <1>11 DEF SGXInitialise, Goto, ThreadState, CoreInv, StartsFromOff
  <2>2. devPower' = "ON" /\ powerStatus' = powerStatus /\ ccb' = <<>> /\ ~ hung'
    BY <1>10, <1>11 DEF SGXInitialise
  <2>3. CoreOK'
    BY <2>1, <2>2 DEF CoreOK, PowerOffLast, AnswerMeansEmpty, HangsCounted, AsleepMeansEmpty
  <2> QED BY <1>6, <2>1, <2>3
<1>12. CASE SGXScheduleCCBCommand(t)
  <2>1. thread[t].pc = "write" /\ thread'[t].pc = "unlock"
    BY <1>4, <1>12 DEF SGXScheduleCCBCommand, Goto, ThreadState
  <2>2. devPower = "ON" /\ devPower' = devPower /\ powerStatus' = powerStatus /\ UNCHANGED <<hung, hangs>>
    BY <1>2, <1>12, <2>1 DEF SGXScheduleCCBCommand, PlaceOK
  <2>3. thread[t].cmd # "POWEROFF"
    <3>1. thread[t].cmd \in Renders \cup {"none", "PROCESS_QUEUES"}
      BY <1>4 DEF ThreadState
    <3> QED BY <3>1, RendersAssumption
  <2>4. ~ Polling
    BY <1>5, <2>1
  <2>5. \A i \in 1 .. Len(ccb) : ccb[i] # "POWEROFF"
    BY <1>2, <2>2, <2>4 DEF CoreOK, PowerOffLast
  <2>6. ccb' = Append(ccb, thread[t].cmd)
    BY <1>12 DEF SGXScheduleCCBCommand
  <2>7. \A i \in 1 .. Len(ccb') : ccb'[i] # "POWEROFF"
    BY <1>2, <2>3, <2>5, <2>6
  <2>8. "POWEROFF_COMPLETE" \notin powerStatus
    BY <1>2, <2>2, <2>4 DEF CoreOK, AnswerMeansEmpty
  <2>9. CoreOK'
    BY <1>2, <2>2, <2>7, <2>8
       DEF CoreOK, PowerOffLast, AnswerMeansEmpty, HangsCounted, AsleepMeansEmpty
  <2> QED BY <1>6, <2>1, <2>9
<1>13. CASE HWRecoveryResetSGX(t)
  <2>1. thread[t].pc = "recover" /\ thread'[t].pc = "unlock"
    BY <1>4, <1>13 DEF HWRecoveryResetSGX, Goto, ThreadState
  <2>2. devPower' = devPower /\ powerStatus' = powerStatus /\ ccb' = <<>> /\ ~ hung'
    BY <1>10, <1>13 DEF HWRecoveryResetSGX
  <2>3. ~ Polling
    BY <1>5, <2>1
  <2>4. CoreOK'
    BY <1>2, <2>2, <2>3
       DEF CoreOK, PowerOffLast, AnswerMeansEmpty, HangsCounted, AsleepMeansEmpty
  <2> QED BY <1>6, <2>1, <2>4
<1> QED BY <1>7, <1>8, <1>9, <1>11, <1>12, <1>13

LEMMA CoreRequest ==
  ASSUME CoreInv, Request \/ PVRSRVMISR \/ SGXOSTimer \/ DriverResume
  PROVE  CoreOK' /\ StartsFromOff'
<1> USE DEF power, hostCtl, ukVars, bounds
<1>1. UNCHANGED <<devPower, ccb, powerStatus>>
  BY DEF Request, SGXDoKick, CommandComplete, DriverSuspend, UkHang,
     PVRSRVMISR, SGXOSTimer, DriverResume
<1>2. /\ thread \in [Threads -> ThreadState] /\ "timer" \in Threads
      /\ "bridge" \in Threads /\ "flip" \in Threads /\ "pm" \in Threads /\ "misr" \in Threads
  BY DEF CoreInv, HardwareInv, Inv, ThreadsOK, Threads
<1>3. CASE UkHang
  <2>1. UNCHANGED thread /\ hangs' = hangs + 1 /\ hangs \in Nat
    BY <1>3 DEF UkHang, CoreInv, HardwareInv, Inv, DataOK
  <2>2. CoreOK'
    BY <1>1, <2>1 DEF CoreInv, CoreOK, PowerOffLast, AnswerMeansEmpty, HangsCounted, AsleepMeansEmpty, Polling
  <2> QED BY <1>1, <2>1, <2>2 DEF CoreInv, StartsFromOff
<1>4. ASSUME NEW t \in Threads, NEW r, r.pc \notin UnderLock, thread[t] = Idle,
             thread' = [thread EXCEPT ![t] = r], UNCHANGED <<hung, hangs>>
      PROVE  CoreOK' /\ StartsFromOff'
  <2>1. thread'[t] = r /\ \A u \in Threads \ {t} : thread'[u] = thread[u]
    BY <1>2, <1>4
  <2>2. Polling => Polling'
    BY <1>4, <2>1 DEF Polling, Idle
  <2> QED BY <1>1, <1>4, <2>1, <2>2, CoreKept, StartsKept DEF CoreInv
<1>5. ASSUME NEW todo \in Seq(Stages) PROVE Run(todo).pc \notin UnderLock
  BY RunWellFormed
<1>6. /\ <<"kick", "misr">> \in Seq(Stages) /\ <<"suspend">> \in Seq(Stages)
      /\ <<"retry", "test", "retry">> \in Seq(Stages)
      /\ <<"recover", "retry", "test", "retry">> \in Seq(Stages)
      /\ <<"resume", "kick">> \in Seq(Stages) /\ <<"recover">> \in Seq(Stages)
  BY DEF Stages
<1>7. ASSUME NEW r \in Renders, SGXDoKick(r) PROVE CoreOK' /\ StartsFromOff'
  BY <1>2, <1>4, <1>7 DEF SGXDoKick
<1>8. ASSUME NEW r \in Renders, CommandComplete(r) PROVE CoreOK' /\ StartsFromOff'
  BY <1>2, <1>4, <1>5, <1>6, <1>8 DEF CommandComplete
<1>9. CASE DriverSuspend
  BY <1>2, <1>4, <1>5, <1>6, <1>9 DEF DriverSuspend
<1>10. CASE PVRSRVMISR
  BY <1>2, <1>4, <1>5, <1>6, <1>10 DEF PVRSRVMISR
<1>11. CASE SGXOSTimer
  BY <1>2, <1>4, <1>5, <1>6, <1>11 DEF SGXOSTimer
<1>12. CASE DriverResume
  BY <1>2, <1>4, <1>5, <1>6, <1>12 DEF DriverResume
<1> QED BY <1>3, <1>7, <1>8, <1>9, <1>10, <1>11, <1>12 DEF Request

LEMMA CoreMicrokernel ==
  ASSUME CoreInv, Microkernel \/ UkIdle
  PROVE  CoreOK' /\ StartsFromOff'
<1> USE DEF power, hostCtl, ukVars, bounds
<1>1. UNCHANGED <<thread, devPower, hung, hangs>> /\ devPower = "ON"
  BY DEF Microkernel, UkCommand, UkPowerOff, UkFinish, UkIdle, UkRuns
<1>2. Polling' <=> Polling
  BY <1>1 DEF Polling
<1>3. StartsFromOff'
  BY <1>1 DEF CoreInv, StartsFromOff
<1>4. CoreOK /\ ccb \in Seq(Commands)
  BY DEF CoreInv, HardwareInv, Inv, DataOK
<1>5. CASE UkCommand
  <2>1. ccb # <<>> /\ ccb' = Tail(ccb) /\ powerStatus' = powerStatus
    BY <1>5 DEF UkCommand
  <2>2. \A i \in 1 .. Len(ccb') : i + 1 \in 1 .. Len(ccb) /\ ccb'[i] = ccb[i + 1]
    BY <1>4, <2>1
  <2>3. Len(ccb') = Len(ccb) - 1
    BY <1>4, <2>1
  <2>4. \A i \in 1 .. Len(ccb') : ccb'[i] = "POWEROFF" => i = Len(ccb') /\ Polling
    BY <1>1, <1>4, <2>2, <2>3 DEF CoreOK, PowerOffLast
  <2>5. CoreOK'
    BY <1>1, <1>2, <1>4, <2>1, <2>4
       DEF CoreOK, PowerOffLast, AnswerMeansEmpty, HangsCounted, AsleepMeansEmpty
  <2> QED BY <1>3, <2>5
<1>6. CASE UkPowerOff
  <2>1. ccb # <<>> /\ Head(ccb) = "POWEROFF" /\ ccb' = Tail(ccb)
    BY <1>6 DEF UkPowerOff
  <2>2. 1 \in 1 .. Len(ccb) /\ ccb[1] = "POWEROFF"
    BY <1>4, <2>1
  <2>3. Len(ccb) = 1 /\ Polling
    BY <1>1, <1>4, <2>2 DEF CoreOK, PowerOffLast
  <2>4. ccb' = <<>>
    BY <1>4, <2>1, <2>3
  <2>5. CoreOK'
    BY <1>1, <1>2, <1>4, <2>3, <2>4
       DEF CoreOK, PowerOffLast, AnswerMeansEmpty, HangsCounted, AsleepMeansEmpty
  <2> QED BY <1>3, <2>5
<1>7. CASE (\E r \in Renders : UkFinish(r)) \/ UkIdle
  <2>1. UNCHANGED <<ccb, powerStatus>>
    BY <1>7 DEF UkFinish, UkIdle
  <2> QED BY <1>1, <1>2, <1>3, <1>4, <2>1, CoreKept
<1> QED BY <1>5, <1>6, <1>7 DEF Microkernel

LEMMA CoreNext == CoreInv /\ [Next]_vars => CoreInv'
<1> SUFFICES ASSUME CoreInv, [Next]_vars PROVE CoreOK' /\ StartsFromOff'
  BY HardwareNext DEF CoreInv
<1>1. CASE UNCHANGED vars
  BY <1>1, CoreKept DEF CoreInv, vars, Polling, StartsFromOff
<1>2. CASE Request \/ PVRSRVMISR \/ SGXOSTimer \/ DriverResume
  BY <1>2, CoreRequest
<1>3. ASSUME NEW t \in Threads, Step(t) PROVE CoreOK' /\ StartsFromOff'
  BY <1>3, CoreQuietStep, CoreLockedStep DEF Step
<1>4. CASE Microkernel \/ UkIdle
  BY <1>4, CoreMicrokernel
<1> QED BY <1>1, <1>2, <1>3, <1>4 DEF Next

(* SGX that is turned off has read every command of the kernel CCB, unless  *)
(* its microkernel ever hung: SGXPrePowerState's command is the last one    *)
(* and its answer is awaited under the power lock.                          *)
THEOREM AsleepEmpty == Spec => []AsleepMeansEmpty
<1>1. CoreInv => AsleepMeansEmpty
  BY DEF CoreInv, CoreOK
<1> QED BY <1>1, CoreInit, CoreNext, PTL DEF Spec

-----------------------------------------------------------------------------
(* Why no kick is lost.  A kick in a list counts until its command is in    *)
(* the CCB; after that the command does, until the microkernel reads it and *)
(* looks at its renders.  A power-off is a command after which it does not  *)
(* look again: what it had found ready then is what RESTART_IMMEDIATE says. *)
KickIn(q) == \E i \in 1 .. Len(q) : q[i] = "kick"

Plain(q) == \A i \in 1 .. Len(q) : q[i] \notin {"render", "suspend", "resume"}

(* Where a thread gives up all that it still had to do there is no kick, or *)
(* the system sleeps.                                                       *)
ListOK(t, q) ==
    /\ \A i \in 2 .. Len(q) : q[i] \notin {"render", "suspend", "resume"}
    /\ q # <<>> =>
          /\ Head(q) = "render" => ~ KickIn(q)
          /\ Head(q) = "suspend" => t = "pm" /\ ~ KickIn(q)
          /\ Head(q) = "resume" => t = "pm" /\ KickIn(q)

Lists == \A t \in Threads : ListOK(t, thread[t].todo)

ResumeAsleep == thread["pm"].pc \in {"lock", "system"} /\ Stage("pm") = "resume" => ~ sysPowered

(* What the status word says of the core that wrote it.                     *)
StatusOK ==
    /\ "NO_WORK" \in powerStatus => work = {} /\ ccb = <<>>
    /\ devPower = "ON" /\ powerStatus # {} => "POWEROFF_COMPLETE" \in powerStatus
    /\ "POWEROFF_COMPLETE" \in powerStatus /\ ready # {} => "RESTART_IMMEDIATE" \in powerStatus
    /\ \A t \in Threads : thread[t].pc = "init" => powerStatus = {}
    /\ devPower = "OFF" => ccb = <<>> \/ hung

ListKicks(r) == \E i \in 1 .. Len(r.todo) : r.todo[i] = "kick" /\ (i = 1 => r.pc # "unlock")

Kicks(t) ==
    \/ ListKicks(thread[t])
    \/ thread[t].pc \in {"on", "init", "submit", "write"}
    \/ thread[t].pc \in {"recover", "unlock"} /\ Stage(t) = "recover"
    \/ thread[t].pc \in {"poll", "unlock", "post"} /\ Stage(t) = "test"
       /\ "RESTART_IMMEDIATE" \in powerStatus

AllCovered ==
    \/ initFails > 0
    \/ devPower = "ON" /\ \E i \in 1 .. Len(ccb) : ccb[i] # "POWEROFF"
    \/ bReProcess
    \/ \E t \in Threads : Kicks(t)
    \/ ~ sysPowered
    \/ thread["pm"].pc = "system"
    \/ hung

Covered == \A r \in work \cap done : AllCovered \/ (devPower = "ON" /\ r \in ready)

KickInv == CoreInv /\ Lists /\ ResumeAsleep /\ StatusOK /\ Covered

(* Lists of stages.                                                         *)
LEMMA PlainList == ASSUME NEW t, NEW q \in Seq(Stages), Plain(q) PROVE ListOK(t, q)
<1>1. q # <<>> => Len(q) \in Nat /\ 1 \in 1 .. Len(q) /\ Head(q) = q[1]
  OBVIOUS
<1>2. \A i \in 2 .. Len(q) : i \in 1 .. Len(q)
  OBVIOUS
<1> QED BY <1>1, <1>2 DEF Plain, ListOK

LEMMA TailPlain ==
  ASSUME NEW t, NEW q \in Seq(Stages), q # <<>>, ListOK(t, q)
  PROVE  /\ Tail(q) \in Seq(Stages) /\ Plain(Tail(q))
         /\ \A i \in 2 .. Len(q) : i - 1 \in 1 .. Len(Tail(q)) /\ Tail(q)[i - 1] = q[i]
<1>1. /\ Tail(q) \in Seq(Stages) /\ Len(q) \in Nat /\ Len(Tail(q)) = Len(q) - 1
      /\ \A i \in 1 .. Len(q) - 1 : Tail(q)[i] = q[i + 1]
  OBVIOUS
<1>2. \A i \in 1 .. Len(q) - 1 : i + 1 \in 2 .. Len(q)
  BY <1>1
<1>3. \A i \in 2 .. Len(q) : i - 1 \in 1 .. Len(q) - 1 /\ (i - 1) + 1 = i
  BY <1>1
<1> QED BY <1>1, <1>2, <1>3 DEF Plain, ListOK

LEMMA MorePlain ==
  ASSUME NEW q \in Seq(Stages), Plain(q)
  PROVE  /\ <<"kick">> \o q \in Seq(Stages) /\ Plain(<<"kick">> \o q)
         /\ <<"kick", "retry">> \o q \in Seq(Stages) /\ Plain(<<"kick", "retry">> \o q)
         /\ 1 \in 1 .. Len(<<"kick">> \o q) /\ (<<"kick">> \o q)[1] = "kick"
         /\ 1 \in 1 .. Len(<<"kick", "retry">> \o q) /\ (<<"kick", "retry">> \o q)[1] = "kick"
<1>1. <<"kick">> \in Seq(Stages) /\ <<"kick", "retry">> \in Seq(Stages)
  BY DEF Stages
<1>2. Len(q) \in Nat /\ \A i \in 1 .. Len(q) : q[i] \notin {"render", "suspend", "resume"}
  BY DEF Plain
<1>3. /\ Len(<<"kick">> \o q) = 1 + Len(q) /\ (<<"kick">> \o q)[1] = "kick"
      /\ \A i \in 2 .. 1 + Len(q) : (<<"kick">> \o q)[i] = q[i - 1]
  BY <1>1
<1>4. /\ Len(<<"kick", "retry">> \o q) = 2 + Len(q) /\ (<<"kick", "retry">> \o q)[1] = "kick"
      /\ (<<"kick", "retry">> \o q)[2] = "retry"
      /\ \A i \in 3 .. 2 + Len(q) : (<<"kick", "retry">> \o q)[i] = q[i - 2]
  BY <1>1
<1>5. Plain(<<"kick">> \o q)
  <2> SUFFICES ASSUME NEW i \in 1 .. 1 + Len(q)
               PROVE  (<<"kick">> \o q)[i] \notin {"render", "suspend", "resume"}
    BY <1>3 DEF Plain
  <2>1. i = 1 \/ (i \in 2 .. 1 + Len(q) /\ i - 1 \in 1 .. Len(q))
    BY <1>2
  <2> QED BY <1>2, <1>3, <2>1
<1>6. Plain(<<"kick", "retry">> \o q)
  <2> SUFFICES ASSUME NEW i \in 1 .. 2 + Len(q)
               PROVE  (<<"kick", "retry">> \o q)[i] \notin {"render", "suspend", "resume"}
    BY <1>4 DEF Plain
  <2>1. i = 1 \/ i = 2 \/ (i \in 3 .. 2 + Len(q) /\ i - 2 \in 1 .. Len(q))
    BY <1>2
  <2> QED BY <1>2, <1>4, <2>1
<1>7. 1 \in 1 .. 1 + Len(q) /\ 1 \in 1 .. 2 + Len(q)
  BY <1>2
<1> QED BY <1>1, <1>3, <1>4, <1>5, <1>6, <1>7

(* A thread that goes on keeps its list.                                    *)
LEMMA GoesList ==
  ASSUME Inv, NEW t \in Threads, NEW pc, Goto(t, pc)
  PROVE  /\ thread'[t].pc = pc /\ thread'[t].todo = thread[t].todo /\ Stage(t)' = Stage(t)
         /\ \A u \in Threads \ {t} : thread'[u] = thread[u]
<1>1. thread[t] \in ThreadState /\ thread \in [Threads -> ThreadState]
  BY DEF Inv, ThreadsOK
<1>2. thread'[t].todo = thread[t].todo /\ thread'[t].pc = pc
  BY <1>1 DEF Goto, ThreadState
<1>3. \A u \in Threads \ {t} : thread'[u] = thread[u]
  BY <1>1 DEF Goto
<1> QED BY <1>2, <1>3 DEF Stage

(* A thread that ends its stage keeps the kicks that were still to come.    *)
LEMMA EndsList ==
  ASSUME Inv, Lists, NEW t \in Threads, thread[t].pc # "idle", StageDone(t)
  PROVE  /\ ListOK(t, thread'[t].todo) /\ Plain(thread'[t].todo)
         /\ ListKicks(thread[t]) /\ (Stage(t) = "kick" => thread[t].pc = "unlock") => Kicks(t)'
<1> DEFINE q == thread[t].todo
<1>1. q \in Seq(Stages) /\ q # <<>> /\ ListOK(t, q) /\ thread \in [Threads -> ThreadState]
  BY DEF Inv, ThreadsOK, WellFormed, ThreadState, Lists
<1>2. thread'[t] = Run(Tail(q))
  BY <1>1 DEF StageDone
<1>3. /\ Tail(q) \in Seq(Stages) /\ Plain(Tail(q))
      /\ \A i \in 2 .. Len(q) : i - 1 \in 1 .. Len(Tail(q)) /\ Tail(q)[i - 1] = q[i]
  BY <1>1, TailPlain
<1>4. Run(Tail(q)).todo = Tail(q) /\ Run(Tail(q)).pc \in {"idle", "begin", "lock"}
  BY <1>3, RunList, RunWellFormed
<1>5. ListOK(t, thread'[t].todo) /\ Plain(thread'[t].todo)
  BY <1>2, <1>3, <1>4, PlainList
<1>6. ASSUME ListKicks(thread[t]), Stage(t) = "kick" => thread[t].pc = "unlock" PROVE Kicks(t)'
  <2>1. PICK i \in 1 .. Len(q) : q[i] = "kick" /\ (i = 1 => thread[t].pc # "unlock")
    BY <1>6 DEF ListKicks
  <2>2. i # 1
    BY <1>1, <1>6, <2>1 DEF Stage
  <2>3. i \in 2 .. Len(q)
    BY <1>1, <2>2
  <2>4. i - 1 \in 1 .. Len(Tail(q)) /\ Tail(q)[i - 1] = "kick"
    BY <1>3, <2>1, <2>3
  <2> QED BY <1>2, <1>4, <2>4 DEF Kicks, ListKicks
<1> QED BY <1>5, <1>6

LEMMA ContinuesList ==
  ASSUME Inv, Lists, NEW t \in Threads, thread[t].pc # "idle",
         Continue(t, <<"kick">>) \/ Continue(t, <<"kick", "retry">>)
  PROVE  ListOK(t, thread'[t].todo) /\ Plain(thread'[t].todo) /\ Kicks(t)'
<1> DEFINE q == thread[t].todo
<1>1. q \in Seq(Stages) /\ q # <<>> /\ ListOK(t, q) /\ thread \in [Threads -> ThreadState]
  BY DEF Inv, ThreadsOK, WellFormed, ThreadState, Lists
<1>2. Tail(q) \in Seq(Stages) /\ Plain(Tail(q))
  BY <1>1, TailPlain
<1>3. PICK more \in {<<"kick">> \o Tail(q), <<"kick", "retry">> \o Tail(q)} : thread'[t] = Run(more)
  BY <1>1 DEF Continue
<1>4. more \in Seq(Stages) /\ Plain(more) /\ 1 \in 1 .. Len(more) /\ more[1] = "kick"
  BY <1>2, MorePlain
<1>5. Run(more).todo = more /\ Run(more).pc \in {"idle", "begin", "lock"}
  BY <1>4, RunList, RunWellFormed
<1> QED BY <1>3, <1>4, <1>5, PlainList DEF Kicks, ListKicks

LEMMA PlainHead ==
  ASSUME Inv', NEW t \in Threads, Plain(thread'[t].todo), thread'[t].pc # "idle"
  PROVE  Stage(t)' \notin {"render", "suspend", "resume"}
<1>1. thread'[t].todo # <<>> /\ thread'[t].todo \in Seq(Stages)
  BY DEF Inv, ThreadsOK, WellFormed, ThreadState
<1>2. 1 \in 1 .. Len(thread'[t].todo) /\ Stage(t)' = thread'[t].todo[1]
  BY <1>1 DEF Stage
<1> QED BY <1>2 DEF Plain

(* The lists that threads start with.                                       *)
LEMMA StartLists ==
  /\ \A t : ListOK(t, <<>>) /\ ListOK(t, <<"render", "test">>) /\ ListOK(t, <<"kick", "misr">>)
  /\ \A t : ListOK(t, <<"retry", "test", "retry">>) /\ ListOK(t, <<"recover">>)
  /\ \A t : ListOK(t, <<"recover", "retry", "test", "retry">>)
  /\ ListOK("pm", <<"suspend">>) /\ ListOK("pm", <<"resume", "kick">>)
<1>1. \A t : ListOK(t, <<>>)
  BY DEF ListOK
<1>2. \A t : ListOK(t, <<"render", "test">>)
  BY DEF ListOK, KickIn
<1>3. \A t : ListOK(t, <<"kick", "misr">>)
  BY DEF ListOK
<1>4. \A t : ListOK(t, <<"retry", "test", "retry">>)
  BY DEF ListOK
<1>5. \A t : ListOK(t, <<"recover">>) /\ ListOK(t, <<"recover", "retry", "test", "retry">>)
  BY DEF ListOK
<1>6. ListOK("pm", <<"suspend">>)
  BY DEF ListOK, KickIn
<1>7. ListOK("pm", <<"resume", "kick">>)
  <2>1. KickIn(<<"resume", "kick">>)
    <3>1. 2 \in 1 .. Len(<<"resume", "kick">>) /\ <<"resume", "kick">>[2] = "kick"
      OBVIOUS
    <3> QED BY <3>1 DEF KickIn
  <2> QED BY <2>1 DEF ListOK
<1> QED BY <1>1, <1>2, <1>3, <1>4, <1>5, <1>6, <1>7

LEMMA KickInit == Init => KickInv
<1> SUFFICES ASSUME Init PROVE KickInv
  OBVIOUS
<1>1. \A t \in Threads : thread[t] = Idle
  BY DEF Init
<1>2. Idle.pc = "idle" /\ Idle.todo = <<>> /\ "pm" \in Threads
  BY DEF Idle, Threads
<1>3. Lists
  BY <1>1, <1>2, StartLists DEF Lists
<1>4. ResumeAsleep /\ StatusOK
  BY <1>1, <1>2 DEF Init, ResumeAsleep, StatusOK
<1>5. Covered
  BY DEF Init, Covered
<1> QED BY <1>3, <1>4, <1>5, CoreInit DEF KickInv

(* What a step of a thread does to its list.                                *)
LEMMA ListsStep ==
  ASSUME Inv, Lists, NEW t \in Threads, Step(t)
  PROVE  Lists'
<1>1. thread[t].pc # "idle" /\ \A u \in Threads \ {t} : thread'[u] = thread[u]
  BY StepShape, OthersStay
<1>2. ListOK(t, thread'[t].todo)
  <2>1. CASE \E pc \in PCs : Goto(t, pc)
    <3>1. thread'[t].todo = thread[t].todo
      BY <2>1, GoesList
    <3> QED BY <3>1 DEF Lists
  <2>2. CASE StageDone(t)
    BY <1>1, <2>2, EndsList
  <2>3. CASE thread' = [thread EXCEPT ![t] = Idle]
    <3>1. thread'[t].todo = <<>>
      BY <2>3 DEF Idle, Inv, ThreadsOK
    <3> QED BY <3>1, StartLists
  <2>4. CASE Continue(t, <<"kick">>) \/ Continue(t, <<"kick", "retry">>)
    BY <1>1, <2>4, ContinuesList
  <2> QED BY <2>1, <2>2, <2>3, <2>4, StepShape
<1> QED BY <1>1, <1>2 DEF Lists

(* The system's power changes only at the end of a suspend or a resume, and *)
(* a resume begins with a system that sleeps.                               *)
LEMMA ResumeStep ==
  ASSUME CoreInv, Lists, ResumeAsleep, NEW t \in Threads, Step(t)
  PROVE  ResumeAsleep'
<1>1. Inv /\ Inv' /\ "pm" \in Threads
  BY NextInv DEF CoreInv, HardwareInv, Next, Threads
<1>2. thread[t].pc # "idle" /\ \A u \in Threads \ {t} : thread'[u] = thread[u]
  BY <1>1, StepShape, OthersStay
<1>3. Fits(thread[t].pc, Stage(t)) /\ thread[t].todo # <<>> /\ ListOK(t, thread[t].todo)
  BY <1>1, <1>2 DEF Inv, ThreadsOK, WellFormed, Stage, Lists
<1>4. CASE SystemPostPowerState(t)
  <2>1. Stage(t) \in {"suspend", "resume"}
    BY <1>3, <1>4 DEF SystemPostPowerState, Fits
  <2>2. t = "pm"
    BY <1>3, <2>1 DEF ListOK, Stage
  <2>3. thread'["pm"].pc = "unlock"
    BY <1>1, <1>4, <2>2, GoesList DEF SystemPostPowerState
  <2> QED BY <2>3 DEF ResumeAsleep
<1>5. CASE ~ SystemPostPowerState(t)
  <2>1. sysPowered' = sysPowered
    BY <1>5 DEF Step, SGXScheduleProcessQueuesKM, Retry, SGXTestActivePowerEvent,
       AcknowledgeActivePower, OSScheduleMISR, PowerLock, PowerLockRetry, PowerLockTimeout,
       OSDisableTimer, SendPowerOff, DevicePowerOff, ResetPowerStatus, SGXInitialise,
       SGXInitialiseTimeout, ClearReProcess, SGXScheduleCCBCommand, HWRecoveryResetSGX,
       PowerUnlock, SGXPostActivePowerEvent, power
  <2>2. CASE t # "pm"
    <3>1. thread'["pm"] = thread["pm"]
      BY <1>1, <1>2, <2>2
    <3> QED BY <2>1, <3>1 DEF ResumeAsleep, Stage
  <2>3. CASE t = "pm" /\ Plain(thread'[t].todo)
    BY <1>1, <2>3, PlainHead DEF ResumeAsleep
  <2>4. CASE t = "pm" /\ thread' = [thread EXCEPT ![t] = Idle]
    <3>1. thread'["pm"].pc = "idle"
      BY <1>1, <2>4 DEF Idle, Inv, ThreadsOK
    <3> QED BY <3>1 DEF ResumeAsleep
  <2>5. ASSUME t = "pm", NEW pc \in PCs, Goto(t, pc) PROVE ResumeAsleep'
    <3>1. thread'[t].pc = pc /\ Stage(t)' = Stage(t)
      BY <1>1, <2>5, GoesList
    <3>2. Stage(t) = "resume" /\ pc \in {"lock", "system"} => thread[t].pc \in {"lock", "system"}
      <4>1. CASE PowerLock(t) \/ PowerLockRetry(t) \/ PowerLockTimeout(t)
        BY <4>1 DEF PowerLock, PowerLockRetry, PowerLockTimeout
      <4>2. CASE \/ SGXScheduleProcessQueuesKM(t) \/ Retry(t) \/ SGXTestActivePowerEvent(t)
                 \/ AcknowledgeActivePower(t) \/ OSScheduleMISR(t) \/ SGXPostActivePowerEvent(t)
        BY <1>3, <4>2 DEF SGXScheduleProcessQueuesKM, Retry, SGXTestActivePowerEvent,
           AcknowledgeActivePower, OSScheduleMISR, SGXPostActivePowerEvent, Fits
      <4>3. CASE \/ OSDisableTimer(t) \/ SendPowerOff(t) \/ DevicePowerOff(t)
                 \/ ResetPowerStatus(t) \/ SGXInitialise(t) \/ SGXInitialiseTimeout(t)
                 \/ ClearReProcess(t) \/ SGXScheduleCCBCommand(t) \/ HWRecoveryResetSGX(t)
        BY <1>3, <4>3 DEF OSDisableTimer, SendPowerOff, DevicePowerOff, ResetPowerStatus,
           SGXInitialise, SGXInitialiseTimeout, ClearReProcess, SGXScheduleCCBCommand,
           HWRecoveryResetSGX, Fits
      <4>4. CASE PowerUnlock(t)
        <5> SUFFICES ASSUME Stage(t) = "resume", pc \in {"lock", "system"} PROVE FALSE
          OBVIOUS
        <5>1. StageDone(t)
          BY <4>4 DEF PowerUnlock
        <5>2. Plain(thread'[t].todo)
          BY <1>1, <1>2, <5>1, EndsList
        <5> QED BY <1>1, <3>1, <5>2, PlainHead
      <4> QED BY <1>5, <4>1, <4>2, <4>3, <4>4 DEF Step
    <3> QED BY <2>1, <2>5, <3>1, <3>2 DEF ResumeAsleep
  <2>6. StageDone(t) \/ Continue(t, <<"kick">>) \/ Continue(t, <<"kick", "retry">>)
        => Plain(thread'[t].todo)
    BY <1>1, <1>2, EndsList, ContinuesList
  <2> QED BY <1>1, <2>2, <2>3, <2>4, <2>5, <2>6, StepShape
<1> QED BY <1>4, <1>5

(* What starts a thread.                                                    *)
LEMMA ListsStart ==
  ASSUME CoreInv, Lists, ResumeAsleep, Request \/ PVRSRVMISR \/ SGXOSTimer \/ DriverResume
  PROVE  Lists' /\ ResumeAsleep'
<1>1. /\ thread \in [Threads -> ThreadState] /\ "timer" \in Threads
      /\ "bridge" \in Threads /\ "flip" \in Threads /\ "pm" \in Threads /\ "misr" \in Threads
  BY DEF CoreInv, HardwareInv, Inv, ThreadsOK, Threads
<1>2. sysPowered' = sysPowered
  BY DEF Request, SGXDoKick, CommandComplete, DriverSuspend, UkHang,
     PVRSRVMISR, SGXOSTimer, DriverResume, power
<1>3. ASSUME NEW t \in Threads, NEW r, ListOK(t, r.todo), thread' = [thread EXCEPT ![t] = r],
             t = "pm" => (r.todo # <<>> /\ Head(r.todo) = "resume" => ~ sysPowered)
      PROVE  Lists' /\ ResumeAsleep'
  <2>1. thread'[t] = r /\ \A u \in Threads \ {t} : thread'[u] = thread[u]
    BY <1>1, <1>3
  <2>2. Lists'
    BY <1>3, <2>1 DEF Lists
  <2>3. ResumeAsleep'
    <3>1. CASE t = "pm" /\ r.todo # <<>>
      BY <1>2, <1>3, <2>1, <3>1 DEF ResumeAsleep, Stage
    <3>2. CASE t # "pm"
      BY <1>1, <1>2, <2>1, <3>2 DEF ResumeAsleep, Stage
    <3>3. CASE t = "pm" /\ r.todo = <<>>
      <4>1. thread'["pm"].todo = <<>> /\ Inv'
        BY <2>1, <3>3, HardwareRequest DEF CoreInv, HardwareInv
      <4>2. thread'["pm"].pc = "idle"
        BY <1>1, <4>1 DEF Inv, ThreadsOK, WellFormed
      <4> QED BY <4>2 DEF ResumeAsleep
    <3> QED BY <3>1, <3>2, <3>3
  <2> QED BY <2>2, <2>3
<1>4. /\ <<"kick", "misr">> \in Seq(Stages) /\ <<"suspend">> \in Seq(Stages)
      /\ <<"retry", "test", "retry">> \in Seq(Stages)
      /\ <<"recover", "retry", "test", "retry">> \in Seq(Stages)
      /\ <<"resume", "kick">> \in Seq(Stages) /\ <<"recover">> \in Seq(Stages)
      /\ <<"render", "test">> \in Seq(Stages)
  BY DEF Stages
<1>5. ASSUME NEW r \in Renders, SGXDoKick(r) PROVE Lists' /\ ResumeAsleep'
  BY <1>1, <1>3, <1>5, StartLists DEF SGXDoKick
<1>6. ASSUME NEW r \in Renders, CommandComplete(r) PROVE Lists' /\ ResumeAsleep'
  <2>1. Run(<<"kick", "misr">>).todo = <<"kick", "misr">>
    BY <1>4, RunList
  <2>2. thread' = [thread EXCEPT !["flip"] = Run(<<"kick", "misr">>)]
    BY <1>6 DEF CommandComplete
  <2>3. ListOK("flip", <<"kick", "misr">>)
    BY StartLists
  <2> QED BY <1>1, <1>3, <2>1, <2>2, <2>3
<1>7. CASE DriverSuspend
  <2>1. Run(<<"suspend">>).todo = <<"suspend">>
    BY <1>4, RunList
  <2>2. Head(<<"suspend">>) = "suspend"
    OBVIOUS
  <2> QED BY <1>1, <1>3, <1>7, <2>1, <2>2, StartLists DEF DriverSuspend
<1>8. CASE UkHang
  <2>1. UNCHANGED thread
    BY <1>8 DEF UkHang
  <2> QED BY <1>2, <2>1 DEF Lists, ResumeAsleep, Stage
<1>9. CASE PVRSRVMISR
  <2>1. /\ Run(<<"retry", "test", "retry">>).todo = <<"retry", "test", "retry">>
        /\ Run(<<"recover", "retry", "test", "retry">>).todo = <<"recover", "retry", "test", "retry">>
    BY <1>4, RunList
  <2>2. \/ thread' = [thread EXCEPT !["misr"] = Run(<<"retry", "test", "retry">>)]
        \/ thread' = [thread EXCEPT !["misr"] = Run(<<"recover", "retry", "test", "retry">>)]
    BY <1>9 DEF PVRSRVMISR
  <2>3. /\ ListOK("misr", <<"retry", "test", "retry">>)
        /\ ListOK("misr", <<"recover", "retry", "test", "retry">>)
    BY StartLists
  <2> QED BY <1>1, <1>3, <2>1, <2>2, <2>3
<1>10. CASE SGXOSTimer
  <2>1. Run(<<"recover">>).todo = <<"recover">>
    BY <1>4, RunList
  <2>2. thread' = [thread EXCEPT !["timer"] = Run(<<"recover">>)]
    BY <1>10 DEF SGXOSTimer
  <2>3. ListOK("timer", <<"recover">>)
    BY StartLists
  <2> QED BY <1>1, <1>3, <2>1, <2>2, <2>3
<1>11. CASE DriverResume
  <2>1. Run(<<"resume", "kick">>).todo = <<"resume", "kick">>
    BY <1>4, RunList
  <2>2. ~ sysPowered /\ thread' = [thread EXCEPT !["pm"] = Run(<<"resume", "kick">>)]
    BY <1>11 DEF DriverResume
  <2> QED BY <1>1, <1>3, <2>1, <2>2, StartLists
<1> QED BY <1>5, <1>6, <1>7, <1>8, <1>9, <1>10, <1>11 DEF Request

(* Only a thread that has reset the status comes to start the microkernel.  *)
LEMMA NoInit ==
  ASSUME Inv, NEW t \in Threads, Step(t), ~ ResetPowerStatus(t)
  PROVE  thread'[t].pc # "init"
<1>1. thread[t].pc # "idle" /\ (thread[t].pc # "idle" => Fits(thread[t].pc, Stage(t)))
  BY StepShape DEF Inv, ThreadsOK, WellFormed, Stage
<1>2. \A pc : Goto(t, pc) => thread'[t].pc = pc
  BY GoesList
<1>3. <<"kick">> \in Seq(Stages) /\ <<"kick", "retry">> \in Seq(Stages)
  BY DEF Stages
<1>4. \/ StageDone(t) \/ thread' = [thread EXCEPT ![t] = Idle]
      \/ Continue(t, <<"kick">>) \/ Continue(t, <<"kick", "retry">>)
      => thread'[t].pc # "init"
  BY <1>1, <1>3, Leaves DEF Inv
<1>5. CASE \/ SGXScheduleProcessQueuesKM(t) \/ Retry(t) \/ SGXTestActivePowerEvent(t)
           \/ AcknowledgeActivePower(t) \/ OSScheduleMISR(t)
  BY <1>2, <1>4, <1>5 DEF SGXScheduleProcessQueuesKM, Retry, SGXTestActivePowerEvent,
              AcknowledgeActivePower, OSScheduleMISR
<1>6. CASE PowerLockRetry(t) \/ PowerLockTimeout(t) \/ SGXInitialiseTimeout(t)
  BY <1>4, <1>6 DEF PowerLockRetry, PowerLockTimeout, SGXInitialiseTimeout, GiveUp
<1>7. CASE SGXPostActivePowerEvent(t) \/ PowerUnlock(t)
  BY <1>2, <1>4, <1>7 DEF SGXPostActivePowerEvent, PowerUnlock
<1>8. CASE PowerLock(t)
  <2>1. Locked(t) # "init"
    BY <1>1, <1>8 DEF PowerLock, Locked, Fits
  <2> QED BY <1>2, <1>8, <2>1 DEF PowerLock
<1>9. CASE \/ OSDisableTimer(t) \/ SendPowerOff(t) \/ DevicePowerOff(t)
           \/ SGXInitialise(t) \/ ClearReProcess(t)
           \/ SGXScheduleCCBCommand(t) \/ SystemPostPowerState(t) \/ HWRecoveryResetSGX(t)
  BY <1>2, <1>9 DEF OSDisableTimer, SendPowerOff, DevicePowerOff, SGXInitialise,
              ClearReProcess, SGXScheduleCCBCommand, SystemPostPowerState, HWRecoveryResetSGX
<1> QED BY <1>5, <1>6, <1>7, <1>8, <1>9 DEF Step

(* What the status says stays true.                                         *)
LEMMA StatusKept ==
  ASSUME StatusOK, UNCHANGED <<devPower, ccb, powerStatus, work, ready>>, hung => hung',
         \A t \in Threads : thread'[t].pc = "init" => thread[t].pc = "init"
  PROVE  StatusOK'
BY DEF StatusOK

(* As long as no thread waits for the answer to a power-off, the status of  *)
(* a core that is on is empty.                                              *)
LEMMA StatusEmpty ==
  ASSUME CoreInv, StatusOK, devPower = "ON", ~ Polling \/ ccb # <<>> \/ "POWEROFF_COMPLETE" \notin powerStatus
  PROVE  powerStatus = {}
BY DEF StatusOK, CoreInv, CoreOK, AnswerMeansEmpty

LEMMA StatusStep ==
  ASSUME CoreInv, StatusOK, NEW t \in Threads, Step(t)
  PROVE  StatusOK'
<1> USE DEF power, hostCtl, ukVars, bounds
<1>1. Inv /\ \A u \in Threads \ {t} : thread'[u] = thread[u]
  BY OthersStay DEF CoreInv, HardwareInv
<1>2. ~ ResetPowerStatus(t) => \A u \in Threads : thread'[u].pc = "init" => thread[u].pc = "init"
  BY <1>1, NoInit
<1>3. thread[t].pc \in UnderLock /\ thread[t].pc # "poll" => ~ Polling
  BY <1>1 DEF Polling, Inv, PowerExclusive
<1>4. PlaceOK(t) /\ StartsFromOff /\ CoreOK
  BY DEF CoreInv, HardwareInv
<1>5. CASE \/ SGXScheduleProcessQueuesKM(t) \/ Retry(t) \/ SGXTestActivePowerEvent(t)
           \/ AcknowledgeActivePower(t) \/ OSScheduleMISR(t)
           \/ PowerLock(t) \/ PowerLockRetry(t) \/ PowerLockTimeout(t)
           \/ SGXPostActivePowerEvent(t) \/ PowerUnlock(t) \/ SGXInitialiseTimeout(t)
           \/ OSDisableTimer(t) \/ ClearReProcess(t) \/ SystemPostPowerState(t)
  <2>1. UNCHANGED <<devPower, ccb, powerStatus, work, ready, hung>>
    BY <1>5 DEF SGXScheduleProcessQueuesKM, Retry, SGXTestActivePowerEvent, AcknowledgeActivePower,
       OSScheduleMISR, PowerLock, PowerLockRetry, PowerLockTimeout, OSDisableTimer,
       SGXInitialiseTimeout, ClearReProcess, SystemPostPowerState, PowerUnlock,
       SGXPostActivePowerEvent
  <2>2. ~ ResetPowerStatus(t) \/ powerStatus' = {}
    BY DEF ResetPowerStatus
  <2>3. CASE ~ ResetPowerStatus(t)
    BY <1>2, <2>1, <2>3, StatusKept
  <2>4. CASE powerStatus' = {}
    BY <2>1, <2>4 DEF StatusOK
  <2> QED BY <2>2, <2>3, <2>4
<1>6. CASE ResetPowerStatus(t)
  <2>1. powerStatus' = {} /\ UNCHANGED <<devPower, ccb, hung>>
    BY <1>6 DEF ResetPowerStatus
  <2> QED BY <2>1 DEF StatusOK
<1>7. CASE SendPowerOff(t) \/ SGXScheduleCCBCommand(t)
  <2>1. devPower = "ON" /\ ~ Polling /\ UNCHANGED <<devPower, powerStatus>>
    BY <1>3, <1>4, <1>7 DEF SendPowerOff, SGXScheduleCCBCommand, PlaceOK
  <2>2. powerStatus = {}
    BY <2>1, StatusEmpty
  <2> QED BY <2>1, <2>2 DEF StatusOK
<1>8. CASE DevicePowerOff(t)
  <2>1. /\ thread[t].pc = "poll" /\ devPower' = "OFF" /\ UNCHANGED <<ccb, powerStatus, work, ready, hung>>
        /\ ("POWEROFF_COMPLETE" \in powerStatus \/ hung)
    BY <1>8 DEF DevicePowerOff
  <2>2. ccb = <<>> \/ hung
    BY <1>4, <2>1 DEF PlaceOK, CoreOK, AnswerMeansEmpty
  <2>3. \A u \in Threads : thread'[u].pc = "init" => thread[u].pc = "init"
    BY <1>2, <2>1 DEF ResetPowerStatus
  <2> QED BY <2>1, <2>2, <2>3 DEF StatusOK
<1>9. CASE SGXInitialise(t)
  <2>1. thread[t].pc = "init" /\ devPower' = "ON" /\ powerStatus' = powerStatus
    BY <1>9 DEF SGXInitialise
  <2>2. powerStatus = {}
    BY <2>1 DEF StatusOK
  <2> QED BY <2>1, <2>2 DEF StatusOK
<1>10. CASE HWRecoveryResetSGX(t)
  <2>1. thread[t].pc = "recover" /\ UNCHANGED <<devPower, powerStatus, ready>> /\ StartMicrokernel
    BY <1>10 DEF HWRecoveryResetSGX
  <2>2. ccb' = <<>> /\ work' = work \cup ({ccb[i] : i \in DOMAIN ccb} \cap Renders)
    BY <2>1 DEF StartMicrokernel
  <2>3. "NO_WORK" \in powerStatus => work' = {}
    BY <2>2 DEF StatusOK
  <2>4. \A u \in Threads : thread'[u].pc = "init" => thread[u].pc = "init"
    BY <1>2, <2>1 DEF ResetPowerStatus
  <2> QED BY <2>1, <2>2, <2>3, <2>4 DEF StatusOK
<1> QED BY <1>5, <1>6, <1>7, <1>8, <1>9, <1>10 DEF Step

LEMMA StatusStart ==
  ASSUME CoreInv, StatusOK, Request \/ PVRSRVMISR \/ SGXOSTimer \/ DriverResume
  PROVE  StatusOK'
<1> USE DEF power, hostCtl, ukVars, bounds
<1>1. UNCHANGED <<devPower, ccb, powerStatus, work, ready>>
  BY DEF Request, SGXDoKick, CommandComplete, DriverSuspend, UkHang,
     PVRSRVMISR, SGXOSTimer, DriverResume
<1>2. UkHang \/ hung' = hung
  BY DEF Request, SGXDoKick, CommandComplete, DriverSuspend,
     PVRSRVMISR, SGXOSTimer, DriverResume
<1>3. hung => hung'
  <2>1. UkHang => hung'
    BY DEF UkHang
  <2>2. hung' = hung => (hung => hung')
    BY Zenon
  <2> QED BY <1>2, <2>1, <2>2, Zenon
<1>4. UNCHANGED <<devPower, ccb, powerStatus, work, ready>> /\ (hung => hung')
  BY <1>1, <1>3
<1>5. /\ thread \in [Threads -> ThreadState] /\ "timer" \in Threads
      /\ "bridge" \in Threads /\ "flip" \in Threads /\ "pm" \in Threads /\ "misr" \in Threads
  BY DEF CoreInv, HardwareInv, Inv, ThreadsOK, Threads
<1>6. ASSUME NEW t \in Threads, NEW r, r.pc # "init", thread' = [thread EXCEPT ![t] = r]
      PROVE  StatusOK'
  BY <1>4, <1>5, <1>6, StatusKept
<1>7. ASSUME NEW todo \in Seq(Stages) PROVE Run(todo).pc # "init"
  BY RunWellFormed
<1>8. /\ <<"kick", "misr">> \in Seq(Stages) /\ <<"suspend">> \in Seq(Stages)
      /\ <<"retry", "test", "retry">> \in Seq(Stages)
      /\ <<"recover", "retry", "test", "retry">> \in Seq(Stages)
      /\ <<"resume", "kick">> \in Seq(Stages) /\ <<"recover">> \in Seq(Stages)
  BY DEF Stages
<1>9. ASSUME NEW r \in Renders, SGXDoKick(r) PROVE StatusOK'
  <2>1. thread' = [thread EXCEPT !["bridge"] = [pc |-> "lock", todo |-> <<"render", "test">>, cmd |-> r]]
    BY <1>9 DEF SGXDoKick
  <2>2. [pc |-> "lock", todo |-> <<"render", "test">>, cmd |-> r].pc # "init"
    OBVIOUS
  <2> QED BY <1>5, <1>6, <2>1, <2>2
<1>10. ASSUME NEW r \in Renders, CommandComplete(r) PROVE StatusOK'
  <2>1. thread' = [thread EXCEPT !["flip"] = Run(<<"kick", "misr">>)]
    BY <1>10 DEF CommandComplete
  <2>2. Run(<<"kick", "misr">>).pc # "init"
    BY <1>7, <1>8
  <2> QED BY <1>5, <1>6, <2>1, <2>2
<1>11. CASE DriverSuspend
  <2>1. thread' = [thread EXCEPT !["pm"] = Run(<<"suspend">>)]
    BY <1>11 DEF DriverSuspend
  <2>2. Run(<<"suspend">>).pc # "init"
    BY <1>7, <1>8
  <2> QED BY <1>5, <1>6, <2>1, <2>2
<1>12. CASE UkHang
  <2>1. UNCHANGED thread
    BY <1>12 DEF UkHang
  <2> QED BY <1>4, <2>1, StatusKept
<1>13. CASE PVRSRVMISR
  BY <1>5, <1>6, <1>7, <1>8, <1>13 DEF PVRSRVMISR
<1>14. CASE SGXOSTimer
  <2>1. thread' = [thread EXCEPT !["timer"] = Run(<<"recover">>)]
    BY <1>14 DEF SGXOSTimer
  <2>2. Run(<<"recover">>).pc # "init"
    BY <1>7, <1>8
  <2> QED BY <1>5, <1>6, <2>1, <2>2
<1>15. CASE DriverResume
  <2>1. thread' = [thread EXCEPT !["pm"] = Run(<<"resume", "kick">>)]
    BY <1>15 DEF DriverResume
  <2>2. Run(<<"resume", "kick">>).pc # "init"
    BY <1>7, <1>8
  <2> QED BY <1>5, <1>6, <2>1, <2>2
<1> QED BY <1>9, <1>10, <1>11, <1>12, <1>13, <1>14, <1>15 DEF Request

LEMMA StatusMicrokernel ==
  ASSUME CoreInv, StatusOK, Microkernel \/ UkIdle
  PROVE  StatusOK'
<1> USE DEF power, hostCtl, ukVars, bounds
<1>1. UNCHANGED <<thread, devPower>> /\ devPower = "ON"
  BY DEF Microkernel, UkCommand, UkPowerOff, UkFinish, UkIdle, UkRuns
<1>2. CoreOK /\ ccb \in Seq(Commands) /\ StartsFromOff
  BY DEF CoreInv, HardwareInv, Inv, DataOK
<1>3. \A t \in Threads : thread'[t].pc # "init"
  BY <1>1, <1>2 DEF StartsFromOff
<1>4. CASE UkCommand \/ \E r \in Renders : UkFinish(r)
  <2>1. powerStatus' = powerStatus /\ (ccb # <<>> \/ "POWEROFF_COMPLETE" \notin powerStatus)
    BY <1>4 DEF UkCommand, UkFinish
  <2>2. powerStatus = {}
    BY <1>1, <2>1, StatusEmpty
  <2> QED BY <1>1, <1>3, <2>1, <2>2 DEF StatusOK
<1>5. CASE UkPowerOff
  <2>1. ccb # <<>> /\ Head(ccb) = "POWEROFF" /\ ccb' = Tail(ccb) /\ UNCHANGED <<work, ready>>
    BY <1>5 DEF UkPowerOff
  <2>2. 1 \in 1 .. Len(ccb) /\ ccb[1] = "POWEROFF"
    BY <1>2, <2>1
  <2>3. Len(ccb) = 1
    BY <1>1, <1>2, <2>2 DEF CoreOK, PowerOffLast
  <2>4. ccb' = <<>>
    BY <1>2, <2>1, <2>3
  <2>5. powerStatus' = {"POWEROFF_COMPLETE"}
                      \cup (IF ready # {} THEN {"RESTART_IMMEDIATE"} ELSE {})
                      \cup (IF work = {} THEN {"NO_WORK"} ELSE {})
    BY <1>5 DEF UkPowerOff
  <2> QED BY <1>1, <1>3, <2>1, <2>4, <2>5 DEF StatusOK
<1>6. CASE UkIdle
  <2>1. UNCHANGED <<thread, devPower, ccb, powerStatus, work, ready, hung>>
    BY <1>6 DEF UkIdle
  <2> QED BY <2>1, StatusKept
<1> QED BY <1>4, <1>5, <1>6 DEF Microkernel

(* A step of one thread: each reason to be covered has to lead to another.  *)
LEMMA CoveredBy ==
  ASSUME Covered, NEW t \in Threads, \A u \in Threads \ {t} : thread'[u] = thread[u],
         UNCHANGED <<work, ready, done, powerStatus>>,
         initFails > 0 => AllCovered',
         devPower = "ON" /\ (\E i \in 1 .. Len(ccb) : ccb[i] # "POWEROFF") => AllCovered',
         bReProcess => AllCovered',
         Kicks(t) => AllCovered',
         ~ sysPowered => AllCovered',
         t = "pm" /\ thread["pm"].pc = "system" => AllCovered',
         hung => AllCovered',
         devPower = "ON" /\ ready # {} => devPower' = "ON" \/ AllCovered'
  PROVE  Covered'
<1>1. ASSUME NEW u \in Threads, Kicks(u) PROVE AllCovered'
  <2>1. CASE u = t
    BY <1>1, <2>1
  <2>2. CASE u # t
    <3>1. thread'[u] = thread[u] /\ Stage(u)' = Stage(u)
      BY <2>2 DEF Stage
    <3>2. Kicks(u)'
      BY <1>1, <3>1 DEF Kicks, ListKicks
    <3> QED BY <3>2 DEF AllCovered
  <2> QED BY <2>1, <2>2
<1>2. thread["pm"].pc = "system" => AllCovered'
  <2>1. t # "pm" => thread'["pm"] = thread["pm"]
    BY DEF Threads
  <2> QED BY <2>1 DEF AllCovered
<1>3. AllCovered => AllCovered'
  BY <1>1, <1>2 DEF AllCovered
<1> QED BY <1>3 DEF Covered

LEMMA CoveredKept ==
  ASSUME Covered, NEW t \in Threads, \A u \in Threads \ {t} : thread'[u] = thread[u],
         UNCHANGED <<work, ready, done, powerStatus, sysPowered, devPower, ccb, hung, initFails>>,
         bReProcess => bReProcess',
         Kicks(t) => AllCovered',
         t = "pm" => thread[t].pc # "system"
  PROVE  Covered'
<1>1. /\ initFails > 0 => AllCovered'
      /\ devPower = "ON" /\ (\E i \in 1 .. Len(ccb) : ccb[i] # "POWEROFF") => AllCovered'
      /\ bReProcess => AllCovered'
      /\ ~ sysPowered => AllCovered'
      /\ hung => AllCovered'
  BY DEF AllCovered
<1> QED BY <1>1, CoveredBy

(* A kick in the list of a thread that goes on.                             *)
LEMMA GoesKicks ==
  ASSUME Inv, NEW t \in Threads, NEW pc, Goto(t, pc), ListKicks(thread[t]),
         pc = "unlock" => Stage(t) # "kick"
  PROVE  Kicks(t)'
<1>1. thread'[t].pc = pc /\ thread'[t].todo = thread[t].todo
  BY GoesList
<1>2. PICK i \in 1 .. Len(thread[t].todo) : thread[t].todo[i] = "kick"
  BY DEF ListKicks
<1>3. i = 1 => Stage(t) = "kick"
  <2>1. thread[t].todo \in Seq(Stages)
    BY DEF Inv, ThreadsOK, ThreadState
  <2>2. thread[t].todo # <<>> => Head(thread[t].todo) = thread[t].todo[1]
    BY <2>1
  <2>3. thread[t].todo # <<>>
    BY <1>2, <2>1
  <2> QED BY <1>2, <2>2, <2>3 DEF Stage
<1> QED BY <1>1, <1>2, <1>3 DEF Kicks, ListKicks

LEMMA NoKick ==
  ASSUME Inv, Lists, NEW t \in Threads, thread[t].todo # <<>>, Stage(t) \in {"render", "suspend"}
  PROVE  ~ ListKicks(thread[t])
BY DEF Lists, ListOK, KickIn, ListKicks, Stage

(* Steps before the lock and after it.                                      *)
LEMMA CoveredOutside ==
  ASSUME KickInv, NEW t \in Threads,
         \/ SGXScheduleProcessQueuesKM(t) \/ Retry(t) \/ SGXTestActivePowerEvent(t)
         \/ AcknowledgeActivePower(t) \/ OSScheduleMISR(t)
         \/ PowerLock(t) \/ PowerLockRetry(t) \/ PowerLockTimeout(t)
         \/ SGXPostActivePowerEvent(t) \/ PowerUnlock(t) \/ OSDisableTimer(t)
  PROVE  Covered'
<1> USE DEF power, hostCtl, ukVars, bounds, requests
<1>1. Step(t) /\ Inv /\ Lists /\ ResumeAsleep /\ StatusOK /\ Covered
  BY DEF Step, KickInv, CoreInv, HardwareInv
<1>2. thread[t].pc # "idle" /\ \A u \in Threads \ {t} : thread'[u] = thread[u]
  BY <1>1, StepShape, OthersStay
<1>3. Fits(thread[t].pc, Stage(t)) /\ thread[t].todo # <<>> /\ ListOK(t, thread[t].todo)
  BY <1>1, <1>2 DEF Inv, ThreadsOK, WellFormed, Stage, Lists
<1>4. UNCHANGED <<work, ready, done, powerStatus, sysPowered, devPower, ccb, hung, initFails>>
  BY DEF SGXScheduleProcessQueuesKM, Retry, SGXTestActivePowerEvent, AcknowledgeActivePower,
     OSScheduleMISR, PowerLock, PowerLockRetry, PowerLockTimeout, OSDisableTimer,
     PowerUnlock, SGXPostActivePowerEvent
<1>5. thread[t].pc # "system"
  BY DEF SGXScheduleProcessQueuesKM, Retry, SGXTestActivePowerEvent, AcknowledgeActivePower,
     OSScheduleMISR, PowerLock, PowerLockRetry, PowerLockTimeout, OSDisableTimer,
     PowerUnlock, SGXPostActivePowerEvent
<1>6. bReProcess => bReProcess'
  <2>1. bReProcess' = bReProcess \/ bReProcess' = TRUE
    BY DEF SGXScheduleProcessQueuesKM, Retry, SGXTestActivePowerEvent, AcknowledgeActivePower,
       OSScheduleMISR, PowerLock, PowerLockRetry, PowerLockTimeout, OSDisableTimer, GiveUp,
       PowerUnlock, SGXPostActivePowerEvent
  <2> QED BY <2>1, Zenon
<1>7. ASSUME Kicks(t) => AllCovered' PROVE Covered'
  BY <1>1, <1>2, <1>4, <1>5, <1>6, <1>7, CoveredKept
<1>8. Kicks(t)' => AllCovered'
  BY DEF AllCovered
<1>9. ASSUME Kicks(t), thread[t].pc \notin {"unlock", "post"} PROVE ListKicks(thread[t])
  <2>1. thread[t].pc \notin {"on", "init", "submit", "write", "recover", "poll"}
    BY DEF SGXScheduleProcessQueuesKM, Retry, SGXTestActivePowerEvent, AcknowledgeActivePower,
       OSScheduleMISR, PowerLock, PowerLockRetry, PowerLockTimeout, OSDisableTimer,
       PowerUnlock, SGXPostActivePowerEvent
  <2> QED BY <1>9, <2>1 DEF Kicks
<1>10. StageDone(t) /\ ListKicks(thread[t]) /\ (Stage(t) = "kick" => thread[t].pc = "unlock") => Kicks(t)'
  BY <1>1, <1>2, EndsList
<1>11. \A pc : Goto(t, pc) /\ ListKicks(thread[t]) /\ (pc = "unlock" => Stage(t) # "kick") => Kicks(t)'
  BY <1>1, GoesKicks
<1>12. Continue(t, <<"kick">>) \/ Continue(t, <<"kick", "retry">>) => Kicks(t)'
  BY <1>1, <1>2, ContinuesList
<1>13. CASE SGXScheduleProcessQueuesKM(t)
  <2>1. CASE "NO_WORK" \in powerStatus
    BY <1>1, <1>4, <2>1 DEF StatusOK, Covered
  <2>2. CASE "NO_WORK" \notin powerStatus
    <3>1. Goto(t, "lock") /\ thread[t].pc = "begin"
      BY <1>13, <2>2 DEF SGXScheduleProcessQueuesKM
    <3> QED BY <1>7, <1>8, <1>9, <1>11, <3>1
  <2> QED BY <2>1, <2>2
<1>14. CASE Retry(t) \/ SGXTestActivePowerEvent(t) \/ OSScheduleMISR(t) \/ AcknowledgeActivePower(t)
  <2>1. /\ thread[t].pc \in {"begin", "ack"}
        /\ \/ StageDone(t) /\ Stage(t) # "kick"
           \/ Goto(t, "ack") \/ Goto(t, "lock")
           \/ Continue(t, <<"kick">>)
    BY <1>14 DEF Retry, SGXTestActivePowerEvent, OSScheduleMISR, AcknowledgeActivePower
  <2> QED BY <1>7, <1>8, <1>9, <1>10, <1>11, <1>12, <2>1
<1>15. CASE PowerLock(t) \/ OSDisableTimer(t)
  <2>1. thread[t].pc \in {"lock", "disable"} /\ \E pc : Goto(t, pc) /\ (pc = "unlock" => Stage(t) # "kick")
    <3>1. Locked(t) = "unlock" /\ thread[t].pc = "lock" => Stage(t) # "kick"
      BY <1>3 DEF Locked, Fits
    <3> QED BY <1>15, <3>1 DEF PowerLock, OSDisableTimer
  <2> QED BY <1>7, <1>8, <1>9, <1>11, <2>1
<1>16. ASSUME thread[t].pc = "lock", Kicks(t), ~ sysPowered \/ Stage(t) # "resume"
       PROVE  sysPowered /\ Stage(t) \in {"render", "suspend", "resume"} => FALSE
  BY <1>1, <1>3, <1>9, <1>16, NoKick
<1>17. CASE PowerLockRetry(t)
  <2>1. thread[t].pc = "lock" /\ GiveUp(t)
    BY <1>17 DEF PowerLockRetry
  <2>2. CASE Stage(t) = "kick"
    <3>1. bReProcess' = TRUE
      BY <2>1, <2>2 DEF GiveUp
    <3>2. AllCovered'
      BY <3>1 DEF AllCovered
    <3> QED BY <1>7, <3>2
  <2>3. CASE Stage(t) \in {"test", "recover"}
    <3>1. StageDone(t)
      BY <2>1, <2>3 DEF GiveUp
    <3> QED BY <1>7, <1>8, <1>9, <1>10, <2>1, <2>3, <3>1
  <2>4. CASE Stage(t) \in {"render", "suspend", "resume"}
    <3>1. ~ sysPowered => AllCovered'
      BY <1>4 DEF AllCovered
    <3>2. sysPowered => Stage(t) # "resume"
      <4>1. sysPowered => CallerID(t) = "ISR_ID"
        BY <1>17 DEF PowerLockRetry
      <4>2. sysPowered => t = "misr"
        BY <2>4, <4>1 DEF CallerID
      <4> QED BY <1>3, <4>2 DEF ListOK, Stage
    <3> QED BY <1>7, <1>16, <2>1, <2>4, <3>1, <3>2
  <2> QED BY <1>3, <2>1, <2>2, <2>3, <2>4 DEF Fits
<1>18. CASE PowerLockTimeout(t)
  <2>1. /\ thread[t].pc = "lock" /\ CallerID(t) = "KERNEL_ID"
        /\ Stage(t) \in {"test", "recover"} => StageDone(t)
    BY <1>18 DEF PowerLockTimeout
  <2>2. CASE Stage(t) \in {"test", "recover"}
    BY <1>7, <1>8, <1>9, <1>10, <2>1, <2>2
  <2>3. CASE Stage(t) \in {"render", "suspend", "resume"}
    <3>1. ~ sysPowered => AllCovered'
      BY <1>4 DEF AllCovered
    <3>2. sysPowered => Stage(t) # "resume"
      BY <1>1, <1>3, <2>1 DEF ListOK, Stage, ResumeAsleep
    <3> QED BY <1>7, <1>16, <2>1, <2>3, <3>1, <3>2
  <2> QED BY <1>3, <2>1, <2>2, <2>3 DEF Fits, CallerID
<1>19. CASE PowerUnlock(t)
  <2>1. thread[t].pc = "unlock"
    BY <1>19 DEF PowerUnlock
  <2>2. CASE Stage(t) = "test"
    <3>1. Goto(t, "post")
      BY <1>19, <2>2 DEF PowerUnlock
    <3>2. thread'[t].pc = "post" /\ Stage(t)' = "test"
      BY <1>1, <2>2, <3>1, GoesList
    <3>3. "RESTART_IMMEDIATE" \in powerStatus => Kicks(t)'
      BY <1>4, <3>2 DEF Kicks
    <3>4. Kicks(t) => ListKicks(thread[t]) \/ "RESTART_IMMEDIATE" \in powerStatus
      BY <2>1, <2>2 DEF Kicks
    <3> QED BY <1>7, <1>8, <1>11, <3>1, <3>3, <3>4
  <2>3. CASE Stage(t) = "recover"
    <3>1. Continue(t, <<"kick", "retry">>)
      BY <1>19, <2>3 DEF PowerUnlock
    <3> QED BY <1>7, <1>8, <1>12, <3>1
  <2>4. CASE Stage(t) \notin {"test", "recover"}
    <3>1. StageDone(t)
      BY <1>19, <2>4 DEF PowerUnlock
    <3>2. Kicks(t) => ListKicks(thread[t])
      BY <2>1, <2>4 DEF Kicks
    <3> QED BY <1>7, <1>8, <1>10, <2>1, <3>1, <3>2
  <2> QED BY <2>2, <2>3, <2>4
<1>20. CASE SGXPostActivePowerEvent(t)
  <2>1. thread[t].pc = "post" /\ Stage(t) = "test"
    BY <1>3, <1>20 DEF SGXPostActivePowerEvent, Fits
  <2>2. CASE "RESTART_IMMEDIATE" \notin powerStatus
    <3>1. StageDone(t)
      BY <1>20, <2>2 DEF SGXPostActivePowerEvent
    <3>2. Kicks(t) => ListKicks(thread[t])
      BY <2>1, <2>2 DEF Kicks
    <3> QED BY <1>7, <1>8, <1>10, <2>1, <3>1, <3>2
  <2>3. CASE "RESTART_IMMEDIATE" \in powerStatus
    <3>1. bReProcess' = TRUE \/ Continue(t, <<"kick">>)
      BY <1>20, <2>3 DEF SGXPostActivePowerEvent
    <3>2. bReProcess' = TRUE => AllCovered'
      BY DEF AllCovered
    <3> QED BY <1>7, <1>8, <1>12, <3>1, <3>2
  <2> QED BY <2>2, <2>3
<1> QED BY <1>13, <1>14, <1>15, <1>17, <1>18, <1>19, <1>20

(* Steps under the lock.                                                    *)
LEMMA CoveredLocked ==
  ASSUME KickInv, NEW t \in Threads,
         \/ SendPowerOff(t) \/ DevicePowerOff(t)
         \/ ResetPowerStatus(t) \/ SGXInitialise(t) \/ SGXInitialiseTimeout(t)
         \/ ClearReProcess(t) \/ SGXScheduleCCBCommand(t)
         \/ SystemPostPowerState(t) \/ HWRecoveryResetSGX(t)
  PROVE  Covered'
<1> USE DEF power, hostCtl, ukVars, bounds, requests
<1>1. Step(t) /\ Inv /\ Lists /\ StatusOK /\ Covered /\ CoreOK /\ PlaceOK(t) /\ ccb \in Seq(Commands)
  BY DEF Step, KickInv, CoreInv, HardwareInv, Inv, DataOK
<1>2. thread[t].pc # "idle" /\ \A u \in Threads \ {t} : thread'[u] = thread[u]
  BY <1>1, StepShape, OthersStay
<1>3. /\ Fits(thread[t].pc, Stage(t)) /\ thread[t].todo # <<>> /\ ListOK(t, thread[t].todo)
      /\ thread[t].todo \in Seq(Stages)
  BY <1>1, <1>2 DEF Inv, ThreadsOK, WellFormed, Stage, Lists, ThreadState
<1>4. AllCovered' => Covered'
  BY DEF Covered
<1>5. Kicks(t)' => AllCovered'
  BY DEF AllCovered
<1>6. \A pc : Goto(t, pc) => thread'[t].pc = pc /\ Stage(t)' = Stage(t)
                             /\ thread'[t].todo = thread[t].todo
  BY <1>1, GoesList
<1>7. CASE ResetPowerStatus(t) \/ SGXInitialise(t) \/ ClearReProcess(t)
  <2>1. thread'[t].pc \in {"init", "submit", "write"}
    BY <1>6, <1>7 DEF ResetPowerStatus, SGXInitialise, ClearReProcess
  <2> QED BY <1>4, <1>5, <2>1 DEF Kicks
<1>8. CASE SGXInitialiseTimeout(t)
  <2>1. initFails' > 0
    BY <1>1, <1>8 DEF SGXInitialiseTimeout, Inv, DataOK
  <2> QED BY <1>4, <2>1 DEF AllCovered
<1>9. CASE HWRecoveryResetSGX(t)
  <2>1. thread'[t].pc = "unlock" /\ Stage(t)' = "recover"
    BY <1>3, <1>6, <1>9 DEF HWRecoveryResetSGX, Fits
  <2> QED BY <1>4, <1>5, <2>1 DEF Kicks
<1>10. CASE SGXScheduleCCBCommand(t)
  <2>1. devPower = "ON" /\ devPower' = "ON"
    BY <1>1, <1>10 DEF SGXScheduleCCBCommand, PlaceOK
  <2>2. thread[t].cmd # "POWEROFF"
    <3>1. thread[t].cmd \in Renders \cup {"none", "PROCESS_QUEUES"}
      BY <1>1 DEF Inv, ThreadsOK, ThreadState
    <3> QED BY <3>1, RendersAssumption
  <2>3. ccb' = Append(ccb, thread[t].cmd)
    BY <1>10 DEF SGXScheduleCCBCommand
  <2>4. Len(ccb') \in 1 .. Len(ccb') /\ ccb'[Len(ccb')] = thread[t].cmd
    BY <1>1, <2>3
  <2> QED BY <1>4, <2>1, <2>2, <2>4 DEF AllCovered
<1>11. CASE SystemPostPowerState(t)
  <2>1. sysPowered' = (Stage(t) = "resume") /\ thread'[t].pc = "unlock" /\ Stage(t) \in {"suspend", "resume"}
    BY <1>3, <1>6, <1>11 DEF SystemPostPowerState, Fits
  <2>2. CASE Stage(t) = "suspend"
    <3>1. ~ sysPowered'
      BY <2>1, <2>2
    <3> QED BY <1>4, <3>1 DEF AllCovered
  <2>3. CASE Stage(t) = "resume"
    <3>1. PICK i \in 1 .. Len(thread[t].todo) : thread[t].todo[i] = "kick"
      BY <1>3, <2>3 DEF ListOK, Stage, KickIn
    <3>2. i # 1
      <4>1. Head(thread[t].todo) = thread[t].todo[1]
        BY <1>3
      <4> QED BY <2>3, <3>1, <4>1 DEF Stage
    <3>3. thread'[t].todo = thread[t].todo
      BY <1>6, <1>11 DEF SystemPostPowerState
    <3>4. Kicks(t)'
      BY <3>1, <3>2, <3>3 DEF Kicks, ListKicks
    <3> QED BY <1>4, <1>5, <3>4
  <2> QED BY <2>1, <2>2, <2>3
<1>12. CASE SendPowerOff(t)
  <2>1. /\ thread[t].pc = "flush" /\ Goto(t, "poll")
        /\ UNCHANGED <<work, ready, done, powerStatus, sysPowered, devPower, hung, initFails, bReProcess>>
    BY <1>12 DEF SendPowerOff
  <2>2. devPower = "ON" /\ devPower' = "ON"
    BY <1>1, <2>1 DEF PlaceOK
  <2>3. ASSUME NEW i \in 1 .. Len(ccb), ccb[i] # "POWEROFF" PROVE AllCovered'
    <3>1. ccb' = Append(ccb, "POWEROFF")
      BY <1>12 DEF SendPowerOff
    <3>2. i \in 1 .. Len(ccb') /\ ccb'[i] = ccb[i]
      BY <1>1, <3>1
    <3> QED BY <2>2, <2>3, <3>2 DEF AllCovered
  <2>4. Kicks(t) => ListKicks(thread[t])
    BY <2>1 DEF Kicks
  <2>5. Kicks(t) => AllCovered'
    BY <1>1, <1>5, <2>1, <2>4, GoesKicks
  <2>6. /\ initFails > 0 => AllCovered'
        /\ bReProcess => AllCovered'
        /\ ~ sysPowered => AllCovered'
        /\ hung => AllCovered'
    BY <2>1 DEF AllCovered
  <2> QED BY <1>1, <1>2, <2>1, <2>2, <2>3, <2>5, <2>6, CoveredBy
<1>13. CASE DevicePowerOff(t)
  <2>1. /\ thread[t].pc = "poll"
        /\ UNCHANGED <<work, ready, done, powerStatus, sysPowered, hung, initFails, bReProcess>>
        /\ "POWEROFF_COMPLETE" \in powerStatus \/ hung
        /\ Goto(t, IF Stage(t) = "suspend" THEN "system" ELSE "unlock")
    BY <1>13 DEF DevicePowerOff
  <2>2. /\ initFails > 0 => AllCovered'
        /\ bReProcess => AllCovered'
        /\ ~ sysPowered => AllCovered'
        /\ hung => AllCovered'
    BY <2>1 DEF AllCovered
  <2>3. CASE hung
    BY <1>4, <2>2, <2>3
  <2>4. CASE ~ hung /\ Stage(t) = "suspend"
    <3>1. t = "pm"
      BY <1>3, <2>4 DEF ListOK, Stage
    <3>2. thread'["pm"].pc = "system"
      BY <1>6, <2>1, <2>4, <3>1
    <3>3. AllCovered'
      BY <3>2 DEF AllCovered
    <3> QED BY <1>4, <3>3
  <2>5. CASE ~ hung /\ Stage(t) # "suspend"
    <3>1. devPower = "ON" /\ "POWEROFF_COMPLETE" \in powerStatus /\ Stage(t) = "test"
      BY <1>1, <1>3, <2>1, <2>5 DEF PlaceOK, Fits
    <3>2. ccb = <<>>
      BY <1>1, <3>1 DEF CoreOK, AnswerMeansEmpty
    <3>3. Goto(t, "unlock")
      BY <2>1, <2>5
    <3>4. thread'[t].pc = "unlock" /\ Stage(t)' = "test"
      BY <1>6, <3>1, <3>3
    <3>5. "RESTART_IMMEDIATE" \in powerStatus => Kicks(t)'
      BY <2>1, <3>4 DEF Kicks
    <3>6. ready # {} => AllCovered'
      BY <1>1, <1>5, <3>1, <3>5 DEF StatusOK
    <3>7. Kicks(t) => ListKicks(thread[t]) \/ "RESTART_IMMEDIATE" \in powerStatus
      BY <2>1 DEF Kicks
    <3>8. ListKicks(thread[t]) => Kicks(t)'
      BY <1>1, <3>1, <3>3, GoesKicks
    <3>9. Kicks(t) => AllCovered'
      BY <1>5, <3>5, <3>7, <3>8
    <3>10. ~ \E i \in 1 .. Len(ccb) : ccb[i] # "POWEROFF"
      BY <3>2
    <3> QED BY <1>1, <1>2, <2>1, <2>2, <3>6, <3>9, <3>10, CoveredBy
  <2> QED BY <2>3, <2>4, <2>5
<1> QED BY <1>7, <1>8, <1>9, <1>10, <1>11, <1>12, <1>13

(* What starts a thread, the completion of a flip and a hang.               *)
LEMMA CoveredStart ==
  ASSUME KickInv, Request \/ PVRSRVMISR \/ SGXOSTimer \/ DriverResume
  PROVE  Covered'
<1> USE DEF power, hostCtl, ukVars, bounds, requests
<1>1. /\ thread \in [Threads -> ThreadState] /\ "timer" \in Threads
      /\ "bridge" \in Threads /\ "flip" \in Threads /\ "pm" \in Threads /\ "misr" \in Threads
      /\ Covered
  BY DEF KickInv, CoreInv, HardwareInv, Inv, ThreadsOK, Threads
<1>2. UNCHANGED <<work, ready, powerStatus, sysPowered, devPower, ccb, initFails, bReProcess>>
  BY DEF Request, SGXDoKick, CommandComplete, DriverSuspend, UkHang,
     PVRSRVMISR, SGXOSTimer, DriverResume
<1>3. ASSUME NEW t \in Threads, NEW r, thread' = [thread EXCEPT ![t] = r], thread[t] = Idle,
             UNCHANGED <<done, hung>>
      PROVE  Covered'
  <2>1. \A u \in Threads \ {t} : thread'[u] = thread[u]
    BY <1>1, <1>3
  <2>2. ~ Kicks(t) /\ thread[t].pc # "system"
    BY <1>3 DEF Idle, Kicks, ListKicks
  <2> QED BY <1>1, <1>2, <1>3, <2>1, <2>2, CoveredKept
<1>4. ASSUME NEW r \in Renders, SGXDoKick(r) PROVE Covered'
  BY <1>1, <1>3, <1>4 DEF SGXDoKick
<1>5. ASSUME NEW r \in Renders, CommandComplete(r) PROVE Covered'
  <2>1. thread' = [thread EXCEPT !["flip"] = Run(<<"kick", "misr">>)]
    BY <1>5 DEF CommandComplete
  <2>2. <<"kick", "misr">> \in Seq(Stages) /\ 1 \in 1 .. Len(<<"kick", "misr">>)
        /\ <<"kick", "misr">>[1] = "kick"
    BY DEF Stages
  <2>3. thread'["flip"].todo = <<"kick", "misr">> /\ thread'["flip"].pc # "unlock"
    BY <1>1, <2>1, <2>2, RunList, RunWellFormed
  <2>4. Kicks("flip")'
    BY <2>2, <2>3 DEF Kicks, ListKicks
  <2> QED BY <1>1, <2>4 DEF Covered, AllCovered
<1>6. CASE DriverSuspend
  BY <1>1, <1>3, <1>6 DEF DriverSuspend
<1>7. CASE UkHang
  <2>1. hung'
    BY <1>7 DEF UkHang
  <2> QED BY <2>1 DEF Covered, AllCovered
<1>8. CASE PVRSRVMISR
  BY <1>1, <1>3, <1>8 DEF PVRSRVMISR
<1>9. CASE SGXOSTimer
  BY <1>1, <1>3, <1>9 DEF SGXOSTimer
<1>10. CASE DriverResume
  BY <1>1, <1>3, <1>10 DEF DriverResume
<1> QED BY <1>4, <1>5, <1>6, <1>7, <1>8, <1>9, <1>10 DEF Request

(* The microkernel finds every completed render ready when it looks.        *)
LEMMA CoveredMicrokernel ==
  ASSUME KickInv, Microkernel \/ UkIdle
  PROVE  Covered'
<1> USE DEF power, hostCtl, ukVars, bounds, requests
<1>1. /\ UNCHANGED <<thread, sysPowered, devPower, initFails, bReProcess, hung, done>>
      /\ devPower = "ON" /\ ~ hung
  BY DEF Microkernel, UkCommand, UkPowerOff, UkFinish, UkIdle, UkRuns
<1>2. CoreInv /\ CoreOK /\ ccb \in Seq(Commands) /\ StatusOK /\ Covered
  BY DEF KickInv, CoreInv, HardwareInv, Inv, DataOK
<1>3. CASE UkCommand
  <2>1. ready' = ready \cup (work' \cap done)
    BY <1>3 DEF UkCommand
  <2> QED BY <1>1, <2>1 DEF Covered
<1>4. ASSUME ~ (\E i \in 1 .. Len(ccb) : ccb[i] # "POWEROFF"),
             "RESTART_IMMEDIATE" \in powerStatus => "RESTART_IMMEDIATE" \in powerStatus'
      PROVE  AllCovered => AllCovered'
  <2>1. \A u \in Threads : Kicks(u) => Kicks(u)'
    BY <1>1, <1>4 DEF Kicks, ListKicks, Stage
  <2> QED BY <1>1, <1>4, <2>1 DEF AllCovered
<1>5. CASE UkPowerOff
  <2>1. ccb # <<>> /\ Head(ccb) = "POWEROFF" /\ UNCHANGED <<work, ready>>
    BY <1>5 DEF UkPowerOff
  <2>2. 1 \in 1 .. Len(ccb) /\ ccb[1] = "POWEROFF"
    BY <1>2, <2>1
  <2>3. Len(ccb) = 1
    BY <1>1, <1>2, <2>2 DEF CoreOK, PowerOffLast
  <2>4. ~ \E i \in 1 .. Len(ccb) : ccb[i] # "POWEROFF"
    BY <2>2, <2>3
  <2>5. powerStatus = {}
    BY <1>1, <1>2, <2>1, StatusEmpty
  <2> QED BY <1>1, <1>2, <1>4, <2>1, <2>4, <2>5 DEF Covered
<1>6. ASSUME UNCHANGED <<ccb, powerStatus>>, work' \subseteq work, ready \cap work' \subseteq ready'
      PROVE  Covered'
  <2>1. \A u \in Threads : Kicks(u) => Kicks(u)'
    BY <1>1, <1>6 DEF Kicks, ListKicks, Stage
  <2>2. AllCovered => AllCovered'
    BY <1>1, <1>6, <2>1 DEF AllCovered
  <2> QED BY <1>1, <1>2, <1>6, <2>2 DEF Covered
<1>7. ASSUME NEW r \in Renders, UkFinish(r) PROVE Covered'
  <2>1. UNCHANGED <<ccb, powerStatus>> /\ work' = work \ {r} /\ ready' = ready \ {r}
    BY <1>7 DEF UkFinish
  <2> QED BY <1>6, <2>1
<1>8. CASE UkIdle
  <2>1. UNCHANGED <<ccb, powerStatus, work, ready>>
    BY <1>8 DEF UkIdle
  <2> QED BY <1>6, <2>1
<1> QED BY <1>3, <1>5, <1>7, <1>8 DEF Microkernel

LEMMA KickNext == KickInv /\ [Next]_vars => KickInv'
<1> SUFFICES ASSUME KickInv, [Next]_vars PROVE Lists' /\ ResumeAsleep' /\ StatusOK' /\ Covered'
  BY CoreNext DEF KickInv
<1>1. CoreInv /\ Inv /\ Lists /\ ResumeAsleep /\ StatusOK /\ Covered
  BY DEF KickInv, CoreInv, HardwareInv
<1>2. CASE UNCHANGED vars
  BY <1>1, <1>2 DEF vars, Lists, ResumeAsleep, StatusOK, Covered, AllCovered, Kicks, ListKicks, Stage
<1>3. CASE Request \/ PVRSRVMISR \/ SGXOSTimer \/ DriverResume
  BY <1>1, <1>3, ListsStart, StatusStart, CoveredStart
<1>4. ASSUME NEW t \in Threads, Step(t) PROVE Lists' /\ ResumeAsleep' /\ StatusOK' /\ Covered'
  <2>1. Lists' /\ ResumeAsleep' /\ StatusOK'
    BY <1>1, <1>4, ListsStep, ResumeStep, StatusStep
  <2>2. Covered'
    BY <1>4, CoveredOutside, CoveredLocked DEF Step
  <2> QED BY <2>1, <2>2
<1>5. CASE Microkernel \/ UkIdle
  <2>1. UNCHANGED <<thread, sysPowered>>
    BY <1>5 DEF Microkernel, UkCommand, UkPowerOff, UkFinish, UkIdle, power
  <2>2. Lists' /\ ResumeAsleep'
    BY <1>1, <2>1 DEF Lists, ResumeAsleep, Stage
  <2> QED BY <1>1, <1>5, <2>2, StatusMicrokernel, CoveredMicrokernel
<1> QED BY <1>2, <1>3, <1>4, <1>5 DEF Next

(* No kick is lost between power transitions, suspends and deferrals: a     *)
(* render whose flip has completed runs, or the microkernel has a command   *)
(* to read, or a kick is on its way or noted in                             *)
(* bReProcessDeviceCommandComplete, or a resume or a recovery is due.       *)
THEOREM KicksCovered == Spec => []KickCovered
<1>1. KickInv => KickCovered
  <2> SUFFICES ASSUME KickInv, NEW r \in work \cap done
               PROVE  \/ initFails > 0
                      \/ devPower = "ON" /\ (r \in ready \/ ccb # <<>>)
                      \/ bReProcess
                      \/ \E t \in Threads : thread[t] # Idle /\ WillKick(t)
                      \/ ~ sysPowered \/ thread["pm"].pc = "system"
                      \/ hung
    BY DEF KickCovered
  <2>1. AllCovered \/ (devPower = "ON" /\ r \in ready)
    BY DEF KickInv, Covered
  <2>2. ASSUME NEW t \in Threads, Kicks(t) PROVE thread[t] # Idle /\ WillKick(t)
    <3>1. thread[t].todo \in Seq(Stages)
      BY DEF KickInv, CoreInv, HardwareInv, Inv, ThreadsOK, ThreadState
    <3>2. DOMAIN thread[t].todo = 1 .. Len(thread[t].todo)
      BY <3>1
    <3>3. WillKick(t)
      BY <2>2, <3>2 DEF Kicks, ListKicks, WillKick
    <3>4. thread[t] # Idle
      BY <2>2 DEF Kicks, ListKicks, Idle
    <3> QED BY <3>3, <3>4
  <2>3. (\E i \in 1 .. Len(ccb) : ccb[i] # "POWEROFF") => ccb # <<>>
    OBVIOUS
  <2> QED BY <2>1, <2>2, <2>3 DEF AllCovered
<1> QED BY <1>1, KickInit, KickNext, PTL DEF Spec

=============================================================================
