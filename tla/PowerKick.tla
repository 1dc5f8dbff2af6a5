----------------------------- MODULE PowerKick -----------------------------
(***************************************************************************)
(* Power management of the SGX core and the commands that must reach it    *)
(* (power.c, sgxpower.c, sgxutils.c, and their callers in sgxinit.c).      *)
(*                                                                         *)
(* Five threads take the power lock: a bridge call that submits a render,  *)
(* the completion of a flip that renders wait for, the MISR, the watchdog  *)
(* timer and the system's suspend and resume.  Each runs a list of stages: *)
(*   "render"  SGXScheduleCCBCommandKM of a bridge call (KERNEL_ID)        *)
(*   "kick"    SGXScheduleProcessQueuesKM (ISR_ID)                         *)
(*   "retry"   the same, if a kick was deferred                            *)
(*   "test"    SGXTestActivePowerEvent                                     *)
(*   "recover" HWRecoveryResetSGX                                          *)
(*   "suspend", "resume"  PVRSRVSetPowerStateKM                            *)
(*   "misr"    OSScheduleMISR                                              *)
(* The microkernel is external: it reads the kernel CCB, looks at its      *)
(* queues at every command, runs what is ready, asks to be powered off     *)
(* when nothing is ready, answers a power command, and may hang.           *)
(***************************************************************************)
EXTENDS Naturals, Sequences, FiniteSets

CONSTANTS
    Renders,       \* bound: the renders clients submit, each behind a flip of its own
    PowerLockWrap, \* SYS_CUSTOM_POWERLOCK_WRAP: a mutex around the power lock
    MaxSuspends,   \* bound: system suspends
    MaxHangs,      \* bound: microkernel hangs
    MaxInitFails   \* bound: initialisations of the core that time out

(* A render is not one of the other commands.                               *)
ASSUME RendersAssumption == Renders \cap {"none", "PROCESS_QUEUES", "POWEROFF"} = {}
ASSUME BuildAssumption == PowerLockWrap \in BOOLEAN
ASSUME BoundsAssumption == MaxSuspends \in Nat /\ MaxHangs \in Nat /\ MaxInitFails \in Nat

Threads == {"bridge", "flip", "misr", "timer", "pm"}
Stages  == {"render", "kick", "retry", "test", "recover", "suspend", "resume", "misr"}

VARIABLES
    thread,      \* where each thread is, and the stages it has to go through
    resource,    \* the thread that holds sPowerStateChangeResource, or "free"
    sysPowered,  \* _IsSystemStatePowered(psSysData->eCurrentPowerState)
    devPower,    \* eCurrentPowerState of the SGX power device
    bActive,     \* the watchdog timer is enabled
    bReProcess,  \* bReProcessDeviceCommandComplete: a kick was deferred
    misrPending, \* the MISR is queued
    powerStatus, \* ui32PowerStatus, written by the microkernel
    activePower, \* INTERRUPT_ACTIVE_POWER in ui32InterruptFlags
    clearActive, \* the same in ui32InterruptClearFlags
    ccb,         \* the commands between the CCB's read and write offsets
    work,        \* the renders the microkernel knows and has not finished
    ready,       \* those it has found to be ready when it last looked
    done,        \* the flips that have completed: what the renders wait for
    submitted,   \* the renders ever put into the CCB
    hung,        \* the microkernel does not react
    suspends,    \* number of suspends so far
    hangs,       \* number of hangs so far
    initFails    \* number of initialisations that timed out so far

vars == <<thread, resource, sysPowered, devPower, bActive, bReProcess, misrPending,
          powerStatus, activePower, clearActive, ccb, work, ready, done, submitted,
          hung, suspends, hangs, initFails>>

bounds   == <<suspends, hangs, initFails>>
hostCtl  == <<powerStatus, activePower, clearActive>>
ukVars   == <<ccb, work, ready, hung>>
power    == <<sysPowered, devPower, bActive>>
requests == <<done, submitted>>

-----------------------------------------------------------------------------
Idle == [pc |-> "idle", todo |-> <<>>, cmd |-> "none"]

Stage(t) == Head(thread[t].todo)

(* A list of stages as a thread state; the stage after the current one.     *)
(* Some stages begin with the lock.                                         *)
Run(todo) ==
    IF todo = <<>> THEN Idle
    ELSE [pc   |-> IF Head(todo) \in {"recover", "suspend", "resume"} THEN "lock" ELSE "begin",
          todo |-> todo, cmd |-> "PROCESS_QUEUES"]

Goto(t, pc)   == thread' = [thread EXCEPT ![t].pc = pc]
StageDone(t)  == thread' = [thread EXCEPT ![t] = Run(Tail(@.todo))]
Continue(t, stages) == thread' = [thread EXCEPT ![t] = Run(stages \o Tail(@.todo))]

(* The ID a stage locks with.                                               *)
CallerID(t) ==
    IF Stage(t) \in {"kick", "retry"} \/ t = "misr" THEN "ISR_ID" ELSE "KERNEL_ID"

SystemPowerEvent(t) == Stage(t) \in {"suspend", "resume"}

Init ==
    /\ thread = [t \in Threads |-> Idle]
    /\ resource = "free"
    /\ sysPowered = TRUE
    /\ devPower = "OFF"
    /\ bActive = FALSE
    /\ bReProcess = FALSE
    /\ misrPending = FALSE
    /\ powerStatus = {"NO_WORK"}
    /\ activePower = FALSE
    /\ clearActive = FALSE
    /\ ccb = <<>>
    /\ work = {} /\ ready = {} /\ done = {} /\ submitted = {}
    /\ hung = FALSE
    /\ suspends = 0 /\ hangs = 0 /\ initFails = 0

-----------------------------------------------------------------------------
(* What starts the threads.                                                 *)

(* A client submits a render; the active-power test follows the command.    *)
SGXDoKick(r) ==
    /\ thread["bridge"] = Idle
    /\ r \notin submitted
    /\ thread' = [thread EXCEPT !["bridge"] =
                     [pc |-> "lock", todo |-> <<"render", "test">>, cmd |-> r]]
    /\ UNCHANGED <<resource, bReProcess, misrPending, power, hostCtl, ukVars, requests, bounds>>

(* A flip completes: its counters move, SGX is kicked, the MISR scheduled.  *)
CommandComplete(r) ==
    /\ thread["flip"] = Idle
    /\ r \notin done
    /\ done' = done \cup {r}
    /\ thread' = [thread EXCEPT !["flip"] = Run(<<"kick", "misr">>)]
    /\ UNCHANGED <<resource, bReProcess, misrPending, submitted, power, hostCtl, ukVars, bounds>>

(* SGX_MISRHandler, then the retry at the end of PVRSRVProcessQueues.  A    *)
(* microkernel that noticed its hang asked for a recovery.                  *)
PVRSRVMISR ==
    /\ misrPending
    /\ thread["misr"] = Idle
    /\ misrPending' = FALSE
    /\ \/ thread' = [thread EXCEPT !["misr"] = Run(<<"retry", "test", "retry">>)]
       \/ /\ hung
          /\ thread' = [thread EXCEPT !["misr"] = Run(<<"recover", "retry", "test", "retry">>)]
    /\ UNCHANGED <<resource, bReProcess, power, hostCtl, ukVars, requests, bounds>>

(* SGXOSTimer sees no progress on a device that is powered and unlocked.    *)
SGXOSTimer ==
    /\ bActive
    /\ thread["timer"] = Idle
    /\ hung
    /\ resource = "free" /\ devPower = "ON"
    /\ thread' = [thread EXCEPT !["timer"] = Run(<<"recover">>)]
    /\ UNCHANGED <<resource, bReProcess, misrPending, power, hostCtl, ukVars, requests, bounds>>

DriverSuspend ==
    /\ thread["pm"] = Idle
    /\ sysPowered
    /\ suspends < MaxSuspends
    /\ suspends' = suspends + 1
    /\ thread' = [thread EXCEPT !["pm"] = Run(<<"suspend">>)]
    /\ UNCHANGED <<resource, bReProcess, misrPending, power, hostCtl, ukVars, requests, hangs, initFails>>

DriverResume ==
    /\ thread["pm"] = Idle
    /\ ~ sysPowered
    /\ thread' = [thread EXCEPT !["pm"] = Run(<<"resume", "kick">>)]
    /\ UNCHANGED <<resource, bReProcess, misrPending, power, hostCtl, ukVars, requests, bounds>>

-----------------------------------------------------------------------------
(* The beginning of a stage.                                                *)

(* SGXScheduleProcessQueuesKM: nothing to do for a core without work.       *)
SGXScheduleProcessQueuesKM(t) ==
    /\ thread[t].pc = "begin"
    /\ Stage(t) = "kick"
    /\ IF "NO_WORK" \in powerStatus THEN StageDone(t) ELSE Goto(t, "lock")
    /\ UNCHANGED <<resource, bReProcess, misrPending, power, hostCtl, ukVars, requests, bounds>>

(* A deferred kick is tried again.                                          *)
Retry(t) ==
    /\ thread[t].pc = "begin"
    /\ Stage(t) = "retry"
    /\ IF bReProcess THEN Continue(t, <<"kick">>) ELSE StageDone(t)
    /\ UNCHANGED <<resource, bReProcess, misrPending, power, hostCtl, ukVars, requests, bounds>>

(* SGXTestActivePowerEvent looks at both flags without a lock ...           *)
SGXTestActivePowerEvent(t) ==
    /\ thread[t].pc = "begin"
    /\ Stage(t) = "test"
    /\ IF activePower /\ ~ clearActive THEN Goto(t, "ack") ELSE StageDone(t)
    /\ UNCHANGED <<resource, bReProcess, misrPending, power, hostCtl, ukVars, requests, bounds>>

(* ... and then acknowledges the interrupt and goes for the power lock.     *)
AcknowledgeActivePower(t) ==
    /\ thread[t].pc = "ack"
    /\ clearActive' = TRUE
    /\ Goto(t, "lock")
    /\ UNCHANGED <<resource, bReProcess, misrPending, power, powerStatus, activePower,
                   ukVars, requests, bounds>>

OSScheduleMISR(t) ==
    /\ thread[t].pc = "begin"
    /\ Stage(t) = "misr"
    /\ misrPending' = TRUE
    /\ StageDone(t)
    /\ UNCHANGED <<resource, bReProcess, power, hostCtl, ukVars, requests, bounds>>

-----------------------------------------------------------------------------
(* PVRSRVPowerLock                                                          *)

(* What a thread does first once it has the lock, by what it locked for.    *)
Locked(t) ==
    CASE Stage(t) \in {"render", "kick"}  -> IF devPower = "ON" THEN "submit" ELSE "on"
      [] Stage(t) = "test"                -> IF devPower = "ON" THEN "disable" ELSE "unlock"
      [] Stage(t) = "suspend"             -> IF devPower = "ON" THEN "disable" ELSE "system"
      [] Stage(t) = "resume"              -> "system"
      [] Stage(t) = "recover"             -> "recover"

(* Mutant of PowerLock: OSLockResource always succeeds.                     *)
PowerLockAlways(t) ==
    /\ thread[t].pc = "lock"
    /\ sysPowered \/ SystemPowerEvent(t)
    /\ resource' = t
    /\ Goto(t, Locked(t))
    /\ UNCHANGED <<bReProcess, misrPending, power, hostCtl, ukVars, requests, bounds>>

PowerLock(t) ==
    /\ thread[t].pc = "lock"
    /\ resource = "free"
    /\ sysPowered \/ SystemPowerEvent(t)
    /\ resource' = t
    /\ Goto(t, Locked(t))
    /\ UNCHANGED <<bReProcess, misrPending, power, hostCtl, ukVars, requests, bounds>>

(* Mutant of GiveUp: a kick that got RETRY is not noted.                    *)
GiveUpSilently(t) ==
    CASE Stage(t) = "kick"    -> StageDone(t) /\ UNCHANGED <<bReProcess, clearActive>>
      [] Stage(t) = "test"    -> StageDone(t) /\ clearActive' = FALSE /\ UNCHANGED bReProcess
      [] Stage(t) = "recover" -> StageDone(t) /\ UNCHANGED <<bReProcess, clearActive>>
      [] OTHER -> /\ thread' = [thread EXCEPT ![t] = Idle]
                  /\ UNCHANGED <<bReProcess, clearActive>>

(* PVRSRV_ERROR_RETRY: a kick is noted for later, an acknowledgement taken  *)
(* back, a recovery left out; a client is told to try again.                *)
GiveUp(t) ==
    CASE Stage(t) = "kick"    -> StageDone(t) /\ bReProcess' = TRUE /\ UNCHANGED clearActive
      [] Stage(t) = "test"    -> StageDone(t) /\ clearActive' = FALSE /\ UNCHANGED bReProcess
      [] Stage(t) = "recover" -> StageDone(t) /\ UNCHANGED <<bReProcess, clearActive>>
      [] OTHER -> /\ thread' = [thread EXCEPT ![t] = Idle]
                  /\ UNCHANGED <<bReProcess, clearActive>>

(* The system is asleep; or, without the mutex, ISR_ID finds the lock taken.*)
PowerLockRetry(t) ==
    /\ thread[t].pc = "lock"
    /\ \/ resource = "free" /\ ~ sysPowered /\ ~ SystemPowerEvent(t)
       \/ resource # "free" /\ ~ PowerLockWrap /\ CallerID(t) = "ISR_ID"
    /\ GiveUp(t)
    /\ UNCHANGED <<resource, misrPending, power, powerStatus, activePower, ukVars,
                   requests, bounds>>

(* Without the mutex, KERNEL_ID spins a second.  The error is not RETRY:    *)
(* an acknowledged power event stays acknowledged.                          *)
PowerLockTimeout(t) ==
    /\ thread[t].pc = "lock"
    /\ resource # "free" /\ ~ PowerLockWrap /\ CallerID(t) = "KERNEL_ID"
    /\ IF Stage(t) \in {"test", "recover"} THEN StageDone(t)
                                           ELSE thread' = [thread EXCEPT ![t] = Idle]
    /\ UNCHANGED <<resource, bReProcess, misrPending, power, hostCtl, ukVars, requests, bounds>>

-----------------------------------------------------------------------------
(* Under the lock.                                                          *)

(* SGXPrePowerState to OFF: the timer is disabled and its work awaited ...  *)
OSDisableTimer(t) ==
    /\ thread[t].pc = "disable"
    /\ bActive' = FALSE
    /\ Goto(t, "flush")
    /\ UNCHANGED <<resource, bReProcess, misrPending, sysPowered, devPower, hostCtl, ukVars,
                   requests, bounds>>

(* ... the microkernel is told to power off ...                             *)
SendPowerOff(t) ==
    /\ thread[t].pc = "flush"
    /\ thread["timer"] = Idle
    /\ ccb' = Append(ccb, "POWEROFF")
    /\ Goto(t, "poll")
    /\ UNCHANGED <<resource, bReProcess, misrPending, power, hostCtl, work, ready, hung,
                   requests, bounds>>

(* Mutant of DevicePowerOff: the answer of the microkernel is not awaited.  *)
DevicePowerOffNoPoll(t) ==
    /\ thread[t].pc = "poll"
    /\ devPower' = "OFF"
    /\ Goto(t, IF Stage(t) = "suspend" THEN "system" ELSE "unlock")
    /\ UNCHANGED <<resource, bReProcess, misrPending, sysPowered, bActive, hostCtl, ukVars,
                   requests, bounds>>

(* ... and when it answered, or the poll timed out, the core is turned off. *)
DevicePowerOff(t) ==
    /\ thread[t].pc = "poll"
    /\ "POWEROFF_COMPLETE" \in powerStatus \/ hung
    /\ devPower' = "OFF"
    /\ Goto(t, IF Stage(t) = "suspend" THEN "system" ELSE "unlock")
    /\ UNCHANGED <<resource, bReProcess, misrPending, sysPowered, bActive, hostCtl, ukVars,
                   requests, bounds>>

(* SGXPostPowerState to ON: the status is reset ...                         *)
ResetPowerStatus(t) ==
    /\ thread[t].pc = "on"
    /\ powerStatus' = {}
    /\ Goto(t, "init")
    /\ UNCHANGED <<resource, bReProcess, misrPending, power, activePower, clearActive, ukVars,
                   requests, bounds>>

(* The microkernel starts afresh: it drops what was acknowledged and, as    *)
(* SGXInitialise asserts, has read the CCB when it is up.                   *)
StartMicrokernel ==
    /\ hung' = FALSE
    /\ ccb' = <<>>
    /\ work' = work \cup ({ccb[i] : i \in DOMAIN ccb} \cap Renders)
    /\ activePower' = (activePower /\ ~ clearActive)
    /\ clearActive' = FALSE

(* ... the microkernel started, the timer enabled.                          *)
SGXInitialise(t) ==
    /\ thread[t].pc = "init"
    /\ StartMicrokernel
    /\ devPower' = "ON"
    /\ bActive' = TRUE
    /\ Goto(t, "submit")
    /\ UNCHANGED <<resource, bReProcess, misrPending, sysPowered, powerStatus, ready,
                   requests, bounds>>

(* Mutant of SGXInitialiseTimeout: the error path keeps the lock.           *)
SGXInitialiseTimeoutKeepsLock(t) ==
    /\ thread[t].pc = "init"
    /\ initFails < MaxInitFails
    /\ initFails' = initFails + 1
    /\ GiveUp(t)
    /\ UNCHANGED <<resource, misrPending, power, powerStatus, activePower, ukVars,
                   requests, suspends, hangs>>

(* The microkernel does not come up: SGXInitialise returns RETRY, the lock  *)
(* is released and the device still counts as off.                          *)
SGXInitialiseTimeout(t) ==
    /\ thread[t].pc = "init"
    /\ initFails < MaxInitFails
    /\ initFails' = initFails + 1
    /\ resource' = "free"
    /\ GiveUp(t)
    /\ UNCHANGED <<misrPending, power, powerStatus, activePower, ukVars, requests, suspends, hangs>>

(* Mutant of ClearReProcess: bRetainMutex is FALSE, so the lock is gone.    *)
ClearReProcessUnlocked(t) ==
    /\ thread[t].pc = "submit"
    /\ bReProcess' = FALSE
    /\ resource' = "free"
    /\ Goto(t, "write")
    /\ UNCHANGED <<misrPending, power, hostCtl, ukVars, requests, bounds>>

(* SGXScheduleCCBCommandKM: no kick is deferred any more ...                *)
ClearReProcess(t) ==
    /\ thread[t].pc = "submit"
    /\ bReProcess' = FALSE
    /\ Goto(t, "write")
    /\ UNCHANGED <<resource, misrPending, power, hostCtl, ukVars, requests, bounds>>

(* ... because a command goes to the microkernel, still under the lock.     *)
SGXScheduleCCBCommand(t) ==
    /\ thread[t].pc = "write"
    /\ ccb' = Append(ccb, thread[t].cmd)
    /\ submitted' = submitted \cup ({thread[t].cmd} \cap Renders)
    /\ Goto(t, "unlock")
    /\ UNCHANGED <<resource, bReProcess, misrPending, power, hostCtl, work, ready, hung,
                   done, bounds>>

(* PVRSRVSystemPostPowerStateKM; devices stay off after a resume.           *)
SystemPostPowerState(t) ==
    /\ thread[t].pc = "system"
    /\ sysPowered' = (Stage(t) = "resume")
    /\ Goto(t, "unlock")
    /\ UNCHANGED <<resource, bReProcess, misrPending, devPower, bActive, hostCtl, ukVars,
                   requests, bounds>>

HWRecoveryResetSGX(t) ==
    /\ thread[t].pc = "recover"
    /\ StartMicrokernel
    /\ Goto(t, "unlock")
    /\ UNCHANGED <<resource, bReProcess, misrPending, power, powerStatus, ready,
                   requests, bounds>>

(* Mutant of PowerUnlock: a recovery does not kick SGX.                     *)
PowerUnlockNoKick(t) ==
    /\ thread[t].pc = "unlock"
    /\ resource' = "free"
    /\ CASE Stage(t) = "test"    -> Goto(t, "post")
         [] Stage(t) = "recover" -> Continue(t, <<"retry">>)
         [] OTHER                -> StageDone(t)
    /\ UNCHANGED <<bReProcess, misrPending, power, hostCtl, ukVars, requests, bounds>>

(* A recovery kicks SGX and walks the queues once it released the lock.     *)
PowerUnlock(t) ==
    /\ thread[t].pc = "unlock"
    /\ resource' = "free"
    /\ CASE Stage(t) = "test"    -> Goto(t, "post")
         [] Stage(t) = "recover" -> Continue(t, <<"kick", "retry">>)
         [] OTHER                -> StageDone(t)
    /\ UNCHANGED <<bReProcess, misrPending, power, hostCtl, ukVars, requests, bounds>>

(* Mutant of SGXPostActivePowerEvent: the wish to restart is not looked at. *)
SGXPostActivePowerEventIgnores(t) ==
    /\ thread[t].pc = "post"
    /\ StageDone(t)
    /\ UNCHANGED <<resource, bReProcess, misrPending, power, hostCtl, ukVars, requests, bounds>>

(* SGXPostActivePowerEvent: the microkernel found work while it shut down.  *)
SGXPostActivePowerEvent(t) ==
    /\ thread[t].pc = "post"
    /\ IF "RESTART_IMMEDIATE" \notin powerStatus
       THEN StageDone(t) /\ UNCHANGED bReProcess
       ELSE IF CallerID(t) = "ISR_ID"
            THEN StageDone(t) /\ bReProcess' = TRUE
            ELSE Continue(t, <<"kick">>) /\ UNCHANGED bReProcess
    /\ UNCHANGED <<resource, misrPending, power, hostCtl, ukVars, requests, bounds>>

-----------------------------------------------------------------------------
(* The microkernel                                                          *)

UkRuns == devPower = "ON" /\ ~ hung

(* It looks at its queues at every command but a power command.             *)
UkCommand ==
    /\ UkRuns
    /\ ccb # <<>>
    /\ Head(ccb) # "POWEROFF"
    /\ ccb' = Tail(ccb)
    /\ work' = work \cup ({Head(ccb)} \cap Renders)
    /\ ready' = ready \cup (work' \cap done)
    /\ UNCHANGED <<thread, resource, bReProcess, misrPending, power, hostCtl, hung, requests, bounds>>

UkPowerOff ==
    /\ UkRuns
    /\ ccb # <<>>
    /\ Head(ccb) = "POWEROFF"
    /\ ccb' = Tail(ccb)
    /\ powerStatus' = {"POWEROFF_COMPLETE"}
                      \cup (IF ready # {} THEN {"RESTART_IMMEDIATE"} ELSE {})
                      \cup (IF work = {} THEN {"NO_WORK"} ELSE {})
    /\ activePower' = (activePower /\ ~ clearActive)
    /\ clearActive' = FALSE
    /\ UNCHANGED <<thread, resource, bReProcess, misrPending, power, work, ready, hung,
                   requests, bounds>>

UkFinish(r) ==
    /\ UkRuns
    /\ "POWEROFF_COMPLETE" \notin powerStatus
    /\ r \in ready
    /\ ready' = ready \ {r}
    /\ work' = work \ {r}
    /\ misrPending' = TRUE
    /\ UNCHANGED <<thread, resource, bReProcess, power, hostCtl, ccb, hung, requests, bounds>>

UkIdle ==
    /\ UkRuns
    /\ "POWEROFF_COMPLETE" \notin powerStatus
    /\ ready = {} /\ ccb = <<>> /\ ~ activePower
    /\ activePower' = TRUE
    /\ misrPending' = TRUE
    /\ UNCHANGED <<thread, resource, bReProcess, power, powerStatus, clearActive, ukVars,
                   requests, bounds>>

(* It may raise an interrupt about the hang first.                          *)
UkHang ==
    /\ UkRuns
    /\ hangs < MaxHangs
    /\ hangs' = hangs + 1
    /\ hung' = TRUE
    /\ misrPending' \in {misrPending, TRUE}
    /\ UNCHANGED <<thread, resource, bReProcess, power, hostCtl, ccb, work, ready, requests, suspends, initFails>>

-----------------------------------------------------------------------------
Request == \/ \E r \in Renders : SGXDoKick(r) \/ CommandComplete(r)
           \/ DriverSuspend
           \/ UkHang

(* What a thread does with its processor.                                   *)
Step(t) ==
    \/ SGXScheduleProcessQueuesKM(t) \/ Retry(t) \/ SGXTestActivePowerEvent(t)
    \/ AcknowledgeActivePower(t) \/ OSScheduleMISR(t)
    \/ PowerLock(t) \/ PowerLockRetry(t) \/ PowerLockTimeout(t)
    \/ OSDisableTimer(t) \/ SendPowerOff(t) \/ DevicePowerOff(t)
    \/ ResetPowerStatus(t) \/ SGXInitialise(t) \/ SGXInitialiseTimeout(t)
    \/ ClearReProcess(t) \/ SGXScheduleCCBCommand(t)
    \/ SystemPostPowerState(t) \/ HWRecoveryResetSGX(t)
    \/ PowerUnlock(t) \/ SGXPostActivePowerEvent(t)

Microkernel == UkCommand \/ UkPowerOff \/ \E r \in Renders : UkFinish(r)

Next == \/ Request
        \/ PVRSRVMISR \/ SGXOSTimer \/ DriverResume
        \/ \E t \in Threads : Step(t)
        \/ Microkernel
        \/ UkIdle

Spec == Init /\ [][Next]_vars

(* Threads and the microkernel run.  The mutex serves its waiters in turn.  *)
Fairness == /\ \A t \in Threads : WF_vars(Step(t)) /\ SF_vars(PowerLock(t))
            /\ WF_vars(PVRSRVMISR)
            /\ WF_vars(DriverResume)
            /\ WF_vars(Microkernel)

FairSpec == Spec /\ Fairness

-----------------------------------------------------------------------------
(* Properties                                                               *)

PCs == {"idle", "begin", "ack", "lock", "disable", "flush", "poll", "on", "init",
        "submit", "write", "system", "recover", "unlock", "post"}
Commands == Renders \cup {"PROCESS_QUEUES", "POWEROFF"}

TypeOK ==
    /\ thread \in [Threads -> [pc : PCs, todo : Seq(Stages), cmd : Renders \cup {"none", "PROCESS_QUEUES"}]]
    /\ \A t \in Threads : thread[t].pc # "idle" => thread[t].todo # <<>>
    /\ resource \in Threads \cup {"free"}
    /\ sysPowered \in BOOLEAN
    /\ devPower \in {"ON", "OFF"}
    /\ bActive \in BOOLEAN /\ bReProcess \in BOOLEAN /\ misrPending \in BOOLEAN
    /\ powerStatus \in SUBSET {"NO_WORK", "POWEROFF_COMPLETE", "RESTART_IMMEDIATE"}
    /\ activePower \in BOOLEAN /\ clearActive \in BOOLEAN
    /\ ccb \in Seq(Commands)
    /\ work \in SUBSET Renders /\ ready \in SUBSET work
    /\ done \in SUBSET Renders /\ submitted \in SUBSET Renders
    /\ hung \in BOOLEAN
    /\ suspends \in Nat /\ hangs \in Nat /\ initFails \in Nat

UnderLock == {"disable", "flush", "poll", "on", "init", "submit", "write", "system",
              "recover", "unlock"}

(* Power transitions and command submissions exclude each other, and the    *)
(* lock is held exactly as long as one is under way: no error path keeps it.*)
PowerExclusive ==
    \A t \in Threads : thread[t].pc \in UnderLock <=> resource = t

(* The host writes commands and registers, and the watchdog resets the core,*)
(* only while the core is powered and the system awake; a sleeping system   *)
(* has its core turned off.                                                 *)
HardwareIsOn ==
    /\ \A t \in Threads :
          \/ thread[t].pc \in {"flush", "poll", "submit", "write"}
          \/ thread[t].pc = "recover" /\ t = "timer"
          => devPower = "ON" /\ sysPowered
    /\ ~ sysPowered => devPower = "OFF"

(* A core that is turned off has read every command; only a microkernel     *)
(* that hangs is turned off as it is.                                       *)
AsleepMeansEmpty == devPower = "OFF" /\ hangs = 0 => ccb = <<>>

(* A thread that will kick SGX.                                             *)
WillKick(t) ==
    \/ \E i \in DOMAIN thread[t].todo : thread[t].todo[i] = "kick"
    \/ thread[t].pc \in {"on", "init", "submit", "write"}
    \/ Stage(t) = "recover" /\ thread[t].pc \in {"recover", "unlock"}
    \/ Stage(t) = "test" /\ thread[t].pc \in {"poll", "unlock", "post"}
       /\ ("RESTART_IMMEDIATE" \in powerStatus \/ "POWEROFF" \in {ccb[i] : i \in DOMAIN ccb})

(* A render whose flip has completed runs or somebody still has to tell SGX:*)
(* the microkernel has it ready or a command to read, a kick is on its way  *)
(* or noted as deferred, or a resume or a recovery is due, which kick.  (A  *)
(* start of the core that times out loses the kick it was made for.)        *)
KickCovered ==
    \A r \in work \cap done :
        \/ initFails > 0
        \/ devPower = "ON" /\ (r \in ready \/ ccb # <<>>)
        \/ bReProcess
        \/ \E t \in Threads : thread[t] # Idle /\ WillKick(t)
        \/ ~ sysPowered \/ thread["pm"].pc = "system"
        \/ hung

(* Every render whose flip completes is finished: no kick is lost between   *)
(* power transitions, suspends and deferrals.                               *)
EveryRenderFinishes ==
    \A r \in Renders :
        (r \in submitted /\ r \in done) ~> (r \notin work /\ \A i \in DOMAIN ccb : ccb[i] # r)

(* HWRecoveryResetSGX says that it lets a power transition in progress be:  *)
(* the watchdog does not wait for ever.                                     *)
RecoveryGivesWay ==
    (thread["timer"].pc = "lock") ~> (thread["timer"].pc # "lock")

=============================================================================
