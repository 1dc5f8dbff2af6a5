----------------------------- MODULE EventObject -----------------------------
(* The event objects of the Linux port (event.c): a list of objects that    *)
(* the MISR signals, and the bridge call that waits for one of them, which  *)
(* drops the bridge lock while it sleeps.                                   *)
EXTENDS Integers, FiniteSets

CONSTANTS
    Threads,        \* threads that make bridge calls
    Process,        \* the process of each thread
    Objects,        \* event objects
    MaxSignals      \* bound: walks of the list by the MISR

NamesOK == "none" \notin Threads \cup Objects /\ MaxSignals \in Nat

VARIABLES
    gPVRSRVLock,    \* the thread that holds the bridge lock, or "none"
    sList,          \* the listed objects, each with its owner and time stamps
    waits,          \* where each thread is in LinuxEventObjectWait
    walk            \* the MISR's walk of the list

vars == <<gPVRSRVLock, sList, waits, walk>>

Owners  == {Process[t] : t \in Threads}
Listed  == DOMAIN sList
Stamps  == 0..MaxSignals
NoWait  == [at |-> "out", object |-> "none", stamp |-> 0, awake |-> TRUE, time |-> TRUE]

Init ==
    /\ gPVRSRVLock = "none"
    /\ sList = <<>>
    /\ waits = [t \in Threads |-> NoWait]
    /\ walk = [todo |-> {}, stamped |-> "none", started |-> 0]

(* The list's lock: readers in the MISR, writers under the bridge lock.     *)
Writable == walk.todo = {}
Goes(t, next) == waits' = [waits EXCEPT ![t] = next]

-----------------------------------------------------------------------------
(* A process opens an object.  Memory that a waiter still refers to is not  *)
(* given out again.                                                         *)
LinuxEventObjectAdd(t, o) ==
    /\ gPVRSRVLock = "none" /\ Writable /\ waits[t].at = "out"
    /\ o \notin Listed /\ \A u \in Threads : waits[u].object # o
    /\ sList' = [x \in Listed \cup {o} |->
                   IF x = o THEN [owner |-> Process[t], sTimeStamp |-> 0,
                                  ui32TimeStampPrevious |-> 0, users |-> {}]
                   ELSE sList[x]]
    /\ UNCHANGED <<gPVRSRVLock, waits, walk>>

(* Closing takes the object off the list and frees it, whoever waits.       *)
LinuxEventObjectDeleteCallback(os) ==
    sList' = [x \in Listed \ os |-> sList[x]]

LinuxEventObjectDelete(t, o) ==
    /\ gPVRSRVLock = "none" /\ Writable /\ waits[t].at = "out"
    /\ o \in Listed /\ sList[o].owner = Process[t]
    /\ LinuxEventObjectDeleteCallback({o})
    /\ UNCHANGED <<gPVRSRVLock, waits, walk>>

(* The last file of a process is closed: none of its threads is in a call.  *)
ProcessEnds(p) ==
    /\ gPVRSRVLock = "none" /\ Writable
    /\ \A t \in Threads : Process[t] = p => waits[t].at = "out"
    /\ \E o \in Listed : sList[o].owner = p
    /\ LinuxEventObjectDeleteCallback({o \in Listed : sList[o].owner = p})
    /\ UNCHANGED <<gPVRSRVLock, waits, walk>>

-----------------------------------------------------------------------------
(* The MISR walks the list under its lock: it stamps an object, then wakes  *)
(* who is in its queue.                                                     *)
LinuxEventObjectSignal ==
    /\ walk.todo = {} /\ Listed # {} /\ walk.started < MaxSignals
    /\ walk' = [walk EXCEPT !.todo = Listed, !.started = @ + 1]
    /\ UNCHANGED <<gPVRSRVLock, sList, waits>>

Stamp(o) ==
    /\ o \in walk.todo /\ walk.stamped = "none"
    /\ sList' = [sList EXCEPT ![o].sTimeStamp = @ + 1]
    /\ walk' = [walk EXCEPT !.stamped = o]
    /\ UNCHANGED <<gPVRSRVLock, waits>>

(* Mutant of Queue: a thread joins the queue when it goes to sleep, not     *)
(* before it reads the time stamp.                                          *)
QueueLate(o) == {t \in Threads : waits[t].object = o /\ waits[t].at = "sleep" /\ gPVRSRVLock # t}

Queue(o) == {t \in Threads : waits[t].object = o /\ waits[t].at \in {"read", "sleep"}}

WakeUp ==
    /\ walk.stamped # "none"
    /\ waits' = [t \in Threads |-> IF t \in Queue(walk.stamped)
                                   THEN [waits[t] EXCEPT !.awake = TRUE] ELSE waits[t]]
    /\ walk' = [walk EXCEPT !.todo = @ \ {walk.stamped}, !.stamped = "none"]
    /\ UNCHANGED <<gPVRSRVLock, sList>>

-----------------------------------------------------------------------------
(* Waiting, from the call with the lock to the return that releases it.     *)
LinuxEventObjectWait(t, o) ==
    /\ gPVRSRVLock = "none" /\ waits[t].at = "out"
    /\ o \in Listed /\ sList[o].owner = Process[t]
    /\ gPVRSRVLock' = t
    /\ Goes(t, [NoWait EXCEPT !.at = "prepare", !.object = o])
    /\ sList' = [sList EXCEPT ![o].users = @ \cup {t}]
    /\ UNCHANGED walk

(* The thread is in the queue, and asleep unless it is woken, before it     *)
(* reads the time stamp.                                                    *)
PrepareToWait(t) ==
    /\ waits[t].at = "prepare"
    /\ Goes(t, [waits[t] EXCEPT !.at = "read", !.awake = FALSE])
    /\ UNCHANGED <<gPVRSRVLock, sList, walk>>

(* What the time stamps say; those of a freed object may say anything.      *)
NewStamp(t, stamp) ==
    IF waits[t].object \in Listed
    THEN stamp = sList[waits[t].object].sTimeStamp
    ELSE stamp \in Stamps
Differs(t, stamp) ==
    IF waits[t].object \in Listed
    THEN {sList[waits[t].object].ui32TimeStampPrevious # stamp}
    ELSE BOOLEAN

ReadStamp(t) ==
    /\ waits[t].at = "read"
    /\ \E stamp \in Stamps :
         /\ NewStamp(t, stamp)
         /\ \E differs \in Differs(t, stamp) :
              Goes(t, [waits[t] EXCEPT !.stamp = stamp,
                                       !.at = IF differs THEN "finish" ELSE "sleep"])
    /\ UNCHANGED <<gPVRSRVLock, sList, walk>>

UnlockBridge(t) ==
    /\ waits[t].at = "sleep" /\ gPVRSRVLock = t
    /\ gPVRSRVLock' = "none"
    /\ UNCHANGED <<sList, waits, walk>>

(* The sleep ends with a wake-up, or with a signal to the thread, or when   *)
(* the time is over; a thread that was woken may find no time left.         *)
ScheduleTimeout(t) ==
    /\ waits[t].at = "sleep" /\ gPVRSRVLock # t
    /\ \E left \in BOOLEAN : Goes(t, [waits[t] EXCEPT !.at = "relock", !.awake = TRUE, !.time = left])
    /\ UNCHANGED <<gPVRSRVLock, sList, walk>>

RelockBridge(t) ==
    /\ waits[t].at = "relock" /\ gPVRSRVLock = "none"
    /\ gPVRSRVLock' = t
    /\ Goes(t, [waits[t] EXCEPT !.at = IF waits[t].time THEN "prepare" ELSE "finish"])
    /\ UNCHANGED <<sList, walk>>

(* Mutant of Reported: the stamp is read once more.                         *)
ReportedNow(t) ==
    IF waits[t].object \in Listed
    THEN [sList EXCEPT ![waits[t].object].ui32TimeStampPrevious = sList[waits[t].object].sTimeStamp]
    ELSE sList

(* The object has reported the stamp that was read last.                    *)
Reported(t) ==
    IF waits[t].object \in Listed
    THEN [sList EXCEPT ![waits[t].object].ui32TimeStampPrevious = waits[t].stamp]
    ELSE sList

FinishWait(t) ==
    /\ waits[t].at = "finish"
    /\ sList' = Reported(t)
    /\ Goes(t, NoWait)
    /\ gPVRSRVLock' = "none"
    /\ UNCHANGED walk

Next ==
    \/ LinuxEventObjectSignal \/ WakeUp
    \/ \E o \in Objects : Stamp(o)
    \/ \E p \in Owners : ProcessEnds(p)
    \/ \E t \in Threads :
         \/ \E o \in Objects : \/ LinuxEventObjectAdd(t, o) \/ LinuxEventObjectDelete(t, o)
                               \/ LinuxEventObjectWait(t, o)
         \/ PrepareToWait(t) \/ ReadStamp(t) \/ UnlockBridge(t)
         \/ ScheduleTimeout(t) \/ RelockBridge(t) \/ FinishWait(t)

Spec == Init /\ [][Next]_vars

-----------------------------------------------------------------------------
TypeOK ==
    /\ gPVRSRVLock \in Threads \cup {"none"}
    /\ Listed \subseteq Objects
    /\ \A o \in Listed : sList[o] \in [owner : Owners, sTimeStamp : Stamps,
                                       ui32TimeStampPrevious : Stamps, users : SUBSET Threads]
    /\ waits \in [Threads -> [at : {"out", "prepare", "read", "sleep", "relock", "finish"},
                              object : Objects \cup {"none"}, stamp : Stamps,
                              awake : BOOLEAN, time : BOOLEAN]]
    /\ walk \in [todo : SUBSET Objects, stamped : Objects \cup {"none"}, started : Stamps]

(* Nobody sleeps through a signal: who has not been woken has seen the last *)
(* stamp of the object, or the MISR is about to wake it.                    *)
NotSleptThrough ==
    \A t \in Threads : LET o == waits[t].object IN
        waits[t].at = "sleep" /\ ~waits[t].awake /\ o \in Listed /\ walk.stamped # o =>
            waits[t].stamp = sList[o].sTimeStamp

(* An object is freed under a waiter by another thread of its own process   *)
(* and nobody else: with no thread of its process outside the wait, what a  *)
(* thread waits for is listed.                                              *)
Alone(t) == \A u \in Threads \ {t} : Process[u] # Process[t]
WaitedForExists == \A t \in Threads : Alone(t) /\ waits[t].at # "out" => waits[t].object \in Listed

SignalsReach == NotSleptThrough /\ WaitedForExists

(* Unless two threads wait for the same object, what it has reported moves  *)
(* on, never back, and only when a wait answers PVRSRV_OK: a signal that    *)
(* meets the end of the time is left for the next wait to report.           *)
SignalsReported == [][
    \A o \in Listed \cap DOMAIN sList' :
        LET old == sList[o].ui32TimeStampPrevious  new == sList'[o].ui32TimeStampPrevious IN
        Cardinality(sList[o].users) = 1 /\ new # old =>
            /\ new > old
            /\ \E t \in sList[o].users : waits[t].at = "finish" /\ waits[t].time
    ]_vars

=============================================================================
