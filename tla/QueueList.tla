------------------------------- MODULE QueueList -------------------------------
(***************************************************************************)
(* The list of the command queues (queue.c) and the lock sQProcessResource *)
(* that its walkers share with the calls that create and destroy queues,   *)
(* access by access (osfunc.c).  The calls run one at a time under the     *)
(* bridge lock and try the lock once; walkers try until they have it.      *)
(*                                                                         *)
(* The first queue resets the lock and the last one breaks it, whoever has *)
(* it.  Where a walker of the empty list has it then, it loses it: it may  *)
(* later release the lock of another, a call may find its own lock gone    *)
(* and free a queue that is in the list.  This ends a behaviour here.      *)
(***************************************************************************)
EXTENDS Naturals, Sequences, SequencesExt

CONSTANTS
    Queues,   \* those that are created, each once
    Walkers,  \* the MISR and a hardware recovery, both with ISR_ID
    Nobody    \* no queue, and no owner of the lock

VARIABLES
    psQueueList,
    allocated,   \* the queues that have memory
    orphans,     \* those whose destruction failed: nobody will try again
    ui32Lock, ui32ID,
    walk,        \* PVRSRVProcessQueues: where each walker is
    call,        \* the call that runs
    broken       \* the lock was taken from somebody

queueVars == <<psQueueList, allocated, orphans, ui32Lock, ui32ID, walk, call, broken>>

NoCall == [pc |-> "idle", queue |-> Nobody, kind |-> "none"]
Head0  == IF psQueueList = <<>> THEN Nobody ELSE Head(psQueueList)
Place(q) == CHOOSE i \in DOMAIN psQueueList : psQueueList[i] = q
After(q) == IF Place(q) < Len(psQueueList) THEN psQueueList[Place(q) + 1] ELSE Nobody

Init ==
    /\ psQueueList = <<>> /\ allocated = {} /\ orphans = {}
    /\ ui32Lock = FALSE /\ ui32ID = Nobody
    /\ walk = [w \in Walkers |-> [pc |-> "idle", at |-> Nobody]]
    /\ call = NoCall
    /\ broken = FALSE

-----------------------------------------------------------------------------
(* The lock.  A step of one takes it from pc to pc; the ID is stored after  *)
(* the lock is taken and cleared before it is released.                     *)

(* Mutant of OSLockResource: everybody who asks gets it.                    *)
LockAlways(got, refused) ==
    ui32Lock' = TRUE /\ got /\ UNCHANGED ui32ID

OSLockResource(got, refused) ==
    \/ ~ui32Lock /\ ui32Lock' = TRUE /\ got /\ UNCHANGED ui32ID
    \/ ui32Lock /\ refused /\ UNCHANGED <<ui32Lock, ui32ID>>

Owns(id) == ui32ID' = id /\ UNCHANGED ui32Lock

(* The ID that tells whether the lock is the caller's is that of its kind.  *)
OSUnlockResource(pc, id) ==
    CASE pc = "locked?" -> IF ui32Lock THEN "own?" ELSE "refused"
      [] pc = "own?"    -> IF ui32ID = id THEN "clear" ELSE "refused"
      [] pc = "clear"   -> "release"

Unlocking == {"locked?", "own?", "clear"}
Clears(pc) == ui32ID' = (IF pc = "clear" THEN Nobody ELSE ui32ID) /\ UNCHANGED ui32Lock

Release == ui32Lock' = FALSE /\ UNCHANGED ui32ID

-----------------------------------------------------------------------------
(* PVRSRVProcessQueues, of which the commands themselves are CommandQueue.  *)

Goes(w, pc) == walk' = [walk EXCEPT ![w].pc = pc]
Walk(w) ==
    /\ ~broken
    /\ \/ walk[w].pc = "idle" /\ OSLockResource(Goes(w, "own"), UNCHANGED walk)
       \/ walk[w].pc = "own" /\ Owns("ISR") /\ Goes(w, "head")
       \/ /\ walk[w].pc = "head" /\ UNCHANGED <<ui32Lock, ui32ID>>
          /\ walk' = [walk EXCEPT ![w] = [pc |-> "walk", at |-> Head0]]
       \/ /\ walk[w].pc = "walk" /\ walk[w].at # Nobody /\ UNCHANGED <<ui32Lock, ui32ID>>
          /\ walk' = [walk EXCEPT ![w].at = After(@)]
       \/ walk[w].pc = "walk" /\ walk[w].at = Nobody /\ Goes(w, "locked?") /\ UNCHANGED <<ui32Lock, ui32ID>>
       \/ /\ walk[w].pc \in Unlocking /\ Clears(walk[w].pc)
          /\ LET pc == OSUnlockResource(walk[w].pc, "ISR") IN Goes(w, IF pc = "refused" THEN "idle" ELSE pc)
       \/ walk[w].pc = "release" /\ Release /\ Goes(w, "idle")
    /\ UNCHANGED <<psQueueList, allocated, orphans, call, broken>>

-----------------------------------------------------------------------------
(* The calls.                                                               *)

Calls(pc) == call' = [call EXCEPT !.pc = pc]
Ends == call' = NoCall
Kept == UNCHANGED <<psQueueList, allocated, orphans>>

(* Missing memory fails the call before anything has changed.               *)
PVRSRVCreateCommandQueueKM(q) ==
    /\ ~broken /\ call.pc = "idle" /\ q \notin allocated \cup orphans
    /\ allocated' = allocated \cup {q}
    /\ call' = [pc |-> IF psQueueList = <<>> THEN "reset" ELSE "lock", queue |-> q, kind |-> "create"]
    /\ UNCHANGED <<psQueueList, orphans, ui32Lock, ui32ID, walk, broken>>

OSCreateResource ==
    /\ ~broken
    /\ \/ call.pc = "reset" /\ ui32ID' = Nobody /\ Calls("reset lock") /\ UNCHANGED <<ui32Lock, broken>>
       \/ call.pc = "reset lock" /\ Release /\ Calls("lock") /\ broken' = ui32Lock
    /\ Kept /\ UNCHANGED walk

(* Mutant of PVRSRVDestroyCommandQueueKM: the list is changed at once.      *)
DestroyUnlocked(q) ==
    /\ ~broken /\ call.pc = "idle" /\ q \in ToSet(psQueueList) \ orphans
    /\ \/ call' = [pc |-> "change", queue |-> q, kind |-> "destroy"] /\ UNCHANGED orphans
       \/ orphans' = orphans \cup {q} /\ UNCHANGED call
    /\ UNCHANGED <<psQueueList, allocated, ui32Lock, ui32ID, walk, broken>>

(* A queue that is not empty in time is an error before the lock is tried.  *)
PVRSRVDestroyCommandQueueKM(q) ==
    /\ ~broken /\ call.pc = "idle" /\ q \in ToSet(psQueueList) \ orphans
    /\ \/ call' = [pc |-> "lock", queue |-> q, kind |-> "destroy"] /\ UNCHANGED orphans
       \/ orphans' = orphans \cup {q} /\ UNCHANGED call
    /\ UNCHANGED <<psQueueList, allocated, ui32Lock, ui32ID, walk, broken>>

(* The lock is not to be had: a new queue is freed, an old one stays.       *)
Abandons ==
    /\ Ends
    /\ IF call.kind = "create" THEN allocated' = allocated \ {call.queue} /\ UNCHANGED orphans
       ELSE orphans' = orphans \cup {call.queue} /\ UNCHANGED allocated

Locks ==
    /\ ~broken
    /\ \/ /\ call.pc = "lock"
          /\ OSLockResource(Calls("own") /\ UNCHANGED <<allocated, orphans>>, Abandons)
       \/ call.pc = "own" /\ Owns("KERNEL") /\ Calls("change") /\ UNCHANGED <<allocated, orphans>>
    /\ UNCHANGED <<psQueueList, walk, broken>>

Changes ==
    /\ ~broken /\ call.pc = "change"
    /\ IF call.kind = "create"
       THEN psQueueList' = <<call.queue>> \o psQueueList /\ UNCHANGED allocated
       ELSE /\ psQueueList' = RemoveAt(psQueueList, Place(call.queue))
            /\ allocated' = allocated \ {call.queue}
    /\ Calls("locked?")
    /\ UNCHANGED <<orphans, ui32Lock, ui32ID, walk, broken>>

(* An unlock that fails frees a queue that was created, list or no list.    *)
Fails == Ends /\ IF call.kind = "create" THEN allocated' = allocated \ {call.queue}
                 ELSE UNCHANGED allocated

Unlocks ==
    /\ ~broken
    /\ \/ /\ call.pc \in Unlocking /\ Clears(call.pc)
          /\ LET pc == OSUnlockResource(call.pc, "KERNEL")
             IN IF pc = "refused" THEN Fails ELSE Calls(pc) /\ UNCHANGED allocated
       \/ /\ call.pc = "release" /\ Release /\ UNCHANGED allocated
          /\ IF call.kind = "destroy" /\ psQueueList = <<>> THEN Calls("break") ELSE Ends
    /\ UNCHANGED <<psQueueList, orphans, walk, broken>>

(* OSBreakResourceLock is given the ID it compares with.                    *)
OSDestroyResource ==
    /\ ~broken
    /\ \/ call.pc = "break" /\ (IF ui32Lock THEN Calls("break ID") ELSE Ends)
          /\ UNCHANGED <<ui32Lock, ui32ID, broken>>
       \/ call.pc = "break ID" /\ ui32ID' = Nobody /\ Calls("break lock") /\ UNCHANGED <<ui32Lock, broken>>
       \/ call.pc = "break lock" /\ Release /\ Ends /\ broken' = ui32Lock
    /\ Kept /\ UNCHANGED walk

Broken == broken /\ UNCHANGED queueVars

Next ==
    \/ \E w \in Walkers : Walk(w)
    \/ \E q \in Queues : PVRSRVCreateCommandQueueKM(q) \/ PVRSRVDestroyCommandQueueKM(q)
    \/ OSCreateResource \/ Locks \/ Changes \/ Unlocks \/ OSDestroyResource \/ Broken

Spec == Init /\ [][Next]_queueVars

-----------------------------------------------------------------------------
(* As long as nobody lost the lock: of those who walk or change the list    *)
(* there is one; a walker stands on a queue that has memory; the list holds *)
(* exactly the queues that have memory, but for one that is being created,  *)
(* and every queue that nobody will destroy is still in it.  And nobody     *)
(* loses the lock while he stands on a queue, or while there is one.        *)
Inside == {w \in Walkers : walk[w].pc \in {"head", "walk"}}
          \cup IF call.pc = "change" THEN {"call"} ELSE {}
Created == IF call.kind = "create" /\ call.pc \in {"reset", "reset lock", "lock", "own", "change"}
           THEN {call.queue} ELSE {}

QueuesSound ==
    /\ broken => psQueueList = <<>> /\ \A w \in Walkers : walk[w].at = Nobody
    /\ ~broken =>
        /\ \A a, b \in Inside : a = b
        /\ \A w \in Walkers : walk[w].pc = "walk" /\ walk[w].at # Nobody => walk[w].at \in allocated
        /\ ToSet(psQueueList) = allocated \ Created /\ IsInjective(psQueueList)
        /\ orphans \subseteq ToSet(psQueueList)

=============================================================================
