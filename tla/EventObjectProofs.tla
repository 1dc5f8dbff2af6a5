-------------------------- MODULE EventObjectProofs --------------------------
(* Theorems about EventObject, for any threads, processes and objects.      *)
EXTENDS EventObject, FiniteSetTheorems, TLAPS

-----------------------------------------------------------------------------
(* The inductive invariant.                                                 *)

Object == [owner : Owners, sTimeStamp : Stamps, ui32TimeStampPrevious : Stamps,
           users : SUBSET Threads]
Wait   == [at : {"out", "prepare", "read", "sleep", "relock", "finish"},
           object : Objects \cup {"none"}, stamp : Stamps, awake : BOOLEAN, time : BOOLEAN]

(* A walk visits the listed objects, each of which it stamps once.          *)
WalkOK ==
    /\ walk.todo \subseteq Listed
    /\ walk.stamped # "none" => walk.stamped \in walk.todo
    /\ \A o \in Listed : /\ sList[o].sTimeStamp <= walk.started
                         /\ o \in walk.todo /\ walk.stamped # o
                              => sList[o].sTimeStamp < walk.started

(* What an object has reported was stamped.                                 *)
ReportedOK(e) == e.ui32TimeStampPrevious <= e.sTimeStamp /\ IsFiniteSet(e.users)

(* What a thread t, which waits for o, knows of it: a stamp that o had, and *)
(* if nobody else ever waited for o, one that o has not reported yet.       *)
WaitOK(t, w, e) ==
    /\ e.owner = Process[t] /\ t \in e.users
    /\ w.stamp <= e.sTimeStamp
    /\ e.users = {t} =>
         /\ w.at = "finish" /\ w.time => w.stamp > e.ui32TimeStampPrevious
         /\ w.at = "finish" /\ ~w.time => w.stamp = e.ui32TimeStampPrevious
         /\ w.at \in {"sleep", "relock"} => w.stamp = e.ui32TimeStampPrevious

(* Where a thread is.  Alone, it has an object; asleep, it has seen the last *)
(* stamp or is about to be woken.                                           *)
ThreadOK(t, w) ==
    /\ w.at \in {"prepare", "read", "sleep"} => w.time
    /\ w.at = "out" => w.object = "none"
    /\ Alone(t) /\ w.at # "out" => w.object \in Listed
    /\ w.object \in Listed => WaitOK(t, w, sList[w.object])
    /\ w.object \in Listed /\ w.at = "sleep" /\ ~w.awake /\ walk.stamped # w.object =>
           w.stamp = sList[w.object].sTimeStamp

Types ==
    /\ gPVRSRVLock \in Threads \cup {"none"}
    /\ Listed \subseteq Objects /\ sList \in [Listed -> Object]
    /\ waits \in [Threads -> Wait]
    /\ walk \in [todo : SUBSET Objects, stamped : Objects \cup {"none"}, started : Stamps]

IInv ==
    /\ Types /\ WalkOK
    /\ \A o \in Listed : ReportedOK(sList[o])
    /\ \A t \in Threads : ThreadOK(t, waits[t])

(* The invariant holds the types and what the runs check.                   *)
LEMMA InvMeans ==
  ASSUME IInv
  PROVE  TypeOK /\ SignalsReach
<1>1. TypeOK
  BY DEF IInv, Types, TypeOK, Object, Wait
<1>2. NotSleptThrough
  BY DEF IInv, NotSleptThrough, ThreadOK
<1>3. WaitedForExists
  BY DEF IInv, WaitedForExists, ThreadOK
<1> QED BY <1>1, <1>2, <1>3 DEF SignalsReach

(* Nobody waits, and no object is listed, when the driver starts.           *)
LEMMA InitInv == ASSUME NamesOK, Init PROVE IInv
<1>1. Listed = {} /\ sList \in [Listed -> Object]
  BY DEF Init, Listed
<1>2. NoWait \in Wait /\ 0 \in Stamps
  BY DEF NoWait, Wait, Stamps, NamesOK
<1>3. Types
  BY <1>1, <1>2 DEF Init, Types
<1>4. \A t \in Threads : ThreadOK(t, waits[t])
  BY <1>1 DEF Init, ThreadOK, NoWait
<1> QED BY <1>1, <1>3, <1>4 DEF IInv, WalkOK, Init

-----------------------------------------------------------------------------
(* Steps of a waiting thread that do not touch the objects.                 *)
LEMMA Moves ==
  ASSUME IInv, NEW t \in Threads, NEW w \in Wait,
         waits' = [waits EXCEPT ![t] = w], UNCHANGED <<sList, walk>>,
         gPVRSRVLock' \in Threads \cup {"none"}, ThreadOK(t, w)
  PROVE  IInv'
<1>1. Types' /\ Listed' = Listed
  BY DEF IInv, Types, Listed
<1>2. WalkOK' /\ \A o \in Listed' : ReportedOK(sList'[o])
  BY <1>1 DEF IInv, WalkOK
<1>3. ASSUME NEW u \in Threads PROVE ThreadOK(u, waits[u])'
  <2>1. waits'[u] = IF u = t THEN w ELSE waits[u]
    BY DEF IInv, Types
  <2>2. ThreadOK(u, waits'[u])
    BY <2>1 DEF IInv
  <2> QED BY <1>1, <2>2 DEF ThreadOK
<1> QED BY <1>1, <1>2, <1>3 DEF IInv

(* The thread joins the queue; it stays with its object.                    *)
LEMMA PrepareKeeps ==
  ASSUME NamesOK, IInv, NEW t \in Threads, PrepareToWait(t)
  PROVE  IInv'
<1> DEFINE w == [waits[t] EXCEPT !.at = "read", !.awake = FALSE]
<1>1. waits[t] \in Wait /\ ThreadOK(t, waits[t]) /\ gPVRSRVLock \in Threads \cup {"none"}
  BY DEF IInv, Types
<1>2. /\ waits' = [waits EXCEPT ![t] = w] /\ UNCHANGED <<sList, walk, gPVRSRVLock>>
      /\ waits[t].at = "prepare"
  BY DEF PrepareToWait, Goes
<1>3. /\ w \in Wait /\ w.at = "read" /\ w.object = waits[t].object /\ w.time = waits[t].time
      /\ w.stamp = waits[t].stamp
  BY <1>1 DEF Wait
<1> HIDE DEF w
<1>4. ThreadOK(t, w)
  BY <1>1, <1>2, <1>3 DEF ThreadOK, WaitOK
<1> QED BY <1>1, <1>2, <1>3, <1>4, Moves

(* Whether the wait ends is what the two stamps of the object said.         *)
LEMMA ReadKeeps ==
  ASSUME NamesOK, IInv, NEW t \in Threads, ReadStamp(t)
  PROVE  IInv'
<1>1. waits[t] \in Wait /\ ThreadOK(t, waits[t]) /\ gPVRSRVLock \in Threads \cup {"none"}
      /\ sList \in [Listed -> Object]
  BY DEF IInv, Types
<1>2. PICK stamp \in Stamps, differs \in BOOLEAN :
        /\ NewStamp(t, stamp) /\ differs \in Differs(t, stamp)
        /\ waits' = [waits EXCEPT ![t] = [waits[t] EXCEPT !.stamp = stamp,
                        !.at = IF differs THEN "finish" ELSE "sleep"]]
  BY Zenon DEF ReadStamp, Goes, Differs
<1> DEFINE w == [waits[t] EXCEPT !.stamp = stamp, !.at = IF differs THEN "finish" ELSE "sleep"]
<1>3. /\ waits' = [waits EXCEPT ![t] = w] /\ UNCHANGED <<sList, walk, gPVRSRVLock>>
      /\ waits[t].at = "read"
  BY <1>2 DEF ReadStamp
<1>4. /\ w \in Wait /\ w.at = (IF differs THEN "finish" ELSE "sleep")
      /\ w.object = waits[t].object
      /\ w.time = waits[t].time /\ w.stamp = stamp
  BY <1>1 DEF Wait
<1> HIDE DEF w
<1>5. ThreadOK(t, w)
  <2>1. CASE waits[t].object \in Listed
    <3> DEFINE e == sList[waits[t].object]
    <3>1. /\ stamp = e.sTimeStamp
          /\ differs => e.ui32TimeStampPrevious # stamp
          /\ ~differs => e.ui32TimeStampPrevious = stamp
      BY <1>2, <2>1 DEF NewStamp, Differs
    <3>2. e \in Object /\ ReportedOK(e)
      BY <1>1, <2>1 DEF IInv
    <3>3. e.ui32TimeStampPrevious \in Int /\ e.sTimeStamp \in Int
      BY <3>2 DEF Object, Stamps, NamesOK
    <3>4. stamp <= e.sTimeStamp /\ (differs => stamp > e.ui32TimeStampPrevious)
      <4> HIDE DEF e
      <4> QED BY <3>1, <3>2, <3>3 DEF ReportedOK
    <3>5. WaitOK(t, waits[t], e) /\ waits[t].time
      BY <1>1, <1>3, <2>1 DEF ThreadOK
    <3> HIDE DEF e
    <3>6. WaitOK(t, w, e)
      BY <1>4, <3>1, <3>4, <3>5 DEF WaitOK
    <3> QED BY <1>1, <1>3, <1>4, <2>1, <3>1, <3>6 DEF ThreadOK, e
  <2>2. CASE waits[t].object \notin Listed
    BY <1>1, <1>3, <1>4, <2>2 DEF ThreadOK
  <2> QED BY <2>1, <2>2
<1> QED BY <1>1, <1>3, <1>4, <1>5, Moves

(* The sleep ends, by a wake-up or by the end of the time.                  *)
LEMMA SleepKeeps ==
  ASSUME NamesOK, IInv, NEW t \in Threads, ScheduleTimeout(t)
  PROVE  IInv'
<1>1. waits[t] \in Wait /\ ThreadOK(t, waits[t]) /\ gPVRSRVLock \in Threads \cup {"none"}
  BY DEF IInv, Types
<1>2. PICK left \in BOOLEAN :
        waits' = [waits EXCEPT ![t] = [waits[t] EXCEPT !.at = "relock", !.awake = TRUE,
                                              !.time = left]]
  BY Zenon DEF ScheduleTimeout, Goes
<1> DEFINE w == [waits[t] EXCEPT !.at = "relock", !.awake = TRUE, !.time = left]
<1>3. /\ waits' = [waits EXCEPT ![t] = w] /\ UNCHANGED <<sList, walk, gPVRSRVLock>>
      /\ waits[t].at = "sleep"
  BY <1>2 DEF ScheduleTimeout
<1>4. /\ w \in Wait /\ w.at = "relock" /\ w.object = waits[t].object /\ w.stamp = waits[t].stamp
  BY <1>1 DEF Wait
<1> HIDE DEF w
<1>5. ThreadOK(t, w)
  BY <1>1, <1>3, <1>4 DEF ThreadOK, WaitOK
<1> QED BY <1>1, <1>3, <1>4, <1>5, Moves

(* With the lock again, the thread looks once more or gives up.             *)
LEMMA RelockKeeps ==
  ASSUME NamesOK, IInv, NEW t \in Threads, RelockBridge(t)
  PROVE  IInv'
<1> DEFINE w == [waits[t] EXCEPT !.at = IF waits[t].time THEN "prepare" ELSE "finish"]
<1>1. waits[t] \in Wait /\ ThreadOK(t, waits[t])
  BY DEF IInv, Types
<1>2. /\ waits' = [waits EXCEPT ![t] = w] /\ UNCHANGED <<sList, walk>> /\ gPVRSRVLock' = t
      /\ waits[t].at = "relock"
  BY DEF RelockBridge, Goes
<1>3. /\ w \in Wait /\ w.at = (IF waits[t].time THEN "prepare" ELSE "finish")
      /\ w.object = waits[t].object /\ w.time = waits[t].time /\ w.stamp = waits[t].stamp
  BY <1>1 DEF Wait
<1> HIDE DEF w
<1>4. ThreadOK(t, w)
  BY <1>1, <1>2, <1>3 DEF ThreadOK, WaitOK
<1> QED BY <1>2, <1>3, <1>4, Moves

(* Only the lock changes before the sleep.                                  *)
LEMMA UnlockKeeps ==
  ASSUME NamesOK, IInv, NEW t \in Threads, UnlockBridge(t)
  PROVE  IInv'
<1>1. UNCHANGED <<sList, walk, waits>> /\ gPVRSRVLock' = "none"
  BY DEF UnlockBridge
<1> QED BY <1>1 DEF IInv, Types, WalkOK, ThreadOK, Listed

-----------------------------------------------------------------------------
(* Objects come and go only between two walks.                              *)
LEMMA BetweenWalks ==
  ASSUME NamesOK, IInv, Writable, waits' = waits, walk' = walk, gPVRSRVLock' = gPVRSRVLock,
         Listed' \subseteq Objects, sList' \in [Listed' -> Object],
         \A x \in Listed' : IF x \in Listed THEN sList'[x] = sList[x]
                            ELSE /\ sList'[x].sTimeStamp = 0 /\ ReportedOK(sList'[x])
                                 /\ \A u \in Threads : waits[u].object # x,
         \A u \in Threads : Alone(u) /\ waits[u].at # "out" => waits[u].object \in Listed'
  PROVE  IInv'
<1>1. Types'
  BY DEF IInv, Types
<1>2. walk.todo = {} /\ walk.stamped = "none" /\ walk.started \in Nat
  BY DEF IInv, Types, WalkOK, Writable, Stamps, NamesOK
<1>3. WalkOK'
  <2>1. ASSUME NEW x \in Listed' PROVE sList'[x].sTimeStamp <= walk.started
    BY <1>2 DEF IInv, WalkOK
  <2> QED BY <1>2, <2>1 DEF WalkOK
<1>4. \A x \in Listed' : ReportedOK(sList'[x])
  BY DEF IInv
<1>5. ASSUME NEW u \in Threads PROVE ThreadOK(u, waits[u])'
  <2>1. ThreadOK(u, waits[u])
    BY DEF IInv
  <2>2. waits[u].object \in Listed' => /\ waits[u].object \in Listed
                                       /\ sList'[waits[u].object] = sList[waits[u].object]
    OBVIOUS
  <2> QED BY <2>1, <2>2 DEF ThreadOK, Alone
<1> QED BY <1>1, <1>3, <1>4, <1>5 DEF IInv

(* A new object is one that nobody waits for, and a walk is not under       *)
(* way.                                                                     *)
LEMMA AddKeeps ==
  ASSUME NamesOK, IInv, NEW t \in Threads, NEW o \in Objects, LinuxEventObjectAdd(t, o)
  PROVE  IInv'
<1> DEFINE e == [owner |-> Process[t], sTimeStamp |-> 0, ui32TimeStampPrevious |-> 0,
                  users |-> {}]
<1>1. e \in Object
  BY DEF Object, Owners, Stamps, NamesOK
<1>2. ReportedOK(e) /\ e.sTimeStamp = 0
  BY FS_EmptySet DEF ReportedOK
<1> HIDE DEF e
<1>3. /\ sList' = [x \in Listed \cup {o} |-> IF x = o THEN e ELSE sList[x]]
      /\ Writable /\ waits' = waits /\ walk' = walk /\ gPVRSRVLock' = gPVRSRVLock
      /\ o \notin Listed /\ \A u \in Threads : waits[u].object # o
  BY DEF LinuxEventObjectAdd, e
<1>4. Listed \subseteq Objects /\ sList \in [Listed -> Object]
  BY DEF IInv, Types
<1>5. Listed' = Listed \cup {o} /\ sList' \in [Listed' -> Object]
  BY <1>1, <1>3, <1>4 DEF Listed
<1>6. ASSUME NEW x \in Listed'
      PROVE  IF x \in Listed THEN sList'[x] = sList[x]
             ELSE /\ sList'[x].sTimeStamp = 0 /\ ReportedOK(sList'[x])
                  /\ \A u \in Threads : waits[u].object # x
  BY <1>2, <1>3, <1>5
<1>7. \A u \in Threads : Alone(u) /\ waits[u].at # "out" => waits[u].object \in Listed'
  BY <1>5 DEF IInv, ThreadOK
<1> QED BY <1>3, <1>4, <1>5, <1>6, <1>7, BetweenWalks

(* Objects are closed by their process, by a thread that does not wait.     *)
LEMMA CloseKeeps ==
  ASSUME NamesOK, IInv, Writable, NEW os, LinuxEventObjectDeleteCallback(os),
         waits' = waits, walk' = walk, gPVRSRVLock' = gPVRSRVLock,
         \A u \in Threads : Alone(u) /\ waits[u].at # "out" => waits[u].object \notin os
  PROVE  IInv'
<1>1. Listed \subseteq Objects /\ sList \in [Listed -> Object]
  BY DEF IInv, Types
<1>2. /\ Listed' = Listed \ os /\ sList' \in [Listed' -> Object]
      /\ \A x \in Listed' : x \in Listed /\ sList'[x] = sList[x]
  BY <1>1 DEF LinuxEventObjectDeleteCallback, Listed
<1>3. \A u \in Threads : Alone(u) /\ waits[u].at # "out" => waits[u].object \in Listed'
  BY <1>2 DEF IInv, ThreadOK
<1> QED BY <1>1, <1>2, <1>3, BetweenWalks

(* A thread that is alone in its process cannot both wait and close.        *)
LEMMA DeleteKeeps ==
  ASSUME NamesOK, IInv, NEW t \in Threads, NEW o \in Objects, LinuxEventObjectDelete(t, o)
  PROVE  IInv'
<1>1. ASSUME NEW u \in Threads, Alone(u), waits[u].at # "out" PROVE waits[u].object \notin {o}
  <2>1. o \in Listed /\ sList[o].owner = Process[t] /\ waits[t].at = "out"
    BY DEF LinuxEventObjectDelete
  <2>2. waits[u].object = o => Process[u] = Process[t]
    BY <2>1 DEF IInv, ThreadOK, WaitOK
  <2> QED BY <1>1, <2>1, <2>2 DEF Alone
<1> QED BY <1>1, CloseKeeps DEF LinuxEventObjectDelete

(* A process ends when none of its threads waits.                           *)
LEMMA EndsKeeps ==
  ASSUME NamesOK, IInv, NEW p \in Owners, ProcessEnds(p)
  PROVE  IInv'
<1> DEFINE os == {o \in Listed : sList[o].owner = p}
<1>1. ASSUME NEW u \in Threads, waits[u].at # "out" PROVE waits[u].object \notin os
  <2>1. Process[u] # p
    BY <1>1 DEF ProcessEnds
  <2> QED BY <2>1 DEF IInv, ThreadOK, WaitOK
<1> HIDE DEF os
<1>2. LinuxEventObjectDeleteCallback(os) /\ Writable
      /\ waits' = waits /\ walk' = walk /\ gPVRSRVLock' = gPVRSRVLock
  BY DEF ProcessEnds, os
<1> QED BY <1>1, <1>2, CloseKeeps

-----------------------------------------------------------------------------
(* The MISR's walk.                                                         *)
LEMMA SignalKeeps ==
  ASSUME NamesOK, IInv, LinuxEventObjectSignal
  PROVE  IInv'
<1>1. /\ UNCHANGED <<sList, waits, gPVRSRVLock>> /\ Listed' = Listed
      /\ walk' = [walk EXCEPT !.todo = Listed, !.started = @ + 1]
      /\ walk.todo = {} /\ walk.started < MaxSignals
  BY DEF LinuxEventObjectSignal, Listed
<1>2. /\ Listed \subseteq Objects /\ walk.started \in Nat /\ walk.stamped = "none"
      /\ walk \in [todo : SUBSET Objects, stamped : Objects \cup {"none"}, started : Stamps]
  BY <1>1 DEF IInv, Types, WalkOK, Stamps, NamesOK
<1>3. walk'.todo = Listed /\ walk'.stamped = "none" /\ walk'.started = walk.started + 1
  BY <1>1, <1>2
<1>4. walk.started + 1 \in Stamps
  BY <1>1, <1>2 DEF Stamps, NamesOK
<1>5. Types'
  BY <1>1, <1>2, <1>4 DEF IInv, Types
<1>6. ASSUME NEW x \in Listed
      PROVE  sList[x].sTimeStamp <= walk.started + 1 /\ sList[x].sTimeStamp < walk.started + 1
  <2>1. sList[x].sTimeStamp \in Nat /\ sList[x].sTimeStamp <= walk.started
    BY DEF IInv, Types, WalkOK, Object, Stamps, NamesOK
  <2> QED BY <1>2, <2>1
<1>7. WalkOK'
  BY <1>1, <1>3, <1>6 DEF WalkOK
<1>8. \A u \in Threads : ThreadOK(u, waits[u])'
  BY <1>1, <1>2, <1>3 DEF IInv, ThreadOK
<1> QED BY <1>1, <1>5, <1>7, <1>8 DEF IInv

(* Who sleeps on the stamped object is awake afterwards.                    *)
LEMMA WakeKeeps ==
  ASSUME NamesOK, IInv, WakeUp
  PROVE  IInv'
<1> DEFINE w(u) == IF u \in Queue(walk.stamped) THEN [waits[u] EXCEPT !.awake = TRUE]
                   ELSE waits[u]
<1>1. /\ UNCHANGED <<sList, gPVRSRVLock>> /\ Listed' = Listed /\ walk.stamped # "none"
      /\ walk' = [walk EXCEPT !.todo = @ \ {walk.stamped}, !.stamped = "none"]
      /\ waits' = [u \in Threads |-> w(u)]
  BY DEF WakeUp, Listed
<1>2. /\ waits \in [Threads -> Wait]
      /\ walk \in [todo : SUBSET Objects, stamped : Objects \cup {"none"}, started : Stamps]
  BY DEF IInv, Types
<1>3. /\ walk'.todo = walk.todo \ {walk.stamped} /\ walk'.stamped = "none"
      /\ walk'.started = walk.started
  BY <1>1, <1>2
<1>4. ASSUME NEW u \in Threads
      PROVE  /\ w(u) \in Wait
             /\ w(u).at = waits[u].at /\ w(u).object = waits[u].object
             /\ w(u).stamp = waits[u].stamp /\ w(u).time = waits[u].time
             /\ w(u).awake \/ (waits[u].at = "sleep" => waits[u].object # walk.stamped)
             /\ ~w(u).awake => ~waits[u].awake
  BY <1>2 DEF Wait, Queue
<1> HIDE DEF w
<1>5. waits' \in [Threads -> Wait] /\ \A u \in Threads : waits'[u] = w(u)
  BY <1>1, <1>4
<1>6. Types'
  BY <1>1, <1>2, <1>3, <1>5 DEF IInv, Types
<1>7. WalkOK'
  BY <1>1, <1>3 DEF IInv, WalkOK
<1>8. ASSUME NEW u \in Threads PROVE ThreadOK(u, waits[u])'
  <2>1. ThreadOK(u, waits[u])
    BY DEF IInv
  <2>2. /\ waits'[u].at = waits[u].at /\ waits'[u].object = waits[u].object
        /\ waits'[u].stamp = waits[u].stamp /\ waits'[u].time = waits[u].time
        /\ waits'[u].awake \/ (waits[u].at = "sleep" => waits[u].object # walk.stamped)
        /\ ~waits'[u].awake => ~waits[u].awake
    BY <1>4, <1>5
  <2>3. \A e : WaitOK(u, waits[u], e) => WaitOK(u, waits'[u], e)
    BY <2>2 DEF WaitOK
  <2> QED BY <1>1, <1>3, <2>1, <2>2, <2>3 DEF ThreadOK, Alone
<1> QED BY <1>1, <1>6, <1>7, <1>8 DEF IInv

-----------------------------------------------------------------------------
(* Steps that write one object of the list.                                 *)
LEMMA Writes ==
  ASSUME IInv, NEW o \in Listed, NEW e \in Object, sList' = [sList EXCEPT ![o] = e]
  PROVE  /\ Listed' = Listed /\ sList' \in [Listed' -> Object]
         /\ \A x \in Listed : sList'[x] = IF x = o THEN e ELSE sList[x]
BY DEF IInv, Types, Listed

(* The object is stamped before its queue is woken: till then a sleeper     *)
(* on it is one that the MISR is about to wake.                             *)
LEMMA StampKeeps ==
  ASSUME NamesOK, IInv, NEW o \in Objects, Stamp(o)
  PROVE  IInv'
<1> DEFINE e == [sList[o] EXCEPT !.sTimeStamp = @ + 1]
<1>1. /\ UNCHANGED <<waits, gPVRSRVLock>> /\ o \in walk.todo /\ walk.stamped = "none"
      /\ walk' = [walk EXCEPT !.stamped = o] /\ sList' = [sList EXCEPT ![o] = e]
  BY DEF Stamp
<1>2. /\ o \in Listed /\ sList[o] \in Object /\ ReportedOK(sList[o]) /\ o # "none"
      /\ walk \in [todo : SUBSET Objects, stamped : Objects \cup {"none"}, started : Stamps]
  BY <1>1 DEF IInv, Types, WalkOK, NamesOK
<1>3. sList[o].sTimeStamp \in Nat /\ walk.started \in Nat /\ sList[o].sTimeStamp < walk.started
  BY <1>1, <1>2 DEF IInv, WalkOK, Object, Stamps, NamesOK
<1>4. sList[o].sTimeStamp + 1 \in Stamps /\ sList[o].sTimeStamp + 1 <= walk.started
  <2>1. walk.started <= MaxSignals
    BY <1>2 DEF Stamps, NamesOK
  <2> QED BY <1>3, <2>1 DEF Stamps, NamesOK
<1>5. /\ e \in Object /\ e.owner = sList[o].owner /\ e.users = sList[o].users
      /\ e.sTimeStamp = sList[o].sTimeStamp + 1
      /\ e.ui32TimeStampPrevious = sList[o].ui32TimeStampPrevious
  BY <1>2, <1>4 DEF Object
<1> HIDE DEF e
<1>6. /\ Listed' = Listed /\ sList' \in [Listed' -> Object]
      /\ \A x \in Listed : sList'[x] = IF x = o THEN e ELSE sList[x]
  BY <1>1, <1>2, <1>5, Writes
<1>7. walk'.todo = walk.todo /\ walk'.stamped = o /\ walk'.started = walk.started
  BY <1>1, <1>2
<1>8. Types'
  BY <1>1, <1>2, <1>6, <1>7 DEF IInv, Types
<1>9. WalkOK'
  <2>1. walk'.todo \subseteq Listed' /\ walk'.stamped \in walk'.todo
    BY <1>1, <1>6, <1>7 DEF IInv, WalkOK
  <2>2. ASSUME NEW x \in Listed'
        PROVE  /\ sList'[x].sTimeStamp <= walk'.started
               /\ x \in walk'.todo /\ walk'.stamped # x => sList'[x].sTimeStamp < walk'.started
    <3>1. CASE x = o
      BY <1>4, <1>5, <1>6, <1>7, <3>1
    <3>2. CASE x # o
      <4>1. x # "none" /\ x \in Listed
        BY <1>2, <1>6 DEF IInv, Types, NamesOK
      <4> QED BY <1>1, <1>6, <1>7, <3>2, <4>1 DEF IInv, WalkOK
    <3> QED BY <3>1, <3>2
  <2> QED BY <2>1, <2>2 DEF WalkOK
<1>10. ASSUME NEW x \in Listed' PROVE ReportedOK(sList'[x])
  <2>1. e.ui32TimeStampPrevious <= e.sTimeStamp
    BY <1>2, <1>3, <1>5 DEF ReportedOK, Object, Stamps, NamesOK
  <2>2. ReportedOK(e)
    BY <1>2, <1>5, <2>1 DEF ReportedOK
  <2> QED BY <1>6, <2>2 DEF IInv
<1>11. ASSUME NEW u \in Threads PROVE ThreadOK(u, waits[u])'
  <2>1. ThreadOK(u, waits[u]) /\ waits[u] \in Wait
    BY DEF IInv, Types
  <2>2. ASSUME waits[u].object = o PROVE WaitOK(u, waits[u], e)
    <3>1. WaitOK(u, waits[u], sList[o]) /\ waits[u].stamp \in Int
      BY <1>2, <2>1, <2>2 DEF ThreadOK, Wait, Stamps, NamesOK
    <3>2. waits[u].stamp <= e.sTimeStamp
      BY <1>3, <1>5, <3>1 DEF WaitOK
    <3> QED BY <1>5, <3>1, <3>2 DEF WaitOK
  <2>3. waits[u].object \in Listed => waits[u].object # "none"
    BY DEF IInv, Types, NamesOK
  <2> QED BY <1>1, <1>6, <1>7, <2>1, <2>2, <2>3 DEF ThreadOK, Alone
<1> QED BY <1>6, <1>8, <1>9, <1>10, <1>11 DEF IInv

-----------------------------------------------------------------------------
(* A thread begins to wait, and a wait ends.                                *)
LEMMA WaitKeeps ==
  ASSUME NamesOK, IInv, NEW t \in Threads, NEW o \in Objects, LinuxEventObjectWait(t, o)
  PROVE  IInv'
<1> DEFINE e == [sList[o] EXCEPT !.users = @ \cup {t}]
           w == [NoWait EXCEPT !.at = "prepare", !.object = o]
<1>1. /\ o \in Listed /\ sList[o].owner = Process[t] /\ gPVRSRVLock' = t /\ walk' = walk
      /\ waits' = [waits EXCEPT ![t] = w] /\ sList' = [sList EXCEPT ![o] = e]
  BY DEF LinuxEventObjectWait, Goes
<1>2. sList[o] \in Object /\ ReportedOK(sList[o]) /\ waits \in [Threads -> Wait]
  BY <1>1 DEF IInv, Types
<1>3. /\ e \in Object /\ e.users = sList[o].users \cup {t} /\ e.owner = sList[o].owner
      /\ e.sTimeStamp = sList[o].sTimeStamp
      /\ e.ui32TimeStampPrevious = sList[o].ui32TimeStampPrevious
  BY <1>2 DEF Object
<1>4. /\ w \in Wait /\ w.at = "prepare" /\ w.object = o /\ w.stamp = 0 /\ w.time
  <2>1. NoWait \in Wait
    BY DEF Wait, NoWait, Stamps, NamesOK
  <2>2. NoWait.stamp = 0 /\ NoWait.time
    BY DEF NoWait
  <2> QED BY <2>1, <2>2 DEF Wait
<1> HIDE DEF e, w
<1>5. /\ Listed' = Listed /\ sList' \in [Listed' -> Object]
      /\ \A x \in Listed : sList'[x] = IF x = o THEN e ELSE sList[x]
  BY <1>1, <1>3, Writes
<1>6. \A u \in Threads : waits'[u] = IF u = t THEN w ELSE waits[u]
  BY <1>1, <1>2
<1>7. Types'
  BY <1>1, <1>2, <1>4, <1>5 DEF IInv, Types
<1>8. WalkOK'
  BY <1>1, <1>3, <1>5 DEF IInv, WalkOK
<1>9. ASSUME NEW x \in Listed' PROVE ReportedOK(sList'[x])
  <2>1. IsFiniteSet(e.users)
    BY <1>2, <1>3, FS_AddElement DEF ReportedOK
  <2>2. ReportedOK(e)
    BY <1>2, <1>3, <2>1 DEF ReportedOK
  <2> QED BY <1>5, <2>2 DEF IInv
<1>10. ThreadOK(t, waits[t])'
  <2>1. 0 <= e.sTimeStamp
    BY <1>3 DEF Object, Stamps, NamesOK
  <2>2. WaitOK(t, w, e)
    BY <1>1, <1>3, <1>4, <2>1 DEF WaitOK
  <2> QED BY <1>1, <1>4, <1>5, <1>6, <2>2 DEF ThreadOK
<1>11. ASSUME NEW u \in Threads, u # t PROVE ThreadOK(u, waits[u])'
  <2>1. ThreadOK(u, waits[u])
    BY DEF IInv
  <2>2. WaitOK(u, waits[u], sList[o]) => WaitOK(u, waits[u], e)
    BY <1>3, <1>11 DEF WaitOK
  <2>3. waits'[u] = waits[u]
    BY <1>6, <1>11
  <2> QED BY <1>1, <1>3, <1>5, <2>1, <2>2, <2>3 DEF ThreadOK, Alone
<1> QED BY <1>5, <1>7, <1>8, <1>9, <1>10, <1>11 DEF IInv

(* What is reported was read from the object and is no newer than its       *)
(* stamp.                                                                   *)
LEMMA FinishKeeps ==
  ASSUME NamesOK, IInv, NEW t \in Threads, FinishWait(t)
  PROVE  IInv'
<1> DEFINE o == waits[t].object
           e == [sList[o] EXCEPT !.ui32TimeStampPrevious = waits[t].stamp]
<1>1. /\ waits[t].at = "finish" /\ gPVRSRVLock' = "none" /\ walk' = walk
      /\ waits' = [waits EXCEPT ![t] = NoWait] /\ sList' = Reported(t)
  BY DEF FinishWait, Goes
<1>2. waits \in [Threads -> Wait] /\ NoWait \in Wait /\ sList \in [Listed -> Object]
  BY DEF IInv, Types, NoWait, Wait, Stamps, NamesOK
<1>3. \A u \in Threads : waits'[u] = IF u = t THEN NoWait ELSE waits[u]
  BY <1>1, <1>2
<1>4. NoWait.at = "out" /\ NoWait.object = "none" /\ NoWait.time /\ "none" \notin Listed
  BY DEF NoWait, NamesOK, IInv, Types
<1>5. ASSUME o \in Listed
      PROVE  /\ e \in Object /\ e.users = sList[o].users /\ e.owner = sList[o].owner
             /\ e.sTimeStamp = sList[o].sTimeStamp /\ ReportedOK(e) /\ t \in e.users
             /\ sList' = [sList EXCEPT ![o] = e]
  <2>1. sList[o] \in Object /\ ReportedOK(sList[o]) /\ waits[t].stamp \in Stamps
    BY <1>2, <1>5 DEF IInv, Wait
  <2>2. /\ e \in Object /\ e.users = sList[o].users /\ e.owner = sList[o].owner
        /\ e.sTimeStamp = sList[o].sTimeStamp /\ e.ui32TimeStampPrevious = waits[t].stamp
    BY <2>1 DEF Object
  <2>3. WaitOK(t, waits[t], sList[o])
    BY <1>5 DEF IInv, ThreadOK
  <2>4. sList' = [sList EXCEPT ![o] = e]
    BY <1>1, <1>5 DEF Reported
  <2> HIDE DEF e
  <2>5. ReportedOK(e) /\ t \in e.users
    BY <2>1, <2>2, <2>3 DEF ReportedOK, WaitOK
  <2> QED BY <2>2, <2>4, <2>5
<1> HIDE DEF e
<1>6. /\ Listed' = Listed /\ sList' \in [Listed -> Object]
      /\ \A x \in Listed : sList'[x] = IF x = o THEN e ELSE sList[x]
  <2>1. CASE o \in Listed
    BY <1>5, <2>1, Writes
  <2>2. CASE o \notin Listed
    BY <1>1, <1>2, <2>2 DEF Reported, Listed
  <2> QED BY <2>1, <2>2
<1> HIDE DEF o
<1>7. Types'
  BY <1>1, <1>2, <1>6 DEF IInv, Types
<1>8. WalkOK'
  BY <1>1, <1>5, <1>6 DEF IInv, WalkOK
<1>9. \A x \in Listed' : ReportedOK(sList'[x])
  BY <1>5, <1>6 DEF IInv
<1>10. ThreadOK(t, waits[t])'
  BY <1>1, <1>3, <1>4, <1>6 DEF ThreadOK
<1>11. ASSUME NEW u \in Threads, u # t PROVE ThreadOK(u, waits[u])'
  <2>1. ThreadOK(u, waits[u])
    BY DEF IInv
  <2>2. o \in Listed /\ WaitOK(u, waits[u], sList[o]) => WaitOK(u, waits[u], e)
    BY <1>5, <1>11 DEF WaitOK
  <2>3. waits'[u] = waits[u]
    BY <1>3, <1>11
  <2> QED BY <1>1, <1>5, <1>6, <2>1, <2>2, <2>3 DEF ThreadOK, Alone
<1> QED BY <1>6, <1>7, <1>8, <1>9, <1>10, <1>11 DEF IInv

-----------------------------------------------------------------------------
(* Every step keeps the invariant.                                          *)
LEMMA NextKeeps ==
  ASSUME NamesOK, IInv, [Next]_vars
  PROVE  IInv'
<1>1. CASE Next
  BY <1>1, SignalKeeps, WakeKeeps, StampKeeps, EndsKeeps, AddKeeps, DeleteKeeps, WaitKeeps,
     PrepareKeeps, ReadKeeps, UnlockKeeps, SleepKeeps, RelockKeeps, FinishKeeps DEF Next
<1>2. CASE UNCHANGED vars
  BY <1>2 DEF vars, IInv, Types, WalkOK, ThreadOK, Listed
<1> QED BY <1>1, <1>2

(* The invariant holds in every state.                                      *)
LEMMA InvAlways == ASSUME NamesOK PROVE Spec => []IInv
<1>1. Init => IInv
  BY InitInv
<1>2. IInv /\ [Next]_vars => IInv'
  BY NextKeeps
<1> QED BY <1>1, <1>2, PTL DEF Spec

(* The variables keep their types, and the list only objects (event.c,      *)
(* LinuxEventObjectAdd and LinuxEventObjectDeleteCallback).                 *)
THEOREM TypeCorrect == ASSUME NamesOK PROVE Spec => []TypeOK
<1>1. IInv => TypeOK
  BY InvMeans
<1> QED BY <1>1, InvAlways, PTL

(* No thread sleeps through a signal, and what a thread waits for exists    *)
(* unless another thread of its process closes it (LinuxEventObjectWait).   *)
THEOREM SignalsReachWaiters == ASSUME NamesOK PROVE Spec => []SignalsReach
<1>1. IInv => SignalsReach
  BY InvMeans
<1> QED BY <1>1, InvAlways, PTL

-----------------------------------------------------------------------------
(* What an object has reported when nobody finishes a wait.                 *)
SameReports == \A o \in Listed \cap DOMAIN sList' :
                 sList'[o].ui32TimeStampPrevious = sList[o].ui32TimeStampPrevious

(* What the end of the only wait for an object reports.                     *)
Reports ==
    \A o \in Listed \cap DOMAIN sList' :
        LET old == sList[o].ui32TimeStampPrevious  new == sList'[o].ui32TimeStampPrevious IN
        Cardinality(sList[o].users) = 1 /\ new # old =>
            /\ new > old
            /\ \E t \in sList[o].users : waits[t].at = "finish" /\ waits[t].time

(* No other step changes what an object has reported.                       *)
LEMMA OthersReportNothing ==
  ASSUME NamesOK, IInv, Next, \A t \in Threads : ~FinishWait(t)
  PROVE  SameReports
<1>1. sList \in [Listed -> Object]
  BY DEF IInv, Types
<1>2. CASE UNCHANGED sList
  BY <1>2 DEF SameReports
<1>3. ASSUME NEW t \in Threads, NEW o \in Objects, LinuxEventObjectAdd(t, o) PROVE SameReports
  BY <1>3 DEF SameReports, LinuxEventObjectAdd
<1>4. ASSUME NEW os, LinuxEventObjectDeleteCallback(os) PROVE SameReports
  BY <1>4 DEF SameReports, LinuxEventObjectDeleteCallback
<1>5. ASSUME NEW o \in Listed, NEW e \in Object, sList' = [sList EXCEPT ![o] = e],
             e.ui32TimeStampPrevious = sList[o].ui32TimeStampPrevious
      PROVE  SameReports
  BY <1>1, <1>5 DEF SameReports, Listed
<1>6. ASSUME NEW t \in Threads, NEW o \in Objects, LinuxEventObjectWait(t, o) PROVE SameReports
  <2> DEFINE e == [sList[o] EXCEPT !.users = @ \cup {t}]
  <2>1. o \in Listed /\ sList' = [sList EXCEPT ![o] = e]
    BY <1>6 DEF LinuxEventObjectWait
  <2>2. e \in Object /\ e.ui32TimeStampPrevious = sList[o].ui32TimeStampPrevious
    BY <1>1, <2>1 DEF Object
  <2> HIDE DEF e
  <2> QED BY <1>5, <2>1, <2>2
<1>7. ASSUME NEW o \in Objects, Stamp(o) PROVE SameReports
  BY <1>1, <1>7 DEF SameReports, Stamp, Listed, Object
<1> QED
  BY Zenon, <1>2, <1>3, <1>4, <1>6, <1>7
  DEF Next, LinuxEventObjectSignal, WakeUp, ProcessEnds, LinuxEventObjectDelete, PrepareToWait,
      ReadStamp, UnlockBridge, ScheduleTimeout, RelockBridge

(* The only user of an object reports a later stamp, or none when the       *)
(* time was over before it looked again.                                    *)
LEMMA FinishReports ==
  ASSUME NamesOK, IInv, NEW t \in Threads, FinishWait(t)
  PROVE  Reports
<1> SUFFICES ASSUME NEW o \in Listed, o \in DOMAIN sList', Cardinality(sList[o].users) = 1,
                    sList'[o].ui32TimeStampPrevious # sList[o].ui32TimeStampPrevious
             PROVE  /\ sList'[o].ui32TimeStampPrevious > sList[o].ui32TimeStampPrevious
                    /\ waits[t].at = "finish" /\ waits[t].time /\ t \in sList[o].users
  BY DEF Reports
<1>1. sList[o] \in Object /\ IsFiniteSet(sList[o].users) /\ ThreadOK(t, waits[t])
  BY DEF IInv, Types, ReportedOK
<1>2. waits[t].object = o /\ sList'[o].ui32TimeStampPrevious = waits[t].stamp
      /\ waits[t].at = "finish"
  BY <1>1 DEF FinishWait, Reported, Object, IInv, Types
<1>3. WaitOK(t, waits[t], sList[o])
  BY <1>1, <1>2 DEF ThreadOK
<1>4. sList[o].users = {t}
  <2>1. PICK u : sList[o].users = {u}
    BY <1>1, FS_Singleton
  <2> QED BY <1>3, <2>1 DEF WaitOK
<1> QED BY <1>2, <1>3, <1>4 DEF WaitOK

(* While one thread uses an object, what the object has reported only       *)
(* grows, and only by a wait that answers PVRSRV_OK: a signal that meets    *)
(* the end of the time is not lost (LinuxEventObjectWait).                  *)
THEOREM SignalsAreReported == ASSUME NamesOK PROVE Spec => SignalsReported
<1>1. ASSUME IInv, Next PROVE Reports
  <2>1. CASE \E t \in Threads : FinishWait(t)
    BY <1>1, <2>1, FinishReports
  <2>2. CASE \A t \in Threads : ~FinishWait(t)
    BY <1>1, <2>2, OthersReportNothing DEF SameReports, Reports
  <2> QED BY <2>1, <2>2
<1>2. IInv /\ [Next]_vars => [Reports]_vars
  BY <1>1
<1> QED BY <1>2, InvAlways, PTL DEF Spec, SignalsReported, Reports

=============================================================================
