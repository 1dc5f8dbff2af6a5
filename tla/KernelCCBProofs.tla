--------------------------- MODULE KernelCCBProofs ---------------------------
(* Theorems about KernelCCB, for rings of every size and any requests.      *)
EXTENDS KernelCCB, Sequences, TLAPS

-----------------------------------------------------------------------------
(* The inductive invariant.                                                 *)

Threads == DOMAIN Types

(* Who sends a command has the power lock.                                  *)
Rests(s) == s.pc \in {"idle", "note"}

(* Unless something was noted since the check, what was loaded is what is   *)
(* there, and afterwards nothing is.                                        *)
TakenOK(s) ==
    /\ s.pc = "clear" /\ ~s.late => cacheControl = s.word
    /\ s.pc \in {"copy", "flush", "publish", "kick", "poll"} /\ ~s.late => cacheControl = {}

(* No work with both invalidations, from the check to the slot.             *)
Work(s) == ~s.nested /\ s.type # "PROCESS_QUEUES" /\ ~s.late
ApartOK(s) ==
    /\ s.pc \in {"slot", "load"} /\ Work(s) => ~Both(Of(cacheControl))
    /\ s.pc \in {"clear", "copy"} /\ Work(s) => ~Both(Of(s.word))
CommandOK(c) == c.type # "PROCESS_QUEUES" /\ ~c.late => ~Both(Of(c.cc))

(* The slot that was found free stays free, since SGX only makes room; and  *)
(* a command that was copied has a number.                                  *)
SlotOK(s) ==
    /\ s.pc \in {"load", "clear", "copy", "flush", "publish"} => ~Full
    /\ s.pc \in {"flush", "publish"} => psCommands[ui32WriteOffset].n \in 1..MaxSerial

ThreadOK(t) ==
    /\ ~Rests(submitter[t]) <=> sPowerLock = t
    /\ TakenOK(submitter[t]) /\ ApartOK(submitter[t]) /\ SlotOK(submitter[t])

(* The MISR adds nothing to what the bridge call has loaded.  The CPU cache *)
(* is flushed for the last command of a scene, which alone needs it.        *)
BridgeOK(s) ==
    /\ s.pc = "note" => cacheControl \subseteq s.word
    /\ ~s.late
    /\ s.type # "TA" => \A r \in s.needs : r.kind # "CPU"
    /\ s.type = "TA" /\ ~s.nested /\ s.pc \in {"publish", "kick"} => ePendingCacheOpType = {}

IInv ==
    /\ TypeOK
    /\ \A t \in Threads : ThreadOK(t)
    /\ BridgeOK(submitter["bridge"])
    /\ submitter["misr"].pc # "note"
    /\ \A s \in 0..(CCBSize - 1) : CommandOK(psCommands[s])
    /\ \A r \in ePendingCacheOpType : r.kind = "CPU"
    /\ Awake /\ RequestsKept

-----------------------------------------------------------------------------
(* The ring.                                                                *)

Slots == 0..(CCBSize - 1)

(* The remainder of a sum of two offsets.                                   *)
LEMMA ModIs ==
  ASSUME SizesOK, NEW x \in Nat, x < CCBSize + CCBSize
  PROVE  x % CCBSize = IF x < CCBSize THEN x ELSE x - CCBSize
BY DEF SizesOK

(* The distance of two offsets of the ring.                                 *)
LEMMA DiffIs ==
  ASSUME SizesOK, NEW w \in Slots, NEW r \in Slots
  PROVE  (w - r) % CCBSize = IF r <= w THEN w - r ELSE w - r + CCBSize
BY DEF SizesOK, Slots

(* The slot that lies i after another.                                      *)
LEMMA SlotIs ==
  ASSUME SizesOK, NEW r \in Slots, NEW i \in Slots
  PROVE  (r + i) % CCBSize = IF r + i < CCBSize THEN r + i ELSE r + i - CCBSize
BY DEF SizesOK, Slots

(* One slot is free, or all but one are unread.                             *)
LEMMA RingIs ==
  ASSUME SizesOK, TypeOK
  PROVE  /\ Pending \in Slots /\ DOMAIN Types = {"bridge", "misr"}
         /\ Full <=> Pending = CCBSize - 1
         /\ \A i \in Slots : (ui32ReadOffset + i) % CCBSize \in Slots
         /\ (ui32ReadOffset + Pending) % CCBSize = ui32WriteOffset
         /\ \A i, j \in Slots : (ui32ReadOffset + i) % CCBSize = (ui32ReadOffset + j) % CCBSize
              => i = j
<1> DEFINE w == ui32WriteOffset
           r == ui32ReadOffset
<1>1. w \in Slots /\ r \in Slots /\ CCBSize \in Nat \ {0}
  BY DEF TypeOK, Slots, SizesOK
<1>2. Pending = IF r <= w THEN w - r ELSE w - r + CCBSize
  BY <1>1, DiffIs DEF Pending
<1>3. (w + 1) % CCBSize = IF w + 1 < CCBSize THEN w + 1 ELSE w + 1 - CCBSize
  BY <1>1, ModIs DEF Slots
<1>4. \A i \in Slots : (r + i) % CCBSize = IF r + i < CCBSize THEN r + i ELSE r + i - CCBSize
  BY <1>1, SlotIs
<1> HIDE DEF w, r
<1>5. Full <=> (w + 1) % CCBSize = r
  BY DEF Full, w, r
<1>6. Pending \in Slots /\ (Full <=> Pending = CCBSize - 1)
  BY <1>1, <1>2, <1>3, <1>5 DEF Slots
<1>7. \A i \in Slots : (r + i) % CCBSize \in Slots
  BY <1>1, <1>4 DEF Slots
<1>8. (r + Pending) % CCBSize = w
  BY <1>1, <1>2, <1>4, <1>6 DEF Slots
<1>9. \A i, j \in Slots : (r + i) % CCBSize = (r + j) % CCBSize => i = j
  BY <1>1, <1>4 DEF Slots
<1>10. DOMAIN Types = {"bridge", "misr"}
  BY DEF Types
<1> QED BY <1>6, <1>7, <1>8, <1>9, <1>10 DEF w, r

(* The ring starts empty, with nothing noted and nobody at work.            *)
LEMMA InitInv == ASSUME SizesOK, Init PROVE IInv
<1>1. TypeOK
  <2>1. NoCommand \in [n : 0..MaxSerial, type : Sent, cc : SUBSET Request, late : BOOLEAN]
    BY DEF NoCommand, Sent, SizesOK
  <2>2. Idle \in [pc : Places, type : Sent, nested : BOOLEAN, late : BOOLEAN,
                  word : SUBSET Request, needs : SUBSET Request]
    BY DEF Idle, Sent, Places
  <2>3. 0 \in 0..(CCBSize - 1) /\ 1 \in 1..MaxSerial /\ 0 \in 0..MaxSerial
    BY DEF SizesOK
  <2> QED BY <2>1, <2>2, <2>3 DEF Init, TypeOK
<1>2. /\ Pending = 0 /\ Of({}) = {}
      /\ Types = [bridge |-> {"TA", "CLEANUP"}, misr |-> {"PROCESS_QUEUES", "POWER"}]
  BY DEF Init, Pending, SizesOK, Of, Types
<1>3. submitter = [t \in Threads |-> Idle] /\ Threads = {"bridge", "misr"}
  BY DEF Init, Threads, Types
<1>4. \A t \in Threads : ThreadOK(t)
  BY <1>3 DEF Init, ThreadOK, TakenOK, ApartOK, SlotOK, Rests, Idle
<1>5. BridgeOK(submitter["bridge"]) /\ submitter["misr"].pc # "note"
  BY <1>3 DEF BridgeOK, Idle
<1>6. \A s \in 0..(CCBSize - 1) : CommandOK(psCommands[s])
  BY <1>2 DEF Init, CommandOK, NoCommand, Both
<1> QED BY <1>1, <1>2, <1>4, <1>5, <1>6 DEF IInv, Init, Awake, RequestsKept

-----------------------------------------------------------------------------
(* The steps, each first for its types.                                     *)
Submitter == [pc : Places, type : Sent, nested : BOOLEAN, late : BOOLEAN,
              word : SUBSET Request, needs : SUBSET Request]

ThreadStep(t) ==
    \/ \E type \in Types[t] : Locks(t, type)
    \/ FIX_HW_BRN_28889(t) \/ SGXAcquireKernelCCBSlot(t) \/ TimesOut(t)
    \/ TakesCacheControl(t) \/ ClearsCacheControl(t) \/ CopiesCommand(t)
    \/ OSFlushCPUCacheKM(t) \/ PublishesOffset(t) \/ EventKick(t)
    \/ PollForValueKM(t) \/ Unlocks(t)

(* The two senders of commands.                                             *)
LEMMA TypesIs == Threads = {"bridge", "misr"} /\ DOMAIN Types = Threads
  /\ \A t \in Threads : Types[t] \subseteq Sent
BY DEF Types, Sent, Threads

(* The steps of a sender keep the types: offsets wrap, and a slot only      *)
(* ever holds a whole command.                                              *)
LEMMA TypeStep ==
  ASSUME SizesOK, TypeOK, NEW t \in Threads, ThreadStep(t)
  PROVE  TypeOK'
<1> USE DEF Goto, ring, numbers, Submitter
<1>1. submitter \in [Threads -> Submitter] /\ submitter[t] \in Submitter /\ Idle \in Submitter
  BY TypesIs DEF TypeOK, Idle, Places, Sent
<1>2. CASE \E type \in Types[t] : Locks(t, type)
  <2>1. PICK type \in Types[t] : Locks(t, type)
    BY <1>2
  <2>2. submitter' \in [Threads -> Submitter]
    BY Zenon, <1>1, <2>1, TypesIs DEF Locks, TypeOK, Places, Idle
  <2> QED BY Zenon, <2>1, <2>2, TypesIs DEF Locks, TypeOK
<1>3. CASE FIX_HW_BRN_28889(t)
  <2>1. submitter' \in [Threads -> Submitter]
    BY <1>1, <1>3, TypesIs DEF FIX_HW_BRN_28889, Places, NestedFirst
  <2> QED BY <1>3, <2>1, TypesIs DEF FIX_HW_BRN_28889, TypeOK
<1>4. CASE SGXAcquireKernelCCBSlot(t) \/ TimesOut(t)
  <2>1. submitter' \in [Threads -> Submitter]
    BY <1>1, <1>4, TypesIs DEF SGXAcquireKernelCCBSlot, TimesOut, Places
  <2> QED BY <1>4, <2>1, TypesIs DEF SGXAcquireKernelCCBSlot, TimesOut, TypeOK
<1>5. CASE TakesCacheControl(t) \/ ClearsCacheControl(t)
  <2>1. submitter' \in [Threads -> Submitter]
    <3>1. CASE TakesCacheControl(t)
      BY <1>1, <3>1, TypesIs DEF TakesCacheControl, Places, TypeOK
    <3>2. CASE ClearsCacheControl(t)
      BY <1>1, <3>2, TypesIs DEF ClearsCacheControl, Places
    <3> QED BY <1>5, <3>1, <3>2
  <2> QED BY <1>5, <2>1, TypesIs DEF TakesCacheControl, ClearsCacheControl, TypeOK
<1>6. CASE CopiesCommand(t)
  <2>1. submitter' \in [Threads -> Submitter]
    BY <1>1, <1>6, TypesIs DEF CopiesCommand, Places
  <2>2. serial' \in 1..MaxSerial
    BY <1>6 DEF CopiesCommand, SizesOK, TypeOK
  <2> DEFINE c == [n |-> serial,
                   type |-> IF submitter[t].nested THEN "PROCESS_QUEUES" ELSE submitter[t].type,
                   cc |-> submitter[t].word, late |-> submitter[t].late]
  <2>3. serial \in 0..MaxSerial
    BY DEF TypeOK, SizesOK
  <2>4. "PROCESS_QUEUES" \in Sent
    BY DEF Types, Sent
  <2>5. c \in [n : 0..MaxSerial, type : Sent, cc : SUBSET Request, late : BOOLEAN]
    BY <1>1, <2>3, <2>4
  <2>6. psCommands' = [psCommands EXCEPT ![ui32WriteOffset] = c]
    BY <1>6 DEF CopiesCommand
  <2> HIDE DEF c
  <2>7. psCommands' \in [0..(CCBSize - 1) -> [n : 0..MaxSerial, type : Sent, cc : SUBSET Request,
                                           late : BOOLEAN]]
    BY <2>5, <2>6 DEF TypeOK
  <2> QED BY <1>6, <2>1, <2>2, <2>7, TypesIs DEF CopiesCommand, TypeOK
<1>7. CASE OSFlushCPUCacheKM(t)
  <2>1. submitter' \in [Threads -> Submitter]
    BY <1>1, <1>7, TypesIs DEF OSFlushCPUCacheKM, Places
  <2> QED BY <1>7, <2>1, TypesIs DEF OSFlushCPUCacheKM, TypeOK
<1>8. CASE PublishesOffset(t)
  <2>1. submitter' \in [Threads -> Submitter]
    BY <1>1, <1>8, TypesIs DEF PublishesOffset, Places
  <2>2. ui32WriteOffset' \in 0..(CCBSize - 1)
    BY <1>8 DEF PublishesOffset, TypeOK, SizesOK
  <2> QED BY <1>8, <2>1, <2>2, TypesIs DEF PublishesOffset, TypeOK
<1>9. CASE EventKick(t)
  <2>1. submitter' \in [Threads -> Submitter]
    BY <1>1, <1>9, TypesIs DEF EventKick, Places
  <2> QED BY <1>9, <2>1, TypesIs DEF EventKick, TypeOK
<1>10. CASE PollForValueKM(t)
  <2>1. submitter' \in [Threads -> Submitter]
    BY <1>1, <1>10, TypesIs DEF PollForValueKM, Places
  <2> QED BY <1>10, <2>1, TypesIs DEF PollForValueKM, TypeOK
<1>11. CASE Unlocks(t)
  <2>1. submitter' \in [Threads -> Submitter]
    BY <1>1, <1>11, TypesIs DEF Unlocks
  <2> QED BY <1>11, <2>1, TypesIs DEF Unlocks, TypeOK
<1> QED BY <1>2, <1>3, <1>4, <1>5, <1>6, <1>7, <1>8, <1>9, <1>10, <1>11 DEF ThreadStep

(* So do those of SGX and of the calls that note requests.                  *)
LEMMA TypeNext ==
  ASSUME SizesOK, TypeOK, [Next]_vars
  PROVE  TypeOK'
<1> USE DEF Goto, ring, numbers, Submitter
<1>1. submitter \in [Threads -> Submitter] /\ Idle \in Submitter
  BY TypesIs DEF TypeOK, Idle, Places, Sent
<1>2. CASE LoadsCacheControl
  <2>1. [submitter["bridge"] EXCEPT !.pc = "note", !.word = cacheControl] \in Submitter
    BY <1>1, TypesIs DEF Places, TypeOK
  <2>2. submitter' \in [Threads -> Submitter]
    BY <1>1, <1>2, <2>1, TypesIs DEF LoadsCacheControl
  <2> QED BY <1>2, <2>2, TypesIs DEF LoadsCacheControl, TypeOK
<1>3. ASSUME NEW kind \in Kinds, NEW r \in Requests(kind), StoresCacheControl(r) PROVE TypeOK'
  <2>1. r \in Request
    BY DEF Requests, Request
  <2>2. submitter["bridge"].word \subseteq Request
    BY <1>1, TypesIs
  <2>3. [submitter["misr"] EXCEPT !.late = ~At("misr", "idle")] \in Submitter
    BY <1>1, TypesIs DEF At
  <2>4. submitter' \in [Threads -> Submitter]
    BY <1>1, <1>3, <2>3, TypesIs DEF StoresCacheControl
  <2> QED BY <1>3, <2>1, <2>2, <2>4, TypesIs DEF StoresCacheControl, TypeOK
<1>4. ASSUME NEW r \in Requests("CPU"), PVRSRVGetMiscInfoKM(r) PROVE TypeOK'
  <2>1. r \in Request
    BY DEF Requests, Request
  <2> QED BY <1>4, <2>1 DEF PVRSRVGetMiscInfoKM, TypeOK
<1>5. CASE SGXTakes
  <2>1. psCommands[ui32ReadOffset] \in [n : 0..MaxSerial, type : Sent, cc : SUBSET Request,
                                           late : BOOLEAN]
    BY DEF TypeOK
  <2>2. NoCommand \in [n : 0..MaxSerial, type : Sent, cc : SUBSET Request, late : BOOLEAN]
    BY DEF NoCommand, Sent, SizesOK
  <2>3. ui32ReadOffset' \in 0..(CCBSize - 1)
    BY <1>5 DEF SGXTakes, TypeOK, SizesOK
  <2> QED BY <1>5, <2>1, <2>2, <2>3 DEF SGXTakes, TypeOK
<1>6. CASE SGXSleeps
  BY <1>6 DEF SGXSleeps, TypeOK
<1>7. CASE UNCHANGED vars
  BY <1>7 DEF vars, TypeOK
<1>8. ASSUME NEW t \in Threads, ThreadStep(t) PROVE TypeOK'
  BY <1>8, TypeStep
<1> QED BY <1>2, <1>3, <1>4, <1>5, <1>6, <1>7, <1>8 DEF Next, ThreadStep, Threads

-----------------------------------------------------------------------------
(* What a step leaves as it was.                                            *)

(* What only depends on the ring.                                           *)
LEMMA RingSame ==
  ASSUME UNCHANGED ring
  PROVE  Pending' = Pending /\ (Full' <=> Full) /\ Unread' = Unread /\ Carried' = Carried
BY DEF ring, Pending, Full, Unread, Carried

(* A request is carried when one of the unread slots holds it.              *)
LEMMA CarriedIs ==
  ASSUME NEW r
  PROVE  r \in Carried <=>
           \E i \in 0..(Pending - 1) : r \in psCommands[(ui32ReadOffset + i) % CCBSize].cc
BY DEF Carried, Unread

(* A thread at rest is fine, whatever another does.                         *)
LEMMA RestsOK ==
  ASSUME NEW t \in Threads, Rests(submitter'[t]), sPowerLock' # t
  PROVE  ThreadOK(t)'
BY DEF ThreadOK, Rests, TakenOK, ApartOK, SlotOK

(* While t sends a command the other thread rests.                          *)
LEMMA OtherRests ==
  ASSUME IInv, NEW t \in Threads, sPowerLock \in {t, "free"}, NEW u \in Threads, u # t
  PROVE  Rests(submitter[u]) /\ sPowerLock # u
BY TypesIs DEF IInv, ThreadOK

(* Where a request can be that is still to be met.                          *)
Somewhere(r, t) ==
    r \in cacheControl \/ r \in ePendingCacheOpType \/ r \in Carried \/ r \in InHand(t)

(* The sender's view of the requests: the other thread has none in hand.    *)
LEMMA KeptNow ==
  ASSUME IInv, NEW t \in Threads, sPowerLock \in {t, "free"}, NEW r \in wanted
  PROVE  Somewhere(r, t)
<1>1. \A u \in Threads : u # t => InHand(u) = {}
  BY OtherRests DEF InHand, At, Rests
<1>2. r \in cacheControl \cup ePendingCacheOpType \cup Carried
        \cup UNION {InHand(u) : u \in Threads}
  BY DEF IInv, RequestsKept, Threads
<1> QED BY <1>1, <1>2 DEF Somewhere

(* And back to the view of both.                                            *)
LEMMA KeptThen ==
  ASSUME NEW t \in Threads, \A r \in wanted' : Somewhere(r, t)'
  PROVE  RequestsKept'
BY DEF Somewhere, RequestsKept, Threads

(* A step of the thread t on its way through SGXScheduleCCBCommand: what    *)
(* remains to be seen is about t and the ring.                              *)
Turn(t) ==
    /\ sPowerLock \in {t, "free"} /\ sPowerLock' \in {t, "free"}
    /\ submitter' = [submitter EXCEPT ![t] = submitter'[t]]
    /\ submitter'[t].pc # "note"
Ends(t) == ThreadOK(t)' /\ (t = "bridge" => BridgeOK(submitter["bridge"])') /\ Awake'
NothingAdded ==
    /\ cacheControl' \subseteq cacheControl
    /\ ePendingCacheOpType' \subseteq ePendingCacheOpType

(* Then the invariant holds after the step: the other thread rests.         *)
LEMMA Sends ==
  ASSUME IInv, TypeOK', NEW t \in Threads, Turn(t), Ends(t), NothingAdded,
         \A i \in 0..(CCBSize - 1) : CommandOK(psCommands'[i]),
         \A r \in wanted' : Somewhere(r, t)'
  PROVE  IInv'
<1>1. /\ Threads = {"bridge", "misr"} /\ submitter'[t].pc # "note"
      /\ \A u \in Threads : u # t => submitter'[u] = submitter[u]
  BY TypesIs DEF IInv, TypeOK, Submitter, Threads, Turn
<1>2. ASSUME NEW u \in Threads PROVE ThreadOK(u)'
  <2>1. CASE u = t
    BY <2>1 DEF Ends
  <2>2. CASE u # t
    <3>1. Rests(submitter[u])
      BY <2>2, OtherRests DEF Turn
    <3>2. u # "free" /\ sPowerLock' # u
      BY <1>1, <2>2 DEF Turn
    <3> QED BY <1>1, <2>2, <3>1, <3>2, RestsOK
  <2> QED BY <2>1, <2>2
<1>3. BridgeOK(submitter["bridge"])'
  <2>1. CASE t # "bridge"
    <3>1. submitter'["bridge"] = submitter["bridge"] /\ Rests(submitter["bridge"])
      BY <1>1, <2>1, OtherRests DEF Turn
    <3>2. BridgeOK(submitter["bridge"])
      BY DEF IInv
    <3> QED BY <3>1, <3>2 DEF BridgeOK, Rests, NothingAdded
  <2> QED BY <2>1 DEF Ends
<1>4. submitter'["misr"].pc # "note"
  BY <1>1 DEF IInv
<1>5. RequestsKept'
  BY KeptThen
<1>6. \A r \in ePendingCacheOpType' : r.kind = "CPU"
  BY DEF IInv, NothingAdded
<1> QED BY <1>2, <1>3, <1>4, <1>5, <1>6 DEF IInv, Ends

(* Such a step that only the lock and the place of t tell.                  *)
LEMMA Moves ==
  ASSUME IInv, TypeOK', NEW t \in Threads, Turn(t), Ends(t),
         submitter[t].pc \notin {"copy", "flush", "publish"},
         UNCHANGED <<ring, cacheControl, ePendingCacheOpType, wanted>>
  PROVE  IInv'
<1>1. ASSUME NEW r \in wanted' PROVE Somewhere(r, t)'
  <2>1. Somewhere(r, t) /\ InHand(t) = {}
    BY KeptNow DEF InHand, At, Turn
  <2> QED BY <2>1, RingSame DEF Somewhere
<1>2. \A i \in 0..(CCBSize - 1) : CommandOK(psCommands'[i])
  BY DEF IInv, ring
<1>3. NothingAdded
  BY DEF NothingAdded
<1> QED BY <1>1, <1>2, <1>3, Sends

(* The ring as the microkernel sees it stays, and so does its sleep.        *)
LEMMA AwakeKept ==
  ASSUME IInv, UNCHANGED <<ring, awake>>, NEW t \in Threads, NEW s,
         submitter' = [submitter EXCEPT ![t] = s], submitter[t].pc # "kick"
  PROVE  Awake'
<1>1. submitter \in [Threads -> Submitter]
  BY TypesIs DEF IInv, TypeOK, Submitter, Threads
<1>2. \A u \in Threads : At(u, "kick") => At(u, "kick")'
  BY <1>1 DEF At
<1> QED BY <1>2, RingSame DEF Awake, IInv, Threads

(* The power lock is taken from nobody.                                     *)
LEMMA LocksKeeps ==
  ASSUME SizesOK, IInv, TypeOK', NEW t \in Threads, NEW type \in Types[t], Locks(t, type)
  PROVE  IInv'
<1> DEFINE s == [Idle EXCEPT !.pc = "check", !.type = type,
                   !.needs = {r \in wanted : t = "bridge" /\ (r.kind = "CPU" => type = "TA")}]
<1>1. submitter' = [submitter EXCEPT ![t] = s] /\ sPowerLock = "free" /\ sPowerLock' = t
      /\ submitter[t].pc = "idle"
      /\ UNCHANGED <<ring, cacheControl, ePendingCacheOpType, wanted, awake>>
  BY DEF Locks, At
<1>2. s.pc = "check" /\ s.type = type /\ ~s.late
      /\ (type # "TA" => \A r \in s.needs : r.kind # "CPU")
  BY DEF Idle
<1>3. submitter'[t] = s
  BY Zenon, <1>1, TypesIs DEF IInv, TypeOK
<1> HIDE DEF s
<1>4. ThreadOK(t)'
  BY <1>1, <1>2, <1>3 DEF ThreadOK, Rests, TakenOK, ApartOK, SlotOK
<1>5. t = "bridge" => BridgeOK(submitter["bridge"])'
  BY <1>2, <1>3 DEF BridgeOK
<1>6. Awake'
  BY <1>1, AwakeKept DEF At
<1>7. Turn(t) /\ Ends(t)
  BY <1>1, <1>2, <1>3, <1>4, <1>5, <1>6 DEF Turn, Ends
<1> QED BY <1>1, <1>7, Moves

(* The check for both invalidations leaves none behind for work, unless     *)
(* it sends the queues' command first.                                      *)
LEMMA CheckKeeps ==
  ASSUME SizesOK, IInv, TypeOK', NEW t \in Threads, FIX_HW_BRN_28889(t)
  PROVE  IInv'
<1> DEFINE s == [submitter[t] EXCEPT !.pc = "slot", !.late = FALSE, !.nested = NestedFirst(t)]
<1>1. submitter' = [submitter EXCEPT ![t] = s] /\ submitter[t].pc = "check"
      /\ UNCHANGED <<ring, cacheControl, ePendingCacheOpType, wanted, awake, sPowerLock>>
  BY DEF FIX_HW_BRN_28889, At
<1>2. submitter[t] \in Submitter
  BY TypesIs DEF IInv, TypeOK, Submitter
<1>3. /\ s.pc = "slot" /\ ~s.late /\ s.nested = NestedFirst(t)
      /\ s.type = submitter[t].type /\ s.needs = submitter[t].needs
  BY <1>2 DEF Submitter
<1>4. submitter'[t] = s
  BY <1>1, TypesIs DEF IInv, TypeOK
<1>5. Work(s) => ~Both(Of(cacheControl))
  BY <1>3 DEF Work, NestedFirst
<1> HIDE DEF s
<1>6. sPowerLock = t
  BY <1>1 DEF IInv, ThreadOK, Rests
<1>7. ThreadOK(t)'
  <2>1. ApartOK(submitter[t])'
    BY <1>1, <1>3, <1>4, <1>5 DEF ApartOK, Work
  <2> QED BY <1>1, <1>3, <1>4, <1>6, <2>1 DEF ThreadOK, Rests, TakenOK, SlotOK
<1>8. t = "bridge" => BridgeOK(submitter["bridge"])'
  BY <1>3, <1>4 DEF BridgeOK, IInv
<1>9. Awake'
  BY <1>1, AwakeKept
<1>10. Turn(t) /\ Ends(t)
  BY <1>1, <1>3, <1>4, <1>6, <1>7, <1>8, <1>9 DEF Turn, Ends
<1> QED BY <1>1, <1>10, Moves

(* The free slot is found, or the time to find it is over.                  *)
LEMMA SlotKeeps ==
  ASSUME SizesOK, IInv, TypeOK', NEW t \in Threads, SGXAcquireKernelCCBSlot(t) \/ TimesOut(t)
  PROVE  IInv'
<1> PICK pc \in {"load", "unlock"} : /\ submitter' = [submitter EXCEPT ![t].pc = pc]
                                     /\ pc = "load" => ~Full
  BY DEF SGXAcquireKernelCCBSlot, TimesOut, Goto
<1> DEFINE s == [submitter[t] EXCEPT !.pc = pc]
<1>1. submitter' = [submitter EXCEPT ![t] = s] /\ submitter[t].pc = "slot"
      /\ UNCHANGED <<ring, cacheControl, ePendingCacheOpType, wanted, awake, sPowerLock>>
  BY DEF SGXAcquireKernelCCBSlot, TimesOut, At
<1>2. submitter[t] \in Submitter
  BY TypesIs DEF IInv, TypeOK, Submitter
<1>3. /\ s.pc = pc /\ s.late = submitter[t].late /\ s.nested = submitter[t].nested
      /\ s.type = submitter[t].type /\ s.needs = submitter[t].needs
  BY <1>2 DEF Submitter
<1>4. submitter'[t] = s
  BY <1>1, TypesIs DEF IInv, TypeOK
<1> HIDE DEF s
<1>5. sPowerLock = t
  BY <1>1 DEF IInv, ThreadOK, Rests
<1>6. ApartOK(submitter[t])' /\ SlotOK(submitter[t])'
  BY <1>1, <1>3, <1>4, RingSame DEF ApartOK, Work, IInv, ThreadOK, SlotOK
<1>7. ThreadOK(t)'
  BY <1>1, <1>3, <1>4, <1>5, <1>6 DEF ThreadOK, Rests, TakenOK
<1>8. t = "bridge" => BridgeOK(submitter["bridge"])'
  BY <1>3, <1>4 DEF BridgeOK, IInv
<1>9. Awake'
  BY <1>1, AwakeKept
<1>10. Turn(t) /\ Ends(t)
  BY <1>1, <1>3, <1>4, <1>5, <1>7, <1>8, <1>9 DEF Turn, Ends
<1> QED BY <1>1, <1>10, Moves

(* The flags are loaded into the command.                                   *)
LEMMA TakesKeeps ==
  ASSUME SizesOK, IInv, TypeOK', NEW t \in Threads, TakesCacheControl(t)
  PROVE  IInv'
<1> DEFINE s == [submitter[t] EXCEPT !.pc = "clear", !.word = cacheControl]
<1>1. submitter' = [submitter EXCEPT ![t] = s] /\ submitter[t].pc = "load"
      /\ UNCHANGED <<ring, cacheControl, ePendingCacheOpType, wanted, awake, sPowerLock>>
  BY DEF TakesCacheControl, At
<1>2. submitter[t] \in Submitter
  BY TypesIs DEF IInv, TypeOK, Submitter
<1>3. /\ s.pc = "clear" /\ s.late = submitter[t].late /\ s.nested = submitter[t].nested
      /\ s.type = submitter[t].type /\ s.needs = submitter[t].needs /\ s.word = cacheControl
  BY <1>2 DEF Submitter
<1>4. submitter'[t] = s
  BY <1>1, TypesIs DEF IInv, TypeOK
<1> HIDE DEF s
<1>5. sPowerLock = t
  BY <1>1 DEF IInv, ThreadOK, Rests
<1>6. ApartOK(submitter[t])' /\ SlotOK(submitter[t])'
  BY <1>1, <1>3, <1>4, RingSame DEF ApartOK, Work, IInv, ThreadOK, SlotOK
<1>7. ThreadOK(t)'
  BY <1>1, <1>3, <1>4, <1>5, <1>6 DEF ThreadOK, Rests, TakenOK
<1>8. t = "bridge" => BridgeOK(submitter["bridge"])'
  BY <1>3, <1>4 DEF BridgeOK, IInv
<1>9. Awake'
  BY <1>1, AwakeKept
<1>10. Turn(t) /\ Ends(t)
  BY <1>1, <1>3, <1>4, <1>5, <1>7, <1>8, <1>9 DEF Turn, Ends
<1> QED BY <1>1, <1>10, Moves

(* SGX is awake after the kick.                                             *)
LEMMA KickKeeps ==
  ASSUME SizesOK, IInv, TypeOK', NEW t \in Threads, EventKick(t)
  PROVE  IInv'
<1> PICK pc \in {"poll", "unlock"} : submitter' = [submitter EXCEPT ![t].pc = pc]
  BY DEF EventKick, Goto
<1> DEFINE s == [submitter[t] EXCEPT !.pc = pc]
<1>1. submitter' = [submitter EXCEPT ![t] = s] /\ submitter[t].pc = "kick" /\ awake'
      /\ UNCHANGED <<ring, cacheControl, ePendingCacheOpType, wanted, sPowerLock>>
  BY DEF EventKick, At
<1>2. submitter[t] \in Submitter
  BY TypesIs DEF IInv, TypeOK, Submitter
<1>3. /\ s.pc = pc /\ s.late = submitter[t].late /\ s.nested = submitter[t].nested
      /\ s.type = submitter[t].type /\ s.needs = submitter[t].needs
  BY <1>2 DEF Submitter
<1>4. submitter'[t] = s
  BY <1>1, TypesIs DEF IInv, TypeOK
<1> HIDE DEF s
<1>5. sPowerLock = t
  BY <1>1 DEF IInv, ThreadOK, Rests
<1>6. TakenOK(submitter[t])'
  BY <1>1, <1>3, <1>4 DEF TakenOK, IInv, ThreadOK
<1>7. ThreadOK(t)'
  BY <1>1, <1>3, <1>4, <1>5, <1>6 DEF ThreadOK, Rests, ApartOK, SlotOK
<1>8. t = "bridge" => BridgeOK(submitter["bridge"])'
  BY <1>3, <1>4 DEF BridgeOK, IInv
<1>9. Awake'
  BY <1>1 DEF Awake
<1>10. Turn(t) /\ Ends(t)
  BY <1>1, <1>3, <1>4, <1>5, <1>7, <1>8, <1>9 DEF Turn, Ends
<1> QED BY <1>1, <1>10, Moves

(* The command in front of the work has been read by then.                  *)
LEMMA PollKeeps ==
  ASSUME SizesOK, IInv, TypeOK', NEW t \in Threads, PollForValueKM(t)
  PROVE  IInv'
<1> DEFINE s == [submitter[t] EXCEPT !.pc = "slot", !.nested = FALSE]
<1>1. submitter' = [submitter EXCEPT ![t] = s] /\ submitter[t].pc = "poll"
      /\ UNCHANGED <<ring, cacheControl, ePendingCacheOpType, wanted, awake, sPowerLock>>
  BY DEF PollForValueKM, At
<1>2. submitter[t] \in Submitter
  BY TypesIs DEF IInv, TypeOK, Submitter
<1>3. /\ s.pc = "slot" /\ s.late = submitter[t].late
      /\ s.type = submitter[t].type /\ s.needs = submitter[t].needs
  BY <1>2 DEF Submitter
<1>4. submitter'[t] = s
  BY <1>1, TypesIs DEF IInv, TypeOK
<1> HIDE DEF s
<1>5. sPowerLock = t
  BY <1>1 DEF IInv, ThreadOK, Rests
<1>6. ~submitter[t].late => cacheControl = {}
  BY <1>1 DEF IInv, ThreadOK, TakenOK
<1>7. ~s.late => ~Both(Of(cacheControl))
  BY <1>3, <1>6 DEF Both, Of
<1>8. ApartOK(submitter[t])'
  BY <1>1, <1>3, <1>4, <1>7 DEF ApartOK, Work
<1>9. ThreadOK(t)'
  BY <1>1, <1>3, <1>4, <1>5, <1>8 DEF ThreadOK, Rests, TakenOK, SlotOK
<1>10. t = "bridge" => BridgeOK(submitter["bridge"])'
  BY <1>3, <1>4 DEF BridgeOK, IInv
<1>11. Awake'
  BY <1>1, AwakeKept
<1>12. Turn(t) /\ Ends(t)
  BY <1>1, <1>3, <1>4, <1>5, <1>9, <1>10, <1>11 DEF Turn, Ends
<1> QED BY <1>1, <1>12, Moves

(* The lock goes back.                                                      *)
LEMMA UnlocksKeeps ==
  ASSUME SizesOK, IInv, TypeOK', NEW t \in Threads, Unlocks(t)
  PROVE  IInv'
<1>1. submitter' = [submitter EXCEPT ![t] = Idle] /\ submitter[t].pc = "unlock"
      /\ UNCHANGED <<ring, cacheControl, ePendingCacheOpType, wanted, awake>>
      /\ sPowerLock' = "free"
  BY DEF Unlocks, At
<1>2. submitter'[t] = Idle
  BY <1>1, TypesIs DEF IInv, TypeOK
<1>3. sPowerLock = t /\ t # "free"
  BY <1>1, TypesIs DEF IInv, ThreadOK, Rests
<1>4. ThreadOK(t)'
  BY <1>1, <1>2, <1>3 DEF ThreadOK, Rests, TakenOK, ApartOK, SlotOK, Idle
<1>5. t = "bridge" => BridgeOK(submitter["bridge"])'
  BY <1>2 DEF BridgeOK, Idle
<1>6. Awake'
  BY <1>1, AwakeKept
<1>7. Idle.pc # "note"
  BY DEF Idle
<1>8. Turn(t) /\ Ends(t)
  BY <1>1, <1>2, <1>3, <1>4, <1>5, <1>6, <1>7 DEF Turn, Ends
<1> QED BY <1>1, <1>8, Moves

(* A request that is noted between the load and the clear is lost, and is   *)
(* counted as such; the others are in the command.                          *)
LEMMA ClearsKeeps ==
  ASSUME SizesOK, IInv, TypeOK', NEW t \in Threads, ClearsCacheControl(t)
  PROVE  IInv'
<1> DEFINE s == [submitter[t] EXCEPT !.pc = "copy"]
<1>1. submitter' = [submitter EXCEPT ![t] = s] /\ submitter[t].pc = "clear"
      /\ UNCHANGED <<ring, ePendingCacheOpType, awake, sPowerLock>>
      /\ cacheControl' = {} /\ wanted' = wanted \ (cacheControl \ submitter[t].word)
  BY DEF ClearsCacheControl, At, Goto
<1>2. submitter[t] \in Submitter
  BY TypesIs DEF IInv, TypeOK, Submitter
<1>3. /\ s.pc = "copy" /\ s.late = submitter[t].late /\ s.nested = submitter[t].nested
      /\ s.type = submitter[t].type /\ s.needs = submitter[t].needs /\ s.word = submitter[t].word
  BY <1>2 DEF Submitter
<1>4. submitter'[t] = s
  BY <1>1, TypesIs DEF IInv, TypeOK
<1> HIDE DEF s
<1>5. sPowerLock = t
  BY <1>1 DEF IInv, ThreadOK, Rests
<1>6. ApartOK(submitter[t])' /\ SlotOK(submitter[t])'
  BY <1>1, <1>3, <1>4, RingSame DEF ApartOK, Work, IInv, ThreadOK, SlotOK
<1>7. ThreadOK(t)'
  BY <1>1, <1>3, <1>4, <1>5, <1>6 DEF ThreadOK, Rests, TakenOK
<1>8. t = "bridge" => BridgeOK(submitter["bridge"])'
  BY <1>3, <1>4 DEF BridgeOK, IInv
<1>9. Awake'
  BY <1>1, AwakeKept
<1>10. Turn(t) /\ Ends(t)
  BY <1>1, <1>3, <1>4, <1>5, <1>7, <1>8, <1>9 DEF Turn, Ends
<1>11. ASSUME NEW r \in wanted' PROVE Somewhere(r, t)'
  <2>1. Somewhere(r, t) /\ InHand(t) = {}
    BY <1>1, <1>5, KeptNow DEF InHand, At
  <2>2. InHand(t)' = submitter[t].word
    BY <1>3, <1>4 DEF InHand, At
  <2>3. r \in cacheControl => r \in submitter[t].word
    BY <1>1
  <2> QED BY <1>1, <2>1, <2>2, <2>3, RingSame DEF Somewhere
<1>12. \A i \in 0..(CCBSize - 1) : CommandOK(psCommands'[i])
  BY <1>1 DEF IInv, ring
<1>13. NothingAdded
  BY <1>1 DEF NothingAdded
<1> QED BY <1>10, <1>11, <1>12, <1>13, Sends

(* The slot at the write offset is not among those SGX has to read.         *)
LEMMA UnreadKept ==
  ASSUME SizesOK, TypeOK, NEW c, UNCHANGED <<ui32WriteOffset, ui32ReadOffset>>,
         psCommands' = [psCommands EXCEPT ![ui32WriteOffset] = c]
  PROVE  /\ Pending' = Pending /\ (Full' <=> Full)
         /\ \A i \in 0..(Pending - 1) : /\ (ui32ReadOffset + i) % CCBSize \in Slots
                                        /\ psCommands'[(ui32ReadOffset + i) % CCBSize]
                                             = psCommands[(ui32ReadOffset + i) % CCBSize]
         /\ \A r : r \in Carried' <=> r \in Carried
<1>1. Pending' = Pending /\ (Full' <=> Full)
  BY DEF Pending, Full
<1>2. ASSUME NEW i \in 0..(Pending - 1)
      PROVE  /\ (ui32ReadOffset + i) % CCBSize \in Slots
             /\ psCommands'[(ui32ReadOffset + i) % CCBSize]
                  = psCommands[(ui32ReadOffset + i) % CCBSize]
  <2>1. i \in Slots /\ Pending \in Slots /\ i # Pending
    BY RingIs DEF Slots, SizesOK
  <2>2. (ui32ReadOffset + i) % CCBSize # ui32WriteOffset
          /\ (ui32ReadOffset + i) % CCBSize \in Slots
    BY <2>1, RingIs
  <2> QED BY <2>2 DEF TypeOK, Slots
<1>3. ASSUME NEW r PROVE r \in Carried' <=> r \in Carried
  <2>1. Carried' =
          UNION {c1.cc : c1 \in
            {psCommands'[(ui32ReadOffset + i) % CCBSize] : i \in 0..(Pending - 1)}}
    BY <1>1 DEF Carried, Unread
  <2>2. r \in Carried' <=>
          \E i \in 0..(Pending - 1) : r \in psCommands'[(ui32ReadOffset + i) % CCBSize].cc
    BY <2>1
  <2> QED BY <1>2, <2>2, CarriedIs
<1> QED BY <1>1, <1>2, <1>3

(* What was in hand is in the slot, which SGX does not see yet.             *)
LEMMA CopiesKeeps ==
  ASSUME SizesOK, IInv, TypeOK', NEW t \in Threads, CopiesCommand(t)
  PROVE  IInv'
<1> DEFINE o == submitter[t]
           c == [n |-> serial, type |-> IF o.nested THEN "PROCESS_QUEUES" ELSE o.type,
                 cc |-> o.word, late |-> o.late]
           s == [o EXCEPT !.word = {},
                          !.pc = IF o.type = "TA" /\ ~o.nested THEN "flush" ELSE "publish"]
<1>1. /\ submitter' = [submitter EXCEPT ![t] = s] /\ o.pc = "copy"
      /\ psCommands' = [psCommands EXCEPT ![ui32WriteOffset] = c]
      /\ UNCHANGED <<ui32WriteOffset, ui32ReadOffset, cacheControl, ePendingCacheOpType,
                     wanted, awake, sPowerLock>>
  BY DEF CopiesCommand, At
<1>2. o \in Submitter /\ ui32WriteOffset \in Slots /\ serial \in 1..MaxSerial
  BY TypesIs DEF IInv, TypeOK, Submitter, Slots
<1>3. /\ s.late = o.late /\ s.nested = o.nested /\ s.type = o.type /\ s.needs = o.needs
      /\ s.pc = IF o.type = "TA" /\ ~o.nested THEN "flush" ELSE "publish"
  BY <1>2 DEF Submitter
<1>4. submitter'[t] = s /\ psCommands'[ui32WriteOffset] = c
  BY <1>1, <1>2, TypesIs DEF IInv, TypeOK, Slots
<1>5. sPowerLock = t
  BY <1>1 DEF IInv, ThreadOK, Rests
<1>6. CommandOK(c)
  BY <1>1 DEF IInv, ThreadOK, ApartOK, Work, CommandOK
<1>7. c.cc = o.word /\ c.n = serial
  OBVIOUS
<1> HIDE DEF s, c
<1>8. /\ Pending' = Pending /\ (Full' <=> Full) /\ \A r : r \in Carried' <=> r \in Carried
  BY <1>1, UnreadKept DEF IInv
<1>9. ~Full /\ (~o.late => cacheControl = {})
  BY <1>1 DEF IInv, ThreadOK, SlotOK, TakenOK
<1>10. ThreadOK(t)'
  BY <1>1, <1>2, <1>3, <1>4, <1>5, <1>7, <1>8, <1>9 DEF ThreadOK, Rests, TakenOK, ApartOK, SlotOK
<1>11. t = "bridge" => BridgeOK(submitter["bridge"])'
  BY <1>3, <1>4 DEF BridgeOK, IInv
<1>12. Awake'
  <2>1. submitter \in [Threads -> Submitter]
    BY TypesIs DEF IInv, TypeOK, Submitter, Threads
  <2>2. \A u \in Threads : At(u, "kick") => At(u, "kick")'
    BY <1>1, <2>1 DEF At
  <2> QED BY <1>1, <1>8, <2>2 DEF Awake, IInv, Threads
<1>13. Turn(t) /\ Ends(t)
  BY <1>1, <1>3, <1>4, <1>5, <1>10, <1>11, <1>12 DEF Turn, Ends
<1>14. ASSUME NEW r \in wanted' PROVE Somewhere(r, t)'
  <2>1. Somewhere(r, t) /\ InHand(t) = o.word
    BY <1>1, <1>5, KeptNow DEF InHand, At
  <2>2. InHand(t)' = o.word
    BY <1>1, <1>3, <1>4, <1>7 DEF InHand, At
  <2> QED BY <1>1, <1>8, <2>1, <2>2 DEF Somewhere
<1>15. \A i \in 0..(CCBSize - 1) : CommandOK(psCommands'[i])
  <2>1. \A i \in 0..(CCBSize - 1) :
          psCommands'[i] = IF i = ui32WriteOffset THEN c ELSE psCommands[i]
    BY <1>1 DEF IInv, TypeOK
  <2> QED BY <1>6, <2>1 DEF IInv
<1>16. NothingAdded
  BY <1>1 DEF NothingAdded
<1> QED BY <1>13, <1>14, <1>15, <1>16, Sends

(* The CPU's caches are flushed for the requests that were deferred.        *)
LEMMA FlushKeeps ==
  ASSUME SizesOK, IInv, TypeOK', NEW t \in Threads, OSFlushCPUCacheKM(t)
  PROVE  IInv'
<1> DEFINE s == [submitter[t] EXCEPT !.pc = "publish"]
<1>1. submitter' = [submitter EXCEPT ![t] = s] /\ submitter[t].pc = "flush"
      /\ UNCHANGED <<ring, cacheControl, awake, sPowerLock>>
      /\ ePendingCacheOpType' = {} /\ wanted' = wanted \ ePendingCacheOpType
  BY DEF OSFlushCPUCacheKM, At, Goto
<1>2. submitter[t] \in Submitter
  BY TypesIs DEF IInv, TypeOK, Submitter
<1>3. /\ s.pc = "publish" /\ s.late = submitter[t].late /\ s.nested = submitter[t].nested
      /\ s.type = submitter[t].type /\ s.needs = submitter[t].needs
  BY <1>2 DEF Submitter
<1>4. submitter'[t] = s
  BY <1>1, TypesIs DEF IInv, TypeOK
<1> HIDE DEF s
<1>5. sPowerLock = t
  BY <1>1 DEF IInv, ThreadOK, Rests
<1>6. TakenOK(submitter[t])' /\ SlotOK(submitter[t])'
  BY <1>1, <1>3, <1>4, RingSame DEF TakenOK, IInv, ThreadOK, SlotOK, ring
<1>7. ThreadOK(t)'
  BY <1>1, <1>3, <1>4, <1>5, <1>6 DEF ThreadOK, Rests, ApartOK
<1>8. t = "bridge" => BridgeOK(submitter["bridge"])'
  BY <1>1, <1>3, <1>4 DEF BridgeOK, IInv
<1>9. Awake'
  BY <1>1, AwakeKept
<1>10. Turn(t) /\ Ends(t)
  BY <1>1, <1>3, <1>4, <1>5, <1>7, <1>8, <1>9 DEF Turn, Ends
<1>11. ASSUME NEW r \in wanted' PROVE Somewhere(r, t)'
  <2>1. Somewhere(r, t)
    BY <1>1, <1>5, KeptNow
  <2>2. InHand(t)' = InHand(t)
    BY <1>1, <1>3, <1>4 DEF InHand, At, ring
  <2> QED BY <1>1, <2>1, <2>2, RingSame DEF Somewhere
<1>12. \A i \in 0..(CCBSize - 1) : CommandOK(psCommands'[i])
  BY <1>1 DEF IInv, ring
<1>13. NothingAdded
  BY <1>1 DEF NothingAdded
<1> QED BY <1>10, <1>11, <1>12, <1>13, Sends

(* Where the next command goes, SGX has it to read once it is published.    *)
LEMMA Grows ==
  ASSUME SizesOK, TypeOK, ~Full, UNCHANGED <<psCommands, ui32ReadOffset>>,
         ui32WriteOffset' = (ui32WriteOffset + 1) % CCBSize
  PROVE  /\ Pending' = Pending + 1
         /\ \A r : r \in Carried' <=> r \in Carried \/ r \in psCommands[ui32WriteOffset].cc
<1> DEFINE w == ui32WriteOffset
           v == (w + 1) % CCBSize
           r == ui32ReadOffset
<1>1. w \in Slots /\ r \in Slots /\ CCBSize \in Nat \ {0}
  BY DEF TypeOK, Slots, SizesOK
<1>2. v = IF w + 1 < CCBSize THEN w + 1 ELSE w + 1 - CCBSize
  BY <1>1, ModIs DEF Slots
<1>3. v \in Slots
  BY <1>1, <1>2 DEF Slots
<1>4. v # r
  BY DEF Full
<1>5. Pending' = (v - r) % CCBSize /\ Pending = (w - r) % CCBSize
  BY DEF Pending
<1> HIDE DEF v, w, r
<1>6. (v - r) % CCBSize = IF r <= v THEN v - r ELSE v - r + CCBSize
  BY <1>1, <1>3, DiffIs
<1>7. (w - r) % CCBSize = IF r <= w THEN w - r ELSE w - r + CCBSize
  BY <1>1, DiffIs
<1>8. Pending' = Pending + 1
  BY <1>1, <1>2, <1>4, <1>5, <1>6, <1>7 DEF Slots
<1>9. ASSUME NEW x PROVE x \in Carried' <=> x \in Carried \/ x \in psCommands[ui32WriteOffset].cc
  <2>1. Carried' =
          UNION {c1.cc : c1 \in
            {psCommands[(ui32ReadOffset + i) % CCBSize] : i \in 0..(Pending' - 1)}}
    BY DEF Carried, Unread
  <2>2. x \in Carried' <=>
          \E i \in 0..(Pending' - 1) : x \in psCommands[(ui32ReadOffset + i) % CCBSize].cc
    BY <2>1
  <2>3. Pending \in Nat /\ (ui32ReadOffset + Pending) % CCBSize = ui32WriteOffset
    BY RingIs DEF Slots, SizesOK
  <2>4. \A i : i \in 0..(Pending' - 1) <=> i \in 0..(Pending - 1) \/ i = Pending
    BY <1>8, <2>3
  <2> QED BY <2>2, <2>3, <2>4, CarriedIs
<1> QED BY <1>8, <1>9

(* The slot is unread from now on, with the requests it carries.            *)
LEMMA PublishKeeps ==
  ASSUME SizesOK, IInv, TypeOK', NEW t \in Threads, PublishesOffset(t)
  PROVE  IInv'
<1> DEFINE s == [submitter[t] EXCEPT !.pc = "kick"]
<1>1. submitter' = [submitter EXCEPT ![t] = s] /\ submitter[t].pc = "publish"
      /\ UNCHANGED <<psCommands, ui32ReadOffset, cacheControl, ePendingCacheOpType, awake,
                     sPowerLock, wanted>>
      /\ ui32WriteOffset' = (ui32WriteOffset + 1) % CCBSize
  BY DEF PublishesOffset, At, Goto
<1>2. submitter[t] \in Submitter
  BY TypesIs DEF IInv, TypeOK, Submitter
<1>3. /\ s.pc = "kick" /\ s.late = submitter[t].late /\ s.nested = submitter[t].nested
      /\ s.type = submitter[t].type /\ s.needs = submitter[t].needs
  BY <1>2 DEF Submitter
<1>4. submitter'[t] = s
  BY <1>1, TypesIs DEF IInv, TypeOK
<1> HIDE DEF s
<1>5. sPowerLock = t
  BY <1>1 DEF IInv, ThreadOK, Rests
<1>6. TakenOK(submitter[t])'
  BY <1>1, <1>3, <1>4 DEF TakenOK, IInv, ThreadOK
<1>7. ThreadOK(t)'
  BY <1>1, <1>3, <1>4, <1>5, <1>6 DEF ThreadOK, Rests, ApartOK, SlotOK
<1>8. t = "bridge" => BridgeOK(submitter["bridge"])'
  BY <1>1, <1>3, <1>4 DEF BridgeOK, IInv
<1>9. Awake'
  BY <1>3, <1>4 DEF Awake, At, Threads
<1>10. Turn(t) /\ Ends(t)
  BY <1>1, <1>3, <1>4, <1>5, <1>7, <1>8, <1>9 DEF Turn, Ends
<1>11. ASSUME NEW r \in wanted' PROVE Somewhere(r, t)'
  <2>1. Somewhere(r, t) /\ InHand(t) = psCommands[ui32WriteOffset].cc
    BY <1>1, <1>5, KeptNow DEF InHand, At
  <2>2. ~Full
    BY <1>1 DEF IInv, ThreadOK, SlotOK
  <2>3. r \in Carried' <=> r \in Carried \/ r \in psCommands[ui32WriteOffset].cc
    BY <1>1, <2>2, Grows DEF IInv
  <2> QED BY <1>1, <2>1, <2>3 DEF Somewhere
<1>12. \A i \in 0..(CCBSize - 1) : CommandOK(psCommands'[i])
  BY <1>1 DEF IInv
<1>13. NothingAdded
  BY <1>1 DEF NothingAdded
<1> QED BY <1>10, <1>11, <1>12, <1>13, Sends

(* The next command is the second that SGX had to read.                     *)
LEMMA Shrinks ==
  ASSUME SizesOK, TypeOK, Pending > 0, UNCHANGED ui32WriteOffset,
         psCommands' = [psCommands EXCEPT ![ui32ReadOffset] = NoCommand],
         ui32ReadOffset' = (ui32ReadOffset + 1) % CCBSize
  PROVE  /\ Pending \in Nat /\ Pending' = Pending - 1
         /\ \A i \in 0..(Pending - 2) :
               psCommands'[(ui32ReadOffset' + i) % CCBSize]
                 = psCommands[(ui32ReadOffset + (i + 1)) % CCBSize]
         /\ \A r \in Carried : r \in Carried' \/ r \in psCommands[ui32ReadOffset].cc
<1> DEFINE w == ui32WriteOffset
           r == ui32ReadOffset
           v == (r + 1) % CCBSize
<1>1. w \in Slots /\ r \in Slots /\ CCBSize \in Nat \ {0} /\ Pending \in Slots
  BY RingIs DEF TypeOK, Slots, SizesOK
<1>2. v = IF r + 1 < CCBSize THEN r + 1 ELSE r + 1 - CCBSize
  BY <1>1, ModIs DEF Slots
<1>3. v \in Slots
  BY <1>1, <1>2 DEF Slots
<1>4. Pending' = (w - v) % CCBSize /\ Pending = (w - r) % CCBSize
  BY DEF Pending
<1>5. ui32ReadOffset' = v /\ r = ui32ReadOffset
  OBVIOUS
<1> HIDE DEF v, w, r
<1>6. (w - v) % CCBSize = IF v <= w THEN w - v ELSE w - v + CCBSize
  BY <1>1, <1>3, DiffIs
<1>7. (w - r) % CCBSize = IF r <= w THEN w - r ELSE w - r + CCBSize
  BY <1>1, DiffIs
<1>8. Pending' = Pending - 1 /\ Pending \in Nat
  BY <1>1, <1>2, <1>4, <1>6, <1>7 DEF Slots
<1>9. ASSUME NEW i \in 0..(Pending - 2)
      PROVE  psCommands'[(ui32ReadOffset' + i) % CCBSize]
               = psCommands[(ui32ReadOffset + (i + 1)) % CCBSize]
  <2>1. i \in Slots /\ i + 1 \in Slots
    BY <1>1, <1>8 DEF Slots
  <2>2. (v + i) % CCBSize = IF v + i < CCBSize THEN v + i ELSE v + i - CCBSize
    BY <1>3, <2>1, SlotIs
  <2>3. (r + (i + 1)) % CCBSize
          = IF r + (i + 1) < CCBSize THEN r + (i + 1) ELSE r + (i + 1) - CCBSize
    BY <1>1, <2>1, SlotIs
  <2>4. (v + i) % CCBSize = (r + (i + 1)) % CCBSize
    BY <1>1, <1>2, <2>1, <2>2, <2>3 DEF Slots
  <2>5. (r + (i + 1)) % CCBSize \in Slots /\ (r + (i + 1)) % CCBSize # r
    BY <1>1, <2>1, <2>3 DEF Slots
  <2> QED BY <1>5, <2>4, <2>5 DEF TypeOK, Slots
<1>10. ASSUME NEW x \in Carried PROVE x \in Carried' \/ x \in psCommands[ui32ReadOffset].cc
  <2>1. PICK i \in 0..(Pending - 1) : x \in psCommands[(ui32ReadOffset + i) % CCBSize].cc
    BY CarriedIs
  <2>2. CASE i = 0
    <3>1. (r + 0) % CCBSize = r
      BY <1>1 DEF Slots
    <3> QED BY <1>5, <2>1, <2>2, <3>1
  <2>3. CASE i # 0
    <3>1. i - 1 \in 0..(Pending - 2) /\ (i - 1) + 1 = i /\ i - 1 \in 0..(Pending' - 1)
      BY <1>8, <2>3
    <3>2. psCommands'[(ui32ReadOffset' + (i - 1)) % CCBSize]
            = psCommands[(ui32ReadOffset + i) % CCBSize]
      BY <1>9, <3>1
    <3>3. psCommands'[(ui32ReadOffset' + (i - 1)) % CCBSize] \in Unread'
      BY <3>1 DEF Unread
    <3> QED BY <2>1, <3>2, <3>3 DEF Carried
  <2> QED BY <2>2, <2>3
<1> QED BY <1>8, <1>9, <1>10

(* SGX meets the requests of the command that it reads; those of the        *)
(* other unread commands move one place to the front.                       *)
LEMMA SGXKeeps ==
  ASSUME SizesOK, IInv, TypeOK', SGXTakes
  PROVE  IInv'
<1> DEFINE c == psCommands[ui32ReadOffset]
<1>1. /\ Pending > 0 /\ wanted' = wanted \ c.cc
      /\ ui32ReadOffset' = (ui32ReadOffset + 1) % CCBSize
      /\ psCommands' = [psCommands EXCEPT ![ui32ReadOffset] = NoCommand]
      /\ awake /\ UNCHANGED <<ui32WriteOffset, cacheControl, ePendingCacheOpType, submitter,
         sPowerLock, awake>>
  BY DEF SGXTakes
<1>2. TypeOK /\ Pending \in Slots /\ Pending' = Pending - 1 /\ CCBSize \in Nat \ {0}
  BY <1>1, RingIs, Shrinks DEF IInv, SizesOK
<1>3. ~Full'
  <2>1. Full' <=> Pending' = CCBSize - 1
    <3>1. Full' <=> (ui32WriteOffset' + 1) % CCBSize = ui32ReadOffset'
      BY DEF Full
    <3>2. ui32WriteOffset' \in Slots /\ ui32ReadOffset' \in Slots
            /\ Pending' = (ui32WriteOffset' - ui32ReadOffset') % CCBSize
      BY DEF TypeOK, Slots, Pending
    <3> DEFINE w == ui32WriteOffset'
               r == ui32ReadOffset'
    <3> HIDE DEF w, r
    <3>3. w \in Slots /\ r \in Slots /\ (Full' <=> (w + 1) % CCBSize = r)
            /\ Pending' = (w - r) % CCBSize
      BY <3>1, <3>2 DEF w, r
    <3>4. (w + 1) % CCBSize = IF w + 1 < CCBSize THEN w + 1 ELSE w + 1 - CCBSize
      BY <1>2, <3>3, ModIs DEF Slots
    <3>5. (w - r) % CCBSize = IF r <= w THEN w - r ELSE w - r + CCBSize
      BY <3>3, DiffIs
    <3> QED BY <1>2, <3>3, <3>4, <3>5 DEF Slots
  <2> QED BY <1>2, <2>1 DEF Slots
<1>4. psCommands'[ui32WriteOffset] = psCommands[ui32WriteOffset]
  <2>1. ui32WriteOffset # ui32ReadOffset
    <3>1. ui32ReadOffset \in Slots /\ 0 \in Slots
      BY <1>2 DEF TypeOK, Slots
    <3>2. 0 \in Slots /\ (ui32ReadOffset + 0) % CCBSize = ui32ReadOffset
      <4>1. ui32ReadOffset + 0 = ui32ReadOffset /\ ui32ReadOffset \in Nat
              /\ ui32ReadOffset < CCBSize
        BY <1>2, <3>1 DEF Slots
      <4> QED BY <1>2, <3>1, <4>1
    <3>3. Pending # 0
      BY <1>1
    <3> QED BY <1>2, <3>2, <3>3, RingIs
  <2> QED BY <1>1, <1>2, <2>1 DEF TypeOK
<1>5. \A t \in Threads : ThreadOK(t)'
  <2> SUFFICES ASSUME NEW t \in Threads PROVE ThreadOK(t)'
    OBVIOUS
  <2>1. ThreadOK(t)
    BY DEF IInv
  <2>2. SlotOK(submitter[t])'
    BY <1>1, <1>3, <1>4, <2>1 DEF ThreadOK, SlotOK
  <2> QED BY <1>1, <2>1, <2>2 DEF ThreadOK, TakenOK, ApartOK, Work, Rests
<1>6. BridgeOK(submitter["bridge"])' /\ submitter'["misr"].pc # "note"
  BY <1>1 DEF IInv, BridgeOK
<1>7. \A i \in 0..(CCBSize - 1) : CommandOK(psCommands'[i])
  <2>1. CommandOK(NoCommand)
    BY DEF CommandOK, NoCommand, Both, Of
  <2>2. \A i \in 0..(CCBSize - 1) :
          psCommands'[i] = IF i = ui32ReadOffset THEN NoCommand ELSE psCommands[i]
    BY <1>1, <1>2 DEF TypeOK
  <2> QED BY <2>1, <2>2 DEF IInv
<1>8. \A r \in ePendingCacheOpType' : r.kind = "CPU"
  BY <1>1 DEF IInv
<1>9. Awake'
  BY <1>1 DEF Awake
<1>10. RequestsKept'
  <2> SUFFICES ASSUME NEW r \in wanted'
               PROVE  r \in cacheControl' \cup ePendingCacheOpType' \cup Carried'
                        \cup UNION {InHand(t)' : t \in DOMAIN Types}
    BY DEF RequestsKept
  <2>1. r \in wanted /\ r \notin c.cc
    BY <1>1
  <2>2. r \in cacheControl \cup ePendingCacheOpType \cup Carried
          \cup UNION {InHand(t) : t \in DOMAIN Types}
    BY <2>1 DEF IInv, RequestsKept
  <2>3. r \in Carried => r \in Carried'
    BY <1>1, <1>2, <2>1, Shrinks
  <2>4. \A t \in DOMAIN Types : InHand(t)' = InHand(t)
    BY <1>1, <1>4 DEF InHand, At
  <2> QED BY <1>1, <2>2, <2>3, <2>4
<1> QED BY <1>5, <1>6, <1>7, <1>8, <1>9, <1>10 DEF IInv

(* The steps of a bridge call that sends nothing: the MISR may be told that *)
(* something was noted.                                                     *)
BridgeNotes ==
    /\ Rests(submitter["bridge"]) /\ Rests(submitter'["bridge"])
    /\ BridgeOK(submitter["bridge"])'
    /\ UNCHANGED <<ring, sPowerLock, awake>>
    /\ \A r \in ePendingCacheOpType' : r.kind = "CPU"
MisrTold ==
    \/ submitter'["misr"] = submitter["misr"] /\ cacheControl' = cacheControl
    \/ submitter'["misr"] = [submitter["misr"] EXCEPT !.late = (submitter["misr"].pc # "idle")]

(* Then the step keeps the invariant if it keeps the requests.              *)
LEMMA NotesKeep ==
  ASSUME SizesOK, IInv, TypeOK', BridgeNotes, MisrTold, RequestsKept'
  PROVE  IInv'
<1>1. /\ Threads = {"bridge", "misr"} /\ submitter["misr"] \in Submitter
      /\ ThreadOK("misr") /\ ThreadOK("bridge")
  BY TypesIs DEF IInv, TypeOK, Submitter, Threads
<1>2. ThreadOK("bridge")'
  <2>1. sPowerLock' # "bridge"
    BY <1>1 DEF ThreadOK, BridgeNotes
  <2> QED BY <1>1, <2>1, RestsOK DEF BridgeNotes
<1>3. ThreadOK("misr")' /\ submitter'["misr"].pc = submitter["misr"].pc
  <2>1. CASE submitter'["misr"] = submitter["misr"] /\ cacheControl' = cacheControl
    BY <1>1, <2>1, RingSame DEF BridgeNotes, ThreadOK, Rests, TakenOK, ApartOK, SlotOK, Work, ring
  <2>2. CASE submitter'["misr"]
               = [submitter["misr"] EXCEPT !.late = (submitter["misr"].pc # "idle")]
    <3>1. /\ submitter'["misr"].pc = submitter["misr"].pc
          /\ submitter["misr"].pc # "idle" => submitter'["misr"].late
      BY <1>1, <2>2 DEF Submitter
    <3> QED BY <1>1, <3>1, RingSame
    DEF BridgeNotes, ThreadOK, Rests, TakenOK, ApartOK, SlotOK, Work, ring
  <2> QED BY <2>1, <2>2 DEF MisrTold
<1>4. Awake'
  <2>1. \A t \in Threads : At(t, "kick") => At(t, "kick")'
    BY <1>1, <1>3 DEF At, BridgeNotes, Rests
  <2> QED BY <2>1, RingSame DEF Awake, IInv, Threads, BridgeNotes
<1>5. \A i \in 0..(CCBSize - 1) : CommandOK(psCommands'[i])
  BY DEF IInv, ring, BridgeNotes
<1>6. submitter'["misr"].pc # "note"
  BY <1>3 DEF IInv
<1> QED BY <1>1, <1>2, <1>3, <1>4, <1>5, <1>6 DEF IInv, BridgeNotes

(* Nobody else has anything in hand.                                        *)
LEMMA NotesHand ==
  ASSUME IInv, TypeOK', BridgeNotes, MisrTold,
         \A r \in wanted' : \/ r \in cacheControl' \cup ePendingCacheOpType'
                            \/ r \in wanted /\ r \notin cacheControl \cup ePendingCacheOpType
  PROVE  RequestsKept'
<1>1. Carried' = Carried
  BY RingSame DEF BridgeNotes
<1>2. Threads = {"bridge", "misr"} /\ submitter["misr"] \in Submitter
  BY TypesIs DEF IInv, TypeOK, Submitter, Threads
<1>3. submitter'["misr"].pc = submitter["misr"].pc
        /\ submitter'["misr"].word = submitter["misr"].word
  BY <1>2 DEF MisrTold, Submitter
<1>4. \A t \in Threads : InHand(t)' = InHand(t)
  <2>1. InHand("misr")' = InHand("misr")
    BY <1>3 DEF InHand, At, BridgeNotes, ring
  <2>2. InHand("bridge")' = {} /\ InHand("bridge") = {}
    BY DEF InHand, At, BridgeNotes, Rests
  <2> QED BY <1>2, <2>1, <2>2
<1> QED BY <1>1, <1>4 DEF IInv, RequestsKept, Threads

(* The first half of noting a request.                                      *)
LEMMA LoadsKeeps ==
  ASSUME SizesOK, IInv, TypeOK', LoadsCacheControl
  PROVE  IInv'
<1>1. /\ submitter["bridge"] \in Submitter /\ submitter["bridge"].pc = "idle"
      /\ submitter'["bridge"] = [submitter["bridge"] EXCEPT !.pc = "note", !.word = cacheControl]
      /\ submitter'["misr"] = submitter["misr"]
      /\ UNCHANGED <<ring, cacheControl, ePendingCacheOpType, sPowerLock, awake, wanted>>
  BY TypesIs DEF IInv, TypeOK, LoadsCacheControl, Submitter, At
<1>2. BridgeOK(submitter["bridge"])'
  BY <1>1 DEF IInv, BridgeOK, Submitter
<1>3. BridgeNotes /\ MisrTold
  BY <1>1, <1>2 DEF BridgeNotes, MisrTold, Rests, IInv, Submitter
<1>4. RequestsKept'
  BY <1>1, <1>3, NotesHand
<1> QED BY <1>3, <1>4, NotesKeep

(* The second half; a clear in between is undone.                           *)
LEMMA StoresKeeps ==
  ASSUME SizesOK, IInv, TypeOK', NEW r, StoresCacheControl(r)
  PROVE  IInv'
<1>1. /\ submitter["misr"] \in Submitter /\ submitter["bridge"].pc = "note"
      /\ submitter'["bridge"] = Idle
      /\ submitter'["misr"] = [submitter["misr"] EXCEPT !.late = ~At("misr", "idle")]
      /\ cacheControl' = submitter["bridge"].word \cup {r} /\ wanted' = wanted \cup {r}
      /\ UNCHANGED <<ring, ePendingCacheOpType, sPowerLock, awake>>
  BY TypesIs DEF IInv, TypeOK, StoresCacheControl, Submitter, At
<1>2. cacheControl \subseteq cacheControl'
  BY <1>1 DEF IInv, BridgeOK
<1>3. BridgeOK(submitter["bridge"])'
  BY <1>1 DEF BridgeOK, Idle
<1>4. BridgeNotes /\ MisrTold
  BY <1>1, <1>3 DEF BridgeNotes, MisrTold, Rests, IInv, Idle, At
<1>5. RequestsKept'
  BY <1>1, <1>2, <1>4, NotesHand
<1> QED BY <1>4, <1>5, NotesKeep

(* A flush is noted for later.                                              *)
LEMMA DefersKeeps ==
  ASSUME SizesOK, IInv, TypeOK', NEW r \in Requests("CPU"), PVRSRVGetMiscInfoKM(r)
  PROVE  IInv'
<1>1. /\ submitter["bridge"].pc = "idle" /\ r.kind = "CPU"
      /\ ePendingCacheOpType' = ePendingCacheOpType \cup {r} /\ wanted' = wanted \cup {r}
      /\ UNCHANGED <<ring, cacheControl, submitter, sPowerLock, awake>>
  BY DEF PVRSRVGetMiscInfoKM, At, Requests
<1>2. BridgeOK(submitter["bridge"])'
  BY <1>1 DEF IInv, BridgeOK
<1>3. BridgeNotes /\ MisrTold
  BY <1>1, <1>2 DEF BridgeNotes, MisrTold, Rests, IInv
<1>4. RequestsKept'
  BY <1>1, <1>3, NotesHand
<1> QED BY <1>3, <1>4, NotesKeep

(* SGX sleeps on an empty ring.                                             *)
LEMMA SleepsKeeps ==
  ASSUME SizesOK, IInv, TypeOK', SGXSleeps
  PROVE  IInv'
<1>1. Pending = 0 /\ UNCHANGED <<ring, cacheControl, ePendingCacheOpType, submitter, sPowerLock,
      wanted>>
  BY DEF SGXSleeps
<1>2. Awake'
  BY <1>1, RingSame DEF Awake
<1>3. \A t \in Threads : ThreadOK(t)'
  BY <1>1, RingSame DEF IInv, ThreadOK, Rests, TakenOK, ApartOK, SlotOK, Work, ring
<1>4. RequestsKept'
  BY <1>1, RingSame DEF IInv, RequestsKept, InHand, At, ring
<1> QED BY <1>1, <1>2, <1>3, <1>4 DEF IInv, BridgeOK, CommandOK, ring

(* A step that changes none of this keeps the invariant.                    *)
LEMMA StuttersKeep ==
  ASSUME IInv, TypeOK', UNCHANGED vars
  PROVE  IInv'
<1>1. UNCHANGED <<ring, cacheControl, ePendingCacheOpType, submitter, sPowerLock, awake, wanted>>
  BY DEF vars, ring
<1>2. Awake'
  BY <1>1, RingSame DEF Awake, At, IInv
<1>3. \A t \in Threads : ThreadOK(t)'
  BY <1>1, RingSame DEF IInv, ThreadOK, Rests, TakenOK, ApartOK, SlotOK, Work, ring
<1>4. RequestsKept'
  BY <1>1, RingSame DEF IInv, RequestsKept, InHand, At, ring
<1> QED BY <1>1, <1>2, <1>3, <1>4 DEF IInv, BridgeOK, CommandOK, ring

(* Every step keeps the invariant.                                          *)
LEMMA NextKeeps ==
  ASSUME SizesOK, IInv, [Next]_vars
  PROVE  IInv'
<1>1. TypeOK'
  BY TypeNext DEF IInv
<1>2. ASSUME NEW t \in Threads, ThreadStep(t) PROVE IInv'
  BY <1>1, <1>2, LocksKeeps, CheckKeeps, SlotKeeps, TakesKeeps, ClearsKeeps, CopiesKeeps,
     FlushKeeps, PublishKeeps, KickKeeps, PollKeeps, UnlocksKeeps DEF ThreadStep
<1>3. ASSUME NEW kind \in Kinds, NEW r \in Requests(kind), StoresCacheControl(r) PROVE IInv'
  BY <1>1, <1>3, StoresKeeps
<1>4. ASSUME NEW r \in Requests("CPU"), PVRSRVGetMiscInfoKM(r) PROVE IInv'
  BY <1>1, <1>4, DefersKeeps
<1>5. CASE LoadsCacheControl
  BY <1>1, <1>5, LoadsKeeps
<1>6. CASE SGXTakes
  BY <1>1, <1>6, SGXKeeps
<1>7. CASE SGXSleeps
  BY <1>1, <1>7, SleepsKeeps
<1>8. CASE UNCHANGED vars
  BY <1>1, <1>8, StuttersKeep
<1> QED BY <1>2, <1>3, <1>4, <1>5, <1>6, <1>7, <1>8 DEF Next, ThreadStep, Threads

(* The invariant holds in every state.                                      *)
LEMMA InvAlways == ASSUME SizesOK PROVE Spec => []IInv
<1>1. Init => IInv
  BY InitInv
<1>2. IInv /\ [Next]_vars => IInv'
  BY NextKeeps
<1> QED BY <1>1, <1>2, PTL DEF Spec

(* The invariant implies what the run checks.                               *)
LEMMA InvMeans ==
  ASSUME SizesOK, IInv
  PROVE  CCBSound
<1> DEFINE s == submitter["bridge"]
<1>1. Threads = {"bridge", "misr"} /\ TypeOK /\ RequestsKept /\ Awake /\ ThreadOK("bridge")
        /\ BridgeOK(s)
  BY TypesIs DEF IInv
<1>2. NeedsMet
  <2> SUFFICES ASSUME s.pc = "kick", ~s.nested, NEW r \in s.needs, r \in wanted
               PROVE  r \in Carried
    BY DEF NeedsMet, At
  <2>1. sPowerLock = "bridge" /\ cacheControl = {}
    BY <1>1 DEF ThreadOK, Rests, TakenOK, BridgeOK
  <2>2. Somewhere(r, "bridge") /\ InHand("bridge") = {}
    BY <1>1, <2>1, KeptNow DEF InHand, At
  <2>3. r \notin ePendingCacheOpType
    BY <1>1 DEF IInv, BridgeOK
  <2> QED BY <2>1, <2>2, <2>3 DEF Somewhere
<1>3. OwnKept
  BY <1>1 DEF OwnKept, At, ThreadOK, TakenOK, BridgeOK
<1>4. NotBoth
  <2> SUFFICES ASSUME NEW i \in 0..(Pending - 1)
               PROVE  CommandOK(psCommands[(ui32ReadOffset + i) % CCBSize])
    BY DEF NotBoth, Unread, CommandOK
  <2>1. i \in Slots
    BY RingIs DEF IInv, Slots, SizesOK
  <2>2. (ui32ReadOffset + i) % CCBSize \in 0..(CCBSize - 1)
    BY <1>1, <2>1, RingIs DEF Slots
  <2> QED BY <2>2 DEF IInv
<1> QED BY <1>1, <1>2, <1>3, <1>4 DEF CCBSound

(* SGX drops what it is told to drop before it runs what needs that, loses  *)
(* no request and never sleeps on a command.                                *)
THEOREM RequestsMet == ASSUME SizesOK PROVE Spec => []CCBSound
<1>1. IInv => CCBSound
  BY InvMeans
<1> QED BY <1>1, InvAlways, PTL

(* The numbers of the commands SGX has to read, in its order.               *)
Waiting == [i \in 1..Pending |-> psCommands[(ui32ReadOffset + i - 1) % CCBSize].n]

(* The waiting commands, oldest first, are those of the unread slots.       *)
LEMMA WaitingIs ==
  ASSUME SizesOK, TypeOK
  PROVE  /\ Pending \in Nat /\ Len(Waiting) = Pending /\ DOMAIN Waiting = 1..Pending
         /\ Waiting \in Seq(0..MaxSerial)
         /\ \A i \in 1..Pending : Waiting[i] = psCommands[(ui32ReadOffset + (i - 1)) % CCBSize].n
<1>1. Pending \in Nat /\ Pending < CCBSize /\ ui32ReadOffset \in Nat
  BY RingIs DEF Slots, SizesOK, TypeOK
<1>2. ASSUME NEW i \in 1..Pending
      PROVE  /\ ui32ReadOffset + i - 1 = ui32ReadOffset + (i - 1)
             /\ (ui32ReadOffset + (i - 1)) % CCBSize \in 0..(CCBSize - 1)
  <2>1. i - 1 \in Slots
    BY <1>1 DEF Slots, SizesOK
  <2>2. ui32ReadOffset + i - 1 = ui32ReadOffset + (i - 1)
    BY <1>1
  <2>3. (ui32ReadOffset + (i - 1)) % CCBSize \in Slots
    BY <2>1, RingIs
  <2> QED BY <2>2, <2>3 DEF Slots
<1> DEFINE f(i) == psCommands[(ui32ReadOffset + i - 1) % CCBSize].n
           g(i) == psCommands[(ui32ReadOffset + (i - 1)) % CCBSize].n
<1>3. \A i \in 1..Pending : f(i) = g(i) /\ g(i) \in 0..MaxSerial
  BY <1>2 DEF TypeOK
<1>4. Waiting = [i \in 1..Pending |-> f(i)]
  BY DEF Waiting
<1> HIDE DEF f
<1>5. \A i \in 1..Pending : Waiting[i] = g(i)
  BY <1>3, <1>4
<1>6. Waiting \in Seq(0..MaxSerial) /\ Len(Waiting) = Pending /\ DOMAIN Waiting = 1..Pending
  BY <1>1, <1>3, <1>4
<1> QED BY <1>1, <1>5, <1>6

(* Publishing adds the number of the command in the slot.                   *)
LEMMA PublishSubmits ==
  ASSUME SizesOK, IInv, TypeOK', NEW t \in Threads, PublishesOffset(t)
  PROVE  /\ Waiting' = Append(Waiting, psCommands[ui32WriteOffset].n)
         /\ psCommands[ui32WriteOffset].n \in 1..MaxSerial
<1> DEFINE n == psCommands[ui32WriteOffset].n
<1>1. /\ ~Full /\ n \in 1..MaxSerial /\ TypeOK
      /\ UNCHANGED <<psCommands, ui32ReadOffset>>
      /\ ui32WriteOffset' = (ui32WriteOffset + 1) % CCBSize
  BY DEF IInv, PublishesOffset, ThreadOK, SlotOK, At
<1>2. Pending' = Pending + 1 /\ Pending \in Nat
  BY <1>1, Grows, WaitingIs
<1>3. (ui32ReadOffset + Pending) % CCBSize = ui32WriteOffset
  BY <1>1, RingIs
<1>4. Waiting' = [i \in 1..Pending' |-> psCommands[(ui32ReadOffset + i - 1) % CCBSize].n]
  BY <1>1 DEF Waiting
<1>5. Waiting' = [i \in 1..(Pending + 1) |-> psCommands[(ui32ReadOffset + i - 1) % CCBSize].n]
  BY <1>2, <1>4
<1>6. Len(Waiting) = Pending
  BY <1>1, WaitingIs
<1>7. Append(Waiting, n) = [i \in 1..(Pending + 1) |-> IF i = Pending + 1 THEN n ELSE Waiting[i]]
  BY <1>1, <1>6, WaitingIs
<1>8. ASSUME NEW i \in 1..(Pending + 1)
      PROVE  psCommands[(ui32ReadOffset + i - 1) % CCBSize].n
               = IF i = Pending + 1 THEN n ELSE Waiting[i]
  <2>1. ui32ReadOffset \in Nat
    BY <1>1, <1>2 DEF TypeOK, SizesOK
  <2>2. CASE i = Pending + 1
    <3>1. ui32ReadOffset + i - 1 = ui32ReadOffset + Pending
      BY <1>2, <2>1, <2>2
    <3> QED BY <1>3, <2>2, <3>1
  <2>3. CASE i # Pending + 1
    <3>1. i \in 1..Pending
      BY <1>2, <2>3
    <3> QED BY <2>3, <3>1 DEF Waiting
  <2> QED BY <2>2, <2>3
<1> QED BY <1>1, <1>5, <1>7, <1>8

(* The rest of a sequence, by its positions.                                *)
LEMMA TailIs ==
  ASSUME NEW S, NEW s \in Seq(S), s # <<>>
  PROVE  Tail(s) = [i \in 1..(Len(s) - 1) |-> s[i + 1]]
<1>1. Tail(s) \in Seq(S) /\ Len(Tail(s)) = Len(s) - 1
  OBVIOUS
<1>2. DOMAIN Tail(s) = 1..(Len(s) - 1)
  BY <1>1
<1>3. \A i \in 1..(Len(s) - 1) : Tail(s)[i] = s[i + 1]
  OBVIOUS
<1>4. Tail(s) = [i \in DOMAIN Tail(s) |-> Tail(s)[i]]
  <2> DEFINE q == Tail(s)
  <2>1. q \in Seq(S)
    BY <1>1
  <2> HIDE DEF q
  <2>2. q = [i \in DOMAIN q |-> q[i]]
    BY <2>1
  <2> QED BY <2>2 DEF q
<1> QED BY <1>2, <1>3, <1>4

(* SGX takes the first.                                                     *)
LEMMA SGXTakesFirst ==
  ASSUME SizesOK, IInv, TypeOK', SGXTakes
  PROVE  Waiting # <<>> /\ executed' = Head(Waiting) /\ Waiting' = Tail(Waiting)
<1>1. /\ Pending > 0 /\ TypeOK /\ executed' = psCommands[ui32ReadOffset].n
      /\ ui32ReadOffset' = (ui32ReadOffset + 1) % CCBSize /\ UNCHANGED ui32WriteOffset
      /\ psCommands' = [psCommands EXCEPT ![ui32ReadOffset] = NoCommand]
  BY DEF SGXTakes, IInv
<1>2. /\ Pending \in Nat /\ Pending' = Pending - 1
      /\ \A i \in 0..(Pending - 2) :
            psCommands'[(ui32ReadOffset' + i) % CCBSize]
              = psCommands[(ui32ReadOffset + (i + 1)) % CCBSize]
  BY <1>1, Shrinks
<1>3. /\ Len(Waiting) = Pending /\ DOMAIN Waiting = 1..Pending /\ Waiting \in Seq(0..MaxSerial)
      /\ \A i \in 1..Pending : Waiting[i] = psCommands[(ui32ReadOffset + (i - 1)) % CCBSize].n
  BY <1>1, WaitingIs
<1>4. Waiting # <<>> /\ Head(Waiting) = Waiting[1] /\ 1 \in 1..Pending
  <2>1. Len(Waiting) # 0 /\ 1 \in 1..Pending
    BY <1>1, <1>2, <1>3
  <2>2. Waiting # <<>>
    BY <2>1
  <2> QED BY <1>3, <2>1, <2>2
<1>5. (ui32ReadOffset + (1 - 1)) % CCBSize = ui32ReadOffset
  <2>1. ui32ReadOffset \in Nat /\ ui32ReadOffset < CCBSize
          /\ ui32ReadOffset + (1 - 1) = ui32ReadOffset /\ CCBSize \in Nat \ {0}
    BY <1>1 DEF TypeOK, SizesOK
  <2> QED BY <2>1
<1>6. executed' = Head(Waiting)
  BY <1>1, <1>3, <1>4, <1>5
<1>7. Tail(Waiting) = [i \in 1..(Pending - 1) |-> Waiting[i + 1]]
  BY <1>3, <1>4, TailIs
<1>8. ui32ReadOffset' \in Nat
  BY DEF TypeOK, SizesOK
<1>9. Waiting' = [i \in 1..(Pending - 1) |-> psCommands'[(ui32ReadOffset' + i - 1) % CCBSize].n]
  <2>1. Waiting' = [i \in 1..Pending' |-> psCommands'[(ui32ReadOffset' + i - 1) % CCBSize].n]
    BY DEF Waiting
  <2> QED BY <1>2, <2>1
<1>10. ASSUME NEW i \in 1..(Pending - 1)
       PROVE  psCommands'[(ui32ReadOffset' + i - 1) % CCBSize].n = Waiting[i + 1]
  <2>1. i - 1 \in 0..(Pending - 2) /\ i + 1 \in 1..Pending /\ (i - 1) + 1 = i /\ (i + 1) - 1 = i
        /\ ui32ReadOffset' + i - 1 = ui32ReadOffset' + (i - 1)
    BY <1>2, <1>8
  <2>2. psCommands'[(ui32ReadOffset' + (i - 1)) % CCBSize]
          = psCommands[(ui32ReadOffset + ((i - 1) + 1)) % CCBSize]
    BY <1>2, <2>1
  <2>3. Waiting[i + 1] = psCommands[(ui32ReadOffset + ((i + 1) - 1)) % CCBSize].n
    BY <1>3, <2>1
  <2> QED BY <2>1, <2>2, <2>3
<1> QED BY <1>4, <1>6, <1>7, <1>9, <1>10

(* Filling a slot is not seen.                                              *)
LEMMA CopyUnseen ==
  ASSUME SizesOK, IInv, NEW t \in Threads, CopiesCommand(t)
  PROVE  Waiting' = Waiting
<1> PICK c : /\ psCommands' = [psCommands EXCEPT ![ui32WriteOffset] = c]
             /\ UNCHANGED <<ui32WriteOffset, ui32ReadOffset>> /\ TypeOK
  BY DEF CopiesCommand, IInv
<1>1. /\ Pending' = Pending
      /\ \A i \in 0..(Pending - 1) : psCommands'[(ui32ReadOffset + i) % CCBSize]
                                       = psCommands[(ui32ReadOffset + i) % CCBSize]
  BY UnreadKept
<1>2. Pending \in Nat /\ ui32ReadOffset \in Nat
  BY WaitingIs DEF TypeOK, SizesOK
<1> DEFINE f(i) == psCommands'[(ui32ReadOffset + i - 1) % CCBSize].n
           g(i) == psCommands[(ui32ReadOffset + i - 1) % CCBSize].n
<1>3. ASSUME NEW i \in 1..Pending PROVE f(i) = g(i)
  <2>1. i - 1 \in 0..(Pending - 1) /\ ui32ReadOffset + i - 1 = ui32ReadOffset + (i - 1)
    BY <1>2
  <2>2. psCommands'[(ui32ReadOffset + (i - 1)) % CCBSize]
          = psCommands[(ui32ReadOffset + (i - 1)) % CCBSize]
    BY <1>1, <2>1
  <2> QED BY <2>1, <2>2
<1>4. Waiting' = [i \in 1..Pending |-> f(i)] /\ Waiting = [i \in 1..Pending |-> g(i)]
  BY <1>1 DEF Waiting
<1> HIDE DEF f, g
<1> QED BY <1>3, <1>4

(* The ring implements the queue: publishing the offset submits a whole     *)
(* command, SGX takes the oldest, and nothing else is seen.                 *)
THEOREM RingIsFifo == ASSUME SizesOK PROVE Spec => Fifo!Spec
<1>1. Init => Fifo!Init
  <2> SUFFICES ASSUME Init PROVE Waiting = <<>> /\ executed = 0
    BY DEF Fifo!Init, Waiting
  <2>1. Pending = 0
    BY DEF Init, Pending, SizesOK
  <2> QED BY <2>1 DEF Init, Waiting
<1>2. IInv /\ [Next]_vars => [Fifo!Next]_(Fifo!vars)
  <2> SUFFICES ASSUME IInv, [Next]_vars
               PROVE  \/ \E n \in 1..MaxSerial : Waiting' = Append(Waiting, n)
                                                 /\ UNCHANGED executed
                      \/ Waiting # <<>> /\ executed' = Head(Waiting) /\ Waiting' = Tail(Waiting)
                      \/ UNCHANGED <<Waiting, executed>>
    BY DEF Fifo!vars, Fifo!Next, Fifo!Submit, Fifo!Take, Waiting
  <2>1. TypeOK'
    BY TypeNext DEF IInv
  <2>2. ASSUME UNCHANGED <<ring, executed>> PROVE UNCHANGED <<Waiting, executed>>
    BY <2>2, RingSame DEF Waiting, ring
  <2>3. ASSUME NEW t \in Threads, PublishesOffset(t)
        PROVE  \E n \in 1..MaxSerial : Waiting' = Append(Waiting, n) /\ UNCHANGED executed
    BY <2>1, <2>3, PublishSubmits DEF PublishesOffset, numbers
  <2>4. ASSUME NEW t \in Threads, CopiesCommand(t) PROVE UNCHANGED <<Waiting, executed>>
    BY Zenon, <2>4, CopyUnseen DEF CopiesCommand
  <2>5. CASE SGXTakes
    BY <2>1, <2>5, SGXTakesFirst
  <2>6. ASSUME NEW t \in Threads, ThreadStep(t), ~PublishesOffset(t), ~CopiesCommand(t)
        PROVE  UNCHANGED <<ring, executed>>
    BY Zenon, <2>6 DEF ThreadStep, Locks, FIX_HW_BRN_28889, SGXAcquireKernelCCBSlot, TimesOut,
       TakesCacheControl, ClearsCacheControl, OSFlushCPUCacheKM, EventKick, PollForValueKM,
       Unlocks, numbers
  <2>7. CASE LoadsCacheControl \/ SGXSleeps \/ UNCHANGED vars
             \/ (\E kind \in Kinds : \E r \in Requests(kind) : StoresCacheControl(r))
             \/ (\E r \in Requests("CPU") : PVRSRVGetMiscInfoKM(r))
    <3>1. UNCHANGED <<ring, executed>>
      BY <2>7 DEF LoadsCacheControl, SGXSleeps, StoresCacheControl, PVRSRVGetMiscInfoKM, numbers,
         vars, ring
    <3> QED BY <2>2, <3>1
  <2>8. ASSUME NEW t \in Threads, ThreadStep(t)
        PROVE  \/ \E n \in 1..MaxSerial : Waiting' = Append(Waiting, n) /\ UNCHANGED executed
               \/ UNCHANGED <<Waiting, executed>>
    <3>1. CASE PublishesOffset(t)
      BY <2>3, <3>1
    <3>2. CASE CopiesCommand(t)
      BY <2>4, <3>2
    <3>3. CASE ~PublishesOffset(t) /\ ~CopiesCommand(t)
      <4>1. UNCHANGED <<ring, executed>>
        BY <2>6, <2>8, <3>3
      <4> QED BY <2>2, <4>1
    <3> QED BY <3>1, <3>2, <3>3
  <2> QED BY <2>5, <2>7, <2>8 DEF Next, ThreadStep, Threads
<1> QED BY <1>1, <1>2, InvAlways, PTL DEF Spec, Fifo!Spec

=============================================================================
