------------------------------ MODULE KernelCCB ------------------------------
(***************************************************************************)
(* The kernel CCB (sgxutils.c): a ring of commands that SGX reads, and the *)
(* caches SGX must drop before it runs what it is told to.                 *)
(*                                                                         *)
(* A bridge call and the MISR submit commands, one at a time under the     *)
(* power lock.  What is to be invalidated is noted without that lock, by   *)
(* bridge calls only: MMU code and cleanups set bits in ui32CacheControl,  *)
(* which the next command takes with it, whoever submits it.  The MISR may *)
(* run between any two accesses of a bridge call.  Stores reach memory in  *)
(* the order of the program.                                               *)
(*                                                                         *)
(* A bit is modelled as the set of the requests it stands for, which are   *)
(* told apart to see that each is met.  The microkernel is external.       *)
(***************************************************************************)
EXTENDS Integers, FiniteSets

CONSTANTS
    CCBSize,       \* slots of the ring: 256
    Kinds,         \* what can be invalidated: some of "PT", "PD", "DATA"
    Names,         \* bound: numbers for the requests that are not yet forgotten
    MaxSerial      \* commands are numbered modulo this, for CommandFifo

SizesOK == CCBSize \in Nat \ {0} /\ MaxSerial \in Nat \ {0}

VARIABLES
    psCommands,      \* the ring
    ui32WriteOffset, ui32ReadOffset,
    cacheControl,    \* ui32CacheControl
    ePendingCacheOpType,  \* the deferred operation on the CPU cache, if any
    submitter,       \* where each thread is
    sPowerLock,      \* its holder
    awake,           \* the microkernel looks at the ring
    wanted,          \* history: requests that are not met
    serial,          \* history: the number of the next command
    executed         \* history: the number of the last command SGX took

vars == <<psCommands, ui32WriteOffset, ui32ReadOffset, cacheControl, ePendingCacheOpType,
          submitter, sPowerLock, awake, wanted, serial, executed>>
ring     == <<psCommands, ui32WriteOffset, ui32ReadOffset>>
numbers  == <<serial, executed>>

Types == [bridge |-> {"TA", "CLEANUP"}, misr |-> {"PROCESS_QUEUES", "POWER"}]
Idle == [pc |-> "idle", type |-> "none", nested |-> FALSE, late |-> FALSE, word |-> {}, needs |-> {}]
NoCommand == [n |-> 0, type |-> "none", cc |-> {}, late |-> FALSE]

Of(cc) == {r.kind : r \in cc}

(* The slots SGX has not read, and what their commands take with them.      *)
Pending == (ui32WriteOffset - ui32ReadOffset) % CCBSize
Unread  == {psCommands[(ui32ReadOffset + i) % CCBSize] : i \in 0..(Pending - 1)}
Carried == UNION {c.cc : c \in Unread}

Init ==
    /\ psCommands = [s \in 0..(CCBSize - 1) |-> NoCommand]
    /\ ui32WriteOffset = 0 /\ ui32ReadOffset = 0
    /\ cacheControl = {} /\ ePendingCacheOpType = {}
    /\ submitter = [t \in DOMAIN Types |-> Idle]
    /\ sPowerLock = "free"
    /\ awake = FALSE
    /\ wanted = {} /\ serial = 1 /\ executed = 0

At(t, pc)   == submitter[t].pc = pc
Goto(t, pc) == submitter' = [submitter EXCEPT ![t].pc = pc]

-----------------------------------------------------------------------------
(* A bridge call notes what must be invalidated, with a load and a store.   *)
LoadsCacheControl ==
    /\ At("bridge", "idle")
    /\ submitter' = [submitter EXCEPT !["bridge"] = [@ EXCEPT !.pc = "note", !.word = cacheControl]]
    /\ UNCHANGED <<ring, cacheControl, ePendingCacheOpType, sPowerLock, awake, wanted, numbers>>

(* A request under a number that no other of its kind has.                  *)
Used == wanted \cup cacheControl \cup ePendingCacheOpType \cup Carried
               \cup UNION {submitter[t].word : t \in DOMAIN Types}
Requests(kind) == {r \in [kind : {kind}, name : Names] : r \notin Used}

StoresCacheControl(r) ==
    /\ At("bridge", "note")
    /\ cacheControl' = submitter["bridge"].word \cup {r}
    /\ wanted' = wanted \cup {r}
    /\ submitter' = [submitter EXCEPT !["bridge"] = Idle, !["misr"].late = ~At("misr", "idle")]
    /\ UNCHANGED <<ring, ePendingCacheOpType, sPowerLock, awake, numbers>>

(* An operation on the CPU cache that a client defers to its next scene.    *)
PVRSRVGetMiscInfoKM(r) ==
    /\ At("bridge", "idle")
    /\ ePendingCacheOpType' = ePendingCacheOpType \cup {r}
    /\ wanted' = wanted \cup {r}
    /\ UNCHANGED <<ring, cacheControl, submitter, sPowerLock, awake, numbers>>

-----------------------------------------------------------------------------
(* SGXScheduleCCBCommand: its caller has the power lock, and SGX is on.  A  *)
(* command of a client needs what the client asked for before; "TA" is the  *)
(* last command of its scene.                                               *)
Locks(t, type) ==
    /\ At(t, "idle") /\ sPowerLock = "free"
    /\ sPowerLock' = t
    /\ submitter' = [submitter EXCEPT ![t] =
                        [Idle EXCEPT !.pc = "check", !.type = type,
                                     !.needs = {r \in wanted : t = "bridge"
                                                               /\ (r.kind = "CPU" => type = "TA")}]]
    /\ UNCHANGED <<ring, cacheControl, ePendingCacheOpType, awake, wanted, numbers>>

(* SGX cannot drop its data and what it knows of the page tables with one   *)
(* command ...                                                              *)
Both(kinds) == "DATA" \in kinds /\ kinds \cap {"PT", "PD"} # {}

(* Mutant of NestedFirst: no command comes first.                           *)
NeverNested(t) == FALSE

(* ... so that one without work of its own comes first.                     *)
NestedFirst(t) == submitter[t].type # "PROCESS_QUEUES" /\ Both(Of(cacheControl))

FIX_HW_BRN_28889(t) ==
    /\ At(t, "check")
    /\ submitter' = [submitter EXCEPT ![t] =
                        [@ EXCEPT !.pc = "slot", !.late = FALSE, !.nested = NestedFirst(t)]]
    /\ UNCHANGED <<ring, cacheControl, ePendingCacheOpType, sPowerLock, awake, wanted, numbers>>

(* One slot stays free.                                                     *)
Full == (ui32WriteOffset + 1) % CCBSize = ui32ReadOffset

(* Mutant of SGXAcquireKernelCCBSlot: a slot is published before it is filled. *)
PublishesSlot(t) ==
    /\ At(t, "slot") /\ ~Full
    /\ ui32WriteOffset' = (ui32WriteOffset + 1) % CCBSize
    /\ Goto(t, "load")
    /\ UNCHANGED <<psCommands, ui32ReadOffset, cacheControl, ePendingCacheOpType, sPowerLock,
                   awake, wanted, numbers>>

SGXAcquireKernelCCBSlot(t) ==
    /\ At(t, "slot") /\ ~Full
    /\ Goto(t, "load")
    /\ UNCHANGED <<ring, cacheControl, ePendingCacheOpType, sPowerLock, awake, wanted, numbers>>

(* Mutant of TimesOut: what was to be invalidated is forgotten.             *)
TimeoutForgets(t) ==
    /\ At(t, "slot") /\ Full
    /\ Goto(t, "unlock")
    /\ cacheControl' = {}
    /\ UNCHANGED <<ring, ePendingCacheOpType, sPowerLock, awake, wanted, numbers>>

(* SGX makes no room in MAX_HW_TIME_US: nothing has changed.                *)
TimesOut(t) ==
    /\ At(t, "slot") /\ Full
    /\ Goto(t, "unlock")
    /\ UNCHANGED <<ring, cacheControl, ePendingCacheOpType, sPowerLock, awake, wanted, numbers>>

(* The command takes what is to be invalidated ...                          *)
TakesCacheControl(t) ==
    /\ At(t, "load")
    /\ submitter' = [submitter EXCEPT ![t] = [@ EXCEPT !.pc = "clear", !.word = cacheControl]]
    /\ UNCHANGED <<ring, cacheControl, ePendingCacheOpType, sPowerLock, awake, wanted, numbers>>

(* ... and clears it.  What was noted in between is lost.                   *)
ClearsCacheControl(t) ==
    /\ At(t, "clear")
    /\ cacheControl' = {}
    /\ wanted' = wanted \ (cacheControl \ submitter[t].word)
    /\ Goto(t, "copy")
    /\ UNCHANGED <<ring, ePendingCacheOpType, sPowerLock, awake, numbers>>

(* The command in its slot; "late" when something was noted since the check. *)
CopiesCommand(t) ==
    LET s == submitter[t] IN
    /\ At(t, "copy")
    /\ psCommands' = [psCommands EXCEPT ![ui32WriteOffset] =
                        [n |-> serial, type |-> IF s.nested THEN "PROCESS_QUEUES" ELSE s.type,
                         cc |-> s.word, late |-> s.late]]
    /\ serial' = (serial % MaxSerial) + 1
    /\ submitter' = [submitter EXCEPT ![t] =
                        [@ EXCEPT !.word = {}, !.pc = IF s.type = "TA" /\ ~s.nested THEN "flush" ELSE "publish"]]
    /\ UNCHANGED <<ui32WriteOffset, ui32ReadOffset, cacheControl, ePendingCacheOpType, sPowerLock,
                   awake, wanted, executed>>

(* The last command of a scene does what is pending for the CPU cache.      *)
OSFlushCPUCacheKM(t) ==
    /\ At(t, "flush")
    /\ ePendingCacheOpType' = {}
    /\ wanted' = wanted \ ePendingCacheOpType
    /\ Goto(t, "publish")
    /\ UNCHANGED <<ring, cacheControl, sPowerLock, awake, numbers>>

PublishesOffset(t) ==
    /\ At(t, "publish")
    /\ ui32WriteOffset' = (ui32WriteOffset + 1) % CCBSize
    /\ Goto(t, "kick")
    /\ UNCHANGED <<psCommands, ui32ReadOffset, cacheControl, ePendingCacheOpType, sPowerLock,
                   awake, wanted, numbers>>

(* Mutant of EventKick: before SGX is kicked again the last command is run. *)
KickIfRead(t) ==
    /\ At(t, "kick")
    /\ awake' = (awake \/ Pending > 1)
    /\ Goto(t, IF submitter[t].nested THEN "poll" ELSE "unlock")
    /\ UNCHANGED <<ring, cacheControl, ePendingCacheOpType, sPowerLock, wanted, numbers>>

EventKick(t) ==
    /\ At(t, "kick")
    /\ awake' = TRUE
    /\ Goto(t, IF submitter[t].nested THEN "poll" ELSE "unlock")
    /\ UNCHANGED <<ring, cacheControl, ePendingCacheOpType, sPowerLock, wanted, numbers>>

(* The answer to the command that came first is waited for, if not for      *)
(* ever: there may be one already, of a command before it.                  *)
PollForValueKM(t) ==
    /\ At(t, "poll")
    /\ submitter' = [submitter EXCEPT ![t] = [@ EXCEPT !.pc = "slot", !.nested = FALSE]]
    /\ UNCHANGED <<ring, cacheControl, ePendingCacheOpType, sPowerLock, awake, wanted, numbers>>

Unlocks(t) ==
    /\ At(t, "unlock")
    /\ sPowerLock' = "free"
    /\ submitter' = [submitter EXCEPT ![t] = Idle]
    /\ UNCHANGED <<ring, cacheControl, ePendingCacheOpType, awake, wanted, numbers>>

-----------------------------------------------------------------------------
(* SGX takes a command, and drops the caches it names.  Nobody looks at its *)
(* slot again before it is overwritten, so that it counts as blank.         *)
SGXTakes ==
    LET c == psCommands[ui32ReadOffset] IN
    /\ awake /\ Pending > 0
    /\ executed' = c.n
    /\ wanted' = wanted \ c.cc
    /\ ui32ReadOffset' = (ui32ReadOffset + 1) % CCBSize
    /\ psCommands' = [psCommands EXCEPT ![ui32ReadOffset] = NoCommand]
    /\ UNCHANGED <<ui32WriteOffset, cacheControl, ePendingCacheOpType, submitter,
                   sPowerLock, awake, serial>>

(* It sleeps until it is kicked.                                            *)
SGXSleeps ==
    /\ awake /\ Pending = 0
    /\ awake' = FALSE
    /\ UNCHANGED <<ring, cacheControl, ePendingCacheOpType, submitter, sPowerLock,
                   wanted, numbers>>

Next ==
    \/ LoadsCacheControl
    \/ \E kind \in Kinds : \E r \in Requests(kind) : StoresCacheControl(r)
    \/ \E r \in Requests("CPU") : PVRSRVGetMiscInfoKM(r)
    \/ \E t \in DOMAIN Types :
        \/ \E type \in Types[t] : Locks(t, type)
        \/ FIX_HW_BRN_28889(t) \/ SGXAcquireKernelCCBSlot(t) \/ TimesOut(t)
        \/ TakesCacheControl(t) \/ ClearsCacheControl(t) \/ CopiesCommand(t)
        \/ OSFlushCPUCacheKM(t) \/ PublishesOffset(t) \/ EventKick(t)
        \/ PollForValueKM(t) \/ Unlocks(t)
    \/ SGXTakes \/ SGXSleeps

Spec == Init /\ [][Next]_vars

-----------------------------------------------------------------------------
(* Properties.                                                              *)

Request == [kind : Kinds \cup {"CPU"}, name : Names]
Sent    == {"none"} \cup UNION {Types[t] : t \in DOMAIN Types}
Places  == {"idle", "note", "check", "slot", "load", "clear", "copy", "flush", "publish",
            "kick", "poll", "unlock"}
TypeOK ==
    /\ psCommands \in [0..(CCBSize - 1) -> [n : 0..MaxSerial, type : Sent,
                                           cc : SUBSET Request, late : BOOLEAN]]
    /\ ui32WriteOffset \in 0..(CCBSize - 1) /\ ui32ReadOffset \in 0..(CCBSize - 1)
    /\ cacheControl \subseteq Request /\ ePendingCacheOpType \subseteq Request
    /\ submitter \in [DOMAIN Types -> [pc : Places, type : Sent, nested : BOOLEAN, late : BOOLEAN,
                                       word : SUBSET Request, needs : SUBSET Request]]
    /\ sPowerLock \in DOMAIN Types \cup {"free"}
    /\ awake \in BOOLEAN /\ wanted \subseteq Request
    /\ serial \in 1..MaxSerial /\ executed \in 0..MaxSerial

(* What is to be invalidated is noted, in the hands of a thread or on its   *)
(* way to SGX until SGX has done it, also when a command times out.         *)
InHand(t) == CASE At(t, "copy")                     -> submitter[t].word
               [] At(t, "flush") \/ At(t, "publish") -> psCommands[ui32WriteOffset].cc
               [] OTHER                             -> {}
RequestsKept ==
    wanted \subseteq cacheControl \cup ePendingCacheOpType \cup Carried
                     \cup UNION {InHand(t) : t \in DOMAIN Types}

(* A command is behind everything its client asked for, in the order SGX    *)
(* reads.                                                                   *)
NeedsMet == At("bridge", "kick") /\ ~submitter["bridge"].nested =>
                submitter["bridge"].needs \cap wanted \subseteq Carried

(* A client loses nothing to a command of its own.                          *)
OwnKept == At("bridge", "clear") => cacheControl = submitter["bridge"].word

(* No work is sent with both invalidations, unless the other thread noted   *)
(* something after the check.                                               *)
NotBoth == \A c \in Unread : c.type # "PROCESS_QUEUES" /\ ~c.late => ~Both(Of(c.cc))

(* SGX does not sleep on a command, unless its kick is about to come.       *)
Awake == Pending > 0 /\ ~awake => \E t \in DOMAIN Types : At(t, "kick")

CCBSound == TypeOK /\ RequestsKept /\ NeedsMet /\ OwnKept /\ NotBoth /\ Awake

(* SGX gets the commands whole and in order.                                *)
Fifo == INSTANCE CommandFifo WITH
    fifo <- [i \in 1..Pending |-> psCommands[(ui32ReadOffset + i - 1) % CCBSize].n],
    taken <- executed, Command <- 1..MaxSerial, Nothing <- 0

=============================================================================
