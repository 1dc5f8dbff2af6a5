----------------------------- MODULE SyncModObj -----------------------------
(***************************************************************************)
(* Sync modification objects (bridged_pvr_bridge.c) and the end of the     *)
(* processes that own them (perproc.c, resman.c).                          *)
(*                                                                         *)
(* A process announces an operation on a surface by hand: it takes the     *)
(* pending counts as a ticket and increments them, and increments the      *)
(* complete counts when it is done.  The ticket is kept in an object that  *)
(* the resource manager knows, so that the driver can finish the operation *)
(* if the process ends without doing so.  Tokens let anybody ask whether   *)
(* what was pending at some moment is complete.  SGX operates on the same  *)
(* surfaces; what it does with an operation is external.                   *)
(*                                                                         *)
(* All bridge calls and the end of a process run under gPVRSRVLock, which  *)
(* the end of a process keeps while it waits.  Counters wrap.              *)
(***************************************************************************)
EXTENDS Naturals, Sequences, FiniteSets, SequencesExt

CONSTANTS
    Processes,
    Objects,    \* the memory of MODIFY_SYNC_OP_INFOs
    Syncs,
    Modulus,    \* counters are taken modulo this number, 2^32 in the code
    MaxIssued,  \* bound: operations issued per surface
    MaxStalls   \* bound: waits for SGX that exceed MAX_HW_TIME_US

ASSUME NamesAssumption ==
    /\ {"none", "lost", "device"} \cap (Processes \cup Objects \cup Syncs) = {}
ASSUME NumbersAssumption == Modulus \in Nat \ {0, 1} /\ MaxIssued \in Nat /\ MaxStalls \in Nat

VARIABLES
    sync,       \* PVRSRV_SYNC_DATA of each surface
    obj,        \* the modification objects
    connected,  \* the processes that have per-process data
    resList,    \* psResItemList of each process, head first
    exit,       \* the PVRSRVResManDisconnect under way
    token,      \* per surface, the last counts some client took as a token
    ops,        \* per surface, the outstanding operations in order of issue
    issued,     \* per surface, the number of operations ever issued
    stalls      \* number of waits for SGX that timed out so far

vars == <<sync, obj, connected, resList, exit, token, ops, issued, stalls>>

-----------------------------------------------------------------------------
Flags == {{"WO_INC"}, {"RO_INC"}, {"WO_INC", "RO_INC"}}

Free == [owner |-> "none", sync |-> "none", flags |-> {}, wsnap |-> 0, rsnap |-> 0]
EmptyObject(p) == [Free EXCEPT !.owner = p]

NoExit == [pc |-> "none", proc |-> "none", item |-> "none"]

(* A bridge call finds gPVRSRVLock free.                                    *)
Bridge(p) == exit.pc = "none" /\ p \in connected

Init ==
    /\ sync = [s \in Syncs |-> [wop |-> 0, rop |-> 0, woc |-> 0, roc |-> 0]]
    /\ obj = [o \in Objects |-> Free]
    /\ connected = {}
    /\ resList = [p \in Processes |-> <<>>]
    /\ exit = NoExit
    /\ token = [s \in Syncs |-> [wsnap |-> 0, rsnap |-> 0, n |-> 0]]
    /\ ops = [s \in Syncs |-> <<>>]
    /\ issued = [s \in Syncs |-> 0]
    /\ stalls = 0

-----------------------------------------------------------------------------
(* Counters: unsigned increments and differences.                           *)

Inc(x) == (x + 1) % Modulus
Diff(a, b) == (a + Modulus - b) % Modulus

(* Mutant of DoQuerySyncOpsSatisfied: the complete counts have reached the  *)
(* snapshots, as numbers.                                                   *)
SatisfiedByNumbers(s, rsnap, wsnap) ==
    sync[s].woc >= wsnap /\ sync[s].roc >= rsnap

(* Everything pending at the snapshot is complete: seen from the pending    *)
(* count, the complete count is not behind the snapshot.                    *)
DoQuerySyncOpsSatisfied(s, rsnap, wsnap) ==
    /\ Diff(sync[s].wop, wsnap) >= Diff(sync[s].wop, sync[s].woc)
    /\ Diff(sync[s].rop, rsnap) >= Diff(sync[s].rop, sync[s].roc)

Satisfied(o) == DoQuerySyncOpsSatisfied(obj[o].sync, obj[o].rsnap, obj[o].wsnap)

(* PVRSRVSyncOpsFlushToDelta: at most so many operations are outstanding.   *)
FlushedToDelta(s, delta) ==
    /\ Diff(sync[s].rop, sync[s].roc) <= delta
    /\ Diff(sync[s].wop, sync[s].woc) <= delta

Pend(s, flags) ==
    [sync[s] EXCEPT !.wop = IF "WO_INC" \in flags THEN Inc(@) ELSE @,
                    !.rop = IF "RO_INC" \in flags THEN Inc(@) ELSE @]

(* Mutant of Complete: a read is not counted.                               *)
CompleteWritesOnly(s, flags) ==
    [sync[s] EXCEPT !.woc = IF "WO_INC" \in flags THEN Inc(@) ELSE @]

Complete(s, flags) ==
    [sync[s] EXCEPT !.woc = IF "WO_INC" \in flags THEN Inc(@) ELSE @,
                    !.roc = IF "RO_INC" \in flags THEN Inc(@) ELSE @]

(* An operation is issued; as many operations as a counter has values are   *)
(* never outstanding.                                                       *)
Issue(s, by, flags) ==
    /\ issued[s] < MaxIssued
    /\ Len(ops[s]) + 1 < Modulus
    /\ sync' = [sync EXCEPT ![s] = Pend(s, flags)]
    /\ ops' = [ops EXCEPT ![s] =
                  Append(@, [by |-> by, flags |-> flags, n |-> issued[s],
                             wsnap |-> sync[s].wop, rsnap |-> sync[s].rop])]
    /\ issued' = [issued EXCEPT ![s] = @ + 1]

(* The surface is in the state that the ticket names.                       *)
Turn(s, ticket) == ticket.wsnap = sync[s].woc /\ ticket.rsnap = sync[s].roc

(* The i-th outstanding operation completes.                                *)
Finish(s, i) ==
    /\ sync' = [sync EXCEPT ![s] = Complete(s, ops[s][i].flags)]
    /\ ops' = [ops EXCEPT ![s] = RemoveAt(@, i)]

(* Mutant of DoModifyCompleteSyncOps: BAD_SYNC_STATE is not tested for.     *)
ModifyCompleteUntested(o) ==
    \E i \in DOMAIN ops[obj[o].sync] : ops[obj[o].sync][i].by = o /\ Finish(obj[o].sync, i)

DoModifyCompleteSyncOps(o) ==
    /\ Turn(obj[o].sync, obj[o])
    /\ \E i \in DOMAIN ops[obj[o].sync] : ops[obj[o].sync][i].by = o /\ Finish(obj[o].sync, i)

-----------------------------------------------------------------------------
(* Bridge calls                                                             *)

PVRSRVProcessConnect(p) ==
    /\ exit.pc = "none"
    /\ p \notin connected
    /\ connected' = connected \cup {p}
    /\ UNCHANGED <<sync, obj, resList, exit, token, ops, issued, stalls>>

CreateSyncInfoModObj(p, o) ==
    /\ Bridge(p)
    /\ obj[o] = Free
    /\ obj' = [obj EXCEPT ![o] = EmptyObject(p)]
    /\ resList' = [resList EXCEPT ![p] = <<o>> \o @]
    /\ UNCHANGED <<sync, connected, exit, token, ops, issued, stalls>>

(* An item is taken out of a list that it is in once.                       *)
Unlinked(list, o) == RemoveAt(list, CHOOSE i \in DOMAIN list : list[i] = o)

(* Only an empty object can be destroyed.                                   *)
DestroySyncInfoModObj(p, o) ==
    /\ Bridge(p)
    /\ obj[o] = EmptyObject(p)
    /\ obj' = [obj EXCEPT ![o] = Free]
    /\ resList' = [resList EXCEPT ![p] = Unlinked(@, o)]
    /\ UNCHANGED <<sync, connected, exit, token, ops, issued, stalls>>

(* Mutant of ModifyPendingSyncOps: an object that is not empty is used.     *)
ModifyPendingAgain(p, o, s, flags) ==
    /\ Bridge(p)
    /\ obj[o].owner = p
    /\ obj' = [obj EXCEPT ![o] = [owner |-> p, sync |-> s, flags |-> flags,
                                  wsnap |-> sync[s].wop, rsnap |-> sync[s].rop]]
    /\ Issue(s, o, flags)
    /\ resList' = [resList EXCEPT ![p] = <<o>> \o Unlinked(@, o)]
    /\ UNCHANGED <<connected, exit, token, stalls>>

(* The item moves to the head of the list: the list is in order of issue.   *)
ModifyPendingSyncOps(p, o, s, flags) ==
    /\ Bridge(p)
    /\ obj[o] = EmptyObject(p)
    /\ obj' = [obj EXCEPT ![o] = [owner |-> p, sync |-> s, flags |-> flags,
                                  wsnap |-> sync[s].wop, rsnap |-> sync[s].rop]]
    /\ Issue(s, o, flags)
    /\ resList' = [resList EXCEPT ![p] = <<o>> \o Unlinked(@, o)]
    /\ UNCHANGED <<connected, exit, token, stalls>>

ModifyCompleteSyncOps(p, o) ==
    /\ Bridge(p)
    /\ obj[o].owner = p
    /\ obj[o].sync # "none"
    /\ DoModifyCompleteSyncOps(o)
    /\ obj' = [obj EXCEPT ![o] = EmptyObject(p)]
    /\ UNCHANGED <<connected, resList, exit, token, issued, stalls>>

SyncOpsTakeToken(p, s) ==
    /\ Bridge(p)
    /\ token' = [token EXCEPT ![s] = [wsnap |-> sync[s].wop, rsnap |-> sync[s].rop,
                                      n |-> issued[s]]]
    /\ UNCHANGED <<sync, obj, connected, resList, exit, ops, issued, stalls>>

(* A kick of SGX that writes or reads the surface.                          *)
SGXDoKick(p, s, flags) ==
    /\ Bridge(p)
    /\ flags \in {{"WO_INC"}, {"RO_INC"}}
    /\ Issue(s, "device", flags)
    /\ UNCHANGED <<obj, connected, resList, exit, token, stalls>>

(* SGX finishes an operation when it is its turn, whoever holds the lock.   *)
DeviceComplete(s) ==
    /\ \E i \in DOMAIN ops[s] : /\ ops[s][i].by = "device"
                                /\ Turn(s, ops[s][i])
                                /\ Finish(s, i)
    /\ UNCHANGED <<obj, connected, resList, exit, token, issued, stalls>>

-----------------------------------------------------------------------------
(* The end of a process                                                     *)

(* Mutant of PVRSRVProcessDisconnect: the list is not reversed.             *)
DisconnectUnreversed(p) ==
    /\ Bridge(p)
    /\ exit' = [pc |-> "free", proc |-> p, item |-> "none"]
    /\ UNCHANGED <<sync, obj, connected, resList, token, ops, issued, stalls>>

(* Operations are flushed in order of issue: the list is reversed.          *)
PVRSRVProcessDisconnect(p) ==
    /\ Bridge(p)
    /\ exit' = [pc |-> "free", proc |-> p, item |-> "none"]
    /\ resList' = [resList EXCEPT ![p] = Reverse(@)]
    /\ UNCHANGED <<sync, obj, connected, token, ops, issued, stalls>>

(* FreeResourceByPtr unlinks the item and calls back; the object of an      *)
(* operation that is not complete is waited for.                            *)
FreeResourceByPtr ==
    /\ exit.pc = "free"
    /\ resList[exit.proc] # <<>>
    /\ LET o == Head(resList[exit.proc])
       IN  /\ resList' = [resList EXCEPT ![exit.proc] = Tail(@)]
           /\ \/ /\ obj[o].sync = "none"
                 /\ obj' = [obj EXCEPT ![o] = Free]
                 /\ UNCHANGED exit
              \/ /\ obj[o].sync # "none"
                 /\ exit' = [exit EXCEPT !.pc = "wait", !.item = o]
                 /\ UNCHANGED obj
    /\ UNCHANGED <<sync, connected, token, ops, issued, stalls>>

(* ModifyCompleteSyncOpsCallBack: its turn has come, the driver completes   *)
(* the operation for the process.                                           *)
OpFlushedComplete ==
    /\ exit.pc = "wait"
    /\ Satisfied(exit.item)
    /\ \/ DoModifyCompleteSyncOps(exit.item)
       \/ ~ Turn(obj[exit.item].sync, obj[exit.item]) /\ UNCHANGED <<sync, ops>>
    /\ obj' = [obj EXCEPT ![exit.item] = Free]
    /\ exit' = [exit EXCEPT !.pc = "free", !.item = "none"]
    /\ UNCHANGED <<connected, resList, token, issued, stalls>>

(* MAX_HW_TIME_US is over: the operation is left as it is and the object is *)
(* not freed; FreeResourceByCriteria stops at the error.  SGX answers in    *)
(* time but for MaxStalls times.                                            *)
FlushTimeout ==
    /\ exit.pc = "wait"
    /\ ~ Satisfied(exit.item)
    /\ \/ /\ Head(ops[obj[exit.item].sync]).by # "device"
          /\ UNCHANGED stalls
       \/ /\ Head(ops[obj[exit.item].sync]).by = "device"
          /\ stalls < MaxStalls
          /\ stalls' = stalls + 1
    /\ obj' = [obj EXCEPT ![exit.item].owner = "lost"]
    /\ exit' = [exit EXCEPT !.pc = "end", !.item = "none"]
    /\ UNCHANGED <<sync, connected, resList, token, ops, issued>>

AllFreed ==
    /\ exit.pc = "free"
    /\ resList[exit.proc] = <<>>
    /\ exit' = [exit EXCEPT !.pc = "end"]
    /\ UNCHANGED <<sync, obj, connected, resList, token, ops, issued, stalls>>

(* The context is freed, and with it all that knows of items left in it.    *)
PVRSRVResManDisconnect ==
    /\ exit.pc = "end"
    /\ obj' = [o \in Objects |->
                  IF \E i \in DOMAIN resList[exit.proc] : resList[exit.proc][i] = o
                  THEN [obj[o] EXCEPT !.owner = "lost"] ELSE obj[o]]
    /\ resList' = [resList EXCEPT ![exit.proc] = <<>>]
    /\ connected' = connected \ {exit.proc}
    /\ exit' = NoExit
    /\ UNCHANGED <<sync, token, ops, issued, stalls>>

-----------------------------------------------------------------------------
Client(p) ==
    \/ PVRSRVProcessConnect(p)
    \/ \E o \in Objects : \/ CreateSyncInfoModObj(p, o)
                          \/ DestroySyncInfoModObj(p, o)
                          \/ ModifyCompleteSyncOps(p, o)
                          \/ \E s \in Syncs, f \in Flags : ModifyPendingSyncOps(p, o, s, f)
    \/ \E s \in Syncs : \/ SyncOpsTakeToken(p, s)
                        \/ \E f \in Flags : SGXDoKick(p, s, f)

Disconnect == FreeResourceByPtr \/ OpFlushedComplete \/ FlushTimeout \/ AllFreed
              \/ PVRSRVResManDisconnect

Next == \/ \E p \in Processes : Client(p) \/ PVRSRVProcessDisconnect(p)
        \/ Disconnect
        \/ \E s \in Syncs : DeviceComplete(s)

Spec == Init /\ [][Next]_vars

(* Every process ends some day, the driver runs, SGX does its work.         *)
Fairness == /\ \A p \in Processes : WF_vars(PVRSRVProcessDisconnect(p))
            /\ WF_vars(Disconnect)
            /\ \A s \in Syncs : WF_vars(DeviceComplete(s))

FairSpec == Spec /\ Fairness

-----------------------------------------------------------------------------
(* Properties                                                               *)

Count == 0 .. Modulus - 1
Operation == [by : Objects \cup {"device"}, flags : Flags, n : Nat, wsnap : Count, rsnap : Count]
Object == [owner : Processes \cup {"none", "lost"}, sync : Syncs \cup {"none"},
           flags : Flags \cup {{}}, wsnap : Count, rsnap : Count]

TypeOK ==
    /\ sync \in [Syncs -> [wop : Count, rop : Count, woc : Count, roc : Count]]
    /\ obj \in [Objects -> Object]
    /\ connected \in SUBSET Processes
    /\ resList \in [Processes -> Seq(Objects)]
    /\ exit \in [pc : {"none", "free", "wait", "end"}, proc : Processes \cup {"none"},
                 item : Objects \cup {"none"}]
    /\ exit.pc # "none" => exit.proc \in connected
    /\ exit.pc = "wait" => exit.item \in Objects /\ obj[exit.item].sync \in Syncs
    /\ token \in [Syncs -> [wsnap : Count, rsnap : Count, n : Nat]]
    /\ ops \in [Syncs -> Seq(Operation)]
    /\ issued \in [Syncs -> Nat]
    /\ stalls \in Nat

(* Operations on a surface complete in the order they were issued in,       *)
(* whoever completes them: a process, SGX, or the driver for a process that *)
(* ended.                                                                   *)
CompletesInOrder ==
    [][\A s \in Syncs : \/ ops'[s] = ops[s]
                        \/ ops[s] # <<>> /\ ops'[s] = Tail(ops[s])
                        \/ ops'[s] # <<>> /\ Front(ops'[s]) = ops[s]]_vars

(* An operation that a process announced and nobody completed is described  *)
(* by exactly one object, which is not free: somebody can still complete it *)
(* unless a wait for it has timed out.                                      *)
AnnouncedIsHeld ==
    \A o \in Objects, s \in Syncs :
        Cardinality({i \in DOMAIN ops[s] : ops[s][i].by = o})
            = IF obj[o].owner # "none" /\ obj[o].sync = s THEN 1 ELSE 0

(* A client is told that a token's operations are complete only when they   *)
(* are, however long ago it took the token and wherever the counters        *)
(* wrapped; and it is told so unless the counters went all the way round.   *)
TokenHonest ==
    \A s \in Syncs :
        LET older == {i \in DOMAIN ops[s] : ops[s][i].n < token[s].n}
            told  == DoQuerySyncOpsSatisfied(s, token[s].rsnap, token[s].wsnap)
        IN  /\ told => older = {}
            /\ older = {} /\ issued[s] - token[s].n < Modulus => told

(* FlushToDelta says how many reads and writes are outstanding.             *)
DeltaHonest ==
    \A s \in Syncs, delta \in Count :
        LET outstanding(f) == {i \in DOMAIN ops[s] : f \in ops[s][i].flags}
        IN  FlushedToDelta(s, delta) <=> /\ Cardinality(outstanding("WO_INC")) <= delta
                                         /\ Cardinality(outstanding("RO_INC")) <= delta

(* What PVRSRV_BRIDGE_SYNC_OPS_... queries tell is true.                    *)
QueriesHonest == TokenHonest /\ DeltaHonest

(* The end of a process never waits for an operation that the same process  *)
(* still has to give up: that wait would always time out.                   *)
ExitWaitsForOthers ==
    exit.pc = "wait" =>
        \A i, j \in DOMAIN ops[obj[exit.item].sync] :
            /\ ops[obj[exit.item].sync][j].by = exit.item
            /\ i < j
            => \A k \in DOMAIN resList[exit.proc] :
                  resList[exit.proc][k] # ops[obj[exit.item].sync][i].by

(* PVRSRVResManDisconnect asserts that the process has no resource left.    *)
NoResourceLeft == exit.pc = "end" => resList[exit.proc] = <<>>

(* What a process announced gets completed, by the process or at its end;   *)
(* it is given up only when SGX was late.                                   *)
AnnouncedCompletes ==
    \A o \in Objects : (obj[o].sync # "none")
                          ~> \/ obj[o].sync = "none"
                             \/ obj[o].owner = "lost" /\ stalls > 0

=============================================================================
