------------------------------ MODULE SwapChain ------------------------------
(***************************************************************************)
(* Swap chains of a display (deviceclass.c) on the frame-buffer driver     *)
(* (omaplfb_displayclass.c).  A chain has a command queue and the sync     *)
(* infos of its buffers; the driver has one chain at a time.  Processes    *)
(* hold references to chains, several to a shared one, and the last to go  *)
(* destroys the chain, also when its process just ends.  Calls run under   *)
(* the bridge lock, the queues and the swap handler beside it.             *)
(*                                                                         *)
(* Three mishaps leave things behind; which of them happened is noted:     *)
(* "noRef", no memory for the first reference, after the driver made its   *)
(* chain; "flush", a queue that was not empty in time; "closed", a display *)
(* closed before its chains.                                               *)
(***************************************************************************)
EXTENDS Naturals, FiniteSets, Functions, SequencesExt

CONSTANTS
    Processes,
    MaxChains,   \* bound: how many chains are made
    MaxRefs,     \* bound: references of a process to one chain
    MaxCommands, \* bound: flips in one queue
    Mishaps      \* those that may happen

MaxChainsOK == MaxChains \in Nat

VARIABLES
    chains,   \* PVRSRV_DC_SWAPCHAIN by swap chain ID: the count and whether
              \* it is shared
    shared,   \* psDCSwapChainShared
    refs,     \* the references each process holds to each chain
    display,  \* what opened it; the driver's chain, 0 for none; the last ID
    queues,   \* the flips in each queue; a queue has the ID of its chain
    slot,     \* the complete-data slot: the chain of the flip that has it
    mishaps   \* history

vars == <<chains, shared, refs, display, queues, slot, mishaps>>

NoFlip == [chain |-> 0, handler |-> FALSE]

Init ==
    /\ chains = <<>> /\ shared = <<>> /\ queues = <<>>
    /\ refs = [p \in Processes |-> [c \in 1 .. MaxChains |-> 0]]
    /\ display = [opens |-> [p \in Processes |-> 0], chain |-> 0, lastID |-> 0]
    /\ slot = NoFlip
    /\ mishaps = {}

IsOpen(d) == \E p \in Processes : d.opens[p] > 0
May(mishap) == mishap \in Mishaps
Without(f, c) == [x \in DOMAIN f \ {c} |-> f[x]]
With(f, c, v) == [x \in DOMAIN f \cup {c} |-> IF x = c THEN v ELSE f[x]]

-----------------------------------------------------------------------------
(* The display.                                                             *)

OpenDCDeviceKM(p) ==
    /\ display.opens[p] = 0  \* bound
    /\ display' = [display EXCEPT !.opens[p] = 1]
    /\ UNCHANGED <<chains, shared, refs, queues, slot, mishaps>>

(* Nothing keeps a process from closing the display before its chains.      *)
CloseDCDeviceKM(p) ==
    LET closed == [display EXCEPT !.opens[p] = @ - 1]
        early  == ~IsOpen(closed) /\ DOMAIN chains # {}
    IN  /\ display.opens[p] > 0
        /\ early => May("closed")
        /\ display' = closed
        /\ mishaps' = IF early THEN mishaps \cup {"closed"} ELSE mishaps
        /\ UNCHANGED <<chains, shared, refs, queues, slot>>

-----------------------------------------------------------------------------
(* Creation.                                                                *)

FindSharedDCSwapChainKM(c) == c \in ToSet(shared)

(* A query gives a reference to a chain that is shared; it is refused when  *)
(* there is none or no memory, and nothing changes.                         *)
QueryDCSwapChainKM(p, c) ==
    /\ display.opens[p] > 0 /\ FindSharedDCSwapChainKM(c)
    /\ refs[p][c] < MaxRefs
    /\ refs' = [refs EXCEPT ![p][c] = @ + 1]
    /\ chains' = [chains EXCEPT ![c].refCount = @ + 1]
    /\ UNCHANGED <<shared, display, queues, slot, mishaps>>

(* The driver makes a chain unless it has one; IDs are never used again.    *)
DriverCreates == display.chain = 0 /\ display.lastID < MaxChains

CreateDCSwapChainKM(p, isShared) ==
    LET c == display.lastID + 1
    IN  /\ display.opens[p] > 0 /\ DriverCreates
        /\ chains' = With(chains, c, [refCount |-> 1, shared |-> isShared])
        /\ queues' = With(queues, c, 0)
        /\ refs' = [refs EXCEPT ![p][c] = 1]
        /\ shared' = IF isShared THEN <<c>> \o shared ELSE shared
        /\ display' = [display EXCEPT !.chain = c, !.lastID = c]
        /\ UNCHANGED <<slot, mishaps>>

(* No memory for the reference: everything is given back but the driver's   *)
(* chain.                                                                   *)
CreateDCSwapChainFails(p) ==
    /\ display.opens[p] > 0 /\ DriverCreates /\ May("noRef")
    /\ display' = [display EXCEPT !.chain = display.lastID + 1, !.lastID = @ + 1]
    /\ mishaps' = mishaps \cup {"noRef"}
    /\ UNCHANGED <<chains, shared, refs, queues, slot>>

-----------------------------------------------------------------------------
(* Destruction.                                                             *)

(* The driver, asked to destroy a chain, waits for its swap handler.  It    *)
(* refuses a chain that is not its own, or when it was closed.              *)
DriverDestroys(c) == IsOpen(display) /\ display.chain = c

(* Mutant of Drained: nobody waits.                                         *)
DrainedNot(c) == slot

Drained(c) == IF slot.chain = c THEN NoFlip ELSE slot

(* A queue that is not empty in time stays, with its flips.                 *)
DestroyCommandQueue(c) == IF queues[c] = 0 THEN Without(queues, c) ELSE queues

Place(list, c) == CHOOSE i \in DOMAIN list : list[i] = c

(* Mutant of Unlinked: the head of the list stays.                          *)
UnlinkedNotHead(list, c) ==
    IF c \in ToSet(list) /\ Head(list) # c THEN RemoveAt(list, Place(list, c)) ELSE list

Unlinked(list, c) == IF c \in ToSet(list) THEN RemoveAt(list, Place(list, c)) ELSE list

DestroyDCSwapChain(c) ==
    /\ shared' = Unlinked(shared, c)
    /\ queues' = DestroyCommandQueue(c)
    /\ IF DriverDestroys(c)
       THEN /\ slot' = Drained(c)
            /\ display' = [display EXCEPT !.chain = 0]
            /\ chains' = Without(chains, c)
       ELSE /\ chains' = [chains EXCEPT ![c].refCount = 0]
            /\ UNCHANGED <<slot, display>>

(* Mutant of DestroyDCSwapChainRef: any reference destroys the chain.       *)
DestroyDCSwapChainRefFirst(p, c) ==
    /\ refs[p][c] > 0
    /\ (queues[c] > 0) => May("flush")
    /\ refs' = [refs EXCEPT ![p][c] = @ - 1]
    /\ mishaps' = mishaps \cup IF queues[c] > 0 THEN {"flush"} ELSE {}
    /\ DestroyDCSwapChain(c)

(* A reference goes, by a call or at the end of its process, which then     *)
(* closes the display.                                                      *)
DestroyDCSwapChainRef(p, c) ==
    LET last == chains[c].refCount = 1
    IN  /\ refs[p][c] > 0
        /\ (last /\ queues[c] > 0) => May("flush")
        /\ refs' = [refs EXCEPT ![p][c] = @ - 1]
        /\ mishaps' = mishaps \cup IF last /\ queues[c] > 0 THEN {"flush"} ELSE {}
        /\ IF last THEN DestroyDCSwapChain(c)
           ELSE /\ chains' = [chains EXCEPT ![c].refCount = @ - 1]
                /\ UNCHANGED <<shared, display, queues, slot>>

-----------------------------------------------------------------------------
(* Flips, to a buffer of the chain or to the one the system displays.       *)

SwapToDCBufferKM(p, c) ==
    /\ display.opens[p] > 0 /\ refs[p][c] > 0
    /\ c \in DOMAIN queues /\ queues[c] < MaxCommands
    /\ queues' = [queues EXCEPT ![c] = @ + 1]
    /\ UNCHANGED <<chains, shared, refs, display, slot, mishaps>>

SwapToDCSystemKM(p, c) == SwapToDCBufferKM(p, c)

(* The driver takes a flip of a chain it no longer has, and forgets it.     *)
ProcessFlip(c) ==
    /\ c \in DOMAIN queues /\ queues[c] > 0 /\ slot = NoFlip
    /\ queues' = [queues EXCEPT ![c] = @ - 1]
    /\ slot' = [chain |-> c, handler |-> display.chain = c]
    /\ UNCHANGED <<chains, shared, refs, display, mishaps>>

SwapHandler ==
    /\ slot.handler
    /\ slot' = NoFlip
    /\ UNCHANGED <<chains, shared, refs, display, queues, mishaps>>

-----------------------------------------------------------------------------
Next ==
    \/ \E p \in Processes :
          \/ OpenDCDeviceKM(p) \/ CloseDCDeviceKM(p)
          \/ \E isShared \in BOOLEAN : CreateDCSwapChainKM(p, isShared)
          \/ CreateDCSwapChainFails(p)
          \/ \E c \in DOMAIN chains :
                QueryDCSwapChainKM(p, c) \/ DestroyDCSwapChainRef(p, c) \/ SwapToDCBufferKM(p, c)
                \/ SwapToDCSystemKM(p, c)
    \/ \E c \in 1 .. MaxChains : ProcessFlip(c)
    \/ SwapHandler

Spec == Init /\ [][Next]_vars

-----------------------------------------------------------------------------
(* Properties.                                                              *)

References(c) == UNION {{p} \X (1 .. refs[p][c]) : p \in Processes}
TotalRefs(c)  == Cardinality(References(c))

(* A chain counts its references, and exists as long as there is one; the   *)
(* list holds the shared chains that somebody still refers to.              *)
RefsExact ==
    /\ \A c \in 1 .. MaxChains :
          IF c \in DOMAIN chains THEN chains[c].refCount = TotalRefs(c) ELSE TotalRefs(c) = 0
    /\ ToSet(shared) = {c \in DOMAIN chains : chains[c].shared /\ TotalRefs(c) > 0}
    /\ IsInjective(shared)

(* The driver's chain belongs to somebody who can destroy it, so that a     *)
(* chain can be made again.                                                 *)
DriverChainOwned ==
    mishaps \cap {"noRef", "closed"} = {} =>
        /\ DOMAIN chains = {display.chain} \ {0}
        /\ \A c \in DOMAIN chains : TotalRefs(c) > 0

(* A flip in a queue, or with the driver, is one of a chain whose sync      *)
(* infos are still there, and the one with the driver will be completed.    *)
FlipsBacked ==
    "flush" \notin mishaps =>
        /\ \A c \in DOMAIN queues : queues[c] > 0 => c \in DOMAIN chains
        /\ slot # NoFlip => slot.chain \in DOMAIN chains
        /\ (slot # NoFlip /\ mishaps = {}) => slot.handler

ChainsSound == RefsExact /\ DriverChainOwned /\ FlipsBacked

(* Nothing a process does takes a chain from another that refers to it, or  *)
(* from under a flip that the driver has.                                   *)
OthersKeepChains ==
    [][\A c \in DOMAIN chains \ DOMAIN chains' :
          Cardinality({p \in Processes : refs[p][c] > 0}) = 1 /\ slot'.chain # c]_vars

=============================================================================
