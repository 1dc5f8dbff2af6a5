--------------------------- MODULE AddressAllocator ---------------------------
(* What an allocator of addresses promises: the areas it has handed out are *)
(* disjoint and lie in the pool, and an address leaves the pool only while  *)
(* nobody uses it.                                                          *)
EXTENDS Integers, FiniteSets

VARIABLES
    pool,   \* the addresses the allocator may hand out
    live    \* the areas it has handed out

vars == <<pool, live>>

Cells(area) == area.base .. area.base + area.uSize - 1
Used(areas) == UNION {Cells(a) : a \in areas}

Init == live = {}

(* The pool may grow to satisfy a request.                                  *)
Alloc ==
    \E area \in live' \ live :
        /\ live' = live \cup {area}
        /\ Cells(area) # {}
        /\ Cells(area) \subseteq pool'
        /\ Cells(area) \cap Used(live) = {}
        /\ pool \subseteq pool'

Free ==
    \E area \in live :
        /\ live' = live \ {area}
        /\ pool' \subseteq pool
        /\ Used(live') \subseteq pool'

(* A refused request may still have moved unused addresses.                 *)
Refuse ==
    /\ live' = live
    /\ Used(live) \subseteq pool'

Next == Alloc \/ Free \/ Refuse

Spec == Init /\ [][Next]_vars

=============================================================================
