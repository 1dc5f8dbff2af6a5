------------------------------ MODULE HandleMap ------------------------------
(* What a table of handles promises: a handle names its object until it or  *)
(* its parent is released, no handle is given out twice, and the handles of *)
(* a batch are kept together or given back together.                        *)
EXTENDS Naturals

VARIABLES
    names,    \* what the handles in use stand for, and their parents
    pending,  \* the handles of the open batch
    open,     \* is a batch open
    failed    \* did a call of the open batch fail

vars == <<names, pending, open, failed>>

Without(gone) == [h \in DOMAIN names \ gone |-> names[h]]

(* A set of handles with all that descends from them.                       *)
Closed(gone) == \A h \in DOMAIN names : names[h].parent \in gone => h \in gone
Closure(roots) ==
    {h \in DOMAIN names :
       \A gone \in SUBSET DOMAIN names : (roots \subseteq gone /\ Closed(gone)) => h \in gone}

Init == names = <<>> /\ pending = {} /\ open = FALSE /\ failed = FALSE

Allocate ==
    \E h \in DOMAIN names' \ DOMAIN names :
        /\ DOMAIN names' = DOMAIN names \cup {h}
        /\ \A k \in DOMAIN names : names'[k] = names[k]
        /\ names'[h].parent \in DOMAIN names \cup {0}
        /\ pending' = IF open THEN pending \cup {h} ELSE pending
        /\ UNCHANGED <<open, failed>>

Refuse ==
    /\ failed' = open
    /\ UNCHANGED <<names, pending, open>>

Release ==
    \E h \in DOMAIN names :
        /\ names' = Without(Closure({h}))
        /\ pending' = pending \ Closure({h})
        /\ UNCHANGED <<open, failed>>

Begin == ~open /\ open' = TRUE /\ UNCHANGED <<names, pending, failed>>

End(kept) ==
    /\ open
    /\ names' = IF kept THEN names ELSE Without(Closure(pending))
    /\ pending' = {} /\ open' = FALSE /\ failed' = FALSE

FreeAll == names' = <<>> /\ pending' = {} /\ open' = FALSE /\ failed' = FALSE

Next ==
    \/ Allocate
    \/ Refuse
    \/ Release
    \/ Begin
    \/ \E kept \in BOOLEAN : (kept => ~failed) /\ End(kept)
    \/ FreeAll

Spec == Init /\ [][Next]_vars

=============================================================================
