------------------------------ MODULE KeyedMap ------------------------------
(* What a hash table promises: a map, of which an insertion may be refused. *)
EXTENDS Integers, Functions

CONSTANTS Keys, Values

VARIABLES held, result

Answer(k) == IF k \in DOMAIN held THEN held[k] ELSE 0

Inserts(k, v) ==
    \/ result' = <<"insert", k, v, FALSE>> /\ UNCHANGED held
    \/ /\ result' = <<"insert", k, v, TRUE>>
       /\ held' = [j \in DOMAIN held \cup {k} |-> IF j = k THEN v ELSE held[j]]

Removes(k) == result' = <<"remove", k, Answer(k)>> /\ held' = Restrict(held, DOMAIN held \ {k})

Retrieves(k) == result' = <<"retrieve", k, Answer(k)>> /\ UNCHANGED held

Init == held = <<>> /\ result = <<"created">>
Next == \E k \in Keys : (\E v \in Values : Inserts(k, v)) \/ Removes(k) \/ Retrieves(k)
Spec == Init /\ [][Next]_<<held, result>>
=============================================================================
