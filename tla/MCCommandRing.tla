---------------------------- MODULE MCCommandRing ----------------------------
(* Small instances of CommandRing for TLC. *)
EXTENDS CommandRing, TLC

CONSTANTS short, long, huge

(* Commands of different sizes, of which one is too big.                    *)
Sizes == [c \in Commands |-> ((short :> 1) @@ (long :> 3) @@ (huge :> 4))[c]]

=============================================================================
