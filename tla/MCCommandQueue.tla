--------------------------- MODULE MCCommandQueue ---------------------------
(* Instances of CommandQueue for TLC.                                       *)
EXTENDS CommandQueue, TLC

CONSTANTS d1, d2, q1, q2, bufA, bufB, bufC, fb1, fb2

(* One display with a chain of two buffers.                                 *)
OneList    == <<q1>>
OneDevice  == q1 :> d1
OneBuffers == q1 :> {bufA, bufB}
OneSystem  == d1 :> fb1
OneOps     == bufA :> 2 @@ bufB :> 2 @@ fb1 :> 1
LiveOps    == bufA :> 3 @@ bufB :> 2 @@ fb1 :> 0

(* Two displays, a chain each.                                              *)
TwoList    == <<q2, q1>>
TwoDevice  == q1 :> d1 @@ q2 :> d2
TwoBuffers == q1 :> {bufA} @@ q2 :> {bufC}
TwoSystem  == d1 :> fb1 @@ d2 :> fb2
TwoOps     == bufA :> 1 @@ bufC :> 2 @@ fb1 :> 0 @@ fb2 :> 0

(* The two buffers of the one chain are interchangeable.                    *)
Symmetry == Permutations({bufA, bufB})

=============================================================================
