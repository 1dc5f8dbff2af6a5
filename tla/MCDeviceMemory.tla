--------------------------- MODULE MCDeviceMemory ---------------------------
(* Four instances of DeviceMemory for TLC, which share nothing: the first   *)
(* step of a behaviour has chosen one of them.                              *)
EXTENDS DeviceMemory, TLC

CONSTANT Display  \* the buffer of a display
VARIABLE instance

(* The constants as the configuration gives them are those of "share": two  *)
(* processes share memory through a heap of the kernel's context.           *)
(* "scarce" has fewer objects, but the buffer of a display, and memory is   *)
(* short twice; in "wrap" one process has heaps of its own and memory that  *)
(* is wrapped with two sizes, in "own" it is short of memory besides.       *)
Scarce == INSTANCE DeviceMemory WITH Ids <- {1, 2}, DCBuffers <- {Display},
            SyncChoices <- BOOLEAN, WrapChoices <- BOOLEAN, MaxFaults <- 2
Wrap   == INSTANCE DeviceMemory WITH Processes <- {CHOOSE p \in Processes : TRUE},
            Sizes <- {1, 2}, HeapShared <- FALSE, Sharing <- FALSE,
            SyncChoices <- {FALSE}, MaxRefs <- 2
Own    == INSTANCE DeviceMemory WITH Processes <- {CHOOSE p \in Processes : TRUE},
            Ids <- {1, 2}, Sizes <- {1, 2}, HeapShared <- FALSE, Sharing <- FALSE,
            MaxRefs <- 2, MaxFaults <- 1

MCInit ==
    \/ instance = "share" /\ Init
    \/ instance = "scarce" /\ Scarce!Init
    \/ instance = "wrap" /\ Wrap!Init
    \/ instance = "own" /\ Own!Init

MCNext ==
    /\ UNCHANGED instance
    /\ \/ instance = "share" /\ Next
       \/ instance = "scarce" /\ Scarce!Next
       \/ instance = "wrap" /\ Wrap!Next
       \/ instance = "own" /\ Own!Next

MCSpec == MCInit /\ [][MCNext]_<<vars, instance>>

Symmetry == Permutations(Processes)

=============================================================================
