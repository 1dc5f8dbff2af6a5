--------------------------- MODULE MCResourceArena ---------------------------
(* Two instances of ResourceArena for TLC, which share nothing: the first   *)
(* step of a behaviour has chosen one of them.                              *)
EXTENDS ResourceArena

VARIABLE instance

(* "space", whose constants MCMemory gives, is the address space of a heap: *)
(* three quanta of four, with sizes and alignments that leave quanta shared.*)
(* "memory" is the memory of a heap: imported in spans that lie side by     *)
(* side, with two kinds of flags and an alignment above the quantum.        *)
NoResource  == [base |-> 0, uSize |-> 0]
MemoryNeeds == {[uSize |-> 2, uAlignment |-> 0, uFlags |-> "cached"],
                [uSize |-> 3, uAlignment |-> 0, uFlags |-> "uncached"],
                [uSize |-> 3, uAlignment |-> 8, uFlags |-> "cached"]}

Memory == INSTANCE ResourceArena WITH Resource <- NoResource, ImportBases <- {4, 8, 12},
            MaxAddress <- 16, Requests <- MemoryNeeds

MCInit ==
    \/ instance = "space"  /\ Init
    \/ instance = "memory" /\ Memory!Init

MCNext ==
    /\ UNCHANGED instance
    /\ \/ instance = "space"  /\ Next
       \/ instance = "memory" /\ Memory!Next

MCSpec == MCInit /\ [][MCNext]_<<vars, instance>>

(* The properties of each instance; see ResourceArena.                      *)
TagsSound == /\ instance = "space"  => TypeOK /\ TagsTile /\ FreeListsExact
             /\ instance = "memory" => Memory!TypeOK /\ Memory!TagsTile /\ Memory!FreeListsExact
Answers   == /\ instance = "space"  => RefusedOnlyWhenFull /\ GrantedAsAsked
             /\ instance = "memory" => Memory!RefusedOnlyWhenFull /\ Memory!GrantedAsAsked
KeptInUse == /\ instance = "space"  => BackedWhileUsed
             /\ instance = "memory" => Memory!NoIdleSpan

BothPools  == IF instance = "memory" THEN Memory!Pool ELSE Pool
Allocators == INSTANCE AddressAllocator WITH pool <- BothPools, live <- Live
ImplementAllocator == Allocators!Spec

=============================================================================
