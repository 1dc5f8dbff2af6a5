------------------------------ MODULE MCMemory ------------------------------
(* The instances of DeviceMemory, ResourceArena, HashTable and Kicks in one *)
(* run; they share nothing but the choice of an instance.                   *)
EXTENDS MCDeviceMemory

VARIABLES
    arena, imports, backed, last, arenaFaults,                              \* ResourceArena
    ppBucketTable, uCount, result, starved,                                 \* HashTable
    sync, commands, scene, life, cleanups, ui32CleanupStatus, request,      \* Kicks
    issued, refused, spurned, tainted, crossed, spoilt

NoFlags == Nil  \* compared with flags only

Arenas == INSTANCE MCResourceArena WITH
            FREE_TABLE_LIMIT <- 5, NoMapping <- NoFlags, uQuantum <- 4,
            Resource <- [base |-> 4, uSize |-> 10], ImportBases <- {}, MaxAddress <- 16,
            Requests <- [uSize : {2, 3, 5}, uAlignment : {1, 4}, uFlags : {"none"}],
            MaxFaults <- 1, faults <- arenaFaults

(* The keys start in one chain and end in one each; the table grows to      *)
(* eight.                                                                   *)
Hashed == INSTANCE HashTable WITH
            Keys <- 1..4, Values <- {1, 2}, Hash <- <<1, 5, 3, 7>>, uMinimumSize <- 1

(* Two render contexts, one of which renders in two parts, and a context   *)
(* for transfers and blits; two surfaces and a synchronisation object.      *)
NoOne == "none"
Kick(first, last3D, ta3d, dep, ta, srcs, dsts) ==
    [first |-> first, last |-> last3D, ta3d |-> ta3d, dep |-> dep, ta |-> ta, td |-> NoOne,
     srcs |-> srcs, dsts |-> dsts]
Transfer(first, final, ta, srcs, dsts) ==
    [first |-> first, last |-> final, ta |-> ta, td |-> NoOne, srcs |-> srcs, dsts |-> dsts]

Given == INSTANCE Kicks WITH
    Syncs <- {"x", "y", "d"}, Contexts <- {"r1", "r2", "q"},
    KickShapes <- [r1 |-> {Kick(TRUE, FALSE, "d", TRUE, NoOne, <<>>, <<"x">>),
                           Kick(FALSE, TRUE, "d", FALSE, NoOne, <<"y">>, <<"x">>)},
                   r2 |-> {Kick(TRUE, TRUE, NoOne, FALSE, "d", <<"x">>, <<"y">>)},
                   q |-> {}],
    TransferShapes <- [r1 |-> {}, r2 |-> {},
                       q |-> {Transfer(TRUE, TRUE, "d", <<"x", "x">>, <<"x", "x">>),
                              Transfer(TRUE, FALSE, "d", <<"x">>, <<"y">>),
                              Transfer(FALSE, TRUE, NoOne, <<"x">>, <<"y">>)}],
    BlitShapes <- [r1 |-> {}, r2 |-> {},
                   q |-> {[ta |-> NoOne, td |-> "d", srcs |-> <<"x", "x">>, dst |-> "y"]}],
    MaxIssued <- 3, MaxRefused <- 1, MaxSpurned <- 1

ASSUME MemoryAssumption == Given!NamesOK

arenaVars == <<arena, imports, backed, last, arenaFaults>>
hashVars  == <<ppBucketTable, uCount, result, starved>>
kickVars  == <<sync, commands, scene, life, cleanups, ui32CleanupStatus, request,
               issued, refused, spurned, tainted, crossed, spoilt>>

MemoryInit ==
    /\ Hashed!Init /\ Given!Init
    /\ \/ MCInit /\ Arenas!Init
       \/ Arenas!MCInit /\ Init
       \/ instance \in {"hash", "kicks"} /\ Arenas!Init /\ Init

MemoryNext ==
    \/ MCNext /\ UNCHANGED <<arenaVars, hashVars, kickVars>>
    \/ Arenas!MCNext /\ UNCHANGED <<vars, hashVars, kickVars>>
    \/ /\ instance = "hash" /\ Hashed!Next
       /\ UNCHANGED <<vars, arenaVars, kickVars, instance>>
    \/ /\ instance = "kicks" /\ Given!Next
       /\ UNCHANGED <<vars, arenaVars, hashVars, instance>>

MemorySpec == MemoryInit /\ [][MemoryNext]_<<vars, arenaVars, hashVars, kickVars, instance>>

(* The properties of the instances, stated with their modules.              *)
TagsSound  == Arenas!TagsSound /\ Arenas!KeptInUse /\ (instance = "hash" => Hashed!LoadBounded)
Answers    == Arenas!Answers
KicksSound == instance = "kicks" => Given!KicksSound
ImplementAbstract == Arenas!ImplementAllocator /\ Hashed!Map!Spec

=============================================================================
