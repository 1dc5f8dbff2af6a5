------------------------------ MODULE MCServices ------------------------------
(* Components that share nothing with one another in one run, as in         *)
(* MCParts: the first state of a behaviour has chosen one of them.  The     *)
(* configuration gives the constants of SyncModObj.                         *)
EXTENDS MCSyncModObj

CONSTANTS Instances     \* those to run

(* Two names may change places, and so may two others: what they name in    *)
(* each instance is alike.                                                  *)
Ones == Processes
Twos == Objects
Symmetry == Permutations(Ones) \cup Permutations(Twos)

VARIABLES
    instance,
    gPVRSRVLock, sList, waits, walk,                         \* EventObject
    pvPDCpuVAddr, apsPTInfoList, tables, ranges,             \* PageTables
    ui32CacheControl, stale,
    build, at, alive, enabled, gpsSysData, clocks, device, files, failed,   \* Startup
    areas, handles, structs, vmas, calls, unruly, gone,      \* MemoryAreas
    psCommands, ui32WriteOffset, ui32ReadOffset, cacheControl, ePendingCacheOpType,
    submitter, sPowerLock, awake, wanted, serial, executed   \* KernelCCB

(* Two threads of one process and one of another.                           *)
Events == INSTANCE EventObject WITH
    Threads <- Ones \cup {"other"},
    Process <- [t \in Ones \cup {"other"} |-> IF t = "other" THEN "q" ELSE "p"],
    Objects <- Twos, MaxSignals <- 2

(* A directory of four tables of two pages; the heap of the contexts starts *)
(* a table after the shared one, whose last table is only half used.        *)
Pages == INSTANCE PageTables WITH
    Contexts <- Ones, Directory <- 0..3, TableSize <- 2, Tables <- {1, 2, 3}, MaxPages <- 2,
    Heaps <- [general |-> [base |-> 0, pages |-> 3, shared |-> TRUE],
              context |-> [base |-> 2, pages |-> 3, shared |-> FALSE]]

(* At most one request of the core's power fails.                           *)
Load == INSTANCE Startup WITH MaxLost <- 1

(* Two threads of one process, and two processes.  The kind of an area      *)
(* matters only for who frees it: each instance has some.                   *)
MapThreads == INSTANCE MemoryAreas WITH
    Processes <- {"p"}, Threads <- Ones, Process <- [t \in Ones |-> "p"],
    Roots <- {"r"}, Subs <- Twos, Handles <- [p |-> {"h1", "h2"}], PartPages <- {0},
    Calls <- {"alloc", "reserve"}, MapTypes <- {"single"},
    MaxMapped <- 1, MaxRefs <- 2, MaxUnruly <- 1
MapAreas == INSTANCE MemoryAreas WITH
    Processes <- Ones, Threads <- Ones, Process <- [c \in Ones |-> c],
    Roots <- {"r"}, Subs <- {"s"}, Handles <- [c \in Ones |-> {"h"}], PartPages <- {0},
    Calls <- {"register", "map"}, MapTypes <- {"kernel", "multi"},
    MaxMapped <- 2, MaxRefs <- 2, MaxUnruly <- 1

(* A ring of two commands, and one request of a kind at a time.             *)
CCB == INSTANCE KernelCCB WITH
    CCBSize <- 3, Kinds <- {"PT", "DATA"}, Names <- {1}, MaxSerial <- 3

(* What the theorems about the two are about.                               *)
ASSUME ServicesAssumption == Events!NamesOK /\ CCB!SizesOK

eventVars == <<gPVRSRVLock, sList, waits, walk>>
pageVars  == <<pvPDCpuVAddr, apsPTInfoList, tables, ranges, ui32CacheControl, stale>>
loadVars  == <<build, at, alive, enabled, gpsSysData, clocks, device, files, failed>>
mapVars   == <<areas, handles, structs, vmas, calls, unruly, gone>>
ccbVars   == <<psCommands, ui32WriteOffset, ui32ReadOffset, cacheControl, ePendingCacheOpType,
               submitter, sPowerLock, awake, wanted, serial, executed>>
allVars   == <<vars, eventVars, pageVars, loadVars, mapVars, ccbVars>>

Only(name, others) == instance = name /\ UNCHANGED others

-----------------------------------------------------------------------------
ServicesInit ==
    /\ instance \in Instances
    /\ Init /\ Events!Init /\ Pages!Init /\ Load!Init
    /\ instance # "load" => build = [ldm |-> TRUE, activePM |-> TRUE]
    /\ IF instance = "threads" THEN MapThreads!Init ELSE MapAreas!Init
    /\ CCB!Init

ServicesNext ==
    /\ UNCHANGED instance
    /\ \/ Only("sync", <<eventVars, pageVars, loadVars, mapVars, ccbVars>>) /\ Next
       \/ Only("events", <<vars, pageVars, loadVars, mapVars, ccbVars>>) /\ Events!Next
       \/ Only("pages", <<vars, eventVars, loadVars, mapVars, ccbVars>>) /\ Pages!Next
       \/ Only("load", <<vars, eventVars, pageVars, mapVars, ccbVars>>) /\ Load!Next
       \/ Only("threads", <<vars, eventVars, pageVars, loadVars, ccbVars>>) /\ MapThreads!Next
       \/ Only("areas", <<vars, eventVars, pageVars, loadVars, ccbVars>>) /\ MapAreas!Next
       \/ Only("ccb", <<vars, eventVars, pageVars, loadVars, mapVars>>) /\ CCB!Next

ServicesSpec == ServicesInit /\ [][ServicesNext]_<<allVars, instance>>

-----------------------------------------------------------------------------
(* The properties of the instances, stated with their modules.              *)
SignalsReach == instance = "events" => Events!SignalsReach
CachesSound  == /\ instance = "pages" => Pages!PagesSound
                /\ instance = "ccb"   => CCB!CCBSound
LoadSound    == instance = "load" => Load!LoadSound
MapsSound    == /\ instance = "threads" => MapThreads!MapsSound
                /\ instance = "areas" => MapAreas!MapsSound

(* Signals are reported, and SGX gets its commands whole and in order.      *)
Delivered == Events!SignalsReported /\ CCB!Fifo!Spec

=============================================================================
