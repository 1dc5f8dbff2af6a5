------------------------------- MODULE MCParts -------------------------------
(* Small components in one run, which share nothing: the first state of a   *)
(* behaviour has chosen one of them.  The configuration gives the constants *)
(* of CommandRing.                                                          *)
EXTENDS MCCommandRing

CONSTANTS
    Instances,      \* those to run
    NONE,           \* nothing, in all of them
    MemInfo, SyncInfo, Buffer, Command,  \* handle types
    LosesFreeList

VARIABLES
    instance,
    base, faults,                                            \* HandleTable
    chains, shared, refs, display, queues, slot, mishaps,    \* SwapChain
    stub, items, creator, locks, memory,                     \* SharedPB
    topic, world, last,                                      \* BridgeCalls
    loader, held, gapsDevInfo, registered, opens, swapChain, notifier,
    screen, swapWork, swapper, system, slips,                \* DisplayDriver
    psQueueList, allocated, orphans, ui32Lock, ui32ID, walk, call, broken,  \* QueueList
    contexts, psResItemList, kind, alive, unmanaged, sweep, failed, lost,   \* ResMan
    module, node, psBCInfo, open, maps, psSystemBuffer, ulNumBuffers,
    liveMemory, liveSyncs, fill, read, leaked, accidents, done              \* BufferClass

(* The handles of a process, with batches and an allocation that fails, and *)
(* the kernel's own, which are purged.                                      *)
MemInfoHandle == [eType |-> MemInfo, pvData |-> MemInfo, eFlag |-> {}, sub |-> FALSE]
SyncHandle    == [eType |-> SyncInfo, pvData |-> SyncInfo, eFlag |-> {"PRIVATE"}, sub |-> TRUE]
BufferHandle  == [eType |-> Buffer, pvData |-> Buffer, eFlag |-> {"PRIVATE", "SHARED"}, sub |-> TRUE]
CommandHandle == [eType |-> Command, pvData |-> Command, eFlag |-> {"MULTI"}, sub |-> FALSE]

ProcessTable == INSTANCE HandleTable WITH
    BlockSize <- 2, MaxIndexPlusOne <- 4, BatchSizes <- {3}, MaxFaults <- 1,
    Objects <- {MemInfoHandle, SyncHandle, BufferHandle}, bPurgingEnabled <- FALSE
KernelTable == INSTANCE HandleTable WITH
    BlockSize <- 2, MaxIndexPlusOne <- 4, BatchSizes <- {1, 2, 3}, MaxFaults <- 1,
    Objects <- {MemInfoHandle, CommandHandle}, bPurgingEnabled <- TRUE

(* The swap chains of two processes, and the parameter buffers of two cores *)
(* that three processes share.                                              *)
Swap == INSTANCE SwapChain WITH
    Processes <- {"p1", "p2"}, MaxChains <- 2, MaxRefs <- 2, MaxCommands <- 2,
    Mishaps <- {"noRef", "flush", "closed"}
Buffers == INSTANCE SharedPB WITH
    Processes <- {"p1", "p2", "p3"}, Devices <- {"core0", "core1"}, MaxRefs <- 2, MaxMems <- 3

(* The bridge calls of a process.  Four handles of those counted for "wrap", *)
(* "display", "buffer" and "core" are there from the beginning.             *)
Calls == INSTANCE BridgeCalls WITH
    Topics     <- {"memory", "wrap", "display", "buffer", "sync", "core", "context", "server"},
    MaxOwn     <- [memory |-> 2, wrap |-> 3, display |-> 4, buffer |-> 3,
                   sync |-> 2, core |-> 4, context |-> 2, server |-> 2],
    MaxHandles <- [memory |-> 5, wrap |-> 6, display |-> 7, buffer |-> 9,
                   sync |-> 4, core |-> 6, context |-> 5, server |-> 5]

(* The driver of a frame buffer, and its load for two of them.              *)
Driver == INSTANCE DisplayDriver WITH
    FBs <- {0}, BufferCounts <- {0, 2}, SettleCount <- 2,
    MaxMade <- 2, MaxFlips <- 2, MaxBlanks <- 1, MaxSleeps <- 1, MaxEvents <- 1
DriverLoad == INSTANCE DisplayDriver WITH
    FBs <- {0, 1}, BufferCounts <- {2}, SettleCount <- 1,
    MaxMade <- 0, MaxFlips <- 0, MaxBlanks <- 0, MaxSleeps <- 0, MaxEvents <- 1

(* Two command queues, of which the last goes and the first comes again     *)
(* while the MISR or a hardware recovery walks their list.                  *)
Queueing == INSTANCE QueueList WITH
    Queues <- {"q1", "q2"}, Walkers <- {"MISR", "HWR"}, Nobody <- NONE

(* What a process and the device list; and a buffer of the example driver,  *)
(* which is loaded twice and used by two processes.                         *)
Resources == INSTANCE ResMan WITH
    Processes <- {"p1"}, Kinds <- {"modsync", "memory", "shared"}, MaxItems <- 3
Example == INSTANCE BufferClass WITH
    Processes <- {"p1", "p2"}, NumBuffers <- 1, MaxLoads <- 2, MaxOpens <- 2, MaxRefs <- 3,
    MaxFirst <- 2, MaxConfigs <- 1, MaxFills <- 1
ASSUME PartsAssumption ==
    /\ Swap!MaxChainsOK /\ Buffers!NamesOK /\ Resources!NamesOK /\ Example!NumBuffersOK
    /\ Driver!FBsOK /\ DriverLoad!FBsOK

ringVars   == vars
handleVars == <<base, faults>>
swapVars   == <<chains, shared, refs, display, queues, slot, mishaps>>
pbVars     == <<stub, items, creator, locks, memory>>
callVars   == <<topic, world, last>>
driverVars == <<loader, held, gapsDevInfo, registered, opens, swapChain, notifier, screen,
                swapWork, swapper, system, slips>>
queueVars  == <<psQueueList, allocated, orphans, ui32Lock, ui32ID, walk, call, broken>>
resVars    == <<contexts, psResItemList, kind, alive, unmanaged, sweep, failed, lost>>
bcVars     == <<module, node, psBCInfo, open, maps, psSystemBuffer, ulNumBuffers, liveMemory,
                liveSyncs, fill, read, leaked, accidents, done>>
laterVars  == <<driverVars, queueVars, resVars, bcVars>>
allVars    == <<ringVars, handleVars, swapVars, pbVars, callVars, laterVars>>

Only(name, others) == instance = name /\ UNCHANGED others

-----------------------------------------------------------------------------
PartsInit ==
    /\ instance \in Instances
    /\ Init /\ ProcessTable!Init /\ Swap!Init /\ Buffers!Init
    /\ IF instance = "driver" THEN Driver!Init ELSE DriverLoad!Init
    /\ Queueing!Init /\ Resources!Init /\ Example!Init
    /\ IF instance = "calls" THEN Calls!Init
       ELSE topic = "none" /\ world = Calls!NothingYet("ok") /\ last = Calls!NoCall

PartsNext ==
    /\ UNCHANGED instance
    /\ \/ Only("ring", <<handleVars, swapVars, pbVars, callVars, laterVars>>) /\ Next
       \/ Only("handles", <<ringVars, swapVars, pbVars, callVars, laterVars>>) /\ ProcessTable!Next
       \/ Only("kernel", <<ringVars, swapVars, pbVars, callVars, laterVars>>) /\ KernelTable!Next
       \/ Only("swap", <<ringVars, handleVars, pbVars, callVars, laterVars>>) /\ Swap!Next
       \/ Only("pb", <<ringVars, handleVars, swapVars, callVars, laterVars>>) /\ Buffers!Next
       \/ Only("calls", <<ringVars, handleVars, swapVars, pbVars, laterVars>>) /\ Calls!Next
       \/ /\ UNCHANGED <<ringVars, handleVars, swapVars, pbVars, callVars>>
          /\ \/ Only("driver", <<queueVars, resVars, bcVars>>) /\ Driver!Next
             \/ Only("load", <<queueVars, resVars, bcVars>>) /\ DriverLoad!Next
             \/ Only("queues", <<driverVars, resVars, bcVars>>) /\ Queueing!Next
             \/ Only("resman", <<driverVars, queueVars, bcVars>>) /\ Resources!Next
             \/ Only("example", <<driverVars, queueVars, resVars>>) /\ Example!Next

PartsSpec == PartsInit /\ [][PartsNext]_<<allVars, instance>>

-----------------------------------------------------------------------------
(* The properties of the instances, stated with their modules.              *)
TablesSound == /\ instance = "handles" => ProcessTable!TableSound
               /\ instance = "kernel"  => KernelTable!TableSound
ChainsSound  == /\ instance = "swap"   => Swap!ChainsSound
                /\ instance = "driver" => Driver!DriverSound
                /\ instance = "load"   => DriverLoad!DriverSound
                /\ instance = "queues" => Queueing!QueuesSound
BuffersSound == /\ instance = "pb"      => Buffers!BuffersSound
                /\ instance = "resman"  => Resources!ResManSound
                /\ instance = "example" => Example!BuffersHonest
HandlesName  == instance = "calls" => Calls!HandlesName
ImplementsMap  == ProcessTable!ImplementsMap
AllOrNothing   == Calls!AllOrNothing
GrowsFromEmpty == ProcessTable!GrowsFromEmpty

(* What a process does takes neither a swap chain nor a parameter buffer    *)
(* from another.                                                            *)
OthersKeepTheirs == Swap!OthersKeepChains /\ Buffers!OthersKeepBuffer

=============================================================================
