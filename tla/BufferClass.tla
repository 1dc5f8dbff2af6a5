------------------------------- MODULE BufferClass -------------------------------
(***************************************************************************)
(* Buffer class devices: what services keep of one (deviceclass.c) and the *)
(* example driver that makes one (bufferclass_example*.c).  The calls of   *)
(* the processes run under the bridge lock; the ioctls of the driver, which *)
(* fill and reconfigure its buffers, under none.                           *)
(*                                                                         *)
(* Failures that the code does not undo are taken, and remembered in       *)
(* accidents; what uses a missing array or code that is gone ends in oops.   *)
(***************************************************************************)
EXTENDS Integers, FiniteSets

CONSTANTS
    Processes,
    NumBuffers,    \* BC_EXAMPLE_NUM_BUFFERS
    MaxLoads, MaxOpens, MaxRefs, MaxFirst, MaxConfigs, MaxFills   \* bounds

NumBuffersOK == NumBuffers \in Nat

VARIABLES
    module,        \* "absent" or "loaded"
    node,          \* the device: "none", "registered", or "orphan" when its driver is gone
    psBCInfo,      \* what services have of it
    open,          \* the contexts of each process
    maps,          \* mappings: who, of which buffer, of which memory
    psSystemBuffer,  \* the driver's buffers: address and sync data
    ulNumBuffers,
    liveMemory, liveSyncs,
    fill,          \* FillBuffer: where it is, and in which buffer
    read,          \* the device's read of each buffer
    leaked,        \* references that nobody will give back
    accidents,
    done           \* how often what is bounded was done

bcVars == <<module, node, psBCInfo, open, maps, psSystemBuffer, ulNumBuffers, liveMemory,
            liveSyncs, fill, read, leaked, accidents, done>>

Indices == 1..NumBuffers
NoInfo  == [ui32RefCount |-> 0, ui32BufferCount |-> 0, psBuffer |-> FALSE, sync |-> 0]
NoFill  == [pc |-> "idle", of |-> 1, sync |-> 0]
Opens   == Cardinality(UNION {{p} \X (1 .. open[p]) : p \in Processes})
Oops    == "oops" \in accidents

Init ==
    /\ module = "absent" /\ node = "none" /\ psBCInfo = NoInfo
    /\ open = [p \in Processes |-> 0] /\ maps = {}
    /\ psSystemBuffer = [i \in Indices |-> [addr |-> 0, psSyncData |-> 0]]
    /\ ulNumBuffers = 0 /\ liveMemory = {} /\ liveSyncs = {}
    /\ fill = NoFill /\ read = [i \in Indices |-> "none"]
    /\ leaked = 0 /\ accidents = {}
    /\ done = [loads |-> 0, configs |-> 0, fills |-> 0, syncs |-> 0]

Counts(what) == done' = [done EXCEPT ![what] = @ + 1]
Happens(m) == accidents' = accidents \cup {m}

-----------------------------------------------------------------------------
(* The driver.  Creation stops at the first buffer there is no memory for.  *)
Fresh(i) == (done.loads + done.configs) * NumBuffers + i

BC_Example_Buffers_Create(n, live) ==
    /\ psSystemBuffer' = [i \in Indices |->
            IF i <= n THEN [addr |-> Fresh(i), psSyncData |-> 0] ELSE psSystemBuffer[i]]
    /\ liveMemory' = live \cup {Fresh(i) : i \in 1..n}
    /\ ulNumBuffers' = n

BC_Example_Buffers_Destroy == liveMemory \ {psSystemBuffer[i].addr : i \in 1..ulNumBuffers}

PVRSRVRegisterBCDeviceKM == node' = "registered" /\ psBCInfo' = NoInfo

(* Whatever fails here, a device number or memory, is not looked for again. *)
BC_Example_Register ==
    \/ PVRSRVRegisterBCDeviceKM /\ module' = "loaded" /\ UNCHANGED accidents
    \/ UNCHANGED <<node, psBCInfo, module>> /\ Happens("class")

(* A load that fails in BC_Example_Init leaves the class, with which no     *)
(* later load can succeed, and what the registration had got.               *)
BC_Example_ModInit ==
    /\ ~Oops /\ module = "absent" /\ node = "none" /\ "class" \notin accidents
    /\ done.loads < MaxLoads /\ Counts("loads")
    /\ BC_Example_Register
    /\ IF module' = "loaded"
       THEN \E n \in 0..NumBuffers : BC_Example_Buffers_Create(n, liveMemory)
       ELSE UNCHANGED <<psSystemBuffer, ulNumBuffers, liveMemory>>
    /\ UNCHANGED <<open, maps, liveSyncs, fill, read, leaked>>

(* Mutant of PVRSRVRemoveBCDeviceKM: whoever has it open.                   *)
RemoveOpen == TRUE

PVRSRVRemoveBCDeviceKM == psBCInfo.ui32RefCount = 0

(* A device that is open stays, without its driver.                         *)
BC_Example_Unregister ==
    IF PVRSRVRemoveBCDeviceKM
    THEN node' = "none" /\ psBCInfo' = NoInfo /\ UNCHANGED accidents
    ELSE node' = "orphan" /\ Happens("unloaded") /\ UNCHANGED psBCInfo

(* The buffers go first.                                                    *)
BC_Example_ModCleanup ==
    /\ ~Oops /\ module = "loaded" /\ fill = NoFill
    /\ module' = "absent" /\ liveMemory' = BC_Example_Buffers_Destroy /\ ulNumBuffers' = 0
    /\ psSystemBuffer' = [i \in Indices |-> [addr |-> 0, psSyncData |-> 0]]
    /\ BC_Example_Unregister
    /\ UNCHANGED <<open, maps, liveSyncs, fill, read, leaked, done>>

(* The buffers are replaced, whoever uses them.                             *)
ReconfigureBuffer(n) ==
    /\ ~Oops /\ module = "loaded" /\ done.configs < MaxConfigs /\ Counts("configs")
    /\ BC_Example_Buffers_Create(n, BC_Example_Buffers_Destroy)
    /\ IF psBCInfo.ui32RefCount > 0 \/ fill # NoFill THEN Happens("reconfigured") ELSE UNCHANGED accidents
    /\ UNCHANGED <<module, node, psBCInfo, open, maps, liveSyncs, fill, read, leaked>>

-----------------------------------------------------------------------------
(* Services.  The first open asks the driver for its buffers and makes a    *)
(* sync object for each; one that fails at buffer k keeps its reference and *)
(* the count of buffers, while the array is gone again.                     *)
GetBCBuffer(k) ==
    psSystemBuffer' = [i \in Indices |->
        IF i <= k THEN [psSystemBuffer[i] EXCEPT !.psSyncData = done.syncs + 1] ELSE psSystemBuffer[i]]

PVRSRVOpenBCDeviceKM(p) ==
    /\ ~Oops /\ node # "none" /\ open[p] < MaxOpens /\ psBCInfo.ui32RefCount < MaxRefs
    /\ IF psBCInfo.ui32RefCount > 0
       THEN /\ psBCInfo' = [psBCInfo EXCEPT !.ui32RefCount = @ + 1]
            /\ open' = [open EXCEPT ![p] = @ + 1]
            /\ UNCHANGED <<psSystemBuffer, liveSyncs, leaked, accidents, done>>
       ELSE IF node = "orphan"
       THEN /\ Happens("oops")
            /\ UNCHANGED <<psBCInfo, open, psSystemBuffer, liveSyncs, leaked, done>>
       ELSE /\ done.syncs < MaxFirst /\ Counts("syncs")
            /\ \/ /\ psBCInfo' = [ui32RefCount |-> 1, ui32BufferCount |-> ulNumBuffers,
                                  psBuffer |-> TRUE, sync |-> done.syncs + 1]
                  /\ open' = [open EXCEPT ![p] = @ + 1]
                  /\ GetBCBuffer(ulNumBuffers)
                  /\ liveSyncs' = liveSyncs \cup {done.syncs + 1}
                  /\ UNCHANGED <<leaked, accidents>>
               \/ /\ psBCInfo' = [ui32RefCount |-> 1, ui32BufferCount |-> ulNumBuffers,
                                  psBuffer |-> FALSE, sync |-> 0]
                  /\ \E k \in 0..ulNumBuffers : GetBCBuffer(k)
                  /\ leaked' = leaked + 1 /\ Happens("openFailed")
                  /\ UNCHANGED <<open, liveSyncs>>
    /\ UNCHANGED <<module, node, maps, ulNumBuffers, liveMemory, fill, read>>

(* PVRSRVGetBCBufferKM and the mapping of what it gives.                    *)
PVRSRVGetBCBufferKM(p, i) ==
    /\ ~Oops /\ open[p] > 0 /\ i <= psBCInfo.ui32BufferCount
    /\ ~ \E m \in maps : m.of = p /\ m.buffer = i
    /\ IF psBCInfo.psBuffer /\ node = "registered"
       THEN /\ maps' = maps \cup {[of |-> p, buffer |-> i, memory |-> psSystemBuffer[i].addr]}
            /\ UNCHANGED accidents
       ELSE Happens("oops") /\ UNCHANGED maps
    /\ UNCHANGED <<module, node, psBCInfo, open, psSystemBuffer, ulNumBuffers, liveMemory,
                   liveSyncs, fill, read, leaked, done>>

(* A process unmaps what its renders no longer read.                        *)
Unmap(p, m) ==
    /\ ~Oops /\ m.of = p /\ read[m.buffer] = "none"
    /\ maps' = maps \ {m}
    /\ UNCHANGED <<module, node, psBCInfo, open, psSystemBuffer, ulNumBuffers, liveMemory,
                   liveSyncs, fill, read, leaked, accidents, done>>

(* Mutant of StillMapped: a close does not look at the mappings.            *)
NeverMapped(mapped) == FALSE

(* Any mapping of anybody refuses any close.                                *)
StillMapped(mapped) == mapped # {}

(* n contexts of a process are closed.  A close that is refused has lost    *)
(* its context: the reference stays.                                        *)
CloseBCDeviceCallBack(n, mapped) ==
    IF n > 0 /\ ~psBCInfo.psBuffer /\ psBCInfo.ui32BufferCount > 0
    THEN Happens("oops") /\ UNCHANGED <<psBCInfo, liveSyncs, leaked>>
    ELSE IF StillMapped(mapped)
    THEN leaked' = leaked + n /\ UNCHANGED <<psBCInfo, liveSyncs, accidents>>
    ELSE IF n = 0 \/ psBCInfo.ui32RefCount > n
    THEN /\ psBCInfo' = [psBCInfo EXCEPT !.ui32RefCount = @ - n]
         /\ UNCHANGED <<liveSyncs, leaked, accidents>>
    ELSE IF node = "orphan" THEN Happens("oops") /\ UNCHANGED <<psBCInfo, liveSyncs, leaked>>
    ELSE /\ psBCInfo' = [psBCInfo EXCEPT !.ui32RefCount = 0, !.psBuffer = FALSE]
         /\ liveSyncs' = liveSyncs \ {psBCInfo.sync}
         /\ Happens("closed") /\ UNCHANGED leaked

PVRSRVCloseBCDeviceKM(p) ==
    /\ ~Oops /\ open[p] > 0
    /\ CloseBCDeviceCallBack(1, maps)
    /\ open' = [open EXCEPT ![p] = @ - 1]
    /\ UNCHANGED <<module, node, maps, psSystemBuffer, ulNumBuffers, liveMemory, fill, read, done>>

(* A process ends: its renders go first, then its mappings, its contexts.   *)
ProcessDisconnect(p) ==
    /\ ~Oops /\ open[p] > 0 /\ \A m \in maps : m.of = p => read[m.buffer] = "none"
    /\ maps' = {m \in maps : m.of # p}
    /\ CloseBCDeviceCallBack(open[p], maps')
    /\ open' = [open EXCEPT ![p] = 0]
    /\ UNCHANGED <<module, node, psSystemBuffer, ulNumBuffers, liveMemory, fill, read, done>>

-----------------------------------------------------------------------------
(* A fill looks for reads, announces a write, fills and completes.  Reads   *)
(* of the device wait for the writes that were announced before them.       *)
FillBuffer(i) ==
    /\ ~Oops /\ module = "loaded" /\ i <= ulNumBuffers
    /\ fill = NoFill /\ done.fills < MaxFills /\ Counts("fills")
    /\ psSystemBuffer[i].psSyncData # 0 => read[i] = "none"
    /\ fill' = [pc |-> "checked", of |-> i, sync |-> psSystemBuffer[i].psSyncData]
    /\ UNCHANGED <<module, node, psBCInfo, open, maps, psSystemBuffer, ulNumBuffers, liveMemory,
                   liveSyncs, read, leaked, accidents>>

(* The sync data may be gone: the driver is not told when.                  *)
Touches == IF fill.sync \in liveSyncs \cup {0} THEN UNCHANGED accidents ELSE Happens("wild")

FillAnnounces ==
    /\ ~Oops /\ fill.pc = "checked" /\ Touches
    /\ fill' = [fill EXCEPT !.pc = "fills"]
    /\ UNCHANGED <<module, node, psBCInfo, open, maps, psSystemBuffer, ulNumBuffers, liveMemory,
                   liveSyncs, read, leaked, done>>

FillCompletes ==
    /\ ~Oops /\ fill.pc = "fills" /\ Touches
    /\ fill' = NoFill
    /\ read' = [read EXCEPT ![fill.of] = IF @ = "waits" THEN "runs" ELSE @]
    /\ UNCHANGED <<module, node, psBCInfo, open, maps, psSystemBuffer, ulNumBuffers, liveMemory,
                   liveSyncs, leaked, done>>

(* A fill has not announced itself, or began before the device was open.    *)
Passes(i) == fill.of = i /\ (fill.pc = "checked" \/ (fill.pc = "fills" /\ fill.sync # psBCInfo.sync))

(* Mutant of DeviceReads: a read waits for nothing.                         *)
ReadsAtOnce(m) ==
    /\ ~Oops /\ MaxFills > 0 /\ read[m.buffer] = "none"
    /\ read' = [read EXCEPT ![m.buffer] = "runs"]
    /\ IF Passes(m.buffer) THEN Happens("raced") ELSE UNCHANGED accidents
    /\ UNCHANGED <<module, node, psBCInfo, open, maps, psSystemBuffer, ulNumBuffers, liveMemory,
                   liveSyncs, fill, leaked, done>>

DeviceReads(m) ==
    /\ ~Oops /\ MaxFills > 0 /\ read[m.buffer] = "none"
    /\ read' = [read EXCEPT ![m.buffer] =
            IF fill.of = m.buffer /\ fill.pc = "fills" /\ fill.sync = psBCInfo.sync
            THEN "waits" ELSE "runs"]
    /\ IF Passes(m.buffer) THEN Happens("raced") ELSE UNCHANGED accidents
    /\ UNCHANGED <<module, node, psBCInfo, open, maps, psSystemBuffer, ulNumBuffers, liveMemory,
                   liveSyncs, fill, leaked, done>>

ReadDone(i) ==
    /\ read[i] = "runs" /\ read' = [read EXCEPT ![i] = "none"]
    /\ UNCHANGED <<module, node, psBCInfo, open, maps, psSystemBuffer, ulNumBuffers, liveMemory,
                   liveSyncs, fill, leaked, accidents, done>>

Stops == (Oops \/ module = "absent") /\ UNCHANGED bcVars

Next ==
    \/ BC_Example_ModInit \/ BC_Example_ModCleanup
    \/ \E n \in 0..NumBuffers : ReconfigureBuffer(n)
    \/ \E p \in Processes : PVRSRVOpenBCDeviceKM(p) \/ PVRSRVCloseBCDeviceKM(p) \/ ProcessDisconnect(p)
    \/ \E p \in Processes, i \in Indices : PVRSRVGetBCBufferKM(p, i)
    \/ \E p \in Processes, m \in maps : Unmap(p, m)
    \/ \E i \in Indices : FillBuffer(i) \/ ReadDone(i)
    \/ FillAnnounces \/ FillCompletes
    \/ \E m \in maps : DeviceReads(m)
    \/ Stops

Spec == Init /\ [][Next]_bcVars

-----------------------------------------------------------------------------
(* Whoever has the device open is counted, and who was lost; while anything *)
(* is mapped its sync objects are there.                                    *)
CountsHonest ==
    /\ ~Oops => psBCInfo.ui32RefCount = Opens + leaked
    /\ node = "none" => psBCInfo.ui32RefCount = 0
    /\ maps # {} /\ ~Oops => psBCInfo.psBuffer /\ psBCInfo.sync \in liveSyncs

(* Nobody maps memory that is gone, and no array or code that is gone is    *)
(* used, unless the driver was unloaded or reconfigured under its users, or *)
(* the first open failed.                                                   *)
MemoryHonest ==
    /\ accidents \cap {"reconfigured", "unloaded"} = {} => {m.memory : m \in maps} \subseteq liveMemory
    /\ Oops => accidents \cap {"unloaded", "openFailed"} # {}
    /\ "wild" \in accidents => accidents \cap {"closed", "openFailed", "reconfigured"} # {}
    /\ module = "absent" => liveMemory = {} /\ (node = "none" \/ "unloaded" \in accidents)

(* No buffer is filled while the device reads it, but for a read that came  *)
(* between the look and the announcement or to a buffer whose fill began    *)
(* before the device was open, and after a reconfiguration, after which the *)
(* driver does not know of the reads.                                       *)
FillsAlone ==
    fill.pc = "fills" /\ read[fill.of] = "runs" => accidents \cap {"raced", "reconfigured"} # {}

BuffersHonest == CountsHonest /\ MemoryHonest /\ FillsAlone

=============================================================================
