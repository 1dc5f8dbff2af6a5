----------------------------- MODULE MemoryAreas -----------------------------
(* The memory areas of the Linux port (mm.c, the memory calls of osfunc.c)  *)
(* and their mappings into user space (mmap.c).  A thread maps an area in   *)
(* two steps: a bridge call gives it an offset, and mmap with that offset   *)
(* finds what to map.  Areas are of one size.                               *)
EXTENDS Integers, Sequences, FiniteSets, SequencesExt

CONSTANTS
    Processes,          \* processes
    Threads, Process,   \* threads and the process of each
    Roots, Subs,        \* areas with memory of their own, and parts of one
    Handles,            \* handle values of each process
    PartPages,          \* pages of an area where a part may lie
    Calls, MapTypes,    \* calls of the OS layer, and who may map the memory
    MaxMapped, MaxRefs, \* bounds: mappings and references of a structure,
    MaxUnruly           \* ... and what a process that misbehaves asks for

VARIABLES
    areas,      \* the areas: kind, parent, page, whether contiguous and registered
    handles,    \* per process, the area of each handle in use
    structs,    \* the KV_OFFSET_STRUCTs, in the order of their creation
    vmas,       \* the mappings of user space: how many refer to which structure
    calls,      \* where each thread is between its calls
    unruly,     \* history: not 0 when a process freed a handle in use, did not
                \* map what it asked for, or had two threads between the calls
                \* of mapping or of unmapping one area; counts what it asks then
    gone        \* processes that have ended

vars == <<areas, handles, structs, vmas, calls, unruly, gone>>

Live      == DOMAIN areas
Held(p)   == DOMAIN handles[p]
Idle      == [at |-> "idle"]
Ids       == 1..(2 * Cardinality(Subs \cup Roots))
None      == "none"

Init ==
    /\ areas = <<>>
    /\ handles = [p \in Processes |-> <<>>]
    /\ structs = <<>>
    /\ vmas = [i \in Ids |-> 0]
    /\ calls = [t \in Threads |-> Idle]
    /\ unruly = [p \in Processes |-> 0] /\ gone = {}

histories == <<unruly, gone>>

With(f, x, y) == [z \in DOMAIN f \cup {x} |-> IF z = x THEN y ELSE f[z]]
Without(f, S) == [z \in DOMAIN f \ S |-> f[z]]
Parts(r)      == {s \in Live : areas[s].parent = r}
Misbehaves(p) == unruly' = [unruly EXCEPT ![p] = IF @ = 0 THEN 1 ELSE @]
Goes(t, next) == calls' = [calls EXCEPT ![t] = next]
Alive(p)      == \A t \in Threads : Process[t] = p => calls[t].at # "dead"
ThreadsOf(p)  == {t \in Threads : Process[t] = p}

-----------------------------------------------------------------------------
(* What an area is made of.  The kernel's own pages are not contiguous;     *)
(* external ones that the kernel does not know are treated so if they are.  *)
NewVMallocLinuxMemArea    == {[kind |-> "vmalloc", contig |-> FALSE]}
NewAllocPagesLinuxMemArea == {[kind |-> "pages", contig |-> FALSE]}
NewIORemapLinuxMemArea    == {[kind |-> "ioremap", contig |-> TRUE]}
NewIOLinuxMemArea         == {[kind |-> "io", contig |-> TRUE]}
NewExternalKVLinuxMemArea == {[kind |-> "external", contig |-> c] : c \in BOOLEAN}

(* What each call of the OS layer makes for each map type.                  *)
OSAllocPages == [kernel |-> NewVMallocLinuxMemArea, single |-> NewAllocPagesLinuxMemArea,
                 multi |-> NewVMallocLinuxMemArea]
OSReservePhys == [kernel |-> NewIORemapLinuxMemArea, single |-> NewIOLinuxMemArea,
                  multi |-> NewIORemapLinuxMemArea]
OSMapPhysToLin == [kernel |-> NewIORemapLinuxMemArea]
RegisterExternalMem == [kernel |-> NewExternalKVLinuxMemArea, single |-> NewExternalKVLinuxMemArea,
                        multi |-> NewExternalKVLinuxMemArea]

(* An area that users may map is registered for it.  A call that fails, for *)
(* instance at one of many pages, gives back what it has.                   *)
PVRMMapRegisterArea(m) == m # "kernel"

Creates(r, call, makes) ==
    /\ call \in Calls /\ r \notin Live
    /\ \E m \in MapTypes \cap DOMAIN makes : \E new \in makes[m] :
          areas' = With(areas, r, [kind |-> new.kind, parent |-> None, page |-> 0, contig |-> new.contig,
                                   registered |-> PVRMMapRegisterArea(m)])
    /\ UNCHANGED <<handles, structs, vmas, calls, histories>>

(* The memory a process asks for is a part of an area that users may map,   *)
(* or, as the timer of the SoC and shared system memory, the area itself.   *)
Reaches(p, h, a) ==
    /\ Alive(p) /\ h \notin Held(p)
    /\ handles' = [handles EXCEPT ![p] = With(handles[p], h, a)]

NewSubLinuxMemArea(s, r, page) ==
    areas' = With(areas, s, [areas[r] EXCEPT !.kind = "sub", !.parent = r, !.page = page])

OSGetSubMemHandle(p, h, s, r, page) ==
    /\ s \notin Live /\ r \in Live /\ areas[r].registered
    /\ Reaches(p, h, s)
    /\ NewSubLinuxMemArea(s, r, page)
    /\ UNCHANGED <<structs, vmas, calls, histories>>

SharesMemory(p, h, a) ==
    /\ a \in Live /\ areas[a].registered
    /\ Reaches(p, h, a)
    /\ UNCHANGED <<areas, structs, vmas, calls, histories>>

-----------------------------------------------------------------------------
Index(test(_)) == IF \E n \in DOMAIN structs : test(structs[n])
                  THEN CHOOSE n \in DOMAIN structs :
                          test(structs[n]) /\ \A k \in 1..(n - 1) : ~test(structs[k])
                  ELSE 0

StructOf(a, p) == Index(LAMBDA o : o.area = a /\ o.pid = p)
Keeps(set)     == structs' = SelectSeq(structs, LAMBDA o : o.id \notin set)

(* An area is unregistered with the structures of those who asked for an    *)
(* offset; a mapped one stops it, but not before earlier ones are gone.     *)
Destroyable(a) ==
    LET mine   == SelectSeq(structs, LAMBDA o : o.area = a)
        mapped == SelectInSeq(mine, LAMBDA o : o.mapped # 0)
    IN [ok  |-> mapped = 0,
        ids |-> {mine[n].id : n \in {k \in DOMAIN mine : mapped = 0 \/ k < mapped}}]

(* Mutant of PVRMMapRemoveRegisteredArea: mapped structures go as well.     *)
RemoveMappedArea(as) == Keeps({structs[n].id : n \in {k \in DOMAIN structs : structs[k].area \in as}})

PVRMMapRemoveRegisteredArea(as) ==
    Keeps(UNION {Destroyable(a).ids : a \in {x \in as : areas[x].registered}})

LinuxMemAreaDeepFree(as) ==
    areas' = Without(areas, {a \in as : areas[a].registered => Destroyable(a).ok})

Named(hs) == UNION {{hs[p][h] : h \in DOMAIN hs[p]} : p \in Processes}

(* Freeing the last handle of a part frees the part.  The buffer manager    *)
(* does not look whether that was refused.                                  *)
OSReleaseSubMemHandle(hs) ==
    LET unnamed == {a \in Named(handles) \ Named(hs) : areas[a].parent # None}
    IN /\ handles' = hs
       /\ PVRMMapRemoveRegisteredArea(unnamed)
       /\ LinuxMemAreaDeepFree(unnamed)

InUse(p, h) == \E t \in Threads : Process[t] = p /\ calls[t].at # "idle" /\ calls[t].at # "dead"
                                  /\ calls[t].handle = h

FreesHandle(p, h) ==
    /\ Alive(p) /\ h \in Held(p)
    /\ OSReleaseSubMemHandle([handles EXCEPT ![p] = Without(handles[p], {h})])
    /\ IF InUse(p, h) THEN Misbehaves(p) ELSE UNCHANGED unruly
    /\ UNCHANGED <<vmas, calls, gone>>

(* An area goes when the buffer manager believes all its parts gone.        *)
FreesArea(r, kinds) ==
    /\ r \in Live /\ areas[r].kind \in kinds
    /\ (Parts(r) \cup {r}) \cap Named(handles) = {}
    /\ PVRMMapRemoveRegisteredArea({r})
    /\ LinuxMemAreaDeepFree({r})
    /\ UNCHANGED <<handles, vmas, calls, histories>>

OSFreePages(r)     == FreesArea(r, {"vmalloc", "pages"})
OSUnRegisterMem(r) == FreesArea(r, {"external"})
OSUnReservePhys(r) == FreesArea(r, {"ioremap", "io"})

-----------------------------------------------------------------------------
(* Contiguous areas are found by their page, which several may lie in, the  *)
(* others by the handle.                                                    *)
LinuxMemAreaUsesPhysicalMap(a) == areas[a].contig
LinuxMemAreaToCpuPFN(a) ==
    <<"pfn", IF areas[a].parent = None THEN a ELSE areas[a].parent, areas[a].page>>
Offset(h, a) ==
    IF LinuxMemAreaUsesPhysicalMap(a) THEN LinuxMemAreaToCpuPFN(a) ELSE <<"handle", h, 0>>

Between(t, i) == \E u \in Threads \ {t} : calls[u].at \in {"asked", "told"} /\ calls[u].id = i

CreateOffsetStruct(t, h, a) ==
    [id |-> CHOOSE i \in Ids : vmas[i] = 0 /\ \A n \in DOMAIN structs : structs[n].id # i,
     area |-> a, ui32MMapOffset |-> Offset(h, a), pid |-> Process[t], tid |-> t,
     refs |-> 1, mapped |-> 0, addr |-> 0, onList |-> TRUE]

(* Who asks for the offset of an area is told the offset and, if the        *)
(* process has mapped it already, the address.                              *)
PVRMMapOSMemHandleToMMapData(t, h) ==
    LET p == Process[t]
        a == handles[p][h]
        n == StructOf(a, p)
        o == IF n = 0 THEN CreateOffsetStruct(t, h, a) ELSE structs[n]
    IN /\ calls[t].at = "idle" /\ h \in Held(p)
       /\ unruly[p] < MaxUnruly
       /\ n # 0 => structs[n].refs < MaxRefs
       /\ structs' = IF n = 0 THEN Append(structs, o) ELSE [structs EXCEPT ![n].refs = @ + 1]
       /\ Goes(t, [at |-> IF o.addr = 0 THEN "asked" ELSE "uses", handle |-> h, area |-> a, got |-> a,
                   offset |-> o.ui32MMapOffset, id |-> o.id])
       /\ unruly' = [unruly EXCEPT ![p] = IF @ # 0 \/ Between(t, o.id) THEN @ + 1 ELSE 0]
       /\ UNCHANGED <<areas, handles, vmas, gone>>

(* Mutant of FindOffsetStructByOffset: whoever was told it.                 *)
FindByOffsetOnly(t, offset) ==
    Index(LAMBDA o : o.onList /\ o.ui32MMapOffset = offset /\ o.pid = Process[t])

(* A physical offset may stand for several areas: only the thread that was  *)
(* told it can use it.                                                      *)
FindOffsetStructByOffset(t, offset) ==
    Index(LAMBDA o : /\ o.onList /\ o.ui32MMapOffset = offset /\ o.pid = Process[t]
                     /\ offset[1] = "pfn" => o.tid = t)

MMapVOpen(n) == [structs EXCEPT ![n].mapped = @ + 1, ![n].onList = FALSE]

(* A thread whose mmap failed may give its reference back, although the     *)
(* structure that counted it may be gone.                                   *)
Fails(t) ==
    /\ Goes(t, [calls[t] EXCEPT !.at = "failed"])
    /\ Misbehaves(Process[t])

(* mmap takes the structure off the list and maps, or destroys it: the      *)
(* protection asked for or a page of the area may not suit.                 *)
PVRMMap(t) ==
    LET n == FindOffsetStructByOffset(t, calls[t].offset)
        i == structs[n].id
    IN /\ calls[t].at = "asked"
       /\ \/ /\ n = 0
             /\ Goes(t, [calls[t] EXCEPT !.at = "lost"])
             /\ UNCHANGED <<structs, vmas, unruly>>
          \/ /\ n # 0
             /\ Keeps({i})
             /\ Fails(t)
             /\ UNCHANGED vmas
          \/ /\ n # 0
             /\ structs' = [MMapVOpen(n) EXCEPT ![n].addr = i]
             /\ vmas' = [vmas EXCEPT ![i] = 1]
             /\ Goes(t, [calls[t] EXCEPT !.at = "uses", !.id = i, !.got = structs[n].area])
             /\ UNCHANGED unruly
       /\ UNCHANGED <<areas, handles, gone>>

(* The kernel's mmap fails before it comes to the driver.                   *)
GivesUp(t) ==
    /\ calls[t].at = "asked"
    /\ Fails(t)
    /\ UNCHANGED <<areas, handles, structs, vmas, gone>>

(* A mapping is split by the kernel: another one refers to the structure.   *)
MMapVOpenSplit(n) ==
    /\ structs[n].mapped \in 1..(MaxMapped - 1)
    /\ structs' = [structs EXCEPT ![n].mapped = @ + 1]
    /\ vmas' = [vmas EXCEPT ![structs[n].id] = @ + 1]
    /\ UNCHANGED <<areas, handles, calls, histories>>

(* The mappings of some structures are closed, and each with its last.      *)
MMapVClose(ids) ==
    /\ vmas' = [i \in Ids |-> IF i \in ids THEN 0 ELSE vmas[i]]
    /\ Keeps(ids)

(* Mutant of Told: whoever finds the area mapped.                           *)
ToldAlways(o) == o.addr # 0

(* Whoever gives back the last reference is told to unmap.                  *)
Told(o) == o.refs = 1 /\ o.addr # 0

PVRMMapReleaseMMapData(t) ==
    LET p == Process[t]
        n == IF calls[t].handle \in Held(p) THEN StructOf(handles[p][calls[t].handle], p) ELSE 0
    IN /\ calls[t].at \in {"uses", "lost", "failed"}
       /\ IF n # 0 /\ structs[n].refs # 0
          THEN /\ structs' = [structs EXCEPT ![n].refs = @ - 1]
               /\ Goes(t, IF Told(structs[n]) THEN [calls[t] EXCEPT !.at = "told", !.id = structs[n].id]
                          ELSE Idle)
          ELSE Goes(t, Idle) /\ UNCHANGED structs
       /\ UNCHANGED <<areas, handles, vmas, histories>>

(* A thread whose mmap failed may also forget it.                           *)
Forgets(t) ==
    /\ calls[t].at = "failed"
    /\ Goes(t, Idle)
    /\ UNCHANGED <<areas, handles, structs, vmas, histories>>

Munmap(t) ==
    /\ calls[t].at = "told"
    /\ MMapVClose({calls[t].id})
    /\ Goes(t, Idle)
    /\ UNCHANGED <<areas, handles, histories>>

-----------------------------------------------------------------------------
(* The mappings of a process that ends are closed before its last file,     *)
(* which they keep open; then its handles are freed with what only they     *)
(* name, and its last structures destroyed.                                 *)
ExitMappings(p) ==
    /\ Alive(p) /\ ThreadsOf(p) # {}
    /\ MMapVClose({structs[n].id : n \in {k \in DOMAIN structs : structs[k].pid = p /\ structs[k].mapped # 0}})
    /\ calls' = [t \in Threads |-> IF Process[t] = p THEN [at |-> "dead"] ELSE calls[t]]
    /\ UNCHANGED <<areas, handles, histories>>

(* Mutant of LinuxMMapPerProcessDisconnect: those never mapped stay.        *)
DisconnectKeeps(p, left) == structs' = left

LinuxMMapPerProcessDisconnect(p, left) ==
    structs' = SelectSeq(left, LAMBDA o : ~(o.pid = p /\ o.onList))

PVRSRVProcessDisconnect(p) ==
    LET hs      == [handles EXCEPT ![p] = <<>>]
        unnamed == {a \in Named(handles) \ Named(hs) : areas[a].parent # None}
        freed   == UNION {Destroyable(a).ids : a \in unnamed}
    IN /\ ~Alive(p) /\ p \notin gone
       /\ handles' = hs
       /\ LinuxMemAreaDeepFree(unnamed)
       /\ LinuxMMapPerProcessDisconnect(p, SelectSeq(structs, LAMBDA o : o.id \notin freed))
       /\ gone' = gone \cup {p}
       /\ UNCHANGED <<vmas, calls, unruly>>

Next ==
    \/ \E r \in Roots : \/ Creates(r, "alloc", OSAllocPages)
                        \/ Creates(r, "register", RegisterExternalMem)
                        \/ Creates(r, "reserve", OSReservePhys)
                        \/ Creates(r, "map", OSMapPhysToLin)
                        \/ OSFreePages(r) \/ OSUnRegisterMem(r) \/ OSUnReservePhys(r)
    \/ \E p \in Processes :
          \/ \E h \in Handles[p] :
                \/ \E s \in Subs, r \in Roots, page \in PartPages : OSGetSubMemHandle(p, h, s, r, page)
                \/ \E a \in Subs \cup Roots : SharesMemory(p, h, a)
                \/ FreesHandle(p, h)
          \/ ExitMappings(p)
          \/ PVRSRVProcessDisconnect(p)
    \/ \E t \in Threads :
          \/ \E h \in Handles[Process[t]] : PVRMMapOSMemHandleToMMapData(t, h)
          \/ PVRMMap(t) \/ GivesUp(t) \/ PVRMMapReleaseMMapData(t) \/ Forgets(t) \/ Munmap(t)
    \/ \E n \in DOMAIN structs : MMapVOpenSplit(n)

-----------------------------------------------------------------------------
TypeOK ==
    /\ Live \subseteq Roots \cup Subs
    /\ \A p \in Processes : Held(p) \subseteq Handles[p]
    /\ \A n \in DOMAIN structs : structs[n].id \in Ids /\ structs[n].refs \in 0..MaxRefs /\ structs[n].mapped \in 0..MaxMapped

At(id) == Index(LAMBDA o : o.id = id)

(* What mmap.c asserts where it counts a mapping, forgets one and destroys  *)
(* a structure (mmap.c:601, 649, 1008, 1061): it is on the list exactly     *)
(* while it is not mapped, and mappings never outlive it.                   *)
ListedUntilMapped ==
    \A n \in DOMAIN structs : /\ structs[n].onList <=> structs[n].mapped = 0
                              /\ structs[n].mapped = vmas[structs[n].id]
MappingsHaveStruct == \A i \in Ids : vmas[i] # 0 => At(i) # 0

(* A structure is that of a registered area, and the area's memory is       *)
(* there, unless a process freed a handle it was still using: then the      *)
(* refusal to free the part is ignored and the memory goes under it.        *)
MappedIsThere ==
    \A n \in DOMAIN structs :
        LET a == structs[n].area
        IN /\ a \in Live /\ areas[a].registered
           /\ areas[a].parent \in Live \cup {None} \/ \E p \in Processes : unruly[p] # 0

(* In a process whose threads map one area one after the other and map      *)
(* what they asked for, a thread maps the area it asked for, its mmap finds *)
(* it, and the memory it uses stays mapped.  Otherwise a structure left     *)
(* behind answers to a handle value used again, a late mmap finds nothing   *)
(* or another area, and a late munmap unmaps what another thread uses.      *)
UsesAreMapped ==
    \A t \in Threads : unruly[Process[t]] = 0
        => /\ calls[t].at # "lost"
           /\ calls[t].at = "uses" => calls[t].got = calls[t].area /\ At(calls[t].id) # 0

(* Once a process is gone so are its structures and mappings.               *)
NothingLeft ==
    \A p \in gone : \A n \in DOMAIN structs : structs[n].pid # p

MapsSound == ListedUntilMapped /\ MappingsHaveStruct /\ MappedIsThere /\ UsesAreMapped /\ NothingLeft
=============================================================================
