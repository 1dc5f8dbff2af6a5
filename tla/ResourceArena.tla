---------------------------- MODULE ResourceArena ----------------------------
(***************************************************************************)
(* A resource arena (ra.c): RA_Create, RA_Alloc, RA_Free.                  *)
(*                                                                         *)
(* The driver has two kinds.  The address space of a heap (mmu.c) is one   *)
(* resource given at creation; when memory is freed there the arena says   *)
(* which whole quanta have become unused, and their page table entries are *)
(* cleared.  The arena of a heap's memory (buffer_manager.c) is empty at   *)
(* first and imports a span when it has none that suits; it gives a span   *)
(* back when all of it is free.  Calls are sequential, under the bridge    *)
(* lock.                                                                   *)
(***************************************************************************)
EXTENDS BoundaryTags

CONSTANTS
    uQuantum,      \* the unit of imports and of the backing store, above 0
    Resource,      \* the resource given at creation: base and uSize, which
                   \* is 0 for an arena that imports
    ImportBases,   \* where the importer may find a span
    MaxAddress,    \* bound: addresses lie below, itself below 2^FREE_TABLE_LIMIT
    Requests,      \* bound: what callers ask for
    MaxFaults      \* bound: the calls during which memory is short

VARIABLES
    arena,   \* the segments and the free lists
    imports, \* the spans the importer has given and not taken back
    backed,  \* the quanta with page table entries of live segments
    last,    \* the request just made, and how it ended
    faults   \* the calls during which memory was short

vars == <<arena, imports, backed, last, faults>>

(* The segments of one type.                                                *)
Segments(type) == {i \in DOMAIN arena.segs : arena.segs[i].type = type}
Cells(area) == area.base .. area.base + area.uSize - 1

(* (x + uQuantum - 1) / uQuantum * uQuantum                                 *)
RoundUp(x) == ((x + uQuantum - 1) \div uQuantum) * uQuantum

(* The quanta an area touches.                                              *)
Touched(base, uSize) == base \div uQuantum .. (base + uSize - 1) \div uQuantum

None == [op |-> "none"]

(* pBackingStoreFree is given to the arenas of address space only.          *)
HasBackingStore == ImportBases = {}

(* The resource, rounded up to whole quanta.                                *)
Own == IF Resource.uSize > 0
       THEN {[base |-> Resource.base, uSize |-> RoundUp(Resource.uSize)]} ELSE {}

RA_Create ==
    arena = IF Resource.uSize > 0
            THEN InsertResource(EmptyArena, Resource.base, RoundUp(Resource.uSize))
            ELSE EmptyArena

Init ==
    /\ RA_Create
    /\ imports = {}
    /\ backed = {}
    /\ last = None
    /\ faults = 0

-----------------------------------------------------------------------------
(* Mutant of ImportSize: no room to align.                                  *)
ImportSizeTight(req) == RoundUp(req.uSize)

ImportSize(req) ==
    RoundUp(IF req.uAlignment > uQuantum THEN req.uSize + req.uAlignment - 1 ELSE req.uSize)

(* Spans the importer may give (external: it never gives the same twice).   *)
Importable(req) ==
    {s \in {[base |-> b, uSize |-> ImportSize(req)] : b \in ImportBases} :
        /\ s.base + s.uSize <= MaxAddress
        /\ \A t \in imports : Cells(s) \cap Cells(t) = {}}

(* The end of RA_Alloc.  The caller maps what it was granted.               *)
Finish(r, req, spans) ==
    /\ arena' = r.arena
    /\ imports' = {s \in spans : s.base \notin r.returned}
    /\ backed' = IF r.bResult /\ HasBackingStore
                 THEN backed \cup Touched(r.base, req.uSize) ELSE backed
    /\ last' = [op |-> "alloc", req |-> req, bResult |-> r.bResult, base |-> r.base]

(* Mutant of RA_Alloc: a span is imported only when the arena is empty.     *)
RA_AllocOneSpan(req) ==
    \E r \in AttemptAllocAligned(arena, req, FALSE) :
        /\ \/ (r.bResult \/ imports # {}) /\ Finish(r, req, imports)
           \/ /\ ~r.bResult /\ imports = {}
              /\ \E s \in Importable(req) :
                    \E r2 \in AttemptAllocAligned(
                            InsertResourceSpan(r.arena, s.base, s.uSize, req.uFlags), req, FALSE) :
                        Finish(r2, req, imports \cup {s})
        /\ UNCHANGED faults

RA_Alloc(req) ==
    \E short \in BOOLEAN :
        /\ short => faults < MaxFaults
        /\ faults' = IF short THEN faults + 1 ELSE faults
        /\ \E r \in AttemptAllocAligned(arena, req, short) :
              \/ /\ r.bResult \/ Importable(req) = {} \/ short
                 /\ Finish(r, req, imports)
              \/ /\ ~r.bResult
                 /\ \E s \in Importable(req) :
                       LET A == InsertResourceSpan(r.arena, s.base, s.uSize, req.uFlags)
                       IN  \E r2 \in AttemptAllocAligned(A, req, short) :
                              Finish([r2 EXCEPT !.returned = @ \cup r.returned],
                                     req, imports \cup {s})

-----------------------------------------------------------------------------
(* Mutant of Unused: the quanta are rounded out, whoever shares them.       *)
UnusedRoundedOut(base, uSize, whole) == Touched(base, uSize)

(* The quanta that freeing an area leaves without a user, given the merged  *)
(* free segment around it.                                                  *)
Unused(base, uSize, whole) ==
    LET down  == (base \div uQuantum) * uQuantum
        up    == RoundUp(base + uSize)
        start == IF down < whole.base THEN down + uQuantum ELSE down
        end   == IF up > End(whole) THEN up - uQuantum ELSE up
    IN  start \div uQuantum .. end \div uQuantum - 1

(* Mutant of RA_Free: the segment does not merge.                           *)
RA_FreeApart(base) ==
    LET i == LiveAt(arena, base)
    IN  /\ arena' = FreeListInsert(arena, i)
        /\ backed' = backed \ Unused(base, arena.segs[i].uSize, arena.segs[i])
        /\ last' = None
        /\ UNCHANGED <<imports, faults>>

RA_Free(base) ==
    LET i == LiveAt(arena, base)
        f == FreeBT(arena, i)
    IN  /\ arena' = f.arena
        /\ imports' = {s \in imports : s.base \notin f.returned}
        /\ backed' = IF HasBackingStore
                     THEN backed \ Unused(base, arena.segs[i].uSize, f.whole) ELSE backed
        /\ last' = None
        /\ UNCHANGED faults

Next ==
    \/ \E req \in Requests : RA_Alloc(req)
    \/ \E i \in Segments("live") : RA_Free(arena.segs[i].base)

Spec == Init /\ [][Next]_vars

-----------------------------------------------------------------------------
(* Properties                                                               *)

Area(i) == [base |-> arena.segs[i].base, uSize |-> arena.segs[i].uSize]
AddressesOf(areas) == UNION {Cells(a) : a \in areas}
Live == {Area(i) : i \in Segments("live")}
Pool == AddressesOf(Own \cup imports)

TypeOK ==
    /\ \A i \in DOMAIN arena.segs :
          /\ arena.segs[i].type \in {"span", "free", "live"}
          /\ arena.segs[i].base \in 0 .. MaxAddress
          /\ arena.segs[i].uSize \in 0 .. MaxAddress
          /\ End(arena.segs[i]) <= MaxAddress
          /\ arena.segs[i].mapping \in {r.uFlags : r \in Requests} \cup {NoMapping}
    /\ arena.free \in [Orders -> Seq(0 .. MaxAddress)]
    /\ backed \subseteq 0 .. MaxAddress
    /\ faults \in 0 .. MaxFaults

(* The segments follow each other without a gap or an overlap inside every  *)
(* resource and every imported span, and cover all of it: however often     *)
(* segments are split and merged, no address is lost and none is in two.    *)
TagsTile ==
    LET inner == Segments("free") \cup Segments("live")
    IN  /\ \A i, j \in DOMAIN arena.segs : i < j => End(arena.segs[i]) <= arena.segs[j].base
                                                 \/ arena.segs[i].type = "span"
        /\ \A i, j \in inner : i # j => Cells(Area(i)) \cap Cells(Area(j)) = {}
        /\ AddressesOf({Area(i) : i \in inner}) = Pool

(* Every free segment is on the list of its order, once, and nothing else   *)
(* is on a list: a segment on a wrong list is never found again, one that   *)
(* is left on a list after it was granted is granted twice.                 *)
FreeListsExact ==
    /\ \A k \in Orders :
          /\ \A j \in DOMAIN arena.free[k] :
                \E i \in Segments("free") : /\ arena.segs[i].base = arena.free[k][j]
                                            /\ Log2(arena.segs[i].uSize) = k
          /\ IsInjective(arena.free[k])
    /\ \A i \in Segments("free") :
          \E j \in DOMAIN arena.free[Log2(arena.segs[i].uSize)] :
              arena.free[Log2(arena.segs[i].uSize)][j] = arena.segs[i].base

(* Where a request could be satisfied, whatever the tags say.               *)
Place(req, b) ==
    LET want == b .. b + req.uSize - 1
        open == {i \in Segments("free") : arena.segs[i].mapping \in {NoMapping, req.uFlags}}
    IN  /\ req.uAlignment > 1 => b % req.uAlignment = 0
        /\ want \subseteq AddressesOf({Area(i) : i \in open})
        /\ \E a \in imports \cup {[base |-> 0, uSize |-> MaxAddress]} :
              /\ imports # {} => a \in imports
              /\ want \subseteq Cells(a)

(* A request is refused only when there is no place for it, and nothing can *)
(* be imported: free memory next to free memory counts as one.              *)
RefusedOnlyWhenFull ==
    last.op = "alloc" /\ ~last.bResult /\ faults = 0 =>
        /\ \A b \in 0 .. MaxAddress : ~Place(last.req, b)
        /\ Importable(last.req) = {}

(* What is granted is aligned, has the size that was asked for, and memory  *)
(* with the flags that were asked for.                                      *)
GrantedAsAsked ==
    last.op = "alloc" /\ last.bResult =>
        /\ last.req.uAlignment > 1 => last.base % last.req.uAlignment = 0
        /\ \E i \in Segments("live") :
              /\ Area(i) = [base |-> last.base, uSize |-> last.req.uSize]
              /\ arena.segs[i].mapping \in {NoMapping, last.req.uFlags}

(* The page table entries of a quantum are there as long as a live segment  *)
(* touches it, also when several share it, and no longer unless a tag could *)
(* not be allocated.                                                        *)
BackedWhileUsed ==
    LET used == UNION {Touched(a.base, a.uSize) : a \in Live}
    IN  HasBackingStore => used \subseteq backed /\ (faults = 0 => backed \subseteq used)

(* Imported memory goes back as soon as nobody uses it: RA_TestDelete finds *)
(* an arena whose allocations were all freed empty.                         *)
NoIdleSpan ==
    faults = 0 => \A s \in imports : \E a \in Live : Cells(a) \subseteq Cells(s)

(* The arena is an allocator of addresses.                                  *)
Allocator == INSTANCE AddressAllocator WITH pool <- Pool, live <- Live
ImplementsAllocator == Allocator!Spec

=============================================================================
