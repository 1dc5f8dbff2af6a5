----------------------------- MODULE BoundaryTags -----------------------------
(***************************************************************************)
(* The boundary tags of a resource arena (ra.c) as a pure data structure:  *)
(* a list of segments in address order and, for each power of two, a list  *)
(* of the free segments of that order.  An arena is a record               *)
(*   [segs : Seq(tag), free : [order -> Seq(base of a free segment)]]      *)
(* Free segments are never empty, so a base names one of them.  The hash   *)
(* of live segments is the list itself: a live segment is found by its     *)
(* base.                                                                   *)
(***************************************************************************)
EXTENDS Integers, Sequences, FiniteSets, SequencesExt

CONSTANTS
    FREE_TABLE_LIMIT,  \* the number of free lists
    NoMapping          \* psMapping of a segment that was not imported

Orders == 0 .. FREE_TABLE_LIMIT - 1

(* pvr_log2                                                                 *)
Log2(n) == CHOOSE k \in Orders : 2 ^ k <= n /\ n < 2 ^ (k + 1)

BT(type, base, uSize, mapping) ==
    [type |-> type, base |-> base, uSize |-> uSize, mapping |-> mapping]

End(bt) == bt.base + bt.uSize

EmptyArena == [segs |-> <<>>, free |-> [k \in Orders |-> <<>>]]

(* The place of the live segment, or of the free one, at a base.            *)
LiveAt(A, base) == CHOOSE i \in DOMAIN A.segs : A.segs[i].type = "live" /\ A.segs[i].base = base
FreeAt(A, base) == CHOOSE i \in DOMAIN A.segs : A.segs[i].type = "free" /\ A.segs[i].base = base

-----------------------------------------------------------------------------
(* Mutant of FreeListInsert: the order is rounded up.                       *)
FreeListInsertUp(A, i) ==
    LET k == Log2(2 * A.segs[i].uSize - 1)
    IN  [A EXCEPT !.segs[i].type = "free", !.free[k] = <<A.segs[i].base>> \o @]

FreeListInsert(A, i) ==
    LET k == Log2(A.segs[i].uSize)
    IN  [A EXCEPT !.segs[i].type = "free", !.free[k] = <<A.segs[i].base>> \o @]

FreeListRemove(A, i) ==
    LET k == Log2(A.segs[i].uSize)
    IN  [A EXCEPT !.free[k] = SelectSeq(@, LAMBDA b : b # A.segs[i].base)]

(* Mutant of SegmentSplit: the new segment is as large as the old one was.  *)
SegmentSplitWhole(A, i, n) ==
    LET bt == A.segs[i]
        rest == BT("free", bt.base + n, bt.uSize, bt.mapping)
    IN  [A EXCEPT !.segs = InsertAt([@ EXCEPT ![i].uSize = n], i + 1, rest)]

(* The i-th segment keeps n units, a new one behind it takes the rest.      *)
SegmentSplit(A, i, n) ==
    LET bt == A.segs[i]
        rest == BT("free", bt.base + n, bt.uSize - n, bt.mapping)
    IN  [A EXCEPT !.segs = InsertAt([@ EXCEPT ![i].uSize = n], i + 1, rest)]

(* Where the list, which is in address order, takes a new segment: behind   *)
(* every one that does not start above it.                                  *)
InsertionPoint(A, base) == Cardinality({i \in DOMAIN A.segs : A.segs[i].base <= base})

InsertResource(A, base, uSize) ==
    LET at == InsertionPoint(A, base) + 1
        B  == [A EXCEPT !.segs = InsertAt(@, at, BT("free", base, uSize, NoMapping))]
    IN  FreeListInsert(B, at)

(* An imported span lies between two markers.                               *)
InsertResourceSpan(A, base, uSize, mapping) ==
    LET at  == InsertionPoint(A, base)
        new == << BT("span", base, uSize, NoMapping),
                  BT("free", base, uSize, mapping),
                  BT("span", base + uSize, 0, NoMapping) >>
        B   == [A EXCEPT !.segs = SubSeq(@, 1, at) \o new \o SubSeq(@, at + 1, Len(@))]
    IN  FreeListInsert(B, at + 2)

-----------------------------------------------------------------------------
(* Mutant of MergesLeft: whatever the neighbour is.                         *)
MergesLeftAny(A, i) == i > 1 /\ End(A.segs[i - 1]) = A.segs[i].base

(* _FreeBT: the segment merges with a free neighbour on either side.        *)
MergesLeft(A, i) ==
    i > 1 /\ A.segs[i - 1].type = "free" /\ End(A.segs[i - 1]) = A.segs[i].base
MergesRight(A, i) ==
    i < Len(A.segs) /\ A.segs[i + 1].type = "free" /\ End(A.segs[i]) = A.segs[i + 1].base

(* Mutant of Coalesced: the merged segment keeps its own base.              *)
CoalescedOwnBase(A, i) ==
    LET lo == IF MergesLeft(A, i) THEN i - 1 ELSE i
        hi == IF MergesRight(A, i) THEN i + 1 ELSE i
        B  == IF lo < i THEN FreeListRemove(A, lo) ELSE A
        C  == IF i < hi THEN FreeListRemove(B, hi) ELSE B
        bt == BT("live", A.segs[i].base, End(A.segs[hi]) - A.segs[lo].base, A.segs[i].mapping)
    IN  [arena |-> [C EXCEPT !.segs = SubSeq(@, 1, lo - 1) \o <<bt>> \o SubSeq(@, hi + 1, Len(@))],
         at    |-> lo]

Coalesced(A, i) ==
    LET lo == IF MergesLeft(A, i) THEN i - 1 ELSE i
        hi == IF MergesRight(A, i) THEN i + 1 ELSE i
        B  == IF lo < i THEN FreeListRemove(A, lo) ELSE A
        C  == IF i < hi THEN FreeListRemove(B, hi) ELSE B
        bt == BT("live", A.segs[lo].base, End(A.segs[hi]) - A.segs[lo].base, A.segs[i].mapping)
    IN  [arena |-> [C EXCEPT !.segs = SubSeq(@, 1, lo - 1) \o <<bt>> \o SubSeq(@, hi + 1, Len(@))],
         at    |-> lo]

(* Mutant of SpanIsFree: only the start of the span is looked at.           *)
SpanStartIsFree(A, i) == i > 1 /\ A.segs[i - 1].type = "span"

(* All of an imported span is free.                                         *)
SpanIsFree(A, i) ==
    /\ i > 1 /\ A.segs[i - 1].type = "span"
    /\ i < Len(A.segs) /\ A.segs[i + 1].type = "span"

(* What freeing the i-th segment leaves: the arena, the merged segment, and *)
(* the bases of the spans given back to the importer.                       *)
FreeBT(A, i) ==
    LET c == Coalesced(A, i)
        B == c.arena
        k == c.at
    IN  IF SpanIsFree(B, k)
        THEN [arena    |-> [B EXCEPT !.segs = SubSeq(@, 1, k - 2) \o SubSeq(@, k + 2, Len(@))],
              whole    |-> B.segs[k],
              returned |-> {B.segs[k].base}]
        ELSE [arena |-> FreeListInsert(B, k), whole |-> B.segs[k], returned |-> {}]

-----------------------------------------------------------------------------
(* Every caller passes 0 for uAlignmentOffset.                              *)
AlignedBase(base, uAlignment) ==
    IF uAlignment > 1 THEN ((base + uAlignment - 1) \div uAlignment) * uAlignment ELSE base

(* Mutant of Suits: only the size of the segment counts.                    *)
SuitsUnaligned(bt, req) ==
    /\ bt.uSize >= req.uSize
    /\ bt.mapping # NoMapping => bt.mapping = req.uFlags

(* Mutant of Suits: memory of any kind.                                     *)
SuitsAnyFlags(bt, req) == End(bt) >= AlignedBase(bt.base, req.uAlignment) + req.uSize

Suits(bt, req) ==
    /\ End(bt) >= AlignedBase(bt.base, req.uAlignment) + req.uSize
    /\ bt.mapping # NoMapping => bt.mapping = req.uFlags

(* The place in the free lists of the first segment that suits: the lowest  *)
(* order first, from the order of the request on.                           *)
Suitable(A, req) ==
    {p \in {<<k, j>> : k \in Log2(req.uSize) .. FREE_TABLE_LIMIT - 1,
                       j \in 1 .. Len(A.segs)} :
        p[2] \in DOMAIN A.free[p[1]] /\ Suits(A.segs[FreeAt(A, A.free[p[1]][p[2]])], req)}

FirstSuitable(A, req) ==
    CHOOSE p \in Suitable(A, req) :
        \A q \in Suitable(A, req) : p[1] < q[1] \/ (p[1] = q[1] /\ p[2] <= q[2])

Granted(A, base) == [bResult |-> TRUE, arena |-> A, base |-> base, returned |-> {}]
Refused(A, returned) == [bResult |-> FALSE, arena |-> A, base |-> 0, returned |-> returned]

(* _AttemptAllocAligned: the outcomes it can have.  With mayFail the        *)
(* allocation of a boundary tag, or of the hash entry, may fail.            *)
AttemptAllocAligned(A, req, mayFail) ==
    IF Suitable(A, req) = {}
    THEN {Refused(A, {})}
    ELSE LET p    == FirstSuitable(A, req)
             i    == FreeAt(A, A.free[p[1]][p[2]])
             bt   == A.segs[i]
             gap  == AlignedBase(bt.base, req.uAlignment) - bt.base
             B    == FreeListRemove(A, i)
             C    == IF gap > 0 THEN FreeListInsert(SegmentSplit(B, i, gap), i) ELSE B
             at   == IF gap > 0 THEN i + 1 ELSE i
             tail == C.segs[at].uSize > req.uSize
             D    == IF tail THEN FreeListInsert(SegmentSplit(C, at, req.uSize), at + 1) ELSE C
             E    == [D EXCEPT !.segs[at].type = "live"]
             f    == FreeBT(E, at)
         IN  {Granted(E, bt.base + gap)}
             \cup (IF mayFail /\ gap > 0 THEN {Refused(FreeListInsert(B, i), {})} ELSE {})
             \cup (IF mayFail /\ tail THEN {Refused(FreeListInsert(C, at), {})} ELSE {})
             \cup (IF mayFail THEN {Refused(f.arena, f.returned)} ELSE {})

=============================================================================
