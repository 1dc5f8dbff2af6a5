----------------------------- MODULE HandleTable -----------------------------
(***************************************************************************)
(* The handles of a process (handle.c): a table of handle structures that  *)
(* grows by blocks, a list of the free ones, a hash that finds the handle  *)
(* of an object, parents with their sub-handles, and batches, which a      *)
(* bridge call commits as a whole or gives back.  The kernel's own table   *)
(* keeps no list: it searches its blocks and can be purged.  All calls run *)
(* under the bridge lock.  Handle h has index h - 1, so that 0 is no       *)
(* handle; links carry "index plus one" as in the code.                    *)
(***************************************************************************)
EXTENDS Naturals, FiniteSets, SequencesExt

CONSTANTS
    BlockSize,        \* HANDLE_BLOCK_SIZE
    MaxIndexPlusOne,  \* bound: how far the table may grow, whole blocks
    Objects,          \* bound: what handles are made for: type, data, the
                      \* flags of the allocation, and whether it is a sub-handle
    BatchSizes,       \* bound
    bPurgingEnabled,  \* the kernel's table
    MaxFaults,        \* bound: calls during which memory is short
    LosesFreeList,    \* may a batch begin as GrowsFromEmpty forbids
    NONE              \* PVRSRV_HANDLE_TYPE_NONE, and no data

VARIABLES
    base,   \* PVRSRV_HANDLE_BASE with its handle structures
    faults

vars == <<base, faults>>

(* What AllocHandle leaves to be filled in.                                 *)
Fresh == [eType |-> NONE, pvData |-> NONE, next |-> 0, internal |-> {},
          eFlag |-> {}, parent |-> 0, children |-> <<>>]

EmptyBase ==
    [total |-> 0, free |-> 0, first |-> 0, last |-> 0, hand |-> <<>>, blockFree |-> <<>>,
     hash |-> <<>>, batch |-> 0, firstBatch |-> 0, failures |-> 0]

Init == base = EmptyBase /\ faults = 0

Batched(B) == B.batch # 0
IsLive(B, h) == h \in 1 .. B.total /\ B.hand[h].eType # NONE
BlockOf(h) == (h - 1) \div BlockSize + 1
RoundUp(n) == ((n + BlockSize - 1) \div BlockSize) * BlockSize

(* The hash key of an object; the parent counts for private handles only.   *)
InitKey(o, parent) ==
    <<o.pvData, o.eType, IF "PRIVATE" \in o.eFlag THEN parent ELSE 0>>
KeyOf(B, h) == InitKey(B.hand[h], B.hand[h].parent)
FindHandle(B, key) == IF key \in DOMAIN B.hash THEN B.hash[key] ELSE 0

-----------------------------------------------------------------------------
(* The table.                                                               *)

(* The table gets n handles, more than it has.  FirstFreeIndex 0 stands for *)
(* an empty list, although index 0 may be its head.                         *)
Grow(B, n) ==
    LET old  == B.total
        link == B.first # 0 /\ ~bPurgingEnabled
    IN  [B EXCEPT
           !.total = n, !.free = @ + n - old,
           !.hand = [h \in 1 .. n |-> IF h > old THEN Fresh
                                      ELSE IF link /\ h = B.last THEN [@[h] EXCEPT !.next = old + 1]
                                      ELSE @[h]],
           !.blockFree = [b \in 1 .. n \div BlockSize |->
                            IF b > old \div BlockSize THEN BlockSize ELSE @[b]],
           !.first = IF @ = 0 THEN old ELSE @,
           !.last = IF bPurgingEnabled THEN @ ELSE n]

(* The table keeps its first n handles.                                     *)
Shrink(B, n) ==
    [B EXCEPT !.total = n, !.free = @ - (B.total - n),
              !.hand = SubSeq(@, 1, n), !.blockFree = SubSeq(@, 1, n \div BlockSize),
              !.first = IF n = 0 THEN 0 ELSE @, !.last = IF n = 0 THEN 0 ELSE @]

(* How many handles the table gets when it needs n more, 0 if it cannot.    *)
IncreasedSize(B, n) ==
    LET want == B.total + RoundUp(n)
        new  == IF want > MaxIndexPlusOne THEN MaxIndexPlusOne ELSE want
    IN  IF new - B.total < n THEN 0 ELSE new

NeedsGrowth(B, n) == n > B.free
EnsureFails(B, n, trouble) ==
    NeedsGrowth(B, n) /\ (trouble = "array" \/ IncreasedSize(B, n - B.free) = 0)
EnsureFreeHandles(B, n) ==
    IF NeedsGrowth(B, n) THEN Grow(B, IncreasedSize(B, n - B.free)) ELSE B

(* The kernel's table: the first free handle of the last block that has one.*)
SearchFree(B) ==
    LET blocks == {b \in BlockOf(B.first + 1) .. Len(B.blockFree) : B.blockFree[b] > 0}
        b      == CHOOSE x \in blocks : \A y \in blocks : y <= x
        open   == {h \in 1 .. B.total : BlockOf(h) = b /\ B.hand[h].eType = NONE
                                        /\ B.hand[h].internal = {}}
    IN  CHOOSE h \in open : \A k \in open : h <= k

(* The handle the next allocation takes; below, what is first then.         *)
NextFree(B) == IF bPurgingEnabled THEN SearchFree(B) ELSE B.first + 1

(* Mutant of Rest: the link is taken for an index.                          *)
RestPlusOne(B, h) ==
    IF bPurgingEnabled \/ B.free = 1 THEN 0
    ELSE IF B.hand[h].next = 0 THEN h ELSE B.hand[h].next

Rest(B, h) ==
    IF bPurgingEnabled \/ B.free = 1 THEN 0
    ELSE IF B.hand[h].next = 0 THEN h ELSE B.hand[h].next - 1

(* The handle is taken and filled in; in a batch it goes on the batch list. *)
TakeHandle(B, h, o, key) ==
    [B EXCEPT
       !.hash = IF "MULTI" \in o.eFlag THEN @ ELSE [k \in DOMAIN @ \cup {key} |-> IF k = key THEN h ELSE @[k]],
       !.free = @ - 1, !.blockFree[BlockOf(h)] = @ - 1,
       !.first = Rest(B, h), !.last = IF B.free = 1 /\ ~bPurgingEnabled THEN 0 ELSE @,
       !.hand[h] = [Fresh EXCEPT !.eType = o.eType, !.pvData = o.pvData, !.eFlag = o.eFlag,
                                 !.next = IF Batched(B) THEN B.firstBatch ELSE 0,
                                 !.internal = IF Batched(B) THEN {"BATCHED"} ELSE {}],
       !.firstBatch = IF Batched(B) THEN h ELSE @]

AllocFails(B, o, trouble) ==
    EnsureFails(B, 1, trouble) \/ (trouble = "hash" /\ "MULTI" \notin o.eFlag)
(* A hash entry that cannot be added leaves the table grown.                *)
AllocHandle(B, o, key, trouble) ==
    IF EnsureFails(B, 1, trouble) THEN B
    ELSE LET G == EnsureFreeHandles(B, 1)
         IN  IF AllocFails(B, o, trouble) THEN [G EXCEPT !.first = IF bPurgingEnabled THEN 0 ELSE @]
             ELSE TakeHandle(G, NextFree(G), o, key)

Adopt(B, parent, h) ==
    [B EXCEPT !.hand[parent].children = Append(@, h), !.hand[h].parent = parent]

(* A handle leaves the hash and its parent.  In a batch it is kept for the  *)
(* end of the batch; otherwise it goes to the end of the free list, and     *)
(* what is left in its fields is never read again.                          *)
FreeOne(B, h) ==
    LET s     == B.hand[h]
        again == "PARTIALLY_FREE" \in s.internal
        later == "BATCHED" \in s.internal /\ ~again
        C == [B EXCEPT
                !.hash = IF "MULTI" \in s.eFlag \/ again THEN @
                         ELSE [k \in DOMAIN @ \ {KeyOf(B, h)} |-> @[k]],
                !.hand = [i \in DOMAIN @ |->
                            IF i # h THEN [@[i] EXCEPT !.children = SelectSeq(@, LAMBDA c : c # h)]
                            ELSE IF later THEN [Fresh EXCEPT !.next = s.next, !.internal = {"BATCHED", "PARTIALLY_FREE"}]
                            ELSE Fresh]]
    IN  IF later THEN C
        ELSE [C EXCEPT !.free = @ + 1, !.blockFree[BlockOf(h)] = @ + 1,
                       !.first = IF ~bPurgingEnabled /\ B.free = 0 THEN h - 1 ELSE @,
                       !.hand = IF bPurgingEnabled \/ B.free = 0 THEN @ ELSE [@ EXCEPT ![B.last].next = h],
                       !.last = IF bPurgingEnabled THEN @ ELSE h]

(* A handle and its sub-handles, the children before their parent.          *)
Family(B, h) ==
    LET family[i \in 1 .. B.total] ==
            FlattenSeq([c \in DOMAIN B.hand[i].children |-> family[B.hand[i].children[c]]]) \o <<i>>
    IN  family[h]

(* Mutant of FreeHandle: sub-handles stay.                                  *)
FreeHandleAlone(B, h) == FreeOne(B, h)

FreeHandle(B, h) == FoldLeft(FreeOne, B, Family(B, h))

-----------------------------------------------------------------------------
(* The calls.                                                               *)

(* PVRSRVAllocHandle and PVRSRVAllocSubHandle, parent 0 for the former: an  *)
(* object that has a handle gets it again if both sides share and the       *)
(* parent is the same.  In a batch a call that fails is counted.            *)
Alloc(B, o, parent, trouble) ==
    LET key   == InitKey(o, parent)
        found == IF "MULTI" \in o.eFlag THEN 0 ELSE FindHandle(B, key)
        bad   == [B EXCEPT !.failures = IF Batched(B) THEN @ + 1 ELSE @]
    IN  IF parent # 0 /\ ~IsLive(B, parent) THEN bad
        ELSE IF found # 0
        THEN IF "SHARED" \in B.hand[found].eFlag \cap o.eFlag /\ B.hand[found].parent = parent
             THEN B ELSE bad
        ELSE IF AllocFails(B, o, trouble) THEN AllocHandle(bad, o, key, trouble)
        ELSE LET A == AllocHandle(B, o, key, trouble)
                 h == NextFree(EnsureFreeHandles(B, 1))
             IN  IF parent = 0 THEN A ELSE Adopt(A, parent, h)

Trouble(t) == /\ t # "none" => faults < MaxFaults
              /\ faults' = IF t = "none" THEN faults ELSE faults + 1

PVRSRVAllocHandle(o, t) ==
    /\ ~o.sub /\ Trouble(t) /\ base.failures < 2
    /\ base' = Alloc(base, o, 0, t)

PVRSRVAllocSubHandle(o, parent, t) ==
    /\ o.sub /\ Trouble(t) /\ base.failures < 2
    /\ base' = Alloc(base, o, parent, t)

PVRSRVReleaseHandle(h) ==
    /\ IsLive(base, h)
    /\ base' = FreeHandle(base, h)
    /\ UNCHANGED faults

PVRSRVNewHandleBatch(n, t) ==
    /\ ~Batched(base) /\ ~bPurgingEnabled /\ Trouble(t)
    /\ (NeedsGrowth(base, n) /\ base.first = 0) => (base.last = 0 \/ LosesFreeList)
    /\ base' = IF EnsureFails(base, n, t) THEN base
               ELSE [EnsureFreeHandles(base, n) EXCEPT !.batch = n]

(* The handles of the batch, the latest first.                              *)
BatchList(B) ==
    LET list[n \in Nat] ==
            IF n = 0 THEN <<>> ELSE <<n>> \o list[B.hand[n].next]
    IN  list[B.firstBatch]

(* Mutant of CommitOrRelease: failures are not looked at.                   *)
CommitRegardless(B, bCommit) ==
    LET Settle(C, h) ==
            LET U == [C EXCEPT !.hand[h].next = 0]
                partial == "PARTIALLY_FREE" \in U.hand[h].internal
                V == IF partial THEN U ELSE [U EXCEPT !.hand[h].internal = @ \ {"BATCHED"}]
            IN  IF ~bCommit \/ partial THEN FreeHandle(V, h) ELSE V
    IN  [FoldLeft(Settle, B, BatchList(B)) EXCEPT !.batch = 0, !.firstBatch = 0, !.failures = 0]

(* Any failure makes a commit a release; what was freed meanwhile goes now. *)
CommitOrRelease(B, bCommit) ==
    LET bCommitBatch == bCommit /\ B.failures = 0
        Settle(C, h) ==
            LET U == [C EXCEPT !.hand[h].next = 0]
                partial == "PARTIALLY_FREE" \in U.hand[h].internal
                V == IF partial THEN U ELSE [U EXCEPT !.hand[h].internal = @ \ {"BATCHED"}]
            IN  IF ~bCommitBatch \/ partial THEN FreeHandle(V, h) ELSE V
    IN  [FoldLeft(Settle, B, BatchList(B)) EXCEPT !.batch = 0, !.firstBatch = 0, !.failures = 0]

PVRSRVCommitHandleBatch ==
    Batched(base) /\ base' = CommitOrRelease(base, TRUE) /\ UNCHANGED faults
PVRSRVReleaseHandleBatch ==
    Batched(base) /\ base' = CommitOrRelease(base, FALSE) /\ UNCHANGED faults

(* The free blocks at the end go if they are half of the table or more.     *)
PVRSRVPurgeHandles(t) ==
    /\ bPurgingEnabled /\ ~Batched(base) /\ Trouble(t) /\ t # "hash"
    /\ LET used == {b \in DOMAIN base.blockFree : base.blockFree[b] # BlockSize}
           keep == IF used = {} THEN 0 ELSE (CHOOSE b \in used : \A c \in used : c <= b) * BlockSize
       IN  base' = IF keep > base.total \div 2 \/ keep = base.total \/ (keep # 0 /\ t = "array") THEN base
                   ELSE Shrink(base, keep)

FreeAllHandles(B) ==
    FoldLeft(LAMBDA C, h : IF IsLive(C, h) THEN FreeHandle(C, h) ELSE C, B, [h \in 1 .. B.total |-> h])

(* The process ends: its batch, its handles and its table go.               *)
Ended(B) == FreeAllHandles(IF Batched(B) THEN CommitOrRelease(B, FALSE) ELSE B)
FreeHandleBase ==
    /\ base' = Shrink(Ended(base), 0)
    /\ UNCHANGED faults

Next ==
    \/ \E o \in Objects, t \in {"none", "array", "hash"} :
          \/ PVRSRVAllocHandle(o, t)
          \/ \E parent \in 1 .. base.total : PVRSRVAllocSubHandle(o, parent, t)
    \/ \E h \in 1 .. base.total : PVRSRVReleaseHandle(h)
    \/ \E n \in BatchSizes, t \in {"none", "array"} : PVRSRVNewHandleBatch(n, t)
    \/ PVRSRVCommitHandleBatch
    \/ PVRSRVReleaseHandleBatch
    \/ \E t \in {"none", "array"} : PVRSRVPurgeHandles(t)
    \/ FreeHandleBase

Spec == Init /\ [][Next]_vars

-----------------------------------------------------------------------------
(* Properties.                                                              *)

Handles(B)    == {h \in 1 .. B.total : IsLive(B, h)}
Unused(B)     == 1 .. B.total \ (Handles(B) \cup ToSet(BatchList(B)))
SingleIn(B)   == {h \in Handles(B) : "MULTI" \notin B.hand[h].eFlag}

(* The free list of a process's table runs through exactly the unused       *)
(* handles, however it grew and in whatever order they came back, and ends  *)
(* where the table appends.                                                 *)
FreeListExact ==
    LET walk[i \in 1 .. base.free] ==
            IF i = 1 THEN base.first + 1
            ELSE IF base.hand[walk[i - 1]].next = 0 THEN walk[i - 1] + 1
            ELSE base.hand[walk[i - 1]].next
    IN  ~bPurgingEnabled =>
            /\ {walk[i] : i \in 1 .. base.free} = Unused(base)
            /\ base.last = IF base.free = 0 THEN 0 ELSE walk[base.free]
            /\ base.free > 0 => base.hand[base.last].next = 0

(* The counts the growth of the table and the search for a free handle rely *)
(* on are those of the unused handles.                                      *)
CountsExact ==
    /\ base.free = Cardinality(Unused(base))
    /\ \A b \in DOMAIN base.blockFree :
          base.blockFree[b] = Cardinality({h \in Unused(base) : BlockOf(h) = b})

(* The hash finds each handle that may be found, and nothing else.          *)
HashExact ==
    /\ DOMAIN base.hash = {KeyOf(base, h) : h \in SingleIn(base)}
    /\ \A h \in SingleIn(base) : base.hash[KeyOf(base, h)] = h

(* A sub-handle is listed once, by a parent that is still there.            *)
FamiliesExact ==
    \A h \in Handles(base) :
        /\ LET p == base.hand[h].parent
           IN  p # 0 => p \in Handles(base) /\ h \in ToSet(base.hand[p].children)
        /\ IsInjective(base.hand[h].children)
        /\ \A c \in ToSet(base.hand[h].children) : c \in Handles(base) /\ base.hand[c].parent = h

(* A process that ends now, within a batch or not, gets every handle back   *)
(* and leaves no key in the hash.                                           *)
AllFreed ==
    LET E == Ended(base) IN E.free = E.total /\ DOMAIN E.hash = {}

TableSound == FreeListExact /\ CountsExact /\ HashExact /\ FamiliesExact /\ AllFreed

(* What PVR_ASSERT demands where the table grows and FirstFreeIndex is 0:   *)
(* that the free list is empty.  It is not when index 0 heads the list and  *)
(* a batch wants more handles than are free.                                *)
GrowsFromEmpty ==
    [][(base'.total > base.total /\ base.first = 0 /\ ~bPurgingEnabled) => base.last = 0]_vars

(* The table does what HandleMap says: handles name their objects until     *)
(* they are released, and a batch is kept as a whole or not at all.         *)
Named == [h \in Handles(base) |-> [object |-> base.hand[h].pvData, parent |-> base.hand[h].parent]]
Pending == ToSet(BatchList(base)) \cap Handles(base)
Map == INSTANCE HandleMap WITH names <- Named, pending <- Pending,
                               open <- Batched(base), failed <- base.failures > 0
ImplementsMap == Map!Spec

=============================================================================
