------------------------ MODULE DeviceMemoryProofs --------------------------
(* Proofs about DeviceMemory.  The counts of mem infos, of buffers and of   *)
(* sync infos are one statement about who has a mem info in hand: its       *)
(* owner, or nobody any more when the call that made it ran short of        *)
(* memory.  Each operation is first said of the parts of the record "mem",  *)
(* then shown to keep every part sound, and the actions follow.             *)
EXTENDS DeviceMemory, FiniteSetTheorems, TLAPS

(* What the records of "mem" may hold.                                      *)
Clients  == {"DEVICE", "WRAPPED"}
InfoType == [memType : Clients \cup {"MAPPED", "DEVICECLASS"}, refCount : Nat,
             buf : Ids, sync : Ids \cup {Nil}, src : Ids \cup DCBuffers \cup {Nil},
             res : Processes \cup {Nil}]
BufType  == [kind : {"ram", "contig", "scatter"}, ctx : Contexts,
             addr : Addresses \cup DCBuffers \cup {Nil}, size : Nat,
             refCount : Nat, exportCount : Nat, devMapped : BOOLEAN]

(* The sets that are counted.  K are the infos in somebody's hands, J the   *)
(* mappings whose source has yet to hear that they are gone.                *)
Mapped(I)        == {j \in DOMAIN I : I[j].memType = "MAPPED"}
MapsOf(I, i)     == {j \in DOMAIN I : I[j].memType = "MAPPED" /\ I[j].src = i}
Holding(I, K, b) == {k \in K : I[k].buf = b}
Exports(I, J, b) == {j \in J : I[I[j].src].buf = b}
UsersOf(I, s)    == {i \in DOMAIN I : I[i].sync = s}
SourcedBy(I, d)  == {i \in DOMAIN I : I[i].src = d}

(* The count of a mem info: the one who has it in hand and its mappings.    *)
InfoOK(I, K, i) ==
    /\ I[i].refCount = (IF i \in K THEN 1 ELSE 0) + Cardinality(MapsOf(I, i))
    /\ I[i].refCount > 0
    /\ I[i].res # Nil => i \in K
    /\ I[i].memType = "MAPPED" =>
          i \in K /\ I[i].src \in DOMAIN I /\ I[I[i].src].memType \in Clients
    /\ I[i].memType = "DEVICECLASS" => i \in K /\ I[i].src \in DCBuffers
    /\ I[i].memType \in Clients => I[i].src = Nil

InfosOK(I, K) ==
    /\ IsFiniteSet(DOMAIN I) /\ DOMAIN I \subseteq Ids /\ K \subseteq DOMAIN I
    /\ I \in [DOMAIN I -> InfoType]
    /\ \A i \in DOMAIN I : InfoOK(I, K, i)

(* The counts of a buffer: those who have it in hand, and its mappings.  It
   is mapped for the device unless the context was destroyed under it.      *)
BufOK(I, B, K, J, b) ==
    /\ B[b].refCount = Cardinality(Holding(I, K, b))
    /\ B[b].exportCount = Cardinality(Exports(I, J, b))
    /\ B[b].refCount + B[b].exportCount > 0
    /\ B[b].refCount > 0 => B[b].devMapped \/ B[b].ctx = Nil

BufsOK(I, B, K, J) ==
    /\ IsFiniteSet(K) /\ IsFiniteSet(J)
    /\ B \in [DOMAIN B -> BufType] /\ DOMAIN B \subseteq Ids
    /\ \A k \in K : I[k].buf \in DOMAIN B
    /\ \A j \in J : I[I[j].src].buf \in DOMAIN B
    /\ \A b \in DOMAIN B : BufOK(I, B, K, J, b)

(* The count of a sync info, which may be too high after one of f calls     *)
(* that failed.                                                             *)
SyncsOK(I, S, f) ==
    /\ S \in [DOMAIN S -> Nat] /\ DOMAIN S \subseteq Ids
    /\ \A i \in DOMAIN I : I[i].sync \in DOMAIN S \cup {Nil}
    /\ \A s \in DOMAIN S : /\ S[s] > 0 /\ S[s] >= Cardinality(UsersOf(I, s))
                           /\ f = 0 => S[s] = Cardinality(UsersOf(I, s))

(* What BM_Wrap finds is what it looked for, and somebody has it.           *)
HashOK(B, H) ==
    \A c \in DOMAIN H : \A a \in DOMAIN H[c] :
        /\ H[c][a] \in DOMAIN B
        /\ B[H[c][a]].kind = "contig" /\ B[H[c][a]].refCount > 0
        /\ B[H[c][a]].addr = a /\ B[H[c][a]].ctx = c

HandlesOK(I, h) == \A i \in h : i \in DOMAIN I /\ I[i].res # Nil /\ I[i].memType \in Clients

PinsOK(I, B, P) ==
    /\ \A i \in P : i \in DOMAIN I /\ I[i].memType = "WRAPPED"
    /\ \A i \in DOMAIN I : I[i].memType = "WRAPPED" /\ I[i].buf \in DOMAIN B
                              /\ ~Contiguous(B[I[i].buf]) => i \in P

MapCountOK(I, m) ==
    /\ m \in [DCBuffers -> Nat]
    /\ \A d \in DCBuffers : m[d] = Cardinality(SourcedBy(I, d))

(* A process has buffers of its own heap, whose context is there, or of one
   that it destroyed under them; memory from an arena is never among those. *)
InHeapOf(q, B, b, c) ==
    /\ B[b].ctx \in {HeapOf(q), Nil} /\ (B[b].kind = "ram" => B[b].ctx # Nil)
    /\ ~HeapShared /\ B[b].ctx # Nil => c[q].listed

OwnersOK(I, B, c) == \A i \in DOMAIN I : I[i].res # Nil => InHeapOf(I[i].res, B, I[i].buf, c)

MemRec(I, B, S, H, h, P, m) ==
    [info |-> I, buf |-> B, sync |-> S, hash |-> H, handles |-> h, pinned |-> P, memMap |-> m]

(* All of this, for contexts c, after f failed calls.                       *)
Sound(I, B, S, H, h, P, m, c, f, K) ==
    /\ InfosOK(I, K) /\ BufsOK(I, B, K, Mapped(I)) /\ SyncsOK(I, S, f)
    /\ DOMAIN H = Contexts /\ HashOK(B, H)
    /\ HandlesOK(I, h) /\ PinsOK(I, B, P) /\ MapCountOK(I, m) /\ OwnersOK(I, B, c)
    /\ f = 0 => \A k \in K : I[k].res # Nil

Hands(M, c, f, K) ==
    /\ M = MemRec(M.info, M.buf, M.sync, M.hash, M.handles, M.pinned, M.memMap)
    /\ Sound(M.info, M.buf, M.sync, M.hash, M.handles, M.pinned, M.memMap, c, f, K)

InOrder(M, c, f) == \E K \in SUBSET DOMAIN M.info : Hands(M, c, f, K)

ContextRec  == [refCount : Nat, listed : BOOLEAN, leaked : BOOLEAN, remade : BOOLEAN]
ContextType == [Processes -> ContextRec]

(* The inductive invariant.                                                 *)
IInv ==
    /\ context \in ContextType
    /\ exiting \in Processes \cup {Nil} /\ faults \in 0 .. MaxFaults
    /\ InOrder(mem, context, faults)

-----------------------------------------------------------------------------
(* Functions, sets and counts.                                              *)

(* While there is room, the name chosen is a new one.                      *)
LEMMA NewIdFresh ==
    ASSUME NEW f, Ids \ DOMAIN f # {}
    PROVE  NewId(f) \in Ids /\ NewId(f) \notin DOMAIN f
  BY DEF NewId

(* One member more or less.                                                 *)
LEMMA CountAdd ==
    ASSUME NEW T, NEW n, IsFiniteSet(T), n \notin T
    PROVE  /\ Cardinality(T) \in Nat /\ IsFiniteSet(T \cup {n})
           /\ Cardinality(T \cup {n}) = Cardinality(T) + 1
  BY FS_AddElement, FS_CardinalityType

(* A set without one of its members.                                       *)
LEMMA CountDrop ==
    ASSUME NEW T, NEW n, IsFiniteSet(T), n \in T
    PROVE  /\ Cardinality(T) \in Nat /\ Cardinality(T) > 0 /\ IsFiniteSet(T \ {n})
           /\ Cardinality(T \ {n}) = Cardinality(T) - 1
  <1>1. IsFiniteSet(T \ {n}) /\ Cardinality(T) \in Nat /\ Cardinality(T \ {n}) \in Nat
    BY FS_RemoveElement, FS_CardinalityType
  <1>2. Cardinality(T \ {n}) = Cardinality(T) - 1
    BY FS_RemoveElement
  <1> QED BY <1>1, <1>2

(* A part of a finite set.                                                 *)
LEMMA CountPart ==
    ASSUME NEW T, NEW U, IsFiniteSet(T), U \subseteq T
    PROVE  /\ IsFiniteSet(U) /\ Cardinality(U) \in Nat /\ Cardinality(U) <= Cardinality(T)
           /\ Cardinality(U) = 0 <=> U = {}
  <1>1. IsFiniteSet(U) /\ Cardinality(U) <= Cardinality(T)
    BY FS_Subset
  <1> QED BY <1>1, FS_CardinalityType, FS_EmptySet

-----------------------------------------------------------------------------
(* The operations of DeviceMemory on the parts of its record.               *)

FreedLast(B, b) ==
    IF B[b].exportCount = 0 /\ B[b].refCount = 0
    THEN Without(B, b) ELSE [B EXCEPT ![b].devMapped = @ /\ B[b].kind = "ram"]

FreedExport(B, b) ==
    IF B[b].exportCount = 0 /\ B[b].refCount = 0
    THEN Without(B, b) ELSE [B EXCEPT ![b].devMapped = @ /\ TRUE]

FewerRefs(B, b)    == [B EXCEPT ![b].refCount = @ - 1]
FewerExports(B, b) == [B EXCEPT ![b].exportCount = @ - 1]
MoreRefs(B, b)     == [B EXCEPT ![b].refCount = @ + 1]
MoreExports(B, b)  == [B EXCEPT ![b].exportCount = @ + 1]

DropRef(B, b) == IF FewerRefs(B, b)[b].refCount > 0 THEN FewerRefs(B, b)
                 ELSE FreedLast(FewerRefs(B, b), b)
DropExport(B, b) == FreedExport(FewerExports(B, b), b)

HashWithout(H, c, a) == [H EXCEPT ![c] = Without(@, a)]
DropHash(B, H, b) == IF FewerRefs(B, b)[b].refCount > 0 \/ ~Contiguous(FewerRefs(B, b)[b]) THEN H
                     ELSE HashWithout(H, FewerRefs(B, b)[b].ctx, FewerRefs(B, b)[b].addr)

Released(S, s) == IF s = Nil THEN S
                  ELSE IF S[s] = 1 THEN Without(S, s) ELSE [S EXCEPT ![s] = @ - 1]

(* What each of them makes of a record with these parts.                    *)
LEMMA BM_FreeIs ==
    ASSUME NEW I, NEW B, NEW S, NEW H, NEW h, NEW P, NEW m, NEW b
    PROVE  BM_Free(MemRec(I, B, S, H, h, P, m), b)
             = MemRec(I, DropRef(B, b), S, DropHash(B, H, b), h, P, m)
  <1> DEFINE M == MemRec(I, B, S, H, h, P, m)
             C == FewerRefs(B, b)
             N == [M EXCEPT !.buf[b].refCount = @ - 1]
  <1>1. N = MemRec(I, C, S, H, h, P, m)
    BY DEF MemRec, FewerRefs
  <1>2. BM_Free(M, b) = IF N.buf[b].refCount > 0 THEN N
                        ELSE IF Contiguous(N.buf[b])
                        THEN FreeBuf([N EXCEPT !.hash[N.buf[b].ctx] = Without(@, N.buf[b].addr)], b, TRUE)
                        ELSE FreeBuf(N, b, TRUE)
    BY DEF BM_Free
  <1> HIDE DEF M, N
  <1>3. N.buf = C
    BY <1>1 DEF MemRec
  <1>4. [N EXCEPT !.hash[C[b].ctx] = Without(@, C[b].addr)]
          = MemRec(I, C, S, HashWithout(H, C[b].ctx, C[b].addr), h, P, m)
    BY <1>1 DEF MemRec, HashWithout
  <1> HIDE DEF C
  <1>5. ASSUME NEW G
        PROVE  FreeBuf(MemRec(I, C, S, G, h, P, m), b, TRUE)
                 = MemRec(I, FreedLast(C, b), S, G, h, P, m)
    BY DEF FreeBuf, MemRec, FreedLast
  <1>6. FreeBuf([N EXCEPT !.hash[C[b].ctx] = Without(@, C[b].addr)], b, TRUE)
          = MemRec(I, FreedLast(C, b), S, HashWithout(H, C[b].ctx, C[b].addr), h, P, m)
    BY <1>4, <1>5
  <1>7. BM_Free(M, b) = IF C[b].refCount > 0 THEN N
                        ELSE IF Contiguous(C[b])
                        THEN FreeBuf([N EXCEPT !.hash[C[b].ctx] = Without(@, C[b].addr)], b, TRUE)
                        ELSE FreeBuf(N, b, TRUE)
    BY <1>2, <1>3
  <1> QED BY <1>1, <1>5, <1>6, <1>7 DEF M, C, DropRef, DropHash

(* BM_FreeExport is about the buffer alone.                                *)
LEMMA BM_FreeExportIs ==
    ASSUME NEW I, NEW B, NEW S, NEW H, NEW h, NEW P, NEW m, NEW b
    PROVE  BM_FreeExport(MemRec(I, B, S, H, h, P, m), b)
             = MemRec(I, DropExport(B, b), S, H, h, P, m)
  <1>1. [MemRec(I, B, S, H, h, P, m) EXCEPT !.buf[b].exportCount = @ - 1]
          = MemRec(I, FewerExports(B, b), S, H, h, P, m)
    BY DEF MemRec, FewerExports
  <1>2. FreeBuf(MemRec(I, FewerExports(B, b), S, H, h, P, m), b, FALSE)
          = MemRec(I, FreedExport(FewerExports(B, b), b), S, H, h, P, m)
    BY DEF FreeBuf, MemRec, FreedExport
  <1>3. BM_FreeExport(MemRec(I, B, S, H, h, P, m), b)
          = FreeBuf([MemRec(I, B, S, H, h, P, m) EXCEPT !.buf[b].exportCount = @ - 1], b, FALSE)
    BY DEF BM_FreeExport
  <1> QED BY <1>1, <1>2, <1>3 DEF DropExport

(* So is ReleaseSync about the sync info.                                  *)
LEMMA ReleaseSyncIs ==
    ASSUME NEW I, NEW B, NEW S, NEW H, NEW h, NEW P, NEW m, NEW s
    PROVE  ReleaseSync(MemRec(I, B, S, H, h, P, m), s) = MemRec(I, B, Released(S, s), H, h, P, m)
  BY DEF ReleaseSync, MemRec, Released

(* A mem info with one reference less: freed by its owner, or told that a
   mapping of it is gone.                                                   *)
LessOwned(I, i)   == [I EXCEPT ![i].refCount = @ - 1, ![i].res = Nil]
LessCounted(I, i) == [I EXCEPT ![i].refCount = @ - 1, ![i].res = @]

Remains(J, i)        == IF J[i].refCount = 0 THEN Without(J, i) ELSE J
SyncAfter(J, S, i)   == IF J[i].refCount # 0 THEN S ELSE Released(S, J[i].sync)
PinnedAfter(J, P, i) == IF J[i].refCount # 0 THEN P ELSE P \ {i}
Unpublished(h, i)    == h \ {i}

FreeOwned(M, i)  == FreeMemCallBackCommon(M, i, TRUE)
FreeSource(M, i) == FreeMemCallBackCommon(M, i, FALSE)

(* FreeMemCallBackCommon, when the owner frees an info.                    *)
LEMMA FreeOwnedIs ==
    ASSUME NEW I, NEW B, NEW S, NEW H, NEW h, NEW P, NEW m, NEW i
    PROVE  LET J == LessOwned(I, i)
           IN  FreeOwned(MemRec(I, B, S, H, h, P, m), i)
                 = MemRec(Remains(J, i), DropRef(B, J[i].buf), SyncAfter(J, S, i),
                          DropHash(B, H, J[i].buf), Unpublished(h, i), PinnedAfter(J, P, i), m)
  <1> DEFINE J == LessOwned(I, i)
             M0 == MemRec(I, B, S, H, h, P, m)
             M == [M0 EXCEPT !.info[i].refCount = @ - 1, !.info[i].res = IF TRUE THEN Nil ELSE @,
                             !.handles = IF TRUE THEN @ \ {i} ELSE @]
             Q == PinnedAfter(J, P, i)
             T == SyncAfter(J, S, i)
             R == IF M.info[i].refCount # 0 THEN M
                  ELSE ReleaseSync([M EXCEPT !.pinned = @ \ {i}], M.info[i].sync)
  <1>1. M = MemRec(J, B, S, H, h \ {i}, P, m)
    <2> DEFINE M1 == [M0 EXCEPT !.info[i].refCount = @ - 1]
               M2 == [M1 EXCEPT !.info[i].res = Nil]
               I1 == [I EXCEPT ![i].refCount = @ - 1]
               I2 == [I1 EXCEPT ![i].res = Nil]
    <2>1. M = [M2 EXCEPT !.handles = @ \ {i}] /\ J = I2
      BY DEF MemRec, LessOwned
    <2>2. M1 = MemRec(I1, B, S, H, h, P, m)
      BY DEF MemRec
    <2> HIDE DEF M, J, M1, I1
    <2>3. M2 = MemRec(I2, B, S, H, h, P, m)
      BY <2>2 DEF MemRec
    <2> HIDE DEF M2, I2
    <2> QED BY <2>1, <2>3 DEF MemRec
  <1>2. FreeOwned(M0, i) = FreeDeviceMem2(R, i, TRUE)
    BY DEF FreeOwned, FreeMemCallBackCommon
  <1> HIDE DEF M, M0
  <1>3. M.info = J
    BY <1>1 DEF MemRec
  <1> HIDE DEF J
  <1>4. [M EXCEPT !.pinned = @ \ {i}] = MemRec(J, B, S, H, h \ {i}, P \ {i}, m)
    BY <1>1 DEF MemRec
  <1>5. ReleaseSync([M EXCEPT !.pinned = @ \ {i}], J[i].sync)
          = MemRec(J, B, Released(S, J[i].sync), H, h \ {i}, P \ {i}, m)
    BY <1>4, ReleaseSyncIs
  <1>6. R = MemRec(J, B, T, H, h \ {i}, Q, m)
    BY <1>1, <1>3, <1>5 DEF SyncAfter, PinnedAfter
  <1> HIDE DEF R, T, Q
  <1>7. R.info = J
    BY <1>6 DEF MemRec
  <1>8. FreeDeviceMem2(R, i, TRUE)
          = IF J[i].refCount = 0 THEN [BM_Free(R, J[i].buf) EXCEPT !.info = Without(@, i)]
            ELSE BM_Free(R, J[i].buf)
    BY <1>7 DEF FreeDeviceMem2
  <1>9. BM_Free(R, J[i].buf)
          = MemRec(J, DropRef(B, J[i].buf), T, DropHash(B, H, J[i].buf), h \ {i}, Q, m)
    BY <1>6, BM_FreeIs
  <1>10. [BM_Free(R, J[i].buf) EXCEPT !.info = Without(@, i)]
           = MemRec(Without(J, i), DropRef(B, J[i].buf), T, DropHash(B, H, J[i].buf), h \ {i}, Q, m)
    BY <1>9 DEF MemRec
  <1>11. FreeDeviceMem2(R, i, TRUE)
           = MemRec(Remains(J, i), DropRef(B, J[i].buf), T, DropHash(B, H, J[i].buf), h \ {i}, Q, m)
    BY <1>8, <1>9, <1>10 DEF Remains
  <1> QED BY <1>2, <1>11, Zenon DEF M0, J, T, Q, Unpublished

(* FreeMemCallBackCommon, when a mapping of an info is gone.               *)
LEMMA FreeSourceIs ==
    ASSUME NEW I, NEW B, NEW S, NEW H, NEW h, NEW P, NEW m, NEW i
    PROVE  LET J == LessCounted(I, i)
           IN  FreeSource(MemRec(I, B, S, H, h, P, m), i)
                 = MemRec(Remains(J, i), DropExport(B, J[i].buf), SyncAfter(J, S, i),
                          H, h, PinnedAfter(J, P, i), m)
  <1> DEFINE J == LessCounted(I, i)
             M0 == MemRec(I, B, S, H, h, P, m)
             M == [M0 EXCEPT !.info[i].refCount = @ - 1, !.info[i].res = IF FALSE THEN Nil ELSE @,
                             !.handles = IF FALSE THEN @ \ {i} ELSE @]
             Q == PinnedAfter(J, P, i)
             T == SyncAfter(J, S, i)
             R == IF M.info[i].refCount # 0 THEN M
                  ELSE ReleaseSync([M EXCEPT !.pinned = @ \ {i}], M.info[i].sync)
  <1>1. M = MemRec(J, B, S, H, h, P, m)
    <2> DEFINE M1 == [M0 EXCEPT !.info[i].refCount = @ - 1]
               M2 == [M1 EXCEPT !.info[i].res = @]
               I1 == [I EXCEPT ![i].refCount = @ - 1]
               I2 == [I1 EXCEPT ![i].res = @]
    <2>1. M = [M2 EXCEPT !.handles = @] /\ J = I2
      BY DEF MemRec, LessCounted
    <2>2. M1 = MemRec(I1, B, S, H, h, P, m)
      BY DEF MemRec
    <2> HIDE DEF M, J, M1, I1
    <2>3. M2 = MemRec(I2, B, S, H, h, P, m)
      BY <2>2 DEF MemRec
    <2> HIDE DEF M2, I2
    <2> QED BY <2>1, <2>3 DEF MemRec
  <1>2. FreeSource(M0, i) = FreeDeviceMem2(R, i, FALSE)
    BY DEF FreeSource, FreeMemCallBackCommon
  <1> HIDE DEF M, M0
  <1>3. M.info = J
    BY <1>1 DEF MemRec
  <1> HIDE DEF J
  <1>4. [M EXCEPT !.pinned = @ \ {i}] = MemRec(J, B, S, H, h, P \ {i}, m)
    BY <1>1 DEF MemRec
  <1>5. ReleaseSync([M EXCEPT !.pinned = @ \ {i}], J[i].sync)
          = MemRec(J, B, Released(S, J[i].sync), H, h, P \ {i}, m)
    BY <1>4, ReleaseSyncIs
  <1>6. R = MemRec(J, B, T, H, h, Q, m)
    BY <1>1, <1>3, <1>5 DEF SyncAfter, PinnedAfter
  <1> HIDE DEF R, T, Q
  <1>7. R.info = J
    BY <1>6 DEF MemRec
  <1>8. FreeDeviceMem2(R, i, FALSE)
          = IF J[i].refCount = 0 THEN [BM_FreeExport(R, J[i].buf) EXCEPT !.info = Without(@, i)]
            ELSE BM_FreeExport(R, J[i].buf)
    BY <1>7 DEF FreeDeviceMem2
  <1>9. BM_FreeExport(R, J[i].buf) = MemRec(J, DropExport(B, J[i].buf), T, H, h, Q, m)
    BY <1>6, BM_FreeExportIs
  <1>10. [BM_FreeExport(R, J[i].buf) EXCEPT !.info = Without(@, i)]
           = MemRec(Without(J, i), DropExport(B, J[i].buf), T, H, h, Q, m)
    BY <1>9 DEF MemRec
  <1>11. FreeDeviceMem2(R, i, FALSE)
           = MemRec(Remains(J, i), DropExport(B, J[i].buf), T, H, h, Q, m)
    BY <1>8, <1>9, <1>10 DEF Remains
  <1> QED BY <1>2, <1>11, Zenon DEF M0, J, T, Q

(* What the callback of the resource manager makes of the record.           *)
LEMMA FreeDisplayIs ==
    ASSUME NEW I, NEW B, NEW S, NEW H, NEW h, NEW P, NEW m, NEW i,
           I[i].memType = "DEVICECLASS"
    PROVE  CallBack(MemRec(I, B, S, H, h, P, m), i)
             = FreeOwned(MemRec(I, B, S, H, h, P, [m EXCEPT ![I[i].src] = @ - 1]), i)
  <1> DEFINE M == MemRec(I, B, S, H, h, P, m)
  <1>1. M.info = I
    BY DEF MemRec
  <1>2. [M EXCEPT !.memMap[I[i].src] = @ - 1] = MemRec(I, B, S, H, h, P, [m EXCEPT ![I[i].src] = @ - 1])
    BY DEF MemRec
  <1> HIDE DEF M
  <1>3. CallBack(M, i) = FreeOwned([M EXCEPT !.memMap[M.info[i].src] = @ - 1], i)
    BY <1>1 DEF CallBack, UnmapDeviceClassMemory, FreeOwned
  <1> QED BY <1>1, <1>2, <1>3 DEF M

(* The callback for memory that was allocated or wrapped.                  *)
LEMMA FreeClientIs ==
    ASSUME NEW I, NEW B, NEW S, NEW H, NEW h, NEW P, NEW m, NEW i, I[i].memType \in Clients
    PROVE  CallBack(MemRec(I, B, S, H, h, P, m), i) = FreeOwned(MemRec(I, B, S, H, h, P, m), i)
  <1> DEFINE M == MemRec(I, B, S, H, h, P, m)
  <1>1. M.info = I
    BY DEF MemRec
  <1> HIDE DEF M
  <1>2. M.info[i].memType # "MAPPED" /\ M.info[i].memType # "DEVICECLASS"
    BY <1>1 DEF Clients
  <1>3. CallBack(M, i) = FreeOwned(M, i)
    BY <1>2 DEF CallBack, FreeOwned
  <1> QED BY <1>3 DEF M

(* The callback for a mapping frees it, then tells its source.             *)
LEMMA UnmapIs ==
    ASSUME NEW I, NEW B, NEW S, NEW H, NEW h, NEW P, NEW m, NEW i, I[i].memType = "MAPPED"
    PROVE  CallBack(MemRec(I, B, S, H, h, P, m), i)
             = FreeSource(MemRec(Without(I, i), DropRef(B, I[i].buf), Released(S, I[i].sync),
                                 DropHash(B, H, I[i].buf), h, P, m), I[i].src)
  <1> DEFINE M == MemRec(I, B, S, H, h, P, m)
             N == ReleaseSync(M, I[i].sync)
             F == BM_Free(N, I[i].buf)
  <1>1. M.info = I
    BY DEF MemRec
  <1>2. N = MemRec(I, B, Released(S, I[i].sync), H, h, P, m)
    BY ReleaseSyncIs
  <1> HIDE DEF M, N
  <1>3. N.info = I
    BY <1>2 DEF MemRec
  <1>4. F = MemRec(I, DropRef(B, I[i].buf), Released(S, I[i].sync), DropHash(B, H, I[i].buf), h, P, m)
    BY <1>2, BM_FreeIs
  <1> HIDE DEF F
  <1>5. [F EXCEPT !.info = Without(@, i)]
          = MemRec(Without(I, i), DropRef(B, I[i].buf), Released(S, I[i].sync),
                   DropHash(B, H, I[i].buf), h, P, m)
    BY <1>4 DEF MemRec
  <1>6. FreeDeviceMem(N, i) = [F EXCEPT !.info = Without(@, i)]
    BY <1>3 DEF FreeDeviceMem, F
  <1>7. CallBack(M, i) = FreeSource(FreeDeviceMem(N, i), I[i].src)
    BY <1>1 DEF CallBack, UnmapDeviceMemory, FreeSource, N
  <1> QED BY <1>5, <1>6, <1>7 DEF M

-----------------------------------------------------------------------------
(* Mem infos and their counts.                                              *)

MoreCounted(I, i) == [I EXCEPT ![i].refCount = @ + 1]

(* The fields of an info that a change of its counts or of its owner leaves. *)
SameLinks(I, J, i) == /\ I[i].memType = J[i].memType /\ I[i].buf = J[i].buf
                      /\ I[i].sync = J[i].sync /\ I[i].src = J[i].src

(* A change of one info changes its count, and its owner perhaps.           *)
LEMMA ChangedOwned ==
    ASSUME NEW I, I \in [DOMAIN I -> InfoType], NEW i \in DOMAIN I
    PROVE  LET J == LessOwned(I, i)
           IN  /\ DOMAIN J = DOMAIN I
               /\ \A k \in DOMAIN I : SameLinks(J, I, k) /\ (k # i => J[k] = I[k])
               /\ J[i].refCount = I[i].refCount - 1 /\ J[i].res = Nil
               /\ I[i].refCount > 0 => J \in [DOMAIN I -> InfoType]
  <1> DEFINE J == LessOwned(I, i)
  <1>1. /\ DOMAIN J = DOMAIN I
        /\ \A k \in DOMAIN I : SameLinks(J, I, k) /\ (k # i => J[k] = I[k])
        /\ J[i].refCount = I[i].refCount - 1 /\ J[i].res = Nil
    BY DEF LessOwned, SameLinks, InfoType
  <1>2. ASSUME I[i].refCount > 0 PROVE J \in [DOMAIN I -> InfoType]
    <2> DEFINE n == I[i].refCount - 1
    <2>1. I[i] \in InfoType /\ n \in Nat
      BY <1>2 DEF InfoType
    <2>2. J = [I EXCEPT ![i].refCount = n, ![i].res = Nil]
      BY DEF LessOwned
    <2> HIDE DEF n, J
    <2>3. \A k \in DOMAIN I : J[k] \in InfoType
      BY <2>1, <2>2 DEF InfoType
    <2> QED BY <2>2, <2>3
  <1> QED BY <1>1, <1>2

(* One reference less, when a mapping is gone.                             *)
LEMMA ChangedCount ==
    ASSUME NEW I, I \in [DOMAIN I -> InfoType], NEW i \in DOMAIN I
    PROVE  LET J == LessCounted(I, i)
           IN  /\ DOMAIN J = DOMAIN I
               /\ \A k \in DOMAIN I : SameLinks(J, I, k) /\ (k # i => J[k] = I[k])
               /\ J[i].refCount = I[i].refCount - 1 /\ J[i].res = I[i].res
               /\ I[i].refCount > 0 => J \in [DOMAIN I -> InfoType]
  <1> DEFINE J == LessCounted(I, i)
  <1>1. /\ DOMAIN J = DOMAIN I
        /\ \A k \in DOMAIN I : SameLinks(J, I, k) /\ (k # i => J[k] = I[k])
        /\ J[i].refCount = I[i].refCount - 1 /\ J[i].res = I[i].res
    BY DEF LessCounted, SameLinks, InfoType
  <1>2. ASSUME I[i].refCount > 0 PROVE J \in [DOMAIN I -> InfoType]
    <2> DEFINE n == I[i].refCount - 1
    <2>1. I[i] \in InfoType /\ n \in Nat
      BY <1>2 DEF InfoType
    <2>2. J = [I EXCEPT ![i].refCount = n, ![i].res = @]
      BY DEF LessCounted
    <2> HIDE DEF n, J
    <2>3. \A k \in DOMAIN I : J[k] \in InfoType
      BY <2>1, <2>2 DEF InfoType
    <2> QED BY <2>2, <2>3
  <1> QED BY <1>1, <1>2

(* One reference more, for a new mapping.                                  *)
LEMMA ChangedMore ==
    ASSUME NEW I, I \in [DOMAIN I -> InfoType], NEW i \in DOMAIN I
    PROVE  LET J == MoreCounted(I, i)
           IN  /\ DOMAIN J = DOMAIN I
               /\ \A k \in DOMAIN I : SameLinks(J, I, k) /\ (k # i => J[k] = I[k])
               /\ J[i].refCount = I[i].refCount + 1 /\ J[i].res = I[i].res
               /\ J \in [DOMAIN I -> InfoType]
  BY DEF MoreCounted, SameLinks, InfoType

(* A new info that is no mapping.                                           *)
LEMMA InfosAdd ==
    ASSUME NEW I, NEW K, InfosOK(I, K), NEW n \in Ids \ DOMAIN I, NEW r \in InfoType,
           r.refCount = 1, r.memType # "MAPPED",
           r.memType = "DEVICECLASS" => r.src \in DCBuffers,
           r.memType \in Clients => r.src = Nil
    PROVE  /\ InfosOK(Put(I, n, r), K \cup {n})
           /\ Mapped(Put(I, n, r)) = Mapped(I)
  <1> DEFINE J == Put(I, n, r)
             D == DOMAIN I
  <1>1. DOMAIN J = D \cup {n} /\ J[n] = r /\ \A i \in D : J[i] = I[i]
    BY DEF Put
  <1>2. /\ IsFiniteSet(D) /\ D \subseteq Ids /\ K \subseteq D /\ I \in [D -> InfoType]
        /\ \A i \in D : InfoOK(I, K, i)
    BY DEF InfosOK
  <1> HIDE DEF J
  <1>3. IsFiniteSet(D \cup {n})
    BY <1>2, FS_AddElement
  <1>4. J \in [D \cup {n} -> InfoType]
    BY <1>1, <1>2 DEF J, Put
  <1>5. \A i \in D : MapsOf(J, i) = MapsOf(I, i)
    BY <1>1, <1>2 DEF MapsOf
  <1>6. MapsOf(J, n) = {}
    <2> SUFFICES ASSUME NEW j \in D, I[j].memType = "MAPPED", I[j].src = n PROVE FALSE
      BY <1>1 DEF MapsOf
    <2> QED BY <1>2 DEF InfoOK
  <1>7. ASSUME NEW i \in D PROVE InfoOK(J, K \cup {n}, i)
    BY <1>1, <1>2, <1>5 DEF InfoOK
  <1>8. InfoOK(J, K \cup {n}, n)
    BY <1>1, <1>6, FS_EmptySet DEF InfoOK, Clients
  <1>9. Mapped(J) = Mapped(I)
    BY <1>1 DEF Mapped
  <1>10. InfosOK(J, K \cup {n})
    BY <1>1, <1>2, <1>3, <1>4, <1>7, <1>8 DEF InfosOK
  <1> QED BY <1>9, <1>10 DEF J

(* A new mapping counts as a reference to its source.                       *)
LEMMA InfosMap ==
    ASSUME NEW I, NEW K, InfosOK(I, K), NEW n \in Ids \ DOMAIN I, NEW r \in InfoType,
           r.refCount = 1, r.memType = "MAPPED", r.src \in DOMAIN I,
           I[r.src].memType \in Clients
    PROVE  LET J == Put(MoreCounted(I, r.src), n, r)
           IN  /\ InfosOK(J, K \cup {n}) /\ Mapped(J) = Mapped(I) \cup {n}
               /\ n \notin Mapped(I)
  <1> DEFINE C == MoreCounted(I, r.src)
             J == Put(C, n, r)
             D == DOMAIN I
             s == r.src
  <1>1. /\ IsFiniteSet(D) /\ D \subseteq Ids /\ K \subseteq D /\ I \in [D -> InfoType]
        /\ \A i \in D : InfoOK(I, K, i)
    BY DEF InfosOK
  <1>2. DOMAIN C = D /\ C[s].refCount = I[s].refCount + 1 /\ C[s].res = I[s].res
    BY <1>1, ChangedMore
  <1>3. \A i \in D : SameLinks(C, I, i) /\ (i # s => C[i] = I[i])
    BY <1>1, ChangedMore
  <1>4. C \in [D -> InfoType]
    BY <1>1 DEF MoreCounted, InfoType
  <1> HIDE DEF C
  <1>5. DOMAIN J = D \cup {n} /\ J[n] = r /\ \A i \in D : J[i] = C[i]
    BY <1>2 DEF Put
  <1>6. IsFiniteSet(D \cup {n})
    BY <1>1, FS_AddElement
  <1>7. J \in [D \cup {n} -> InfoType]
    BY <1>2, <1>4, <1>5 DEF J, Put
  <1> HIDE DEF J, s
  <1>8. \A i \in D : i # s => MapsOf(J, i) = MapsOf(I, i)
    BY <1>3, <1>5 DEF MapsOf, SameLinks, s
  <1>9. MapsOf(J, n) = {}
    <2>1. \A j \in D : I[j].memType = "MAPPED" => I[j].src # n
      BY <1>1 DEF InfoOK
    <2> QED BY <1>3, <1>5, <2>1 DEF MapsOf, SameLinks, s
  <1>10. MapsOf(J, s) = MapsOf(I, s) \cup {n} /\ n \notin MapsOf(I, s)
    BY <1>3, <1>5 DEF MapsOf, SameLinks, s
  <1>11. MapsOf(I, s) \subseteq D
    BY DEF MapsOf
  <1>12. /\ Cardinality(MapsOf(I, s)) \in Nat
         /\ Cardinality(MapsOf(J, s)) = Cardinality(MapsOf(I, s)) + 1
    BY <1>1, <1>10, <1>11, CountAdd, CountPart
  <1>13. ASSUME NEW i \in D, i # s PROVE InfoOK(J, K \cup {n}, i)
    <2>1. InfoOK(I, K, i) /\ J[i] = I[i] /\ i # n /\ MapsOf(J, i) = MapsOf(I, i)
      BY <1>1, <1>3, <1>5, <1>8, <1>13
    <2>2. I[i].src \in D => J[I[i].src].memType = I[I[i].src].memType
      BY <1>3, <1>5 DEF SameLinks
    <2> QED BY <1>5, <2>1, <2>2 DEF InfoOK
  <1>14. InfoOK(J, K \cup {n}, s)
    <2>1. s \in D /\ s # n /\ InfoOK(I, K, s) /\ I[s].memType \in Clients
      BY <1>1 DEF s
    <2>2. SameLinks(J, I, s) /\ J[s].refCount = I[s].refCount + 1 /\ J[s].res = I[s].res
      BY <1>2, <1>3, <1>5, <2>1 DEF SameLinks
    <2>3. J[s].refCount = (IF s \in K \cup {n} THEN 1 ELSE 0) + Cardinality(MapsOf(J, s))
      BY <1>12, <2>1, <2>2 DEF InfoOK
    <2>4. J[s].refCount > 0
      BY <1>12, <2>1, <2>2 DEF InfoOK
    <2> QED BY <2>1, <2>2, <2>3, <2>4 DEF InfoOK, SameLinks, Clients
  <1>15. InfoOK(J, K \cup {n}, n)
    <2>1. J[s].memType \in Clients /\ s \in DOMAIN J /\ J[n].src = s
      BY <1>3, <1>5 DEF s, SameLinks
    <2> QED BY <1>5, <1>9, <2>1, FS_EmptySet DEF InfoOK, Clients
  <1>16. InfosOK(J, K \cup {n})
    BY <1>1, <1>5, <1>6, <1>7, <1>13, <1>14, <1>15 DEF InfosOK
  <1>17. Mapped(J) = Mapped(I) \cup {n} /\ n \notin Mapped(I)
    BY <1>3, <1>5 DEF Mapped, SameLinks
  <1> QED BY <1>16, <1>17 DEF J, C

(* An owner frees what he has: the info stays while it has mappings.        *)
LEMMA InfosFree ==
    ASSUME NEW I, NEW K, InfosOK(I, K), NEW i \in DOMAIN I, I[i].res # Nil,
           I[i].memType # "MAPPED"
    PROVE  LET J == LessOwned(I, i)
               R == Remains(J, i)
           IN  /\ InfosOK(R, K \ {i}) /\ Mapped(R) = Mapped(I) /\ i \in K
               /\ DOMAIN R = IF J[i].refCount = 0 THEN DOMAIN I \ {i} ELSE DOMAIN I
               /\ \A k \in DOMAIN R : SameLinks(R, I, k) /\ (k # i => R[k] = I[k])
               /\ i \in DOMAIN R => R[i].res = Nil
               /\ I[i].memType = "DEVICECLASS" => i \notin DOMAIN R
  <1> DEFINE J == LessOwned(I, i)
             R == Remains(J, i)
             D == DOMAIN I
  <1>1. /\ IsFiniteSet(D) /\ D \subseteq Ids /\ K \subseteq D /\ I \in [D -> InfoType]
        /\ \A k \in D : InfoOK(I, K, k)
    BY DEF InfosOK
  <1>2. /\ DOMAIN J = D /\ J[i].refCount = I[i].refCount - 1 /\ J[i].res = Nil
        /\ \A k \in D : SameLinks(J, I, k) /\ (k # i => J[k] = I[k])
    BY <1>1, ChangedOwned
  <1>3. J \in [D -> InfoType]
    <2>1. I[i].refCount > 0
      BY <1>1 DEF InfoOK
    <2> QED BY <1>1, <2>1, ChangedOwned
  <1> HIDE DEF J
  <1>4. /\ DOMAIN R = IF J[i].refCount = 0 THEN D \ {i} ELSE D
        /\ \A k \in DOMAIN R : R[k] = J[k]
    BY <1>2 DEF Remains, Without, RestrictDomain, Restrict
  <1>5. R = [k \in DOMAIN R |-> R[k]]
    <2>1. J = [k \in D |-> J[k]]
      BY <1>3
    <2>2. CASE J[i].refCount = 0
      BY <1>4, <2>2 DEF Remains, Without, RestrictDomain, Restrict
    <2>3. CASE J[i].refCount # 0
      BY <1>2, <2>1, <2>3 DEF Remains
    <2> QED BY <2>2, <2>3
  <1> HIDE DEF R
  <1>6. \A k \in DOMAIN R : k \in D /\ SameLinks(R, I, k) /\ (k # i => R[k] = I[k])
    BY <1>2, <1>4 DEF SameLinks
  <1>7. i \in K /\ InfoOK(I, K, i)
    BY <1>1 DEF InfoOK
  <1>8. /\ Cardinality(MapsOf(I, i)) \in Nat
        /\ I[i].refCount = 1 + Cardinality(MapsOf(I, i))
    <2>1. MapsOf(I, i) \subseteq D
      BY DEF MapsOf
    <2> QED BY <1>1, <1>7, <2>1, CountPart DEF InfoOK
  <1>9. J[i].refCount \in Nat /\ (J[i].refCount = 0 => MapsOf(I, i) = {})
    <2>1. MapsOf(I, i) \subseteq D
      BY DEF MapsOf
    <2>2. Cardinality(MapsOf(I, i)) = 0 <=> MapsOf(I, i) = {}
      BY <1>1, <2>1, CountPart
    <2> QED BY <1>2, <1>8, <2>2
  <1>10. I[i].memType = "DEVICECLASS" => i \notin DOMAIN R
    <2>1. SUFFICES ASSUME I[i].memType = "DEVICECLASS" PROVE J[i].refCount = 0
      BY <1>4
    <2>2. MapsOf(I, i) = {}
      BY <1>1, <2>1 DEF MapsOf, InfoOK, Clients
    <2>3. Cardinality(MapsOf(I, i)) = 0
      BY <2>2, FS_EmptySet
    <2> QED BY <1>2, <1>8, <2>3
  <1>11. \A k \in DOMAIN R : MapsOf(R, k) = MapsOf(I, k)
    BY <1>2, <1>4, <1>6 DEF MapsOf, SameLinks
  <1>12. ASSUME NEW k \in DOMAIN R, k # i PROVE InfoOK(R, K \ {i}, k)
    <2>1. R[k] = I[k] /\ InfoOK(I, K, k) /\ MapsOf(R, k) = MapsOf(I, k)
      BY <1>1, <1>6, <1>11, <1>12
    <2>2. I[k].memType = "MAPPED" => I[k].src \in DOMAIN R /\ R[I[k].src].memType \in Clients
      <3>1. ASSUME I[k].memType = "MAPPED" PROVE I[k].src \in DOMAIN R
        BY <1>4, <1>6, <1>9, <2>1, <3>1 DEF MapsOf, InfoOK
      <3> QED BY <1>6, <2>1, <3>1 DEF InfoOK, SameLinks
    <2> QED BY <1>12, <2>1, <2>2 DEF InfoOK
  <1>13. ASSUME i \in DOMAIN R PROVE InfoOK(R, K \ {i}, i)
    <2>1. /\ R[i] = J[i] /\ SameLinks(R, I, i) /\ MapsOf(R, i) = MapsOf(I, i)
          /\ J[i].refCount # 0
      BY <1>4, <1>6, <1>11, <1>13
    <2>2. /\ R[i].refCount = Cardinality(MapsOf(R, i)) /\ R[i].refCount > 0 /\ R[i].res = Nil
          /\ Cardinality(MapsOf(R, i)) \in Nat
      BY <1>2, <1>8, <1>9, <2>1
    <2>3. I[i].memType # "DEVICECLASS"
      BY <1>10, <1>13
    <2> QED BY <1>7, <2>1, <2>2, <2>3 DEF InfoOK, SameLinks
  <1>14. IsFiniteSet(DOMAIN R) /\ DOMAIN R \subseteq Ids /\ K \ {i} \subseteq DOMAIN R
    BY <1>1, <1>4, FS_Subset
  <1>15. \A k \in DOMAIN R : R[k] \in InfoType
    BY <1>3, <1>4
  <1>16. InfosOK(R, K \ {i})
    BY <1>5, <1>12, <1>13, <1>14, <1>15 DEF InfosOK
  <1>17. Mapped(R) = Mapped(I)
    BY <1>2, <1>4, <1>6 DEF Mapped, SameLinks
  <1>18. i \in DOMAIN R => R[i].res = Nil
    BY <1>2, <1>4
  <1> QED BY <1>4, <1>6, <1>7, <1>10, <1>16, <1>17, <1>18 DEF R, J

(* A mapping goes, and its source may go with it.                           *)
LEMMA InfosUnmap ==
    ASSUME NEW I, NEW K, InfosOK(I, K), NEW j \in DOMAIN I, I[j].memType = "MAPPED"
    PROVE  LET s == I[j].src
               W == Without(I, j)
               J == LessCounted(W, s)
               R == Remains(J, s)
           IN  /\ InfosOK(R, K \ {j}) /\ Mapped(R) = Mapped(I) \ {j}
               /\ j \in Mapped(I) /\ j \in K /\ s \in DOMAIN W /\ W[s] = I[s] /\ s # j
               /\ DOMAIN J = DOMAIN W /\ SameLinks(J, W, s)
               /\ DOMAIN R = IF J[s].refCount = 0 THEN DOMAIN I \ {j, s} ELSE DOMAIN I \ {j}
               /\ \A k \in DOMAIN R : k \in DOMAIN I /\ SameLinks(R, I, k) /\ R[k].res = I[k].res
               /\ J[s].refCount = 0 => s \notin K
  <1> DEFINE s == I[j].src
             W == Without(I, j)
             J == LessCounted(W, s)
             R == Remains(J, s)
             D == DOMAIN I \ {j}
  <1>1. /\ IsFiniteSet(DOMAIN I) /\ DOMAIN I \subseteq Ids /\ K \subseteq DOMAIN I
        /\ I \in [DOMAIN I -> InfoType]
        /\ \A k \in DOMAIN I : InfoOK(I, K, k)
    BY DEF InfosOK
  <1>2. s \in DOMAIN I /\ s # j /\ j \in K /\ InfoOK(I, K, s) /\ s \in D /\ I[s].memType \in Clients
    BY <1>1 DEF InfoOK, Clients
  <1>3. DOMAIN W = D /\ (\A k \in D : W[k] = I[k]) /\ W \in [D -> InfoType]
    BY <1>1 DEF Without, RestrictDomain, Restrict
  <1> HIDE DEF s, W
  <1>4. /\ DOMAIN J = D /\ J[s].refCount = W[s].refCount - 1 /\ J[s].res = W[s].res
        /\ \A k \in D : SameLinks(J, W, k) /\ (k # s => J[k] = W[k])
        /\ W[s].refCount > 0 => J \in [D -> InfoType]
    BY <1>2, <1>3, ChangedCount
  <1> HIDE DEF J
  <1>5. /\ J[s].refCount = I[s].refCount - 1 /\ J \in [D -> InfoType]
        /\ \A k \in D : SameLinks(J, I, k) /\ J[k].res = I[k].res /\ (k # s => J[k] = I[k])
    <2>1. W[s] = I[s] /\ I[s].refCount > 0
      BY <1>2, <1>3 DEF InfoOK
    <2> QED BY <1>3, <1>4, <2>1 DEF SameLinks
  <1>6. /\ DOMAIN R = IF J[s].refCount = 0 THEN D \ {s} ELSE D
        /\ \A k \in DOMAIN R : R[k] = J[k]
    BY <1>4 DEF Remains, Without, RestrictDomain, Restrict
  <1>7. R \in [DOMAIN R -> InfoType]
    <2>1. CASE J[s].refCount = 0
      BY <1>4, <1>5, <2>1 DEF Remains, Without, RestrictDomain, Restrict
    <2>2. CASE J[s].refCount # 0
      BY <1>4, <1>5, <2>2 DEF Remains
    <2> QED BY <2>1, <2>2
  <1> HIDE DEF R
  <1>8. \A k \in DOMAIN R : k \in DOMAIN I /\ k # j /\ SameLinks(R, I, k) /\ R[k].res = I[k].res
    BY <1>5, <1>6 DEF SameLinks
  <1>9. /\ MapsOf(I, s) \subseteq DOMAIN I /\ j \in MapsOf(I, s)
        /\ Cardinality(MapsOf(I, s)) \in Nat /\ Cardinality(MapsOf(I, s)) > 0
        /\ Cardinality(MapsOf(I, s) \ {j}) = Cardinality(MapsOf(I, s)) - 1
        /\ Cardinality(MapsOf(I, s) \ {j}) \in Nat
        /\ Cardinality(MapsOf(I, s) \ {j}) = 0 => MapsOf(I, s) = {j}
    <2>1. MapsOf(I, s) \subseteq DOMAIN I /\ j \in MapsOf(I, s)
      BY DEF MapsOf, s
    <2>2. IsFiniteSet(MapsOf(I, s))
      BY <1>1, <2>1, CountPart
    <2>3. /\ Cardinality(MapsOf(I, s)) \in Nat /\ Cardinality(MapsOf(I, s)) > 0
          /\ Cardinality(MapsOf(I, s) \ {j}) = Cardinality(MapsOf(I, s)) - 1
          /\ IsFiniteSet(MapsOf(I, s) \ {j})
      BY <2>1, <2>2, CountDrop
    <2>4. Cardinality(MapsOf(I, s) \ {j}) = 0 => MapsOf(I, s) \ {j} = {}
      BY <2>3, FS_EmptySet
    <2> QED BY <2>1, <2>3, <2>4
  <1>10. J[s].refCount = (IF s \in K THEN 1 ELSE 0) + Cardinality(MapsOf(I, s) \ {j})
    BY <1>2, <1>5, <1>9 DEF InfoOK
  <1>11. J[s].refCount = 0 => s \notin K /\ MapsOf(I, s) = {j}
    BY <1>9, <1>10
  <1>12. \A k \in DOMAIN R : MapsOf(R, k) = MapsOf(I, k) \ {j}
    <2>1. ASSUME NEW k \in DOMAIN R, NEW n \in DOMAIN I, n # j, n \notin DOMAIN R
          PROVE  I[n].memType # "MAPPED"
      BY <1>2, <1>6, <2>1 DEF Clients
    <2> QED BY <1>8, <2>1 DEF MapsOf, SameLinks
  <1>13. ASSUME NEW k \in DOMAIN R, k # s PROVE InfoOK(R, K \ {j}, k)
    <2>1. /\ k \in DOMAIN I /\ k # j /\ InfoOK(I, K, k) /\ SameLinks(R, I, k) /\ R[k].res = I[k].res
          /\ R[k].refCount = I[k].refCount
      BY <1>1, <1>5, <1>6, <1>8, <1>13
    <2>2. MapsOf(R, k) = MapsOf(I, k)
      <3>1. j \notin MapsOf(I, k)
        BY <1>13 DEF MapsOf, s
      <3> QED BY <1>12, <3>1
    <2>3. I[k].memType = "MAPPED" => I[k].src \in DOMAIN R /\ R[I[k].src].memType \in Clients
      <3>1. ASSUME I[k].memType = "MAPPED" PROVE I[k].src \in DOMAIN R
        <4>1. I[k].src \in DOMAIN I /\ I[I[k].src].memType \in Clients
          BY <2>1, <3>1 DEF InfoOK
        <4>2. I[k].src # j
          BY <4>1 DEF Clients
        <4>3. J[s].refCount = 0 => I[k].src # s
          BY <1>11, <2>1, <3>1 DEF MapsOf
        <4> QED BY <1>6, <4>1, <4>2, <4>3
      <3> QED BY <1>8, <2>1, <3>1 DEF InfoOK, SameLinks
    <2> QED BY <2>1, <2>2, <2>3 DEF InfoOK, SameLinks
  <1>14. ASSUME s \in DOMAIN R PROVE InfoOK(R, K \ {j}, s)
    <2>1. /\ SameLinks(R, I, s) /\ R[s].res = I[s].res /\ MapsOf(R, s) = MapsOf(I, s) \ {j}
          /\ R[s].refCount = J[s].refCount /\ J[s].refCount # 0
      BY <1>6, <1>8, <1>12, <1>14
    <2>2. R[s].refCount = (IF s \in K \ {j} THEN 1 ELSE 0) + Cardinality(MapsOf(R, s))
      BY <1>2, <1>10, <2>1
    <2>3. R[s].refCount > 0
      BY <1>9, <1>10, <2>1
    <2> QED BY <1>2, <2>1, <2>2, <2>3 DEF InfoOK, SameLinks, Clients
  <1>15. IsFiniteSet(DOMAIN R) /\ DOMAIN R \subseteq Ids /\ K \ {j} \subseteq DOMAIN R
    BY <1>1, <1>6, <1>11, FS_Subset
  <1>16. InfosOK(R, K \ {j})
    BY <1>7, <1>13, <1>14, <1>15 DEF InfosOK
  <1>17. Mapped(R) = Mapped(I) \ {j} /\ j \in Mapped(I)
    <2>1. \A n \in DOMAIN I : n # j /\ n \notin DOMAIN R => I[n].memType # "MAPPED"
      BY <1>2, <1>6 DEF Clients
    <2> QED BY <1>8, <2>1 DEF Mapped, SameLinks
  <1>18. DOMAIN R = IF J[s].refCount = 0 THEN DOMAIN I \ {j, s} ELSE DOMAIN I \ {j}
    BY <1>6
  <1>19. SameLinks(J, W, s) /\ W[s] = I[s]
    BY <1>2, <1>3, <1>4
  <1> QED BY <1>2, <1>3, <1>4, <1>8, <1>11, <1>16, <1>17, <1>18, <1>19 DEF R, J, W, s

-----------------------------------------------------------------------------
(* Buffers and their counts.                                                *)

(* What never changes about a buffer.                                       *)
SameBufs(B, C) == \A b \in DOMAIN C : b \in DOMAIN B =>
    /\ C[b].kind = B[b].kind /\ C[b].ctx = B[b].ctx
    /\ C[b].addr = B[b].addr /\ C[b].size = B[b].size

(* The counts speak of the buffers and the sources of the infos alone.      *)
LEMMA BufsFrame ==
    ASSUME NEW I, NEW L, NEW B, NEW K, NEW J, BufsOK(I, B, K, J),
           \A k \in K : L[k].buf = I[k].buf,
           \A j \in J : L[j].src = I[j].src /\ L[I[j].src].buf = I[I[j].src].buf
    PROVE  BufsOK(L, B, K, J)
  <1>1. \A b : Holding(L, K, b) = Holding(I, K, b) /\ Exports(L, J, b) = Exports(I, J, b)
    BY DEF Holding, Exports
  <1>2. \A b \in DOMAIN B : BufOK(L, B, K, J, b)
    BY <1>1 DEF BufsOK, BufOK
  <1> QED BY <1>2 DEF BufsOK

(* A count of a buffer goes up or down.                                     *)
LEMMA BufChanged ==
    ASSUME NEW B, B \in [DOMAIN B -> BufType], NEW b \in DOMAIN B
    PROVE  /\ LET C == MoreRefs(B, b)
              IN  /\ C \in [DOMAIN B -> BufType] /\ SameBufs(B, C)
                  /\ C[b].refCount = B[b].refCount + 1 /\ C[b].exportCount = B[b].exportCount
                  /\ C[b].devMapped = B[b].devMapped
                  /\ \A c \in DOMAIN B : c # b => C[c] = B[c]
           /\ LET C == MoreExports(B, b)
              IN  /\ C \in [DOMAIN B -> BufType] /\ SameBufs(B, C)
                  /\ C[b].refCount = B[b].refCount /\ C[b].exportCount = B[b].exportCount + 1
                  /\ C[b].devMapped = B[b].devMapped
                  /\ \A c \in DOMAIN B : c # b => C[c] = B[c]
  <1>1. MoreRefs(B, b) \in [DOMAIN B -> BufType]
    BY DEF MoreRefs, BufType
  <1>2. MoreExports(B, b) \in [DOMAIN B -> BufType]
    BY DEF MoreExports, BufType
  <1>3. LET C == MoreRefs(B, b)
        IN  /\ SameBufs(B, C)
            /\ C[b].refCount = B[b].refCount + 1 /\ C[b].exportCount = B[b].exportCount
            /\ C[b].devMapped = B[b].devMapped
            /\ \A c \in DOMAIN B : c # b => C[c] = B[c]
    BY DEF MoreRefs, BufType, SameBufs
  <1>4. LET C == MoreExports(B, b)
        IN  /\ SameBufs(B, C)
            /\ C[b].refCount = B[b].refCount /\ C[b].exportCount = B[b].exportCount + 1
            /\ C[b].devMapped = B[b].devMapped
            /\ \A c \in DOMAIN B : c # b => C[c] = B[c]
    BY DEF MoreExports, BufType, SameBufs
  <1> QED BY <1>1, <1>2, <1>3, <1>4

(* Dropping a reference: the buffer goes with the last one, unless it is
   exported, and then it is mapped for the device no more.                  *)
LEMMA BufDropped ==
    ASSUME NEW B, B \in [DOMAIN B -> BufType], NEW b \in DOMAIN B, B[b].refCount > 0
    PROVE  LET C == DropRef(B, b)
           IN  /\ DOMAIN C = IF B[b].refCount = 1 /\ B[b].exportCount = 0
                             THEN DOMAIN B \ {b} ELSE DOMAIN B
               /\ C \in [DOMAIN C -> BufType] /\ SameBufs(B, C)
               /\ \A c \in DOMAIN C : c # b => C[c] = B[c]
               /\ b \in DOMAIN C => /\ C[b].refCount = B[b].refCount - 1
                                    /\ C[b].exportCount = B[b].exportCount
                                    /\ C[b].refCount > 0 => C[b].devMapped = B[b].devMapped
  <1> DEFINE N == FewerRefs(B, b)
             C == DropRef(B, b)
             n == B[b].refCount - 1
  <1>1. n \in Nat /\ B[b] \in BufType
    BY DEF BufType
  <1>2. N = [B EXCEPT ![b].refCount = n]
    BY DEF FewerRefs
  <1>3. n = B[b].refCount - 1 OBVIOUS
  <1> HIDE DEF n, N
  <1>4. /\ N \in [DOMAIN B -> BufType] /\ SameBufs(B, N)
        /\ N[b].refCount = n /\ N[b].exportCount = B[b].exportCount
        /\ N[b].devMapped = B[b].devMapped
        /\ \A c \in DOMAIN B : c # b => N[c] = B[c]
    <2>1. N \in [DOMAIN B -> BufType]
      BY <1>1, <1>2 DEF BufType
    <2> QED BY <1>1, <1>2, <2>1 DEF BufType, SameBufs
  <1>5. CASE n > 0
    <2>1. C = N
      BY <1>4, <1>5 DEF DropRef, N
    <2> QED BY <1>3, <1>4, <1>5, <2>1
  <1>6. CASE n = 0 /\ B[b].exportCount = 0
    <2>1. C = Without(N, b)
      BY <1>4, <1>6 DEF DropRef, FreedLast, N
    <2>2. DOMAIN C = DOMAIN B \ {b} /\ C = [c \in DOMAIN B \ {b} |-> N[c]]
      BY <1>4, <2>1 DEF Without, RestrictDomain, Restrict
    <2> HIDE DEF C
    <2> QED BY <1>3, <1>4, <1>6, <2>2 DEF C, SameBufs
  <1>7. CASE n = 0 /\ B[b].exportCount # 0
    <2> DEFINE x == N[b].devMapped /\ N[b].kind = "ram"
    <2>1. C = [N EXCEPT ![b].devMapped = x]
      BY <1>4, <1>7 DEF DropRef, FreedLast, N
    <2>2. x \in BOOLEAN
      OBVIOUS
    <2> HIDE DEF C, x
    <2>3. C \in [DOMAIN B -> BufType]
      BY <1>4, <2>1, <2>2 DEF BufType
    <2>4. \A c \in DOMAIN B : c # b => C[c] = N[c]
      BY <1>4, <2>1
    <2>5. /\ C[b].kind = N[b].kind /\ C[b].ctx = N[b].ctx /\ C[b].addr = N[b].addr
          /\ C[b].size = N[b].size /\ C[b].refCount = n /\ C[b].exportCount = N[b].exportCount
      BY <1>4, <2>1 DEF BufType
    <2> QED BY <1>3, <1>4, <1>7, <2>3, <2>4, <2>5 DEF C, SameBufs
  <1>8. B[b].exportCount \in Nat
    BY <1>1 DEF BufType
  <1> QED BY <1>1, <1>5, <1>6, <1>7, <1>8

(* Dropping an export.                                                      *)
LEMMA BufUnexported ==
    ASSUME NEW B, B \in [DOMAIN B -> BufType], NEW b \in DOMAIN B, B[b].exportCount > 0
    PROVE  LET C == DropExport(B, b)
           IN  /\ DOMAIN C = IF B[b].exportCount = 1 /\ B[b].refCount = 0
                             THEN DOMAIN B \ {b} ELSE DOMAIN B
               /\ C \in [DOMAIN C -> BufType] /\ SameBufs(B, C)
               /\ \A c \in DOMAIN C : c # b => C[c] = B[c]
               /\ b \in DOMAIN C => /\ C[b].refCount = B[b].refCount
                                    /\ C[b].exportCount = B[b].exportCount - 1
                                    /\ C[b].devMapped = B[b].devMapped
  <1> DEFINE N == FewerExports(B, b)
             C == DropExport(B, b)
             n == B[b].exportCount - 1
  <1>1. n \in Nat /\ B[b] \in BufType
    BY DEF BufType
  <1>2. N = [B EXCEPT ![b].exportCount = n]
    BY DEF FewerExports
  <1>3. n = B[b].exportCount - 1 OBVIOUS
  <1> HIDE DEF n, N
  <1>4. /\ N \in [DOMAIN B -> BufType] /\ SameBufs(B, N)
        /\ N[b].exportCount = n /\ N[b].refCount = B[b].refCount
        /\ N[b].devMapped = B[b].devMapped
        /\ \A c \in DOMAIN B : c # b => N[c] = B[c]
    <2>1. N \in [DOMAIN B -> BufType]
      BY <1>1, <1>2 DEF BufType
    <2> QED BY <1>1, <1>2, <2>1 DEF BufType, SameBufs
  <1>5. CASE n = 0 /\ B[b].refCount = 0
    <2>1. C = Without(N, b)
      BY <1>4, <1>5 DEF DropExport, FreedExport, N
    <2>2. DOMAIN C = DOMAIN B \ {b} /\ C = [c \in DOMAIN B \ {b} |-> N[c]]
      BY <1>4, <2>1 DEF Without, RestrictDomain, Restrict
    <2> HIDE DEF C
    <2> QED BY <1>3, <1>4, <1>5, <2>2 DEF C, SameBufs
  <1>6. CASE n # 0 \/ B[b].refCount # 0
    <2> DEFINE x == N[b].devMapped /\ TRUE
    <2>1. C = [N EXCEPT ![b].devMapped = x]
      BY <1>4, <1>6 DEF DropExport, FreedExport, N
    <2>2. x \in BOOLEAN
      OBVIOUS
    <2>3. x = N[b].devMapped
      BY <1>4 DEF BufType
    <2> HIDE DEF C, x
    <2>4. C \in [DOMAIN B -> BufType]
      BY <1>4, <2>1, <2>2 DEF BufType
    <2>5. \A c \in DOMAIN B : c # b => C[c] = N[c]
      BY <1>4, <2>1
    <2>6. /\ C[b].kind = N[b].kind /\ C[b].ctx = N[b].ctx /\ C[b].addr = N[b].addr
          /\ C[b].size = N[b].size /\ C[b].exportCount = n /\ C[b].refCount = N[b].refCount
      BY <1>4, <2>1 DEF BufType
    <2>7. C[b].devMapped = N[b].devMapped
      BY <1>4, <2>1, <2>3 DEF BufType
    <2> QED BY <1>3, <1>4, <1>6, <2>4, <2>5, <2>6, <2>7 DEF C, SameBufs
  <1> QED BY <1>1, <1>3, <1>5, <1>6

(* Someone gives up a buffer he has in hand.                                *)
LEMMA BufsDrop ==
    ASSUME NEW I, NEW B, NEW K, NEW J, BufsOK(I, B, K, J), NEW k \in K
    PROVE  LET C == DropRef(B, I[k].buf)
           IN  /\ BufsOK(I, C, K \ {k}, J) /\ SameBufs(B, C) /\ DOMAIN C \subseteq DOMAIN B
               /\ I[k].buf \in DOMAIN B /\ B[I[k].buf].refCount > 0
  <1> DEFINE b == I[k].buf
             C == DropRef(B, b)
  <1>1. /\ IsFiniteSet(K) /\ IsFiniteSet(J) /\ B \in [DOMAIN B -> BufType]
        /\ DOMAIN B \subseteq Ids /\ b \in DOMAIN B /\ BufOK(I, B, K, J, b)
        /\ \A n \in K : I[n].buf \in DOMAIN B
        /\ \A n \in J : I[I[n].src].buf \in DOMAIN B
        /\ \A c \in DOMAIN B : BufOK(I, B, K, J, c)
    BY DEF BufsOK
  <1> HIDE DEF b
  <1>2. /\ IsFiniteSet(Holding(I, K, b)) /\ k \in Holding(I, K, b)
        /\ Cardinality(Holding(I, K, b)) \in Nat /\ Cardinality(Holding(I, K, b)) > 0
        /\ Holding(I, K \ {k}, b) = Holding(I, K, b) \ {k}
        /\ Cardinality(Holding(I, K \ {k}, b)) = Cardinality(Holding(I, K, b)) - 1
    <2>1. Holding(I, K, b) \subseteq K /\ k \in Holding(I, K, b)
      BY DEF Holding, b
    <2>2. IsFiniteSet(Holding(I, K, b))
      BY <1>1, <2>1, CountPart
    <2>3. Holding(I, K \ {k}, b) = Holding(I, K, b) \ {k}
      BY DEF Holding
    <2> QED BY <2>1, <2>2, <2>3, CountDrop
  <1>3. /\ Exports(I, J, b) \subseteq J /\ Cardinality(Exports(I, J, b)) \in Nat
        /\ Cardinality(Exports(I, J, b)) = 0 <=> Exports(I, J, b) = {}
    <2>1. Exports(I, J, b) \subseteq J
      BY DEF Exports
    <2> QED BY <1>1, <2>1, CountPart
  <1>4. B[b].refCount > 0
    BY <1>1, <1>2 DEF BufOK
  <1>5. /\ DOMAIN C = IF B[b].refCount = 1 /\ B[b].exportCount = 0
                      THEN DOMAIN B \ {b} ELSE DOMAIN B
        /\ C \in [DOMAIN C -> BufType] /\ SameBufs(B, C)
        /\ \A c \in DOMAIN C : c # b => C[c] = B[c]
        /\ b \in DOMAIN C => /\ C[b].refCount = B[b].refCount - 1
                             /\ C[b].exportCount = B[b].exportCount
                             /\ C[b].refCount > 0 => C[b].devMapped = B[b].devMapped
    BY <1>1, <1>4, BufDropped
  <1> HIDE DEF C
  <1>6. ASSUME NEW c \in DOMAIN C, c # b PROVE BufOK(I, C, K \ {k}, J, c)
    <2>1. Holding(I, K \ {k}, c) = Holding(I, K, c)
      BY <1>6 DEF Holding, b
    <2>2. c \in DOMAIN B /\ C[c] = B[c]
      BY <1>5, <1>6
    <2> QED BY <1>1, <2>1, <2>2 DEF BufOK
  <1>7. ASSUME b \in DOMAIN C PROVE BufOK(I, C, K \ {k}, J, b)
    <2>1. ~(B[b].refCount = 1 /\ B[b].exportCount = 0)
      BY <1>5, <1>7
    <2>2. /\ C[b].refCount = Cardinality(Holding(I, K \ {k}, b))
          /\ C[b].exportCount = Cardinality(Exports(I, J, b))
      BY <1>1, <1>2, <1>5, <1>7 DEF BufOK
    <2>3. C[b].refCount + C[b].exportCount > 0
      BY <1>1, <1>2, <1>3, <1>5, <1>7, <2>1 DEF BufOK
    <2>4. C[b].refCount > 0 => C[b].devMapped \/ C[b].ctx = Nil
      <3>1. C[b].ctx = B[b].ctx
        BY <1>1, <1>4, <1>5, <1>7 DEF SameBufs
      <3> QED BY <1>1, <1>4, <1>5, <1>7, <3>1 DEF BufOK
    <2> QED BY <2>2, <2>3, <2>4 DEF BufOK
  <1>8. b \notin DOMAIN C => Holding(I, K \ {k}, b) = {} /\ Exports(I, J, b) = {}
    <2> SUFFICES ASSUME b \notin DOMAIN C
                 PROVE  Holding(I, K \ {k}, b) = {} /\ Exports(I, J, b) = {}
      OBVIOUS
    <2>1. B[b].refCount = 1 /\ B[b].exportCount = 0
      BY <1>1, <1>5
    <2>2. IsFiniteSet(Holding(I, K \ {k}, b))
      BY <1>2, FS_Subset
    <2>3. Cardinality(Holding(I, K \ {k}, b)) = 0
      BY <1>1, <1>2, <2>1 DEF BufOK
    <2>4. Holding(I, K \ {k}, b) = {}
      BY <2>2, <2>3, FS_EmptySet
    <2> QED BY <1>1, <1>3, <2>1, <2>4 DEF BufOK
  <1>9. \A n \in K \ {k} : I[n].buf \in DOMAIN C
    BY <1>1, <1>5, <1>8 DEF Holding
  <1>10. \A n \in J : I[I[n].src].buf \in DOMAIN C
    BY <1>1, <1>5, <1>8 DEF Exports
  <1>11. IsFiniteSet(K \ {k})
    BY <1>1, FS_Subset
  <1>12. DOMAIN C \subseteq DOMAIN B
    BY <1>5
  <1>13. \A c \in DOMAIN C : BufOK(I, C, K \ {k}, J, c)
    BY <1>6, <1>7
  <1>14. BufsOK(I, C, K \ {k}, J)
    BY <1>1, <1>5, <1>9, <1>10, <1>11, <1>12, <1>13 DEF BufsOK
  <1> QED BY <1>1, <1>4, <1>5, <1>12, <1>14 DEF C, b

(* A mapping of a buffer is gone.                                           *)
LEMMA BufsUnexport ==
    ASSUME NEW I, NEW B, NEW K, NEW J, BufsOK(I, B, K, J), NEW j \in J
    PROVE  LET C == DropExport(B, I[I[j].src].buf)
           IN  /\ BufsOK(I, C, K, J \ {j}) /\ SameBufs(B, C) /\ DOMAIN C \subseteq DOMAIN B
               /\ I[I[j].src].buf \in DOMAIN B /\ B[I[I[j].src].buf].exportCount > 0
  <1> DEFINE b == I[I[j].src].buf
             C == DropExport(B, b)
  <1>1. /\ IsFiniteSet(K) /\ IsFiniteSet(J) /\ B \in [DOMAIN B -> BufType]
        /\ DOMAIN B \subseteq Ids /\ b \in DOMAIN B /\ BufOK(I, B, K, J, b)
        /\ \A n \in K : I[n].buf \in DOMAIN B
        /\ \A n \in J : I[I[n].src].buf \in DOMAIN B
        /\ \A c \in DOMAIN B : BufOK(I, B, K, J, c)
    BY DEF BufsOK
  <1> HIDE DEF b
  <1>2. /\ IsFiniteSet(Exports(I, J, b)) /\ j \in Exports(I, J, b)
        /\ Cardinality(Exports(I, J, b)) \in Nat /\ Cardinality(Exports(I, J, b)) > 0
        /\ Exports(I, J \ {j}, b) = Exports(I, J, b) \ {j}
        /\ Cardinality(Exports(I, J \ {j}, b)) = Cardinality(Exports(I, J, b)) - 1
    <2>1. Exports(I, J, b) \subseteq J /\ j \in Exports(I, J, b)
      BY DEF Exports, b
    <2>2. IsFiniteSet(Exports(I, J, b))
      BY <1>1, <2>1, CountPart
    <2>3. Exports(I, J \ {j}, b) = Exports(I, J, b) \ {j}
      BY DEF Exports
    <2> QED BY <2>1, <2>2, <2>3, CountDrop
  <1>3. /\ Holding(I, K, b) \subseteq K /\ Cardinality(Holding(I, K, b)) \in Nat
        /\ Cardinality(Holding(I, K, b)) = 0 <=> Holding(I, K, b) = {}
    <2>1. Holding(I, K, b) \subseteq K
      BY DEF Holding
    <2> QED BY <1>1, <2>1, CountPart
  <1>4. B[b].exportCount > 0
    BY <1>1, <1>2 DEF BufOK
  <1>5. /\ DOMAIN C = IF B[b].exportCount = 1 /\ B[b].refCount = 0
                      THEN DOMAIN B \ {b} ELSE DOMAIN B
        /\ C \in [DOMAIN C -> BufType] /\ SameBufs(B, C)
        /\ \A c \in DOMAIN C : c # b => C[c] = B[c]
        /\ b \in DOMAIN C => /\ C[b].refCount = B[b].refCount
                             /\ C[b].exportCount = B[b].exportCount - 1
                             /\ C[b].devMapped = B[b].devMapped
    BY <1>1, <1>4, BufUnexported
  <1> HIDE DEF C
  <1>6. ASSUME NEW c \in DOMAIN C, c # b PROVE BufOK(I, C, K, J \ {j}, c)
    <2>1. Exports(I, J \ {j}, c) = Exports(I, J, c)
      BY <1>6 DEF Exports, b
    <2>2. c \in DOMAIN B /\ C[c] = B[c]
      BY <1>5, <1>6
    <2> QED BY <1>1, <2>1, <2>2 DEF BufOK
  <1>7. ASSUME b \in DOMAIN C PROVE BufOK(I, C, K, J \ {j}, b)
    <2>1. ~(B[b].exportCount = 1 /\ B[b].refCount = 0)
      BY <1>5, <1>7
    <2>2. /\ C[b].refCount = Cardinality(Holding(I, K, b))
          /\ C[b].exportCount = Cardinality(Exports(I, J \ {j}, b))
      BY <1>1, <1>2, <1>5, <1>7 DEF BufOK
    <2>3. C[b].refCount + C[b].exportCount > 0
      BY <1>1, <1>2, <1>3, <1>5, <1>7, <2>1 DEF BufOK
    <2>4. C[b].refCount > 0 => C[b].devMapped \/ C[b].ctx = Nil
      <3>1. C[b].ctx = B[b].ctx
        BY <1>1, <1>5, <1>7 DEF SameBufs
      <3> QED BY <1>1, <1>5, <1>7, <3>1 DEF BufOK
    <2> QED BY <2>2, <2>3, <2>4 DEF BufOK
  <1>8. b \notin DOMAIN C => Exports(I, J \ {j}, b) = {} /\ Holding(I, K, b) = {}
    <2> SUFFICES ASSUME b \notin DOMAIN C
                 PROVE  Exports(I, J \ {j}, b) = {} /\ Holding(I, K, b) = {}
      OBVIOUS
    <2>1. B[b].exportCount = 1 /\ B[b].refCount = 0
      BY <1>1, <1>5
    <2>2. IsFiniteSet(Exports(I, J \ {j}, b))
      BY <1>2, FS_Subset
    <2>3. Cardinality(Exports(I, J \ {j}, b)) = 0
      BY <1>1, <1>2, <2>1 DEF BufOK
    <2>4. Exports(I, J \ {j}, b) = {}
      BY <2>2, <2>3, FS_EmptySet
    <2> QED BY <1>1, <1>3, <2>1, <2>4 DEF BufOK
  <1>9. \A n \in J \ {j} : I[I[n].src].buf \in DOMAIN C
    BY <1>1, <1>5, <1>8 DEF Exports
  <1>10. \A n \in K : I[n].buf \in DOMAIN C
    BY <1>1, <1>5, <1>8 DEF Holding
  <1>11. IsFiniteSet(J \ {j})
    BY <1>1, FS_Subset
  <1>12. DOMAIN C \subseteq DOMAIN B
    BY <1>5
  <1>13. \A c \in DOMAIN C : BufOK(I, C, K, J \ {j}, c)
    BY <1>6, <1>7
  <1>14. BufsOK(I, C, K, J \ {j})
    BY <1>1, <1>5, <1>9, <1>10, <1>11, <1>12, <1>13 DEF BufsOK
  <1> QED BY <1>1, <1>4, <1>5, <1>12, <1>14 DEF C, b

(* An info that is new in somebody's hands has a buffer that BM_Wrap found,
   or one of its own.                                                      *)
LEMMA BufsMore ==
    ASSUME NEW I, NEW B, NEW K, NEW J, BufsOK(I, B, K, J), NEW k, k \notin K,
           I[k].buf \in DOMAIN B, B[I[k].buf].refCount > 0
    PROVE  LET C == MoreRefs(B, I[k].buf)
           IN  BufsOK(I, C, K \cup {k}, J) /\ SameBufs(B, C) /\ DOMAIN C = DOMAIN B
  <1> DEFINE b == I[k].buf
             C == MoreRefs(B, b)
  <1>1. /\ IsFiniteSet(K) /\ IsFiniteSet(J) /\ B \in [DOMAIN B -> BufType]
        /\ DOMAIN B \subseteq Ids /\ b \in DOMAIN B /\ BufOK(I, B, K, J, b)
        /\ \A n \in K : I[n].buf \in DOMAIN B
        /\ \A n \in J : I[I[n].src].buf \in DOMAIN B
        /\ \A c \in DOMAIN B : BufOK(I, B, K, J, c)
    BY DEF BufsOK
  <1>2. I[k].buf = b /\ B[b].refCount > 0
    OBVIOUS
  <1> HIDE DEF b
  <1>3. /\ C \in [DOMAIN B -> BufType] /\ SameBufs(B, C)
        /\ C[b].refCount = B[b].refCount + 1 /\ C[b].exportCount = B[b].exportCount
        /\ C[b].devMapped = B[b].devMapped
        /\ \A c \in DOMAIN B : c # b => C[c] = B[c]
    BY <1>1, BufChanged
  <1> HIDE DEF C
  <1>4. \A c \in DOMAIN B : c # b => Holding(I, K \cup {k}, c) = Holding(I, K, c)
    BY <1>2 DEF Holding
  <1>5. /\ Cardinality(Holding(I, K, b)) \in Nat
        /\ Cardinality(Holding(I, K \cup {k}, b)) = Cardinality(Holding(I, K, b)) + 1
    <2>1. Holding(I, K, b) \subseteq K /\ k \notin Holding(I, K, b)
      BY DEF Holding
    <2>2. Holding(I, K \cup {k}, b) = Holding(I, K, b) \cup {k}
      BY <1>2 DEF Holding
    <2> QED BY <1>1, <2>1, <2>2, CountAdd, CountPart
  <1>6. \A c \in DOMAIN B : c # b => BufOK(I, C, K \cup {k}, J, c)
    BY <1>1, <1>3, <1>4 DEF BufOK
  <1>7. BufOK(I, C, K \cup {k}, J, b)
    <2>1. B[b].exportCount \in Nat
      BY <1>1 DEF BufType
    <2>2. /\ C[b].refCount = Cardinality(Holding(I, K \cup {k}, b))
          /\ C[b].exportCount = Cardinality(Exports(I, J, b))
      BY <1>1, <1>3, <1>5 DEF BufOK
    <2>3. C[b].refCount + C[b].exportCount > 0
      BY <1>1, <1>2, <1>3, <1>5, <2>1 DEF BufOK
    <2>4. C[b].devMapped \/ C[b].ctx = Nil
      <3>1. C[b].ctx = B[b].ctx
        BY <1>2, <1>3 DEF SameBufs
      <3> QED BY <1>1, <1>2, <1>3, <3>1 DEF BufOK
    <2> QED BY <2>2, <2>3, <2>4 DEF BufOK
  <1>8. IsFiniteSet(K \cup {k})
    BY <1>1, FS_AddElement
  <1>9. DOMAIN C = DOMAIN B
    BY <1>3
  <1>10. \A c \in DOMAIN C : BufOK(I, C, K \cup {k}, J, c)
    BY <1>6, <1>7, <1>9
  <1>11. BufsOK(I, C, K \cup {k}, J)
    BY <1>1, <1>2, <1>3, <1>8, <1>9, <1>10 DEF BufsOK
  <1> QED BY <1>3, <1>9, <1>11 DEF C, b

(* A new buffer, which one has in hand.                                     *)
NewBuf(r) == r \in BufType /\ r.refCount = 1 /\ r.exportCount = 0 /\ r.devMapped
BufIsNew(I, B, C, K, k, r) ==
    /\ k \notin K /\ I[k].buf \in Ids /\ I[k].buf \notin DOMAIN B
    /\ NewBuf(r) /\ C = Put(B, I[k].buf, r)
BufMade(I, B, C, K, J, k, r) ==
    /\ BufsOK(I, C, K \cup {k}, J) /\ SameBufs(B, C)
    /\ DOMAIN C = DOMAIN B \cup {I[k].buf} /\ C[I[k].buf] = r

(* A new buffer counts the info it was made for.                           *)
LEMMA BufsNew ==
    ASSUME NEW I, NEW B, NEW K, NEW J, BufsOK(I, B, K, J),
           NEW C, NEW k, NEW r, BufIsNew(I, B, C, K, k, r)
    PROVE  BufMade(I, B, C, K, J, k, r)
  <1> DEFINE b == I[k].buf
  <1>1. /\ IsFiniteSet(K) /\ IsFiniteSet(J) /\ B \in [DOMAIN B -> BufType]
        /\ DOMAIN B \subseteq Ids
        /\ \A n \in K : I[n].buf \in DOMAIN B
        /\ \A n \in J : I[I[n].src].buf \in DOMAIN B
        /\ \A c \in DOMAIN B : BufOK(I, B, K, J, c)
    BY DEF BufsOK
  <1>2. /\ I[k].buf = b /\ b \in Ids /\ b \notin DOMAIN B /\ k \notin K
        /\ NewBuf(r) /\ C = Put(B, b, r)
    BY DEF BufIsNew
  <1> HIDE DEF BufMade, b
  <1>3. DOMAIN C = DOMAIN B \cup {b} /\ C[b] = r /\ \A c \in DOMAIN B : C[c] = B[c]
    BY <1>2 DEF Put
  <1>4. C \in [DOMAIN C -> BufType]
    BY <1>1, <1>2, <1>3 DEF Put, NewBuf
  <1>5. SameBufs(B, C)
    BY <1>3 DEF SameBufs
  <1>6. \A c \in DOMAIN B : Holding(I, K \cup {k}, c) = Holding(I, K, c)
    BY <1>2 DEF Holding
  <1>7. Holding(I, K \cup {k}, b) = {k} /\ Exports(I, J, b) = {}
    BY <1>1, <1>2 DEF Holding, Exports
  <1>8. \A c \in DOMAIN B : BufOK(I, C, K \cup {k}, J, c)
    BY <1>1, <1>3, <1>6 DEF BufOK
  <1>9. BufOK(I, C, K \cup {k}, J, b)
    <2>1. Cardinality(Holding(I, K \cup {k}, b)) = 1
      BY <1>7, FS_Singleton
    <2>2. Cardinality(Exports(I, J, b)) = 0
      BY <1>7, FS_EmptySet
    <2> QED BY <1>2, <1>3, <2>1, <2>2 DEF BufOK, NewBuf
  <1>10. IsFiniteSet(K \cup {k})
    BY <1>1, FS_AddElement
  <1>11. \A c \in DOMAIN C : BufOK(I, C, K \cup {k}, J, c)
    BY <1>3, <1>8, <1>9
  <1>12. BufsOK(I, C, K \cup {k}, J)
    BY <1>1, <1>2, <1>3, <1>4, <1>10, <1>11 DEF BufsOK
  <1> QED BY <1>3, <1>5, <1>12 DEF BufMade, b

(* A new mapping exports the buffer of its source.                          *)
LEMMA BufsExport ==
    ASSUME NEW I, NEW B, NEW K, NEW J, BufsOK(I, B, K, J), NEW j, j \notin J,
           I[I[j].src].buf \in DOMAIN B
    PROVE  LET C == MoreExports(B, I[I[j].src].buf)
           IN  BufsOK(I, C, K, J \cup {j}) /\ SameBufs(B, C) /\ DOMAIN C = DOMAIN B
  <1> DEFINE b == I[I[j].src].buf
             C == MoreExports(B, b)
  <1>1. /\ IsFiniteSet(K) /\ IsFiniteSet(J) /\ B \in [DOMAIN B -> BufType]
        /\ DOMAIN B \subseteq Ids /\ b \in DOMAIN B /\ BufOK(I, B, K, J, b)
        /\ \A n \in K : I[n].buf \in DOMAIN B
        /\ \A n \in J : I[I[n].src].buf \in DOMAIN B
        /\ \A c \in DOMAIN B : BufOK(I, B, K, J, c)
    BY DEF BufsOK
  <1>2. I[I[j].src].buf = b
    OBVIOUS
  <1> HIDE DEF b
  <1>3. /\ C \in [DOMAIN B -> BufType] /\ SameBufs(B, C)
        /\ C[b].exportCount = B[b].exportCount + 1 /\ C[b].refCount = B[b].refCount
        /\ C[b].devMapped = B[b].devMapped
        /\ \A c \in DOMAIN B : c # b => C[c] = B[c]
    BY <1>1, BufChanged
  <1> HIDE DEF C
  <1>4. \A c \in DOMAIN B : c # b => Exports(I, J \cup {j}, c) = Exports(I, J, c)
    BY <1>2 DEF Exports
  <1>5. /\ Cardinality(Exports(I, J, b)) \in Nat
        /\ Cardinality(Exports(I, J \cup {j}, b)) = Cardinality(Exports(I, J, b)) + 1
    <2>1. Exports(I, J, b) \subseteq J /\ j \notin Exports(I, J, b)
      BY DEF Exports
    <2>2. Exports(I, J \cup {j}, b) = Exports(I, J, b) \cup {j}
      BY <1>2 DEF Exports
    <2> QED BY <1>1, <2>1, <2>2, CountAdd, CountPart
  <1>6. \A c \in DOMAIN B : c # b => BufOK(I, C, K, J \cup {j}, c)
    BY <1>1, <1>3, <1>4 DEF BufOK
  <1>7. BufOK(I, C, K, J \cup {j}, b)
    <2>1. B[b].refCount \in Nat /\ B[b].exportCount \in Nat
      BY <1>1 DEF BufType
    <2>2. /\ C[b].refCount = Cardinality(Holding(I, K, b))
          /\ C[b].exportCount = Cardinality(Exports(I, J \cup {j}, b))
      BY <1>1, <1>3, <1>5 DEF BufOK
    <2>3. C[b].refCount + C[b].exportCount > 0
      BY <1>3, <2>1
    <2>4. C[b].refCount > 0 => C[b].devMapped \/ C[b].ctx = Nil
      <3>1. C[b].ctx = B[b].ctx
        BY <1>1, <1>2, <1>3 DEF SameBufs
      <3> QED BY <1>1, <1>3, <3>1 DEF BufOK
    <2> QED BY <2>2, <2>3, <2>4 DEF BufOK
  <1>8. IsFiniteSet(J \cup {j})
    BY <1>1, FS_AddElement
  <1>9. DOMAIN C = DOMAIN B
    BY <1>3
  <1>10. \A c \in DOMAIN C : BufOK(I, C, K, J \cup {j}, c)
    BY <1>6, <1>7, <1>9
  <1>11. BufsOK(I, C, K, J \cup {j})
    BY <1>1, <1>2, <1>3, <1>8, <1>9, <1>10 DEF BufsOK
  <1> QED BY <1>3, <1>9, <1>11 DEF C, b

-----------------------------------------------------------------------------
(* Sync infos and their counts.                                             *)

(* The counts speak of the sync infos of the mem infos alone.               *)
LEMMA SyncsFrame ==
    ASSUME NEW I, NEW L, NEW S, NEW f, SyncsOK(I, S, f),
           DOMAIN L = DOMAIN I, \A i \in DOMAIN I : L[i].sync = I[i].sync
    PROVE  SyncsOK(L, S, f)
  <1>1. \A s : UsersOf(L, s) = UsersOf(I, s)
    BY DEF UsersOf
  <1> QED BY <1>1 DEF SyncsOK

(* Once a call has failed the counts need not be exact any more.            *)
LEMMA SyncsInexact ==
    ASSUME NEW I, NEW S, NEW f, NEW g, SyncsOK(I, S, f), g = 0 => f = 0
    PROVE  SyncsOK(I, S, g)
  BY DEF SyncsOK

(* A mem info goes, and lets go of its sync info.                           *)
LEMMA SyncsRemove ==
    ASSUME NEW I, NEW S, NEW f, SyncsOK(I, S, f), IsFiniteSet(DOMAIN I), NEW j \in DOMAIN I
    PROVE  SyncsOK(Without(I, j), Released(S, I[j].sync), f)
  <1> DEFINE s == I[j].sync
             L == Without(I, j)
             T == Released(S, s)
  <1>1. /\ S \in [DOMAIN S -> Nat] /\ DOMAIN S \subseteq Ids
        /\ \A i \in DOMAIN I : I[i].sync \in DOMAIN S \cup {Nil}
        /\ \A c \in DOMAIN S : /\ S[c] > 0 /\ S[c] >= Cardinality(UsersOf(I, c))
                               /\ f = 0 => S[c] = Cardinality(UsersOf(I, c))
    BY DEF SyncsOK
  <1>2. DOMAIN L = DOMAIN I \ {j} /\ \A i \in DOMAIN L : L[i] = I[i]
    BY DEF Without, RestrictDomain, Restrict
  <1>3. \A c : c # s => UsersOf(L, c) = UsersOf(I, c)
    BY <1>2 DEF UsersOf
  <1>4. CASE s = Nil
    <2>1. \A c \in DOMAIN S : c # s
      BY <1>1, <1>4, DeviceMemoryAssumption
    <2>2. T = S
      BY <1>4 DEF Released
    <2> QED BY <1>1, <1>2, <1>3, <2>1, <2>2 DEF SyncsOK
  <1>5. CASE s # Nil
    <2>1. s \in DOMAIN S
      BY <1>1, <1>5
    <2>2. /\ Cardinality(UsersOf(I, s)) \in Nat /\ Cardinality(UsersOf(I, s)) > 0
          /\ IsFiniteSet(UsersOf(L, s))
          /\ Cardinality(UsersOf(L, s)) = Cardinality(UsersOf(I, s)) - 1
          /\ UsersOf(L, s) = UsersOf(I, s) \ {j}
      <3>1. UsersOf(I, s) \subseteq DOMAIN I /\ j \in UsersOf(I, s)
        BY DEF UsersOf
      <3>2. UsersOf(L, s) = UsersOf(I, s) \ {j}
        BY <1>2 DEF UsersOf
      <3>3. IsFiniteSet(UsersOf(I, s))
        BY <3>1, CountPart
      <3> QED BY <3>1, <3>2, <3>3, CountDrop
    <2>3. S[s] \in Nat
      BY <1>1, <2>1
    <2> HIDE DEF s, L
    <2>4. CASE S[s] = 1
      <3>1. T = Without(S, s)
        BY <1>5, <2>4 DEF Released
      <3>2. DOMAIN T = DOMAIN S \ {s} /\ T = [c \in DOMAIN S \ {s} |-> S[c]]
        BY <3>1 DEF Without, RestrictDomain, Restrict
      <3>3. Cardinality(UsersOf(L, s)) = 0
        BY <1>1, <2>1, <2>2, <2>4
      <3>4. UsersOf(L, s) = {}
        BY <2>2, <3>3, FS_EmptySet
      <3>5. \A i \in DOMAIN L : L[i].sync \in DOMAIN T \cup {Nil}
        BY <1>1, <1>2, <3>2, <3>4 DEF UsersOf
      <3> HIDE DEF T
      <3>6. \A c \in DOMAIN T : c \in DOMAIN S /\ c # s /\ T[c] = S[c]
        BY <3>2
      <3>7. T \in [DOMAIN T -> Nat]
        BY <1>1, <3>2
      <3>8. SyncsOK(L, T, f)
        BY <1>1, <1>3, <3>5, <3>6, <3>7 DEF SyncsOK
      <3> QED BY <3>8 DEF L, T, s
    <2>5. CASE S[s] # 1
      <3>1. T = [S EXCEPT ![s] = @ - 1]
        BY <1>5, <2>5 DEF Released
      <3>2. S[s] - 1 \in Nat /\ S[s] - 1 > 0
        BY <1>1, <2>1, <2>3, <2>5
      <3>3. /\ DOMAIN T = DOMAIN S /\ T \in [DOMAIN T -> Nat] /\ T[s] = S[s] - 1
            /\ \A c \in DOMAIN S : c # s => T[c] = S[c]
        BY <1>1, <2>1, <3>1, <3>2
      <3> HIDE DEF T
      <3>4. \A c \in DOMAIN T : c # s => /\ T[c] > 0 /\ T[c] >= Cardinality(UsersOf(L, c))
                                         /\ f = 0 => T[c] = Cardinality(UsersOf(L, c))
        BY <1>1, <1>3, <3>3
      <3>5. /\ T[s] > 0 /\ T[s] >= Cardinality(UsersOf(L, s))
            /\ f = 0 => T[s] = Cardinality(UsersOf(L, s))
        BY <1>1, <2>1, <2>2, <2>3, <3>2, <3>3
      <3>6. \A i \in DOMAIN L : L[i].sync \in DOMAIN T \cup {Nil}
        BY <1>1, <1>2, <3>3
      <3>7. SyncsOK(L, T, f)
        BY <1>1, <3>3, <3>4, <3>5, <3>6 DEF SyncsOK
      <3> QED BY <3>7 DEF L, T, s
    <2> QED BY <2>4, <2>5
  <1> QED BY <1>4, <1>5

(* A new mem info has a new sync info, none, or that of its source.         *)
LEMMA SyncsNew ==
    ASSUME NEW I, NEW S, NEW f, SyncsOK(I, S, f), NEW n, n \notin DOMAIN I, NEW r,
           r.sync \in Ids \ DOMAIN S
    PROVE  SyncsOK(Put(I, n, r), Put(S, r.sync, 1), f)
  <1> DEFINE s == r.sync
             L == Put(I, n, r)
             T == Put(S, s, 1)
  <1>1. /\ S \in [DOMAIN S -> Nat] /\ DOMAIN S \subseteq Ids
        /\ \A i \in DOMAIN I : I[i].sync \in DOMAIN S \cup {Nil}
        /\ \A c \in DOMAIN S : /\ S[c] > 0 /\ S[c] >= Cardinality(UsersOf(I, c))
                               /\ f = 0 => S[c] = Cardinality(UsersOf(I, c))
    BY DEF SyncsOK
  <1>2. DOMAIN L = DOMAIN I \cup {n} /\ L[n] = r /\ \A i \in DOMAIN I : L[i] = I[i]
    BY DEF Put
  <1>3. /\ DOMAIN T = DOMAIN S \cup {s} /\ T[s] = 1 /\ \A c \in DOMAIN S : T[c] = S[c]
        /\ T \in [DOMAIN T -> Nat]
    BY <1>1 DEF Put
  <1>4. r.sync = s /\ s # Nil /\ s \in Ids /\ s \notin DOMAIN S
    BY DeviceMemoryAssumption
  <1> HIDE DEF L, T, s
  <1>5. \A c \in DOMAIN S : UsersOf(L, c) = UsersOf(I, c)
    BY <1>2, <1>4 DEF UsersOf
  <1>6. UsersOf(L, s) = {n}
    BY <1>1, <1>2, <1>4 DEF UsersOf
  <1>7. Cardinality(UsersOf(L, s)) = 1
    BY <1>6, FS_Singleton
  <1>8. SyncsOK(L, T, f)
    BY <1>1, <1>2, <1>3, <1>4, <1>5, <1>7 DEF SyncsOK
  <1> QED BY <1>8 DEF L, T, s

(* A new info without a sync info.                                         *)
LEMMA SyncsNone ==
    ASSUME NEW I, NEW S, NEW f, SyncsOK(I, S, f), NEW n, n \notin DOMAIN I, NEW r, r.sync = Nil
    PROVE  SyncsOK(Put(I, n, r), S, f)
  <1> DEFINE L == Put(I, n, r)
  <1>1. DOMAIN L = DOMAIN I \cup {n} /\ L[n] = r /\ \A i \in DOMAIN I : L[i] = I[i]
    BY DEF Put
  <1> HIDE DEF L
  <1>2. \A c \in DOMAIN S : c # Nil
    BY DeviceMemoryAssumption DEF SyncsOK
  <1>3. \A c \in DOMAIN S : UsersOf(L, c) = UsersOf(I, c)
    BY <1>1, <1>2 DEF UsersOf
  <1>4. SyncsOK(L, S, f)
    BY <1>1, <1>3 DEF SyncsOK
  <1> QED BY <1>4 DEF L

(* A new info that shares a sync info.                                     *)
LEMMA SyncsShare ==
    ASSUME NEW I, NEW S, NEW f, SyncsOK(I, S, f), IsFiniteSet(DOMAIN I), NEW n, n \notin DOMAIN I,
           NEW r, r.sync \in DOMAIN S
    PROVE  SyncsOK(Put(I, n, r), [S EXCEPT ![r.sync] = @ + 1], f)
  <1> DEFINE s == r.sync
             L == Put(I, n, r)
             T == [S EXCEPT ![s] = @ + 1]
  <1>1. /\ S \in [DOMAIN S -> Nat] /\ DOMAIN S \subseteq Ids
        /\ \A i \in DOMAIN I : I[i].sync \in DOMAIN S \cup {Nil}
        /\ \A c \in DOMAIN S : /\ S[c] > 0 /\ S[c] >= Cardinality(UsersOf(I, c))
                               /\ f = 0 => S[c] = Cardinality(UsersOf(I, c))
    BY DEF SyncsOK
  <1>2. DOMAIN L = DOMAIN I \cup {n} /\ L[n] = r /\ \A i \in DOMAIN I : L[i] = I[i]
    BY DEF Put
  <1>3. r.sync = s /\ s \in DOMAIN S /\ S[s] \in Nat
    BY <1>1
  <1>4. /\ DOMAIN T = DOMAIN S /\ T[s] = S[s] + 1 /\ \A c \in DOMAIN S : c # s => T[c] = S[c]
        /\ T \in [DOMAIN T -> Nat]
    BY <1>1, <1>3
  <1> HIDE DEF L, T, s
  <1>5. \A c \in DOMAIN S : c # s => UsersOf(L, c) = UsersOf(I, c)
    BY <1>2, <1>3 DEF UsersOf
  <1>6. /\ Cardinality(UsersOf(I, s)) \in Nat
        /\ Cardinality(UsersOf(L, s)) = Cardinality(UsersOf(I, s)) + 1
    <2>1. UsersOf(I, s) \subseteq DOMAIN I /\ n \notin UsersOf(I, s)
      BY DEF UsersOf
    <2>2. UsersOf(L, s) = UsersOf(I, s) \cup {n}
      BY <1>2, <1>3 DEF UsersOf
    <2> QED BY <2>1, <2>2, CountAdd, CountPart
  <1>7. \A c \in DOMAIN T : c # s => /\ T[c] > 0 /\ T[c] >= Cardinality(UsersOf(L, c))
                                     /\ f = 0 => T[c] = Cardinality(UsersOf(L, c))
    BY <1>1, <1>4, <1>5
  <1>8. /\ T[s] > 0 /\ T[s] >= Cardinality(UsersOf(L, s))
        /\ f = 0 => T[s] = Cardinality(UsersOf(L, s))
    BY <1>1, <1>3, <1>4, <1>6
  <1>9. \A i \in DOMAIN L : L[i].sync \in DOMAIN T \cup {Nil}
    BY <1>1, <1>2, <1>3, <1>4
  <1>10. SyncsOK(L, T, f)
    BY <1>1, <1>4, <1>7, <1>8, <1>9 DEF SyncsOK
  <1> QED BY <1>10 DEF L, T, s

(* A sync info that a failed call leaves behind.                            *)
LEMMA SyncsLeak ==
    ASSUME NEW I, NEW S, NEW f, NEW g, SyncsOK(I, S, f), NEW s \in Ids \ DOMAIN S, g # 0
    PROVE  SyncsOK(I, Put(S, s, 1), g)
  <1> DEFINE T == Put(S, s, 1)
  <1>1. /\ S \in [DOMAIN S -> Nat] /\ DOMAIN S \subseteq Ids
        /\ \A i \in DOMAIN I : I[i].sync \in DOMAIN S \cup {Nil}
        /\ \A c \in DOMAIN S : S[c] > 0 /\ S[c] >= Cardinality(UsersOf(I, c))
    BY DEF SyncsOK
  <1>2. /\ DOMAIN T = DOMAIN S \cup {s} /\ T[s] = 1 /\ \A c \in DOMAIN S : T[c] = S[c]
        /\ T \in [DOMAIN T -> Nat]
    BY <1>1 DEF Put
  <1>3. s # Nil
    BY DeviceMemoryAssumption
  <1>4. UsersOf(I, s) = {}
    BY <1>1, <1>3 DEF UsersOf
  <1>5. Cardinality(UsersOf(I, s)) = 0
    BY <1>4, FS_EmptySet
  <1> HIDE DEF T
  <1>6. SyncsOK(I, T, g)
    BY <1>1, <1>2, <1>5 DEF SyncsOK
  <1> QED BY <1>6 DEF T

-----------------------------------------------------------------------------
(* The hash of wrapped memory.                                              *)

(* Entries go, and no entry comes.                                          *)
LEMMA HashLess ==
    ASSUME NEW B, NEW H, HashOK(B, H), NEW c, NEW a
    PROVE  HashOK(B, HashWithout(H, c, a)) /\ DOMAIN HashWithout(H, c, a) = DOMAIN H
  <1> DEFINE G == HashWithout(H, c, a)
  <1>1. /\ DOMAIN G = DOMAIN H
        /\ \A d \in DOMAIN H : \A x \in DOMAIN G[d] : x \in DOMAIN H[d] /\ G[d][x] = H[d][x]
    BY DEF HashWithout, Without, RestrictDomain, Restrict
  <1> HIDE DEF G
  <1>2. HashOK(B, G)
    BY <1>1 DEF HashOK
  <1> QED BY <1>1, <1>2 DEF G

(* The buffers of all entries are as they were, but for higher counts.      *)
LEMMA HashFrame ==
    ASSUME NEW B, NEW H, HashOK(B, H), NEW C, DOMAIN B \subseteq DOMAIN C, SameBufs(B, C),
           \A b \in DOMAIN B : B[b].refCount > 0 => C[b].refCount > 0
    PROVE  HashOK(C, H)
  BY DEF HashOK, SameBufs

(* The entry of a buffer goes with its last reference.                      *)
LEMMA HashDrop ==
    ASSUME NEW B, NEW H, HashOK(B, H), B \in [DOMAIN B -> BufType], NEW b \in DOMAIN B,
           B[b].refCount > 0
    PROVE  /\ HashOK(DropRef(B, b), DropHash(B, H, b))
           /\ DOMAIN DropHash(B, H, b) = DOMAIN H
  <1> DEFINE C == DropRef(B, b)
             G == DropHash(B, H, b)
             N == FewerRefs(B, b)
  <1>1. /\ DOMAIN C = IF B[b].refCount = 1 /\ B[b].exportCount = 0
                      THEN DOMAIN B \ {b} ELSE DOMAIN B
        /\ SameBufs(B, C)
        /\ \A c \in DOMAIN C : c # b => C[c] = B[c]
        /\ b \in DOMAIN C => C[b].refCount = B[b].refCount - 1
    BY BufDropped
  <1>2. /\ N[b].refCount = B[b].refCount - 1 /\ N[b].kind = B[b].kind
        /\ N[b].ctx = B[b].ctx /\ N[b].addr = B[b].addr /\ B[b].refCount \in Nat
    BY DEF FewerRefs, BufType
  <1> HIDE DEF C, N
  <1>3. CASE B[b].refCount > 1
    <2>1. G = H
      BY <1>2, <1>3 DEF DropHash, N
    <2>2. DOMAIN B \subseteq DOMAIN C /\ \A c \in DOMAIN B : B[c].refCount > 0 => C[c].refCount > 0
      BY <1>1, <1>2, <1>3
    <2>3. HashOK(C, H)
      BY <1>1, <2>2, HashFrame
    <2> QED BY <2>1, <2>3 DEF C
  <1>4. CASE B[b].refCount = 1
    <2>1. G = IF B[b].kind = "contig" THEN HashWithout(H, B[b].ctx, B[b].addr) ELSE H
      BY <1>2, <1>4 DEF DropHash, N, Contiguous
    <2>2. DOMAIN G = DOMAIN H
      BY <2>1 DEF HashWithout
    <2> HIDE DEF G
    <2>3. ASSUME NEW c \in DOMAIN H, NEW a \in DOMAIN G[c]
          PROVE  a \in DOMAIN H[c] /\ G[c][a] = H[c][a] /\ H[c][a] # b
      <3>1. CASE B[b].kind = "contig" /\ c = B[b].ctx
        <4>1. G[c] = Without(H[c], B[b].addr)
          BY <2>1, <3>1 DEF HashWithout
        <4>2. a \in DOMAIN H[c] /\ a # B[b].addr /\ G[c][a] = H[c][a]
          BY <2>3, <4>1 DEF Without, RestrictDomain, Restrict
        <4> QED BY <4>2 DEF HashOK
      <3>2. CASE ~(B[b].kind = "contig" /\ c = B[b].ctx)
        <4>1. G[c] = H[c]
          BY <2>1, <3>2 DEF HashWithout
        <4> QED BY <2>3, <3>2, <4>1 DEF HashOK
      <3> QED BY <3>1, <3>2
    <2>4. ASSUME NEW c \in DOMAIN B, c # b PROVE c \in DOMAIN C /\ C[c] = B[c]
      BY <1>1, <2>4
    <2>5. HashOK(C, G)
      BY <2>2, <2>3, <2>4 DEF HashOK
    <2> QED BY <2>2, <2>5 DEF G, C
  <1> QED BY <1>2, <1>3, <1>4

(* Dropping an export takes no buffer that has an entry.                    *)
LEMMA HashUnexport ==
    ASSUME NEW B, NEW H, HashOK(B, H), B \in [DOMAIN B -> BufType], NEW b \in DOMAIN B,
           B[b].exportCount > 0
    PROVE  HashOK(DropExport(B, b), H)
  <1> DEFINE C == DropExport(B, b)
  <1>1. /\ DOMAIN C = IF B[b].exportCount = 1 /\ B[b].refCount = 0
                      THEN DOMAIN B \ {b} ELSE DOMAIN B
        /\ SameBufs(B, C)
        /\ \A c \in DOMAIN C : c # b => C[c] = B[c]
        /\ b \in DOMAIN C => C[b].refCount = B[b].refCount
    BY BufUnexported
  <1> HIDE DEF C
  <1>2. HashOK(C, H)
    BY <1>1 DEF HashOK, SameBufs
  <1> QED BY <1>2 DEF C

(* A new entry replaces what was there.                                     *)
LEMMA HashMore ==
    ASSUME NEW B, NEW H, HashOK(B, H), NEW b \in DOMAIN B, B[b].kind = "contig",
           B[b].refCount > 0
    PROVE  LET G == [H EXCEPT ![B[b].ctx] = Put(Without(H[B[b].ctx], B[b].addr), B[b].addr, b)]
           IN  HashOK(B, G) /\ DOMAIN G = DOMAIN H
  <1> DEFINE c == B[b].ctx
             a == B[b].addr
             F == Put(Without(H[c], a), a, b)
             G == [H EXCEPT ![c] = F]
  <1>1. /\ F[a] = b /\ \A x \in DOMAIN F : x # a => x \in DOMAIN H[c] /\ F[x] = H[c][x]
    BY DEF Put, Without, RestrictDomain, Restrict
  <1> HIDE DEF F
  <1>2. DOMAIN G = DOMAIN H /\ (c \in DOMAIN H => G[c] = F)
        /\ \A d \in DOMAIN H : d # c => G[d] = H[d]
    OBVIOUS
  <1> HIDE DEF G
  <1>3. ASSUME NEW d \in DOMAIN H, NEW x \in DOMAIN G[d]
        PROVE  /\ G[d][x] \in DOMAIN B /\ B[G[d][x]].kind = "contig"
               /\ B[G[d][x]].refCount > 0 /\ B[G[d][x]].addr = x /\ B[G[d][x]].ctx = d
    <2>1. CASE d = c /\ x = a
      BY <1>1, <1>2, <1>3, <2>1
    <2>2. CASE d = c /\ x # a
      BY <1>1, <1>2, <1>3, <2>2 DEF HashOK
    <2>3. CASE d # c
      BY <1>2, <1>3, <2>3 DEF HashOK
    <2> QED BY <2>1, <2>2, <2>3
  <1>4. HashOK(B, G)
    BY <1>2, <1>3 DEF HashOK
  <1> QED BY <1>2, <1>4 DEF G, F, c, a

-----------------------------------------------------------------------------
(* Handles, pinned pages, counts of display buffers, and owners.            *)

(* Infos and buffers go, or lose their owner: what is left is sound.        *)
LEMMA PinsLess ==
    ASSUME NEW I, NEW L, \A i \in DOMAIN L : i \in DOMAIN I /\ SameLinks(L, I, i),
           NEW B, NEW C, DOMAIN C \subseteq DOMAIN B, SameBufs(B, C),
           NEW P, NEW Q, PinsOK(I, B, P), Q \subseteq P, Q \subseteq DOMAIN L,
           P \cap DOMAIN L \subseteq Q
    PROVE  PinsOK(L, C, Q)
  BY DEF PinsOK, SameLinks, SameBufs, Contiguous

(* Who has memory keeps its heap when infos and buffers go.                *)
LEMMA OwnersLess ==
    ASSUME NEW I, NEW L, \A i \in DOMAIN L : i \in DOMAIN I /\ SameLinks(L, I, i),
           NEW B, NEW C, DOMAIN C \subseteq DOMAIN B, SameBufs(B, C),
           NEW c, OwnersOK(I, B, c),
           \A i \in DOMAIN L : L[i].res # Nil => L[i].res = I[i].res,
           \A i \in DOMAIN L : L[i].res # Nil => L[i].buf \in DOMAIN C
    PROVE  OwnersOK(L, C, c)
  <1>1. ASSUME NEW i \in DOMAIN L, L[i].res # Nil
        PROVE  InHeapOf(L[i].res, C, L[i].buf, c)
    <2>1. /\ i \in DOMAIN I /\ I[i].res # Nil /\ L[i].res = I[i].res /\ L[i].buf = I[i].buf
          /\ L[i].buf \in DOMAIN C
      BY <1>1 DEF SameLinks
    <2>2. C[L[i].buf].ctx = B[I[i].buf].ctx /\ C[L[i].buf].kind = B[I[i].buf].kind
      BY <2>1 DEF SameBufs
    <2>3. InHeapOf(I[i].res, B, I[i].buf, c)
      BY <2>1 DEF OwnersOK
    <2> QED BY <2>1, <2>2, <2>3 DEF InHeapOf
  <1> QED BY <1>1 DEF OwnersOK

(* Handles stay as long as their owners do.                                 *)
LEMMA HandlesFrame ==
    ASSUME NEW I, NEW L, NEW h, NEW g, HandlesOK(I, h), g \subseteq h,
           \A i \in g : i \in DOMAIN L /\ L[i].res = I[i].res /\ L[i].memType = I[i].memType
    PROVE  HandlesOK(L, g)
  BY DEF HandlesOK

(* No display's buffer comes or goes.                                       *)
LEMMA MapCountFrame ==
    ASSUME NEW I, NEW L, NEW m, MapCountOK(I, m), \A d \in DCBuffers : SourcedBy(L, d) = SourcedBy(I, d)
    PROVE  MapCountOK(L, m)
  BY DEF MapCountOK

-----------------------------------------------------------------------------
(* What the callback leaves is sound, and nobody else loses anything.       *)

Keeps(I, L, i) ==
    \A k \in DOMAIN I : k # i /\ I[k].res # Nil => k \in DOMAIN L /\ L[k].res = I[k].res

(* An info that is freed by its owner, and is no mapping.                  *)
LEMMA FreeOwnedSound ==
    ASSUME NEW I, NEW B, NEW S, NEW H, NEW h, NEW P, NEW m, NEW c, NEW f, NEW K, NEW n,
           Sound(I, B, S, H, h, P, m, c, f, K), NEW i \in DOMAIN I,
           I[i].res # Nil, I[i].memType # "MAPPED",
           I[i].memType \in Clients => n = m,
           I[i].memType = "DEVICECLASS" => n = [m EXCEPT ![I[i].src] = @ - 1]
    PROVE  LET J == LessOwned(I, i)
           IN  /\ Sound(Remains(J, i), DropRef(B, J[i].buf), SyncAfter(J, S, i),
                        DropHash(B, H, J[i].buf), Unpublished(h, i), PinnedAfter(J, P, i),
                        n, c, f, K \ {i})
               /\ K \ {i} \subseteq DOMAIN Remains(J, i)
               /\ Keeps(I, Remains(J, i), i)
  <1> DEFINE J == LessOwned(I, i)
             R == Remains(J, i)
             b == I[i].buf
             C == DropRef(B, b)
             T == SyncAfter(J, S, i)
             G == DropHash(B, H, b)
             Q == PinnedAfter(J, P, i)
             L == K \ {i}
  <1>1. /\ InfosOK(I, K) /\ BufsOK(I, B, K, Mapped(I)) /\ SyncsOK(I, S, f)
        /\ DOMAIN H = Contexts /\ HashOK(B, H)
        /\ HandlesOK(I, h) /\ PinsOK(I, B, P) /\ MapCountOK(I, m) /\ OwnersOK(I, B, c)
        /\ f = 0 => \A k \in K : I[k].res # Nil
    BY DEF Sound
  <1>2. /\ InfosOK(R, L) /\ Mapped(R) = Mapped(I) /\ i \in K
        /\ DOMAIN R = IF J[i].refCount = 0 THEN DOMAIN I \ {i} ELSE DOMAIN I
        /\ \A k \in DOMAIN R : SameLinks(R, I, k) /\ (k # i => R[k] = I[k])
        /\ i \in DOMAIN R => R[i].res = Nil
        /\ I[i].memType = "DEVICECLASS" => i \notin DOMAIN R
    BY <1>1, InfosFree
  <1>3. /\ I \in [DOMAIN I -> InfoType] /\ IsFiniteSet(DOMAIN I)
        /\ L \subseteq DOMAIN R
        /\ \A k \in DOMAIN I : InfoOK(I, K, k)
        /\ \A k \in DOMAIN R : InfoOK(R, L, k)
    BY <1>1, <1>2 DEF InfosOK
  <1>4. /\ DOMAIN J = DOMAIN I /\ J[i].buf = b /\ J[i].sync = I[i].sync
        /\ \A k \in DOMAIN I : J[k].sync = I[k].sync
    BY <1>3, ChangedOwned DEF SameLinks
  <1>5. R = IF J[i].refCount = 0 THEN Without(J, i) ELSE J
    BY DEF Remains
  <1>6. /\ T = IF J[i].refCount = 0 THEN Released(S, J[i].sync) ELSE S
        /\ Q = IF J[i].refCount = 0 THEN P \ {i} ELSE P
    BY DEF SyncAfter, PinnedAfter
  <1> HIDE DEF J, R, T, Q
  <1>7. /\ BufsOK(I, C, L, Mapped(I)) /\ SameBufs(B, C) /\ DOMAIN C \subseteq DOMAIN B
        /\ b \in DOMAIN B /\ B[b].refCount > 0
    BY <1>1, <1>2, BufsDrop
  <1>8. B \in [DOMAIN B -> BufType]
    BY <1>1 DEF BufsOK
  <1>9. HashOK(C, G) /\ DOMAIN G = Contexts
    BY <1>1, <1>7, <1>8, HashDrop
  <1> HIDE DEF C, G, b, L
  <1>10. BufsOK(R, C, L, Mapped(R))
    <2>1. \A k \in L : R[k].buf = I[k].buf
      BY <1>2, <1>3 DEF SameLinks
    <2>2. \A j \in Mapped(I) : R[j].src = I[j].src /\ R[I[j].src].buf = I[I[j].src].buf
      <3>1. ASSUME NEW j \in Mapped(I)
            PROVE  R[j].src = I[j].src /\ R[I[j].src].buf = I[I[j].src].buf
        <4>1. j \in DOMAIN R /\ R[j].memType = "MAPPED"
          BY <1>2, <3>1 DEF Mapped
        <4>2. R[j].src = I[j].src /\ R[j].src \in DOMAIN R
          BY <1>2, <1>3, <4>1 DEF SameLinks, InfoOK
        <4> QED BY <1>2, <4>2 DEF SameLinks
      <3> QED BY <3>1
    <2>3. BufsOK(R, C, L, Mapped(I))
      BY <1>7, <2>1, <2>2, BufsFrame
    <2> QED BY <1>2, <2>3
  <1>11. SyncsOK(R, T, f)
    <2>1. SyncsOK(J, S, f)
      BY <1>1, <1>4, SyncsFrame
    <2>2. SyncsOK(Without(J, i), Released(S, J[i].sync), f)
      BY <1>3, <1>4, <2>1, SyncsRemove
    <2> QED BY <1>5, <1>6, <2>1, <2>2
  <1>12. HandlesOK(R, h \ {i})
    <2>1. \A k \in h \ {i} : k \in DOMAIN R /\ R[k].res = I[k].res /\ R[k].memType = I[k].memType
      BY <1>1, <1>2 DEF HandlesOK
    <2> QED BY <1>1, <2>1, HandlesFrame
  <1>13. \A k \in DOMAIN R : k \in DOMAIN I /\ SameLinks(R, I, k)
    BY <1>2
  <1>14. PinsOK(R, C, Q)
    <2>1. P \subseteq DOMAIN I
      BY <1>1 DEF PinsOK
    <2>2. Q \subseteq P /\ Q \subseteq DOMAIN R /\ P \cap DOMAIN R \subseteq Q
      BY <1>2, <1>6, <2>1
    <2> QED BY <1>1, <1>7, <1>13, <2>2, PinsLess
  <1>15. \A k \in DOMAIN R : R[k].res # Nil => R[k].res = I[k].res /\ k # i /\ k \in L
    BY <1>2, <1>3 DEF InfoOK
  <1>16. OwnersOK(R, C, c)
    <2>1. \A k \in DOMAIN R : R[k].res # Nil => R[k].buf \in DOMAIN C
      BY <1>10, <1>15 DEF BufsOK
    <2> QED BY <1>1, <1>7, <1>13, <1>15, <2>1, OwnersLess
  <1>17. MapCountOK(R, n)
    <2>1. CASE I[i].memType \in Clients
      <3>1. I[i].src = Nil
        BY <1>3, <2>1 DEF InfoOK
      <3>2. ASSUME NEW d \in DCBuffers PROVE SourcedBy(R, d) = SourcedBy(I, d)
        <4>1. d # Nil
          BY DeviceMemoryAssumption
        <4> QED BY <1>2, <1>13, <3>1, <4>1 DEF SourcedBy, SameLinks
      <3> QED BY <1>1, <2>1, <3>2, MapCountFrame
    <2>2. CASE I[i].memType = "DEVICECLASS"
      <3> DEFINE d == I[i].src
      <3>1. d \in DCBuffers /\ m \in [DCBuffers -> Nat] /\ n = [m EXCEPT ![d] = @ - 1]
            /\ \A x \in DCBuffers : m[x] = Cardinality(SourcedBy(I, x))
        BY <1>1, <1>3, <2>2 DEF InfoOK, MapCountOK
      <3>2. DOMAIN R = DOMAIN I \ {i}
        BY <1>2, <2>2
      <3>3. \A x \in DCBuffers : x # d => SourcedBy(R, x) = SourcedBy(I, x)
        BY <1>13, <3>2 DEF SourcedBy, SameLinks
      <3>4. /\ Cardinality(SourcedBy(I, d)) \in Nat /\ Cardinality(SourcedBy(I, d)) > 0
            /\ Cardinality(SourcedBy(R, d)) = Cardinality(SourcedBy(I, d)) - 1
        <4>1. SourcedBy(I, d) \subseteq DOMAIN I /\ i \in SourcedBy(I, d)
          BY DEF SourcedBy
        <4>2. SourcedBy(R, d) = SourcedBy(I, d) \ {i}
          BY <1>13, <3>2 DEF SourcedBy, SameLinks
        <4>3. IsFiniteSet(SourcedBy(I, d))
          BY <1>3, <4>1, CountPart
        <4> QED BY <4>1, <4>2, <4>3, CountDrop
      <3> HIDE DEF d
      <3>5. m[d] - 1 \in Nat
        BY <3>1, <3>4
      <3>6. n \in [DCBuffers -> Nat] /\ n[d] = m[d] - 1 /\ \A x \in DCBuffers : x # d => n[x] = m[x]
        BY <3>1, <3>5
      <3> QED BY <3>1, <3>3, <3>4, <3>6 DEF MapCountOK
    <2> QED BY <1>3, <2>1, <2>2 DEF InfoType, Clients
  <1>18. f = 0 => \A k \in L : R[k].res # Nil
    <2>1. \A k \in L : k \in K /\ R[k] = I[k]
      BY <1>2, <1>3 DEF L
    <2> QED BY <1>1, <2>1
  <1>19. Sound(R, C, T, G, h \ {i}, Q, n, c, f, L)
    BY <1>2, <1>9, <1>10, <1>11, <1>12, <1>14, <1>16, <1>17, <1>18 DEF Sound
  <1>20. Keeps(I, R, i)
    BY <1>2 DEF Keeps
  <1> QED BY <1>3, <1>4, <1>19, <1>20 DEF Unpublished, R, C, T, G, Q, L, J, b

(* A mapping that is freed by its owner.                                   *)
LEMMA UnmapSound ==
    ASSUME NEW I, NEW B, NEW S, NEW H, NEW h, NEW P, NEW m, NEW c, NEW f, NEW K,
           Sound(I, B, S, H, h, P, m, c, f, K), NEW j \in DOMAIN I, I[j].memType = "MAPPED"
    PROVE  LET s == I[j].src
               J == LessCounted(Without(I, j), s)
               C == DropRef(B, I[j].buf)
               T == Released(S, I[j].sync)
           IN  /\ Sound(Remains(J, s), DropExport(C, J[s].buf), SyncAfter(J, T, s),
                        DropHash(B, H, I[j].buf), h, PinnedAfter(J, P, s), m, c, f, K \ {j})
               /\ K \ {j} \subseteq DOMAIN Remains(J, s)
               /\ Keeps(I, Remains(J, s), j)
  <1> DEFINE s == I[j].src
             W == Without(I, j)
             J == LessCounted(W, s)
             R == Remains(J, s)
             b == I[j].buf
             C == DropRef(B, b)
             E == DropExport(C, I[s].buf)
             T == Released(S, I[j].sync)
             U == SyncAfter(J, T, s)
             G == DropHash(B, H, b)
             Q == PinnedAfter(J, P, s)
             L == K \ {j}
  <1>1. /\ InfosOK(I, K) /\ BufsOK(I, B, K, Mapped(I)) /\ SyncsOK(I, S, f)
        /\ DOMAIN H = Contexts /\ HashOK(B, H)
        /\ HandlesOK(I, h) /\ PinsOK(I, B, P) /\ MapCountOK(I, m) /\ OwnersOK(I, B, c)
        /\ f = 0 => \A k \in K : I[k].res # Nil
    BY DEF Sound
  <1>2. /\ InfosOK(R, L) /\ Mapped(R) = Mapped(I) \ {j}
        /\ j \in Mapped(I) /\ j \in K /\ s \in DOMAIN W /\ W[s] = I[s] /\ s # j
        /\ DOMAIN J = DOMAIN W /\ SameLinks(J, W, s)
        /\ DOMAIN R = IF J[s].refCount = 0 THEN DOMAIN I \ {j, s} ELSE DOMAIN I \ {j}
        /\ \A k \in DOMAIN R : k \in DOMAIN I /\ SameLinks(R, I, k) /\ R[k].res = I[k].res
        /\ J[s].refCount = 0 => s \notin K
    BY <1>1, InfosUnmap
  <1>3. /\ I \in [DOMAIN I -> InfoType] /\ IsFiniteSet(DOMAIN I)
        /\ L \subseteq DOMAIN R
        /\ \A k \in DOMAIN I : InfoOK(I, K, k)
        /\ \A k \in DOMAIN R : InfoOK(R, L, k)
    BY <1>1, <1>2 DEF InfosOK
  <1>4. /\ DOMAIN W = DOMAIN I \ {j} /\ W \in [DOMAIN W -> InfoType]
        /\ \A k \in DOMAIN W : W[k] = I[k]
    BY <1>3 DEF Without, RestrictDomain, Restrict
  <1>5. /\ \A k \in DOMAIN J : J[k].sync = W[k].sync
        /\ J[s].buf = I[s].buf /\ J[s].sync = I[s].sync
    BY <1>2, <1>4, ChangedCount DEF SameLinks
  <1>6. /\ R = IF J[s].refCount = 0 THEN Without(J, s) ELSE J
        /\ U = IF J[s].refCount = 0 THEN Released(T, J[s].sync) ELSE T
        /\ Q = IF J[s].refCount = 0 THEN P \ {s} ELSE P
    BY DEF Remains, SyncAfter, PinnedAfter
  <1>7. /\ BufsOK(I, C, L, Mapped(I)) /\ SameBufs(B, C) /\ DOMAIN C \subseteq DOMAIN B
        /\ b \in DOMAIN B /\ B[b].refCount > 0
    BY <1>1, <1>2, BufsDrop
  <1>8. B \in [DOMAIN B -> BufType] /\ C \in [DOMAIN C -> BufType]
    BY <1>1, <1>7 DEF BufsOK
  <1>9. HashOK(C, G) /\ DOMAIN G = Contexts
    BY <1>1, <1>7, <1>8, HashDrop
  <1>10. SyncsOK(W, T, f)
    BY <1>1, <1>3, SyncsRemove
  <1> HIDE DEF J, R, U, Q, W, T, C, G, b, L
  <1>11. /\ BufsOK(I, E, L, Mapped(I) \ {j}) /\ SameBufs(C, E) /\ DOMAIN E \subseteq DOMAIN C
         /\ I[s].buf \in DOMAIN C /\ C[I[s].buf].exportCount > 0
    BY <1>2, <1>7, BufsUnexport
  <1>12. HashOK(E, G)
    BY <1>8, <1>9, <1>11, HashUnexport
  <1>13. SameBufs(B, E) /\ DOMAIN E \subseteq DOMAIN B
    BY <1>7, <1>11 DEF SameBufs
  <1> HIDE DEF E
  <1>14. BufsOK(R, E, L, Mapped(R))
    <2>1. \A k \in L : R[k].buf = I[k].buf
      BY <1>2, <1>3 DEF SameLinks
    <2>2. ASSUME NEW k \in Mapped(R)
          PROVE  R[k].src = I[k].src /\ R[I[k].src].buf = I[I[k].src].buf
      <3>1. k \in DOMAIN R /\ R[k].memType = "MAPPED"
        BY <2>2 DEF Mapped
      <3>2. R[k].src = I[k].src /\ R[k].src \in DOMAIN R
        BY <1>2, <1>3, <3>1 DEF SameLinks, InfoOK
      <3> QED BY <1>2, <3>2 DEF SameLinks
    <2>3. BufsOK(I, E, L, Mapped(R))
      BY <1>2, <1>11
    <2> QED BY <2>1, <2>2, <2>3, BufsFrame
  <1>15. SyncsOK(R, U, f)
    <2>1. SyncsOK(J, T, f)
      BY <1>2, <1>5, <1>10, SyncsFrame
    <2>2. IsFiniteSet(DOMAIN J) /\ s \in DOMAIN J
      BY <1>2, <1>3, <1>4, FS_Subset
    <2>3. SyncsOK(Without(J, s), Released(T, J[s].sync), f)
      BY <2>1, <2>2, SyncsRemove
    <2> QED BY <1>6, <2>1, <2>3
  <1>16. I[s].memType \in Clients /\ I[s].src = Nil /\ s \in DOMAIN I
    BY <1>2, <1>3 DEF InfoOK
  <1>17. HandlesOK(R, h)
    <2>1. ASSUME NEW k \in h PROVE k \in DOMAIN R /\ R[k].res = I[k].res /\ R[k].memType = I[k].memType
      <3>1. k \in DOMAIN I /\ I[k].res # Nil /\ I[k].memType \in Clients /\ k \in K
        BY <1>1, <1>3, <2>1 DEF HandlesOK, InfoOK
      <3>2. k # j
        BY <3>1 DEF Clients
      <3> QED BY <1>2, <3>1, <3>2 DEF SameLinks
    <2> QED BY <1>1, <2>1, HandlesFrame
  <1>18. \A k \in DOMAIN R : k \in DOMAIN I /\ SameLinks(R, I, k)
    BY <1>2
  <1>19. PinsOK(R, E, Q)
    <2>1. P \subseteq DOMAIN I /\ j \notin P
      BY <1>1 DEF PinsOK
    <2>2. Q \subseteq P /\ Q \subseteq DOMAIN R /\ P \cap DOMAIN R \subseteq Q
      BY <1>2, <1>6, <2>1
    <2> QED BY <1>1, <1>13, <1>18, <2>2, PinsLess
  <1>20. OwnersOK(R, E, c)
    <2>1. \A k \in DOMAIN R : R[k].res # Nil => R[k].res = I[k].res /\ R[k].buf \in DOMAIN E
      BY <1>2, <1>3, <1>14 DEF BufsOK, InfoOK
    <2> QED BY <1>1, <1>13, <1>18, <2>1, OwnersLess
  <1>21. MapCountOK(R, m)
    <2>1. ASSUME NEW d \in DCBuffers PROVE SourcedBy(R, d) = SourcedBy(I, d)
      <3>1. d # Nil /\ d # s
        BY <1>1, <1>16, DeviceMemoryAssumption DEF InfosOK
      <3> QED BY <1>2, <1>16, <1>18, <3>1 DEF SourcedBy, SameLinks
    <2> QED BY <1>1, <2>1, MapCountFrame
  <1>22. f = 0 => \A k \in L : R[k].res # Nil
    <2>1. \A k \in L : k \in K /\ R[k].res = I[k].res
      BY <1>2, <1>3 DEF L
    <2> QED BY <1>1, <2>1
  <1>23. Sound(R, E, U, G, h, Q, m, c, f, L)
    BY <1>2, <1>9, <1>12, <1>14, <1>15, <1>17, <1>19, <1>20, <1>21, <1>22 DEF Sound
  <1>24. Keeps(I, R, j)
    BY <1>2, <1>3 DEF Keeps, InfoOK
  <1> QED BY <1>3, <1>5, <1>23, <1>24 DEF R, E, U, G, Q, L, J, W, T, C, b

(* The callback of the resource manager, for what somebody has.             *)
LEMMA CallBackSound ==
    ASSUME NEW M, NEW c, NEW f, NEW K, Hands(M, c, f, K), NEW i \in DOMAIN M.info,
           M.info[i].res # Nil
    PROVE  LET N == CallBack(M, i)
           IN  /\ Hands(N, c, f, K \ {i}) /\ K \ {i} \subseteq DOMAIN N.info
               /\ Keeps(M.info, N.info, i)
  <1> DEFINE I == M.info
             B == M.buf
             S == M.sync
             H == M.hash
             h == M.handles
             P == M.pinned
             m == M.memMap
             N == CallBack(M, i)
             L == K \ {i}
  <1>1. M = MemRec(I, B, S, H, h, P, m) /\ Sound(I, B, S, H, h, P, m, c, f, K)
    BY DEF Hands
  <1>2. I[i].res # Nil /\ i \in DOMAIN I
    OBVIOUS
  <1>3. I[i].memType \in Clients \cup {"MAPPED", "DEVICECLASS"}
    BY <1>1 DEF Sound, InfosOK, InfoType
  <1>4. ASSUME NEW X, NEW C, NEW T, NEW G, NEW g, NEW Q, NEW n,
               N = MemRec(X, C, T, G, g, Q, n), Sound(X, C, T, G, g, Q, n, c, f, L),
               L \subseteq DOMAIN X, Keeps(I, X, i)
        PROVE  Hands(N, c, f, L) /\ L \subseteq DOMAIN N.info /\ Keeps(I, N.info, i)
    <2>1. /\ N.info = X /\ N.buf = C /\ N.sync = T /\ N.hash = G /\ N.handles = g
          /\ N.pinned = Q /\ N.memMap = n
      BY <1>4 DEF MemRec
    <2> HIDE DEF N
    <2> QED BY <1>4, <2>1 DEF Hands
  <1> HIDE DEF I, B, S, H, h, P, m, N, L
  <1>5. CASE I[i].memType \in Clients
    <2> DEFINE J == LessOwned(I, i)
    <2>1. N = FreeOwned(MemRec(I, B, S, H, h, P, m), i)
      BY <1>1, <1>5, FreeClientIs DEF N
    <2>2. FreeOwned(MemRec(I, B, S, H, h, P, m), i)
            = MemRec(Remains(J, i), DropRef(B, J[i].buf), SyncAfter(J, S, i),
                     DropHash(B, H, J[i].buf), Unpublished(h, i), PinnedAfter(J, P, i), m)
      BY FreeOwnedIs
    <2>3. N = MemRec(Remains(J, i), DropRef(B, J[i].buf), SyncAfter(J, S, i),
                     DropHash(B, H, J[i].buf), Unpublished(h, i), PinnedAfter(J, P, i), m)
      BY <2>1, <2>2
    <2>4. I[i].memType # "MAPPED" /\ I[i].memType # "DEVICECLASS"
      BY <1>5 DEF Clients
    <2>5. /\ Sound(Remains(J, i), DropRef(B, J[i].buf), SyncAfter(J, S, i),
                   DropHash(B, H, J[i].buf), Unpublished(h, i), PinnedAfter(J, P, i), m, c, f, L)
          /\ L \subseteq DOMAIN Remains(J, i) /\ Keeps(I, Remains(J, i), i)
      BY <1>1, <1>2, <2>4, FreeOwnedSound DEF L
    <2> HIDE DEF J
    <2> QED BY <1>4, <2>3, <2>5 DEF I, L, N
  <1>6. CASE I[i].memType = "DEVICECLASS"
    <2> DEFINE J == LessOwned(I, i)
               n == [m EXCEPT ![I[i].src] = @ - 1]
    <2>1. N = FreeOwned(MemRec(I, B, S, H, h, P, n), i)
      BY <1>1, <1>6, FreeDisplayIs DEF N
    <2>2. I[i].memType # "MAPPED" /\ I[i].memType \notin Clients
      BY <1>6 DEF Clients
    <2>3. /\ Sound(Remains(J, i), DropRef(B, J[i].buf), SyncAfter(J, S, i),
                   DropHash(B, H, J[i].buf), Unpublished(h, i), PinnedAfter(J, P, i), n, c, f, L)
          /\ L \subseteq DOMAIN Remains(J, i) /\ Keeps(I, Remains(J, i), i)
      BY <1>1, <1>2, <2>2, FreeOwnedSound DEF L
    <2> HIDE DEF n
    <2>4. FreeOwned(MemRec(I, B, S, H, h, P, n), i)
            = MemRec(Remains(J, i), DropRef(B, J[i].buf), SyncAfter(J, S, i),
                     DropHash(B, H, J[i].buf), Unpublished(h, i), PinnedAfter(J, P, i), n)
      BY FreeOwnedIs
    <2>5. N = MemRec(Remains(J, i), DropRef(B, J[i].buf), SyncAfter(J, S, i),
                     DropHash(B, H, J[i].buf), Unpublished(h, i), PinnedAfter(J, P, i), n)
      BY <2>1, <2>4
    <2> HIDE DEF J
    <2> QED BY <1>4, <2>3, <2>5 DEF I, L, N
  <1>7. CASE I[i].memType = "MAPPED"
    <2> DEFINE s == I[i].src
               W == Without(I, i)
               J == LessCounted(W, s)
               C == DropRef(B, I[i].buf)
               T == Released(S, I[i].sync)
               G == DropHash(B, H, I[i].buf)
    <2>1. N = FreeSource(MemRec(W, C, T, G, h, P, m), s)
      BY <1>1, <1>7, UnmapIs DEF N
    <2>2. /\ Sound(Remains(J, s), DropExport(C, J[s].buf), SyncAfter(J, T, s), G, h,
                   PinnedAfter(J, P, s), m, c, f, L)
          /\ L \subseteq DOMAIN Remains(J, s) /\ Keeps(I, Remains(J, s), i)
      BY <1>1, <1>2, <1>7, UnmapSound DEF L
    <2> HIDE DEF W, C, T, G, s
    <2>3. N = MemRec(Remains(J, s), DropExport(C, J[s].buf), SyncAfter(J, T, s), G, h,
                     PinnedAfter(J, P, s), m)
      BY <2>1, FreeSourceIs
    <2> HIDE DEF J
    <2> QED BY <1>4, <2>2, <2>3 DEF I, L, N
  <1> QED BY <1>3, <1>5, <1>6, <1>7 DEF N, L, I

-----------------------------------------------------------------------------
(* What the calls that make memory do to the parts of the record.           *)

NewRam(p) == [AllocMemory(p) EXCEPT !.refCount = 1]
NewWrap(p, addr, size, kind) == [Buf(kind, HeapOf(p), addr, size) EXCEPT !.refCount = 1]

(* BM_Wrap by the kind of memory.                                           *)
WrapAt(M, p, addr, size, kind) ==
    IF Hit(M, p, addr, size) THEN [M EXCEPT !.buf[Wrapped(M, p, addr)].refCount = @ + 1]
    ELSE LET N == AllocBuf(M, NewWrap(p, addr, size, kind))
             X == Without(M.hash[HeapOf(p)], addr)
         IN  [N EXCEPT !.hash[HeapOf(p)] = IF kind = "contig" THEN Put(X, addr, NewId(M.buf)) ELSE X]

Found(H, p, addr) == IF addr \in DOMAIN H[HeapOf(p)] THEN H[HeapOf(p)][addr] ELSE Nil
Finds(B, H, p, addr, size) == Found(H, p, addr) # Nil /\ B[Found(H, p, addr)].size = size

WrapBufs(B, H, p, addr, size, kind) ==
    IF Finds(B, H, p, addr, size) THEN MoreRefs(B, Found(H, p, addr))
    ELSE Put(B, NewId(B), NewWrap(p, addr, size, kind))
WrapHash(B, H, p, addr, size, kind) ==
    IF Finds(B, H, p, addr, size) THEN H
    ELSE [H EXCEPT ![HeapOf(p)] =
            IF kind = "contig" THEN Put(Without(H[HeapOf(p)], addr), addr, NewId(B))
            ELSE Without(H[HeapOf(p)], addr)]
WrapBuf(B, H, p, addr, size) ==
    IF Finds(B, H, p, addr, size) THEN Found(H, p, addr) ELSE NewId(B)

(* The kind of memory is what BM_Wrap is told.                             *)
LEMMA WrapIsWrapAt ==
    ASSUME NEW M, NEW p, NEW addr, NEW size, NEW contig \in BOOLEAN
    PROVE  BM_Wrap(M, p, addr, size, contig)
             = WrapAt(M, p, addr, size, IF contig THEN "contig" ELSE "scatter")
  BY DEF BM_Wrap, WrapAt, WrapMemory, NewWrap

(* What BM_Wrap finds, by the parts of the record.                         *)
LEMMA WrapHit ==
    ASSUME NEW I, NEW B, NEW S, NEW H, NEW h, NEW P, NEW m, NEW p, NEW addr, NEW size
    PROVE  LET M == MemRec(I, B, S, H, h, P, m)
           IN  /\ Wrapped(M, p, addr) = Found(H, p, addr) /\ M.buf = B /\ M.hash = H
               /\ Hit(M, p, addr, size) <=> Finds(B, H, p, addr, size)
  <1> DEFINE M == MemRec(I, B, S, H, h, P, m)
  <1>1. Wrapped(M, p, addr) = Found(H, p, addr) /\ M.buf = B /\ M.hash = H
    BY DEF Wrapped, MemRec, Found
  <1> HIDE DEF M
  <1>2. Hit(M, p, addr, size) <=> Finds(B, H, p, addr, size)
    BY <1>1 DEF Hit, Finds
  <1> QED BY <1>1, <1>2 DEF M

(* The buffer BM_Wrap returns.                                             *)
LEMMA BufOfIs ==
    ASSUME NEW I, NEW B, NEW S, NEW H, NEW h, NEW P, NEW m, NEW p, NEW addr, NEW size
    PROVE  BufOf(MemRec(I, B, S, H, h, P, m), p, addr, size) = WrapBuf(B, H, p, addr, size)
  BY WrapHit DEF BufOf, WrapBuf

(* BM_Wrap that failed changes the hash alone.                             *)
LEMMA WrapFailsIs ==
    ASSUME NEW I, NEW B, NEW S, NEW H, NEW h, NEW P, NEW m, NEW p, NEW addr, NEW size
    PROVE  WrapFails(MemRec(I, B, S, H, h, P, m), p, addr, size)
             = MemRec(I, B, S, IF Finds(B, H, p, addr, size) THEN H
                               ELSE HashWithout(H, HeapOf(p), addr), h, P, m)
  <1> DEFINE M == MemRec(I, B, S, H, h, P, m)
  <1>1. [M EXCEPT !.hash[HeapOf(p)] = Without(@, addr)]
          = MemRec(I, B, S, HashWithout(H, HeapOf(p), addr), h, P, m)
    BY DEF MemRec, HashWithout
  <1>2. Hit(M, p, addr, size) <=> Finds(B, H, p, addr, size)
    BY WrapHit
  <1> QED BY <1>1, <1>2 DEF WrapFails, M

(* BM_Wrap changes the buffers and the hash.                               *)
LEMMA WrapAtIs ==
    ASSUME NEW I, NEW B, NEW S, NEW H, NEW h, NEW P, NEW m, NEW p, NEW addr, NEW size, NEW kind
    PROVE  WrapAt(MemRec(I, B, S, H, h, P, m), p, addr, size, kind)
             = MemRec(I, WrapBufs(B, H, p, addr, size, kind), S,
                      WrapHash(B, H, p, addr, size, kind), h, P, m)
  <1> DEFINE M == MemRec(I, B, S, H, h, P, m)
             w == Found(H, p, addr)
             N == AllocBuf(M, NewWrap(p, addr, size, kind))
             X == Without(H[HeapOf(p)], addr)
             e == IF kind = "contig" THEN Put(X, addr, NewId(B)) ELSE X
  <1>1. Wrapped(M, p, addr) = w /\ M.buf = B /\ M.hash = H
    BY WrapHit
  <1>2. Hit(M, p, addr, size) <=> Finds(B, H, p, addr, size)
    BY WrapHit
  <1>3. [M EXCEPT !.buf[w].refCount = @ + 1] = MemRec(I, MoreRefs(B, w), S, H, h, P, m)
    BY DEF MemRec, MoreRefs
  <1>4. N = MemRec(I, Put(B, NewId(B), NewWrap(p, addr, size, kind)), S, H, h, P, m)
    BY DEF AllocBuf, MemRec
  <1> HIDE DEF M, N, w, e
  <1>5. [N EXCEPT !.hash[HeapOf(p)] = e]
          = MemRec(I, Put(B, NewId(B), NewWrap(p, addr, size, kind)), S,
                   [H EXCEPT ![HeapOf(p)] = e], h, P, m)
    BY <1>4 DEF MemRec
  <1>6. WrapAt(M, p, addr, size, kind)
          = IF Finds(B, H, p, addr, size) THEN [M EXCEPT !.buf[w].refCount = @ + 1]
            ELSE [N EXCEPT !.hash[HeapOf(p)] = e]
    BY <1>1, <1>2 DEF WrapAt, N, e
  <1>7. CASE Finds(B, H, p, addr, size)
    BY <1>3, <1>6, <1>7 DEF WrapBufs, WrapHash, w, M
  <1>8. CASE ~Finds(B, H, p, addr, size)
    BY <1>5, <1>6, <1>8 DEF WrapBufs, WrapHash, e, M
  <1> QED BY <1>7, <1>8

(* BM_Alloc makes a buffer.                                                *)
LEMMA BM_AllocIs ==
    ASSUME NEW I, NEW B, NEW S, NEW H, NEW h, NEW P, NEW m, NEW p
    PROVE  BM_Alloc(MemRec(I, B, S, H, h, P, m), p)
             = MemRec(I, Put(B, NewId(B), NewRam(p)), S, H, h, P, m)
  BY DEF BM_Alloc, AllocBuf, MemRec, NewRam

(* A new sync info has one user.                                           *)
LEMMA AllocSyncIs ==
    ASSUME NEW I, NEW B, NEW S, NEW H, NEW h, NEW P, NEW m
    PROVE  AllocSyncInfo(MemRec(I, B, S, H, h, P, m))
             = MemRec(I, B, Put(S, NewId(S), 1), H, h, P, m)
  BY DEF AllocSyncInfo, MemRec

(* A new mem info.                                                         *)
LEMMA AddInfoIs ==
    ASSUME NEW I, NEW B, NEW S, NEW H, NEW h, NEW P, NEW m, NEW r
    PROVE  AddInfo(MemRec(I, B, S, H, h, P, m), r)
             = MemRec(Put(I, NewId(I), r), B, S, H, h, P, m)
  BY DEF AddInfo, MemRec

(* BM_Export counts an export of the buffer.                               *)
LEMMA BM_ExportIs ==
    ASSUME NEW I, NEW B, NEW S, NEW H, NEW h, NEW P, NEW m, NEW b
    PROVE  BM_Export(MemRec(I, B, S, H, h, P, m), b)
             = MemRec(I, MoreExports(B, b), S, H, h, P, m)
  BY DEF BM_Export, MemRec, MoreExports

-----------------------------------------------------------------------------
(* What the calls that make memory leave is sound.                          *)

(* The buffer of every info is there: somebody has the info in hand, or it
   has a mapping, which exports the buffer.                                *)
LEMMA BuffersLive ==
    ASSUME NEW I, NEW B, NEW K, InfosOK(I, K), BufsOK(I, B, K, Mapped(I)), NEW i \in DOMAIN I
    PROVE  I[i].buf \in DOMAIN B /\ I[i].buf \in Ids
  <1>1. /\ IsFiniteSet(DOMAIN I) /\ InfoOK(I, K, i)
    BY DEF InfosOK
  <1>2. CASE i \in K
    BY <1>2 DEF BufsOK
  <1>3. CASE i \notin K
    <2>1. MapsOf(I, i) \subseteq DOMAIN I
      BY DEF MapsOf
    <2>2. MapsOf(I, i) # {}
      BY <1>1, <1>3, <2>1, CountPart DEF InfoOK
    <2>3. PICK j \in Mapped(I) : I[j].src = i
      BY <2>2 DEF MapsOf, Mapped
    <2> QED BY <2>3 DEF BufsOK
  <1> QED BY <1>2, <1>3

(* The counts of buffers do not see infos that are new.                     *)
LEMMA BufsGrow ==
    ASSUME NEW I, NEW L, NEW B, NEW K, InfosOK(I, K), BufsOK(I, B, K, Mapped(I)),
           \A i \in DOMAIN I : SameLinks(L, I, i)
    PROVE  BufsOK(L, B, K, Mapped(I))
  <1>1. /\ K \subseteq DOMAIN I /\ \A i \in DOMAIN I : InfoOK(I, K, i)
    BY DEF InfosOK
  <1>2. \A k \in K : L[k].buf = I[k].buf
    BY <1>1 DEF SameLinks
  <1>3. \A j \in Mapped(I) : L[j].src = I[j].src /\ L[I[j].src].buf = I[I[j].src].buf
    BY <1>1 DEF SameLinks, Mapped, InfoOK
  <1> QED BY <1>2, <1>3, BufsFrame

(* What BM_Wrap returns: a buffer of the caller's heap, contiguous if it was
   there before.                                                            *)
Serves(B, C, b, p, kind) ==
    /\ SameBufs(B, C) /\ DOMAIN C = DOMAIN B \cup {b}
    /\ C[b].ctx = HeapOf(p) /\ C[b].kind \in {"contig", kind}

Wraps(L, B, K, H, k, p, addr, size, kind) ==
    /\ HashOK(B, H) /\ DOMAIN H = Contexts /\ Ids \ DOMAIN B # {} /\ k \notin K /\ p \in Processes
    /\ addr \in Addresses \cup DCBuffers \cup {Nil} /\ size \in Nat
    /\ kind \in {"contig", "scatter"} /\ L[k].buf = WrapBuf(B, H, p, addr, size)

(* BM_Wrap counts the caller, who has one buffer more in hand.             *)
LEMMA WrapSound ==
    ASSUME NEW L, NEW B, NEW K, NEW J, BufsOK(L, B, K, J), NEW H, NEW k, NEW p, NEW addr,
           NEW size, NEW kind, Wraps(L, B, K, H, k, p, addr, size, kind)
    PROVE  LET C == WrapBufs(B, H, p, addr, size, kind)
               G == WrapHash(B, H, p, addr, size, kind)
               b == L[k].buf
           IN  /\ BufsOK(L, C, K \cup {k}, J) /\ Serves(B, C, b, p, kind)
               /\ HashOK(C, G) /\ DOMAIN G = Contexts
  <1> DEFINE C == WrapBufs(B, H, p, addr, size, kind)
             G == WrapHash(B, H, p, addr, size, kind)
             b == L[k].buf
             w == Found(H, p, addr)
             q == HeapOf(p)
  <1>1. B \in [DOMAIN B -> BufType] /\ DOMAIN B \subseteq Ids
    BY DEF BufsOK
  <1>2. /\ HashOK(B, H) /\ DOMAIN H = Contexts /\ Ids \ DOMAIN B # {} /\ k \notin K
        /\ p \in Processes /\ addr \in Addresses \cup DCBuffers \cup {Nil} /\ size \in Nat
        /\ kind \in {"contig", "scatter"} /\ b = WrapBuf(B, H, p, addr, size)
    BY DEF Wraps
  <1>3. q \in Contexts
    BY <1>2 DEF HeapOf, Contexts
  <1>4. CASE Finds(B, H, p, addr, size)
    <2>1. C = MoreRefs(B, w) /\ G = H /\ b = w
      BY <1>2, <1>4 DEF WrapBufs, WrapHash, WrapBuf
    <2>2. addr \in DOMAIN H[q] /\ w = H[q][addr]
      BY <1>4 DEF Finds, Found
    <2>3. w \in DOMAIN B /\ B[w].refCount > 0 /\ B[w].kind = "contig" /\ B[w].ctx = q
      BY <1>2, <1>3, <2>2 DEF HashOK
    <2> HIDE DEF w
    <2>4. BufsOK(L, MoreRefs(B, w), K \cup {k}, J)
      BY <1>2, <2>1, <2>3, BufsMore
    <2>5. /\ SameBufs(B, MoreRefs(B, w)) /\ DOMAIN MoreRefs(B, w) = DOMAIN B
          /\ MoreRefs(B, w)[w].refCount = B[w].refCount + 1
          /\ \A x \in DOMAIN B : x # w => MoreRefs(B, w)[x] = B[x]
      BY <1>1, <2>3, BufChanged
    <2>6. \A x \in DOMAIN B : B[x].refCount > 0 => MoreRefs(B, w)[x].refCount > 0
      BY <1>1, <2>3, <2>5 DEF BufType
    <2>7. HashOK(MoreRefs(B, w), H)
      BY <1>2, <2>5, <2>6, HashFrame
    <2>8. MoreRefs(B, w)[w].ctx = q /\ MoreRefs(B, w)[w].kind = "contig"
      BY <2>3, <2>5 DEF SameBufs
    <2>9. Serves(B, MoreRefs(B, w), w, p, kind)
      BY <2>3, <2>5, <2>8 DEF Serves, q
    <2> QED BY <1>2, <2>1, <2>4, <2>7, <2>9
  <1>5. CASE ~Finds(B, H, p, addr, size)
    <2> DEFINE r == NewWrap(p, addr, size, kind)
               n == NewId(B)
    <2>1. C = Put(B, n, r) /\ b = n /\ n \in Ids /\ n \notin DOMAIN B
      BY <1>2, <1>5, NewIdFresh DEF WrapBufs, WrapBuf
    <2>2. /\ r \in BufType /\ r.refCount = 1 /\ r.exportCount = 0 /\ r.devMapped = TRUE
          /\ r.kind = kind /\ r.ctx = q /\ r.addr = addr
      BY <1>2, <1>3 DEF NewWrap, Buf, BufType
    <2>3. G = [H EXCEPT ![q] = IF kind = "contig" THEN Put(Without(H[q], addr), addr, n)
                               ELSE Without(H[q], addr)]
      BY <1>5 DEF WrapHash
    <2> HIDE DEF r, n, C
    <2>4. C = Put(B, L[k].buf, r) /\ L[k].buf = n
      BY <2>1
    <2>5. BufIsNew(L, B, C, K, k, r)
      BY <1>2, <2>1, <2>2, <2>4 DEF NewBuf, BufIsNew
    <2>6. BufMade(L, B, C, K, J, k, r)
      BY <2>5, BufsNew
    <2>7. /\ BufsOK(L, C, K \cup {k}, J) /\ SameBufs(B, C) /\ DOMAIN C = DOMAIN B \cup {n}
          /\ C[n] = r
      BY <2>4, <2>6 DEF BufMade
    <2>8. \A x \in DOMAIN B : C[x] = B[x]
      BY <2>1 DEF Put
    <2>9. HashOK(C, H)
      BY <1>2, <2>7, <2>8, HashFrame
    <2>10. HashOK(C, G) /\ DOMAIN G = DOMAIN H
      <3>1. CASE kind = "contig"
        <4>1. G = [H EXCEPT ![C[n].ctx] = Put(Without(H[C[n].ctx], C[n].addr), C[n].addr, n)]
          BY <2>2, <2>3, <2>7, <3>1
        <4>2. n \in DOMAIN C /\ C[n].kind = "contig" /\ C[n].refCount > 0
          BY <2>2, <2>7, <3>1
        <4> HIDE DEF G
        <4> QED BY <2>9, <4>1, <4>2, HashMore
      <3>2. CASE kind # "contig"
        <4>1. G = HashWithout(H, q, addr)
          BY <2>3, <3>2 DEF HashWithout
        <4> HIDE DEF G, q
        <4>2. HashOK(C, HashWithout(H, q, addr)) /\ DOMAIN HashWithout(H, q, addr) = DOMAIN H
          BY <2>9, HashLess
        <4> QED BY <4>1, <4>2
      <3> QED BY <3>1, <3>2
    <2>11. Serves(B, C, n, p, kind)
      BY <2>1, <2>2, <2>7 DEF Serves
    <2> QED BY <1>2, <2>1, <2>7, <2>10, <2>11 DEF C
  <1> QED BY <1>4, <1>5

(* A new info with what it needs: the infos and buffers there were are as
   they were but for counts, wrapped pages are pinned, and memory that has an
   owner is in his heap.                                                    *)
Grows(I, L, n) ==
    /\ n \notin DOMAIN I /\ DOMAIN L = DOMAIN I \cup {n}
    /\ \A i \in DOMAIN I : SameLinks(L, I, i) /\ L[i].res = I[i].res

Settled(L, C, c, P, Q, n) ==
    /\ P \subseteq Q /\ Q \subseteq P \cup {n} /\ (n \in Q => L[n].memType = "WRAPPED")
    /\ L[n].memType = "WRAPPED" /\ C[L[n].buf].kind # "contig" => n \in Q
    /\ L[n].res # Nil => /\ L[n].res \in Processes /\ c[L[n].res].listed
                         /\ C[L[n].buf].ctx = HeapOf(L[n].res)

(* The memory is sound with the new info if its parts are.                 *)
LEMMA AddSound ==
    ASSUME NEW I, NEW B, NEW S, NEW H, NEW h, NEW P, NEW m, NEW c, NEW f, NEW K,
           Sound(I, B, S, H, h, P, m, c, f, K),
           NEW n, NEW L, Grows(I, L, n), InfosOK(L, K \cup {n}),
           NEW C, BufsOK(L, C, K \cup {n}, Mapped(L)), SameBufs(B, C), DOMAIN B \subseteq DOMAIN C,
           NEW T, NEW g, SyncsOK(L, T, g),
           NEW G, DOMAIN G = Contexts, HashOK(C, G),
           NEW Q, Settled(L, C, c, P, Q, n),
           NEW q, MapCountOK(L, q), g = 0 => f = 0 /\ L[n].res # Nil
    PROVE  Sound(L, C, T, G, h, Q, q, c, g, K \cup {n})
  <1>1. /\ InfosOK(I, K) /\ BufsOK(I, B, K, Mapped(I))
        /\ HandlesOK(I, h) /\ PinsOK(I, B, P) /\ OwnersOK(I, B, c)
        /\ f = 0 => \A k \in K : I[k].res # Nil
    BY DEF Sound
  <1>2. /\ n \notin DOMAIN I /\ DOMAIN L = DOMAIN I \cup {n}
        /\ \A i \in DOMAIN I : SameLinks(L, I, i) /\ L[i].res = I[i].res
    BY DEF Grows
  <1>3. \A i \in DOMAIN I : I[i].buf \in DOMAIN B
    BY <1>1, BuffersLive
  <1>4. K \subseteq DOMAIN I
    BY <1>1 DEF InfosOK
  <1>5. \A i \in DOMAIN I : /\ C[L[i].buf].kind = B[I[i].buf].kind
                            /\ C[L[i].buf].ctx = B[I[i].buf].ctx
    BY <1>2, <1>3 DEF SameBufs, SameLinks
  <1>6. HandlesOK(L, h)
    BY <1>1, <1>2 DEF HandlesOK, SameLinks
  <1>7. PinsOK(L, C, Q)
    <2>1. \A i \in Q : i \in DOMAIN L /\ L[i].memType = "WRAPPED"
      BY <1>1, <1>2 DEF PinsOK, SameLinks, Settled
    <2>2. ASSUME NEW i \in DOMAIN L, L[i].memType = "WRAPPED", L[i].buf \in DOMAIN C,
                 ~Contiguous(C[L[i].buf])
          PROVE  i \in Q
      <3>1. CASE i = n
        BY <2>2, <3>1 DEF Contiguous, Settled
      <3>2. CASE i # n
        <4>1. i \in DOMAIN I /\ I[i].memType = "WRAPPED"
          BY <1>2, <2>2, <3>2 DEF SameLinks
        <4>2. I[i].buf \in DOMAIN B /\ ~Contiguous(B[I[i].buf])
          BY <1>3, <1>5, <2>2, <4>1 DEF Contiguous
        <4> QED BY <1>1, <4>1, <4>2 DEF PinsOK, Settled
      <3> QED BY <3>1, <3>2
    <2> QED BY <2>1, <2>2 DEF PinsOK
  <1>8. OwnersOK(L, C, c)
    <2>1. ASSUME NEW i \in DOMAIN L, L[i].res # Nil
          PROVE  InHeapOf(L[i].res, C, L[i].buf, c)
      <3>1. CASE i = n
        <4>1. HeapOf(L[n].res) # Nil
          BY <2>1, <3>1, DeviceMemoryAssumption DEF Settled, HeapOf
        <4> QED BY <2>1, <3>1, <4>1 DEF Settled, InHeapOf
      <3>2. CASE i # n
        <4>1. InHeapOf(I[i].res, B, I[i].buf, c) /\ L[i].res = I[i].res /\ i \in DOMAIN I
          BY <1>1, <1>2, <2>1, <3>2 DEF OwnersOK
        <4> QED BY <1>5, <4>1 DEF InHeapOf
      <3> QED BY <3>1, <3>2
    <2> QED BY <2>1 DEF OwnersOK
  <1>9. g = 0 => \A k \in K \cup {n} : L[k].res # Nil
    BY <1>1, <1>2, <1>4
  <1> QED BY <1>6, <1>7, <1>8, <1>9 DEF Sound

(* The count of a display's buffer.                                         *)
LEMMA MapCountAdd ==
    ASSUME NEW I, NEW L, NEW m, NEW n, MapCountOK(I, m), IsFiniteSet(DOMAIN I), n \notin DOMAIN I,
           DOMAIN L = DOMAIN I \cup {n}, \A i \in DOMAIN I : L[i].src = I[i].src
    PROVE  /\ L[n].src \notin DCBuffers => MapCountOK(L, m)
           /\ L[n].src \in DCBuffers => MapCountOK(L, [m EXCEPT ![L[n].src] = @ + 1])
  <1> DEFINE d == L[n].src
  <1>1. m \in [DCBuffers -> Nat] /\ \A x \in DCBuffers : m[x] = Cardinality(SourcedBy(I, x))
    BY DEF MapCountOK
  <1>2. \A x \in DCBuffers : x # d => SourcedBy(L, x) = SourcedBy(I, x)
    BY DEF SourcedBy
  <1>3. CASE d \notin DCBuffers
    BY <1>2, <1>3, MapCountFrame
  <1>4. CASE d \in DCBuffers
    <2>1. /\ Cardinality(SourcedBy(I, d)) \in Nat
          /\ Cardinality(SourcedBy(L, d)) = Cardinality(SourcedBy(I, d)) + 1
      <3>1. SourcedBy(I, d) \subseteq DOMAIN I /\ n \notin SourcedBy(I, d)
        BY DEF SourcedBy
      <3>2. SourcedBy(L, d) = SourcedBy(I, d) \cup {n}
        BY DEF SourcedBy
      <3> QED BY <3>1, <3>2, CountAdd, CountPart
    <2> DEFINE q == [m EXCEPT ![d] = @ + 1]
    <2>2. q \in [DCBuffers -> Nat] /\ q[d] = m[d] + 1 /\ \A x \in DCBuffers : x # d => q[x] = m[x]
      BY <1>1, <1>4
    <2> HIDE DEF q, d
    <2>3. MapCountOK(L, q)
      BY <1>1, <1>2, <1>4, <2>1, <2>2 DEF MapCountOK
    <2> QED BY <1>4, <2>3 DEF d, q
  <1> QED BY <1>3, <1>4

(* Fewer entries in the hash, and what only bounds sync infos and contexts. *)
LEMMA SoundLess ==
    ASSUME NEW I, NEW B, NEW S, NEW H, NEW h, NEW P, NEW m, NEW c, NEW f, NEW K,
           Sound(I, B, S, H, h, P, m, c, f, K),
           NEW T, NEW g, SyncsOK(I, T, g), g = 0 => f = 0,
           NEW G, DOMAIN G = Contexts, HashOK(B, G), NEW d, OwnersOK(I, B, d)
    PROVE  Sound(I, B, T, G, h, P, m, d, g, K)
  BY DEF Sound

(* Memory of the heap, with or without a sync info.                         *)
LEMMA AllocSound ==
    ASSUME NEW I, NEW B, NEW S, NEW H, NEW h, NEW P, NEW m, NEW c, NEW f, NEW K,
           Sound(I, B, S, H, h, P, m, c, f, K), NEW p \in Processes, c[p].listed,
           NEW n \in Ids, n \notin DOMAIN I, NEW b \in Ids, b \notin DOMAIN B, NEW s, NEW T,
           \/ s = Nil /\ T = S
           \/ s \in Ids /\ s \notin DOMAIN S /\ T = Put(S, s, 1)
    PROVE  Sound(Put(I, n, Info("DEVICE", b, s, Nil, p)), Put(B, b, NewRam(p)), T, H, h, P, m,
                 c, f, K \cup {n})
  <1> DEFINE r == Info("DEVICE", b, s, Nil, p)
             L == Put(I, n, r)
             a == NewRam(p)
             C == Put(B, b, a)
  <1>1. /\ InfosOK(I, K) /\ BufsOK(I, B, K, Mapped(I)) /\ SyncsOK(I, S, f)
        /\ DOMAIN H = Contexts /\ HashOK(B, H) /\ MapCountOK(I, m)
    BY DEF Sound
  <1>2. IsFiniteSet(DOMAIN I) /\ n \notin K
    BY <1>1 DEF InfosOK
  <1>3. /\ r \in InfoType /\ r.refCount = 1 /\ r.memType = "DEVICE" /\ r.src = Nil
        /\ r.buf = b /\ r.sync = s /\ r.res = p
    BY DEF Info, InfoType, Clients
  <1>4. HeapOf(p) \in Contexts
    BY DEF HeapOf, Contexts
  <1>5. NewBuf(a) /\ a.ctx = HeapOf(p)
    BY <1>4 DEF NewBuf, NewRam, AllocMemory, Buf, BufType
  <1> HIDE DEF r, a
  <1>6. InfosOK(L, K \cup {n}) /\ Mapped(L) = Mapped(I)
    <2>1. r.memType # "MAPPED" /\ r.memType # "DEVICECLASS"
      BY <1>3
    <2> QED BY <1>1, <1>3, <2>1, InfosAdd
  <1>7. /\ DOMAIN L = DOMAIN I \cup {n} /\ L[n] = r /\ \A i \in DOMAIN I : L[i] = I[i]
    BY DEF Put
  <1>8. SyncsOK(L, T, f)
    <2>1. CASE s = Nil /\ T = S
      BY <1>1, <1>3, <2>1, SyncsNone
    <2>2. CASE s \in Ids /\ s \notin DOMAIN S /\ T = Put(S, s, 1)
      <3>1. r.sync \in Ids \ DOMAIN S /\ T = Put(S, r.sync, 1)
        BY <1>3, <2>2
      <3> QED BY <1>1, <3>1, SyncsNew
    <2> QED BY <2>1, <2>2
  <1> HIDE DEF L
  <1>9. \A i \in DOMAIN I : SameLinks(L, I, i) /\ L[i].res = I[i].res /\ L[i].src = I[i].src
    BY <1>7 DEF SameLinks
  <1>10. BufsOK(L, B, K, Mapped(I))
    BY <1>1, <1>9, BufsGrow
  <1>11. /\ BufsOK(L, C, K \cup {n}, Mapped(L)) /\ SameBufs(B, C)
         /\ DOMAIN C = DOMAIN B \cup {b} /\ C[b] = a
    <2>1. L[n].buf = b
      BY <1>3, <1>7
    <2>2. BufIsNew(L, B, C, K, n, a)
      BY <1>2, <1>5, <2>1 DEF BufIsNew
    <2> HIDE DEF C
    <2>3. BufMade(L, B, C, K, Mapped(I), n, a)
      BY <1>10, <2>2, BufsNew
    <2> QED BY <1>6, <2>1, <2>3 DEF BufMade
  <1>12. HashOK(C, H)
    <2>1. \A x \in DOMAIN B : C[x] = B[x]
      BY DEF Put
    <2> HIDE DEF C
    <2> QED BY <1>1, <1>11, <2>1, HashFrame
  <1>13. MapCountOK(L, m)
    <2>1. L[n].src \notin DCBuffers
      BY <1>3, <1>7, DeviceMemoryAssumption
    <2> QED BY <1>1, <1>2, <1>7, <1>9, <2>1, MapCountAdd
  <1> HIDE DEF C
  <1>14. Settled(L, C, c, P, P, n) /\ L[n].res # Nil
    <2>1. n \notin P
      BY DEF Sound, PinsOK
    <2>2. /\ L[n].memType = "DEVICE" /\ L[n].res = p /\ L[n].res # Nil
          /\ C[L[n].buf].ctx = HeapOf(p)
      BY <1>3, <1>5, <1>7, <1>11, DeviceMemoryAssumption
    <2> QED BY <2>1, <2>2 DEF Settled
  <1>15. Grows(I, L, n)
    BY <1>7, <1>9 DEF Grows
  <1>16. DOMAIN B \subseteq DOMAIN C
    BY <1>11
  <1>17. Sound(L, C, T, H, h, P, m, c, f, K \cup {n})
    BY <1>1, <1>6, <1>8, <1>11, <1>12, <1>13, <1>14, <1>15, <1>16, AddSound
  <1> QED BY <1>17 DEF L, C, r, a

(* Where BM_Wrap finds or makes a buffer.                                   *)
LEMMA WrapBufIn ==
    ASSUME NEW B, NEW H, HashOK(B, H), DOMAIN H = Contexts, DOMAIN B \subseteq Ids,
           Ids \ DOMAIN B # {}, NEW p \in Processes, NEW addr, NEW size
    PROVE  WrapBuf(B, H, p, addr, size) \in Ids
  <1>1. HeapOf(p) \in DOMAIN H
    BY DEF HeapOf, Contexts
  <1>2. CASE Finds(B, H, p, addr, size)
    <2>1. addr \in DOMAIN H[HeapOf(p)] /\ Found(H, p, addr) = H[HeapOf(p)][addr]
      BY <1>2 DEF Finds, Found
    <2> QED BY <1>1, <1>2, <2>1 DEF WrapBuf, HashOK
  <1>3. CASE ~Finds(B, H, p, addr, size)
    BY <1>3, NewIdFresh DEF WrapBuf
  <1> QED BY <1>2, <1>3

(* Pages that are not contiguous are pinned while they are wrapped.         *)
PinsOf(P, n, r, kind) == IF r.memType = "WRAPPED" /\ kind # "contig" THEN P \cup {n} ELSE P

(* An info on memory that BM_Wrap found or made, but for its sync info.    *)
LEMMA AddWrapped ==
    ASSUME NEW I, NEW B, NEW S, NEW H, NEW h, NEW P, NEW m, NEW c, NEW f, NEW K,
           Sound(I, B, S, H, h, P, m, c, f, K), NEW p \in Processes, c[p].listed,
           Ids \ DOMAIN B # {},
           NEW n \in Ids, n \notin DOMAIN I, NEW addr \in Addresses \cup DCBuffers,
           NEW size \in Nat, NEW kind \in {"contig", "scatter"},
           NEW r \in InfoType, r.refCount = 1, r.memType \in {"WRAPPED", "DEVICECLASS"},
           r.memType = "DEVICECLASS" => r.src \in DCBuffers, r.memType = "WRAPPED" => r.src = Nil,
           r.buf = WrapBuf(B, H, p, addr, size), r.res \in {p, Nil},
           NEW T, NEW g, SyncsOK(Put(I, n, r), T, g), g = 0 => f = 0 /\ r.res # Nil,
           NEW q, MapCountOK(Put(I, n, r), q)
    PROVE  Sound(Put(I, n, r), WrapBufs(B, H, p, addr, size, kind), T,
                 WrapHash(B, H, p, addr, size, kind), h, PinsOf(P, n, r, kind), q, c, g,
                 K \cup {n})
  <1> DEFINE Q == PinsOf(P, n, r, kind)
             L == Put(I, n, r)
             C == WrapBufs(B, H, p, addr, size, kind)
             G == WrapHash(B, H, p, addr, size, kind)
  <1>1. /\ InfosOK(I, K) /\ BufsOK(I, B, K, Mapped(I))
        /\ DOMAIN H = Contexts /\ HashOK(B, H) /\ n \notin P
    BY DEF Sound, PinsOK
  <1>2. n \notin K
    BY <1>1 DEF InfosOK
  <1>3. InfosOK(L, K \cup {n}) /\ Mapped(L) = Mapped(I)
    <2>1. r.memType # "MAPPED" /\ (r.memType \in Clients => r.src = Nil)
      BY DEF Clients
    <2> QED BY <1>1, <2>1, InfosAdd
  <1>4. DOMAIN L = DOMAIN I \cup {n} /\ L[n] = r /\ \A i \in DOMAIN I : L[i] = I[i]
    BY DEF Put
  <1> HIDE DEF L
  <1>5. Grows(I, L, n)
    BY <1>4 DEF Grows, SameLinks
  <1>6. BufsOK(L, B, K, Mapped(L))
    <2>1. \A i \in DOMAIN I : SameLinks(L, I, i)
      BY <1>5 DEF Grows
    <2> QED BY <1>1, <1>3, <2>1, BufsGrow
  <1>7. Wraps(L, B, K, H, n, p, addr, size, kind)
    BY <1>1, <1>2, <1>4 DEF Wraps
  <1>8. /\ BufsOK(L, C, K \cup {n}, Mapped(L)) /\ Serves(B, C, L[n].buf, p, kind)
        /\ HashOK(C, G) /\ DOMAIN G = Contexts
    BY <1>6, <1>7, WrapSound
  <1> HIDE DEF C, G
  <1>9. /\ SameBufs(B, C) /\ DOMAIN C = DOMAIN B \cup {L[n].buf}
        /\ C[L[n].buf].ctx = HeapOf(p) /\ C[L[n].buf].kind \in {"contig", kind}
    BY <1>8 DEF Serves
  <1>10. Settled(L, C, c, P, Q, n)
    <2>1. P \subseteq Q /\ Q \subseteq P \cup {n} /\ (n \in Q => L[n].memType = "WRAPPED")
      BY <1>1, <1>4 DEF PinsOf
    <2>2. L[n].memType = "WRAPPED" /\ C[L[n].buf].kind # "contig" => n \in Q
      BY <1>4, <1>9 DEF PinsOf
    <2>3. L[n].res # Nil => L[n].res = p
      BY <1>4
    <2> HIDE DEF Q
    <2> QED BY <1>9, <2>1, <2>2, <2>3 DEF Settled
  <1>11. DOMAIN B \subseteq DOMAIN C /\ (g = 0 => f = 0 /\ L[n].res # Nil)
    BY <1>4, <1>9
  <1>12. SyncsOK(L, T, g) /\ MapCountOK(L, q)
    BY DEF L
  <1> HIDE DEF Q
  <1>13. Sound(L, C, T, G, h, Q, q, c, g, K \cup {n})
    BY <1>3, <1>5, <1>8, <1>9, <1>10, <1>11, <1>12, AddSound
  <1> QED BY <1>13 DEF L, C, G, Q

(* Memory of a process, pinned unless it is contiguous; o is its owner.     *)
Unused(I, B, S, n, s) ==
    /\ Ids \ DOMAIN B # {} /\ n \in Ids /\ n \notin DOMAIN I /\ s \in Ids /\ s \notin DOMAIN S
MayWrap(c, p, addr, size, kind, o, f, g) ==
    /\ p \in Processes /\ c[p].listed /\ addr \in Addresses /\ size \in Nat
    /\ kind \in {"contig", "scatter"} /\ o \in {p, Nil} /\ (g = 0 => f = 0 /\ o # Nil)

(* Its info, its sync info and its pages are sound.                         *)
LEMMA WrapExtSound ==
    ASSUME NEW I, NEW B, NEW S, NEW H, NEW h, NEW P, NEW m, NEW c, NEW f, NEW K,
           Sound(I, B, S, H, h, P, m, c, f, K), NEW n, NEW s, Unused(I, B, S, n, s),
           NEW p, NEW addr, NEW size, NEW kind, NEW o, NEW g,
           MayWrap(c, p, addr, size, kind, o, f, g)
    PROVE  Sound(Put(I, n, Info("WRAPPED", WrapBuf(B, H, p, addr, size), s, Nil, o)),
                 WrapBufs(B, H, p, addr, size, kind), Put(S, s, 1),
                 WrapHash(B, H, p, addr, size, kind), h,
                 IF kind = "contig" THEN P ELSE P \cup {n}, m, c, g, K \cup {n})
  <1> DEFINE b == WrapBuf(B, H, p, addr, size)
             r == Info("WRAPPED", b, s, Nil, o)
             L == Put(I, n, r)
             T == Put(S, s, 1)
             Q == IF kind = "contig" THEN P ELSE P \cup {n}
  <1>1. /\ Ids \ DOMAIN B # {} /\ n \in Ids /\ n \notin DOMAIN I /\ s \in Ids /\ s \notin DOMAIN S
        /\ p \in Processes /\ c[p].listed /\ addr \in Addresses /\ size \in Nat
        /\ kind \in {"contig", "scatter"} /\ o \in {p, Nil} /\ (g = 0 => f = 0 /\ o # Nil)
    BY DEF Unused, MayWrap
  <1>2. /\ InfosOK(I, K) /\ BufsOK(I, B, K, Mapped(I)) /\ SyncsOK(I, S, f)
        /\ DOMAIN H = Contexts /\ HashOK(B, H) /\ MapCountOK(I, m) /\ IsFiniteSet(DOMAIN I)
    BY DEF Sound, InfosOK
  <1>3. b \in Ids
    BY <1>1, <1>2, WrapBufIn DEF BufsOK
  <1>4. /\ r \in InfoType /\ r.refCount = 1 /\ r.memType = "WRAPPED" /\ r.src = Nil
        /\ r.buf = b /\ r.sync = s /\ r.res = o
    BY <1>1, <1>3 DEF Info, InfoType, Clients
  <1> HIDE DEF r, b
  <1>5. SyncsOK(L, T, g)
    <2>1. r.sync \in Ids \ DOMAIN S /\ T = Put(S, r.sync, 1)
      BY <1>1, <1>4
    <2>2. SyncsOK(L, T, f)
      BY <1>1, <1>2, <2>1, SyncsNew
    <2> QED BY <1>1, <2>2, SyncsInexact
  <1>6. MapCountOK(L, m)
    <2>1. DOMAIN L = DOMAIN I \cup {n} /\ L[n] = r /\ \A i \in DOMAIN I : L[i].src = I[i].src
      BY <1>1 DEF Put
    <2>2. L[n].src \notin DCBuffers
      BY <1>4, <2>1, DeviceMemoryAssumption
    <2> HIDE DEF L
    <2> QED BY <1>1, <1>2, <2>1, <2>2, MapCountAdd
  <1>7. Q = PinsOf(P, n, r, kind)
    BY <1>4 DEF PinsOf
  <1>8. r.memType \in {"WRAPPED", "DEVICECLASS"} /\ r.memType # "DEVICECLASS"
    BY <1>1, <1>4
  <1>9. r.buf = WrapBuf(B, H, p, addr, size) /\ r.res \in {p, Nil} /\ (g = 0 => f = 0 /\ r.res # Nil)
    BY <1>1, <1>4 DEF b
  <1> HIDE DEF T, Q
  <1>10. Sound(L, WrapBufs(B, H, p, addr, size, kind), T, WrapHash(B, H, p, addr, size, kind),
               h, Q, m, c, g, K \cup {n})
    BY <1>1, <1>4, <1>5, <1>6, <1>7, <1>8, <1>9, AddWrapped
  <1> QED BY <1>10 DEF L, r, b, T, Q

(* A buffer of a display, whose mappings are counted.                       *)
LEMMA DisplaySound ==
    ASSUME NEW I, NEW B, NEW S, NEW H, NEW h, NEW P, NEW m, NEW c, NEW f, NEW K,
           Sound(I, B, S, H, h, P, m, c, f, K), NEW p \in Processes, c[p].listed,
           Ids \ DOMAIN B # {}, NEW n \in Ids, n \notin DOMAIN I, NEW d \in DCBuffers
    PROVE  Sound(Put(I, n, Info("DEVICECLASS", WrapBuf(B, H, p, d, 1), Nil, d, p)),
                 WrapBufs(B, H, p, d, 1, "contig"), S, WrapHash(B, H, p, d, 1, "contig"), h, P,
                 [m EXCEPT ![d] = @ + 1], c, f, K \cup {n})
  <1> DEFINE b == WrapBuf(B, H, p, d, 1)
             r == Info("DEVICECLASS", b, Nil, d, p)
             L == Put(I, n, r)
             q == [m EXCEPT ![d] = @ + 1]
  <1>1. /\ InfosOK(I, K) /\ BufsOK(I, B, K, Mapped(I)) /\ SyncsOK(I, S, f)
        /\ DOMAIN H = Contexts /\ HashOK(B, H) /\ MapCountOK(I, m) /\ IsFiniteSet(DOMAIN I)
    BY DEF Sound, InfosOK
  <1>2. b \in Ids
    BY <1>1, WrapBufIn DEF BufsOK
  <1>3. /\ r \in InfoType /\ r.refCount = 1 /\ r.memType = "DEVICECLASS" /\ r.src = d
        /\ r.buf = b /\ r.sync = Nil /\ r.res = p
    BY <1>2 DEF Info, InfoType, Clients
  <1> HIDE DEF r, b
  <1>4. SyncsOK(L, S, f)
    BY <1>1, <1>3, SyncsNone
  <1>5. MapCountOK(L, q)
    <2>1. DOMAIN L = DOMAIN I \cup {n} /\ L[n] = r /\ \A i \in DOMAIN I : L[i].src = I[i].src
      BY DEF Put
    <2>2. L[n].src = d
      BY <1>3, <2>1
    <2> HIDE DEF L
    <2>3. MapCountOK(L, [m EXCEPT ![L[n].src] = @ + 1])
      BY <1>1, <2>1, <2>2, MapCountAdd
    <2> QED BY <2>2, <2>3
  <1>6. P = PinsOf(P, n, r, "contig")
    BY DEF PinsOf
  <1>7. /\ r.memType \in {"WRAPPED", "DEVICECLASS"}
        /\ r.memType = "DEVICECLASS" => r.src \in DCBuffers
        /\ r.memType = "WRAPPED" => r.src = Nil
    BY <1>3
  <1>8. /\ r.buf = WrapBuf(B, H, p, d, 1) /\ r.res \in {p, Nil}
        /\ f = 0 => f = 0 /\ r.res # Nil
    BY <1>3, DeviceMemoryAssumption DEF b
  <1> DEFINE a == 1
             k == "contig"
  <1>9. /\ d \in Addresses \cup DCBuffers /\ a \in Nat /\ k \in {"contig", "scatter"}
        /\ r.buf = WrapBuf(B, H, p, d, a)
    BY <1>8
  <1> HIDE DEF q, a, k
  <1>10. r \in InfoType /\ r.refCount = 1
    BY <1>3
  <1>11. Sound(L, WrapBufs(B, H, p, d, a, k), S, WrapHash(B, H, p, d, a, k),
               h, PinsOf(P, n, r, k), q, c, f, K \cup {n})
    BY <1>4, <1>5, <1>7, <1>8, <1>9, <1>10, AddWrapped
  <1> QED BY <1>6, <1>11 DEF L, r, b, q, a, k

(* The pages of a buffer.                                                   *)
PagesOf(B, b, addr, size) == addr = B[b].addr /\ size = B[b].size

(* A mapping counts its source, the sync info and, as an export, the buffer
   of the source.                                                          *)
LEMMA MapSound ==
    ASSUME NEW I, NEW B, NEW S, NEW H, NEW h, NEW P, NEW m, NEW c, NEW f, NEW K,
           Sound(I, B, S, H, h, P, m, c, f, K), NEW p \in Processes, c[p].listed,
           Ids \ DOMAIN B # {}, NEW n \in Ids, n \notin DOMAIN I, NEW i \in h,
           NEW addr, NEW size, PagesOf(B, I[i].buf, addr, size),
           NEW o \in {p, Nil}, NEW g, g = 0 => f = 0 /\ o # Nil
    PROVE  Sound(Put(MoreCounted(I, i), n,
                     Info("MAPPED", WrapBuf(B, H, p, addr, size), I[i].sync, i, o)),
                 MoreExports(WrapBufs(B, H, p, addr, size, "scatter"), I[i].buf),
                 ShareSync(S, I[i].sync), WrapHash(B, H, p, addr, size, "scatter"),
                 h, P, m, c, g, K \cup {n})
  <1> DEFINE b == WrapBuf(B, H, p, addr, size)
             r == Info("MAPPED", b, I[i].sync, i, o)
             J == MoreCounted(I, i)
             L == Put(J, n, r)
             C == WrapBufs(B, H, p, addr, size, "scatter")
             G == WrapHash(B, H, p, addr, size, "scatter")
             E == MoreExports(C, I[i].buf)
             T == ShareSync(S, I[i].sync)
  <1>1. /\ InfosOK(I, K) /\ BufsOK(I, B, K, Mapped(I)) /\ SyncsOK(I, S, f)
        /\ DOMAIN H = Contexts /\ HashOK(B, H) /\ MapCountOK(I, m) /\ IsFiniteSet(DOMAIN I)
        /\ n \notin P /\ i \in DOMAIN I /\ I[i].memType \in Clients
        /\ B \in [DOMAIN B -> BufType] /\ DOMAIN B \subseteq Ids
        /\ I \in [DOMAIN I -> InfoType] /\ DOMAIN I \subseteq Ids /\ n \notin K
    BY DEF Sound, InfosOK, BufsOK, HandlesOK, PinsOK
  <1>2. b \in Ids
    BY <1>1, WrapBufIn
  <1>3. I[i].buf \in DOMAIN B
    BY <1>1, BuffersLive
  <1>4. addr \in Addresses \cup DCBuffers \cup {Nil} /\ size \in Nat
    BY <1>1, <1>3 DEF BufType, PagesOf
  <1>5. /\ r \in InfoType /\ r.refCount = 1 /\ r.memType = "MAPPED" /\ r.src = i
        /\ r.buf = b /\ r.sync = I[i].sync /\ r.res = o
    <2>1. I[i].sync \in Ids \cup {Nil} /\ i \in Ids
      BY <1>1 DEF InfoType
    <2> QED BY <1>2, <2>1 DEF Info, InfoType
  <1>6. /\ DOMAIN J = DOMAIN I
        /\ \A k \in DOMAIN I : SameLinks(J, I, k) /\ (k # i => J[k] = I[k])
        /\ J[i].res = I[i].res
    BY <1>1, ChangedMore
  <1> HIDE DEF r, b
  <1>7. InfosOK(L, K \cup {n}) /\ Mapped(L) = Mapped(I) \cup {n} /\ n \notin Mapped(I)
    <2>1. J = MoreCounted(I, r.src) /\ r.src \in DOMAIN I /\ I[r.src].memType \in Clients
      BY <1>1, <1>5
    <2>2. /\ InfosOK(Put(MoreCounted(I, r.src), n, r), K \cup {n})
          /\ Mapped(Put(MoreCounted(I, r.src), n, r)) = Mapped(I) \cup {n}
          /\ n \notin Mapped(I)
      BY <1>1, <1>5, <2>1, InfosMap
    <2> QED BY <2>1, <2>2
  <1> HIDE DEF J
  <1>8. /\ DOMAIN L = DOMAIN I \cup {n} /\ L[n] = r /\ \A k \in DOMAIN I : L[k] = J[k]
    BY <1>1, <1>6 DEF Put
  <1>9. SyncsOK(L, T, g)
    <2>1. SyncsOK(J, S, f)
      <3>1. \A k \in DOMAIN I : J[k].sync = I[k].sync
        BY <1>6 DEF SameLinks
      <3> QED BY <1>1, <1>6, <3>1, SyncsFrame
    <2>2. n \notin DOMAIN J /\ IsFiniteSet(DOMAIN J)
      BY <1>1, <1>6
    <2>3. SyncsOK(L, T, f)
      <3>1. CASE I[i].sync = Nil
        <4>1. T = S /\ r.sync = Nil
          BY <1>5, <3>1 DEF ShareSync
        <4> HIDE DEF T
        <4> QED BY <2>1, <2>2, <4>1, SyncsNone
      <3>2. CASE I[i].sync # Nil
        <4>1. r.sync \in DOMAIN S /\ T = [S EXCEPT ![r.sync] = @ + 1]
          BY <1>1, <1>5, <3>2 DEF ShareSync, SyncsOK
        <4> HIDE DEF T
        <4> QED BY <2>1, <2>2, <4>1, SyncsShare
      <3> QED BY <3>1, <3>2
    <2> HIDE DEF L, T
    <2>4. g = 0 => f = 0
      OBVIOUS
    <2> QED BY <2>3, <2>4, SyncsInexact
  <1> HIDE DEF L
  <1>10. Grows(I, L, n)
    BY <1>6, <1>8 DEF Grows, SameLinks
  <1>11. BufsOK(L, B, K, Mapped(I))
    <2>1. \A k \in DOMAIN I : SameLinks(L, I, k)
      BY <1>10 DEF Grows
    <2> QED BY <1>1, <2>1, BufsGrow
  <1>12. L[n].buf = WrapBuf(B, H, p, addr, size)
    BY <1>5, <1>8 DEF b
  <1>13. /\ BufsOK(L, C, K \cup {n}, Mapped(I)) /\ Serves(B, C, L[n].buf, p, "scatter")
         /\ HashOK(C, G) /\ DOMAIN G = Contexts
    <2> DEFINE k == "scatter"
    <2>1. Wraps(L, B, K, H, n, p, addr, size, k)
      BY <1>1, <1>4, <1>12 DEF Wraps
    <2> HIDE DEF k
    <2>2. /\ BufsOK(L, WrapBufs(B, H, p, addr, size, k), K \cup {n}, Mapped(I))
          /\ Serves(B, WrapBufs(B, H, p, addr, size, k), L[n].buf, p, k)
          /\ HashOK(WrapBufs(B, H, p, addr, size, k), WrapHash(B, H, p, addr, size, k))
          /\ DOMAIN WrapHash(B, H, p, addr, size, k) = Contexts
      BY <1>11, <2>1, WrapSound
    <2> QED BY <2>2 DEF k
  <1> HIDE DEF C, G
  <1>14. /\ SameBufs(B, C) /\ DOMAIN C = DOMAIN B \cup {L[n].buf}
         /\ C[L[n].buf].ctx = HeapOf(p) /\ C \in [DOMAIN C -> BufType] /\ I[i].buf \in DOMAIN C
    BY <1>3, <1>13 DEF Serves, BufsOK
  <1>15. L[L[n].src].buf = I[i].buf
    BY <1>1, <1>5, <1>6, <1>8 DEF SameLinks
  <1>16. BufsOK(L, E, K \cup {n}, Mapped(L)) /\ SameBufs(C, E) /\ DOMAIN E = DOMAIN C
    <2>1. n \notin Mapped(I) /\ L[L[n].src].buf \in DOMAIN C /\ E = MoreExports(C, L[L[n].src].buf)
      BY <1>7, <1>14, <1>15
    <2> HIDE DEF E
    <2>2. /\ BufsOK(L, MoreExports(C, L[L[n].src].buf), K \cup {n}, Mapped(I) \cup {n})
          /\ SameBufs(C, MoreExports(C, L[L[n].src].buf))
          /\ DOMAIN MoreExports(C, L[L[n].src].buf) = DOMAIN C
      BY <1>13, <2>1, BufsExport
    <2> QED BY <1>7, <2>1, <2>2
  <1>17. HashOK(E, G)
    <2>1. \A x \in DOMAIN C : E[x].refCount = C[x].refCount
      BY <1>14, BufChanged
    <2> HIDE DEF E
    <2>2. DOMAIN C \subseteq DOMAIN E /\ \A x \in DOMAIN C : C[x].refCount > 0 => E[x].refCount > 0
      BY <1>16, <2>1
    <2> QED BY <1>13, <1>16, <2>2, HashFrame
  <1> HIDE DEF E
  <1>18. SameBufs(B, E) /\ DOMAIN B \subseteq DOMAIN E
    BY <1>14, <1>16 DEF SameBufs
  <1>19. Settled(L, E, c, P, P, n)
    <2>1. L[n].memType = "MAPPED" /\ L[n].res \in {p, Nil}
      BY <1>5, <1>8
    <2>2. E[L[n].buf].ctx = HeapOf(p)
      BY <1>14, <1>16 DEF SameBufs
    <2> QED BY <1>1, <2>1, <2>2 DEF Settled
  <1>20. MapCountOK(L, m)
    <2>1. \A k \in DOMAIN I : L[k].src = I[k].src
      BY <1>10 DEF Grows, SameLinks
    <2>2. L[n].src \notin DCBuffers
      BY <1>1, <1>5, <1>8, DeviceMemoryAssumption
    <2> QED BY <1>1, <1>8, <2>1, <2>2, MapCountAdd
  <1>21. g = 0 => f = 0 /\ L[n].res # Nil
    BY <1>5, <1>8
  <1> HIDE DEF T
  <1>22. Sound(L, E, T, G, h, P, m, c, g, K \cup {n})
    BY <1>7, <1>9, <1>10, <1>13, <1>16, <1>17, <1>18, <1>19, <1>20, <1>21, AddSound
  <1> QED BY <1>22 DEF L, E, T, G, C, J, r, b

-----------------------------------------------------------------------------
(* Each action keeps the memory in order.                                   *)

(* Sound parts make a record that is in order.                             *)
LEMMA SoundInOrder ==
    ASSUME NEW I, NEW B, NEW S, NEW H, NEW h, NEW P, NEW m, NEW c, NEW f, NEW K,
           Sound(I, B, S, H, h, P, m, c, f, K)
    PROVE  InOrder(MemRec(I, B, S, H, h, P, m), c, f)
  <1> DEFINE M == MemRec(I, B, S, H, h, P, m)
  <1>1. /\ M.info = I /\ M.buf = B /\ M.sync = S /\ M.hash = H /\ M.handles = h
        /\ M.pinned = P /\ M.memMap = m
    BY DEF MemRec
  <1>2. K \subseteq DOMAIN I
    BY DEF Sound, InfosOK
  <1>3. M = MemRec(M.info, M.buf, M.sync, M.hash, M.handles, M.pinned, M.memMap)
    BY <1>1
  <1> HIDE DEF M
  <1>4. Hands(M, c, f, K)
    BY <1>1, <1>3 DEF Hands
  <1>5. K \in SUBSET DOMAIN M.info
    BY <1>1, <1>2
  <1>6. InOrder(M, c, f)
    BY <1>4, <1>5 DEF InOrder
  <1> QED BY <1>6 DEF M

(* The infos there are stay, with their owners.                             *)
Stay(I, L) == \A i \in DOMAIN I : i \in DOMAIN L /\ L[i].res = I[i].res

(* An info more leaves the others alone.                                   *)
LEMMA PutStays ==
    ASSUME NEW I, NEW L, NEW n, NEW r, n \notin DOMAIN I, Stay(I, L)
    PROVE  Stay(I, I) /\ Stay(I, Put(L, n, r))
  BY DEF Stay, Put

(* So does the record it is put into.                                      *)
LEMMA RecStays ==
    ASSUME NEW I, NEW L, Stay(I, L), NEW B, NEW S, NEW H, NEW h, NEW P, NEW m
    PROVE  Stay(I, MemRec(L, B, S, H, h, P, m).info)
  BY DEF MemRec

(* The parts of the record.                                                 *)
I0 == mem.info
B0 == mem.buf
S0 == mem.sync
H0 == mem.hash
P0 == mem.pinned
h0 == mem.handles
m0 == mem.memMap

(* What is in order is sound, part by part.                                *)
LEMMA Parts ==
    ASSUME InOrder(mem, context, faults)
    PROVE  /\ mem = MemRec(I0, B0, S0, H0, h0, P0, m0)
           /\ \E K \in SUBSET DOMAIN I0 : Sound(I0, B0, S0, H0, h0, P0, m0, context, faults, K)
  BY DEF InOrder, Hands, I0, B0, S0, H0, h0, P0, m0

(* What a context leaves behind: the buffers, of no context any more.       *)
Stranded(B, p) ==
    [b \in DOMAIN B |-> IF B[b].ctx # p THEN B[b]
                        ELSE [B[b] EXCEPT !.ctx = Nil, !.devMapped = FALSE]]

(* BM_DestroyContextCallBack is about the buffers and the hash.             *)
LEMMA ContextGoneIs ==
    ASSUME NEW I, NEW B, NEW S, NEW H, NEW h, NEW P, NEW m, NEW p
    PROVE  BM_DestroyContextCallBack(MemRec(I, B, S, H, h, P, m), p)
             = MemRec(I, Stranded(B, p), S, [H EXCEPT ![p] = <<>>], h, P, m)
  <1> DEFINE M == MemRec(I, B, S, H, h, P, m)
             N == [M EXCEPT !.hash[p] = <<>>]
             C == Stranded(B, p)
  <1>1. N = MemRec(I, B, S, [H EXCEPT ![p] = <<>>], h, P, m)
    BY DEF MemRec
  <1>2. N.buf = B
    BY <1>1 DEF MemRec
  <1>3. BM_DestroyContextCallBack(M, p) = [N EXCEPT !.buf = Stranded(N.buf, p)]
    BY DEF BM_DestroyContextCallBack, Stranded
  <1> HIDE DEF M, N, C
  <1>4. [N EXCEPT !.buf = C] = MemRec(I, C, S, [H EXCEPT ![p] = <<>>], h, P, m)
    BY <1>1 DEF MemRec
  <1> QED BY <1>2, <1>3, <1>4 DEF M, C

(* A buffer that is left keeps all but its context and its mapping.         *)
LEMMA StrandedBuf ==
    ASSUME NEW B, B \in [DOMAIN B -> BufType], NEW p, NEW b \in DOMAIN B
    PROVE  LET C == Stranded(B, p)
           IN  /\ C[b] \in BufType
               /\ C[b].kind = B[b].kind /\ C[b].addr = B[b].addr
               /\ C[b].refCount = B[b].refCount /\ C[b].exportCount = B[b].exportCount
               /\ B[b].ctx # p => C[b] = B[b]
               /\ B[b].ctx = p => C[b].ctx = Nil
  <1> DEFINE r == B[b]
             d == [r EXCEPT !.ctx = Nil, !.devMapped = FALSE]
  <1>1. r \in BufType
    OBVIOUS
  <1>2. Stranded(B, p)[b] = IF r.ctx # p THEN r ELSE d
    BY DEF Stranded
  <1> HIDE DEF r
  <1>3. /\ d \in BufType /\ d.ctx = Nil /\ d.kind = r.kind /\ d.addr = r.addr
        /\ d.refCount = r.refCount /\ d.exportCount = r.exportCount
    BY <1>1 DEF BufType, Contexts
  <1> HIDE DEF d
  <1> QED BY <1>1, <1>2, <1>3 DEF r

(* The buffers, the hash and the pins stay sound without the context.       *)
LEMMA StrandedSound ==
    ASSUME NEW I, NEW B, NEW K, NEW J, BufsOK(I, B, K, J), NEW H, DOMAIN H = Contexts,
           HashOK(B, H), NEW P, PinsOK(I, B, P), NEW p \in Processes
    PROVE  /\ BufsOK(I, Stranded(B, p), K, J) /\ PinsOK(I, Stranded(B, p), P)
           /\ HashOK(Stranded(B, p), [H EXCEPT ![p] = <<>>])
           /\ DOMAIN [H EXCEPT ![p] = <<>>] = Contexts
  <1> DEFINE C == Stranded(B, p)
             G == [H EXCEPT ![p] = <<>>]
  <1>1. DOMAIN C = DOMAIN B /\ B \in [DOMAIN B -> BufType]
    BY DEF Stranded, BufsOK
  <1>2. ASSUME NEW b \in DOMAIN B
        PROVE  /\ C[b] \in BufType /\ C[b].kind = B[b].kind /\ C[b].addr = B[b].addr
               /\ C[b].refCount = B[b].refCount /\ C[b].exportCount = B[b].exportCount
               /\ B[b].ctx # p => C[b] = B[b]
               /\ B[b].ctx = p => C[b].ctx = Nil
    BY <1>1, StrandedBuf
  <1>3. C \in [DOMAIN C -> BufType]
    BY <1>1, <1>2 DEF Stranded
  <1>4. DOMAIN G = Contexts /\ G[p] = <<>> /\ \A c \in Contexts : c # p => G[c] = H[c]
    BY DEF Contexts
  <1> HIDE DEF C, G
  <1>5. ASSUME NEW b \in DOMAIN B PROVE BufOK(I, C, K, J, b)
    <2>1. BufOK(I, B, K, J, b)
      BY DEF BufsOK
    <2> QED BY <1>2, <2>1 DEF BufOK
  <1>6. BufsOK(I, C, K, J)
    BY <1>1, <1>3, <1>5 DEF BufsOK
  <1>7. PinsOK(I, C, P)
    BY <1>1, <1>2 DEF PinsOK, Contiguous
  <1>8. ASSUME NEW c \in DOMAIN G, NEW a \in DOMAIN G[c]
        PROVE  /\ G[c][a] \in DOMAIN C
               /\ C[G[c][a]].kind = "contig" /\ C[G[c][a]].refCount > 0
               /\ C[G[c][a]].addr = a /\ C[G[c][a]].ctx = c
    <2>1. c # p
      BY <1>4, <1>8
    <2>2. c \in DOMAIN H /\ G[c] = H[c]
      BY <1>4, <1>8, <2>1
    <2>3. /\ G[c][a] \in DOMAIN B
          /\ B[G[c][a]].kind = "contig" /\ B[G[c][a]].refCount > 0
          /\ B[G[c][a]].addr = a /\ B[G[c][a]].ctx = c
      BY <1>8, <2>2 DEF HashOK
    <2>4. C[G[c][a]] = B[G[c][a]]
      BY <1>2, <2>1, <2>3
    <2> QED BY <1>1, <2>3, <2>4
  <1>9. HashOK(C, G)
    BY <1>8 DEF HashOK
  <1> QED BY <1>4, <1>6, <1>7, <1>9 DEF C, G

(* A context changes and is still there: who has memory finds it there.     *)
LEMMA ContextStays ==
    ASSUME InOrder(mem, context, faults), NEW p \in Processes,
           NEW x \in ContextRec, x.listed, context \in ContextType,
           context' = [context EXCEPT ![p] = x], mem' = mem,
           faults' = faults \/ faults' = faults + 1, faults \in Nat
    PROVE  /\ InOrder(mem', context', faults') /\ context' \in ContextType
           /\ Stay(I0, mem'.info)
  <1>1. /\ mem = MemRec(I0, B0, S0, H0, h0, P0, m0)
        /\ \E K \in SUBSET DOMAIN I0 : Sound(I0, B0, S0, H0, h0, P0, m0, context, faults, K)
    BY Parts
  <1>2. PICK K \in SUBSET DOMAIN I0 : Sound(I0, B0, S0, H0, h0, P0, m0, context, faults, K)
    BY <1>1
  <1>3. /\ context' \in ContextType
        /\ \A q \in Processes : context[q].listed => context'[q].listed
    BY DEF ContextType
  <1>4. /\ InfosOK(I0, K) /\ SyncsOK(I0, S0, faults)
        /\ DOMAIN H0 = Contexts /\ HashOK(B0, H0) /\ OwnersOK(I0, B0, context)
    BY <1>2 DEF Sound
  <1>5. OwnersOK(I0, B0, context')
    <2>1. ASSUME NEW i \in DOMAIN I0, I0[i].res # Nil
          PROVE  InHeapOf(I0[i].res, B0, I0[i].buf, context')
      <3>1. I0[i].res \in Processes
        BY <1>4, <2>1 DEF InfosOK, InfoType
      <3>2. InHeapOf(I0[i].res, B0, I0[i].buf, context)
        BY <1>4, <2>1 DEF OwnersOK
      <3> QED BY <1>3, <3>1, <3>2 DEF InHeapOf
    <2> QED BY <2>1 DEF OwnersOK
  <1>6. (faults' = 0 => faults = 0) /\ SyncsOK(I0, S0, faults')
    <2>1. faults' = 0 => faults = 0
      OBVIOUS
    <2> QED BY <1>4, <2>1, SyncsInexact
  <1>7. Sound(I0, B0, S0, H0, h0, P0, m0, context', faults', K)
    BY <1>2, <1>4, <1>5, <1>6, SoundLess
  <1>8. Stay(I0, mem'.info)
    BY DEF Stay, I0
  <1> QED BY <1>1, <1>3, <1>7, <1>8, SoundInOrder

(* A context goes, when no memory from an arena is there or the process has
   no memory at all: what lies there is of no context.                      *)
LEMMA ContextGoes ==
    ASSUME InOrder(mem, context, faults), NEW p \in Processes, context \in ContextType,
           context' = [context EXCEPT ![p] = NoContext],
           mem' = BM_DestroyContextCallBack(mem, p),
           faults' = faults \/ faults' = faults + 1, faults \in Nat,
           \/ Owned(p) = {}
           \/ \A b \in DOMAIN mem.buf : mem.buf[b].kind = "ram" => mem.buf[b].ctx # p
    PROVE  /\ InOrder(mem', context', faults') /\ context' \in ContextType
           /\ Stay(I0, mem'.info)
  <1>1. /\ mem = MemRec(I0, B0, S0, H0, h0, P0, m0)
        /\ \E K \in SUBSET DOMAIN I0 : Sound(I0, B0, S0, H0, h0, P0, m0, context, faults, K)
    BY Parts
  <1>2. PICK K \in SUBSET DOMAIN I0 : Sound(I0, B0, S0, H0, h0, P0, m0, context, faults, K)
    BY <1>1
  <1>3. /\ context' \in ContextType
        /\ \A q \in Processes : q # p => context'[q] = context[q]
    BY DEF ContextType, ContextRec, NoContext
  <1>4. /\ InfosOK(I0, K) /\ BufsOK(I0, B0, K, Mapped(I0)) /\ SyncsOK(I0, S0, faults)
        /\ DOMAIN H0 = Contexts /\ HashOK(B0, H0) /\ PinsOK(I0, B0, P0)
        /\ OwnersOK(I0, B0, context)
        /\ HandlesOK(I0, h0) /\ MapCountOK(I0, m0)
        /\ (faults = 0 => \A k \in K : I0[k].res # Nil)
    BY <1>2 DEF Sound
  <1> DEFINE C == Stranded(B0, p)
             G == [H0 EXCEPT ![p] = <<>>]
  <1>5. BufsOK(I0, C, K, Mapped(I0)) /\ PinsOK(I0, C, P0) /\ HashOK(C, G) /\ DOMAIN G = Contexts
    BY <1>4, StrandedSound
  <1>6. OwnersOK(I0, C, context')
    <2>1. ASSUME NEW i \in DOMAIN I0, I0[i].res # Nil
          PROVE  InHeapOf(I0[i].res, C, I0[i].buf, context')
      <3> DEFINE b == I0[i].buf
                 q == I0[i].res
      <3>1. q \in Processes
        BY <1>4, <2>1 DEF InfosOK, InfoType
      <3>2. InHeapOf(q, B0, b, context)
        BY <1>4, <2>1 DEF OwnersOK
      <3>3. b \in DOMAIN B0 /\ B0 \in [DOMAIN B0 -> BufType]
        BY <1>4, BuffersLive DEF BufsOK
      <3>4. /\ C[b].kind = B0[b].kind /\ (B0[b].ctx # p => C[b] = B0[b])
            /\ B0[b].ctx = p => C[b].ctx = Nil
        BY <3>3, StrandedBuf
      <3>5. q = p => Owned(p) # {}
        BY <2>1 DEF Owned, I0
      <3>6. B0[b].ctx = p => q = p /\ B0[b].kind # "ram"
        <4> SUFFICES ASSUME B0[b].ctx = p PROVE q = p /\ B0[b].kind # "ram"
          OBVIOUS
        <4>1. q = p
          BY <3>2, DeviceMemoryAssumption DEF InHeapOf, HeapOf
        <4>2. B0[b].kind # "ram"
          BY <3>3, <3>5, <4>1 DEF B0
        <4> QED BY <4>1, <4>2
      <3> HIDE DEF b, q, C
      <3>7. ASSUME B0[b].ctx = p PROVE InHeapOf(q, C, b, context')
        BY <3>4, <3>6, <3>7 DEF InHeapOf
      <3>8. ASSUME B0[b].ctx # p, q # p PROVE InHeapOf(q, C, b, context')
        <4>1. C[b] = B0[b] /\ context'[q] = context[q]
          BY <1>3, <3>1, <3>4, <3>8
        <4> QED BY <3>2, <4>1 DEF InHeapOf
      <3>9. ASSUME B0[b].ctx # p, q = p PROVE InHeapOf(q, C, b, context')
        <4>1. C[b] = B0[b]
          BY <3>4, <3>9
        <4>2. ~HeapShared => B0[b].ctx = Nil
          BY <3>2, <3>9 DEF InHeapOf, HeapOf
        <4> QED BY <3>2, <4>1, <4>2 DEF InHeapOf
      <3> QED BY <3>7, <3>8, <3>9 DEF b, q
    <2> QED BY <2>1 DEF OwnersOK
  <1>7. (faults' = 0 => faults = 0) /\ SyncsOK(I0, S0, faults')
    <2>1. faults' = 0 => faults = 0
      OBVIOUS
    <2> QED BY <1>4, <2>1, SyncsInexact
  <1>8. mem' = MemRec(I0, C, S0, G, h0, P0, m0)
    BY <1>1, ContextGoneIs
  <1> HIDE DEF C, G
  <1>9. Sound(I0, C, S0, G, h0, P0, m0, context', faults', K)
    BY <1>4, <1>5, <1>6, <1>7 DEF Sound
  <1>10. Stay(I0, mem'.info)
    BY <1>8 DEF Stay, MemRec
  <1> QED BY <1>3, <1>8, <1>9, <1>10, SoundInOrder

(* BM_DestroyContext leaves the context there, or has found no memory from
   an arena there.                                                          *)
LEMMA Destroyed ==
    ASSUME NEW p, NEW c \in ContextRec
    PROVE  LET d == BM_DestroyContext(p, c)
           IN  \/ d = NoContext /\ RA_TestDelete(p, c)
               \/ d \in ContextRec /\ d.listed = c.listed
  <1> DEFINE n == Decremented(c.refCount)
  <1>1. n \in Nat
    <2>1. c.refCount \in Nat /\ Modulus \in Nat /\ Modulus > 0
      BY DeviceMemoryAssumption DEF ContextRec
    <2> QED BY <2>1 DEF Decremented
  <1>2. \/ BM_DestroyContext(p, c) = [c EXCEPT !.refCount = n]
        \/ BM_DestroyContext(p, c) = NoContext /\ RA_TestDelete(p, c)
    BY DEF BM_DestroyContext
  <1> HIDE DEF n
  <1>3. [c EXCEPT !.refCount = n] \in ContextRec /\ [c EXCEPT !.refCount = n].listed = c.listed
    BY <1>1 DEF ContextRec
  <1> QED BY <1>2, <1>3

(* CreateDeviceMemContextKM leaves the context there, or as it was.        *)
LEMMA CreateStep ==
    ASSUME InOrder(mem, context, faults), faults \in Nat, context \in ContextType,
           NEW p \in Processes, CreateDeviceMemContextKM(p)
    PROVE  /\ InOrder(mem', context', faults') /\ context' \in ContextType
           /\ Stay(I0, mem'.info)
  <1> DEFINE c == BM_CreateContext(context[p])
             d == BM_DestroyContext(p, c)
  <1>1. /\ context[p] \in ContextRec /\ p \in DOMAIN context
        /\ faults' = faults \/ faults' = faults + 1
        /\ context' = [context EXCEPT ![p] = c] \/ context' = [context EXCEPT ![p] = d]
        /\ MemoryFollows(p)
    BY DEF CreateDeviceMemContextKM, ContextType, Short
  <1>2. c \in ContextRec /\ c.listed
    <2> DEFINE n == (context[p].refCount + 1) % Modulus
               y == context[p].remade \/ n = 0
    <2>1. n \in Nat
      <3>1. context[p].refCount + 1 \in Nat /\ Modulus \in Nat /\ Modulus > 0
        BY <1>1, DeviceMemoryAssumption DEF ContextRec
      <3> QED BY <3>1
    <2>2. y \in BOOLEAN
      BY <1>1, Zenon DEF ContextRec
    <2>3. c = [context[p] EXCEPT !.refCount = n, !.listed = TRUE, !.remade = y]
      BY DEF BM_CreateContext
    <2> HIDE DEF n, y, c
    <2> QED BY <1>1, <2>1, <2>2, <2>3 DEF ContextRec
  <1>3. (d = NoContext /\ RA_TestDelete(p, c)) \/ (d \in ContextRec /\ d.listed)
    BY <1>2, Destroyed
  <1> HIDE DEF c, d
  <1>4. CASE \E x \in ContextRec : x.listed /\ context' = [context EXCEPT ![p] = x]
    <2>1. PICK x \in ContextRec : x.listed /\ context' = [context EXCEPT ![p] = x]
      BY <1>4
    <2>2. mem' = mem
      BY <1>1, <2>1 DEF MemoryFollows
    <2> QED BY <1>1, <2>1, <2>2, ContextStays
  <1>5. CASE RA_TestDelete(p, c) /\ context' = [context EXCEPT ![p] = NoContext]
    <2>1. mem' = BM_DestroyContextCallBack(mem, p)
      BY <1>1, <1>5 DEF MemoryFollows, NoContext
    <2> QED BY <1>1, <1>5, <2>1, ContextGoes DEF RA_TestDelete
  <1> QED BY <1>1, <1>2, <1>3, <1>4, <1>5

(* DestroyDeviceMemContextKM drops a context whose arenas are empty.       *)
LEMMA DestroyStep ==
    ASSUME InOrder(mem, context, faults), faults \in Nat, context \in ContextType,
           NEW p \in Processes, DestroyDeviceMemContextKM(p)
    PROVE  /\ InOrder(mem', context', faults') /\ context' \in ContextType
           /\ Stay(I0, mem'.info)
  <1> DEFINE d == BM_DestroyContext(p, context[p])
  <1>1. /\ context[p] \in ContextRec /\ p \in DOMAIN context /\ context[p].listed
        /\ faults' = faults /\ context' = [context EXCEPT ![p] = d] /\ MemoryFollows(p)
    BY DEF DestroyDeviceMemContextKM, Ready, ContextType
  <1>2. (d = NoContext /\ RA_TestDelete(p, context[p])) \/ (d \in ContextRec /\ d.listed)
    BY <1>1, Destroyed
  <1> HIDE DEF d
  <1>3. CASE d \in ContextRec /\ d.listed
    <2>1. mem' = mem
      BY <1>1, <1>3 DEF MemoryFollows
    <2> QED BY <1>1, <1>3, <2>1, ContextStays
  <1>4. CASE d = NoContext /\ RA_TestDelete(p, context[p])
    <2>1. mem' = BM_DestroyContextCallBack(mem, p)
      BY <1>1, <1>4 DEF MemoryFollows, NoContext
    <2> QED BY <1>1, <1>4, <2>1, ContextGoes DEF RA_TestDelete
  <1> QED BY <1>2, <1>3, <1>4

(* DestroyContextCallBack comes when the process has nothing any more.     *)
LEMMA EndStep ==
    ASSUME InOrder(mem, context, faults), faults \in Nat, context \in ContextType,
           exiting \in Processes \cup {Nil}, DestroyContextCallBack
    PROVE  /\ InOrder(mem', context', faults') /\ context' \in ContextType
           /\ Stay(I0, mem'.info)
  <1> DEFINE p == exiting
  <1>1. /\ p \in Processes /\ Owned(p) = {} /\ context' = [context EXCEPT ![p] = NoContext]
        /\ mem' = BM_DestroyContextCallBack(mem, p) /\ faults' = faults
    BY DEF DestroyContextCallBack
  <1> HIDE DEF p
  <1> QED BY <1>1, ContextGoes

(* AllocDeviceMemKM: makes memory, or at most leaves a sync info or a
   segment of an arena.                                                     *)
LEMMA AllocStep ==
    ASSUME InOrder(mem, context, faults), faults \in Nat, context \in ContextType,
           NEW p \in Processes, NEW withSync \in BOOLEAN, AllocDeviceMemKM(p, withSync)
    PROVE  /\ InOrder(mem', context', faults') /\ context' \in ContextType
           /\ Stay(I0, mem'.info)
  <1> DEFINE n == NewId(I0)
             b == NewId(B0)
             s == IF withSync THEN NewId(S0) ELSE Nil
             T == IF withSync THEN Put(S0, NewId(S0), 1) ELSE S0
             A == MemRec(I0, Put(B0, b, NewRam(p)), S0, H0, h0, P0, m0)
             N == MemRec(I0, Put(B0, b, NewRam(p)), T, H0, h0, P0, m0)
             r == Info("DEVICE", b, s, Nil, p)
  <1>1. /\ mem = MemRec(I0, B0, S0, H0, h0, P0, m0)
        /\ \E K \in SUBSET DOMAIN I0 : Sound(I0, B0, S0, H0, h0, P0, m0, context, faults, K)
    BY Parts
  <1>2. PICK K \in SUBSET DOMAIN I0 : Sound(I0, B0, S0, H0, h0, P0, m0, context, faults, K)
    BY <1>1
  <1>3. context[p].listed
    BY DEF AllocDeviceMemKM, Ready
  <1>4. /\ Ids \ DOMAIN I0 # {} /\ Ids \ DOMAIN B0 # {} /\ Ids \ DOMAIN S0 # {}
    BY DEF AllocDeviceMemKM, Room, I0, B0, S0
  <1>5. /\ n \in Ids /\ n \notin DOMAIN I0 /\ b \in Ids /\ b \notin DOMAIN B0
        /\ NewId(S0) \in Ids /\ NewId(S0) \notin DOMAIN S0
    BY <1>4, NewIdFresh
  <1>6. BM_Alloc(mem, p) = A
    BY <1>1, BM_AllocIs
  <1>7. (IF withSync THEN AllocSyncInfo(A) ELSE A) = N
    <2>1. AllocSyncInfo(A) = MemRec(I0, Put(B0, b, NewRam(p)), Put(S0, NewId(S0), 1), H0, h0, P0, m0)
      BY AllocSyncIs
    <2> QED BY <2>1
  <1>8. AddInfo(N, r) = MemRec(Put(I0, n, r), Put(B0, b, NewRam(p)), T, H0, h0, P0, m0)
    BY AddInfoIs
  <1>9. \/ s = Nil /\ T = S0
        \/ s \in Ids /\ s \notin DOMAIN S0 /\ T = Put(S0, s, 1)
    BY <1>5
  <1>10. [mem EXCEPT !.sync = N.sync] = MemRec(I0, B0, T, H0, h0, P0, m0)
    BY <1>1 DEF MemRec
  <1>11. \/ mem' = AddInfo(N, r) /\ faults' = faults /\ context' = context
         \/ mem' = mem /\ faults' = faults + 1 /\ context' = context
         \/ /\ mem' = mem /\ faults' = faults + 1
            /\ context' = [context EXCEPT ![p].leaked = @ \/ ~HeapShared]
         \/ mem' = [mem EXCEPT !.sync = N.sync] /\ faults' = faults + 1 /\ context' = context
    <2>1. r = Info("DEVICE", NewId(mem.buf), IF withSync THEN NewId(mem.sync) ELSE Nil, Nil, p)
      BY DEF B0, S0
    <2> HIDE DEF r, N, A
    <2> QED BY <1>6, <1>7, <2>1 DEF AllocDeviceMemKM, Short
  <1> HIDE DEF A, N, T, s, b, n
  <1>12. CASE mem' = AddInfo(N, r) /\ faults' = faults /\ context' = context
    <2>1. Sound(Put(I0, n, r), Put(B0, b, NewRam(p)), T, H0, h0, P0, m0, context, faults, K \cup {n})
      BY <1>2, <1>3, <1>5, <1>9, AllocSound
    <2> HIDE DEF r
    <2>2. Stay(I0, Put(I0, n, r))
      BY <1>5, PutStays DEF Stay
    <2>3. Stay(I0, mem'.info)
      BY <1>8, <1>12, <2>2, RecStays
    <2> QED BY <1>8, <1>12, <2>1, <2>3, SoundInOrder
  <1>13. ASSUME faults' = faults + 1, context' = context,
                NEW U, U = S0 \/ U = T, mem' = MemRec(I0, B0, U, H0, h0, P0, m0)
         PROVE  InOrder(mem', context', faults') /\ Stay(I0, mem'.info)
    <2>1. faults' # 0
      BY <1>13
    <2>2. /\ SyncsOK(I0, S0, faults) /\ DOMAIN H0 = Contexts /\ HashOK(B0, H0)
          /\ OwnersOK(I0, B0, context)
      BY <1>2 DEF Sound
    <2>3. SyncsOK(I0, U, faults')
      <3>1. CASE U = S0
        BY <2>1, <2>2, <3>1, SyncsInexact
      <3>2. CASE U = Put(S0, s, 1) /\ s \in Ids /\ s \notin DOMAIN S0
        BY <2>1, <2>2, <3>2, SyncsLeak
      <3> QED BY <1>9, <1>13, <3>1, <3>2
    <2>4. Sound(I0, B0, U, H0, h0, P0, m0, context, faults', K)
      BY <1>2, <2>1, <2>2, <2>3, SoundLess
    <2>5. Stay(I0, mem'.info)
      BY <1>13 DEF Stay, MemRec
    <2> QED BY <1>13, <2>4, <2>5, SoundInOrder
  <1>14. CASE /\ mem' = mem /\ faults' = faults + 1
              /\ context' = [context EXCEPT ![p].leaked = @ \/ ~HeapShared]
    <2> DEFINE l == context[p].leaked \/ ~HeapShared
               x == [context[p] EXCEPT !.leaked = l]
    <2>1. l \in BOOLEAN /\ context[p] \in ContextRec /\ p \in DOMAIN context
      BY DeviceMemoryAssumption DEF ContextType, ContextRec
    <2>2. context' = [context EXCEPT ![p] = [@ EXCEPT !.leaked = l]]
      BY <1>14
    <2> HIDE DEF l
    <2>3. x \in ContextRec /\ x.listed = context[p].listed
      BY <2>1 DEF ContextRec
    <2>4. context' = [context EXCEPT ![p] = x]
      BY <2>1, <2>2 DEF ContextType
    <2> HIDE DEF x
    <2> QED BY <1>3, <1>14, <2>3, <2>4, ContextStays
  <1> QED BY <1>1, <1>10, <1>11, <1>12, <1>13, <1>14

(* BM_Wrap that failed has forgotten an entry at most.                      *)
LEMMA WrapFailsStep ==
    ASSUME InOrder(mem, context, faults), faults \in Nat, NEW p, NEW addr, NEW size,
           mem' = WrapFails(mem, p, addr, size), faults' = faults + 1, context' = context
    PROVE  InOrder(mem', context', faults') /\ Stay(I0, mem'.info)
  <1>1. /\ mem = MemRec(I0, B0, S0, H0, h0, P0, m0)
        /\ \E K \in SUBSET DOMAIN I0 : Sound(I0, B0, S0, H0, h0, P0, m0, context, faults, K)
    BY Parts
  <1>2. PICK K \in SUBSET DOMAIN I0 : Sound(I0, B0, S0, H0, h0, P0, m0, context, faults, K)
    BY <1>1
  <1> DEFINE G == IF Finds(B0, H0, p, addr, size) THEN H0 ELSE HashWithout(H0, HeapOf(p), addr)
  <1>3. mem' = MemRec(I0, B0, S0, G, h0, P0, m0)
    BY <1>1, WrapFailsIs
  <1>4. /\ SyncsOK(I0, S0, faults) /\ DOMAIN H0 = Contexts /\ HashOK(B0, H0)
        /\ OwnersOK(I0, B0, context)
    BY <1>2 DEF Sound
  <1>5. DOMAIN G = Contexts /\ HashOK(B0, G)
    <2>1. /\ HashOK(B0, HashWithout(H0, HeapOf(p), addr))
          /\ DOMAIN HashWithout(H0, HeapOf(p), addr) = DOMAIN H0
      BY <1>4, HashLess
    <2> QED BY <1>4, <2>1
  <1>6. faults' # 0
    OBVIOUS
  <1>7. SyncsOK(I0, S0, faults')
    BY <1>4, <1>6, SyncsInexact
  <1> HIDE DEF G
  <1>8. Sound(I0, B0, S0, G, h0, P0, m0, context, faults', K)
    BY <1>2, <1>4, <1>5, <1>6, <1>7, SoundLess
  <1>9. Stay(I0, mem'.info)
    BY <1>3 DEF Stay, MemRec
  <1> QED BY <1>3, <1>8, <1>9, SoundInOrder

(* WrapExtMemoryKM, whose info may be nobody's.                            *)
LEMMA WrapStep ==
    ASSUME InOrder(mem, context, faults), faults \in Nat, NEW p \in Processes,
           NEW addr \in Addresses, NEW size \in Nat, NEW contig \in BOOLEAN,
           WrapExtMemoryKM(p, addr, size, contig)
    PROVE  InOrder(mem', context', faults') /\ Stay(I0, mem'.info)
  <1> DEFINE kind == IF contig THEN "contig" ELSE "scatter"
             n == NewId(I0)
             b == WrapBuf(B0, H0, p, addr, size)
             s == NewId(S0)
             C == WrapBufs(B0, H0, p, addr, size, kind)
             G == WrapHash(B0, H0, p, addr, size, kind)
             T == Put(S0, s, 1)
             N == MemRec(I0, C, T, G, h0, P0, m0)
             Q == IF kind = "contig" THEN P0 ELSE P0 \cup {n}
             r(o) == Info("WRAPPED", b, s, Nil, o)
             F(o) == MemRec(Put(I0, n, r(o)), C, T, G, h0, Q, m0)
             D(o) == [AddInfo(N, r(o)) EXCEPT !.pinned = IF contig THEN @ ELSE @ \cup {n}]
  <1>1. /\ mem = MemRec(I0, B0, S0, H0, h0, P0, m0)
        /\ \E K \in SUBSET DOMAIN I0 : Sound(I0, B0, S0, H0, h0, P0, m0, context, faults, K)
    BY Parts
  <1>2. PICK K \in SUBSET DOMAIN I0 : Sound(I0, B0, S0, H0, h0, P0, m0, context, faults, K)
    BY <1>1
  <1>3. context[p].listed /\ context' = context
    BY DEF WrapExtMemoryKM, Ready
  <1>4. /\ Ids \ DOMAIN I0 # {} /\ Ids \ DOMAIN B0 # {} /\ Ids \ DOMAIN S0 # {}
    BY DEF WrapExtMemoryKM, Room, I0, B0, S0
  <1>5. n \in Ids /\ n \notin DOMAIN I0 /\ s \in Ids /\ s \notin DOMAIN S0
    BY <1>4, NewIdFresh
  <1>6. kind \in {"contig", "scatter"} /\ (kind = "contig" <=> contig)
    OBVIOUS
  <1>7. BufOf(mem, p, addr, size) = b
    BY <1>1, BufOfIs
  <1>8. BM_Wrap(mem, p, addr, size, contig) = WrapAt(mem, p, addr, size, kind)
    BY WrapIsWrapAt
  <1> HIDE DEF kind
  <1>9. WrapAt(mem, p, addr, size, kind) = MemRec(I0, C, S0, G, h0, P0, m0)
    BY <1>1, WrapAtIs
  <1>10. AllocSyncInfo(BM_Wrap(mem, p, addr, size, contig)) = N
    BY <1>8, <1>9, AllocSyncIs
  <1> HIDE DEF b, s, C, G, T
  <1>11. ASSUME NEW o
         PROVE  D(o) = F(o)
    <2>1. AddInfo(N, r(o)) = MemRec(Put(I0, n, r(o)), C, T, G, h0, P0, m0)
      BY AddInfoIs
    <2> HIDE DEF N, r, n
    <2>2. CASE contig
      BY <1>6, <2>1, <2>2 DEF MemRec
    <2>3. CASE ~contig
      BY <1>6, <2>1, <2>3 DEF MemRec
    <2> QED BY <2>2, <2>3
  <1>12. \/ mem' = F(p) /\ faults' = faults
         \/ mem' = WrapFails(mem, p, addr, size) /\ faults' = faults + 1
         \/ mem' = F(Nil) /\ faults' = faults + 1
    <2>1. NewId(mem.sync) = s /\ NewId(mem.info) = n
      BY DEF S0, I0, s
    <2> HIDE DEF N, n
    <2>2. \/ mem' = D(p) /\ faults' = faults
          \/ mem' = WrapFails(mem, p, addr, size) /\ faults' = faults + 1
          \/ mem' = D(Nil) /\ faults' = faults + 1
      BY <1>7, <1>10, <2>1 DEF WrapExtMemoryKM, Short
    <2> HIDE DEF D, F
    <2>3. D(p) = F(p) /\ D(Nil) = F(Nil)
      BY <1>11
    <2> QED BY <2>2, <2>3
  <1>13. ASSUME NEW o \in {p, Nil}, NEW g, g = 0 => faults = 0 /\ o # Nil
         PROVE  InOrder(F(o), context, g) /\ Stay(I0, F(o).info)
    <2>1. Sound(Put(I0, n, r(o)), C, T, G, h0, Q, m0, context, g, K \cup {n})
      <3>1. Unused(I0, B0, S0, n, s)
        BY <1>4, <1>5 DEF Unused
      <3>2. MayWrap(context, p, addr, size, kind, o, faults, g)
        BY <1>3, <1>6, <1>13 DEF MayWrap
      <3> QED BY <1>2, <3>1, <3>2, WrapExtSound DEF b, C, G, T
    <2> HIDE DEF r, Q, n
    <2>2. Stay(I0, Put(I0, n, r(o)))
      BY <1>5, PutStays DEF Stay
    <2>3. Stay(I0, F(o).info)
      BY <2>2, RecStays
    <2> QED BY <2>1, <2>3, SoundInOrder
  <1> HIDE DEF F
  <1>14. CASE mem' = F(p) /\ faults' = faults
    <2>1. p # Nil
      BY DeviceMemoryAssumption
    <2> QED BY <1>3, <1>13, <1>14, <2>1
  <1>15. CASE mem' = F(Nil) /\ faults' = faults + 1
    <2>1. faults' # 0
      BY <1>15
    <2> QED BY <1>3, <1>13, <1>15, <2>1
  <1>16. CASE mem' = WrapFails(mem, p, addr, size) /\ faults' = faults + 1
    BY <1>3, <1>16, WrapFailsStep
  <1> QED BY <1>12, <1>14, <1>15, <1>16

(* MapDeviceClassMemoryKM.                                                 *)
LEMMA DisplayStep ==
    ASSUME InOrder(mem, context, faults), faults \in Nat, NEW p \in Processes,
           NEW d \in DCBuffers, MapDeviceClassMemoryKM(p, d)
    PROVE  InOrder(mem', context', faults') /\ Stay(I0, mem'.info)
  <1> DEFINE n == NewId(I0)
             b == WrapBuf(B0, H0, p, d, 1)
             C == WrapBufs(B0, H0, p, d, 1, "contig")
             G == WrapHash(B0, H0, p, d, 1, "contig")
             r == Info("DEVICECLASS", b, Nil, d, p)
             N == MemRec(I0, C, S0, G, h0, P0, m0)
             D == [AddInfo(N, r) EXCEPT !.memMap[d] = @ + 1]
             F == MemRec(Put(I0, n, r), C, S0, G, h0, P0, [m0 EXCEPT ![d] = @ + 1])
  <1>1. /\ mem = MemRec(I0, B0, S0, H0, h0, P0, m0)
        /\ \E K \in SUBSET DOMAIN I0 : Sound(I0, B0, S0, H0, h0, P0, m0, context, faults, K)
    BY Parts
  <1>2. PICK K \in SUBSET DOMAIN I0 : Sound(I0, B0, S0, H0, h0, P0, m0, context, faults, K)
    BY <1>1
  <1>3. context[p].listed /\ context' = context
    BY DEF MapDeviceClassMemoryKM, Ready
  <1>4. Ids \ DOMAIN I0 # {} /\ Ids \ DOMAIN B0 # {}
    BY DEF MapDeviceClassMemoryKM, Room, I0, B0
  <1>5. n \in Ids /\ n \notin DOMAIN I0
    BY <1>4, NewIdFresh
  <1>6. BufOf(mem, p, d, 1) = b
    BY <1>1, BufOfIs
  <1>7. BM_Wrap(mem, p, d, 1, TRUE) = WrapAt(mem, p, d, 1, "contig")
    BY DEF BM_Wrap, WrapAt, WrapMemory, NewWrap
  <1>8. WrapAt(mem, p, d, 1, "contig") = N
    BY <1>1, WrapAtIs
  <1> HIDE DEF b, C, G
  <1>9. D = F
    <2>1. AddInfo(N, r) = MemRec(Put(I0, n, r), C, S0, G, h0, P0, m0)
      BY AddInfoIs
    <2> HIDE DEF N, r, n
    <2> QED BY <2>1 DEF MemRec
  <1>10. \/ mem' = D /\ faults' = faults
         \/ mem' = WrapFails(mem, p, d, 1) /\ faults' = faults + 1
    <2> HIDE DEF N
    <2> QED BY <1>6, <1>7, <1>8 DEF MapDeviceClassMemoryKM, Short
  <1> HIDE DEF D, F
  <1>11. InOrder(F, context, faults) /\ Stay(I0, F.info)
    <2>1. Sound(Put(I0, n, r), C, S0, G, h0, P0, [m0 EXCEPT ![d] = @ + 1], context, faults, K \cup {n})
      BY <1>2, <1>3, <1>4, <1>5, DisplaySound DEF b, C, G
    <2> DEFINE q == [m0 EXCEPT ![d] = @ + 1]
               X == Put(I0, n, r)
    <2>2. F = MemRec(X, C, S0, G, h0, P0, q)
      BY DEF F
    <2> HIDE DEF n, r, q, X
    <2>3. Sound(X, C, S0, G, h0, P0, q, context, faults, K \cup {n})
      BY <2>1 DEF q, X
    <2>4. Stay(I0, X)
      BY <1>5 DEF Stay, Put, X
    <2>5. Stay(I0, F.info)
      BY <2>2, <2>4 DEF MemRec
    <2> QED BY <2>2, <2>3, <2>5, SoundInOrder
  <1>12. CASE mem' = WrapFails(mem, p, d, 1) /\ faults' = faults + 1
    BY <1>3, <1>12, WrapFailsStep
  <1> QED BY <1>3, <1>9, <1>10, <1>11, <1>12

(* MapDeviceMemoryKM, whose mapping may be nobody's.                       *)
LEMMA MapStep ==
    ASSUME InOrder(mem, context, faults), faults \in Nat, NEW p \in Processes,
           NEW i, MapDeviceMemoryKM(p, i)
    PROVE  InOrder(mem', context', faults') /\ Stay(I0, mem'.info)
  <1> DEFINE n == NewId(I0)
             e == I0[i].buf
             s == I0[i].sync
             addr == B0[e].addr
             size == B0[e].size
             J == MoreCounted(I0, i)
             b == WrapBuf(B0, H0, p, addr, size)
             C == WrapBufs(B0, H0, p, addr, size, "scatter")
             G == WrapHash(B0, H0, p, addr, size, "scatter")
             T == ShareSync(S0, s)
             r(o) == Info("MAPPED", b, s, i, o)
             M == BM_Wrap(mem, p, addr, size, FALSE)
             M1 == [M EXCEPT !.sync = ShareSync(@, s)]
             M2 == [M1 EXCEPT !.info[i].refCount = @ + 1]
             D(o) == AddInfo(BM_Export(M2, e), r(o))
             F(o) == MemRec(Put(J, n, r(o)), MoreExports(C, e), T, G, h0, P0, m0)
  <1>1. /\ mem = MemRec(I0, B0, S0, H0, h0, P0, m0)
        /\ \E K \in SUBSET DOMAIN I0 : Sound(I0, B0, S0, H0, h0, P0, m0, context, faults, K)
    BY Parts
  <1>2. PICK K \in SUBSET DOMAIN I0 : Sound(I0, B0, S0, H0, h0, P0, m0, context, faults, K)
    BY <1>1
  <1>3. Ready(p) /\ Room /\ i \in mem.handles /\ UNCHANGED <<context, exiting>>
    BY Zenon DEF MapDeviceMemoryKM
  <1>4. context[p].listed /\ context' = context /\ i \in h0
    BY <1>3 DEF Ready, h0
  <1>5. Ids \ DOMAIN I0 # {} /\ Ids \ DOMAIN B0 # {}
    BY <1>3 DEF Room, I0, B0
  <1>6. n \in Ids /\ n \notin DOMAIN I0
    BY <1>5, NewIdFresh
  <1>7. NewId(J) = n
    BY DEF NewId, MoreCounted
  <1>8. BufOf(mem, p, addr, size) = b
    BY <1>1, BufOfIs
  <1>9. M = WrapAt(mem, p, addr, size, "scatter")
    BY DEF BM_Wrap, WrapAt, WrapMemory, NewWrap
  <1>10. PagesOf(B0, I0[i].buf, addr, size)
    BY DEF PagesOf
  <1> HIDE DEF addr, size
  <1>11. M = MemRec(I0, C, S0, G, h0, P0, m0)
    <2>1. WrapAt(MemRec(I0, B0, S0, H0, h0, P0, m0), p, addr, size, "scatter")
            = MemRec(I0, C, S0, G, h0, P0, m0)
      BY WrapAtIs
    <2> QED BY <1>1, <1>9, <2>1, Zenon
  <1>12. \/ mem' = D(p) /\ faults' = faults
         \/ mem' = WrapFails(mem, p, addr, size) /\ faults' = faults + 1
         \/ mem' = D(Nil) /\ faults' = faults + 1
    <2> DEFINE Z == [M EXCEPT !.sync = ShareSync(@, s), !.info[i].refCount = @ + 1]
    <2> HIDE DEF M, C, G, J
    <2>1. Z = M2
      OBVIOUS
    <2> USE DEF M
    <2>2. addr = mem.buf[mem.info[i].buf].addr /\ size = mem.buf[mem.info[i].buf].size
      BY DEF addr, size, B0, I0
    <2>3. /\ s = mem.info[i].sync /\ e = mem.info[i].buf
      BY DEF I0
    <2> HIDE DEF M2, b, s, e
    <2>4. \/ mem' = AddInfo(BM_Export(Z, e), r(p)) /\ faults' = faults
          \/ mem' = WrapFails(mem, p, addr, size) /\ faults' = faults + 1
          \/ mem' = AddInfo(BM_Export(Z, e), r(Nil)) /\ faults' = faults + 1
      BY <1>8, <2>2, <2>3, Zenon DEF MapDeviceMemoryKM, Short
    <2> QED BY <2>1, <2>4
  <1> HIDE DEF b, C, G, T, M
  <1>13. ASSUME NEW o PROVE D(o) = F(o)
    <2>1. M1 = MemRec(I0, C, T, G, h0, P0, m0)
      BY <1>11 DEF MemRec, T
    <2> HIDE DEF M1
    <2>2. M2 = MemRec(J, C, T, G, h0, P0, m0)
      BY <2>1 DEF MemRec, MoreCounted
    <2> HIDE DEF M2, J
    <2>3. BM_Export(M2, e) = MemRec(J, MoreExports(C, e), T, G, h0, P0, m0)
      BY <2>2, BM_ExportIs
    <2> DEFINE x == r(o)
    <2> HIDE DEF e, x
    <2>4. AddInfo(BM_Export(M2, e), x)
            = MemRec(Put(J, NewId(J), x), MoreExports(C, e), T, G, h0, P0, m0)
      BY <2>3, AddInfoIs
    <2> QED BY <1>7, <2>4 DEF x
  <1> HIDE DEF D
  <1>14. ASSUME NEW o \in {p, Nil}, NEW g, g = 0 => faults = 0 /\ o # Nil
         PROVE  InOrder(F(o), context, g) /\ Stay(I0, F(o).info)
    <2>1. Sound(Put(J, n, r(o)), MoreExports(C, e), T, G, h0, P0, m0, context, g, K \cup {n})
      BY <1>2, <1>4, <1>5, <1>6, <1>10, <1>14, MapSound DEF b, C, G, T
    <2> HIDE DEF r, J, n, e
    <2>2. Stay(I0, F(o).info)
      <3>1. Stay(I0, J)
        BY DEF Stay, MoreCounted, J
      <3>2. Stay(I0, Put(J, n, r(o)))
        BY <1>6, <3>1 DEF Stay, Put
      <3> QED BY <3>2 DEF MemRec
    <2> QED BY <2>1, <2>2, SoundInOrder
  <1> HIDE DEF F
  <1>15. D(p) = F(p) /\ D(Nil) = F(Nil)
    BY <1>13
  <1>16. CASE mem' = F(p) /\ faults' = faults
    <2>1. p # Nil
      BY DeviceMemoryAssumption
    <2> QED BY <1>4, <1>14, <1>16, <2>1
  <1>17. CASE mem' = F(Nil) /\ faults' = faults + 1
    <2>1. faults' # 0
      BY <1>17
    <2> QED BY <1>4, <1>14, <1>17, <2>1
  <1>18. CASE mem' = WrapFails(mem, p, addr, size) /\ faults' = faults + 1
    BY <1>4, <1>18, WrapFailsStep
  <1> QED BY <1>12, <1>15, <1>16, <1>17, <1>18

(* ExportDeviceMem publishes what a process has.                           *)
LEMMA ExportStep ==
    ASSUME InOrder(mem, context, faults), NEW p \in Processes, NEW i, ExportDeviceMem(p, i)
    PROVE  InOrder(mem', context', faults') /\ Stay(I0, mem'.info)
  <1>1. /\ mem = MemRec(I0, B0, S0, H0, h0, P0, m0)
        /\ \E K \in SUBSET DOMAIN I0 : Sound(I0, B0, S0, H0, h0, P0, m0, context, faults, K)
    BY Parts
  <1>2. PICK K \in SUBSET DOMAIN I0 : Sound(I0, B0, S0, H0, h0, P0, m0, context, faults, K)
    BY <1>1
  <1> DEFINE g == h0 \cup {i}
  <1>3. mem' = [mem EXCEPT !.handles = g] /\ context' = context /\ faults' = faults
    BY DEF ExportDeviceMem, h0
  <1>4. mem' = MemRec(I0, B0, S0, H0, g, P0, m0)
    BY <1>1, <1>3 DEF MemRec
  <1>5. i \in DOMAIN I0 /\ I0[i].res # Nil /\ I0[i].memType \in Clients
    BY DeviceMemoryAssumption DEF ExportDeviceMem, Owned, I0, Clients
  <1>6. HandlesOK(I0, g)
    BY <1>2, <1>5 DEF Sound, HandlesOK
  <1> HIDE DEF g
  <1>7. Sound(I0, B0, S0, H0, g, P0, m0, context, faults, K)
    BY <1>2, <1>6 DEF Sound
  <1>8. Stay(I0, mem'.info)
    BY <1>4 DEF Stay, MemRec
  <1> QED BY <1>3, <1>4, <1>7, <1>8, SoundInOrder

(* What a process has is freed; the others keep what they have.             *)
LEMMA FreeStep ==
    ASSUME InOrder(mem, context, faults), NEW i \in DOMAIN mem.info, mem.info[i].res # Nil,
           mem' = CallBack(mem, i), context' = context, faults' = faults
    PROVE  InOrder(mem', context', faults') /\ Keeps(mem.info, mem'.info, i)
  <1>1. PICK K \in SUBSET DOMAIN mem.info : Hands(mem, context, faults, K)
    BY DEF InOrder
  <1> DEFINE N == CallBack(mem, i)
  <1>2. /\ Hands(N, context, faults, K \ {i}) /\ K \ {i} \subseteq DOMAIN N.info
        /\ Keeps(mem.info, N.info, i)
    BY <1>1, CallBackSound
  <1>3. mem' = N
    OBVIOUS
  <1> HIDE DEF N
  <1>4. InOrder(N, context, faults)
    BY <1>2 DEF InOrder
  <1> QED BY <1>2, <1>3, <1>4

-----------------------------------------------------------------------------
(* The invariant.                                                           *)

(* There is nothing at first.                                              *)
LEMMA InitOK == Init => IInv
  <1> SUFFICES ASSUME Init PROVE IInv
    OBVIOUS
  <1> DEFINE e == <<>>
             H == [c \in Contexts |-> e]
             m == [d \in DCBuffers |-> 0]
  <1>1. DOMAIN e = {}
    OBVIOUS
  <1>2. e \in [DOMAIN e -> InfoType] /\ e \in [DOMAIN e -> BufType] /\ e \in [DOMAIN e -> Nat]
    OBVIOUS
  <1>3. mem = MemRec(e, e, e, H, {}, {}, m) /\ faults = 0
    BY DEF Init, MemRec
  <1>4. DOMAIN H = Contexts /\ \A c \in Contexts : H[c] = e
    OBVIOUS
  <1>5. m \in [DCBuffers -> Nat] /\ \A d \in DCBuffers : m[d] = 0
    OBVIOUS
  <1> HIDE DEF e, H, m
  <1>6. IsFiniteSet({}) /\ Cardinality({}) = 0
    BY FS_EmptySet
  <1>7. Mapped(e) = {}
    BY <1>1 DEF Mapped
  <1>8. InfosOK(e, {})
    BY <1>1, <1>2, <1>6 DEF InfosOK
  <1>9. BufsOK(e, e, {}, {})
    BY <1>1, <1>2, <1>6 DEF BufsOK
  <1>10. SyncsOK(e, e, 0)
    BY <1>1, <1>2 DEF SyncsOK
  <1>11. HashOK(e, H)
    BY <1>1, <1>4 DEF HashOK
  <1>12. HandlesOK(e, {}) /\ PinsOK(e, e, {}) /\ OwnersOK(e, e, context)
    BY <1>1 DEF HandlesOK, PinsOK, OwnersOK
  <1>13. MapCountOK(e, m)
    <2>1. \A d \in DCBuffers : SourcedBy(e, d) = {}
      BY <1>1 DEF SourcedBy
    <2> QED BY <1>5, <1>6, <2>1 DEF MapCountOK
  <1>14. Sound(e, e, e, H, {}, {}, m, context, 0, {})
    BY <1>4, <1>7, <1>8, <1>9, <1>10, <1>11, <1>12, <1>13 DEF Sound
  <1>15. InOrder(mem, context, faults)
    BY <1>3, <1>14, SoundInOrder
  <1>16. /\ context \in ContextType
         /\ exiting \in Processes \cup {Nil} /\ faults \in 0 .. MaxFaults
    BY DeviceMemoryAssumption DEF Init, NoContext, ContextType, ContextRec
  <1> QED BY <1>15, <1>16 DEF IInv

(* Every action keeps the invariant.                                        *)
LEMMA NextOK == IInv /\ [Next]_vars => IInv'
  <1> SUFFICES ASSUME IInv, [Next]_vars PROVE IInv'
    OBVIOUS
  <1>1. /\ context \in ContextType /\ exiting \in Processes \cup {Nil} /\ faults \in 0 .. MaxFaults
        /\ InOrder(mem, context, faults) /\ faults \in Nat /\ MaxFaults \in Nat
    BY DeviceMemoryAssumption DEF IInv
  <1>2. SUFFICES /\ InOrder(mem', context', faults') /\ context' \in ContextType
                 /\ exiting' \in Processes \cup {Nil} /\ faults' \in 0 .. MaxFaults
    BY DEF IInv, ContextType, ContextRec, InOrder, Hands
  <1>3. ASSUME NEW p \in Processes, CreateDeviceMemContextKM(p)
        PROVE  /\ InOrder(mem', context', faults') /\ context' \in ContextType
               /\ exiting' = exiting /\ faults' \in 0 .. MaxFaults
    <2>1. InOrder(mem', context', faults') /\ context' \in ContextType
      BY <1>1, <1>3, CreateStep
    <2>2. exiting' = exiting /\ (faults' = faults \/ Short)
      BY <1>3 DEF CreateDeviceMemContextKM
    <2> QED BY <1>1, <2>1, <2>2 DEF Short
  <1>4. ASSUME NEW p \in Processes, DestroyDeviceMemContextKM(p)
        PROVE  /\ InOrder(mem', context', faults') /\ context' \in ContextType
               /\ exiting' = exiting /\ faults' \in 0 .. MaxFaults
    <2>1. InOrder(mem', context', faults') /\ context' \in ContextType
      BY <1>1, <1>4, DestroyStep
    <2>2. exiting' = exiting /\ faults' = faults
      BY <1>4 DEF DestroyDeviceMemContextKM
    <2> QED BY <1>1, <2>1, <2>2
  <1>5. ASSUME NEW p \in Processes, ProcessDisconnect(p)
        PROVE  /\ InOrder(mem', context', faults') /\ context' \in ContextType
               /\ exiting' = p /\ faults' \in 0 .. MaxFaults
    BY <1>1, <1>5 DEF ProcessDisconnect
  <1>6. ASSUME NEW p \in Processes, NEW withSync \in SyncChoices, AllocDeviceMemKM(p, withSync)
        PROVE  /\ InOrder(mem', context', faults') /\ context' \in ContextType
               /\ exiting' = exiting /\ faults' \in 0 .. MaxFaults
    <2>1. withSync \in BOOLEAN
      BY DeviceMemoryAssumption
    <2>2. InOrder(mem', context', faults') /\ context' \in ContextType
      BY <1>1, <1>6, <2>1, AllocStep
    <2>3. exiting' = exiting /\ (faults' = faults \/ Short)
      BY <1>6 DEF AllocDeviceMemKM
    <2> QED BY <1>1, <2>2, <2>3 DEF Short
  <1>7. ASSUME NEW p \in Processes, NEW addr \in Addresses, NEW size \in Sizes,
               NEW contig \in WrapChoices, WrapExtMemoryKM(p, addr, size, contig)
        PROVE  /\ InOrder(mem', context', faults') /\ context' = context
               /\ exiting' = exiting /\ faults' \in 0 .. MaxFaults
    <2>1. contig \in BOOLEAN /\ size \in Nat
      BY DeviceMemoryAssumption
    <2>2. InOrder(mem', context', faults')
      BY <1>1, <1>7, <2>1, WrapStep
    <2>3. context' = context /\ exiting' = exiting /\ (faults' = faults \/ Short)
      BY <1>7 DEF WrapExtMemoryKM
    <2> QED BY <1>1, <2>2, <2>3 DEF Short
  <1>8. ASSUME NEW p \in Processes, NEW d \in DCBuffers, MapDeviceClassMemoryKM(p, d)
        PROVE  /\ InOrder(mem', context', faults') /\ context' = context
               /\ exiting' = exiting /\ faults' \in 0 .. MaxFaults
    <2>1. InOrder(mem', context', faults')
      BY <1>1, <1>8, DisplayStep
    <2>2. context' = context /\ exiting' = exiting /\ (faults' = faults \/ Short)
      BY <1>8 DEF MapDeviceClassMemoryKM
    <2> QED BY <1>1, <2>1, <2>2 DEF Short
  <1>9. ASSUME NEW p \in Processes, NEW i \in DOMAIN mem.info, ExportDeviceMem(p, i)
        PROVE  /\ InOrder(mem', context', faults') /\ context' = context
               /\ exiting' = exiting /\ faults' \in 0 .. MaxFaults
    <2>1. InOrder(mem', context', faults')
      BY <1>1, <1>9, ExportStep
    <2> QED BY <1>1, <1>9, <2>1 DEF ExportDeviceMem
  <1>10. ASSUME NEW p \in Processes, NEW i \in DOMAIN mem.info, MapDeviceMemoryKM(p, i)
         PROVE  /\ InOrder(mem', context', faults') /\ context' = context
                /\ exiting' = exiting /\ faults' \in 0 .. MaxFaults
    <2>1. InOrder(mem', context', faults')
      BY <1>1, <1>10, MapStep
    <2>2. context' = context /\ exiting' = exiting /\ (faults' = faults \/ Short)
      BY <1>10, Zenon DEF MapDeviceMemoryKM
    <2> QED BY <1>1, <2>1, <2>2 DEF Short
  <1>11. ASSUME NEW p \in Processes, NEW i \in DOMAIN mem.info, FreeByHandle(p, i)
         PROVE  /\ InOrder(mem', context', faults') /\ context' = context
                /\ exiting' = exiting /\ faults' \in 0 .. MaxFaults
    <2>1. /\ mem.info[i].res # Nil /\ mem' = CallBack(mem, i)
          /\ context' = context /\ exiting' = exiting /\ faults' = faults
      BY <1>11, DeviceMemoryAssumption DEF FreeByHandle, Owned
    <2>2. InOrder(mem', context', faults')
      BY <1>1, <2>1, FreeStep
    <2> QED BY <1>1, <2>1, <2>2
  <1>12. ASSUME NEW i \in DOMAIN mem.info, FreeResource(i)
         PROVE  /\ InOrder(mem', context', faults') /\ context' = context
                /\ exiting' = exiting /\ faults' \in 0 .. MaxFaults
    <2>1. /\ mem.info[i].res # Nil /\ mem' = CallBack(mem, i)
          /\ context' = context /\ exiting' = exiting /\ faults' = faults
      BY <1>12 DEF FreeResource, Owned
    <2>2. InOrder(mem', context', faults')
      BY <1>1, <2>1, FreeStep
    <2> QED BY <1>1, <2>1, <2>2
  <1>13. ASSUME DestroyContextCallBack
         PROVE  /\ InOrder(mem', context', faults') /\ context' \in ContextType
                /\ exiting' = Nil /\ faults' \in 0 .. MaxFaults
    <2>1. InOrder(mem', context', faults') /\ context' \in ContextType
      BY <1>1, <1>13, EndStep
    <2> QED BY <1>1, <1>13, <2>1 DEF DestroyContextCallBack
  <1>14. CASE UNCHANGED vars
    BY <1>1, <1>14 DEF vars
  <1>15. CASE Next
    <2>1. CASE \E p \in Processes :
                 CreateDeviceMemContextKM(p) \/ DestroyDeviceMemContextKM(p) \/ ProcessDisconnect(p)
      BY <1>1, <1>3, <1>4, <1>5, <2>1
    <2>2. CASE \E p \in Processes : \E withSync \in SyncChoices : AllocDeviceMemKM(p, withSync)
      BY <1>1, <1>6, <2>2
    <2>3. CASE \E p \in Processes : \E addr \in Addresses, size \in Sizes, contig \in WrapChoices :
                 WrapExtMemoryKM(p, addr, size, contig)
      BY <1>1, <1>7, <2>3
    <2>4. CASE \E p \in Processes : \E d \in DCBuffers : MapDeviceClassMemoryKM(p, d)
      BY <1>1, <1>8, <2>4
    <2>5. CASE \E p \in Processes : \E i \in DOMAIN mem.info :
                 ExportDeviceMem(p, i) \/ MapDeviceMemoryKM(p, i) \/ FreeByHandle(p, i)
      BY <1>1, <1>9, <1>10, <1>11, <2>5
    <2>6. CASE \E i \in DOMAIN mem.info : FreeResource(i)
      BY <1>1, <1>12, <2>6
    <2>7. CASE DestroyContextCallBack
      BY <1>1, <1>13, <2>7
    <2> QED BY <1>15, <2>1, <2>2, <2>3, <2>4, <2>5, <2>6, <2>7, Zenon DEF Next
  <1> QED BY <1>14, <1>15

(* The invariant holds in every state.                                     *)
LEMMA Always == Spec => []IInv
  BY InitOK, NextOK, PTL DEF Spec

-----------------------------------------------------------------------------
(* The properties.                                                          *)

(* The records have their types.                                            *)
THEOREM TypeCorrect == Spec => []TypeOK
  <1>1. ASSUME IInv PROVE TypeOK
    <2>1. PICK K \in SUBSET DOMAIN I0 : Sound(I0, B0, S0, H0, h0, P0, m0, context, faults, K)
      BY <1>1, Parts DEF IInv
    <2>2. /\ DOMAIN I0 \subseteq Ids /\ I0 \in [DOMAIN I0 -> InfoType]
          /\ B0 \in [DOMAIN B0 -> BufType] /\ DOMAIN B0 \subseteq Ids
          /\ S0 \in [DOMAIN S0 -> Nat] /\ DOMAIN S0 \subseteq Ids
      BY <2>1 DEF Sound, InfosOK, BufsOK, SyncsOK
    <2>3. \A i \in DOMAIN I0 : i \in Ids /\ I0[i].refCount \in Nat /\ I0[i].res \in Processes \cup {Nil}
      BY <2>2 DEF InfoType
    <2>4. \A b \in DOMAIN B0 : b \in Ids /\ B0[b].refCount \in Nat /\ B0[b].exportCount \in Nat
      BY <2>2 DEF BufType
    <2>5. \A s \in DOMAIN S0 : s \in Ids /\ S0[s] \in Nat
      BY <2>2
    <2>6. /\ context \in ContextType
          /\ exiting \in Processes \cup {Nil} /\ faults \in 0 .. MaxFaults
      BY <1>1 DEF IInv
    <2> QED BY <2>3, <2>4, <2>5, <2>6
            DEF TypeOK, Infos, I0, B0, S0, ContextType, ContextRec
  <1> QED BY <1>1, Always, PTL

(* No pointer of the driver outlives what it points to: not the buffer of
   an info, its sync info or the source of a mapping, not the kernel's
   handles, not the hash of wrapped memory.                                 *)
THEOREM PointersLive == Spec => []NothingDangles
  <1>1. ASSUME IInv PROVE NothingDangles
    <2>1. PICK K \in SUBSET DOMAIN I0 : Sound(I0, B0, S0, H0, h0, P0, m0, context, faults, K)
      BY <1>1, Parts DEF IInv
    <2>2. /\ InfosOK(I0, K) /\ BufsOK(I0, B0, K, Mapped(I0)) /\ SyncsOK(I0, S0, faults)
          /\ HashOK(B0, H0) /\ HandlesOK(I0, h0)
      BY <2>1 DEF Sound
    <2>3. \A i \in DOMAIN I0 : I0[i].buf \in DOMAIN B0
      BY <2>2, BuffersLive
    <2>4. \A i \in DOMAIN I0 : I0[i].sync \in DOMAIN S0 \cup {Nil}
      BY <2>2 DEF SyncsOK
    <2>5. \A i \in DOMAIN I0 : I0[i].memType = "MAPPED" => I0[i].src \in DOMAIN I0
      BY <2>2 DEF InfosOK, InfoOK
    <2>6. \A i \in h0 : i \in DOMAIN I0 /\ I0[i].res # Nil
      BY <2>2 DEF HandlesOK
    <2>7. \A c \in DOMAIN H0 : \A a \in DOMAIN H0[c] :
             /\ H0[c][a] \in DOMAIN B0 /\ B0[H0[c][a]].refCount > 0
             /\ B0[H0[c][a]].addr = a /\ B0[H0[c][a]].ctx = c
      BY <2>2 DEF HashOK
    <2> QED BY <2>3, <2>4, <2>5, <2>6, <2>7 DEF NothingDangles, Infos, I0, B0, S0, H0, h0
  <1> QED BY <1>1, Always, PTL

(* The mappings of the infos on a buffer are its exports.                   *)
LEMMA ExportsAre ==
    ASSUME NEW K, InfosOK(I0, K), NEW b
    PROVE  UNION {Mappings(i) : i \in {j \in Infos : mem.info[j].buf = b}}
             = Exports(I0, Mapped(I0), b)
  <1>1. \A j \in Mapped(I0) : I0[j].src \in DOMAIN I0
    BY DEF InfosOK, InfoOK, Mapped
  <1>2. \A i : Mappings(i) = {j \in Mapped(I0) : I0[j].src = i}
    BY DEF Mappings, Infos, Mapped, I0
  <1>3. {j \in Infos : mem.info[j].buf = b} = {j \in DOMAIN I0 : I0[j].buf = b}
    BY DEF Infos, I0
  <1> QED BY <1>1, <1>2, <1>3 DEF Exports

(* Counts are never too low, and exact as long as memory was not short: a
   buffer counts its holders and its exports, a mem info its owner and its
   mappings, a sync info its users.                                         *)
THEOREM CountsTrue == Spec => []CountsExact
  <1>1. ASSUME IInv PROVE CountsExact
    <2>1. PICK K \in SUBSET DOMAIN I0 : Sound(I0, B0, S0, H0, h0, P0, m0, context, faults, K)
      BY <1>1, Parts DEF IInv
    <2>2. /\ InfosOK(I0, K) /\ BufsOK(I0, B0, K, Mapped(I0)) /\ SyncsOK(I0, S0, faults)
          /\ MapCountOK(I0, m0) /\ (faults = 0 => \A k \in K : I0[k].res # Nil)
      BY <2>1 DEF Sound
    <2>3. IsFiniteSet(K) /\ IsFiniteSet(DOMAIN I0) /\ \A i \in DOMAIN I0 : InfoOK(I0, K, i)
      BY <2>2 DEF InfosOK, BufsOK
    <2>4. ASSUME NEW b \in DOMAIN B0
          PROVE  /\ B0[b].refCount >= Cardinality(Holders(b))
                 /\ B0[b].exportCount = Cardinality(Exports(I0, Mapped(I0), b))
                 /\ faults = 0 => B0[b].refCount = Cardinality(Holders(b))
      <3>1. /\ B0[b].refCount = Cardinality(Holding(I0, K, b))
            /\ B0[b].exportCount = Cardinality(Exports(I0, Mapped(I0), b))
        BY <2>2 DEF BufsOK, BufOK
      <3>2. Holders(b) = {i \in DOMAIN I0 : I0[i].buf = b /\ I0[i].res # Nil}
        BY DEF Holders, Infos, I0
      <3>3. Holders(b) \subseteq Holding(I0, K, b)
        BY <2>3, <3>2 DEF Holding, InfoOK
      <3>4. faults = 0 => Holders(b) = Holding(I0, K, b)
        BY <2>2, <3>2, <3>3 DEF Holding
      <3>5. Holding(I0, K, b) \subseteq K
        BY DEF Holding
      <3>6. IsFiniteSet(Holding(I0, K, b)) /\ Cardinality(Holding(I0, K, b)) \in Nat
        BY <2>3, <3>5, CountPart
      <3>7. /\ Cardinality(Holders(b)) <= Cardinality(Holding(I0, K, b))
            /\ Cardinality(Holders(b)) \in Nat
        BY <3>3, <3>6, CountPart
      <3> QED BY <3>1, <3>4, <3>6, <3>7
    <2>5. ASSUME NEW i \in DOMAIN I0
          PROVE  LET owners == IF I0[i].res = Nil THEN 0 ELSE 1
                 IN  /\ I0[i].refCount >= owners + Cardinality(MapsOf(I0, i))
                     /\ faults = 0 => I0[i].refCount = owners + Cardinality(MapsOf(I0, i))
      <3>1. /\ I0[i].refCount = (IF i \in K THEN 1 ELSE 0) + Cardinality(MapsOf(I0, i))
            /\ I0[i].res # Nil => i \in K
        BY <2>3 DEF InfoOK
      <3>2. MapsOf(I0, i) \subseteq DOMAIN I0
        BY DEF MapsOf
      <3>3. Cardinality(MapsOf(I0, i)) \in Nat
        BY <2>3, <3>2, CountPart
      <3>4. faults = 0 /\ i \in K => I0[i].res # Nil
        BY <2>2
      <3> QED BY <3>1, <3>3, <3>4
    <2>6. ASSUME NEW s \in DOMAIN S0
          PROVE  /\ S0[s] >= Cardinality(UsersOf(I0, s))
                 /\ faults = 0 => S0[s] = Cardinality(UsersOf(I0, s))
      BY <2>2 DEF SyncsOK
    <2>7. \A d \in DOMAIN m0 : m0[d] = Cardinality(SourcedBy(I0, d))
      BY <2>2 DEF MapCountOK
    <2>8. \A b : UNION {Mappings(i) : i \in {j \in Infos : mem.info[j].buf = b}}
                    = Exports(I0, Mapped(I0), b)
      BY <2>2, ExportsAre
    <2>9. \A i : Mappings(i) = MapsOf(I0, i)
      BY DEF Mappings, MapsOf, Infos, I0
    <2>10. /\ \A s : {i \in Infos : mem.info[i].sync = s} = UsersOf(I0, s)
           /\ \A d : {i \in Infos : mem.info[i].src = d} = SourcedBy(I0, d)
      BY DEF UsersOf, SourcedBy, Infos, I0
    <2>11. /\ Infos = DOMAIN I0 /\ mem.info = I0 /\ mem.buf = B0 /\ mem.sync = S0
           /\ mem.memMap = m0
      BY DEF Infos, I0, B0, S0, m0
    <2> DEFINE BufsCount == \A b \in DOMAIN mem.buf :
                  LET exports == UNION {Mappings(i) : i \in {j \in Infos : mem.info[j].buf = b}}
                  IN  /\ mem.buf[b].refCount >= Cardinality(Holders(b))
                      /\ mem.buf[b].exportCount = Cardinality(exports)
                      /\ faults = 0 => mem.buf[b].refCount = Cardinality(Holders(b))
               InfosCount == \A i \in Infos :
                  LET owners == IF mem.info[i].res = Nil THEN 0 ELSE 1
                  IN  /\ mem.info[i].refCount >= owners + Cardinality(Mappings(i))
                      /\ faults = 0 => mem.info[i].refCount = owners + Cardinality(Mappings(i))
               SyncsCount == \A s \in DOMAIN mem.sync :
                  LET users == {i \in Infos : mem.info[i].sync = s}
                  IN  /\ mem.sync[s] >= Cardinality(users)
                      /\ faults = 0 => mem.sync[s] = Cardinality(users)
               MapsCount == \A d \in DOMAIN mem.memMap :
                  mem.memMap[d] = Cardinality({i \in Infos : mem.info[i].src = d})
    <2>12. BufsCount
      BY <2>4, <2>8, <2>11
    <2>13. InfosCount
      BY <2>5, <2>9, <2>11
    <2>14. SyncsCount
      BY <2>6, <2>10, <2>11
    <2>15. MapsCount
      BY <2>7, <2>10, <2>11
    <2> QED BY <2>12, <2>13, <2>14, <2>15, Zenon DEF CountsExact
  <1> QED BY <1>1, Always, PTL

(* Memory outlives its mappings: while a process has an info its buffer is
   mapped for the device in a context that is there, unless the process had
   that destroyed under memory it wrapped or mapped; and while a mapping is
   there so are the pages behind it.                                        *)
THEOREM MemoryStays == Spec => []MemoryOutlivesMappings
  <1>1. ASSUME IInv PROVE MemoryOutlivesMappings
    <2>1. PICK K \in SUBSET DOMAIN I0 : Sound(I0, B0, S0, H0, h0, P0, m0, context, faults, K)
      BY <1>1, Parts DEF IInv
    <2>2. /\ InfosOK(I0, K) /\ BufsOK(I0, B0, K, Mapped(I0)) /\ PinsOK(I0, B0, P0)
          /\ OwnersOK(I0, B0, context)
      BY <2>1 DEF Sound
    <2>3. IsFiniteSet(K) /\ \A i \in DOMAIN I0 : InfoOK(I0, K, i)
      BY <2>2 DEF InfosOK, BufsOK
    <2>4. ASSUME NEW i \in DOMAIN I0, I0[i].res # Nil
          PROVE  LET b == B0[I0[i].buf]
                 IN  \/ b.ctx = Nil /\ b.kind # "ram"
                     \/ b.ctx # Nil /\ b.devMapped /\ (b.ctx \in Processes => context[b.ctx].listed)
      <3> DEFINE b == I0[i].buf
      <3>1. b \in DOMAIN B0
        BY <2>2, BuffersLive
      <3>2. i \in Holding(I0, K, b)
        BY <2>3, <2>4 DEF Holding, InfoOK
      <3>3. Holding(I0, K, b) \subseteq K
        BY DEF Holding
      <3>4. Cardinality(Holding(I0, K, b)) \in Nat /\ Cardinality(Holding(I0, K, b)) # 0
        BY <2>3, <3>2, <3>3, CountPart
      <3>5. B0[b].devMapped \/ B0[b].ctx = Nil
        BY <2>2, <3>1, <3>4 DEF BufsOK, BufOK
      <3>6. InHeapOf(I0[i].res, B0, b, context)
        BY <2>2, <2>4 DEF OwnersOK
      <3> HIDE DEF b
      <3>7. B0[b].ctx \in Processes => B0[b].ctx # Nil /\ ~HeapShared /\ B0[b].ctx = I0[i].res
        BY <3>6, DeviceMemoryAssumption DEF HeapOf, InHeapOf
      <3>8. B0[b].ctx \in Processes => context[B0[b].ctx].listed
        BY <3>6, <3>7 DEF InHeapOf
      <3>9. B0[b].ctx = Nil => B0[b].kind # "ram"
        BY <3>6 DEF InHeapOf
      <3> QED BY <3>5, <3>8, <3>9 DEF b
    <2>5. ASSUME NEW i \in DOMAIN I0, I0[i].memType = "MAPPED"
          PROVE  LET src == I0[i].src
                 IN  /\ I0[src].buf \in DOMAIN B0
                     /\ (I0[src].memType = "WRAPPED"
                           /\ ~Contiguous(B0[I0[src].buf])) => src \in P0
      <3> DEFINE src == I0[i].src
      <3>1. src \in DOMAIN I0
        BY <2>3, <2>5 DEF InfoOK
      <3> HIDE DEF src
      <3>2. I0[src].buf \in DOMAIN B0
        BY <2>2, <3>1, BuffersLive
      <3>3. I0[src].memType = "WRAPPED" /\ ~Contiguous(B0[I0[src].buf]) => src \in P0
        BY <2>2, <3>1, <3>2 DEF PinsOK
      <3> QED BY <3>2, <3>3 DEF src
    <2>6. Infos = DOMAIN I0 /\ mem.info = I0 /\ mem.buf = B0 /\ mem.pinned = P0
      BY DEF Infos, I0, B0, P0
    <2> QED BY <2>4, <2>5, <2>6 DEF MemoryOutlivesMappings
  <1> QED BY <1>1, Always, PTL

(* When nobody has an info and memory was never short, nothing is left: no
   info, buffer or sync info, no handle, no pin, no entry in a hash.        *)
THEOREM AllFreed == Spec => []NothingLeft
  <1>1. ASSUME IInv PROVE NothingLeft
    <2>1. PICK K \in SUBSET DOMAIN I0 : Sound(I0, B0, S0, H0, h0, P0, m0, context, faults, K)
      BY <1>1, Parts DEF IInv
    <2>2. /\ InfosOK(I0, K) /\ BufsOK(I0, B0, K, Mapped(I0)) /\ SyncsOK(I0, S0, faults)
          /\ HashOK(B0, H0) /\ HandlesOK(I0, h0) /\ PinsOK(I0, B0, P0)
          /\ (faults = 0 => \A k \in K : I0[k].res # Nil)
      BY <2>1 DEF Sound
    <2>3. \A i \in DOMAIN I0 : InfoOK(I0, K, i)
      BY <2>2 DEF InfosOK
    <2>4. ASSUME faults = 0, \A i \in DOMAIN I0 : I0[i].res = Nil
          PROVE  /\ DOMAIN I0 = {} /\ DOMAIN B0 = {} /\ DOMAIN S0 = {} /\ h0 = {} /\ P0 = {}
                 /\ \A c \in DOMAIN H0 : DOMAIN H0[c] = {}
      <3>1. K = {}
        BY <2>2, <2>4
      <3>2. Cardinality({}) = 0
        BY FS_EmptySet
      <3>3. \A i \in DOMAIN I0 : I0[i].memType # "MAPPED"
        BY <2>3, <3>1 DEF InfoOK
      <3>4. ASSUME NEW i \in DOMAIN I0 PROVE FALSE
        <4>1. MapsOf(I0, i) = {}
          BY <3>3 DEF MapsOf
        <4>2. I0[i].refCount = 0 /\ I0[i].refCount > 0
          BY <2>3, <3>1, <3>2, <4>1 DEF InfoOK
        <4> QED BY <4>2
      <3>5. DOMAIN I0 = {}
        BY <3>4
      <3>6. ASSUME NEW b \in DOMAIN B0 PROVE FALSE
        <4>1. Holding(I0, K, b) = {} /\ Exports(I0, Mapped(I0), b) = {}
          BY <3>1, <3>5 DEF Holding, Exports, Mapped
        <4>2. BufOK(I0, B0, K, Mapped(I0), b)
          BY <2>2 DEF BufsOK
        <4> QED BY <3>2, <4>1, <4>2 DEF BufOK
      <3>7. DOMAIN B0 = {}
        BY <3>6
      <3>8. ASSUME NEW s \in DOMAIN S0 PROVE FALSE
        <4>1. UsersOf(I0, s) = {}
          BY <3>5 DEF UsersOf
        <4>2. S0[s] > 0 /\ S0[s] = Cardinality(UsersOf(I0, s))
          BY <2>2, <2>4 DEF SyncsOK
        <4> QED BY <3>2, <4>1, <4>2
      <3>9. h0 = {} /\ P0 = {}
        BY <2>2, <3>5 DEF HandlesOK, PinsOK
      <3>10. \A c \in DOMAIN H0 : DOMAIN H0[c] = {}
        BY <2>2, <3>7 DEF HashOK
      <3> QED BY <3>5, <3>7, <3>8, <3>9, <3>10
    <2>5. /\ Infos = DOMAIN I0 /\ mem.info = I0 /\ mem.buf = B0 /\ mem.sync = S0
          /\ mem.handles = h0 /\ mem.pinned = P0 /\ mem.hash = H0
      BY DEF Infos, I0, B0, S0, h0, P0, H0
    <2> QED BY <2>4, <2>5 DEF NothingLeft
  <1> QED BY <1>1, Always, PTL

(* What a process has goes away only by a call of its own that frees it, or
   at its own end.                                                          *)
THEOREM FreedByOwner == Spec => OthersKeepTheirs
  <1> DEFINE A == \A i \in Infos : mem.info[i].res # Nil =>
                    \/ i \in DOMAIN mem'.info /\ mem'.info[i].res = mem.info[i].res
                    \/ exiting = mem.info[i].res
                    \/ exiting = Nil /\ \E p \in Processes : p = mem.info[i].res /\ FreeByHandle(p, i)
  <1>1. ASSUME IInv, [Next]_vars PROVE A
    <2>1. /\ context \in ContextType /\ exiting \in Processes \cup {Nil}
          /\ InOrder(mem, context, faults) /\ faults \in Nat
      BY <1>1, DeviceMemoryAssumption DEF IInv
    <2>2. ASSUME Stay(I0, mem'.info) PROVE A
      BY <2>2 DEF Stay, I0, Infos
    <2>3. ASSUME mem' = mem PROVE A
      BY <2>3 DEF Infos
    <2>4. ASSUME NEW i \in DOMAIN mem.info, NEW p \in Processes, FreeByHandle(p, i) PROVE A
      <3>1. /\ mem.info[i].res = p /\ p # Nil /\ mem' = CallBack(mem, i) /\ exiting = Nil
            /\ context' = context /\ faults' = faults
        BY <2>4, DeviceMemoryAssumption DEF FreeByHandle, Owned
      <3>2. Keeps(mem.info, mem'.info, i)
        BY <2>1, <3>1, FreeStep
      <3> QED BY <2>4, <3>1, <3>2 DEF Keeps, Infos
    <2>5. ASSUME NEW i \in DOMAIN mem.info, FreeResource(i) PROVE A
      <3>1. /\ mem.info[i].res = exiting /\ exiting # Nil /\ mem' = CallBack(mem, i)
            /\ context' = context /\ faults' = faults
        BY <2>5 DEF FreeResource, Owned
      <3>2. Keeps(mem.info, mem'.info, i)
        BY <2>1, <3>1, FreeStep
      <3> QED BY <3>1, <3>2 DEF Keeps, Infos
    <2> HIDE DEF A
    <2>6. CASE \E p \in Processes : CreateDeviceMemContextKM(p) \/ DestroyDeviceMemContextKM(p)
      BY <2>1, <2>2, <2>6, CreateStep, DestroyStep
    <2>7. CASE \E p \in Processes : ProcessDisconnect(p)
      BY <2>3, <2>7 DEF ProcessDisconnect
    <2>8. CASE \E p \in Processes : \E withSync \in SyncChoices : AllocDeviceMemKM(p, withSync)
      BY <2>1, <2>2, <2>8, AllocStep, DeviceMemoryAssumption
    <2>9. CASE \E p \in Processes : \E addr \in Addresses, size \in Sizes, contig \in WrapChoices :
                 WrapExtMemoryKM(p, addr, size, contig)
      <3>1. PICK p \in Processes, addr \in Addresses, size \in Sizes, contig \in WrapChoices :
                 WrapExtMemoryKM(p, addr, size, contig)
        BY <2>9
      <3>2. contig \in BOOLEAN /\ size \in Nat
        BY DeviceMemoryAssumption
      <3> QED BY <2>1, <2>2, <3>1, <3>2, WrapStep
    <2>10. CASE \E p \in Processes : \E d \in DCBuffers : MapDeviceClassMemoryKM(p, d)
      BY <2>1, <2>2, <2>10, DisplayStep
    <2>11. CASE \E p \in Processes : \E i \in DOMAIN mem.info :
                  ExportDeviceMem(p, i) \/ MapDeviceMemoryKM(p, i)
      BY <2>1, <2>2, <2>11, ExportStep, MapStep
    <2>12. CASE \E p \in Processes : \E i \in DOMAIN mem.info : FreeByHandle(p, i)
      BY <2>4, <2>12
    <2>13. CASE \E i \in DOMAIN mem.info : FreeResource(i)
      BY <2>5, <2>13
    <2>14. CASE DestroyContextCallBack
      BY <2>1, <2>2, <2>14, EndStep
    <2>15. CASE UNCHANGED vars
      BY <2>3, <2>15 DEF vars
    <2>16. CASE Next
      BY <2>6, <2>7, <2>8, <2>9, <2>10, <2>11, <2>12, <2>13, <2>14, <2>16, Zenon DEF Next
    <2> QED BY <1>1, <2>15, <2>16
  <1>2. ASSUME IInv, [Next]_vars PROVE [A]_vars
    BY <1>1, <1>2
  <1> QED BY <1>2, Always, PTL DEF Spec, OthersKeepTheirs

=============================================================================
