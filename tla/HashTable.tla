----------------------------- MODULE HashTable -----------------------------
(***************************************************************************)
(* The hash tables of handles, per-process data, wrapped buffers and arena *)
(* segments (hash.c).  The table doubles when it is half full and halves   *)
(* when it is a quarter full, never below the size it was made with; it    *)
(* keeps its size when there is no memory for another.  No user inserts a  *)
(* key that is there.                                                      *)
(***************************************************************************)
EXTENDS Integers, Sequences, FiniteSets, SequencesExt

CONSTANTS
    Keys, Values,
    Hash,           \* pfnHashFunc: a natural number for each key
    uMinimumSize    \* uInitialLen of HASH_Create_Extended

VARIABLES
    ppBucketTable,  \* per index, the chain: sequences of keys and values
    uCount,
    result,         \* what the last call returned
    starved         \* history: there was no memory for another size

vars == <<ppBucketTable, uCount, result, starved>>

(* HASH_Create_Extended                                                     *)
Init ==
    /\ ppBucketTable = [i \in 0 .. uMinimumSize - 1 |-> <<>>]
    /\ uCount = 0 /\ result = <<"created">> /\ starved = FALSE

-----------------------------------------------------------------------------
Size(table) == Cardinality(DOMAIN table)
KEY_TO_INDEX(k, size) == Hash[k] % size
Chain(table, k) == table[KEY_TO_INDEX(k, Size(table))]

ChainInsert(table, bucket) ==
    [table EXCEPT ![KEY_TO_INDEX(bucket.k, Size(table))] = <<bucket>> \o @]

(* Every bucket of the old table, chain by chain.                           *)
Buckets(table) == FoldLeft(LAMBDA all, i : all \o table[i - 1], <<>>, [i \in 1..Size(table) |-> i])

(* Mutant of Rehash: the chains are moved as they are.                      *)
RehashChains(table, uNewSize) ==
    [i \in 0 .. uNewSize - 1 |-> IF i \in DOMAIN table THEN table[i] ELSE <<>>]

Rehash(table, uNewSize) ==
    FoldLeft(ChainInsert, [i \in 0 .. uNewSize - 1 |-> <<>>], Buckets(table))

Resize(table, uNewSize) ==
    \/ /\ ppBucketTable' = Rehash(table, uNewSize) /\ UNCHANGED starved
    \/ /\ uNewSize # Size(table)
       /\ ppBucketTable' = table /\ starved' = TRUE

(* The first bucket of the chain with the key, 0 when there is none.        *)
Found(table, k) == LET hits == {i \in DOMAIN Chain(table, k) : Chain(table, k)[i].k = k}
                   IN  IF hits = {} THEN 0 ELSE CHOOSE i \in hits : \A j \in hits : i <= j

-----------------------------------------------------------------------------
InsertFails(k, v) == result' = <<"insert", k, v, FALSE>> /\ UNCHANGED <<ppBucketTable, uCount, starved>>

HASH_Insert_Extended(k, v) ==
    /\ Found(ppBucketTable, k) = 0
    /\ \/ InsertFails(k, v)
       \/ LET table == ChainInsert(ppBucketTable, [k |-> k, v |-> v])
          IN  /\ uCount' = uCount + 1
              /\ result' = <<"insert", k, v, TRUE>>
              /\ IF 2 * (uCount + 1) > Size(table) THEN Resize(table, 2 * Size(table))
                 ELSE ppBucketTable' = table /\ UNCHANGED starved

(* PRIVATE_MAX                                                              *)
Halved(size) == IF size \div 2 > uMinimumSize THEN size \div 2 ELSE uMinimumSize

HASH_Remove_Extended(k) ==
    LET i == Found(ppBucketTable, k)
        table == [ppBucketTable EXCEPT ![KEY_TO_INDEX(k, Size(ppBucketTable))] = RemoveAt(@, i)]
    IN  \/ /\ i = 0
           /\ result' = <<"remove", k, 0>> /\ UNCHANGED <<ppBucketTable, uCount, starved>>
        \/ /\ i # 0
           /\ uCount' = uCount - 1
           /\ result' = <<"remove", k, Chain(ppBucketTable, k)[i].v>>
           /\ IF Size(table) > 4 * (uCount - 1) /\ Size(table) > uMinimumSize
              THEN Resize(table, Halved(Size(table)))
              ELSE ppBucketTable' = table /\ UNCHANGED starved

HASH_Retrieve_Extended(k) ==
    LET i == Found(ppBucketTable, k)
    IN  /\ result' = <<"retrieve", k, IF i = 0 THEN 0 ELSE Chain(ppBucketTable, k)[i].v>>
        /\ UNCHANGED <<ppBucketTable, uCount, starved>>

Next == \E k \in Keys : \/ \E v \in Values : HASH_Insert_Extended(k, v)
                        \/ HASH_Remove_Extended(k)
                        \/ HASH_Retrieve_Extended(k)

Spec == Init /\ [][Next]_vars

-----------------------------------------------------------------------------
(* Properties.                                                              *)

Entries == UNION {ToSet(ppBucketTable[i]) : i \in DOMAIN ppBucketTable}
Held == [k \in {b.k : b \in Entries} |-> (CHOOSE b \in Entries : b.k = k).v]

(* Whatever the chains went through, the table answers as a map from keys   *)
(* to values does.                                                          *)
Map == INSTANCE KeyedMap WITH held <- Held

(* Chains stay short: the table is at most half full, and no larger than    *)
(* eight times its entries or twice its first size, unless there was no     *)
(* memory.  The count is that of the entries.                               *)
LoadBounded ==
    /\ uCount = Cardinality(Entries) /\ Size(ppBucketTable) >= uMinimumSize
    /\ \/ starved
       \/ /\ 2 * uCount <= Size(ppBucketTable)
          /\ Size(ppBucketTable) <= 8 * uCount \/ Size(ppBucketTable) <= 2 * uMinimumSize
=============================================================================
