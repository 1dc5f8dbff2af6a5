-------------------------- MODULE SyncModObjProofs --------------------------
(* Theorems about SyncModObj, for any number of processes, objects and      *)
(* surfaces and counters of every width.                                    *)
EXTENDS SyncModObj, TLAPS, FiniteSetTheorems, SequenceTheorems

-----------------------------------------------------------------------------
(* The inductive invariant                                                  *)

(* How many of the first i operations in q count as f.                      *)
Ups(q, f, i) == Cardinality({j \in 1 .. i : f \in q[j].flags})

(* The counts w and r are those of a surface with outstanding operations q  *)
(* and counters c when the first i operations will be complete.             *)
After(q, c, i, w, r) ==
    /\ Diff(w, c.woc) = Ups(q, "WO_INC", i)
    /\ Diff(r, c.roc) = Ups(q, "RO_INC", i)

(* The pending counts are those after all operations, a ticket is the       *)
(* counts before its operation; n operations were issued.                   *)
TicketsRight(q, c, n) ==
    /\ Len(q) < Modulus
    /\ Len(q) <= n
    /\ After(q, c, Len(q), c.wop, c.rop)
    /\ \A i \in DOMAIN q : /\ After(q, c, i - 1, q[i].wsnap, q[i].rsnap)
                           /\ q[i].n + Len(q) + 1 = n + i

(* A token t is the counts after the operations issued before it that are   *)
(* outstanding; when there are none and the counters have not gone round    *)
(* since, the complete counts lie between the token and the pending counts. *)
TokenRight(q, c, n, t) ==
    /\ t.n <= n
    /\ \A k \in 0 .. Len(q) : k + n = t.n + Len(q) => After(q, c, k, t.wsnap, t.rsnap)
    /\ t.n + Len(q) <= n /\ n < t.n + Modulus =>
           /\ Diff(c.wop, t.wsnap) = Diff(c.woc, t.wsnap) + Ups(q, "WO_INC", Len(q))
           /\ Diff(c.rop, t.rsnap) = Diff(c.roc, t.rsnap) + Ups(q, "RO_INC", Len(q))
           /\ Diff(c.wop, t.wsnap) + t.n <= n
           /\ Diff(c.rop, t.rsnap) + t.n <= n

CountsInv ==
    \A s \in Syncs : /\ TicketsRight(ops[s], sync[s], issued[s])
                     /\ TokenRight(ops[s], sync[s], issued[s], token[s])

(* The object o has the ticket of the i-th operation on s.                  *)
Describes(o, s, i) ==
    /\ ops[s][i].by = o
    /\ ops[s][i].wsnap = obj[o].wsnap
    /\ ops[s][i].rsnap = obj[o].rsnap

(* The operations of processes and the objects that are not empty describe  *)
(* each other.                                                              *)
HeldInv ==
    /\ \A o \in Objects : obj[o].sync \in Syncs => \E i \in DOMAIN ops[obj[o].sync] :
                                                       Describes(o, obj[o].sync, i)
    /\ \A o \in Objects : obj[o].owner = "none" => obj[o].sync = "none"
    /\ \A s \in Syncs : \A i \in DOMAIN ops[s] :
           ops[s][i].by \in Objects =>
               /\ obj[ops[s][i].by].sync = s
               /\ \A j \in DOMAIN ops[s] : ops[s][j].by = ops[s][i].by => j = i

(* Lists: no element twice, and who precedes whom.                          *)
Distinct(list) == \A i, j \in DOMAIN list : list[i] = list[j] => i = j
Before(list, a, b) == \E i, j \in DOMAIN list : i < j /\ list[i] = a /\ list[j] = b

(* A process lists the objects it owns, but for the one it waits for.       *)
OwnedInv ==
    /\ \A p \in Processes : /\ Distinct(resList[p])
                            /\ \A o \in Range(resList[p]) : obj[o].owner = p
    /\ \A o \in Objects : obj[o].owner \in Processes =>
           o \in Range(resList[obj[o].owner]) \/ (exit.pc = "wait" /\ exit.item = o)
    /\ exit.pc = "wait" => /\ obj[exit.item].owner = exit.proc
                           /\ exit.item \notin Range(resList[exit.proc])

(* On every surface, what a announced comes after what b announced.         *)
Later(a, b) ==
    \A s \in Syncs : \A i, j \in DOMAIN ops[s] :
        ops[s][i].by = a /\ ops[s][j].by = b => i > j

(* A list has the latest announcement first, and the first one first while  *)
(* its process ends.                                                        *)
OrderInv ==
    /\ \A p \in Processes : \A a, b \in Objects :
           Before(resList[p], a, b) =>
               IF exit.pc # "none" /\ exit.proc = p THEN Later(b, a) ELSE Later(a, b)
    /\ exit.pc = "wait" => \A b \in Range(resList[exit.proc]) : Later(b, exit.item)

IInv == TypeOK /\ CountsInv /\ HeldInv /\ OwnedInv /\ OrderInv

-----------------------------------------------------------------------------
(* Counters                                                                 *)

(* Incrementing a count.                                                    *)
LEMMA IncIs ==
  ASSUME NEW x \in Count
  PROVE  Inc(x) = (IF x + 1 = Modulus THEN 0 ELSE x + 1) /\ Inc(x) \in Count
BY NumbersAssumption DEF Inc, Count

(* The difference of two counts.                                            *)
LEMMA DiffIs ==
  ASSUME NEW a \in Count, NEW b \in Count
  PROVE  Diff(a, b) = (IF b <= a THEN a - b ELSE a + Modulus - b) /\ Diff(a, b) \in Count
<1>1. CASE b <= a
  <2>1. a + Modulus - b = (a - b) + Modulus /\ a - b \in 0 .. Modulus - 1
    BY <1>1, NumbersAssumption DEF Count
  <2>2. ((a - b) + Modulus) % Modulus = a - b
    BY <2>1, NumbersAssumption
  <2> QED BY <1>1, <2>1, <2>2 DEF Diff, Count
<1>2. CASE a < b
  <2>1. a + Modulus - b \in 0 .. Modulus - 1
    BY <1>2, NumbersAssumption DEF Count
  <2>2. (a + Modulus - b) % Modulus = a + Modulus - b
    BY <2>1, NumbersAssumption
  <2> QED BY <1>2, <2>1, <2>2, NumbersAssumption DEF Diff, Count
<1> QED BY <1>1, <1>2, NumbersAssumption DEF Count

(* Its range.                                                               *)
LEMMA DiffRange ==
  ASSUME NEW a \in Count, NEW b \in Count
  PROVE  Diff(a, b) \in Nat /\ Diff(a, b) < Modulus
<1>1. Diff(a, b) \in Count
  BY DiffIs
<1> QED BY <1>1, NumbersAssumption DEF Count

(* Differences and equality.                                                *)
LEMMA DiffZero ==
  ASSUME NEW a \in Count, NEW b \in Count
  PROVE  Diff(a, b) = 0 <=> a = b
<1>1. Diff(a, b) = IF b <= a THEN a - b ELSE a + Modulus - b
  BY DiffIs
<1> QED BY <1>1, NumbersAssumption DEF Count

(* The count ahead goes up.                                                 *)
LEMMA DiffUp ==
  ASSUME NEW a \in Count, NEW b \in Count, Diff(a, b) + 1 < Modulus
  PROVE  Diff(Inc(a), b) = Diff(a, b) + 1
<1>1. Diff(a, b) = IF b <= a THEN a - b ELSE a + Modulus - b
  BY DiffIs
<1>2. Inc(a) = (IF a + 1 = Modulus THEN 0 ELSE a + 1) /\ Inc(a) \in Count
  BY IncIs
<1>3. Diff(Inc(a), b) = IF b <= Inc(a) THEN Inc(a) - b ELSE Inc(a) + Modulus - b
  BY <1>2, DiffIs
<1> QED BY <1>1, <1>2, <1>3, NumbersAssumption DEF Count

(* The count behind goes up.                                                *)
LEMMA DiffDown ==
  ASSUME NEW a \in Count, NEW b \in Count, Diff(a, b) > 0
  PROVE  Diff(a, Inc(b)) = Diff(a, b) - 1
<1>1. Diff(a, b) = IF b <= a THEN a - b ELSE a + Modulus - b
  BY DiffIs
<1>2. Inc(b) = (IF b + 1 = Modulus THEN 0 ELSE b + 1) /\ Inc(b) \in Count
  BY IncIs
<1>3. Diff(a, Inc(b)) = IF Inc(b) <= a THEN a - Inc(b) ELSE a + Modulus - Inc(b)
  BY <1>2, DiffIs
<1> QED BY <1>1, <1>2, <1>3, NumbersAssumption DEF Count

(* Counts measured from a third one.                                        *)
LEMMA DiffBetween ==
  ASSUME NEW a \in Count, NEW b \in Count, NEW c \in Count, Diff(b, c) <= Diff(a, c)
  PROVE  Diff(a, b) = Diff(a, c) - Diff(b, c)
<1>1. /\ Diff(a, b) = IF b <= a THEN a - b ELSE a + Modulus - b
      /\ Diff(a, c) = IF c <= a THEN a - c ELSE a + Modulus - c
      /\ Diff(b, c) = IF c <= b THEN b - c ELSE b + Modulus - c
  BY DiffIs
<1> QED BY <1>1, NumbersAssumption DEF Count

-----------------------------------------------------------------------------
(* Sequences                                                                *)

(* Appending to a sequence.                                                 *)
LEMMA AppendFacts ==
  ASSUME NEW S, NEW q \in Seq(S), NEW e \in S
  PROVE  /\ Append(q, e) \in Seq(S) /\ Append(q, e) # <<>>
         /\ Len(q) \in Nat /\ DOMAIN q = 1 .. Len(q)
         /\ Len(Append(q, e)) = Len(q) + 1 /\ DOMAIN Append(q, e) = 1 .. Len(q) + 1
         /\ \A i \in 1 .. Len(q) : Append(q, e)[i] = q[i] /\ q[i] \in S
         /\ Append(q, e)[Len(q) + 1] = e
OBVIOUS

(* The rest of a sequence.                                                  *)
LEMMA TailFacts ==
  ASSUME NEW S, NEW q \in Seq(S), q # <<>>
  PROVE  /\ Tail(q) \in Seq(S)
         /\ Len(q) \in Nat \ {0} /\ DOMAIN q = 1 .. Len(q)
         /\ Len(Tail(q)) = Len(q) - 1 /\ DOMAIN Tail(q) = 1 .. Len(q) - 1
         /\ \A i \in 1 .. Len(q) - 1 : Tail(q)[i] = q[i + 1]
         /\ \A i \in 1 .. Len(q) : q[i] \in S
         /\ Head(q) = q[1]
<1>1. Len(q) \in Nat \ {0} /\ DOMAIN q = 1 .. Len(q) /\ \A i \in 1 .. Len(q) : q[i] \in S
  OBVIOUS
<1>2. Tail(q) \in Seq(S) /\ Len(Tail(q)) = Len(q) - 1 /\ Head(q) = q[1]
  OBVIOUS
<1>3. \A i \in 1 .. Len(q) - 1 : Tail(q)[i] = q[i + 1]
  BY <1>1
<1>4. DOMAIN Tail(q) = 1 .. Len(q) - 1
  BY <1>2
<1> QED BY <1>1, <1>2, <1>3, <1>4

(* Taking one element out of a sequence.                                    *)
LEMMA RemoveAtFacts ==
  ASSUME NEW S, NEW q \in Seq(S), NEW k \in DOMAIN q
  PROVE  /\ RemoveAt(q, k) \in Seq(S)
         /\ Len(q) \in Nat \ {0} /\ DOMAIN q = 1 .. Len(q)
         /\ Len(RemoveAt(q, k)) = Len(q) - 1 /\ DOMAIN RemoveAt(q, k) = 1 .. Len(q) - 1
         /\ \A i \in 1 .. Len(q) - 1 :
                RemoveAt(q, k)[i] = q[IF i < k THEN i ELSE i + 1]
<1> DEFINE f == SubSeq(q, 1, k - 1)
           b == SubSeq(q, k + 1, Len(q))
<1>1. Len(q) \in Nat \ {0} /\ DOMAIN q = 1 .. Len(q) /\ k \in 1 .. Len(q)
      /\ \A i \in 1 .. Len(q) : q[i] \in S
  OBVIOUS
<1>2. f \in Seq(S) /\ Len(f) = k - 1 /\ \A i \in 1 .. k - 1 : f[i] = q[i]
  <2>1. 1 \in Int /\ k - 1 \in Int /\ \A i \in 1 .. k - 1 : q[i] \in S
    BY <1>1
  <2>2. /\ f \in Seq(S)
        /\ Len(f) = IF 1 <= k - 1 THEN (k - 1) - 1 + 1 ELSE 0
        /\ \A i \in 1 .. (k - 1) - 1 + 1 : f[i] = q[1 + i - 1]
    BY <2>1, SubSeqProperties
  <2> HIDE DEF f
  <2>3. (IF 1 <= k - 1 THEN (k - 1) - 1 + 1 ELSE 0) = k - 1 /\ (k - 1) - 1 + 1 = k - 1
    BY <1>1
  <2>4. \A i \in 1 .. k - 1 : 1 + i - 1 = i
    BY <1>1
  <2> QED BY <2>2, <2>3, <2>4
<1>3. b \in Seq(S) /\ Len(b) = Len(q) - k /\ \A i \in 1 .. Len(q) - k : b[i] = q[k + i]
  <2>1. k + 1 \in Int /\ Len(q) \in Int /\ \A i \in k + 1 .. Len(q) : q[i] \in S
    BY <1>1
  <2>2. /\ b \in Seq(S)
        /\ Len(b) = IF k + 1 <= Len(q) THEN Len(q) - (k + 1) + 1 ELSE 0
        /\ \A i \in 1 .. Len(q) - (k + 1) + 1 : b[i] = q[(k + 1) + i - 1]
    BY <2>1, SubSeqProperties
  <2> HIDE DEF b
  <2>3. /\ (IF k + 1 <= Len(q) THEN Len(q) - (k + 1) + 1 ELSE 0) = Len(q) - k
        /\ Len(q) - (k + 1) + 1 = Len(q) - k
    BY <1>1
  <2>4. \A i \in 1 .. Len(q) - k : (k + 1) + i - 1 = k + i
    BY <1>1
  <2> QED BY <2>2, <2>3, <2>4
<1>4. RemoveAt(q, k) = f \o b
  BY DEF RemoveAt
<1> HIDE DEF f, b
<1>5. /\ f \o b \in Seq(S) /\ Len(f \o b) = Len(q) - 1
      /\ \A i \in 1 .. Len(q) - 1 : (f \o b)[i] = IF i <= k - 1 THEN f[i] ELSE b[i - (k - 1)]
  <2>1. /\ f \o b \in Seq(S) /\ Len(f \o b) = Len(f) + Len(b)
        /\ \A i \in 1 .. Len(f) + Len(b) : (f \o b)[i] = IF i <= Len(f) THEN f[i] ELSE b[i - Len(f)]
    BY <1>2, <1>3, ConcatProperties
  <2> QED BY <1>1, <1>2, <1>3, <2>1
<1>6. \A i \in 1 .. Len(q) - 1 : (f \o b)[i] = q[IF i < k THEN i ELSE i + 1]
  <2> TAKE i \in 1 .. Len(q) - 1
  <2>1. CASE i < k
    <3>1. i <= k - 1 /\ i \in 1 .. k - 1
      BY <1>1, <2>1
    <3>2. (f \o b)[i] = f[i] /\ f[i] = q[i]
      BY <1>2, <1>5, <3>1
    <3> QED BY <2>1, <3>2
  <2>2. CASE i >= k
    <3>1. i - (k - 1) \in 1 .. Len(q) - k /\ k + (i - (k - 1)) = i + 1
      BY <1>1, <2>2
    <3>2. b[i - (k - 1)] = q[i + 1]
      BY <1>3, <3>1
    <3> QED BY <1>1, <1>5, <2>2, <3>2
  <2>3. i < k \/ i >= k
    BY <1>1
  <2> QED BY <2>1, <2>2, <2>3
<1>7. DOMAIN (f \o b) = 1 .. Len(q) - 1
  BY <1>5, LenProperties
<1> QED BY Zenon, <1>1, <1>5, <1>6, <1>4, <1>7

(* Taking the first element out of a sequence.                              *)
LEMMA RemoveAtFirst ==
  ASSUME NEW S, NEW q \in Seq(S), q # <<>>
  PROVE  RemoveAt(q, 1) = Tail(q)
<1> DEFINE r == RemoveAt(q, 1)
           t == Tail(q)
<1>1. 1 \in DOMAIN q
  BY LenProperties, EmptySeq
<1>2. /\ r \in Seq(S) /\ Len(r) = Len(q) - 1
      /\ \A i \in 1 .. Len(q) - 1 : r[i] = q[i + 1]
  BY <1>1, RemoveAtFacts
<1>3. /\ t \in Seq(S) /\ Len(t) = Len(q) - 1
      /\ \A i \in 1 .. Len(q) - 1 : t[i] = q[i + 1]
  BY TailFacts
<1> HIDE DEF r, t
<1>4. Len(r) = Len(t) /\ \A i \in 1 .. Len(r) : r[i] = t[i]
  BY <1>2, <1>3
<1>5. r = t
  BY <1>2, <1>3, <1>4, SeqEqual
<1> QED BY <1>5 DEF r, t

-----------------------------------------------------------------------------
(* Counting the operations of a queue                                       *)

(* The operations of a kind among the first i.                              *)
Kind(q, f, i) == {j \in 1 .. i : f \in q[j].flags}

(* They are finitely many, at most i.                                       *)
LEMMA KindFinite ==
  ASSUME NEW q, NEW f, NEW i \in Nat
  PROVE  IsFiniteSet(Kind(q, f, i)) /\ Ups(q, f, i) = Cardinality(Kind(q, f, i))
         /\ Ups(q, f, i) \in Nat /\ Ups(q, f, i) <= i
<1>1. IsFiniteSet(1 .. i) /\ Cardinality(1 .. i) = i
  BY FS_Interval
<1>2. Kind(q, f, i) \in SUBSET (1 .. i)
  BY DEF Kind
<1>3. IsFiniteSet(Kind(q, f, i)) /\ Cardinality(Kind(q, f, i)) <= i
  BY <1>1, <1>2, FS_Subset
<1>4. Cardinality(Kind(q, f, i)) \in Nat
  BY <1>3, FS_CardinalityType
<1> QED BY <1>3, <1>4 DEF Ups, Kind

(* None among none.                                                         *)
LEMMA UpsNone == ASSUME NEW q, NEW f PROVE Ups(q, f, 0) = 0
BY KindFinite

(* One operation more.                                                      *)
LEMMA UpsStep ==
  ASSUME NEW q, NEW f, NEW i \in Nat
  PROVE  Ups(q, f, i + 1) = Ups(q, f, i) + (IF f \in q[i + 1].flags THEN 1 ELSE 0)
<1>1. CASE f \in q[i + 1].flags
  <2>1. Kind(q, f, i + 1) = Kind(q, f, i) \cup {i + 1} /\ i + 1 \notin Kind(q, f, i)
    BY <1>1 DEF Kind
  <2>2. Cardinality(Kind(q, f, i) \cup {i + 1}) = Cardinality(Kind(q, f, i)) + 1
    BY <2>1, KindFinite, FS_AddElement
  <2> QED BY <1>1, <2>1, <2>2, KindFinite
<1>2. CASE f \notin q[i + 1].flags
  <2>1. Kind(q, f, i + 1) = Kind(q, f, i)
    BY <1>2 DEF Kind
  <2> QED BY <1>2, <2>1, KindFinite
<1> QED BY <1>1, <1>2

(* More operations, more of a kind.                                         *)
LEMMA UpsMonotone ==
  ASSUME NEW q, NEW f, NEW i \in Nat, NEW j \in Nat, i <= j
  PROVE  Ups(q, f, i) <= Ups(q, f, j)
<1>1. Kind(q, f, i) \in SUBSET Kind(q, f, j)
  BY DEF Kind
<1> QED BY <1>1, KindFinite, FS_Subset

(* The count depends on the first i operations only.                        *)
LEMMA UpsSame ==
  ASSUME NEW q, NEW r, NEW f, NEW i \in Nat, \A j \in 1 .. i : q[j] = r[j]
  PROVE  Ups(q, f, i) = Ups(r, f, i)
BY DEF Ups

(* Without the first operation.                                             *)
LEMMA UpsTail ==
  ASSUME NEW q \in Seq(Operation), q # <<>>, NEW f, NEW i \in 0 .. Len(q) - 1
  PROVE  Ups(Tail(q), f, i) = Ups(q, f, i + 1) - (IF f \in q[1].flags THEN 1 ELSE 0)
<1> DEFINE rest == Kind(q, f, i + 1) \ {1}
           up == [j \in Kind(Tail(q), f, i) |-> j + 1]
<1>1. Len(q) \in Nat \ {0} /\ i \in Nat /\ \A j \in 1 .. i : Tail(q)[j] = q[j + 1]
  BY TailFacts
<1>2. \A j \in 1 .. i : j \in Kind(Tail(q), f, i) <=> j + 1 \in rest
  BY <1>1 DEF Kind
<1>3. up \in Bijection(Kind(Tail(q), f, i), rest)
  <2>1. \A j \in Kind(Tail(q), f, i) : j \in 1 .. i /\ j + 1 \in rest
    BY <1>2 DEF Kind
  <2>2. up \in [Kind(Tail(q), f, i) -> rest]
    BY <2>1
  <2>3. \A j, k \in Kind(Tail(q), f, i) : up[j] = up[k] => j = k
    BY <2>1
  <2>4. \A k \in rest : \E j \in Kind(Tail(q), f, i) : up[j] = k
    <3> TAKE k \in rest
    <3>1. k - 1 \in 1 .. i /\ (k - 1) + 1 = k
      BY <1>1 DEF Kind
    <3>2. k - 1 \in Kind(Tail(q), f, i)
      BY <1>2, <3>1
    <3> QED BY <3>1, <3>2
  <2> HIDE DEF up, rest
  <2> QED BY <2>2, <2>3, <2>4 DEF Bijection, Injection, Surjection, IsInjective
<1>4. Cardinality(rest) = Ups(Tail(q), f, i)
  BY <1>1, <1>3, KindFinite, FS_Bijection DEF ExistsBijection
<1>5. Cardinality(rest) = Ups(q, f, i + 1) - (IF f \in q[1].flags THEN 1 ELSE 0)
  <2>1. i + 1 \in Nat /\ (1 \in Kind(q, f, i + 1) <=> f \in q[1].flags)
    BY <1>1 DEF Kind
  <2>2. /\ IsFiniteSet(Kind(q, f, i + 1))
        /\ Ups(q, f, i + 1) = Cardinality(Kind(q, f, i + 1)) /\ Ups(q, f, i + 1) \in Nat
    BY <2>1, KindFinite
  <2>3. Cardinality(rest) = IF 1 \in Kind(q, f, i + 1) THEN Cardinality(Kind(q, f, i + 1)) - 1
                                                      ELSE Cardinality(Kind(q, f, i + 1))
    BY <2>2, FS_RemoveElement
  <2> QED BY <2>1, <2>2, <2>3
<1> QED BY <1>4, <1>5

(* Every operation is a write, a read or both.                              *)
LEMMA UpsCover ==
  ASSUME NEW q \in Seq(Operation), NEW i \in 0 .. Len(q)
  PROVE  i <= Ups(q, "WO_INC", i) + Ups(q, "RO_INC", i)
<1> DEFINE writes == Kind(q, "WO_INC", i)
           reads  == Kind(q, "RO_INC", i)
<1>1. i \in Nat /\ \A j \in 1 .. i : q[j] \in Operation
  BY ElementOfSeq, LenProperties
<1>2. \A j \in 1 .. i : "WO_INC" \in q[j].flags \/ "RO_INC" \in q[j].flags
  BY <1>1 DEF Operation, Flags
<1>3. writes \cup reads = 1 .. i
  BY <1>2 DEF Kind
<1>4. IsFiniteSet(writes) /\ IsFiniteSet(reads)
  BY <1>1, KindFinite
<1>5. Cardinality(writes \cup reads)
          = Cardinality(writes) + Cardinality(reads) - Cardinality(writes \cap reads)
  BY <1>4, FS_Union
<1>6. Cardinality(writes \cap reads) \in Nat
  <2>1. writes \cap reads \in SUBSET writes
    OBVIOUS
  <2> QED BY <1>4, <2>1, FS_Subset, FS_CardinalityType
<1>7. Cardinality(1 .. i) = i
  BY <1>1, FS_Interval
<1>8. Ups(q, "WO_INC", i) = Cardinality(writes) /\ Ups(q, "RO_INC", i) = Cardinality(reads)
      /\ Cardinality(writes) \in Nat /\ Cardinality(reads) \in Nat
  BY <1>1, KindFinite
<1>9. i = Cardinality(writes) + Cardinality(reads) - Cardinality(writes \cap reads)
  BY <1>3, <1>5, <1>7
<1> HIDE DEF writes, reads
<1> QED BY <1>1, <1>6, <1>8, <1>9

-----------------------------------------------------------------------------
(* Tickets and tokens                                                       *)

Counters == [wop : Count, rop : Count, woc : Count, roc : Count]
Token == [wsnap : Count, rsnap : Count, n : Nat]

(* Every operation in a queue is one.                                       *)
LEMMA QueueFacts ==
  ASSUME NEW q \in Seq(Operation)
  PROVE  /\ Len(q) \in Nat /\ DOMAIN q = 1 .. Len(q) /\ (q = <<>> <=> Len(q) = 0)
         /\ \A i \in 1 .. Len(q) : q[i] \in Operation /\ q[i].wsnap \in Count
                                   /\ q[i].rsnap \in Count /\ q[i].n \in Nat
<1>1. Len(q) \in Nat /\ DOMAIN q = 1 .. Len(q) /\ (q = <<>> <=> Len(q) = 0)
  BY LenProperties, EmptySeq
<1>2. \A i \in 1 .. Len(q) : q[i] \in Operation
  BY ElementOfSeq
<1> QED BY <1>1, <1>2 DEF Operation

(* The pending counts, seen from a ticket.                                  *)
LEMMA TicketToPending ==
  ASSUME NEW q \in Seq(Operation), NEW c \in Counters, NEW n \in Nat, TicketsRight(q, c, n),
         NEW i \in 0 .. Len(q), NEW w \in Count, NEW r \in Count, After(q, c, i, w, r)
  PROVE  /\ Diff(c.wop, w) = Ups(q, "WO_INC", Len(q)) - Ups(q, "WO_INC", i)
         /\ Diff(c.rop, r) = Ups(q, "RO_INC", Len(q)) - Ups(q, "RO_INC", i)
<1>1. Len(q) \in Nat /\ i \in Nat /\ i <= Len(q)
  BY QueueFacts
<1>2. /\ c.wop \in Count /\ c.rop \in Count /\ c.woc \in Count /\ c.roc \in Count
      /\ After(q, c, Len(q), c.wop, c.rop)
  BY DEF TicketsRight, Counters
<1>3. /\ Ups(q, "WO_INC", i) <= Ups(q, "WO_INC", Len(q))
      /\ Ups(q, "RO_INC", i) <= Ups(q, "RO_INC", Len(q))
  BY <1>1, UpsMonotone
<1> QED BY <1>2, <1>3, DiffBetween DEF After

(* Only the first operation can find its turn, and it does.                 *)
LEMMA TurnIsFirst ==
  ASSUME NEW q \in Seq(Operation), NEW c \in Counters, NEW n \in Nat, TicketsRight(q, c, n),
         NEW i \in DOMAIN q
  PROVE  q[i].wsnap = c.woc /\ q[i].rsnap = c.roc <=> i = 1
<1>1. /\ i \in 1 .. Len(q) /\ i - 1 \in 0 .. Len(q) /\ i - 1 \in Nat
      /\ q[i].wsnap \in Count /\ q[i].rsnap \in Count
      /\ c.woc \in Count /\ c.roc \in Count
  BY QueueFacts DEF Counters
<1>2. After(q, c, i - 1, q[i].wsnap, q[i].rsnap)
  BY DEF TicketsRight
<1>3. /\ q[i].wsnap = c.woc <=> Ups(q, "WO_INC", i - 1) = 0
      /\ q[i].rsnap = c.roc <=> Ups(q, "RO_INC", i - 1) = 0
  BY <1>1, <1>2, DiffZero DEF After
<1>4. /\ i - 1 <= Ups(q, "WO_INC", i - 1) + Ups(q, "RO_INC", i - 1)
      /\ Ups(q, "WO_INC", i - 1) \in Nat /\ Ups(q, "WO_INC", i - 1) <= i - 1
      /\ Ups(q, "RO_INC", i - 1) \in Nat /\ Ups(q, "RO_INC", i - 1) <= i - 1
  BY <1>1, UpsCover, KindFinite
<1> QED BY <1>1, <1>3, <1>4

(* Nor is any other one told that those before it are complete.             *)
LEMMA SatisfiedIsFirst ==
  ASSUME NEW q \in Seq(Operation), NEW c \in Counters, NEW n \in Nat, TicketsRight(q, c, n),
         NEW i \in DOMAIN q,
         Diff(c.wop, q[i].wsnap) >= Diff(c.wop, c.woc),
         Diff(c.rop, q[i].rsnap) >= Diff(c.rop, c.roc)
  PROVE  i = 1
<1>1. /\ i \in 1 .. Len(q) /\ i - 1 \in 0 .. Len(q) /\ i - 1 \in Nat /\ Len(q) \in Nat
      /\ q[i].wsnap \in Count /\ q[i].rsnap \in Count
  BY QueueFacts
<1>2. After(q, c, i - 1, q[i].wsnap, q[i].rsnap) /\ After(q, c, Len(q), c.wop, c.rop)
  BY DEF TicketsRight
<1>3. /\ Diff(c.wop, q[i].wsnap) = Ups(q, "WO_INC", Len(q)) - Ups(q, "WO_INC", i - 1)
      /\ Diff(c.rop, q[i].rsnap) = Ups(q, "RO_INC", Len(q)) - Ups(q, "RO_INC", i - 1)
  BY <1>1, <1>2, TicketToPending
<1>4. /\ i - 1 <= Ups(q, "WO_INC", i - 1) + Ups(q, "RO_INC", i - 1)
      /\ Ups(q, "WO_INC", i - 1) \in Nat /\ Ups(q, "RO_INC", i - 1) \in Nat
      /\ Ups(q, "WO_INC", Len(q)) \in Nat /\ Ups(q, "RO_INC", Len(q)) \in Nat
  BY <1>1, UpsCover, KindFinite
<1>5. Diff(c.wop, c.woc) = Ups(q, "WO_INC", Len(q)) /\ Diff(c.rop, c.roc) = Ups(q, "RO_INC", Len(q))
  BY <1>2 DEF After
<1> QED BY <1>1, <1>3, <1>4, <1>5

(* Taking a token.                                                          *)
LEMMA TakingIsRight ==
  ASSUME NEW q \in Seq(Operation), NEW c \in Counters, NEW n \in Nat, TicketsRight(q, c, n),
         NEW t \in Token, t.wsnap = c.wop, t.rsnap = c.rop, t.n = n
  PROVE  TokenRight(q, c, n, t)
<1>1. /\ Len(q) \in Nat /\ After(q, c, Len(q), c.wop, c.rop)
      /\ c.wop \in Count /\ c.rop \in Count /\ c.woc \in Count /\ c.roc \in Count
  BY QueueFacts DEF TicketsRight, Counters
<1>2. \A k \in 0 .. Len(q) : k + n = t.n + Len(q) => After(q, c, k, t.wsnap, t.rsnap)
  <2> SUFFICES ASSUME NEW k \in 0 .. Len(q), k + n = t.n + Len(q)
               PROVE  After(q, c, k, t.wsnap, t.rsnap)
    OBVIOUS
  <2>1. k = Len(q)
    BY <1>1
  <2> QED BY <1>1, <2>1
<1>3. ASSUME t.n + Len(q) <= n
      PROVE  /\ Diff(c.wop, t.wsnap) = Diff(c.woc, t.wsnap) + Ups(q, "WO_INC", Len(q))
             /\ Diff(c.rop, t.rsnap) = Diff(c.roc, t.rsnap) + Ups(q, "RO_INC", Len(q))
             /\ Diff(c.wop, t.wsnap) + t.n <= n
             /\ Diff(c.rop, t.rsnap) + t.n <= n
  <2>1. Len(q) = 0
    BY <1>1, <1>3
  <2>2. Ups(q, "WO_INC", Len(q)) = 0 /\ Ups(q, "RO_INC", Len(q)) = 0
    BY <2>1, UpsNone
  <2>3. c.wop = c.woc /\ c.rop = c.roc
    BY <1>1, <2>2, DiffZero DEF After
  <2>4. Diff(c.wop, c.wop) = 0 /\ Diff(c.rop, c.rop) = 0
    BY <1>1, DiffZero
  <2> QED BY <2>2, <2>3, <2>4
<1> QED BY <1>2, <1>3 DEF TokenRight

(* An operation is issued: the counters c become d.                         *)
Pended(c, d, flags) ==
    /\ d.wop = IF "WO_INC" \in flags THEN Inc(c.wop) ELSE c.wop
    /\ d.rop = IF "RO_INC" \in flags THEN Inc(c.rop) ELSE c.rop
    /\ d.woc = c.woc /\ d.roc = c.roc

(* It keeps the tickets and the token right.                                *)
LEMMA IssueKeepsRight ==
  ASSUME NEW q \in Seq(Operation), NEW c \in Counters, NEW n \in Nat, NEW t \in Token,
         TicketsRight(q, c, n), TokenRight(q, c, n, t),
         NEW e \in Operation, e.n = n, e.wsnap = c.wop, e.rsnap = c.rop,
         NEW d \in Counters, Pended(c, d, e.flags), Len(q) + 1 < Modulus
  PROVE  TicketsRight(Append(q, e), d, n + 1) /\ TokenRight(Append(q, e), d, n + 1, t)
<1> DEFINE a == Append(q, e)
           L == Len(q)
           one(f) == IF f \in e.flags THEN 1 ELSE 0
<1>1. /\ a \in Seq(Operation) /\ L \in Nat /\ DOMAIN q = 1 .. L
      /\ Len(a) = L + 1 /\ DOMAIN a = 1 .. L + 1
      /\ \A i \in 1 .. L : a[i] = q[i]
      /\ a[L + 1] = e
  BY AppendFacts
<1>2. /\ c.wop \in Count /\ c.rop \in Count /\ c.woc \in Count /\ c.roc \in Count
      /\ d.wop \in Count /\ d.rop \in Count /\ d.woc = c.woc /\ d.roc = c.roc
      /\ t.wsnap \in Count /\ t.rsnap \in Count /\ t.n \in Nat /\ Modulus \in Nat
  BY NumbersAssumption DEF Counters, Token, Pended
<1> HIDE DEF a
<1>3. \A i \in 0 .. L : Ups(a, "WO_INC", i) = Ups(q, "WO_INC", i)
                        /\ Ups(a, "RO_INC", i) = Ups(q, "RO_INC", i)
  <2> TAKE i \in 0 .. L
  <2>1. i \in Nat /\ \A j \in 1 .. i : a[j] = q[j]
    BY <1>1
  <2> QED BY <2>1, UpsSame
<1>4. /\ Ups(a, "WO_INC", L + 1) = Ups(q, "WO_INC", L) + one("WO_INC")
      /\ Ups(a, "RO_INC", L + 1) = Ups(q, "RO_INC", L) + one("RO_INC")
      /\ Ups(q, "WO_INC", L) \in Nat /\ Ups(q, "WO_INC", L) <= L
      /\ Ups(q, "RO_INC", L) \in Nat /\ Ups(q, "RO_INC", L) <= L
  <2>1. L \in 0 .. L /\ L \in Nat /\ a[L + 1] = e
    BY <1>1
  <2>2. \A f : Ups(a, f, L + 1) = Ups(a, f, L) + one(f)
    BY <2>1, UpsStep
  <2>3. \A f : Ups(q, f, L) \in Nat /\ Ups(q, f, L) <= L
    BY <2>1, KindFinite
  <2> QED BY <1>3, <2>1, <2>2, <2>3
<1>5. \A x \in Count : /\ Diff(c.wop, x) + 1 < Modulus => Diff(d.wop, x) = Diff(c.wop, x) + one("WO_INC")
                       /\ Diff(c.rop, x) + 1 < Modulus => Diff(d.rop, x) = Diff(c.rop, x) + one("RO_INC")
  <2> TAKE x \in Count
  <2>1. Diff(c.wop, x) \in Nat /\ Diff(c.rop, x) \in Nat
    BY <1>2, DiffRange
  <2> QED BY <1>2, <2>1, DiffUp DEF Pended
<1>6. /\ Diff(c.wop, c.woc) = Ups(q, "WO_INC", L) /\ Diff(c.rop, c.roc) = Ups(q, "RO_INC", L)
      /\ Len(q) <= n
  BY DEF TicketsRight, After
<1>7. After(a, d, L + 1, d.wop, d.rop)
  <2>1. Diff(c.wop, c.woc) + 1 < Modulus /\ Diff(c.rop, c.roc) + 1 < Modulus
    <3>1. /\ Ups(q, "WO_INC", L) \in Nat /\ Ups(q, "WO_INC", L) <= L
          /\ Ups(q, "RO_INC", L) \in Nat /\ Ups(q, "RO_INC", L) <= L
      BY Zenon, <1>4
    <3> QED BY <1>1, <1>2, <1>6, <3>1
  <2>2. /\ Diff(d.wop, c.woc) = Ups(q, "WO_INC", L) + one("WO_INC")
        /\ Diff(d.rop, c.roc) = Ups(q, "RO_INC", L) + one("RO_INC")
    BY <1>2, <1>5, <1>6, <2>1
  <2> QED BY <1>2, <1>4, <2>2 DEF After
<1>8. \A i \in 0 .. L, w, r \in Count : After(q, c, i, w, r) => After(a, d, i, w, r)
  BY <1>2, <1>3 DEF After
<1>9. TicketsRight(a, d, n + 1)
  <2>1. \A i \in DOMAIN a : /\ After(a, d, i - 1, a[i].wsnap, a[i].rsnap)
                            /\ a[i].n + Len(a) + 1 = n + 1 + i
    <3> SUFFICES ASSUME NEW i \in 1 .. L + 1
                 PROVE  /\ After(a, d, i - 1, a[i].wsnap, a[i].rsnap)
                        /\ a[i].n + Len(a) + 1 = n + 1 + i
      BY <1>1
    <3>1. CASE i \in 1 .. L
      <4>1. /\ After(q, c, i - 1, q[i].wsnap, q[i].rsnap) /\ q[i].n + Len(q) + 1 = n + i
            /\ q[i].wsnap \in Count /\ q[i].rsnap \in Count /\ q[i].n \in Nat
        BY <1>1, <3>1, QueueFacts DEF TicketsRight
      <4>2. i - 1 \in 0 .. L
        BY <1>1, <3>1
      <4>3. After(a, d, i - 1, q[i].wsnap, q[i].rsnap)
        BY <1>8, <4>1, <4>2
      <4> QED BY <1>1, <3>1, <4>1, <4>3
    <3>2. CASE i = L + 1
      <4>1. After(q, c, L, c.wop, c.rop) /\ L \in 0 .. L
        BY <1>1 DEF TicketsRight
      <4>2. After(a, d, L, e.wsnap, e.rsnap)
        BY <1>2, <1>8, <4>1
      <4> QED BY <1>1, <3>2, <4>2
    <3> QED BY <1>1, <3>1, <3>2
  <2> QED BY <1>1, <1>6, <1>7, <2>1 DEF TicketsRight
<1>10. TokenRight(a, d, n + 1, t)
  <2>1. /\ t.n <= n
        /\ \A k \in 0 .. L : k + n = t.n + L => After(q, c, k, t.wsnap, t.rsnap)
        /\ t.n + L <= n /\ n < t.n + Modulus =>
               /\ Diff(c.wop, t.wsnap) = Diff(c.woc, t.wsnap) + Ups(q, "WO_INC", L)
               /\ Diff(c.rop, t.rsnap) = Diff(c.roc, t.rsnap) + Ups(q, "RO_INC", L)
               /\ Diff(c.wop, t.wsnap) + t.n <= n
               /\ Diff(c.rop, t.rsnap) + t.n <= n
    BY DEF TokenRight
  <2>2. \A k \in 0 .. L + 1 : k + (n + 1) = t.n + (L + 1) => After(a, d, k, t.wsnap, t.rsnap)
    <3> SUFFICES ASSUME NEW k \in 0 .. L + 1, k + (n + 1) = t.n + (L + 1)
                 PROVE  After(a, d, k, t.wsnap, t.rsnap)
      OBVIOUS
    <3>1. t.n <= n /\ t.n \in Nat /\ L \in Nat
      BY <1>1, <1>2, <2>1
    <3>2. k \in 0 .. L /\ k + n = t.n + L
      BY <3>1
    <3> QED BY <1>2, <1>8, <2>1, <3>2
  <2>3. ASSUME t.n + (L + 1) <= n + 1, n + 1 < t.n + Modulus
        PROVE  /\ Diff(d.wop, t.wsnap) = Diff(d.woc, t.wsnap) + Ups(a, "WO_INC", L + 1)
               /\ Diff(d.rop, t.rsnap) = Diff(d.roc, t.rsnap) + Ups(a, "RO_INC", L + 1)
               /\ Diff(d.wop, t.wsnap) + t.n <= n + 1
               /\ Diff(d.rop, t.rsnap) + t.n <= n + 1
    <3>1. t.n + L <= n /\ n < t.n + Modulus
      BY <1>1, <1>2, <2>3
    <3>2. /\ Diff(c.wop, t.wsnap) = Diff(c.woc, t.wsnap) + Ups(q, "WO_INC", L)
          /\ Diff(c.rop, t.rsnap) = Diff(c.roc, t.rsnap) + Ups(q, "RO_INC", L)
          /\ Diff(c.wop, t.wsnap) + t.n <= n
          /\ Diff(c.rop, t.rsnap) + t.n <= n
      BY Zenon, <2>1, <3>1
    <3>3. /\ Diff(c.wop, t.wsnap) \in Nat /\ Diff(c.rop, t.rsnap) \in Nat
          /\ Diff(c.woc, t.wsnap) \in Nat /\ Diff(c.roc, t.rsnap) \in Nat
      BY <1>2, DiffRange
    <3>4. Diff(c.wop, t.wsnap) + 1 < Modulus /\ Diff(c.rop, t.rsnap) + 1 < Modulus
      <4>1. /\ Diff(c.wop, t.wsnap) + t.n <= n
            /\ Diff(c.rop, t.rsnap) + t.n <= n
        BY Zenon, <3>2
      <4>2. t.n \in Nat /\ Modulus \in Nat
        BY <1>2
      <4>3. n + 1 < t.n + Modulus
        BY <2>3
      <4> QED BY <3>3, <4>1, <4>2, <4>3
    <3>5. /\ Diff(d.wop, t.wsnap) = Diff(c.wop, t.wsnap) + one("WO_INC")
          /\ Diff(d.rop, t.rsnap) = Diff(c.rop, t.rsnap) + one("RO_INC")
      BY Zenon, <1>2, <1>5, <3>4
    <3>6. /\ one("WO_INC") \in 0 .. 1 /\ one("RO_INC") \in 0 .. 1
          /\ d.woc = c.woc /\ d.roc = c.roc /\ t.n \in Nat
      BY <1>2
    <3> HIDE DEF one, L
    <3>7. /\ Diff(d.wop, t.wsnap) = Diff(d.woc, t.wsnap) + Ups(a, "WO_INC", L + 1)
          /\ Diff(d.wop, t.wsnap) + t.n <= n + 1
      <4>1. Ups(q, "WO_INC", L) \in Nat /\ Ups(a, "WO_INC", L + 1) = Ups(q, "WO_INC", L) + one("WO_INC")
        BY <1>4
      <4>2. /\ Diff(d.wop, t.wsnap) = Diff(c.wop, t.wsnap) + one("WO_INC")
            /\ Diff(d.woc, t.wsnap) = Diff(c.woc, t.wsnap)
        BY <3>5, <3>6
      <4>3. /\ Diff(c.wop, t.wsnap) \in Nat /\ Diff(c.woc, t.wsnap) \in Nat
            /\ one("WO_INC") \in 0 .. 1 /\ t.n \in Nat
        BY <3>3, <3>6
      <4>4. Diff(c.wop, t.wsnap) = Diff(c.woc, t.wsnap) + Ups(q, "WO_INC", L)
            /\ Diff(c.wop, t.wsnap) + t.n <= n
        BY <3>2
      <4> QED BY <4>1, <4>2, <4>3, <4>4
    <3>8. /\ Diff(d.rop, t.rsnap) = Diff(d.roc, t.rsnap) + Ups(a, "RO_INC", L + 1)
          /\ Diff(d.rop, t.rsnap) + t.n <= n + 1
      <4>1. Ups(q, "RO_INC", L) \in Nat /\ Ups(a, "RO_INC", L + 1) = Ups(q, "RO_INC", L) + one("RO_INC")
        BY <1>4
      <4>2. /\ Diff(d.rop, t.rsnap) = Diff(c.rop, t.rsnap) + one("RO_INC")
            /\ Diff(d.roc, t.rsnap) = Diff(c.roc, t.rsnap)
        BY <3>5, <3>6
      <4>3. /\ Diff(c.rop, t.rsnap) \in Nat /\ Diff(c.roc, t.rsnap) \in Nat
            /\ one("RO_INC") \in 0 .. 1 /\ t.n \in Nat
        BY <3>3, <3>6
      <4>4. Diff(c.rop, t.rsnap) = Diff(c.roc, t.rsnap) + Ups(q, "RO_INC", L)
            /\ Diff(c.rop, t.rsnap) + t.n <= n
        BY <3>2
      <4> QED BY <4>1, <4>2, <4>3, <4>4
    <3> QED BY <3>7, <3>8
  <2> QED BY <1>1, <1>2, <2>1, <2>2, <2>3 DEF TokenRight
<1> QED BY <1>9, <1>10 DEF a

(* An operation completes: the counters c become d.                         *)
Completed(c, d, flags) ==
    /\ d.woc = IF "WO_INC" \in flags THEN Inc(c.woc) ELSE c.woc
    /\ d.roc = IF "RO_INC" \in flags THEN Inc(c.roc) ELSE c.roc
    /\ d.wop = c.wop /\ d.rop = c.rop

(* What comes after i operations comes after i - 1 when the first is gone.  *)
LEMMA AfterFirst ==
  ASSUME NEW q \in Seq(Operation), q # <<>>, NEW c \in Counters,
         NEW d \in Counters, Completed(c, d, q[1].flags),
         NEW i \in 1 .. Len(q), NEW w \in Count, NEW r \in Count, After(q, c, i, w, r)
  PROVE  After(Tail(q), d, i - 1, w, r)
<1> DEFINE one(f) == IF f \in q[1].flags THEN 1 ELSE 0
<1>1. c.woc \in Count /\ c.roc \in Count
  BY DEF Counters
<1>2. i \in Nat /\ i - 1 \in Nat /\ 1 \in Nat /\ 1 <= i /\ i - 1 \in 0 .. Len(q) - 1 /\ i - 1 + 1 = i
      /\ 0 + 1 = 1 /\ 0 \in Nat
  BY QueueFacts
<1>3. \A f : Ups(Tail(q), f, i - 1) = Ups(q, f, i) - one(f)
  <2> TAKE f
  <2>1. Ups(Tail(q), f, i - 1) = Ups(q, f, i - 1 + 1) - one(f)
    BY <1>2, UpsTail
  <2> QED BY <1>2, <2>1
<1>4. \A f : Ups(q, f, i) \in Nat /\ one(f) <= Ups(q, f, i)
  <2> TAKE f
  <2>1. Ups(q, f, 0 + 1) = Ups(q, f, 0) + (IF f \in q[0 + 1].flags THEN 1 ELSE 0)
    BY <1>2, UpsStep
  <2>2. Ups(q, f, 1) = one(f)
    BY <1>2, <2>1, UpsNone
  <2>3. Ups(q, f, 1) <= Ups(q, f, i)
    BY <1>2, UpsMonotone
  <2> QED BY <1>2, <2>2, <2>3, KindFinite
<1>5. Diff(w, d.woc) = Diff(w, c.woc) - one("WO_INC")
  <2>1. Diff(w, c.woc) = Ups(q, "WO_INC", i)
    BY DEF After
  <2>2. CASE "WO_INC" \in q[1].flags
    <3>1. Diff(w, c.woc) > 0 /\ d.woc = Inc(c.woc)
      BY <1>4, <2>1, <2>2 DEF Completed
    <3> QED BY <1>1, <2>2, <3>1, DiffDown
  <2>3. CASE "WO_INC" \notin q[1].flags
    BY <1>1, <2>3, DiffRange DEF Completed
  <2> QED BY <2>2, <2>3
<1>6. Diff(r, d.roc) = Diff(r, c.roc) - one("RO_INC")
  <2>1. Diff(r, c.roc) = Ups(q, "RO_INC", i)
    BY DEF After
  <2>2. CASE "RO_INC" \in q[1].flags
    <3>1. Diff(r, c.roc) > 0 /\ d.roc = Inc(c.roc)
      BY <1>4, <2>1, <2>2 DEF Completed
    <3> QED BY <1>1, <2>2, <3>1, DiffDown
  <2>3. CASE "RO_INC" \notin q[1].flags
    BY <1>1, <2>3, DiffRange DEF Completed
  <2> QED BY <2>2, <2>3
<1> QED BY <1>3, <1>5, <1>6 DEF After

(* Completing the first operation keeps the tickets right.                  *)
LEMMA FinishKeepsTickets ==
  ASSUME NEW q \in Seq(Operation), q # <<>>, NEW c \in Counters, NEW n \in Nat,
         TicketsRight(q, c, n), NEW d \in Counters, Completed(c, d, q[1].flags)
  PROVE  TicketsRight(Tail(q), d, n)
<1>1. /\ Tail(q) \in Seq(Operation)
      /\ Len(q) \in Nat \ {0} /\ DOMAIN q = 1 .. Len(q)
      /\ Len(Tail(q)) = Len(q) - 1 /\ DOMAIN Tail(q) = 1 .. Len(q) - 1
      /\ \A i \in 1 .. Len(q) - 1 : Tail(q)[i] = q[i + 1]
  BY TailFacts
<1>2. Modulus \in Nat /\ d.wop = c.wop /\ d.rop = c.rop /\ c.wop \in Count /\ c.rop \in Count
  BY NumbersAssumption DEF Completed, Counters
<1>3. /\ Len(q) < Modulus /\ Len(q) <= n
      /\ After(q, c, Len(q), c.wop, c.rop)
      /\ \A i \in 1 .. Len(q) : /\ After(q, c, i - 1, q[i].wsnap, q[i].rsnap)
                                /\ q[i].n + Len(q) + 1 = n + i
  BY <1>1 DEF TicketsRight
<1>4. After(Tail(q), d, Len(q) - 1, d.wop, d.rop)
  BY <1>1, <1>2, <1>3, AfterFirst
<1>5. ASSUME NEW i \in 1 .. Len(q) - 1
      PROVE  /\ After(Tail(q), d, i - 1, Tail(q)[i].wsnap, Tail(q)[i].rsnap)
             /\ Tail(q)[i].n + (Len(q) - 1) + 1 = n + i
  <2>1. /\ i \in 1 .. Len(q) /\ i + 1 \in 1 .. Len(q) /\ (i + 1) - 1 = i
        /\ Tail(q)[i] = q[i + 1]
    BY <1>1
  <2>2. q[i + 1].wsnap \in Count /\ q[i + 1].rsnap \in Count /\ q[i + 1].n \in Nat
    BY <2>1, QueueFacts
  <2>3. /\ After(q, c, i, q[i + 1].wsnap, q[i + 1].rsnap)
        /\ q[i + 1].n + Len(q) + 1 = n + (i + 1)
    BY <1>3, <2>1
  <2>4. After(Tail(q), d, i - 1, q[i + 1].wsnap, q[i + 1].rsnap)
    BY <2>1, <2>2, <2>3, AfterFirst
  <2>5. q[i + 1].n + (Len(q) - 1) + 1 = n + i
    <3>1. q[i + 1].n \in Nat /\ q[i + 1].n + Len(q) + 1 = n + (i + 1)
      BY <2>2, <2>3
    <3> QED BY <1>1, <3>1
  <2> QED BY Zenon, <2>1, <2>4, <2>5
<1> QED BY <1>1, <1>2, <1>3, <1>4, <1>5 DEF TicketsRight

(* And it keeps the token right.                                            *)
LEMMA FinishKeepsToken ==
  ASSUME NEW q \in Seq(Operation), q # <<>>, NEW c \in Counters, NEW n \in Nat, NEW t \in Token,
         TicketsRight(q, c, n), TokenRight(q, c, n, t),
         NEW d \in Counters, Completed(c, d, q[1].flags)
  PROVE  TokenRight(Tail(q), d, n, t)
<1> DEFINE L == Len(q)
           z == Tail(q)
<1>1. /\ z \in Seq(Operation) /\ L \in Nat \ {0} /\ Len(z) = L - 1 /\ L - 1 \in Nat
  BY TailFacts
<1>2. /\ c.wop \in Count /\ c.rop \in Count /\ c.woc \in Count /\ c.roc \in Count
      /\ d.wop = c.wop /\ d.rop = c.rop /\ d.woc \in Count /\ d.roc \in Count
      /\ t.wsnap \in Count /\ t.rsnap \in Count /\ t.n \in Nat
  BY DEF Completed, Counters, Token
<1>3. /\ t.n <= n
      /\ \A k \in 0 .. L : k + n = t.n + L => After(q, c, k, t.wsnap, t.rsnap)
      /\ t.n + L <= n /\ n < t.n + Modulus =>
             /\ Diff(c.wop, t.wsnap) = Diff(c.woc, t.wsnap) + Ups(q, "WO_INC", L)
             /\ Diff(c.rop, t.rsnap) = Diff(c.roc, t.rsnap) + Ups(q, "RO_INC", L)
             /\ Diff(c.wop, t.wsnap) + t.n <= n
             /\ Diff(c.rop, t.rsnap) + t.n <= n
  BY DEF TokenRight
<1>4. \A k \in 0 .. L - 1 : k + n = t.n + (L - 1) => After(z, d, k, t.wsnap, t.rsnap)
  <2> SUFFICES ASSUME NEW k \in 0 .. L - 1, k + n = t.n + (L - 1)
               PROVE  After(z, d, k, t.wsnap, t.rsnap)
    OBVIOUS
  <2>1. k + 1 \in 0 .. L /\ k + 1 \in 1 .. L /\ (k + 1) + n = t.n + L /\ (k + 1) - 1 = k
    BY <1>1, <1>2
  <2>2. After(q, c, k + 1, t.wsnap, t.rsnap)
    BY <1>3, <2>1
  <2> QED BY <1>2, <2>1, <2>2, AfterFirst
<1>5. TicketsRight(z, d, n)
  BY FinishKeepsTickets
<1>6. Ups(z, "WO_INC", L - 1) \in Nat /\ Ups(z, "WO_INC", L - 1) <= L - 1
      /\ Ups(z, "RO_INC", L - 1) \in Nat /\ Ups(z, "RO_INC", L - 1) <= L - 1
  BY <1>1, KindFinite
<1>7. ASSUME t.n + (L - 1) <= n, n < t.n + Modulus
      PROVE  /\ Diff(d.wop, t.wsnap) = Diff(d.woc, t.wsnap) + Ups(z, "WO_INC", L - 1)
             /\ Diff(d.rop, t.rsnap) = Diff(d.roc, t.rsnap) + Ups(z, "RO_INC", L - 1)
             /\ Diff(d.wop, t.wsnap) + t.n <= n
             /\ Diff(d.rop, t.rsnap) + t.n <= n
  <2>1. CASE t.n + (L - 1) = n
    <3>1. 0 \in 0 .. L - 1 /\ 0 + n = t.n + (L - 1)
      BY <1>1, <1>2, <2>1
    <3>2. After(z, d, 0, t.wsnap, t.rsnap)
      BY <1>4, <3>1
    <3>3. t.wsnap = d.woc /\ t.rsnap = d.roc
      BY <1>2, <3>2, UpsNone, DiffZero DEF After
    <3>4. Diff(d.woc, t.wsnap) = 0 /\ Diff(d.roc, t.rsnap) = 0
      BY <1>2, <3>3, DiffZero
    <3>5. /\ Diff(d.wop, t.wsnap) = Ups(z, "WO_INC", L - 1)
          /\ Diff(d.rop, t.rsnap) = Ups(z, "RO_INC", L - 1)
      BY <1>1, <1>5, <3>3 DEF TicketsRight, After
    <3>6. \A u \in Nat : u <= L - 1 => u + t.n <= n /\ u = 0 + u
      BY <1>1, <1>2, <2>1
    <3> QED BY <1>6, <3>4, <3>5, <3>6
  <2>2. CASE t.n + L <= n
    <3> DEFINE one(f) == IF f \in q[1].flags THEN 1 ELSE 0
    <3>1. /\ Diff(c.wop, t.wsnap) = Diff(c.woc, t.wsnap) + Ups(q, "WO_INC", L)
          /\ Diff(c.rop, t.rsnap) = Diff(c.roc, t.rsnap) + Ups(q, "RO_INC", L)
          /\ Diff(c.wop, t.wsnap) + t.n <= n
          /\ Diff(c.rop, t.rsnap) + t.n <= n
      BY <1>3, <1>7, <2>2
    <3>2. \A f : Ups(z, f, L - 1) = Ups(q, f, L) - one(f) /\ Ups(z, f, L - 1) \in Nat /\ Ups(q, f, L) \in Nat
      <4> TAKE f
      <4>1. L - 1 \in 0 .. L - 1 /\ L - 1 + 1 = L /\ L \in Nat
        BY <1>1
      <4>2. Ups(z, f, L - 1) = Ups(q, f, L - 1 + 1) - one(f)
        BY <4>1, UpsTail
      <4> QED BY <1>1, <4>1, <4>2, KindFinite
    <3>3. \A a \in Count, b \in Count : Diff(a, b) \in Nat /\ Diff(a, b) < Modulus
      BY DiffRange
    <3>4. Diff(c.woc, t.wsnap) \in Nat /\ Diff(c.roc, t.rsnap) \in Nat
      BY <1>2, <3>3
    <3>5. Diff(d.woc, t.wsnap) = Diff(c.woc, t.wsnap) + one("WO_INC")
      <4>1. CASE "WO_INC" \in q[1].flags
        <5>1. Ups(q, "WO_INC", L) >= 1
          BY <3>2, <4>1
        <5>2. Diff(c.woc, t.wsnap) + 1 < Modulus
          <6>1. Diff(c.wop, t.wsnap) \in Nat /\ Diff(c.wop, t.wsnap) < Modulus
            BY <1>2, <3>3
          <6>2. Diff(c.wop, t.wsnap) = Diff(c.woc, t.wsnap) + Ups(q, "WO_INC", L)
                /\ Ups(q, "WO_INC", L) \in Nat
            BY <3>1, <3>2
          <6> QED BY <3>4, <5>1, <6>1, <6>2, NumbersAssumption
        <5> QED BY <1>2, <4>1, <5>2, DiffUp DEF Completed
      <4>2. CASE "WO_INC" \notin q[1].flags
        BY <1>2, <3>4, <4>2 DEF Completed
      <4> QED BY <4>1, <4>2
    <3>6. Diff(d.roc, t.rsnap) = Diff(c.roc, t.rsnap) + one("RO_INC")
      <4>1. CASE "RO_INC" \in q[1].flags
        <5>1. Ups(q, "RO_INC", L) >= 1
          BY <3>2, <4>1
        <5>2. Diff(c.roc, t.rsnap) + 1 < Modulus
          <6>1. Diff(c.rop, t.rsnap) \in Nat /\ Diff(c.rop, t.rsnap) < Modulus
            BY <1>2, <3>3
          <6>2. Diff(c.rop, t.rsnap) = Diff(c.roc, t.rsnap) + Ups(q, "RO_INC", L)
                /\ Ups(q, "RO_INC", L) \in Nat
            BY <3>1, <3>2
          <6> QED BY <3>4, <5>1, <6>1, <6>2, NumbersAssumption
        <5> QED BY <1>2, <4>1, <5>2, DiffUp DEF Completed
      <4>2. CASE "RO_INC" \notin q[1].flags
        BY <1>2, <3>4, <4>2 DEF Completed
      <4> QED BY <4>1, <4>2
    <3>7. Diff(c.woc, t.wsnap) + Ups(q, "WO_INC", L)
              = (Diff(c.woc, t.wsnap) + one("WO_INC")) + Ups(z, "WO_INC", L - 1)
      <4>1. /\ Ups(z, "WO_INC", L - 1) = Ups(q, "WO_INC", L) - one("WO_INC")
            /\ Ups(q, "WO_INC", L) \in Nat
        BY <3>2
      <4> QED BY <3>4, <4>1
    <3>8. Diff(c.roc, t.rsnap) + Ups(q, "RO_INC", L)
              = (Diff(c.roc, t.rsnap) + one("RO_INC")) + Ups(z, "RO_INC", L - 1)
      <4>1. /\ Ups(z, "RO_INC", L - 1) = Ups(q, "RO_INC", L) - one("RO_INC")
            /\ Ups(q, "RO_INC", L) \in Nat
        BY <3>2
      <4> QED BY <3>4, <4>1
    <3> QED BY <1>2, <3>1, <3>5, <3>6, <3>7, <3>8
  <2>3. t.n + (L - 1) = n \/ t.n + L <= n
    BY <1>1, <1>2, <1>7
  <2> QED BY <2>1, <2>2, <2>3
<1>8. t.n + Len(z) <= n <=> t.n + (L - 1) <= n
  BY <1>1
<1> QED BY <1>1, <1>3, <1>4, <1>7, <1>8 DEF TokenRight

-----------------------------------------------------------------------------
(* Lists of objects                                                         *)

(* Membership in a list.                                                    *)
LEMMA InList ==
  ASSUME NEW list \in Seq(Objects), NEW o
  PROVE  /\ Len(list) \in Nat /\ DOMAIN list = 1 .. Len(list)
         /\ o \in Range(list) <=> \E i \in 1 .. Len(list) : list[i] = o
         /\ o \in Range(list) => o \in Objects
<1>1. Len(list) \in Nat /\ DOMAIN list = 1 .. Len(list)
  BY LenProperties
<1>2. \A i \in 1 .. Len(list) : list[i] \in Objects
  BY ElementOfSeq
<1> QED BY <1>1, <1>2 DEF Range

(* Linking a new object at the head.                                        *)
LEMMA LinkFacts ==
  ASSUME NEW list \in Seq(Objects), NEW o \in Objects, Distinct(list), o \notin Range(list)
  PROVE  /\ <<o>> \o list \in Seq(Objects) /\ Distinct(<<o>> \o list)
         /\ Range(<<o>> \o list) = Range(list) \cup {o}
         /\ \A a, b : Before(<<o>> \o list, a, b) =>
                          (a = o /\ b \in Range(list)) \/ Before(list, a, b)
<1> DEFINE c == <<o>> \o list
           L == Len(list)
<1>1. L \in Nat /\ DOMAIN list = 1 .. L /\ \A i \in 1 .. L : list[i] # o
  BY InList
<1>2. c \in Seq(Objects) /\ Len(c) = L + 1
      /\ \A i \in 1 .. L + 1 : c[i] = IF i <= 1 THEN <<o>>[i] ELSE list[i - 1]
  <2>1. <<o>> \in Seq(Objects) /\ Len(<<o>>) = 1
    OBVIOUS
  <2>2. c \in Seq(Objects) /\ Len(c) = 1 + L
        /\ \A i \in 1 .. 1 + L : c[i] = IF i <= 1 THEN <<o>>[i] ELSE list[i - 1]
    BY <2>1, ConcatProperties
  <2> QED BY <1>1, <2>2
<1>3. DOMAIN c = 1 .. L + 1
  BY <1>2, LenProperties
<1>4. c[1] = o /\ \A i \in 2 .. L + 1 : i - 1 \in 1 .. L /\ c[i] = list[i - 1]
  BY <1>1, <1>2
<1> HIDE DEF c
<1>5. Distinct(c)
  <2> SUFFICES ASSUME NEW i \in 1 .. L + 1, NEW j \in 1 .. L + 1, c[i] = c[j]
               PROVE  i = j
    BY <1>3 DEF Distinct
  <2>1. CASE i \in 2 .. L + 1 /\ j \in 2 .. L + 1
    <3>1. list[i - 1] = list[j - 1] /\ i - 1 \in 1 .. L /\ j - 1 \in 1 .. L
      BY <1>4, <2>1
    <3>2. i - 1 = j - 1
      BY <1>1, <3>1 DEF Distinct
    <3> QED BY <2>1, <3>2
  <2>2. i \in 2 .. L + 1 \/ i = 1
    BY <1>1
  <2>3. j \in 2 .. L + 1 \/ j = 1
    BY <1>1
  <2> QED BY <1>1, <1>4, <2>1, <2>2, <2>3
<1>6. Range(c) = Range(list) \cup {o}
  <2>1. \A x \in Range(c) : x \in Range(list) \cup {o}
    BY <1>1, <1>3, <1>4 DEF Range
  <2>2. o \in Range(c)
    BY <1>1, <1>3, <1>4 DEF Range
  <2>3. ASSUME NEW i \in 1 .. L PROVE list[i] \in Range(c)
    <3>1. i + 1 \in 2 .. L + 1 /\ i + 1 - 1 = i /\ i + 1 \in DOMAIN c
      BY <1>1, <1>3
    <3> QED BY <1>4, <3>1 DEF Range
  <2> QED BY <1>1, <2>1, <2>2, <2>3 DEF Range
<1>7. ASSUME NEW a, NEW b, Before(c, a, b)
      PROVE  (a = o /\ b \in Range(list)) \/ Before(list, a, b)
  <2>1. PICK i \in 1 .. L + 1, j \in 1 .. L + 1 : i < j /\ c[i] = a /\ c[j] = b
    BY <1>3, <1>7 DEF Before
  <2>2. j - 1 \in 1 .. L /\ c[j] = list[j - 1]
    BY <1>1, <1>4, <2>1
  <2>3. CASE i = 1
    BY <1>1, <1>4, <2>1, <2>2, <2>3 DEF Range
  <2>4. CASE i # 1
    <3>1. i - 1 \in 1 .. L /\ c[i] = list[i - 1] /\ i - 1 < j - 1
      BY <1>1, <1>4, <2>1, <2>4
    <3> QED BY <1>1, <2>1, <2>2, <3>1 DEF Before
  <2> QED BY <2>3, <2>4
<1> QED BY <1>2, <1>5, <1>6, <1>7 DEF c

(* Unlinking an object that is in the list.                                 *)
LEMMA UnlinkFacts ==
  ASSUME NEW list \in Seq(Objects), NEW o, Distinct(list), o \in Range(list)
  PROVE  /\ Unlinked(list, o) \in Seq(Objects) /\ Distinct(Unlinked(list, o))
         /\ Range(Unlinked(list, o)) = Range(list) \ {o}
         /\ \A a, b : Before(Unlinked(list, o), a, b) => Before(list, a, b)
<1> DEFINE k == CHOOSE i \in DOMAIN list : list[i] = o
           u == RemoveAt(list, k)
           L == Len(list)
           from(i) == IF i < k THEN i ELSE i + 1
<1>1. k \in DOMAIN list /\ list[k] = o
  BY DEF Range
<1>2. Unlinked(list, o) = u
  BY DEF Unlinked
<1> HIDE DEF k
<1>3. /\ u \in Seq(Objects) /\ L \in Nat \ {0} /\ DOMAIN list = 1 .. L
      /\ Len(u) = L - 1 /\ DOMAIN u = 1 .. L - 1
      /\ \A i \in 1 .. L - 1 : u[i] = list[from(i)]
  BY <1>1, RemoveAtFacts
<1>4. /\ \A i \in 1 .. L - 1 : from(i) \in 1 .. L /\ from(i) # k
      /\ \A i, j \in 1 .. L - 1 : i < j => from(i) < from(j)
      /\ \A i, j \in 1 .. L - 1 : from(i) = from(j) => i = j
      /\ \A m \in 1 .. L : m # k => \E i \in 1 .. L - 1 : from(i) = m
  <2>1. k \in 1 .. L /\ L \in Nat
    BY <1>1, <1>3
  <2>2. \A i \in 1 .. L - 1 : from(i) \in 1 .. L /\ from(i) # k
    BY <2>1
  <2>3. \A i, j \in 1 .. L - 1 : i < j => from(i) < from(j)
    BY <2>1
  <2>4. \A i, j \in 1 .. L - 1 : from(i) = from(j) => i = j
    BY <2>1
  <2>5. ASSUME NEW m \in 1 .. L, m # k PROVE \E i \in 1 .. L - 1 : from(i) = m
    <3>1. CASE m < k
      BY <2>1, <3>1
    <3>2. CASE m > k
      <4>1. m - 1 \in 1 .. L - 1 /\ ~ (m - 1 < k) /\ m - 1 + 1 = m
        BY <2>1, <3>2
      <4> QED BY <4>1
    <3> QED BY <2>1, <2>5, <3>1, <3>2
  <2> QED BY <2>2, <2>3, <2>4, <2>5
<1> HIDE DEF u, from
<1>5. \A i, j \in 1 .. L : list[i] = list[j] => i = j
  BY <1>3 DEF Distinct
<1>6. Distinct(u)
  <2>1. ASSUME NEW i \in 1 .. L - 1, NEW j \in 1 .. L - 1, u[i] = u[j] PROVE i = j
    <3>1. list[from(i)] = list[from(j)] /\ from(i) \in 1 .. L /\ from(j) \in 1 .. L
      BY <1>3, <1>4, <2>1
    <3> QED BY <1>4, <1>5, <3>1
  <2> QED BY <1>3, <2>1 DEF Distinct
<1>7. Range(u) = Range(list) \ {o}
  <2>1. ASSUME NEW x \in Range(u) PROVE x \in Range(list) \ {o}
    <3>1. PICK i \in 1 .. L - 1 : u[i] = x
      BY <1>3 DEF Range
    <3> QED BY <1>1, <1>3, <1>4, <1>5, <3>1 DEF Range
  <2>2. ASSUME NEW x \in Range(list) \ {o} PROVE x \in Range(u)
    <3>1. PICK m \in 1 .. L : list[m] = x
      BY <1>3 DEF Range
    <3>2. PICK i \in 1 .. L - 1 : from(i) = m
      BY <1>1, <1>4, <3>1
    <3> QED BY <1>3, <3>1, <3>2 DEF Range
  <2> QED BY <2>1, <2>2
<1>8. ASSUME NEW a, NEW b, Before(u, a, b) PROVE Before(list, a, b)
  <2>1. PICK i \in 1 .. L - 1, j \in 1 .. L - 1 : i < j /\ u[i] = a /\ u[j] = b
    BY <1>3, <1>8 DEF Before
  <2> QED BY <1>3, <1>4, <2>1 DEF Before
<1> QED BY <1>2, <1>3, <1>6, <1>7, <1>8

(* Reversing a list.                                                        *)
LEMMA ReverseFacts ==
  ASSUME NEW list \in Seq(Objects), Distinct(list)
  PROVE  /\ Reverse(list) \in Seq(Objects) /\ Distinct(Reverse(list))
         /\ Range(Reverse(list)) = Range(list)
         /\ \A a, b : Before(Reverse(list), a, b) => Before(list, b, a)
<1> DEFINE L == Len(list)
           v == [i \in 1 .. L |-> list[(L - i) + 1]]
<1>1. L \in Nat /\ DOMAIN list = 1 .. L /\ \A i \in 1 .. L : list[i] \in Objects
  BY LenProperties, ElementOfSeq
<1>2. Reverse(list) = v
  BY DEF Reverse
<1>3. \A i \in 1 .. L : (L - i) + 1 \in 1 .. L /\ (L - ((L - i) + 1)) + 1 = i
  BY <1>1
<1>4. v \in Seq(Objects) /\ DOMAIN v = 1 .. L
  BY <1>1, <1>3, SeqDef
<1>5. \A i \in 1 .. L : v[i] = list[(L - i) + 1]
  OBVIOUS
<1> HIDE DEF v
<1>6. Distinct(v)
  BY <1>1, <1>3, <1>4, <1>5 DEF Distinct
<1>7. Range(v) = Range(list)
  <2>1. ASSUME NEW x \in Range(v) PROVE x \in Range(list)
    BY <1>1, <1>3, <1>4, <1>5 DEF Range
  <2>2. ASSUME NEW i \in 1 .. L PROVE list[i] \in Range(v)
    <3>1. v[(L - i) + 1] = list[i]
      BY <1>3, <1>5
    <3> QED BY <1>3, <1>4, <3>1 DEF Range
  <2> QED BY <1>1, <2>1, <2>2 DEF Range
<1>8. ASSUME NEW a, NEW b, Before(v, a, b) PROVE Before(list, b, a)
  <2>1. PICK i \in 1 .. L, j \in 1 .. L : i < j /\ v[i] = a /\ v[j] = b
    BY <1>4, <1>8 DEF Before
  <2>2. (L - j) + 1 < (L - i) + 1
    BY <1>1, <2>1
  <2> QED BY <1>1, <1>3, <1>5, <2>1, <2>2 DEF Before
<1> QED BY <1>2, <1>4, <1>6, <1>7, <1>8

(* Unlinking the head of a list.                                            *)
LEMMA BeheadFacts ==
  ASSUME NEW list \in Seq(Objects), Distinct(list), list # <<>>
  PROVE  /\ Tail(list) \in Seq(Objects) /\ Distinct(Tail(list))
         /\ Head(list) \in Range(list)
         /\ Range(Tail(list)) = Range(list) \ {Head(list)}
         /\ \A a, b : Before(Tail(list), a, b) => Before(list, a, b)
         /\ \A b \in Range(Tail(list)) : Before(list, Head(list), b)
<1> DEFINE L == Len(list)
           z == Tail(list)
           h == Head(list)
<1>1. /\ z \in Seq(Objects) /\ L \in Nat \ {0} /\ DOMAIN list = 1 .. L /\ DOMAIN z = 1 .. L - 1
      /\ \A i \in 1 .. L - 1 : z[i] = list[i + 1]
      /\ h = list[1]
  BY TailFacts
<1> HIDE DEF z, h
<1>2. \A i \in 1 .. L - 1 : i + 1 \in 1 .. L /\ i + 1 # 1 /\ 1 < i + 1 /\ 1 \in 1 .. L
  BY <1>1
<1>3. \A i, j \in 1 .. L : list[i] = list[j] => i = j
  BY <1>1 DEF Distinct
<1>4. Distinct(z)
  BY <1>1, <1>2, <1>3 DEF Distinct
<1>5. h \in Range(list)
  BY <1>1 DEF Range
<1>6. Range(z) = Range(list) \ {h}
  <2>1. ASSUME NEW x \in Range(z) PROVE x \in Range(list) \ {h}
    BY <1>1, <1>2, <1>3 DEF Range
  <2>2. ASSUME NEW x \in Range(list) \ {h} PROVE x \in Range(z)
    <3>1. PICK i \in 1 .. L : list[i] = x /\ i # 1
      BY <1>1 DEF Range
    <3>2. i - 1 \in 1 .. L - 1 /\ (i - 1) + 1 = i
      BY <1>1, <3>1
    <3> QED BY <1>1, <3>1, <3>2 DEF Range
  <2> QED BY <2>1, <2>2
<1>7. ASSUME NEW a, NEW b, Before(z, a, b) PROVE Before(list, a, b)
  <2>1. PICK i \in 1 .. L - 1, j \in 1 .. L - 1 : i < j /\ z[i] = a /\ z[j] = b
    BY <1>1, <1>7 DEF Before
  <2>2. i + 1 < j + 1
    BY <2>1
  <2> QED BY <1>1, <1>2, <2>1, <2>2 DEF Before
<1>8. ASSUME NEW b \in Range(z) PROVE Before(list, h, b)
  BY <1>1, <1>2 DEF Range, Before
<1> QED BY <1>1, <1>4, <1>5, <1>6, <1>7, <1>8 DEF z, h

(* The empty list.                                                          *)
LEMMA EmptyListFacts ==
  /\ <<>> \in Seq(Objects) /\ Distinct(<<>>) /\ Range(<<>>) = {}
  /\ \A a, b : ~ Before(<<>>, a, b)
BY DEF Distinct, Range, Before

-----------------------------------------------------------------------------
(* What a step does to the surfaces                                         *)

(* The types of what belongs to a surface.                                  *)
LEMMA SurfaceTypes ==
  ASSUME TypeOK, NEW s \in Syncs
  PROVE  /\ sync[s] \in Counters /\ ops[s] \in Seq(Operation) /\ issued[s] \in Nat
         /\ token[s] \in Token
BY DEF TypeOK, Counters, Token

(* The types of an object.                                                  *)
LEMMA ObjectTypes ==
  ASSUME TypeOK, NEW o \in Objects
  PROVE  /\ obj[o] \in Object /\ obj[o].owner \in Processes \cup {"none", "lost"}
         /\ obj[o].sync \in Syncs \cup {"none"}
         /\ obj[o].wsnap \in Count /\ obj[o].rsnap \in Count
BY DEF TypeOK, Object

(* The values that are no names.                                            *)
LEMMA NoNames ==
  /\ "none" \notin Processes /\ "none" \notin Objects /\ "none" \notin Syncs
  /\ "lost" \notin Processes /\ "device" \notin Objects
BY NamesAssumption

(* Issuing changes the pending counts.                                      *)
LEMMA PendIs ==
  ASSUME TypeOK, NEW s \in Syncs, NEW f
  PROVE  Pend(s, f) \in Counters /\ Pended(sync[s], Pend(s, f), f)
<1>1. sync[s] \in Counters
  BY SurfaceTypes
<1>2. Inc(sync[s].wop) \in Count /\ Inc(sync[s].rop) \in Count
  BY <1>1, IncIs DEF Counters
<1> QED BY <1>1, <1>2 DEF Pend, Pended, Counters

(* Completing changes the complete counts.                                  *)
LEMMA CompleteIs ==
  ASSUME TypeOK, NEW s \in Syncs, NEW f
  PROVE  Complete(s, f) \in Counters /\ Completed(sync[s], Complete(s, f), f)
<1>1. sync[s] \in Counters
  BY SurfaceTypes
<1>2. Inc(sync[s].woc) \in Count /\ Inc(sync[s].roc) \in Count
  BY <1>1, IncIs DEF Counters
<1> QED BY <1>1, <1>2 DEF Complete, Completed, Counters

(* The first outstanding operation on s completes.                          *)
FinishFirst(s) ==
    /\ ops[s] # <<>>
    /\ sync' = [sync EXCEPT ![s] = Complete(s, ops[s][1].flags)]
    /\ ops' = [ops EXCEPT ![s] = Tail(@)]
    /\ issued' = issued
    /\ token' = token

(* Issuing an operation, with all that it leaves alone.                     *)
IssueOne(s, by, f) == Issue(s, by, f) /\ token' = token

(* Whatever finds its turn is the first operation.                          *)
LEMMA FinishAtTurn ==
  ASSUME TypeOK, CountsInv, NEW s \in Syncs, NEW i \in DOMAIN ops[s], Finish(s, i),
         ops[s][i].wsnap = sync[s].woc, ops[s][i].rsnap = sync[s].roc,
         issued' = issued, token' = token
  PROVE  FinishFirst(s) /\ i = 1
<1>1. ops[s] \in Seq(Operation) /\ sync[s] \in Counters /\ issued[s] \in Nat
  BY SurfaceTypes
<1>2. i = 1
  BY <1>1, TurnIsFirst DEF CountsInv
<1>3. ops[s] # <<>>
  BY <1>1, QueueFacts
<1>4. RemoveAt(ops[s], 1) = Tail(ops[s])
  BY <1>1, <1>3, RemoveAtFirst
<1> QED BY <1>2, <1>3, <1>4 DEF Finish, FinishFirst

(* An object that is not empty and is found at its turn describes the first *)
(* operation, which completes.                                              *)
LEMMA ObjectFinishes ==
  ASSUME TypeOK, CountsInv, HeldInv, NEW o \in Objects, obj[o].sync \in Syncs,
         DoModifyCompleteSyncOps(o), issued' = issued, token' = token
  PROVE  FinishFirst(obj[o].sync) /\ ops[obj[o].sync][1].by = o
<1> DEFINE s == obj[o].sync
<1>1. PICK i \in DOMAIN ops[s] : ops[s][i].by = o /\ Finish(s, i)
  BY DEF DoModifyCompleteSyncOps
<1>2. PICK j \in DOMAIN ops[s] : Describes(o, s, j)
  BY DEF HeldInv
<1>3. i = j
  BY <1>1, <1>2 DEF HeldInv, Describes
<1>4. ops[s][i].wsnap = sync[s].woc /\ ops[s][i].rsnap = sync[s].roc
  BY <1>2, <1>3 DEF Describes, DoModifyCompleteSyncOps, Turn
<1> HIDE DEF s
<1>5. s \in Syncs
  BY DEF s
<1>6. FinishFirst(s) /\ i = 1
  BY <1>1, <1>4, <1>5, FinishAtTurn
<1> QED BY <1>1, <1>6 DEF s

(* A flush that is satisfied finds the operation first, at its turn.        *)
LEMMA SatisfiedIsTurn ==
  ASSUME TypeOK, CountsInv, HeldInv, NEW o \in Objects, obj[o].sync \in Syncs, Satisfied(o)
  PROVE  Turn(obj[o].sync, obj[o])
<1> DEFINE s == obj[o].sync
<1>1. PICK i \in DOMAIN ops[s] : Describes(o, s, i)
  BY DEF HeldInv
<1>2. /\ ops[s] \in Seq(Operation) /\ sync[s] \in Counters /\ issued[s] \in Nat
      /\ TicketsRight(ops[s], sync[s], issued[s])
  BY SurfaceTypes DEF CountsInv
<1>3. /\ Diff(sync[s].wop, ops[s][i].wsnap) >= Diff(sync[s].wop, sync[s].woc)
      /\ Diff(sync[s].rop, ops[s][i].rsnap) >= Diff(sync[s].rop, sync[s].roc)
  BY <1>1 DEF Satisfied, DoQuerySyncOpsSatisfied, Describes
<1> HIDE DEF s
<1>4. i = 1
  BY <1>2, <1>3, SatisfiedIsFirst
<1>5. ops[s][i].wsnap = sync[s].woc /\ ops[s][i].rsnap = sync[s].roc
  BY <1>2, <1>4, TurnIsFirst
<1> QED BY <1>1, <1>5 DEF Describes, Turn, s

(* Taking a token, with all that it leaves alone.                           *)
TakeToken(s) ==
    /\ UNCHANGED <<sync, ops, issued>>
    /\ token' = [token EXCEPT ![s] = [wsnap |-> sync[s].wop, rsnap |-> sync[s].rop,
                                      n |-> issued[s]]]

(* What a step does to the surfaces is one of these.                        *)
SurfaceStep ==
    \/ UNCHANGED <<sync, ops, issued, token>>
    \/ \E s \in Syncs : TakeToken(s)
    \/ \E s \in Syncs, by \in Objects \cup {"device"}, f \in Flags : IssueOne(s, by, f)
    \/ \E s \in Syncs : FinishFirst(s)

LEMMA NextIsSurfaceStep ==
  ASSUME TypeOK, CountsInv, HeldInv, [Next]_vars
  PROVE  SurfaceStep
<1>1. ASSUME NEW p \in Processes, Client(p) PROVE SurfaceStep
  <2>1. CASE PVRSRVProcessConnect(p)
    BY <2>1 DEF PVRSRVProcessConnect, SurfaceStep
  <2>2. ASSUME NEW o \in Objects, CreateSyncInfoModObj(p, o) PROVE SurfaceStep
    BY <2>2 DEF CreateSyncInfoModObj, SurfaceStep
  <2>3. ASSUME NEW o \in Objects, DestroySyncInfoModObj(p, o) PROVE SurfaceStep
    BY <2>3 DEF DestroySyncInfoModObj, SurfaceStep
  <2>4. ASSUME NEW o \in Objects, ModifyCompleteSyncOps(p, o) PROVE SurfaceStep
    <3>1. obj[o].sync \in Syncs
      BY <2>4, ObjectTypes DEF ModifyCompleteSyncOps
    <3>2. FinishFirst(obj[o].sync)
      BY <2>4, <3>1, ObjectFinishes DEF ModifyCompleteSyncOps
    <3> QED BY <3>1, <3>2 DEF SurfaceStep
  <2>5. ASSUME NEW o \in Objects, NEW s \in Syncs, NEW f \in Flags,
               ModifyPendingSyncOps(p, o, s, f)
        PROVE  SurfaceStep
    BY <2>5 DEF ModifyPendingSyncOps, IssueOne, SurfaceStep
  <2>6. ASSUME NEW s \in Syncs, SyncOpsTakeToken(p, s) PROVE SurfaceStep
    BY <2>6 DEF SyncOpsTakeToken, TakeToken, SurfaceStep
  <2>7. ASSUME NEW s \in Syncs, NEW f \in Flags, SGXDoKick(p, s, f) PROVE SurfaceStep
    BY <2>7 DEF SGXDoKick, IssueOne, SurfaceStep
  <2> QED BY <1>1, <2>1, <2>2, <2>3, <2>4, <2>5, <2>6, <2>7 DEF Client
<1>2. ASSUME NEW p \in Processes, PVRSRVProcessDisconnect(p) PROVE SurfaceStep
  BY <1>2 DEF PVRSRVProcessDisconnect, SurfaceStep
<1>3. CASE Disconnect
  <2>1. CASE FreeResourceByPtr
    BY <2>1 DEF FreeResourceByPtr, SurfaceStep
  <2>2. CASE OpFlushedComplete
    <3>1. exit.item \in Objects /\ obj[exit.item].sync \in Syncs /\ issued' = issued /\ token' = token
      BY <2>2 DEF OpFlushedComplete, TypeOK
    <3>2. CASE DoModifyCompleteSyncOps(exit.item)
      BY <3>1, <3>2, ObjectFinishes DEF SurfaceStep
    <3>3. CASE UNCHANGED <<sync, ops>>
      BY <3>1, <3>3 DEF SurfaceStep
    <3> QED BY <2>2, <3>2, <3>3 DEF OpFlushedComplete
  <2>3. CASE FlushTimeout
    BY <2>3 DEF FlushTimeout, SurfaceStep
  <2>4. CASE AllFreed
    BY <2>4 DEF AllFreed, SurfaceStep
  <2>5. CASE PVRSRVResManDisconnect
    BY <2>5 DEF PVRSRVResManDisconnect, SurfaceStep
  <2> QED BY <1>3, <2>1, <2>2, <2>3, <2>4, <2>5 DEF Disconnect
<1>4. ASSUME NEW s \in Syncs, DeviceComplete(s) PROVE SurfaceStep
  <2>1. PICK i \in DOMAIN ops[s] : Turn(s, ops[s][i]) /\ Finish(s, i)
    BY <1>4 DEF DeviceComplete
  <2>2. FinishFirst(s)
    BY <1>4, <2>1, FinishAtTurn DEF DeviceComplete, Turn
  <2> QED BY <2>2 DEF SurfaceStep
<1>5. CASE UNCHANGED vars
  BY <1>5 DEF vars, SurfaceStep
<1> QED BY <1>1, <1>2, <1>3, <1>4, <1>5 DEF Next

(* The types of the surfaces are kept.                                      *)
LEMMA SurfaceTypesStep ==
  ASSUME TypeOK, SurfaceStep
  PROVE  /\ sync' \in [Syncs -> Counters]
         /\ ops' \in [Syncs -> Seq(Operation)]
         /\ issued' \in [Syncs -> Nat]
         /\ token' \in [Syncs -> Token]
<1>1. /\ sync \in [Syncs -> Counters] /\ ops \in [Syncs -> Seq(Operation)]
      /\ issued \in [Syncs -> Nat] /\ token \in [Syncs -> Token]
  BY DEF TypeOK, Counters, Token
<1>2. CASE UNCHANGED <<sync, ops, issued, token>>
  BY <1>1, <1>2
<1>3. ASSUME NEW s \in Syncs, TakeToken(s)
      PROVE  /\ sync' \in [Syncs -> Counters] /\ ops' \in [Syncs -> Seq(Operation)]
             /\ issued' \in [Syncs -> Nat] /\ token' \in [Syncs -> Token]
  <2>1. [wsnap |-> sync[s].wop, rsnap |-> sync[s].rop, n |-> issued[s]] \in Token
    BY <1>1 DEF Counters, Token
  <2> QED BY <1>1, <1>3, <2>1 DEF TakeToken
<1>4. ASSUME NEW s \in Syncs, NEW by \in Objects \cup {"device"}, NEW f \in Flags, IssueOne(s, by, f)
      PROVE  /\ sync' \in [Syncs -> Counters] /\ ops' \in [Syncs -> Seq(Operation)]
             /\ issued' \in [Syncs -> Nat] /\ token' \in [Syncs -> Token]
  <2> DEFINE e == [by |-> by, flags |-> f, n |-> issued[s],
                   wsnap |-> sync[s].wop, rsnap |-> sync[s].rop]
  <2>1. e \in Operation
    BY <1>1 DEF Counters, Operation
  <2>2. Append(ops[s], e) \in Seq(Operation) /\ Pend(s, f) \in Counters /\ issued[s] + 1 \in Nat
    BY <1>1, <2>1, PendIs, AppendFacts
  <2> QED BY <1>1, <1>4, <2>2 DEF IssueOne, Issue
<1>5. ASSUME NEW s \in Syncs, FinishFirst(s)
      PROVE  /\ sync' \in [Syncs -> Counters] /\ ops' \in [Syncs -> Seq(Operation)]
             /\ issued' \in [Syncs -> Nat] /\ token' \in [Syncs -> Token]
  <2>1. Tail(ops[s]) \in Seq(Operation) /\ Complete(s, ops[s][1].flags) \in Counters
    BY <1>1, <1>5, CompleteIs, TailFacts DEF FinishFirst
  <2> QED BY <1>1, <1>5, <2>1 DEF FinishFirst
<1> QED BY <1>2, <1>3, <1>4, <1>5 DEF SurfaceStep

(* Tickets and tokens stay right.                                           *)
LEMMA CountsStep ==
  ASSUME TypeOK, CountsInv, SurfaceStep
  PROVE  CountsInv'
<1> SUFFICES ASSUME NEW r \in Syncs
             PROVE  /\ TicketsRight(ops'[r], sync'[r], issued'[r])
                    /\ TokenRight(ops'[r], sync'[r], issued'[r], token'[r])
  BY DEF CountsInv, TicketsRight, TokenRight, After
<1>1. /\ sync[r] \in Counters /\ ops[r] \in Seq(Operation) /\ issued[r] \in Nat
      /\ token[r] \in Token
      /\ TicketsRight(ops[r], sync[r], issued[r])
      /\ TokenRight(ops[r], sync[r], issued[r], token[r])
  BY SurfaceTypes DEF CountsInv
<1>2. sync \in [Syncs -> Counters] /\ ops \in [Syncs -> Seq(Operation)]
      /\ issued \in [Syncs -> Nat] /\ token \in [Syncs -> Token]
  BY DEF TypeOK, Counters, Token
<1>3. CASE UNCHANGED <<sync, ops, issued, token>>
  BY <1>1, <1>3
<1>4. ASSUME NEW s \in Syncs, TakeToken(s)
      PROVE  /\ TicketsRight(ops'[r], sync'[r], issued'[r])
             /\ TokenRight(ops'[r], sync'[r], issued'[r], token'[r])
  <2>1. CASE r = s
    <3>1. /\ token'[r].wsnap = sync[r].wop /\ token'[r].rsnap = sync[r].rop
          /\ token'[r].n = issued[r]
          /\ ops'[r] = ops[r] /\ sync'[r] = sync[r] /\ issued'[r] = issued[r]
      BY <1>2, <1>4, <2>1 DEF TakeToken
    <3>2. token'[r] \in Token
      BY <1>4, SurfaceTypesStep DEF SurfaceStep
    <3> QED BY <1>1, <3>1, <3>2, TakingIsRight
  <2>2. CASE r # s
    <3>1. ops'[r] = ops[r] /\ sync'[r] = sync[r] /\ issued'[r] = issued[r] /\ token'[r] = token[r]
      BY <1>2, <1>4, <2>2 DEF TakeToken
    <3> QED BY <1>1, <3>1
  <2> QED BY <2>1, <2>2
<1>5. ASSUME NEW s \in Syncs, NEW by \in Objects \cup {"device"}, NEW f \in Flags, IssueOne(s, by, f)
      PROVE  /\ TicketsRight(ops'[r], sync'[r], issued'[r])
             /\ TokenRight(ops'[r], sync'[r], issued'[r], token'[r])
  <2>1. CASE r = s
    <3> DEFINE e == [by |-> by, flags |-> f, n |-> issued[r],
                     wsnap |-> sync[r].wop, rsnap |-> sync[r].rop]
    <3>1. e \in Operation /\ e.n = issued[r] /\ e.wsnap = sync[r].wop /\ e.rsnap = sync[r].rop
          /\ e.flags = f
      BY <1>1 DEF Counters, Operation
    <3>2. /\ ops'[r] = Append(ops[r], e) /\ sync'[r] = Pend(r, f) /\ issued'[r] = issued[r] + 1
          /\ token'[r] = token[r] /\ Len(ops[r]) + 1 < Modulus
      BY <1>2, <1>5, <2>1 DEF IssueOne, Issue
    <3>3. Pend(r, f) \in Counters /\ Pended(sync[r], Pend(r, f), f)
      BY PendIs
    <3> HIDE DEF e
    <3> QED BY <1>1, <3>1, <3>2, <3>3, IssueKeepsRight
  <2>2. CASE r # s
    <3>1. ops'[r] = ops[r] /\ sync'[r] = sync[r] /\ issued'[r] = issued[r] /\ token'[r] = token[r]
      BY <1>2, <1>5, <2>2 DEF IssueOne, Issue
    <3> QED BY <1>1, <3>1
  <2> QED BY <2>1, <2>2
<1>6. ASSUME NEW s \in Syncs, FinishFirst(s)
      PROVE  /\ TicketsRight(ops'[r], sync'[r], issued'[r])
             /\ TokenRight(ops'[r], sync'[r], issued'[r], token'[r])
  <2>1. CASE r = s
    <3>1. /\ ops[r] # <<>> /\ ops'[r] = Tail(ops[r]) /\ sync'[r] = Complete(r, ops[r][1].flags)
          /\ issued'[r] = issued[r] /\ token'[r] = token[r]
      BY <1>2, <1>6, <2>1 DEF FinishFirst
    <3>2. /\ Complete(r, ops[r][1].flags) \in Counters
          /\ Completed(sync[r], Complete(r, ops[r][1].flags), ops[r][1].flags)
      BY CompleteIs
    <3> QED BY <1>1, <3>1, <3>2, FinishKeepsTickets, FinishKeepsToken
  <2>2. CASE r # s
    <3>1. ops'[r] = ops[r] /\ sync'[r] = sync[r] /\ issued'[r] = issued[r] /\ token'[r] = token[r]
      BY <1>2, <1>6, <2>2 DEF FinishFirst
    <3> QED BY <1>1, <3>1
  <2> QED BY <2>1, <2>2
<1> QED BY <1>3, <1>4, <1>5, <1>6 DEF SurfaceStep

-----------------------------------------------------------------------------
(* Types                                                                    *)

(* The types of the variables that belong to no surface.                    *)
ProcessTypes ==
    /\ obj \in [Objects -> Object]
    /\ connected \in SUBSET Processes
    /\ resList \in [Processes -> Seq(Objects)]
    /\ exit \in [pc : {"none", "free", "wait", "end"}, proc : Processes \cup {"none"},
                 item : Objects \cup {"none"}]
    /\ exit.pc # "none" => exit.proc \in connected
    /\ exit.pc = "wait" => exit.item \in Objects /\ obj[exit.item].sync \in Syncs
    /\ stalls \in Nat

LEMMA EmptyTypes ==
  /\ Free \in Object /\ Free.sync = "none" /\ Free.owner = "none"
  /\ \A p \in Processes : /\ EmptyObject(p) \in Object
                          /\ EmptyObject(p).sync = "none" /\ EmptyObject(p).owner = p
<1>1. 0 \in Count
  BY NumbersAssumption DEF Count
<1> QED BY <1>1 DEF Free, EmptyObject, Object

(* The object of an issued operation.                                       *)
LEMMA TicketTypes ==
  ASSUME TypeOK, NEW p \in Processes, NEW s \in Syncs, NEW f \in Flags
  PROVE  [owner |-> p, sync |-> s, flags |-> f,
          wsnap |-> sync[s].wop, rsnap |-> sync[s].rop] \in Object
BY SurfaceTypes DEF Object, Counters

(* Taking the item out of its list and putting it at the head.              *)
LEMMA MoveToHeadFacts ==
  ASSUME NEW list \in Seq(Objects), NEW o \in Objects, Distinct(list), o \in Range(list)
  PROVE  /\ <<o>> \o Unlinked(list, o) \in Seq(Objects)
         /\ Distinct(<<o>> \o Unlinked(list, o))
         /\ Range(<<o>> \o Unlinked(list, o)) = Range(list)
         /\ \A a, b : Before(<<o>> \o Unlinked(list, o), a, b) =>
                /\ b # o
                /\ a = o \/ Before(list, a, b)
<1> DEFINE u == Unlinked(list, o)
<1>1. /\ u \in Seq(Objects) /\ Distinct(u) /\ Range(u) = Range(list) \ {o}
      /\ \A a, b : Before(u, a, b) => Before(list, a, b)
  BY UnlinkFacts
<1> HIDE DEF u
<1>2. /\ <<o>> \o u \in Seq(Objects) /\ Distinct(<<o>> \o u)
      /\ Range(<<o>> \o u) = Range(u) \cup {o}
      /\ \A a, b : Before(<<o>> \o u, a, b) => (a = o /\ b \in Range(u)) \/ Before(u, a, b)
  BY <1>1, LinkFacts
<1>3. Range(u) \cup {o} = Range(list)
  BY <1>1
<1>4. \A a, b : Before(u, a, b) => b \in Range(u)
  BY DEF Before, Range
<1>5. \A a, b : Before(<<o>> \o u, a, b) => b # o /\ (a = o \/ Before(list, a, b))
  BY <1>1, <1>2, <1>4
<1> QED BY <1>2, <1>3, <1>5 DEF u

(* While no process ends, a process lists the objects it owns.              *)
LEMMA OwnListed ==
  ASSUME TypeOK, OwnedInv, NEW p \in Processes, exit.pc = "none",
         NEW o \in Objects, obj[o].owner = p
  PROVE  resList[p] \in Seq(Objects) /\ Distinct(resList[p]) /\ o \in Range(resList[p])
BY DEF TypeOK, OwnedInv

(* The head of the list of the process that ends.                           *)
LEMMA HeadListed ==
  ASSUME TypeOK, OwnedInv, exit.pc = "free", resList[exit.proc] # <<>>
  PROVE  /\ exit.proc \in Processes /\ resList[exit.proc] \in Seq(Objects)
         /\ Distinct(resList[exit.proc])
         /\ Head(resList[exit.proc]) \in Objects
         /\ Head(resList[exit.proc]) \in Range(resList[exit.proc])
         /\ obj[Head(resList[exit.proc])].owner = exit.proc
<1>1. exit.proc \in Processes /\ resList[exit.proc] \in Seq(Objects)
  BY DEF TypeOK
<1>2. Distinct(resList[exit.proc])
  BY <1>1 DEF OwnedInv
<1>3. Head(resList[exit.proc]) \in Range(resList[exit.proc])
  BY <1>1, <1>2, BeheadFacts
<1> QED BY <1>1, <1>2, <1>3, InList DEF OwnedInv

LEMMA ProcessTypesStep ==
  ASSUME TypeOK, OwnedInv, [Next]_vars
  PROVE  ProcessTypes'
<1>1. ProcessTypes
  BY DEF TypeOK, ProcessTypes
<1>2. ASSUME NEW p \in Processes, Client(p) PROVE ProcessTypes'
  <2>1. CASE PVRSRVProcessConnect(p)
    BY <1>1, <2>1 DEF PVRSRVProcessConnect, ProcessTypes
  <2>2. ASSUME NEW o \in Objects, CreateSyncInfoModObj(p, o) PROVE ProcessTypes'
    <3>1. <<o>> \o resList[p] \in Seq(Objects)
      <4>1. resList[p] \in Seq(Objects) /\ <<o>> \in Seq(Objects)
        BY <1>1 DEF ProcessTypes
      <4> QED BY <4>1, ConcatProperties
    <3> QED BY <1>1, <2>2, <3>1, EmptyTypes DEF CreateSyncInfoModObj, Bridge, ProcessTypes
  <2>3. ASSUME NEW o \in Objects, DestroySyncInfoModObj(p, o) PROVE ProcessTypes'
    <3>1. exit.pc = "none" /\ obj[o].owner = p
      BY <2>3, EmptyTypes DEF DestroySyncInfoModObj, Bridge
    <3>2. Unlinked(resList[p], o) \in Seq(Objects)
      BY <3>1, OwnListed, UnlinkFacts
    <3> QED BY <1>1, <2>3, <3>1, <3>2, EmptyTypes DEF DestroySyncInfoModObj, ProcessTypes
  <2>4. ASSUME NEW o \in Objects, ModifyCompleteSyncOps(p, o) PROVE ProcessTypes'
    BY <1>1, <2>4, EmptyTypes DEF ModifyCompleteSyncOps, Bridge, ProcessTypes
  <2>5. ASSUME NEW o \in Objects, NEW s \in Syncs, NEW f \in Flags,
               ModifyPendingSyncOps(p, o, s, f)
        PROVE  ProcessTypes'
    <3>1. exit.pc = "none" /\ obj[o].owner = p
      BY <2>5, EmptyTypes DEF ModifyPendingSyncOps, Bridge
    <3>2. <<o>> \o Unlinked(resList[p], o) \in Seq(Objects)
      BY <3>1, OwnListed, MoveToHeadFacts
    <3>3. [owner |-> p, sync |-> s, flags |-> f,
           wsnap |-> sync[s].wop, rsnap |-> sync[s].rop] \in Object
      BY TicketTypes
    <3> QED BY <1>1, <2>5, <3>1, <3>2, <3>3 DEF ModifyPendingSyncOps, ProcessTypes
  <2>6. ASSUME NEW s \in Syncs, SyncOpsTakeToken(p, s) PROVE ProcessTypes'
    BY <1>1, <2>6 DEF SyncOpsTakeToken, ProcessTypes
  <2>7. ASSUME NEW s \in Syncs, NEW f \in Flags, SGXDoKick(p, s, f) PROVE ProcessTypes'
    BY <1>1, <2>7 DEF SGXDoKick, ProcessTypes
  <2> QED BY <1>2, <2>1, <2>2, <2>3, <2>4, <2>5, <2>6, <2>7 DEF Client
<1>3. ASSUME NEW p \in Processes, PVRSRVProcessDisconnect(p) PROVE ProcessTypes'
  <2>1. Reverse(resList[p]) \in Seq(Objects)
    BY <1>1, ReverseFacts DEF ProcessTypes, OwnedInv
  <2> QED BY <1>1, <1>3, <2>1 DEF PVRSRVProcessDisconnect, Bridge, ProcessTypes
<1>4. CASE Disconnect
  <2>1. CASE FreeResourceByPtr
    <3> DEFINE o == Head(resList[exit.proc])
    <3>1. /\ exit.proc \in Processes /\ resList[exit.proc] \in Seq(Objects)
          /\ Tail(resList[exit.proc]) \in Seq(Objects) /\ o \in Objects
      BY <2>1, HeadListed, TailFacts DEF FreeResourceByPtr
    <3>2. resList' \in [Processes -> Seq(Objects)]
      BY <1>1, <2>1, <3>1 DEF FreeResourceByPtr, ProcessTypes
    <3>3. CASE obj[o].sync = "none" /\ obj' = [obj EXCEPT ![o] = Free] /\ UNCHANGED exit
      BY <1>1, <2>1, <3>1, <3>2, <3>3, EmptyTypes DEF FreeResourceByPtr, ProcessTypes
    <3>4. CASE obj[o].sync # "none" /\ exit' = [exit EXCEPT !.pc = "wait", !.item = o] /\ UNCHANGED obj
      <4>1. obj[o].sync \in Syncs
        BY <3>1, <3>4, ObjectTypes
      <4> QED BY <1>1, <2>1, <3>1, <3>2, <3>4, <4>1 DEF FreeResourceByPtr, ProcessTypes
    <3> QED BY <2>1, <3>3, <3>4 DEF FreeResourceByPtr
  <2>2. CASE OpFlushedComplete
    BY <1>1, <2>2, EmptyTypes DEF OpFlushedComplete, ProcessTypes
  <2>3. CASE FlushTimeout
    <3>1. stalls' \in Nat
      BY <1>1, <2>3 DEF FlushTimeout, ProcessTypes
    <3>2. obj' \in [Objects -> Object]
      <4>1. exit.item \in Objects /\ obj[exit.item] \in Object
        BY <1>1, <2>3 DEF FlushTimeout, ProcessTypes
      <4>2. [obj[exit.item] EXCEPT !.owner = "lost"] \in Object
        BY <4>1 DEF Object
      <4> QED BY <1>1, <2>3, <4>1, <4>2 DEF FlushTimeout, ProcessTypes
    <3> QED BY <1>1, <2>3, <3>1, <3>2 DEF FlushTimeout, ProcessTypes
  <2>4. CASE AllFreed
    BY <1>1, <2>4 DEF AllFreed, ProcessTypes
  <2>5. CASE PVRSRVResManDisconnect
    <3>1. obj' \in [Objects -> Object]
      <4> DEFINE Listed(o) == \E i \in DOMAIN resList[exit.proc] : resList[exit.proc][i] = o
      <4>1. obj' = [o \in Objects |->
                       IF Listed(o) THEN [obj[o] EXCEPT !.owner = "lost"] ELSE obj[o]]
        BY <2>5 DEF PVRSRVResManDisconnect
      <4> HIDE DEF Listed
      <4>2. \A o \in Objects : obj[o] \in Object /\ [obj[o] EXCEPT !.owner = "lost"] \in Object
        <5> TAKE o \in Objects
        <5>1. obj[o] \in Object
          BY <1>1 DEF ProcessTypes
        <5> QED BY <5>1 DEF Object
      <4> QED BY <4>1, <4>2
    <3>2. resList' \in [Processes -> Seq(Objects)]
      BY <1>1, <2>5, EmptyListFacts DEF PVRSRVResManDisconnect, ProcessTypes
    <3> QED BY <1>1, <2>5, <3>1, <3>2 DEF PVRSRVResManDisconnect, NoExit, ProcessTypes
  <2> QED BY <1>4, <2>1, <2>2, <2>3, <2>4, <2>5 DEF Disconnect
<1>5. ASSUME NEW s \in Syncs, DeviceComplete(s) PROVE ProcessTypes'
  BY <1>1, <1>5 DEF DeviceComplete, ProcessTypes
<1>6. CASE UNCHANGED vars
  BY <1>1, <1>6 DEF vars, ProcessTypes
<1> QED BY <1>2, <1>3, <1>4, <1>5, <1>6 DEF Next

LEMMA TypeStep ==
  ASSUME TypeOK, CountsInv, HeldInv, OwnedInv, [Next]_vars
  PROVE  TypeOK'
BY NextIsSurfaceStep, SurfaceTypesStep, ProcessTypesStep DEF TypeOK, ProcessTypes, Counters, Token

-----------------------------------------------------------------------------
(* Objects and the operations they describe                                 *)

(* Nothing happens to operations, and the objects keep theirs.              *)
LEMMA HeldKept ==
  ASSUME HeldInv, ops' = ops,
         \A o \in Objects : /\ obj'[o].sync = obj[o].sync
                            /\ obj[o].sync \in Syncs => /\ obj'[o].wsnap = obj[o].wsnap
                                                        /\ obj'[o].rsnap = obj[o].rsnap
                            /\ obj'[o].owner = "none" => obj'[o].sync = "none"
  PROVE  HeldInv'
BY DEF HeldInv, Describes

(* Exactly the operations of other objects stay when one is issued.         *)
LEMMA HeldIssued ==
  ASSUME TypeOK, HeldInv, NEW s \in Syncs, NEW by \in Objects \cup {"device"}, NEW f \in Flags,
         Issue(s, by, f),
         by \in Objects => /\ obj[by].sync = "none"
                           /\ obj'[by].sync = s /\ obj'[by].owner # "none"
                           /\ obj'[by].wsnap = sync[s].wop /\ obj'[by].rsnap = sync[s].rop,
         \A o \in Objects : o # by => obj'[o] = obj[o]
  PROVE  HeldInv'
<1> DEFINE e == [by |-> by, flags |-> f, n |-> issued[s],
                 wsnap |-> sync[s].wop, rsnap |-> sync[s].rop]
           L == Len(ops[s])
<1>1. /\ ops[s] \in Seq(Operation) /\ e \in Operation /\ ops \in [Syncs -> Seq(Operation)]
      /\ e.by = by /\ e.wsnap = sync[s].wop /\ e.rsnap = sync[s].rop
  BY SurfaceTypes DEF Counters, Operation, TypeOK
<1>2. ops' = [ops EXCEPT ![s] = Append(ops[s], e)]
  BY DEF Issue
<1> HIDE DEF e
<1>3. /\ \A r \in Syncs : r # s => ops'[r] = ops[r]
      /\ L \in Nat /\ DOMAIN ops[s] = 1 .. L /\ DOMAIN ops'[s] = 1 .. L + 1
      /\ \A i \in 1 .. L : ops'[s][i] = ops[s][i]
      /\ ops'[s][L + 1] = e
  BY <1>1, <1>2, AppendFacts
<1>4. \A r \in Syncs : \A i \in DOMAIN ops[r] : ops[r][i].by \in Objects => obj[ops[r][i].by].sync = r
  BY DEF HeldInv
<1>5. \A r \in Syncs : \A i \in DOMAIN ops[r] : by \in Objects => ops[r][i].by # by
  BY <1>4, NoNames
<1>6. ASSUME NEW o \in Objects, obj'[o].sync \in Syncs
      PROVE  \E i \in DOMAIN ops'[obj'[o].sync] :
                 /\ ops'[obj'[o].sync][i].by = o
                 /\ ops'[obj'[o].sync][i].wsnap = obj'[o].wsnap
                 /\ ops'[obj'[o].sync][i].rsnap = obj'[o].rsnap
  <2>1. CASE o = by
    <3>1. obj'[o].sync = s /\ L + 1 \in DOMAIN ops'[s] /\ ops'[s][L + 1] = e
      BY <1>3, <2>1
    <3> QED BY <1>1, <2>1, <3>1
  <2>2. CASE o # by
    <3>1. obj'[o] = obj[o]
      BY <2>2
    <3>2. PICK i \in DOMAIN ops[obj[o].sync] : Describes(o, obj[o].sync, i)
      BY <1>6, <3>1 DEF HeldInv
    <3>3. i \in DOMAIN ops'[obj[o].sync] /\ ops'[obj[o].sync][i] = ops[obj[o].sync][i]
      BY <1>3, <1>6, <3>1
    <3> QED BY <3>1, <3>2, <3>3 DEF Describes
  <2> QED BY <2>1, <2>2
<1>7. ASSUME NEW o \in Objects, obj'[o].owner = "none" PROVE obj'[o].sync = "none"
  BY <1>7 DEF HeldInv
<1>8. ASSUME NEW r \in Syncs, NEW i \in DOMAIN ops'[r], ops'[r][i].by \in Objects
      PROVE  /\ obj'[ops'[r][i].by].sync = r
             /\ \A j \in DOMAIN ops'[r] : ops'[r][j].by = ops'[r][i].by => j = i
  <2>1. CASE r # s
    <3>1. ops'[r] = ops[r] /\ ops[r][i].by # by
      BY <1>3, <1>5, <1>8, <2>1
    <3> QED BY <1>8, <3>1 DEF HeldInv
  <2>2. CASE r = s /\ i \in 1 .. L
    <3>1. ops'[s][i] = ops[s][i] /\ ops[s][i].by # by /\ i \in DOMAIN ops[s]
      BY <1>3, <1>5, <1>8, <2>2
    <3>2. \A j \in 1 .. L + 1 : ops'[s][j].by = ops[s][i].by => j \in 1 .. L
      BY <1>1, <1>3, <3>1
    <3>3. /\ obj[ops[s][i].by].sync = s
          /\ \A j \in 1 .. L : ops[s][j].by = ops[s][i].by => j = i
      <4>1. ops[s][i].by \in Objects
        BY Zenon, <1>8, <2>2, <3>1
      <4>2. i \in DOMAIN ops[s] /\ DOMAIN ops[s] = 1 .. L
        BY <1>3, <3>1
      <4>3. \A k \in DOMAIN ops[s] : ops[s][k].by \in Objects =>
                /\ obj[ops[s][k].by].sync = s
                /\ \A j \in DOMAIN ops[s] : ops[s][j].by = ops[s][k].by => j = k
        BY DEF HeldInv
      <4>4. /\ obj[ops[s][i].by].sync = s
            /\ \A j \in DOMAIN ops[s] : ops[s][j].by = ops[s][i].by => j = i
        BY Zenon, <4>1, <4>2, <4>3
      <4> QED BY <4>2, <4>4
    <3>4. obj'[ops[s][i].by] = obj[ops[s][i].by]
      BY Zenon, <1>8, <2>2, <3>1
    <3>5. \A j \in 1 .. L + 1 : ops'[s][j].by = ops[s][i].by => j = i
      BY <1>3, <3>2, <3>3
    <3> QED BY Zenon, <1>3, <2>2, <3>1, <3>3, <3>4, <3>5
  <2>3. CASE r = s /\ i = L + 1
    <3>1. ops'[s][i].by = by /\ by \in Objects
      BY <1>1, <1>3, <1>8, <2>3
    <3>2. \A j \in 1 .. L + 1 : ops'[s][j].by = by => j = L + 1
      BY <1>3, <1>5, <3>1
    <3> QED BY <1>3, <2>3, <3>1, <3>2
  <2> QED BY <1>3, <2>1, <2>2, <2>3
<1> QED BY <1>6, <1>7, <1>8 DEF HeldInv, Describes

(* Exactly the operations of other objects stay when the first completes.   *)
LEMMA HeldFinished ==
  ASSUME TypeOK, HeldInv, NEW s \in Syncs, FinishFirst(s),
         ops[s][1].by \in Objects => obj'[ops[s][1].by].sync = "none",
         \A o \in Objects : o # ops[s][1].by => obj'[o] = obj[o]
  PROVE  HeldInv'
<1> DEFINE x == ops[s][1].by
           L == Len(ops[s])
<1>1. ops[s] \in Seq(Operation) /\ ops \in [Syncs -> Seq(Operation)] /\ ops[s] # <<>>
  BY SurfaceTypes DEF TypeOK, FinishFirst
<1>2. /\ \A r \in Syncs : r # s => ops'[r] = ops[r]
      /\ L \in Nat \ {0} /\ DOMAIN ops[s] = 1 .. L /\ DOMAIN ops'[s] = 1 .. L - 1
      /\ \A i \in 1 .. L - 1 : ops'[s][i] = ops[s][i + 1]
  BY <1>1, TailFacts DEF FinishFirst
<1>3. /\ \A r \in Syncs : \A i \in DOMAIN ops[r] : ops[r][i].by \in Objects => obj[ops[r][i].by].sync = r
      /\ \A r \in Syncs : \A i, j \in DOMAIN ops[r] :
             ops[r][i].by \in Objects /\ ops[r][j].by = ops[r][i].by => j = i
  BY DEF HeldInv
<1>4. 1 \in DOMAIN ops[s]
  BY <1>2
<1> HIDE DEF x
<1>5. ASSUME NEW o \in Objects, obj'[o].sync \in Syncs
      PROVE  \E i \in DOMAIN ops'[obj'[o].sync] :
                 /\ ops'[obj'[o].sync][i].by = o
                 /\ ops'[obj'[o].sync][i].wsnap = obj'[o].wsnap
                 /\ ops'[obj'[o].sync][i].rsnap = obj'[o].rsnap
  <2>1. o # x /\ obj'[o] = obj[o]
    BY <1>5, NoNames DEF x
  <2>2. PICK i \in DOMAIN ops[obj[o].sync] : Describes(o, obj[o].sync, i)
    BY <1>5, <2>1 DEF HeldInv
  <2>3. CASE obj[o].sync # s
    BY <1>2, <1>5, <2>1, <2>2, <2>3 DEF Describes
  <2>4. CASE obj[o].sync = s
    <3>1. i \in 1 .. L /\ i # 1
      BY <1>2, <2>1, <2>2, <2>4 DEF Describes, x
    <3>2. i - 1 \in 1 .. L - 1 /\ (i - 1) + 1 = i
      BY <1>2, <3>1
    <3>3. i - 1 \in DOMAIN ops'[s] /\ ops'[s][i - 1] = ops[s][i]
      BY <1>2, <3>2
    <3> QED BY <2>1, <2>2, <2>4, <3>3 DEF Describes
  <2> QED BY <2>3, <2>4
<1>6. ASSUME NEW o \in Objects, obj'[o].owner = "none" PROVE obj'[o].sync = "none"
  BY <1>6 DEF HeldInv
<1>7. ASSUME NEW r \in Syncs, NEW i \in DOMAIN ops'[r], ops'[r][i].by \in Objects
      PROVE  /\ obj'[ops'[r][i].by].sync = r
             /\ \A j \in DOMAIN ops'[r] : ops'[r][j].by = ops'[r][i].by => j = i
  <2>1. CASE r # s
    <3>1. ops'[r] = ops[r]
      BY <1>2, <2>1
    <3>2. ops[r][i].by # x
      <4>1. x \in Objects => obj[x].sync = s
        BY <1>3, <1>4 DEF x
      <4> QED BY <1>3, <1>7, <2>1, <3>1, <4>1
    <3> QED BY <1>3, <1>7, <3>1, <3>2 DEF x
  <2>2. CASE r = s
    <3>1. i \in 1 .. L - 1 /\ i + 1 \in 1 .. L /\ i + 1 # 1 /\ ops'[s][i] = ops[s][i + 1]
      BY <1>2, <1>7, <2>2
    <3>2. ops[s][i + 1].by \in Objects /\ ops[s][i + 1].by # x
      BY <1>2, <1>3, <1>4, <1>7, <2>2, <3>1 DEF x
    <3>3. obj'[ops[s][i + 1].by].sync = s
      BY <1>2, <1>3, <3>1, <3>2 DEF x
    <3>4. ASSUME NEW j \in 1 .. L - 1, ops'[s][j].by = ops'[s][i].by PROVE j = i
      <4>1. j + 1 \in 1 .. L /\ ops[s][j + 1].by = ops[s][i + 1].by
        BY <1>2, <3>1, <3>4
      <4>2. j + 1 = i + 1
        BY <1>2, <1>3, <3>1, <3>2, <4>1
      <4> QED BY <3>1, <4>2
    <3> QED BY <1>2, <2>2, <3>1, <3>3, <3>4
  <2> QED BY <2>1, <2>2
<1> QED BY <1>5, <1>6, <1>7 DEF HeldInv, Describes

LEMMA HeldStep ==
  ASSUME TypeOK, CountsInv, HeldInv, OwnedInv, [Next]_vars
  PROVE  HeldInv'
<1>1. obj \in [Objects -> Object]
  BY DEF TypeOK
<1>2. \A o \in Objects : obj[o].owner = "none" => obj[o].sync = "none"
  BY DEF HeldInv
<1>3. ASSUME NEW p \in Processes, Client(p) PROVE HeldInv'
  <2>1. CASE PVRSRVProcessConnect(p)
    BY <1>2, <2>1, HeldKept DEF PVRSRVProcessConnect
  <2>2. ASSUME NEW o \in Objects, CreateSyncInfoModObj(p, o) PROVE HeldInv'
    <3>1. obj[o].sync = "none" /\ obj'[o].sync = "none"
          /\ \A x \in Objects : x # o => obj'[x] = obj[x]
      BY <1>1, <2>2, EmptyTypes DEF CreateSyncInfoModObj
    <3> QED BY <1>2, <2>2, <3>1, HeldKept, NoNames DEF CreateSyncInfoModObj
  <2>3. ASSUME NEW o \in Objects, DestroySyncInfoModObj(p, o) PROVE HeldInv'
    <3>1. obj[o].sync = "none" /\ obj'[o].sync = "none"
          /\ \A x \in Objects : x # o => obj'[x] = obj[x]
      BY <1>1, <2>3, EmptyTypes DEF DestroySyncInfoModObj
    <3> QED BY <1>2, <2>3, <3>1, HeldKept, NoNames DEF DestroySyncInfoModObj
  <2>4. ASSUME NEW o \in Objects, ModifyCompleteSyncOps(p, o) PROVE HeldInv'
    <3>1. obj[o].sync \in Syncs
      BY <2>4, ObjectTypes DEF ModifyCompleteSyncOps
    <3>2. FinishFirst(obj[o].sync) /\ ops[obj[o].sync][1].by = o
      BY <2>4, <3>1, ObjectFinishes DEF ModifyCompleteSyncOps
    <3>3. obj'[o].sync = "none" /\ \A x \in Objects : x # o => obj'[x] = obj[x]
      BY <1>1, <2>4, EmptyTypes DEF ModifyCompleteSyncOps
    <3> QED BY <3>1, <3>2, <3>3, HeldFinished
  <2>5. ASSUME NEW o \in Objects, NEW s \in Syncs, NEW f \in Flags,
               ModifyPendingSyncOps(p, o, s, f)
        PROVE  HeldInv'
    <3>1. obj[o].sync = "none"
      BY <2>5, EmptyTypes DEF ModifyPendingSyncOps
    <3>2. /\ obj'[o].sync = s /\ obj'[o].owner = p
          /\ obj'[o].wsnap = sync[s].wop /\ obj'[o].rsnap = sync[s].rop
          /\ \A x \in Objects : x # o => obj'[x] = obj[x]
      BY <1>1, <2>5 DEF ModifyPendingSyncOps
    <3>3. Issue(s, o, f)
      BY <2>5 DEF ModifyPendingSyncOps
    <3> QED BY <3>1, <3>2, <3>3, HeldIssued, NoNames
  <2>6. ASSUME NEW s \in Syncs, SyncOpsTakeToken(p, s) PROVE HeldInv'
    BY <1>2, <2>6, HeldKept DEF SyncOpsTakeToken
  <2>7. ASSUME NEW s \in Syncs, NEW f \in Flags, SGXDoKick(p, s, f) PROVE HeldInv'
    <3>1. Issue(s, "device", f) /\ obj' = obj
      BY <2>7 DEF SGXDoKick
    <3> QED BY <3>1, HeldIssued, NoNames
  <2> QED BY <1>3, <2>1, <2>2, <2>3, <2>4, <2>5, <2>6, <2>7 DEF Client
<1>4. ASSUME NEW p \in Processes, PVRSRVProcessDisconnect(p) PROVE HeldInv'
  BY <1>2, <1>4, HeldKept DEF PVRSRVProcessDisconnect
<1>5. CASE Disconnect
  <2>1. CASE FreeResourceByPtr
    <3> DEFINE o == Head(resList[exit.proc])
    <3>1. o \in Objects
      BY <2>1, HeadListed DEF FreeResourceByPtr
    <3>2. CASE obj[o].sync = "none" /\ obj' = [obj EXCEPT ![o] = Free]
      <4>1. obj'[o].sync = "none" /\ \A x \in Objects : x # o => obj'[x] = obj[x]
        BY <1>1, <3>1, <3>2, EmptyTypes
      <4> HIDE DEF o
      <4> QED BY <1>2, <2>1, <3>1, <3>2, <4>1, HeldKept, NoNames DEF FreeResourceByPtr
    <3>3. CASE UNCHANGED obj
      BY <1>2, <2>1, <3>3, HeldKept DEF FreeResourceByPtr
    <3> QED BY <2>1, <3>2, <3>3 DEF FreeResourceByPtr
  <2>2. CASE OpFlushedComplete
    <3> DEFINE o == exit.item
    <3>1. o \in Objects /\ obj[o].sync \in Syncs /\ issued' = issued /\ token' = token
      BY <2>2 DEF OpFlushedComplete, TypeOK
    <3>2. DoModifyCompleteSyncOps(o)
      <4>1. Turn(obj[o].sync, obj[o])
        BY <2>2, <3>1, SatisfiedIsTurn DEF OpFlushedComplete
      <4> QED BY <2>2, <4>1 DEF OpFlushedComplete
    <3>3. FinishFirst(obj[o].sync) /\ ops[obj[o].sync][1].by = o
      BY <3>1, <3>2, ObjectFinishes
    <3>4. obj'[o].sync = "none" /\ \A x \in Objects : x # o => obj'[x] = obj[x]
      BY Zenon, <1>1, <2>2, <3>1, EmptyTypes DEF OpFlushedComplete
    <3> QED BY <3>1, <3>3, <3>4, HeldFinished
  <2>3. CASE FlushTimeout
    <3>1. /\ \A x \in Objects : /\ obj'[x].sync = obj[x].sync /\ obj'[x].wsnap = obj[x].wsnap
                                /\ obj'[x].rsnap = obj[x].rsnap
                                /\ obj'[x].owner = "none" => obj[x].owner = "none"
      BY <1>1, <2>3 DEF FlushTimeout, Object
    <3> QED BY <1>2, <2>3, <3>1, HeldKept DEF FlushTimeout
  <2>4. CASE AllFreed
    BY <1>2, <2>4, HeldKept DEF AllFreed
  <2>5. CASE PVRSRVResManDisconnect
    <3>1. /\ \A x \in Objects : /\ obj'[x].sync = obj[x].sync /\ obj'[x].wsnap = obj[x].wsnap
                                /\ obj'[x].rsnap = obj[x].rsnap
                                /\ obj'[x].owner = "none" => obj[x].owner = "none"
      BY <1>1, <2>5 DEF PVRSRVResManDisconnect, Object
    <3> QED BY <1>2, <2>5, <3>1, HeldKept DEF PVRSRVResManDisconnect
  <2> QED BY <1>5, <2>1, <2>2, <2>3, <2>4, <2>5 DEF Disconnect
<1>6. ASSUME NEW s \in Syncs, DeviceComplete(s) PROVE HeldInv'
  <2>1. PICK i \in DOMAIN ops[s] : ops[s][i].by = "device" /\ Turn(s, ops[s][i]) /\ Finish(s, i)
    BY <1>6 DEF DeviceComplete
  <2>2. FinishFirst(s) /\ i = 1 /\ obj' = obj
    BY <1>6, <2>1, FinishAtTurn DEF DeviceComplete, Turn
  <2> QED BY <2>1, <2>2, HeldFinished, NoNames
<1>7. CASE UNCHANGED vars
  BY <1>2, <1>7, HeldKept DEF vars
<1> QED BY <1>3, <1>4, <1>5, <1>6, <1>7 DEF Next

-----------------------------------------------------------------------------
(* Lists and owners                                                         *)

(* Lists, owners and the exit stay.                                         *)
LEMMA OwnedKept ==
  ASSUME TypeOK, OwnedInv, resList' = resList, exit' = exit,
         \A o \in Objects : obj'[o].owner = obj[o].owner
  PROVE  OwnedInv'
<1>1. \A p \in Processes : \A o \in Range(resList[p]) : o \in Objects
  BY InList DEF TypeOK
<1>2. exit.pc = "wait" => exit.item \in Objects
  BY DEF TypeOK
<1> QED BY <1>1, <1>2 DEF OwnedInv

(* The list of p becomes this one, of what p owns now.                      *)
ListBecomes(p, list) ==
    /\ resList' = [resList EXCEPT ![p] = list]
    /\ Distinct(list)
    /\ \A o \in Range(list) : o \in Objects /\ obj'[o].owner = p
    /\ \A o \in Objects : obj'[o].owner = p => o \in Range(list)
    /\ \A o \in Objects : obj'[o].owner \in Processes \ {p} \/ obj[o].owner \in Processes \ {p}
                              => obj'[o].owner = obj[o].owner

(* While no process waits, one list changes, and the owners with it.        *)
LEMMA OwnedChanged ==
  ASSUME TypeOK, OwnedInv, NEW p \in Processes, NEW list,
         exit.pc # "wait", exit'.pc # "wait", ListBecomes(p, list)
  PROVE  OwnedInv'
<1>1. resList \in [Processes -> Seq(Objects)]
  BY DEF TypeOK
<1>2. /\ resList' = [resList EXCEPT ![p] = list]
      /\ Distinct(list)
      /\ \A o \in Range(list) : o \in Objects /\ obj'[o].owner = p
      /\ \A o \in Objects : obj'[o].owner = p => o \in Range(list)
      /\ \A o \in Objects : obj'[o].owner \in Processes \ {p} \/ obj[o].owner \in Processes \ {p}
                                => obj'[o].owner = obj[o].owner
  BY DEF ListBecomes
<1>3. resList'[p] = list /\ \A q \in Processes : q # p => resList'[q] = resList[q]
  BY <1>1, <1>2
<1>4. ASSUME NEW q \in Processes
      PROVE  Distinct(resList'[q]) /\ \A o \in Range(resList'[q]) : obj'[o].owner = q
  <2>1. CASE q = p
    BY <1>2, <1>3, <2>1
  <2>2. CASE q # p
    <3>1. resList'[q] = resList[q] /\ Distinct(resList[q])
      BY <1>3, <2>2 DEF OwnedInv
    <3>2. \A o \in Range(resList[q]) : o \in Objects /\ obj[o].owner = q
      BY <1>1, InList DEF OwnedInv
    <3> QED BY <1>2, <2>2, <3>1, <3>2
  <2> QED BY <2>1, <2>2
<1>5. ASSUME NEW o \in Objects, obj'[o].owner \in Processes
      PROVE  o \in Range(resList'[obj'[o].owner])
  <2>1. CASE obj'[o].owner = p
    BY <1>2, <1>3, <2>1
  <2>2. CASE obj'[o].owner # p
    <3>1. obj[o].owner = obj'[o].owner
      BY <1>2, <1>5, <2>2
    <3>2. o \in Range(resList[obj[o].owner])
      BY <1>5, <3>1 DEF OwnedInv
    <3> QED BY <1>3, <1>5, <2>2, <3>1, <3>2
  <2> QED BY <2>1, <2>2
<1> QED BY <1>4, <1>5 DEF OwnedInv

LEMMA OwnedStep ==
  ASSUME TypeOK, OwnedInv, [Next]_vars
  PROVE  OwnedInv'
<1>1. obj \in [Objects -> Object] /\ resList \in [Processes -> Seq(Objects)]
  BY DEF TypeOK
<1>2. \A p \in Processes : /\ Distinct(resList[p])
                           /\ \A o \in Range(resList[p]) : o \in Objects /\ obj[o].owner = p
  BY <1>1, InList DEF OwnedInv
<1>3. ASSUME NEW p \in Processes, Client(p) PROVE OwnedInv'
  <2>1. CASE PVRSRVProcessConnect(p)
    BY <2>1, OwnedKept DEF PVRSRVProcessConnect
  <2>2. ASSUME NEW o \in Objects, CreateSyncInfoModObj(p, o) PROVE OwnedInv'
    <3>1. /\ exit.pc = "none" /\ exit' = exit /\ obj[o].owner = "none" /\ obj'[o].owner = p
          /\ \A x \in Objects : x # o => obj'[x] = obj[x]
          /\ resList' = [resList EXCEPT ![p] = <<o>> \o resList[p]]
      BY <1>1, <2>2, EmptyTypes DEF CreateSyncInfoModObj, Bridge
    <3>2. o \notin Range(resList[p])
      BY <1>2, <3>1, NoNames
    <3>3. /\ Distinct(<<o>> \o resList[p])
          /\ Range(<<o>> \o resList[p]) = Range(resList[p]) \cup {o}
      BY <1>1, <1>2, <3>2, LinkFacts
    <3>4. \A x \in Range(<<o>> \o resList[p]) : x \in Objects /\ obj'[x].owner = p
      BY <1>2, <3>1, <3>2, <3>3
    <3>5. \A x \in Objects : obj'[x].owner = p => x \in Range(<<o>> \o resList[p])
      BY <3>1, <3>3, OwnListed
    <3>6. \A x \in Objects : obj'[x].owner \in Processes \ {p} \/ obj[x].owner \in Processes \ {p}
                                 => obj'[x].owner = obj[x].owner
      BY <3>1, NoNames
    <3> QED BY <3>1, <3>3, <3>4, <3>5, <3>6, OwnedChanged DEF ListBecomes
  <2>3. ASSUME NEW o \in Objects, DestroySyncInfoModObj(p, o) PROVE OwnedInv'
    <3>1. /\ exit.pc = "none" /\ exit' = exit /\ obj[o].owner = p /\ obj'[o].owner = "none"
          /\ \A x \in Objects : x # o => obj'[x] = obj[x]
          /\ resList' = [resList EXCEPT ![p] = Unlinked(resList[p], o)]
      BY <1>1, <2>3, EmptyTypes DEF DestroySyncInfoModObj, Bridge
    <3>2. o \in Range(resList[p])
      BY <3>1, OwnListed
    <3>3. /\ Distinct(Unlinked(resList[p], o))
          /\ Range(Unlinked(resList[p], o)) = Range(resList[p]) \ {o}
      BY <1>1, <1>2, <3>2, UnlinkFacts
    <3>4. \A x \in Range(Unlinked(resList[p], o)) : x \in Objects /\ obj'[x].owner = p
      BY <1>2, <3>1, <3>3
    <3>5. \A x \in Objects : obj'[x].owner = p => x \in Range(Unlinked(resList[p], o))
      BY <3>1, <3>3, OwnListed, NoNames
    <3>6. \A x \in Objects : obj'[x].owner \in Processes \ {p} \/ obj[x].owner \in Processes \ {p}
                                 => obj'[x].owner = obj[x].owner
      BY <3>1, NoNames
    <3> QED BY <3>1, <3>3, <3>4, <3>5, <3>6, OwnedChanged DEF ListBecomes
  <2>4. ASSUME NEW o \in Objects, ModifyCompleteSyncOps(p, o) PROVE OwnedInv'
    <3>1. /\ resList' = resList /\ exit' = exit
          /\ \A x \in Objects : obj'[x].owner = obj[x].owner
      BY <1>1, <2>4, EmptyTypes DEF ModifyCompleteSyncOps
    <3> QED BY <3>1, OwnedKept
  <2>5. ASSUME NEW o \in Objects, NEW s \in Syncs, NEW f \in Flags,
               ModifyPendingSyncOps(p, o, s, f)
        PROVE  OwnedInv'
    <3>1. /\ exit.pc = "none" /\ exit' = exit /\ obj[o].owner = p
          /\ \A x \in Objects : obj'[x].owner = obj[x].owner
          /\ resList' = [resList EXCEPT ![p] = <<o>> \o Unlinked(resList[p], o)]
      BY <1>1, <2>5, EmptyTypes DEF ModifyPendingSyncOps, Bridge
    <3>2. o \in Range(resList[p])
      BY <3>1, OwnListed
    <3> DEFINE list == <<o>> \o Unlinked(resList[p], o)
    <3>3. Distinct(list) /\ Range(list) = Range(resList[p])
      BY <1>1, <1>2, <3>2, MoveToHeadFacts
    <3>4. resList' = [resList EXCEPT ![p] = list]
      BY <3>1
    <3> HIDE DEF list
    <3>5. \A x \in Objects : obj'[x].owner = p => x \in Range(list)
      BY <3>1, <3>3, OwnListed
    <3>6. \A x \in Range(list) : x \in Objects /\ obj'[x].owner = p
      BY <1>2, <3>1, <3>3
    <3>7. exit.pc # "wait" /\ exit'.pc # "wait"
      BY <3>1
    <3>8. ListBecomes(p, list)
      BY <3>1, <3>3, <3>4, <3>5, <3>6, <3>7 DEF ListBecomes
    <3> QED BY <3>1, <3>3, <3>4, <3>5, <3>6, <3>7, <3>8, OwnedChanged
  <2>6. ASSUME NEW s \in Syncs, SyncOpsTakeToken(p, s) PROVE OwnedInv'
    BY <2>6, OwnedKept DEF SyncOpsTakeToken
  <2>7. ASSUME NEW s \in Syncs, NEW f \in Flags, SGXDoKick(p, s, f) PROVE OwnedInv'
    BY <2>7, OwnedKept DEF SGXDoKick
  <2> QED BY <1>3, <2>1, <2>2, <2>3, <2>4, <2>5, <2>6, <2>7 DEF Client
<1>4. ASSUME NEW p \in Processes, PVRSRVProcessDisconnect(p) PROVE OwnedInv'
  <2>1. /\ exit.pc = "none" /\ exit'.pc = "free" /\ obj' = obj
        /\ resList' = [resList EXCEPT ![p] = Reverse(resList[p])]
    BY <1>4 DEF PVRSRVProcessDisconnect, Bridge
  <2>2. Distinct(Reverse(resList[p])) /\ Range(Reverse(resList[p])) = Range(resList[p])
    BY <1>1, <1>2, ReverseFacts
  <2>3. \A x \in Objects : obj[x].owner = p => x \in Range(resList[p])
    BY <2>1, OwnListed
  <2> DEFINE list == Reverse(resList[p])
  <2>4. resList' = [resList EXCEPT ![p] = list] /\ Distinct(list)
        /\ (\A x \in Range(list) : x \in Objects /\ obj'[x].owner = p)
        /\ (\A x \in Objects : obj'[x].owner = p => x \in Range(list))
    BY <1>2, <2>1, <2>2, <2>3
  <2>5. exit.pc # "wait" /\ exit'.pc # "wait" /\ \A x \in Objects : obj'[x].owner = obj[x].owner
    BY <2>1
  <2> HIDE DEF list
  <2> QED BY <2>4, <2>5, OwnedChanged DEF ListBecomes
<1>5. CASE Disconnect
  <2>1. CASE FreeResourceByPtr
    <3> DEFINE p == exit.proc
               o == Head(resList[p])
    <3>1. /\ p \in Processes /\ resList[p] \in Seq(Objects) /\ Distinct(resList[p])
          /\ o \in Objects /\ o \in Range(resList[p]) /\ obj[o].owner = p /\ resList[p] # <<>>
          /\ exit.pc = "free"
      BY <2>1, HeadListed DEF FreeResourceByPtr
    <3>2. resList' = [resList EXCEPT ![p] = Tail(resList[p])]
      BY <2>1 DEF FreeResourceByPtr
    <3>3. Distinct(Tail(resList[p])) /\ Range(Tail(resList[p])) = Range(resList[p]) \ {o}
      BY <3>1, BeheadFacts
    <3>4. \A x \in Objects : obj[x].owner = p => x \in Range(resList[p])
      BY <3>1 DEF OwnedInv
    <3>5. CASE obj[o].sync = "none" /\ obj' = [obj EXCEPT ![o] = Free] /\ UNCHANGED exit
      <4>1. obj'[o].owner = "none" /\ \A x \in Objects : x # o => obj'[x] = obj[x]
        BY <1>1, <3>1, <3>5, EmptyTypes
      <4> HIDE DEF p, o
      <4>2. \A x \in Range(Tail(resList[p])) : x \in Objects /\ obj'[x].owner = p
        BY <1>2, <3>1, <3>3, <4>1
      <4>3. \A x \in Objects : obj'[x].owner = p => x \in Range(Tail(resList[p]))
        BY <3>1, <3>3, <3>4, <4>1, NoNames
      <4>4. \A x \in Objects : obj'[x].owner \in Processes \ {p} \/ obj[x].owner \in Processes \ {p}
                                   => obj'[x].owner = obj[x].owner
        BY <3>1, <4>1, NoNames
      <4> QED BY <3>1, <3>2, <3>3, <3>5, <4>2, <4>3, <4>4, OwnedChanged DEF ListBecomes
    <3>6. CASE exit' = [exit EXCEPT !.pc = "wait", !.item = o] /\ UNCHANGED obj
      <4>1. exit'.pc = "wait" /\ exit'.item = o /\ exit'.proc = p
        BY <3>6 DEF TypeOK
      <4>2. resList'[p] = Tail(resList[p]) /\ \A q \in Processes : q # p => resList'[q] = resList[q]
        BY <1>1, <3>1, <3>2
      <4> HIDE DEF p, o
      <4>3. \A q \in Processes : /\ Distinct(resList'[q])
                                 /\ \A x \in Range(resList'[q]) : obj[x].owner = q
        BY <1>2, <3>1, <3>3, <4>2
      <4>4. ASSUME NEW x \in Objects, obj[x].owner \in Processes
            PROVE  x \in Range(resList'[obj[x].owner]) \/ x = o
        <5>1. x \in Range(resList[obj[x].owner])
          BY <3>1, <4>4 DEF OwnedInv
        <5> QED BY <3>3, <4>2, <4>4, <5>1
      <4>5. o \notin Range(resList'[p])
        BY <3>3, <4>2
      <4> QED BY <3>1, <3>6, <4>1, <4>3, <4>4, <4>5 DEF OwnedInv
    <3> QED BY <2>1, <3>5, <3>6 DEF FreeResourceByPtr
  <2>2. ASSUME exit.pc = "wait", exit'.pc # "wait", resList' = resList,
               obj'[exit.item].owner \notin Processes,
               \A x \in Objects : x # exit.item => obj'[x] = obj[x]
        PROVE  OwnedInv'
    <3>1. /\ exit.item \in Objects /\ exit.proc \in Processes
          /\ exit.item \notin Range(resList[exit.proc])
          /\ obj[exit.item].owner = exit.proc
      BY <2>2 DEF TypeOK, OwnedInv
    <3>2. \A p \in Processes : exit.item \notin Range(resList[p])
      BY <1>2, <3>1
    <3>3. \A x \in Objects : obj'[x].owner \in Processes => x \in Range(resList[obj'[x].owner])
      BY <2>2 DEF OwnedInv
    <3> QED BY <1>2, <2>2, <3>2, <3>3 DEF OwnedInv
  <2>3. CASE OpFlushedComplete
    <3>1. exit.item \in Objects
      BY <2>3 DEF TypeOK, OpFlushedComplete
    <3>2. /\ obj'[exit.item].owner = "none" /\ exit'.pc = "free"
          /\ \A x \in Objects : x # exit.item => obj'[x] = obj[x]
      BY <1>1, <2>3, <3>1, EmptyTypes DEF OpFlushedComplete, TypeOK
    <3> QED BY <2>2, <2>3, <3>2, NoNames DEF OpFlushedComplete
  <2>4. CASE FlushTimeout
    <3>1. exit.item \in Objects /\ obj[exit.item] \in Object
      BY <1>1, <2>4 DEF TypeOK, FlushTimeout
    <3>2. /\ obj'[exit.item].owner = "lost" /\ exit'.pc = "end"
          /\ \A x \in Objects : x # exit.item => obj'[x] = obj[x]
      BY <1>1, <2>4, <3>1 DEF FlushTimeout, TypeOK, Object
    <3> QED BY <2>2, <2>4, <3>2, NoNames DEF FlushTimeout
  <2>5. CASE AllFreed
    <3>1. exit.pc # "wait" /\ exit'.pc # "wait" /\ resList' = resList /\ obj' = obj
      BY <2>5 DEF AllFreed, TypeOK
    <3> QED BY <3>1 DEF OwnedInv
  <2>6. CASE PVRSRVResManDisconnect
    <3> DEFINE p == exit.proc
    <3>1. p \in Processes /\ exit.pc # "wait" /\ exit'.pc # "wait"
          /\ resList' = [resList EXCEPT ![p] = <<>>]
      BY <2>6 DEF PVRSRVResManDisconnect, TypeOK, NoExit
    <3>2. ASSUME NEW x \in Objects
          PROVE  obj'[x].owner = IF obj[x].owner = p THEN "lost" ELSE obj[x].owner
      <4>1. (\E i \in DOMAIN resList[p] : resList[p][i] = x) <=> x \in Range(resList[p])
        BY DEF Range
      <4>2. x \in Range(resList[p]) <=> obj[x].owner = p
        BY <1>2, <3>1 DEF OwnedInv
      <4>3. obj'[x] = IF x \in Range(resList[p]) THEN [obj[x] EXCEPT !.owner = "lost"] ELSE obj[x]
        BY <2>6, <4>1 DEF PVRSRVResManDisconnect
      <4>4. obj[x] \in Object
        BY <1>1
      <4> QED BY <4>2, <4>3, <4>4 DEF Object
    <3> HIDE DEF p
    <3>3. \A x \in Objects : obj'[x].owner # p
      BY <3>1, <3>2, NoNames
    <3>4. \A x \in Objects : obj'[x].owner \in Processes \ {p} \/ obj[x].owner \in Processes \ {p}
                                 => obj'[x].owner = obj[x].owner
      BY <3>2, NoNames
    <3> QED BY <3>1, <3>3, <3>4, EmptyListFacts, OwnedChanged DEF ListBecomes
  <2> QED BY <1>5, <2>1, <2>3, <2>4, <2>5, <2>6 DEF Disconnect
<1>6. ASSUME NEW s \in Syncs, DeviceComplete(s) PROVE OwnedInv'
  BY <1>6, OwnedKept DEF DeviceComplete
<1>7. CASE UNCHANGED vars
  BY <1>7, OwnedKept DEF vars
<1> QED BY <1>3, <1>4, <1>5, <1>6, <1>7 DEF Next

-----------------------------------------------------------------------------
(* The order of the lists                                                   *)

(* What others issue and what completes does not change who is later.       *)
LEMMA LaterKept ==
  ASSUME TypeOK, NEW a, NEW b, Later(a, b), NEW by \in Objects \cup {"device"}, by # a, by # b,
         \/ UNCHANGED ops
         \/ \E s \in Syncs, f \in Flags : IssueOne(s, by, f)
         \/ \E s \in Syncs : FinishFirst(s)
  PROVE  Later(a, b)'
<1>1. ops \in [Syncs -> Seq(Operation)]
  BY DEF TypeOK
<1>2. CASE UNCHANGED ops
  BY <1>2 DEF Later
<1>3. ASSUME NEW s \in Syncs, NEW f \in Flags, IssueOne(s, by, f) PROVE Later(a, b)'
  <2> DEFINE e == [by |-> by, flags |-> f, n |-> issued[s],
                   wsnap |-> sync[s].wop, rsnap |-> sync[s].rop]
  <2>1. ops' = [ops EXCEPT ![s] = Append(ops[s], e)] /\ e \in Operation /\ e.by = by
    BY <1>3, SurfaceTypes DEF IssueOne, Issue, Counters, Operation
  <2>2. a # by /\ b # by
    BY <1>3
  <2> HIDE DEF e
  <2>3. SUFFICES ASSUME NEW r \in Syncs, NEW i \in DOMAIN ops'[r], NEW j \in DOMAIN ops'[r],
                        ops'[r][i].by = a, ops'[r][j].by = b
                 PROVE  i > j
    BY DEF Later
  <2>4. CASE r # s
    BY <1>1, <2>1, <2>3, <2>4 DEF Later
  <2>5. CASE r = s
    <3>1. ops'[s] = Append(ops[s], e) /\ ops[s] \in Seq(Operation)
      BY <1>1, <2>1
    <3>2. /\ Len(ops[s]) \in Nat /\ DOMAIN ops[s] = 1 .. Len(ops[s])
          /\ DOMAIN ops'[s] = 1 .. Len(ops[s]) + 1
          /\ \A k \in 1 .. Len(ops[s]) : ops'[s][k] = ops[s][k]
          /\ ops'[s][Len(ops[s]) + 1] = e
      BY <2>1, <3>1, AppendFacts
    <3>3. i \in 1 .. Len(ops[s]) /\ j \in 1 .. Len(ops[s])
      BY <2>1, <2>2, <2>3, <2>5, <3>2
    <3> QED BY <2>3, <2>5, <3>2, <3>3 DEF Later
  <2> QED BY <2>4, <2>5
<1>4. ASSUME NEW s \in Syncs, FinishFirst(s) PROVE Later(a, b)'
  <2>1. SUFFICES ASSUME NEW r \in Syncs, NEW i \in DOMAIN ops'[r], NEW j \in DOMAIN ops'[r],
                        ops'[r][i].by = a, ops'[r][j].by = b
                 PROVE  i > j
    BY DEF Later
  <2>2. CASE r # s
    BY <1>1, <1>4, <2>1, <2>2 DEF FinishFirst, Later
  <2>3. CASE r = s
    <3>1. ops'[s] = Tail(ops[s]) /\ ops[s] \in Seq(Operation) /\ ops[s] # <<>>
      BY <1>1, <1>4 DEF FinishFirst
    <3>2. /\ Len(ops[s]) \in Nat /\ DOMAIN ops[s] = 1 .. Len(ops[s])
          /\ DOMAIN ops'[s] = 1 .. Len(ops[s]) - 1
          /\ \A k \in 1 .. Len(ops[s]) - 1 : ops'[s][k] = ops[s][k + 1]
      BY <3>1, TailFacts
    <3>3. i \in 1 .. Len(ops[s]) - 1 /\ j \in 1 .. Len(ops[s]) - 1
      BY <2>1, <2>3, <3>2
    <3>4. i + 1 \in DOMAIN ops[s] /\ j + 1 \in DOMAIN ops[s] /\ i \in Nat /\ j \in Nat
      BY <3>2, <3>3
    <3>5. ops[s][i + 1].by = a /\ ops[s][j + 1].by = b
      BY <2>1, <2>3, <3>2, <3>3
    <3>6. i + 1 > j + 1
      BY <3>4, <3>5 DEF Later
    <3> QED BY <3>4, <3>6
  <2> QED BY <2>2, <2>3
<1> QED BY <1>2, <1>3, <1>4

(* Nothing is issued in a step that does not count it.                      *)
LEMMA NothingIssued ==
  ASSUME TypeOK, SurfaceStep, issued' = issued
  PROVE  UNCHANGED ops \/ \E s \in Syncs : FinishFirst(s)
<1>1. ASSUME NEW s \in Syncs, NEW by, NEW f, IssueOne(s, by, f) PROVE FALSE
  BY <1>1, SurfaceTypes DEF IssueOne, Issue, TypeOK
<1> QED BY <1>1 DEF SurfaceStep, TakeToken

(* In such a step who is later does not change.                             *)
LEMMA QuietStep ==
  ASSUME TypeOK, SurfaceStep, issued' = issued
  PROVE  \A a, b \in Objects : Later(a, b) => Later(a, b)'
<1>1. UNCHANGED ops \/ \E s \in Syncs : FinishFirst(s)
  BY NothingIssued
<1>2. \A o \in Objects : o # "device"
  BY NoNames
<1> QED BY <1>1, <1>2, LaterKept


(* What an object announces first comes after all there is.                 *)
LEMMA LaterIssued ==
  ASSUME TypeOK, HeldInv, NEW s \in Syncs, NEW o \in Objects, NEW f \in Flags, Issue(s, o, f),
         obj[o].sync = "none", NEW b \in Objects, b # o
  PROVE  Later(o, b)'
<1> DEFINE e == [by |-> o, flags |-> f, n |-> issued[s],
                 wsnap |-> sync[s].wop, rsnap |-> sync[s].rop]
<1>1. /\ ops' = [ops EXCEPT ![s] = Append(ops[s], e)] /\ e \in Operation /\ e.by = o
      /\ ops[s] \in Seq(Operation) /\ ops \in [Syncs -> Seq(Operation)]
  BY SurfaceTypes DEF Issue, Counters, Operation, TypeOK
<1> HIDE DEF e
<1>2. \A r \in Syncs : \A i \in DOMAIN ops[r] : ops[r][i].by # o
  BY NoNames DEF HeldInv
<1>3. /\ ops'[s] = Append(ops[s], e) /\ \A r \in Syncs : r # s => ops'[r] = ops[r]
      /\ Len(ops[s]) \in Nat /\ DOMAIN ops[s] = 1 .. Len(ops[s])
      /\ DOMAIN ops'[s] = 1 .. Len(ops[s]) + 1
      /\ \A k \in 1 .. Len(ops[s]) : ops'[s][k] = ops[s][k]
      /\ ops'[s][Len(ops[s]) + 1] = e
  BY <1>1, AppendFacts
<1>4. SUFFICES ASSUME NEW r \in Syncs, NEW i \in DOMAIN ops'[r], NEW j \in DOMAIN ops'[r],
                      ops'[r][i].by = o, ops'[r][j].by = b
               PROVE  i > j
  BY DEF Later
<1>5. r = s
  BY <1>2, <1>3, <1>4
<1>6. i = Len(ops[s]) + 1 /\ j # Len(ops[s]) + 1
  BY <1>1, <1>2, <1>3, <1>4, <1>5
<1> QED BY <1>3, <1>4, <1>5, <1>6

(* The order after a step, of named objects.                                *)
LEMMA OrderNow ==
  ASSUME \A p \in Processes : \A a, b \in Objects : Before(resList'[p], a, b) =>
             IF exit'.pc # "none" /\ exit'.proc = p THEN Later(b, a)' ELSE Later(a, b)',
         exit'.pc = "wait" => \A b \in Range(resList'[exit'.proc]) : \A x :
             x = exit'.item => Later(b, x)'
  PROVE  OrderInv'
<1>1. exit'.pc = "wait" => \A b \in Range(resList'[exit'.proc]) : Later(b, exit.item)'
  BY DEF Later
<1> QED BY <1>1 DEF OrderInv, Before

(* Lists that lose elements at most keep their order.                       *)
LEMMA OrderKept ==
  ASSUME TypeOK, OrderInv,
         \A a, b \in Objects : Later(a, b) => Later(a, b)',
         \A p \in Processes : \A a, b \in Objects : Before(resList'[p], a, b) => Before(resList[p], a, b),
         exit'.pc # "none" <=> exit.pc # "none",
         exit.pc # "none" => exit'.proc = exit.proc,
         exit'.pc = "wait" => exit' = exit /\ resList' = resList
  PROVE  OrderInv'
<1>1. ASSUME NEW p \in Processes, NEW a \in Objects, NEW b \in Objects, Before(resList'[p], a, b)
      PROVE  IF exit'.pc # "none" /\ exit'.proc = p THEN Later(b, a)' ELSE Later(a, b)'
  <2>1. Before(resList[p], a, b)
    BY <1>1
  <2>2. IF exit'.pc # "none" /\ exit'.proc = p THEN Later(b, a) ELSE Later(a, b)
    BY <2>1 DEF OrderInv
  <2> QED BY <2>2
<1>2. ASSUME exit'.pc = "wait", NEW b \in Range(resList'[exit'.proc]), NEW x, x = exit'.item
      PROVE  Later(b, x)'
  <2>1. exit.pc = "wait" /\ exit' = exit /\ b \in Range(resList[exit.proc]) /\ x = exit.item
    BY <1>2
  <2>2. x \in Objects /\ b \in Objects
    BY <2>1, InList DEF TypeOK
  <2>3. Later(b, x)
    BY <2>1 DEF OrderInv
  <2> QED BY <2>2, <2>3
<1> QED BY <1>1, <1>2, OrderNow

(* The object that the end of a process waits for announced before those    *)
(* that are still listed.                                                   *)
LEMMA OrderFreed ==
  ASSUME TypeOK, OwnedInv, OrderInv, FreeResourceByPtr,
         \A a, b \in Objects : Later(a, b) => Later(a, b)'
  PROVE  OrderInv'
<1> DEFINE p == exit.proc
           o == Head(resList[p])
<1>1. /\ p \in Processes /\ resList[p] \in Seq(Objects) /\ Distinct(resList[p]) /\ o \in Objects
      /\ exit.pc = "free" /\ resList[p] # <<>>
  BY HeadListed DEF FreeResourceByPtr
<1>2. /\ \A a, b : Before(Tail(resList[p]), a, b) => Before(resList[p], a, b)
      /\ \A b \in Range(Tail(resList[p])) : Before(resList[p], o, b) /\ b \in Objects
  BY <1>1, BeheadFacts, InList
<1>3. resList' = [resList EXCEPT ![p] = Tail(resList[p])] /\ resList \in [Processes -> Seq(Objects)]
  BY DEF FreeResourceByPtr, TypeOK
<1>4. /\ exit'.proc = p /\ exit'.pc # "none"
      /\ exit'.pc = "wait" => exit'.item = o
  BY <1>1 DEF FreeResourceByPtr, TypeOK
<1> HIDE DEF o, p
<1>5. ASSUME NEW q \in Processes, NEW a \in Objects, NEW b \in Objects, Before(resList'[q], a, b)
      PROVE  IF exit'.pc # "none" /\ exit'.proc = q THEN Later(b, a)' ELSE Later(a, b)'
  <2>1. Before(resList[q], a, b)
    BY <1>1, <1>2, <1>3, <1>5
  <2>2. IF exit.pc # "none" /\ exit.proc = q THEN Later(b, a) ELSE Later(a, b)
    BY <2>1 DEF OrderInv
  <2> QED BY <1>1, <1>4, <2>2 DEF p
<1>6. ASSUME exit'.pc = "wait", NEW b \in Range(resList'[exit'.proc]), NEW x, x = exit'.item
      PROVE  Later(b, x)'
  <2>1. b \in Range(Tail(resList[p])) /\ x = o
    BY <1>1, <1>3, <1>4, <1>6
  <2>2. Before(resList[p], o, b) /\ b \in Objects
    BY <1>2, <2>1
  <2>3. Later(b, o)
    BY <1>1, <2>2 DEF OrderInv, p
  <2> QED BY <1>1, <2>1, <2>2, <2>3
<1> QED BY <1>5, <1>6, OrderNow

(* An object that moves to the head announces last.                         *)
LEMMA OrderIssued ==
  ASSUME TypeOK, HeldInv, OwnedInv, OrderInv,
         NEW p \in Processes, NEW o \in Objects, NEW s \in Syncs, NEW f \in Flags,
         ModifyPendingSyncOps(p, o, s, f)
  PROVE  OrderInv'
<1>1. /\ exit.pc = "none" /\ exit' = exit /\ IssueOne(s, o, f) /\ Issue(s, o, f)
      /\ obj[o].sync = "none" /\ obj[o].owner = p
      /\ resList' = [resList EXCEPT ![p] = <<o>> \o Unlinked(@, o)]
  BY EmptyTypes DEF ModifyPendingSyncOps, Bridge, IssueOne
<1>2. /\ resList[p] \in Seq(Objects) /\ Distinct(resList[p]) /\ o \in Range(resList[p])
      /\ resList \in [Processes -> Seq(Objects)]
  BY <1>1, OwnListed DEF TypeOK
<1>3. /\ resList'[p] = <<o>> \o Unlinked(resList[p], o)
      /\ \A q \in Processes : q # p => resList'[q] = resList[q]
  BY <1>1, <1>2
<1>4. ASSUME NEW q \in Processes, NEW a \in Objects, NEW b \in Objects, Before(resList'[q], a, b)
      PROVE  b # o /\ (a = o \/ Before(resList[q], a, b))
  <2>1. CASE q = p
    <3> DEFINE list == <<o>> \o Unlinked(resList[p], o)
    <3>1. \A x, y : Before(list, x, y) => y # o /\ (x = o \/ Before(resList[p], x, y))
      BY <1>2, MoveToHeadFacts
    <3>2. Before(list, a, b)
      BY <1>3, <1>4, <2>1
    <3> HIDE DEF list
    <3> QED BY Zenon, <2>1, <3>1, <3>2
  <2>2. CASE q # p
    <3>1. Before(resList[q], a, b) /\ resList[q] \in Seq(Objects)
      BY <1>2, <1>3, <1>4, <2>2
    <3>2. b \in Range(resList[q])
      BY <3>1 DEF Before, Range
    <3> QED BY <1>1, <2>2, <3>1, <3>2 DEF OwnedInv
  <2> QED BY <2>1, <2>2
<1>5. ASSUME NEW q \in Processes, NEW a \in Objects, NEW b \in Objects, Before(resList'[q], a, b)
      PROVE  Later(a, b)'
  <2>1. b # o /\ (a = o \/ Before(resList[q], a, b))
    BY <1>4, <1>5
  <2>2. CASE a = o
    BY <1>1, <2>1, <2>2, LaterIssued
  <2>3. CASE a # o
    <3>1. Later(a, b)
      BY <1>1, <2>1, <2>3 DEF OrderInv
    <3> QED BY <1>1, <2>1, <2>3, <3>1, LaterKept
  <2> QED BY <2>2, <2>3
<1> QED BY <1>1, <1>5, OrderNow

(* An object without an operation comes before and after anything.          *)
LEMMA EmptyIsLater ==
  ASSUME HeldInv, NEW o \in Objects, obj[o].sync = "none", NEW b
  PROVE  Later(o, b) /\ Later(b, o)
BY NoNames DEF HeldInv, Later

(* The lists stay in order.                                                 *)
LEMMA OrderStep ==
  ASSUME TypeOK, CountsInv, HeldInv, OwnedInv, OrderInv, [Next]_vars
  PROVE  OrderInv'
<1>1. SurfaceStep
  BY NextIsSurfaceStep
<1>2. issued' = issued => \A a, b \in Objects : Later(a, b) => Later(a, b)'
  BY <1>1, QuietStep
<1>3. ASSUME NEW p \in Processes, Client(p) PROVE OrderInv'
  <2>1. exit' = exit /\ exit.pc = "none"
    BY <1>3 DEF Client, Bridge, PVRSRVProcessConnect, CreateSyncInfoModObj, DestroySyncInfoModObj,
                ModifyCompleteSyncOps, ModifyPendingSyncOps, SyncOpsTakeToken, SGXDoKick
  <2>2. ASSUME issued' = issued, resList' = resList PROVE OrderInv'
    BY <1>2, <2>1, <2>2, OrderKept
  <2>3. CASE PVRSRVProcessConnect(p)
    BY <2>2, <2>3 DEF PVRSRVProcessConnect
  <2>4. ASSUME NEW o \in Objects, CreateSyncInfoModObj(p, o) PROVE OrderInv'
    <3>1. /\ obj[o].sync = "none" /\ obj[o].owner = "none" /\ issued' = issued
          /\ resList' = [resList EXCEPT ![p] = <<o>> \o resList[p]]
          /\ resList \in [Processes -> Seq(Objects)]
      BY <2>4, EmptyTypes DEF CreateSyncInfoModObj, TypeOK
    <3>2. Distinct(resList[p]) /\ o \notin Range(resList[p])
      BY <3>1, NoNames DEF OwnedInv
    <3>3. \A a, b : Before(<<o>> \o resList[p], a, b) => a = o \/ Before(resList[p], a, b)
      BY <3>1, <3>2, LinkFacts
    <3>4. ASSUME NEW q \in Processes, NEW a \in Objects, NEW b \in Objects, Before(resList'[q], a, b)
          PROVE  Later(a, b)'
      <4>1. a = o \/ Before(resList[q], a, b)
        BY <3>1, <3>3, <3>4
      <4>2. Later(o, b)
        BY <3>1, EmptyIsLater
      <4>3. Later(a, b)
        BY <2>1, <4>1, <4>2 DEF OrderInv
      <4> QED BY <1>2, <3>1, <4>3
    <3> QED BY <2>1, <3>4, OrderNow
  <2>5. ASSUME NEW o \in Objects, DestroySyncInfoModObj(p, o) PROVE OrderInv'
    <3>1. /\ obj[o].owner = p /\ issued' = issued
          /\ resList' = [resList EXCEPT ![p] = Unlinked(@, o)]
          /\ resList \in [Processes -> Seq(Objects)]
      BY <2>5, EmptyTypes DEF DestroySyncInfoModObj, TypeOK
    <3>2. \A a, b : Before(Unlinked(resList[p], o), a, b) => Before(resList[p], a, b)
      BY <2>1, <3>1, OwnListed, UnlinkFacts
    <3>3. \A q \in Processes : \A a, b \in Objects : Before(resList'[q], a, b) => Before(resList[q], a, b)
      BY <3>1, <3>2
    <3> QED BY <1>2, <2>1, <3>1, <3>3, OrderKept
  <2>6. ASSUME NEW o \in Objects, ModifyCompleteSyncOps(p, o) PROVE OrderInv'
    BY <2>2, <2>6 DEF ModifyCompleteSyncOps
  <2>7. ASSUME NEW o \in Objects, NEW s \in Syncs, NEW f \in Flags,
               ModifyPendingSyncOps(p, o, s, f)
        PROVE  OrderInv'
    BY <2>7, OrderIssued
  <2>8. ASSUME NEW s \in Syncs, SyncOpsTakeToken(p, s) PROVE OrderInv'
    BY <2>2, <2>8 DEF SyncOpsTakeToken
  <2>9. ASSUME NEW s \in Syncs, NEW f \in Flags, SGXDoKick(p, s, f) PROVE OrderInv'
    <3>1. IssueOne(s, "device", f) /\ resList' = resList
      BY <2>9 DEF SGXDoKick, IssueOne
    <3>2. \A o \in Objects : o # "device"
      BY NoNames
    <3>3. \A a, b \in Objects : Later(a, b) => Later(a, b)'
      BY <3>1, <3>2, LaterKept
    <3> QED BY <2>1, <3>1, <3>3, OrderKept
  <2> QED BY <1>3, <2>3, <2>4, <2>5, <2>6, <2>7, <2>8, <2>9 DEF Client
<1>4. ASSUME NEW p \in Processes, PVRSRVProcessDisconnect(p) PROVE OrderInv'
  <2>1. /\ exit.pc = "none" /\ exit'.pc = "free" /\ exit'.proc = p /\ issued' = issued
        /\ resList' = [resList EXCEPT ![p] = Reverse(@)]
        /\ resList \in [Processes -> Seq(Objects)]
    BY <1>4 DEF PVRSRVProcessDisconnect, Bridge, TypeOK
  <2>2. \A a, b : Before(Reverse(resList[p]), a, b) => Before(resList[p], b, a)
    BY <2>1, ReverseFacts DEF OwnedInv
  <2>3. ASSUME NEW q \in Processes, NEW a \in Objects, NEW b \in Objects, Before(resList'[q], a, b)
        PROVE  IF q = p THEN Later(b, a)' ELSE Later(a, b)'
    <3>1. IF q = p THEN Before(resList[q], b, a) ELSE Before(resList[q], a, b)
      BY <2>1, <2>2, <2>3
    <3>2. IF q = p THEN Later(b, a) ELSE Later(a, b)
      BY <2>1, <3>1 DEF OrderInv
    <3> QED BY <1>2, <2>1, <3>2
  <2> QED BY <2>1, <2>3, OrderNow
<1>5. CASE Disconnect
  <2>1. CASE FreeResourceByPtr
    BY <1>2, <2>1, OrderFreed DEF FreeResourceByPtr
  <2>2. ASSUME exit'.pc # "wait", exit'.pc # "none", exit.pc # "none", exit'.proc = exit.proc,
               issued' = issued, resList' = resList
        PROVE  OrderInv'
    BY <1>2, <2>2, OrderKept
  <2>3. CASE OpFlushedComplete
    <3>1. exit'.pc = "free" /\ exit'.proc = exit.proc /\ exit.pc = "wait"
      BY <2>3 DEF OpFlushedComplete, TypeOK
    <3> QED BY <2>2, <2>3, <3>1 DEF OpFlushedComplete
  <2>4. CASE FlushTimeout
    <3>1. exit'.pc = "end" /\ exit'.proc = exit.proc /\ exit.pc = "wait"
      BY <2>4 DEF FlushTimeout, TypeOK
    <3> QED BY <2>2, <2>4, <3>1 DEF FlushTimeout
  <2>5. CASE AllFreed
    <3>1. exit'.pc = "end" /\ exit'.proc = exit.proc /\ exit.pc = "free"
      BY <2>5 DEF AllFreed, TypeOK
    <3> QED BY <2>2, <2>5, <3>1 DEF AllFreed
  <2>6. CASE PVRSRVResManDisconnect
    <3>1. /\ exit.pc = "end" /\ exit'.pc = "none" /\ issued' = issued
          /\ resList' = [resList EXCEPT ![exit.proc] = <<>>]
          /\ resList \in [Processes -> Seq(Objects)] /\ exit.proc \in Processes
      BY <2>6 DEF PVRSRVResManDisconnect, NoExit, TypeOK
    <3>2. ASSUME NEW q \in Processes, NEW a \in Objects, NEW b \in Objects, Before(resList'[q], a, b)
          PROVE  Later(a, b)'
      <4>1. q # exit.proc /\ Before(resList[q], a, b)
        BY <3>1, <3>2, EmptyListFacts
      <4>2. Later(a, b)
        BY <3>1, <4>1 DEF OrderInv
      <4> QED BY <1>2, <3>1, <4>2
    <3> QED BY <3>1, <3>2, OrderNow
  <2> QED BY <1>5, <2>1, <2>3, <2>4, <2>5, <2>6 DEF Disconnect
<1>6. ASSUME exit' = exit, resList' = resList, issued' = issued PROVE OrderInv'
  BY <1>2, <1>6, OrderKept
<1>7. ASSUME NEW s \in Syncs, DeviceComplete(s) PROVE OrderInv'
  BY <1>6, <1>7 DEF DeviceComplete
<1>8. CASE UNCHANGED vars
  BY <1>6, <1>8 DEF vars
<1> QED BY <1>3, <1>4, <1>5, <1>7, <1>8 DEF Next

-----------------------------------------------------------------------------
(* The inductive invariant holds always                                     *)

(* It holds initially.                                                      *)
LEMMA InitInv == Init => IInv
<1> SUFFICES ASSUME Init PROVE IInv
  OBVIOUS
<1>1. 0 \in Count
  BY NumbersAssumption DEF Count
<1>2. TypeOK
  <2>1. \A o \in Objects : obj[o] = Free
    BY DEF Init
  <2>2. obj \in [Objects -> Object] /\ resList \in [Processes -> Seq(Objects)]
    BY EmptyTypes, EmptyListFacts DEF Init
  <2>3. /\ sync \in [Syncs -> [wop : Count, rop : Count, woc : Count, roc : Count]]
        /\ token \in [Syncs -> [wsnap : Count, rsnap : Count, n : Nat]]
        /\ ops \in [Syncs -> Seq(Operation)] /\ issued \in [Syncs -> Nat]
    BY <1>1 DEF Init
  <2> QED BY <2>2, <2>3 DEF Init, NoExit, TypeOK
<1>3. CountsInv
  <2> SUFFICES ASSUME NEW s \in Syncs
               PROVE  /\ TicketsRight(ops[s], sync[s], issued[s])
                      /\ TokenRight(ops[s], sync[s], issued[s], token[s])
    BY DEF CountsInv
  <2>1. /\ ops[s] = <<>> /\ issued[s] = 0 /\ sync[s] = [wop |-> 0, rop |-> 0, woc |-> 0, roc |-> 0]
        /\ token[s] = [wsnap |-> 0, rsnap |-> 0, n |-> 0]
        /\ Len(ops[s]) = 0 /\ DOMAIN ops[s] = {}
    BY DEF Init
  <2>2. Diff(0, 0) = 0
    BY <1>1, DiffZero
  <2>3. Ups(ops[s], "WO_INC", 0) = 0 /\ Ups(ops[s], "RO_INC", 0) = 0
    BY UpsNone
  <2>4. TicketsRight(ops[s], sync[s], issued[s])
    BY <2>1, <2>2, <2>3, NumbersAssumption DEF TicketsRight, After
  <2>5. TokenRight(ops[s], sync[s], issued[s], token[s])
    BY <2>1, <2>2, <2>3, NumbersAssumption DEF TokenRight, After
  <2> QED BY <2>4, <2>5
<1>4. HeldInv
  BY EmptyTypes, NoNames DEF Init, HeldInv
<1>5. OwnedInv
  BY EmptyTypes, EmptyListFacts, NoNames DEF Init, OwnedInv, NoExit
<1>6. OrderInv
  BY EmptyListFacts DEF Init, OrderInv, NoExit
<1> QED BY <1>2, <1>3, <1>4, <1>5, <1>6 DEF IInv

(* Every step keeps it.                                                     *)
LEMMA InvStep == IInv /\ [Next]_vars => IInv'
<1> SUFFICES ASSUME IInv, [Next]_vars PROVE IInv'
  OBVIOUS
<1>1. TypeOK /\ CountsInv /\ HeldInv /\ OwnedInv /\ OrderInv
  BY DEF IInv
<1>2. TypeOK' /\ HeldInv' /\ OwnedInv' /\ OrderInv'
  BY <1>1, TypeStep, HeldStep, OwnedStep, OrderStep
<1>3. CountsInv'
  BY <1>1, NextIsSurfaceStep, CountsStep
<1> QED BY <1>2, <1>3 DEF IInv

(* Every reachable state has the types, the tickets, tokens and objects     *)
(* match the operations outstanding, and lists are in order of issue.       *)
THEOREM InvAlways == Spec => []IInv
BY InitInv, InvStep, PTL DEF Spec

(* The state of the surfaces, objects, lists and ends has its type always.  *)
THEOREM TypeCorrect == Spec => []TypeOK
<1>1. IInv => TypeOK
  BY DEF IInv
<1> QED BY <1>1, InvAlways, PTL

-----------------------------------------------------------------------------
(* What it implies                                                          *)

(* The operations of an object.                                             *)
LEMMA HeldCount == TypeOK /\ HeldInv => AnnouncedIsHeld
<1> SUFFICES ASSUME TypeOK, HeldInv, NEW o \in Objects, NEW s \in Syncs
             PROVE  Cardinality({i \in DOMAIN ops[s] : ops[s][i].by = o})
                        = IF obj[o].owner # "none" /\ obj[o].sync = s THEN 1 ELSE 0
  BY DEF AnnouncedIsHeld
<1> DEFINE mine == {i \in DOMAIN ops[s] : ops[s][i].by = o}
<1>1. CASE obj[o].owner # "none" /\ obj[o].sync = s
  <2>1. PICK i \in DOMAIN ops[s] : ops[s][i].by = o
    BY <1>1 DEF HeldInv, Describes
  <2>2. mine = {i}
    BY <2>1 DEF HeldInv
  <2> QED BY <1>1, <2>2, FS_Singleton
<1>2. CASE ~ (obj[o].owner # "none" /\ obj[o].sync = s)
  <2>1. obj[o].sync # s
    BY <1>2, NoNames DEF HeldInv
  <2>2. mine = {}
    BY <2>1 DEF HeldInv
  <2> QED BY <1>2, <2>2, FS_EmptySet
<1> QED BY <1>1, <1>2

(* What a token's query tells.                                              *)
LEMMA TokenTold ==
  ASSUME NEW q \in Seq(Operation), NEW c \in Counters, NEW n \in Nat, NEW t \in Token,
         TicketsRight(q, c, n), TokenRight(q, c, n, t)
  PROVE  LET older == {i \in DOMAIN q : q[i].n < t.n}
             told == /\ Diff(c.wop, t.wsnap) >= Diff(c.wop, c.woc)
                     /\ Diff(c.rop, t.rsnap) >= Diff(c.rop, c.roc)
         IN  /\ told => older = {}
             /\ older = {} /\ n - t.n < Modulus => told
<1> DEFINE L == Len(q)
           U(f, i) == Ups(q, f, i)
<1>1. L \in Nat /\ DOMAIN q = 1 .. L /\ t.n \in Nat /\ t.n <= n
  BY QueueFacts DEF Token, TokenRight
<1>2. /\ c.wop \in Count /\ c.woc \in Count /\ c.rop \in Count /\ c.roc \in Count
      /\ t.wsnap \in Count /\ t.rsnap \in Count
  BY DEF Counters, Token
<1>3. Diff(c.wop, c.woc) = U("WO_INC", L) /\ Diff(c.rop, c.roc) = U("RO_INC", L)
  BY DEF TicketsRight, After
<1>4. \A i \in 1 .. L : q[i].n \in Nat /\ q[i].n + L + 1 = n + i
  BY <1>1, QueueFacts DEF TicketsRight
<1>5. \A i \in 0 .. L : /\ U("WO_INC", i) \in Nat /\ U("RO_INC", i) \in Nat
                        /\ i <= U("WO_INC", i) + U("RO_INC", i)
  BY <1>1, KindFinite, UpsCover
<1>6. ASSUME NEW i \in 1 .. L, q[i].n < t.n,
             Diff(c.wop, t.wsnap) >= Diff(c.wop, c.woc), Diff(c.rop, t.rsnap) >= Diff(c.rop, c.roc)
      PROVE  FALSE
  <2> DEFINE k == (t.n + L) - n
  <2> HIDE DEF L
  <2>1. k \in 0 .. L /\ k # 0 /\ k + n = t.n + L
    <3>1. q[i].n \in Nat /\ q[i].n + L + 1 = n + i
      BY <1>4
    <3>2. t.n \in Nat /\ t.n <= n /\ n \in Nat /\ L \in Nat /\ i \in 1 .. L /\ q[i].n < t.n
      BY <1>1, <1>6
    <3>3. n + i < t.n + L + 1
      BY <3>1, <3>2
    <3>4. (t.n + L) - n \in 1 .. L
      BY <3>2, <3>3
    <3> QED BY <3>2, <3>4
  <2>2. After(q, c, k, t.wsnap, t.rsnap)
    BY <2>1 DEF TokenRight, L
  <2> HIDE DEF k
  <2>3. /\ Diff(c.wop, t.wsnap) = U("WO_INC", L) - U("WO_INC", k)
        /\ Diff(c.rop, t.rsnap) = U("RO_INC", L) - U("RO_INC", k)
    BY <1>2, <2>1, <2>2, TicketToPending DEF L
  <2>4. /\ U("WO_INC", k) \in Nat /\ U("RO_INC", k) \in Nat
        /\ k <= U("WO_INC", k) + U("RO_INC", k)
        /\ U("WO_INC", L) \in Nat /\ U("RO_INC", L) \in Nat
    BY <1>1, <1>5, <2>1
  <2>5. /\ Diff(c.wop, t.wsnap) >= U("WO_INC", L) /\ Diff(c.rop, t.rsnap) >= U("RO_INC", L)
        /\ k \in Nat /\ k # 0
    BY <1>1, <1>3, <1>6, <2>1
  <2> HIDE DEF U
  <2> QED BY <2>3, <2>4, <2>5
<1>7. ASSUME \A i \in 1 .. L : ~ q[i].n < t.n, n - t.n < Modulus
      PROVE  /\ Diff(c.wop, t.wsnap) >= Diff(c.wop, c.woc)
             /\ Diff(c.rop, t.rsnap) >= Diff(c.rop, c.roc)
  <2> HIDE DEF L
  <2>1. t.n + L <= n
    <3>1. CASE L = 0
      BY <1>1, <3>1
    <3>2. CASE L # 0
      <4>1. q[1].n \in Nat /\ q[1].n + L + 1 = n + 1 /\ ~ q[1].n < t.n
        BY <1>1, <1>4, <1>7, <3>2
      <4> QED BY <1>1, <4>1
    <3> QED BY <3>1, <3>2
  <2>2. n < t.n + Modulus
    BY <1>1, <1>7, NumbersAssumption
  <2>3. /\ Diff(c.wop, t.wsnap) = Diff(c.woc, t.wsnap) + U("WO_INC", L)
        /\ Diff(c.rop, t.rsnap) = Diff(c.roc, t.rsnap) + U("RO_INC", L)
    BY <2>1, <2>2 DEF TokenRight, L
  <2>4. Diff(c.woc, t.wsnap) \in Nat /\ Diff(c.roc, t.rsnap) \in Nat
    BY <1>2, DiffRange
  <2>5. U("WO_INC", L) \in Nat /\ U("RO_INC", L) \in Nat
    BY <1>1, <1>5
  <2> HIDE DEF U
  <2> QED BY <1>3, <2>3, <2>4, <2>5
<1> QED BY <1>1, <1>6, <1>7

(* What the queries tell.                                                   *)
LEMMA QueriesTold == TypeOK /\ CountsInv => QueriesHonest
<1> SUFFICES ASSUME TypeOK, CountsInv PROVE QueriesHonest
  OBVIOUS
<1>1. TokenHonest
  <2> SUFFICES ASSUME NEW s \in Syncs
               PROVE  LET older == {i \in DOMAIN ops[s] : ops[s][i].n < token[s].n}
                          told  == DoQuerySyncOpsSatisfied(s, token[s].rsnap, token[s].wsnap)
                      IN  /\ told => older = {}
                          /\ older = {} /\ issued[s] - token[s].n < Modulus => told
    BY DEF TokenHonest
  <2>1. /\ TicketsRight(ops[s], sync[s], issued[s])
        /\ TokenRight(ops[s], sync[s], issued[s], token[s])
    BY DEF CountsInv
  <2> QED BY <2>1, SurfaceTypes, TokenTold DEF DoQuerySyncOpsSatisfied
<1>2. DeltaHonest
  <2> SUFFICES ASSUME NEW s \in Syncs, NEW delta \in Count
               PROVE  LET outstanding(f) == {i \in DOMAIN ops[s] : f \in ops[s][i].flags}
                      IN  FlushedToDelta(s, delta) <=>
                              /\ Cardinality(outstanding("WO_INC")) <= delta
                              /\ Cardinality(outstanding("RO_INC")) <= delta
    BY DEF DeltaHonest
  <2>1. /\ Diff(sync[s].wop, sync[s].woc) = Ups(ops[s], "WO_INC", Len(ops[s]))
        /\ Diff(sync[s].rop, sync[s].roc) = Ups(ops[s], "RO_INC", Len(ops[s]))
    BY DEF CountsInv, TicketsRight, After
  <2>2. DOMAIN ops[s] = 1 .. Len(ops[s])
    BY SurfaceTypes, QueueFacts
  <2> QED BY <2>1, <2>2 DEF FlushedToDelta, Ups
<1> QED BY <1>1, <1>2 DEF QueriesHonest

(* An operation that a process announced is described by exactly one object *)
(* that is not free: whatever ends in between, it can still be completed.   *)
THEOREM AnnouncedHeld == Spec => []AnnouncedIsHeld
<1>1. IInv => AnnouncedIsHeld
  BY HeldCount DEF IInv
<1> QED BY <1>1, InvAlways, PTL

(* What the queries about tokens and about outstanding operations tell is   *)
(* true, with counters of every width and however often they wrapped.       *)
THEOREM QueriesTrue == Spec => []QueriesHonest
<1>1. IInv => QueriesHonest
  BY QueriesTold DEF IInv
<1> QED BY <1>1, InvAlways, PTL

(* The end of a process waits for no operation of an object that the same   *)
(* process has still to free: its lists are in order of issue.              *)
THEOREM WaitsForOthers == Spec => []ExitWaitsForOthers
<1>1. ASSUME TypeOK, OrderInv PROVE ExitWaitsForOthers
  <2> DEFINE s == obj[exit.item].sync
  <2> SUFFICES ASSUME exit.pc = "wait", NEW i \in DOMAIN ops[s], NEW j \in DOMAIN ops[s],
                      ops[s][j].by = exit.item, i < j,
                      NEW k \in DOMAIN resList[exit.proc], resList[exit.proc][k] = ops[s][i].by
               PROVE  FALSE
    BY DEF ExitWaitsForOthers
  <2>1. s \in Syncs /\ ops[s] \in Seq(Operation)
    BY <1>1 DEF TypeOK
  <2>2. i \in Nat /\ j \in Nat
    <3>1. DOMAIN ops[s] = 1 .. Len(ops[s]) /\ Len(ops[s]) \in Nat
      BY <2>1, QueueFacts
    <3> HIDE DEF s
    <3> QED BY <3>1
  <2>3. ops[s][i].by \in Range(resList[exit.proc])
    BY DEF Range
  <2>4. Later(ops[s][i].by, exit.item)
    BY <1>1, <2>3 DEF OrderInv
  <2>5. i > j
    BY <2>1, <2>4 DEF Later
  <2> QED BY <2>2, <2>5
<1>2. IInv => ExitWaitsForOthers
  BY <1>1 DEF IInv
<1> QED BY <1>2, InvAlways, PTL

(* Taking off what was appended.                                            *)
LEMMA FrontOfAppend ==
  ASSUME NEW q \in Seq(Operation), NEW e \in Operation
  PROVE  Append(q, e) # <<>> /\ Front(Append(q, e)) = q
<1> DEFINE a == Append(q, e)
           L == Len(q)
<1>1. /\ a \in Seq(Operation) /\ Len(a) = L + 1 /\ L \in Nat /\ DOMAIN q = 1 .. L
      /\ \A k \in 1 .. L : a[k] = q[k]
  BY AppendFacts
<1> HIDE DEF a
<1>2. SubSeq(a, 1, L) \in Seq(Operation) /\ Len(SubSeq(a, 1, L)) = L
      /\ \A k \in 1 .. L : SubSeq(a, 1, L)[k] = a[k]
  BY <1>1, SubSeqProperties
<1>3. SubSeq(a, 1, L) = q
  BY <1>1, <1>2, SeqEqual
<1>4. Len(a) - 1 = L /\ a # <<>>
  BY <1>1
<1> QED BY <1>3, <1>4 DEF Front, a

(* Operations on a surface complete in the order they were issued in,       *)
(* whoever completes them.                                                  *)
THEOREM CompletesOrdered == Spec => CompletesInOrder
<1>1. ASSUME TypeOK, SurfaceStep, NEW s \in Syncs
      PROVE  \/ ops'[s] = ops[s]
             \/ ops[s] # <<>> /\ ops'[s] = Tail(ops[s])
             \/ ops'[s] # <<>> /\ Front(ops'[s]) = ops[s]
  <2>1. ops \in [Syncs -> Seq(Operation)]
    BY <1>1 DEF TypeOK
  <2>2. ASSUME NEW r \in Syncs, NEW by \in Objects \cup {"device"}, NEW f \in Flags,
               IssueOne(r, by, f)
        PROVE  ops'[s] = ops[s] \/ (ops'[s] # <<>> /\ Front(ops'[s]) = ops[s])
    <3> DEFINE e == [by |-> by, flags |-> f, n |-> issued[r],
                     wsnap |-> sync[r].wop, rsnap |-> sync[r].rop]
    <3>1. ops' = [ops EXCEPT ![r] = Append(ops[r], e)] /\ e \in Operation
      BY <1>1, <2>2, SurfaceTypes DEF IssueOne, Issue, Counters, Operation
    <3> HIDE DEF e
    <3>2. CASE r = s
      BY <2>1, <3>1, <3>2, FrontOfAppend
    <3>3. CASE r # s
      BY <2>1, <3>1, <3>3
    <3> QED BY <3>2, <3>3
  <2>3. ASSUME NEW r \in Syncs, FinishFirst(r)
        PROVE  ops'[s] = ops[s] \/ (ops[s] # <<>> /\ ops'[s] = Tail(ops[s]))
    BY <2>1, <2>3 DEF FinishFirst
  <2> QED BY <1>1, <2>2, <2>3 DEF SurfaceStep, TakeToken
<1>2. IInv /\ [Next]_vars => \A s \in Syncs : \/ ops'[s] = ops[s]
                                              \/ ops[s] # <<>> /\ ops'[s] = Tail(ops[s])
                                              \/ ops'[s] # <<>> /\ Front(ops'[s]) = ops[s]
  <2> SUFFICES ASSUME IInv, [Next]_vars, NEW s \in Syncs
               PROVE  \/ ops'[s] = ops[s]
                      \/ ops[s] # <<>> /\ ops'[s] = Tail(ops[s])
                      \/ ops'[s] # <<>> /\ Front(ops'[s]) = ops[s]
    OBVIOUS
  <2>1. TypeOK /\ SurfaceStep
    BY NextIsSurfaceStep DEF IInv
  <2> QED BY <1>1, <2>1
<1>3. IInv /\ [Next]_vars
        => [\A s \in Syncs : \/ ops'[s] = ops[s]
                             \/ ops[s] # <<>> /\ ops'[s] = Tail(ops[s])
                             \/ ops'[s] # <<>> /\ Front(ops'[s]) = ops[s]]_vars
  BY <1>2
<1> QED BY <1>3, InvAlways, PTL DEF Spec, CompletesInOrder

=============================================================================
