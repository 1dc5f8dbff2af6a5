---------------------------- MODULE PartsProofs ----------------------------
(***************************************************************************)
(* Proofs about components that the aggregate runs check: the shared       *)
(* parameter buffer (SharedPB), the list of command queues (QueueList),    *)
(* the cleanup requests to the microkernel (Kicks), the resource manager   *)
(* (ResMan), the example device (BufferClass), the swap chains (SwapChain) *)
(* and the display driver (DisplayDriver).  All but the first are          *)
(* instantiated, as the runs do.                                           *)
(***************************************************************************)
EXTENDS SharedPB, Integers, SequencesExt, FiniteSetTheorems, SequenceTheorems, TLAPS

-----------------------------------------------------------------------------
(* SharedPB: the counts, the memory and the right to create a buffer.       *)

Buffer == [refCount : Nat, mem : Nat]

PBTypes ==
    /\ stub \in [Devices -> Buffer \cup {NONE}]
    /\ items \in [Processes -> [Devices -> Nat]]
    /\ creator \in Processes \cup {NONE}
    /\ memory \in [DOMAIN memory -> Processes \cup Devices] /\ DOMAIN memory \subseteq 1..MaxMems

PBInv ==
    /\ PBTypes
    /\ \A d \in Devices : IsFiniteSet(References(d))
    /\ BuffersSound

(* What a process refers to.                                                *)
Claim(p, n) == {p} \X (1..n)

(* A process that refers to a buffer n times has n references.              *)
LEMMA ClaimCounts ==
  ASSUME NEW p, NEW n \in Nat
  PROVE  IsFiniteSet(Claim(p, n)) /\ Cardinality(Claim(p, n)) = n
<1>1. IsFiniteSet({p}) /\ Cardinality({p}) = 1
  BY FS_Singleton
<1>2. IsFiniteSet(1..n) /\ Cardinality(1..n) = n
  BY FS_Interval
<1>3. IsFiniteSet({p} \X (1..n))
        /\ Cardinality({p} \X (1..n)) = Cardinality({p}) * Cardinality(1..n)
  BY <1>1, <1>2, FS_Product, Zenon
<1> QED
  BY <1>1, <1>2, <1>3 DEF Claim

(* What a reference is, and what the references of one process are.         *)
LEMMA ReferenceMeans ==
  ASSUME NEW d, NEW x
  PROVE  x \in References(d) <=> \E p \in Processes : \E n \in 1..items[p][d] : x = <<p, n>>
BY DEF References

(* The same after a step.                                                   *)
LEMMA ReferenceMeansNext ==
  ASSUME NEW d, NEW x
  PROVE  x \in References(d)' <=> \E p \in Processes : \E n \in 1..items'[p][d] : x = <<p, n>>
BY DEF References

(* Of one process, each reference has its number.                           *)
LEMMA ClaimMeans ==
  ASSUME NEW p, NEW m, NEW x
  PROVE  x \in Claim(p, m) <=> \E n \in 1..m : x = <<p, n>>
BY DEF Claim

(* The references of a process are references.                              *)
LEMMA ClaimIsReferred ==
  ASSUME NEW d, NEW p \in Processes
  PROVE  Claim(p, items[p][d]) \subseteq References(d)
BY ReferenceMeans, ClaimMeans

(* Nothing changes for a device that no process refers to differently.      *)
LEMMA SameReferences ==
  ASSUME NEW d \in Devices, \A p \in Processes : items'[p][d] = items[p][d]
  PROVE  References(d)' = References(d)
<1>1. ASSUME NEW p \in Processes, NEW n
      PROVE  n \in 1..items'[p][d] <=> n \in 1..items[p][d]
  OBVIOUS
<1>2. ASSUME NEW x \in References(d)'  PROVE x \in References(d)
  <2>1. PICK p \in Processes : \E n \in 1..items'[p][d] : x = <<p, n>>
    BY ReferenceMeansNext
  <2>2. \E n \in 1..items[p][d] : x = <<p, n>>
    BY <1>1, <2>1
  <2> QED
    BY <2>2, ReferenceMeans
<1>3. ASSUME NEW x \in References(d)  PROVE x \in References(d)'
  <2>1. PICK p \in Processes : \E n \in 1..items[p][d] : x = <<p, n>>
    BY ReferenceMeans
  <2>2. \E n \in 1..items'[p][d] : x = <<p, n>>
    BY <1>1, <2>1
  <2> QED
    BY <2>2, ReferenceMeansNext
<1> QED
  BY <1>2, <1>3

(* One reference more, one less, none any more.                             *)
LEMMA ReferenceAdded ==
  ASSUME PBTypes, NEW p \in Processes, NEW d \in Devices,
         items'[p][d] = items[p][d] + 1, \A q \in Processes \ {p} : items'[q][d] = items[q][d],
         IsFiniteSet(References(d))
  PROVE  /\ IsFiniteSet(References(d)') /\ References(d)' # {}
         /\ Cardinality(References(d)') = Cardinality(References(d)) + 1
<1> DEFINE n == items[p][d]
<1>1. n \in Nat
  BY DEF PBTypes
<1>2. <<p, n + 1>> \notin References(d)
  <2> SUFFICES ASSUME NEW q \in Processes, NEW m \in 1..items[q][d], <<p, n + 1>> = <<q, m>>
               PROVE  FALSE
    BY ReferenceMeans
  <2>1. q = p /\ m = n + 1
    OBVIOUS
  <2> QED
    BY <1>1, <2>1
<1>3. References(d)' = References(d) \cup {<<p, n + 1>>}
  <2>1. ASSUME NEW q \in Processes, NEW m \in 1..items'[q][d]
        PROVE  <<q, m>> \in References(d) \cup {<<p, n + 1>>}
    <3>1. CASE q = p
      <4>1. m \in 1..n \/ m = n + 1
        BY <1>1, <3>1
      <4> QED
        BY <3>1, <4>1, ReferenceMeans
    <3>2. CASE q # p
      BY <3>2, ReferenceMeans
    <3> QED
      BY <3>1, <3>2
  <2>2. ASSUME NEW q \in Processes, NEW m \in 1..items[q][d]
        PROVE  <<q, m>> \in References(d)'
    <3>1. m \in 1..items'[q][d]
      <4>1. CASE q = p
        BY <1>1, <4>1
      <4>2. CASE q # p
        BY <4>2
      <4> QED
        BY <4>1, <4>2
    <3> QED
      BY <3>1, ReferenceMeansNext
  <2>3. n + 1 \in 1..items'[p][d]
    BY <1>1
  <2>4. <<p, n + 1>> \in References(d)'
    BY <2>3, ReferenceMeansNext
  <2>5. References(d)' \subseteq References(d) \cup {<<p, n + 1>>}
    BY <2>1, ReferenceMeansNext
  <2>6. References(d) \subseteq References(d)'
    BY <2>2, ReferenceMeans
  <2> QED
    BY <2>4, <2>5, <2>6
<1>4. /\ IsFiniteSet(References(d) \cup {<<p, n + 1>>})
      /\ Cardinality(References(d) \cup {<<p, n + 1>>}) = Cardinality(References(d)) + 1
  BY <1>2, FS_AddElement
<1> QED
  BY <1>3, <1>4

(* A reference given up is one less.                                        *)
LEMMA ReferenceDropped ==
  ASSUME PBTypes, NEW p \in Processes, NEW d \in Devices, items[p][d] > 0,
         items'[p][d] = items[p][d] - 1, \A q \in Processes \ {p} : items'[q][d] = items[q][d],
         IsFiniteSet(References(d))
  PROVE  /\ IsFiniteSet(References(d)')
         /\ Cardinality(References(d)') = Cardinality(References(d)) - 1
<1> DEFINE n == items[p][d]
<1>1. n \in Nat /\ n > 0
  BY DEF PBTypes
<1>2. <<p, n>> \in References(d)
  <2>1. n \in 1..items[p][d]
    BY <1>1
  <2> QED
    BY <2>1, ReferenceMeans
<1>3. References(d)' = References(d) \ {<<p, n>>}
  <2>1. ASSUME NEW q \in Processes, NEW m \in 1..items'[q][d]
        PROVE  <<q, m>> \in References(d) \ {<<p, n>>}
    <3>1. m \in 1..items[q][d] /\ <<q, m>> # <<p, n>>
      <4>1. CASE q = p
        BY <1>1, <4>1
      <4>2. CASE q # p
        BY <4>2
      <4> QED
        BY <4>1, <4>2
    <3> QED
      BY <3>1, ReferenceMeans
  <2>2. ASSUME NEW q \in Processes, NEW m \in 1..items[q][d], <<q, m>> # <<p, n>>
        PROVE  <<q, m>> \in References(d)'
    <3>1. m \in 1..items'[q][d]
      <4>1. CASE q = p
        BY <1>1, <2>2, <4>1
      <4>2. CASE q # p
        BY <4>2
      <4> QED
        BY <4>1, <4>2
    <3> QED
      BY <3>1, ReferenceMeansNext
  <2>3. References(d)' \subseteq References(d) \ {<<p, n>>}
    BY <2>1, ReferenceMeansNext
  <2>4. References(d) \ {<<p, n>>} \subseteq References(d)'
    BY <2>2, ReferenceMeans
  <2> QED
    BY <2>3, <2>4
<1>4. /\ IsFiniteSet(References(d) \ {<<p, n>>})
      /\ Cardinality(References(d) \ {<<p, n>>}) = Cardinality(References(d)) - 1
  BY <1>2, FS_RemoveElement
<1> QED
  BY <1>3, <1>4

(* All the references of a process go at once.                              *)
LEMMA ReferencesGone ==
  ASSUME PBTypes, NEW p \in Processes, NEW d \in Devices,
         items'[p][d] = 0, \A q \in Processes \ {p} : items'[q][d] = items[q][d],
         IsFiniteSet(References(d))
  PROVE  /\ References(d)' = References(d) \ Claim(p, items[p][d])
         /\ IsFiniteSet(References(d)')
         /\ Cardinality(References(d)') = Cardinality(References(d)) - items[p][d]
<1> DEFINE n == items[p][d]
<1>1. n \in Nat
  BY DEF PBTypes
<1>2. References(d)' = References(d) \ Claim(p, n)
  <2>1. ASSUME NEW q \in Processes, NEW m \in 1..items'[q][d]
        PROVE  <<q, m>> \in References(d) \ Claim(p, n)
    <3>1. q # p
      BY <2>1
    <3>2. <<q, m>> \in References(d)
      BY <3>1, ReferenceMeans
    <3>3. <<q, m>> \notin Claim(p, n)
      BY <3>1, ClaimMeans
    <3> QED
      BY <3>2, <3>3
  <2>2. ASSUME NEW q \in Processes, NEW m \in 1..items[q][d], <<q, m>> \notin Claim(p, n)
        PROVE  <<q, m>> \in References(d)'
    <3>1. q # p
      BY <2>2, ClaimMeans
    <3> QED
      BY <3>1, ReferenceMeansNext
  <2>3. References(d)' \subseteq References(d) \ Claim(p, n)
    BY <2>1, ReferenceMeansNext
  <2>4. References(d) \ Claim(p, n) \subseteq References(d)'
    BY <2>2, ReferenceMeans
  <2> QED
    BY <2>3, <2>4
<1>3. References(d) \cap Claim(p, n) = Claim(p, n)
  BY ClaimIsReferred
<1>4. Cardinality(Claim(p, n)) = n
  BY <1>1, ClaimCounts
<1>5. /\ IsFiniteSet(References(d) \ Claim(p, n))
      /\ Cardinality(References(d) \ Claim(p, n)) = Cardinality(References(d)) - n
  <2>1. /\ IsFiniteSet(References(d) \ Claim(p, n))
        /\ Cardinality(References(d) \ Claim(p, n))
               = Cardinality(References(d)) - Cardinality(References(d) \cap Claim(p, n))
    BY FS_Difference, Zenon
  <2> QED
    BY <1>3, <1>4, <2>1, Zenon
<1> QED
  BY <1>2, <1>5, Zenon

(* Memory that belongs to a process may go, that of a buffer stays, and the *)
(* buffers keep theirs.                                                     *)
SameMems == \A e \in Devices : /\ stub'[e] = NONE <=> stub[e] = NONE
                               /\ stub[e] # NONE => stub'[e].mem = stub[e].mem
MemoryTypes == memory \in [DOMAIN memory -> Processes \cup Devices]
  /\ DOMAIN memory \subseteq 1..MaxMems

(* Memory that stays, of buffers that keep theirs, is accounted for as      *)
(* before.                                                                  *)
LEMMA MemoryKept ==
  ASSUME NamesOK, PBInv, SameMems, NEW gone, memory' = Freed(gone),
         \A i \in gone \cap DOMAIN memory : memory[i] \in Processes
  PROVE  MemoryTypes' /\ MemoryAccounted'
<1>1. memory' = [i \in DOMAIN memory \ gone |-> memory[i]]
  BY DEF Freed, Restrict
<1>2. /\ DOMAIN memory' = DOMAIN memory \ gone
      /\ \A i \in DOMAIN memory' : memory'[i] = memory[i]
      /\ memory' = [i \in DOMAIN memory' |-> memory'[i]]
  BY <1>1
<1>3. MemoryTypes'
  BY <1>2 DEF MemoryTypes, PBInv, PBTypes
<1>4. MemoryAccounted
  BY DEF PBInv, BuffersSound
<1>5. ASSUME NEW d \in Devices, stub'[d] # NONE
      PROVE  stub'[d].mem \in DOMAIN memory' /\ memory'[stub'[d].mem] = d
  <2>1. stub[d] # NONE /\ stub'[d].mem = stub[d].mem
    BY <1>5 DEF SameMems
  <2>2. stub[d].mem \in DOMAIN memory /\ memory[stub[d].mem] = d
    BY <1>4, <2>1 DEF MemoryAccounted
  <2>3. stub[d].mem \notin gone
    BY <2>2 DEF NamesOK
  <2> QED
    BY <1>2, <2>1, <2>2, <2>3
<1>6. ASSUME NEW i \in DOMAIN memory'
      PROVE  memory'[i] \in Processes \/ (stub'[memory'[i]] # NONE /\ stub'[memory'[i]].mem = i)
  <2>1. i \in DOMAIN memory /\ memory'[i] = memory[i]
    BY <1>2
  <2>2. memory[i] \in Processes \cup Devices
    BY <2>1 DEF PBInv, PBTypes
  <2>3. memory[i] \in Processes \/ (stub[memory[i]] # NONE /\ stub[memory[i]].mem = i)
    BY <1>4, <2>1 DEF MemoryAccounted
  <2> QED
    BY <2>1, <2>2, <2>3 DEF SameMems
<1> QED
  BY <1>3, <1>5, <1>6 DEF MemoryAccounted

(* When no memory changes hands.                                            *)
LEMMA MemoryUnchanged ==
  ASSUME NamesOK, PBInv, SameMems, memory' = memory
  PROVE  MemoryTypes' /\ MemoryAccounted'
<1>1. memory = Freed({})
  BY DEF Freed, Restrict, PBInv, PBTypes
<1> QED
  BY <1>1, MemoryKept

(* A process refers to a buffer once more.                                  *)
LEMMA ReferKeeps ==
  ASSUME NamesOK, PBInv, NEW p \in Processes, NEW d \in Devices, stub[d] # NONE, Refer(p, d)
  PROVE  /\ stub' \in [Devices -> Buffer \cup {NONE}]
         /\ items' \in [Processes -> [Devices -> Nat]]
         /\ \A e \in Devices : IsFiniteSet(References(e)')
         /\ BuffersCounted' /\ SameMems
<1>1. /\ items' = [items EXCEPT ![p][d] = @ + 1] /\ stub' = [stub EXCEPT ![d].refCount = @ + 1]
      /\ stub \in [Devices -> Buffer \cup {NONE}] /\ items \in [Processes -> [Devices -> Nat]]
  BY DEF Refer, PBInv, PBTypes
<1>2. items' \in [Processes -> [Devices -> Nat]]
  BY <1>1
<1>3. /\ items'[p][d] = items[p][d] + 1 /\ \A q \in Processes \ {p} : items'[q] = items[q]
      /\ \A e \in Devices \ {d} : items'[p][e] = items[p][e]
  BY <1>1
<1>4. stub[d] \in Buffer
  BY <1>1
<1>5. /\ stub'[d] \in Buffer /\ stub'[d].refCount = stub[d].refCount + 1
           /\ stub'[d].mem = stub[d].mem
      /\ \A e \in Devices \ {d} : stub'[e] = stub[e]
  <2>1. stub'[d] = [stub[d] EXCEPT !.refCount = stub[d].refCount + 1]
    BY <1>1
  <2> QED
    BY <1>1, <1>4, <2>1 DEF Buffer
<1>6. stub' \in [Devices -> Buffer \cup {NONE}]
  <2>1. DOMAIN stub' = Devices /\ stub' = [e \in Devices |-> stub'[e]]
    BY <1>1
  <2> QED
    BY <1>1, <1>5, <2>1
<1>7. stub'[d] # NONE
  BY <1>5 DEF NamesOK, Buffer
<1>8. SameMems
  BY <1>5, <1>7 DEF SameMems
<1>9. /\ IsFiniteSet(References(d)') /\ References(d)' # {}
      /\ Cardinality(References(d)') = Cardinality(References(d)) + 1
  BY <1>3, ReferenceAdded DEF PBInv
<1>10. \A e \in Devices \ {d} : References(e)' = References(e)
  BY <1>3, SameReferences
<1>11. BuffersCounted'
  <2>1. BuffersCounted
    BY DEF PBInv, BuffersSound
  <2>2. Cardinality(References(d)) = stub[d].refCount
    BY <2>1 DEF BuffersCounted
  <2>3. Cardinality(References(d)') = stub'[d].refCount
    BY <1>5, <1>9, <2>2
  <2> QED
    BY <1>5, <1>7, <1>9, <1>10, <2>1, <2>3 DEF BuffersCounted
<1> QED
  BY <1>2, <1>6, <1>8, <1>9, <1>10, <1>11 DEF PBInv

(* The parts of the invariant.                                              *)
LEMMA PBInvParts ==
  ASSUME stub' \in [Devices -> Buffer \cup {NONE}], items' \in [Processes -> [Devices -> Nat]],
         \A e \in Devices : IsFiniteSet(References(e)'),
         BuffersCounted', MemoryTypes', MemoryAccounted',
         creator' \in Processes \cup {NONE}, RightHasResource'
  PROVE  PBInv'
BY Zenon DEF PBInv, PBTypes, MemoryTypes, BuffersSound

(* Nobody takes the right to create a buffer and nobody gives it back.      *)
LEMMA RightKept ==
  ASSUME PBInv, creator' = creator, locks' = locks
  PROVE  creator' \in Processes \cup {NONE} /\ RightHasResource'
BY DEF PBInv, PBTypes, BuffersSound, RightHasResource

(* Buffers and references stay as they are.                                 *)
LEMMA BuffersKept ==
  ASSUME PBInv, stub' = stub, items' = items
  PROVE  /\ stub' \in [Devices -> Buffer \cup {NONE}]
         /\ items' \in [Processes -> [Devices -> Nat]]
         /\ \A e \in Devices : IsFiniteSet(References(e)')
         /\ BuffersCounted' /\ SameMems
<1>1. \A e \in Devices : References(e)' = References(e)
  BY SameReferences
<1>2. BuffersCounted
  BY DEF PBInv, BuffersSound
<1> QED
  BY <1>1, <1>2 DEF PBInv, PBTypes, BuffersCounted, SameMems

(* Nothing is there at first.                                               *)
LEMMA PBInit == NamesOK /\ Init => PBInv
<1> SUFFICES ASSUME NamesOK, Init PROVE PBInv
  OBVIOUS
<1>1. PBTypes
  <2>1. memory \in [DOMAIN memory -> Processes \cup Devices] /\ DOMAIN memory \subseteq 1..MaxMems
    BY DEF Init
  <2>2. items \in [Processes -> [Devices -> Nat]]
    BY DEF Init
  <2> QED
    BY <2>1, <2>2 DEF Init, PBTypes
<1>2. \A d \in Devices : References(d) = {}
  BY DEF Init, References
<1>3. MemoryAccounted
  BY DEF Init, MemoryAccounted
<1>4. RightHasResource
  BY DEF Init, RightHasResource
<1>5. BuffersCounted
  BY <1>2 DEF Init, BuffersCounted
<1> QED
  BY <1>1, <1>2, <1>3, <1>4, <1>5, FS_EmptySet DEF PBInv, BuffersSound

(* Memory for a buffer is nobody's before.                                  *)
LEMMA AllocKeeps ==
  ASSUME NamesOK, PBInv, NEW p \in Processes, AllocMemory(p)
  PROVE  PBInv'
<1> DEFINE new == CHOOSE i \in 1..MaxMems : i \notin DOMAIN memory
<1>1. /\ memory' = [i \in DOMAIN memory \cup {new} |-> IF i = new THEN p ELSE memory[i]]
      /\ Cardinality(DOMAIN memory) < MaxMems
      /\ stub' = stub /\ items' = items /\ creator' = creator /\ locks' = locks
  BY DEF AllocMemory
<1>2. new \in 1..MaxMems /\ new \notin DOMAIN memory
  <2>1. DOMAIN memory \subseteq 1..MaxMems
    BY DEF PBInv, PBTypes
  <2>2. Cardinality(1..MaxMems) = MaxMems
    BY FS_Interval DEF NamesOK
  <2>3. DOMAIN memory # 1..MaxMems
    BY <1>1, <2>2 DEF NamesOK
  <2>4. \E i \in 1..MaxMems : i \notin DOMAIN memory
    BY <2>1, <2>3
  <2> QED
    BY <2>4
<1> HIDE DEF new
<1>3. /\ DOMAIN memory' = DOMAIN memory \cup {new} /\ memory'[new] = p
      /\ \A i \in DOMAIN memory : memory'[i] = memory[i]
      /\ memory' = [i \in DOMAIN memory' |-> memory'[i]]
  BY <1>1, <1>2
<1>4. MemoryTypes'
  <2>1. DOMAIN memory' \subseteq 1..MaxMems
    BY <1>2, <1>3 DEF PBInv, PBTypes
  <2>2. \A i \in DOMAIN memory' : memory'[i] \in Processes \cup Devices
    BY <1>3 DEF PBInv, PBTypes
  <2> QED
    BY <1>3, <2>1, <2>2 DEF MemoryTypes
<1>5. MemoryAccounted'
  <2>1. MemoryAccounted
    BY DEF PBInv, BuffersSound
  <2> QED
    BY <1>1, <1>3, <2>1 DEF MemoryAccounted
<1> QED
  BY <1>1, <1>4, <1>5, BuffersKept, RightKept, PBInvParts

(* A process finds the buffer, or is given the right to create one.         *)
LEMMA FindKeeps ==
  ASSUME NamesOK, PBInv, NEW p \in Processes, NEW d \in Devices, NEW b \in BOOLEAN,
         SGXFindSharedPBDescKM(p, d, b)
  PROVE  PBInv'
<1>1. CASE stub[d] # NONE /\ Refer(p, d) /\ UNCHANGED <<creator, locks, memory>>
  <2>1. /\ stub' \in [Devices -> Buffer \cup {NONE}] /\ items' \in [Processes -> [Devices -> Nat]]
        /\ \A e \in Devices : IsFiniteSet(References(e)')
        /\ BuffersCounted' /\ SameMems
    BY <1>1, ReferKeeps
  <2>2. MemoryTypes' /\ MemoryAccounted'
    BY <1>1, <2>1, MemoryUnchanged
  <2> QED
    BY <1>1, <2>1, <2>2, RightKept, PBInvParts
<1>2. CASE creator = NONE /\ creator' = p /\ locks' = locks \cup {p} /\ UNCHANGED <<stub, items,
      memory>>
  <2>1. /\ stub' \in [Devices -> Buffer \cup {NONE}] /\ items' \in [Processes -> [Devices -> Nat]]
        /\ \A e \in Devices : IsFiniteSet(References(e)')
        /\ BuffersCounted' /\ SameMems
    BY <1>2, BuffersKept
  <2>2. MemoryTypes' /\ MemoryAccounted'
    BY <1>2, <2>1, MemoryUnchanged
  <2>3. creator' \in Processes \cup {NONE} /\ RightHasResource'
    BY <1>2 DEF NamesOK, PBInv, BuffersSound, RightHasResource
  <2> QED
    BY <2>1, <2>2, <2>3, PBInvParts
<1> QED
  BY <1>1, <1>2 DEF SGXFindSharedPBDescKM

(* The buffer is the creator's from now on: it has one reference, and its   *)
(* memory belongs to it.                                                    *)
LEMMA BufferMade ==
  ASSUME NamesOK, PBInv, NEW p \in Processes, NEW d \in Devices, stub[d] = NONE,
         NEW i \in Owned(p),
         stub' = [stub EXCEPT ![d] = [refCount |-> 1, mem |-> i]],
         items' = [items EXCEPT ![p][d] = @ + 1], memory' = Dissociated(i, d)
  PROVE  /\ stub' \in [Devices -> Buffer \cup {NONE}]
         /\ items' \in [Processes -> [Devices -> Nat]]
         /\ \A e \in Devices : IsFiniteSet(References(e)')
         /\ BuffersCounted' /\ MemoryTypes' /\ MemoryAccounted'
<1>1. /\ stub \in [Devices -> Buffer \cup {NONE}] /\ items \in [Processes -> [Devices -> Nat]]
      /\ memory \in [DOMAIN memory -> Processes \cup Devices]
           /\ DOMAIN memory \subseteq 1..MaxMems
  BY DEF PBInv, PBTypes
<1>2. i \in DOMAIN memory /\ memory[i] = p /\ i \in Nat
  BY <1>1 DEF Owned, NamesOK
<1>3. /\ stub'[d] = [refCount |-> 1, mem |-> i] /\ stub'[d] \in Buffer /\ stub'[d] # NONE
      /\ stub'[d].refCount = 1 /\ stub'[d].mem = i
      /\ \A e \in Devices \ {d} : stub'[e] = stub[e]
  BY <1>1, <1>2 DEF Buffer, NamesOK
<1>4. stub' \in [Devices -> Buffer \cup {NONE}]
  BY <1>1, <1>3
<1>5. items' \in [Processes -> [Devices -> Nat]]
  BY <1>1
<1>6. /\ items'[p][d] = items[p][d] + 1 /\ \A q \in Processes \ {p} : items'[q] = items[q]
      /\ \A e \in Devices \ {d} : items'[p][e] = items[p][e]
  BY <1>1
<1>7. BuffersCounted /\ MemoryAccounted
  BY DEF PBInv, BuffersSound
<1>8. References(d) = {}
  BY <1>7 DEF BuffersCounted
<1>9. /\ IsFiniteSet(References(d)') /\ References(d)' # {}
      /\ Cardinality(References(d)') = Cardinality(References(d)) + 1
  BY <1>6, ReferenceAdded DEF PBInv
<1>10. \A e \in Devices \ {d} : References(e)' = References(e)
  BY <1>6, SameReferences
<1>11. Cardinality(References(d)') = 1
  BY <1>8, <1>9, FS_EmptySet
<1>12. BuffersCounted'
  BY <1>3, <1>7, <1>9, <1>10, <1>11 DEF BuffersCounted
<1>13. memory' = [memory EXCEPT ![i] = d]
  BY DEF Dissociated
<1>14. MemoryTypes'
  BY <1>1, <1>13 DEF MemoryTypes
<1>15. MemoryAccounted'
  <2>1. /\ DOMAIN memory' = DOMAIN memory /\ memory'[i] = d
        /\ \A j \in DOMAIN memory \ {i} : memory'[j] = memory[j]
    BY <1>1, <1>2, <1>13
  <2>2. ASSUME NEW e \in Devices \ {d}, stub[e] # NONE
        PROVE  stub[e].mem \in DOMAIN memory \ {i} /\ memory[stub[e].mem] = e
    BY <1>2, <1>7, <2>2 DEF MemoryAccounted, NamesOK
  <2>3. ASSUME NEW e \in Devices, stub'[e] # NONE
        PROVE  stub'[e].mem \in DOMAIN memory' /\ memory'[stub'[e].mem] = e
    <3>1. CASE e = d
      BY <1>2, <1>3, <2>1, <3>1
    <3>2. CASE e # d
      BY <1>3, <2>1, <2>2, <2>3, <3>2
    <3> QED
      BY <3>1, <3>2
  <2>4. ASSUME NEW j \in DOMAIN memory'
        PROVE  memory'[j] \in Processes \/ (stub'[memory'[j]] # NONE /\ stub'[memory'[j]].mem = j)
    <3>1. CASE j = i
      BY <1>3, <2>1, <3>1
    <3>2. CASE j # i
      <4>1. memory'[j] = memory[j] /\ j \in DOMAIN memory
        BY <2>1, <3>2
      <4>2. memory[j] \in Processes \/ (stub[memory[j]] # NONE /\ stub[memory[j]].mem = j)
        BY <1>7, <4>1 DEF MemoryAccounted
      <4>3. memory[j] # d \/ memory[j] \in Processes
        BY <4>2
      <4>4. memory[j] \in Processes \/ memory[j] \in Devices \ {d}
        BY <1>1, <4>1, <4>3
      <4> QED
        BY <1>3, <4>1, <4>2, <4>4
    <3> QED
      BY <3>1, <3>2
  <2> QED
    BY <2>3, <2>4 DEF MemoryAccounted
<1> QED
  BY <1>4, <1>5, <1>9, <1>10, <1>12, <1>14, <1>15 DEF PBInv

(* A process adds the buffer, finds another there, or has no right to.      *)
LEMMA AddKeeps ==
  ASSUME NamesOK, PBInv, NEW p \in Processes, NEW d \in Devices, NEW i \in DOMAIN memory,
         NEW b \in BOOLEAN, SGXAddSharedPBDescKM(p, d, i, b)
  PROVE  PBInv'
<1>1. i \in Owned(p)
  BY DEF SGXAddSharedPBDescKM
<1>2. creator' \in Processes \cup {NONE} /\ RightHasResource'
  <2>1. /\ creator' = IF creator = p THEN NONE ELSE creator
        /\ locks' = IF creator = p THEN locks \ {p} ELSE locks
    BY DEF SGXAddSharedPBDescKM
  <2> QED
    BY <2>1 DEF NamesOK, PBInv, PBTypes, BuffersSound, RightHasResource
<1>3. \A j \in {i} \cap DOMAIN memory : memory[j] \in Processes
  BY <1>1 DEF Owned
<1>4. CASE /\ stub[d] = NONE
           /\ stub' = [stub EXCEPT ![d] = [refCount |-> 1, mem |-> i]]
           /\ items' = [items EXCEPT ![p][d] = @ + 1] /\ memory' = Dissociated(i, d)
  BY <1>1, <1>2, <1>4, BufferMade, PBInvParts
<1>5. CASE stub[d] # NONE /\ Refer(p, d) /\ memory' = NoAddKeepPB(i)
  <2>1. /\ stub' \in [Devices -> Buffer \cup {NONE}] /\ items' \in [Processes -> [Devices -> Nat]]
        /\ \A e \in Devices : IsFiniteSet(References(e)')
        /\ BuffersCounted' /\ SameMems
    BY <1>5, ReferKeeps
  <2>2. MemoryTypes' /\ MemoryAccounted'
    BY <1>3, <1>5, <2>1, MemoryKept DEF NoAddKeepPB
  <2> QED
    BY <1>2, <2>1, <2>2, PBInvParts
<1>6. CASE memory' = NoAddKeepPB(i) /\ UNCHANGED <<stub, items>>
  <2>1. /\ stub' \in [Devices -> Buffer \cup {NONE}] /\ items' \in [Processes -> [Devices -> Nat]]
        /\ \A e \in Devices : IsFiniteSet(References(e)')
        /\ BuffersCounted' /\ SameMems
    BY <1>6, BuffersKept
  <2>2. MemoryTypes' /\ MemoryAccounted'
    BY <1>3, <1>6, <2>1, MemoryKept DEF NoAddKeepPB
  <2> QED
    BY <1>2, <2>1, <2>2, PBInvParts
<1> QED
  BY <1>4, <1>5, <1>6 DEF SGXAddSharedPBDescKM

(* Buffers that nobody refers to any more go with their memory, those of    *)
(* "last"; the others keep theirs, unless it is memory of a process.        *)
LEMMA BuffersGo ==
  ASSUME NamesOK, PBInv, NEW goners \in SUBSET Devices, NEW gone,
         \A i \in gone \cap DOMAIN memory :
            memory[i] \in Processes \/ \E e \in goners : i = stub[e].mem,
         \A e \in goners : stub[e].mem \in gone,
         \A e \in goners : stub[e] # NONE /\ stub'[e] = NONE,
         \A e \in Devices \ goners : /\ stub'[e] = NONE <=> stub[e] = NONE
                                     /\ stub[e] # NONE => stub'[e].mem = stub[e].mem,
         memory' = Freed(gone)
  PROVE  MemoryTypes' /\ MemoryAccounted'
<1>1. memory' = [i \in DOMAIN memory \ gone |-> memory[i]]
  BY DEF Freed, Restrict
<1>2. \A e \in goners : stub[e].mem \in gone
  OBVIOUS
<1>3. /\ DOMAIN memory' = DOMAIN memory \ gone
      /\ \A i \in DOMAIN memory' : memory'[i] = memory[i]
      /\ memory' = [i \in DOMAIN memory' |-> memory'[i]]
  BY <1>1
<1>4. MemoryTypes'
  BY <1>3 DEF MemoryTypes, PBInv, PBTypes
<1>5. MemoryAccounted
  BY DEF PBInv, BuffersSound
<1>6. ASSUME NEW d \in Devices, stub'[d] # NONE
      PROVE  stub'[d].mem \in DOMAIN memory' /\ memory'[stub'[d].mem] = d
  <2>1. d \notin goners /\ stub[d] # NONE /\ stub'[d].mem = stub[d].mem
    <3>1. d \in Devices \ goners
      BY <1>6
    <3> QED
      BY <1>6, <3>1, Zenon
  <2>2. stub[d].mem \in DOMAIN memory /\ memory[stub[d].mem] = d
    BY <1>5, <2>1 DEF MemoryAccounted
  <2>3. memory[stub[d].mem] \notin Processes
    BY <2>2 DEF NamesOK
  <2>4. \A e \in goners : stub[e].mem # stub[d].mem
    BY <1>5, <2>1, <2>2 DEF MemoryAccounted
  <2>5. stub[d].mem \notin gone
    BY <2>2, <2>3, <2>4
  <2> QED
    BY <1>3, <2>1, <2>2, <2>5
<1>7. ASSUME NEW i \in DOMAIN memory'
      PROVE  memory'[i] \in Processes \/ (stub'[memory'[i]] # NONE /\ stub'[memory'[i]].mem = i)
  <2>1. i \in DOMAIN memory /\ memory'[i] = memory[i] /\ i \notin gone
    BY <1>3
  <2>2. memory[i] \in Processes \cup Devices
    BY <2>1 DEF PBInv, PBTypes
  <2>3. memory[i] \in Processes \/ (stub[memory[i]] # NONE /\ stub[memory[i]].mem = i)
    BY <1>5, <2>1 DEF MemoryAccounted
  <2>4. memory[i] \in Processes \/ memory[i] \in Devices \ goners
    BY <1>2, <2>1, <2>2, <2>3
  <2>5. ASSUME memory[i] \in Devices \ goners, memory[i] \notin Processes
        PROVE  stub'[memory[i]] # NONE /\ stub'[memory[i]].mem = i
    BY <2>3, <2>5, Zenon
  <2> QED
    BY <2>1, <2>4, <2>5
<1> QED
  BY <1>4, <1>6, <1>7 DEF MemoryAccounted

(* A process gives a reference up, the last one with the buffer.            *)
LEMMA UnrefKeeps ==
  ASSUME NamesOK, PBInv, NEW p \in Processes, NEW d \in Devices, SGXUnrefSharedPBDescKM(p, d)
  PROVE  PBInv'
<1>1. /\ items[p][d] > 0 /\ items' = [items EXCEPT ![p][d] = @ - 1]
      /\ creator' = creator /\ locks' = locks
      /\ stub \in [Devices -> Buffer \cup {NONE}] /\ items \in [Processes -> [Devices -> Nat]]
  BY DEF SGXUnrefSharedPBDescKM, SGXCleanupSharedPBDescKM, PBInv, PBTypes
<1>2. items' \in [Processes -> [Devices -> Nat]]
  <2>1. items[p][d] - 1 \in Nat
    BY <1>1
  <2> QED
    BY <1>1, <2>1
<1>3. /\ items'[p][d] = items[p][d] - 1 /\ \A q \in Processes \ {p} : items'[q] = items[q]
      /\ \A e \in Devices \ {d} : items'[p][e] = items[p][e]
  BY <1>1
<1>4. BuffersCounted
  BY DEF PBInv, BuffersSound
<1>5. References(d) # {}
  <2>1. 1 \in 1..items[p][d]
    BY <1>1
  <2> QED
    BY <2>1, ReferenceMeans
<1>6. stub[d] \in Buffer /\ stub[d] # NONE /\ Cardinality(References(d)) = stub[d].refCount
  BY <1>1, <1>4, <1>5 DEF BuffersCounted
<1>7. /\ IsFiniteSet(References(d)')
      /\ Cardinality(References(d)') = stub[d].refCount - 1
  BY <1>1, <1>3, <1>6, ReferenceDropped DEF PBInv
<1>8. \A e \in Devices \ {d} : References(e)' = References(e)
  BY <1>3, SameReferences
<1>9. CASE stub[d].refCount = 1
  <2>1. stub' = [stub EXCEPT ![d] = NONE] /\ memory' = Freed({stub[d].mem})
    BY <1>9 DEF SGXUnrefSharedPBDescKM, SGXCleanupSharedPBDescKM
  <2>2. stub'[d] = NONE /\ \A e \in Devices \ {d} : stub'[e] = stub[e]
    BY <1>1, <2>1
  <2>3. stub' \in [Devices -> Buffer \cup {NONE}]
    BY <1>1, <2>1
  <2>4. MemoryTypes' /\ MemoryAccounted'
    <3>1. /\ \A i \in {stub[d].mem} \cap DOMAIN memory :
               memory[i] \in Processes \/ \E e \in {d} : i = stub[e].mem
          /\ \A e \in {d} : stub[e].mem \in {stub[d].mem}
      OBVIOUS
    <3>2. \A e \in {d} : stub[e] # NONE /\ stub'[e] = NONE
      BY <1>6, <2>2
    <3>3. \A e \in Devices \ {d} : /\ stub'[e] = NONE <=> stub[e] = NONE
                                   /\ stub[e] # NONE => stub'[e].mem = stub[e].mem
      BY <2>2
    <3>4. {d} \in SUBSET Devices
      OBVIOUS
    <3> QED
      BY <2>1, <3>1, <3>2, <3>3, <3>4, BuffersGo, Zenon
  <2>5. References(d)' = {}
    BY <1>7, <1>9, FS_EmptySet
  <2>6. BuffersCounted'
    BY <1>4, <1>8, <2>2, <2>5 DEF BuffersCounted
  <2> QED
    BY <1>1, <1>2, <1>7, <1>8, <2>3, <2>4, <2>6, RightKept, PBInvParts DEF PBInv
<1>10. CASE stub[d].refCount # 1
  <2>1. stub' = [stub EXCEPT ![d].refCount = @ - 1] /\ memory' = memory
    BY <1>10 DEF SGXUnrefSharedPBDescKM, SGXCleanupSharedPBDescKM
  <2>2. stub'[d] = [stub[d] EXCEPT !.refCount = stub[d].refCount - 1]
    BY <1>1, <2>1
  <2>3. References(d)' # {}
    <3>1. stub[d].refCount - 1 # 0
      BY <1>6, <1>10 DEF Buffer
    <3> QED
      BY <1>7, <3>1, FS_EmptySet
  <2>4. stub[d].refCount - 1 \in Nat
    BY <1>7, FS_CardinalityType
  <2>5. /\ stub'[d] \in Buffer /\ stub'[d].refCount = stub[d].refCount - 1
        /\ stub'[d].mem = stub[d].mem /\ stub'[d] # NONE
        /\ \A e \in Devices \ {d} : stub'[e] = stub[e]
    BY <1>1, <1>6, <2>1, <2>2, <2>4 DEF Buffer, NamesOK
  <2>6. stub' \in [Devices -> Buffer \cup {NONE}]
    <3>1. stub' = [e \in Devices |-> stub'[e]]
      BY <1>1, <2>1
    <3> QED
      BY <1>1, <2>5, <3>1
  <2>7. SameMems
    BY <1>6, <2>5 DEF SameMems
  <2>8. MemoryTypes' /\ MemoryAccounted'
    BY <2>1, <2>7, MemoryUnchanged
  <2>9. BuffersCounted'
    BY <1>4, <1>7, <1>8, <2>3, <2>5 DEF BuffersCounted
  <2> QED
    BY <1>1, <1>2, <1>7, <1>8, <2>6, <2>8, <2>9, RightKept, PBInvParts DEF PBInv
<1> QED
  BY <1>9, <1>10

(* The end of a process.                                                    *)
Left(p, d) == stub[d].refCount - items[p][d]
Ends(p) == {d \in Devices : stub[d] # NONE /\ Left(p, d) = 0}

(* What the end of a process does, with the names above.                    *)
LEMMA DisconnectMeans ==
  ASSUME PBInv, NEW p \in Processes, PVRSRVResManDisconnect(p)
  PROVE  /\ creator' = IF p \in locks THEN NONE ELSE creator
         /\ locks' = locks \ {p}
         /\ items' = [items EXCEPT ![p] = [d \in Devices |-> 0]]
         /\ stub' = [d \in Devices |-> IF stub[d] = NONE \/ d \in Ends(p) THEN NONE
                                       ELSE [stub[d] EXCEPT !.refCount = Left(p, d)]]
         /\ memory' = Freed(Owned(p) \cup {stub[d].mem : d \in Ends(p)})
BY Zenon DEF PVRSRVResManDisconnect, SGXCleanupSharedPBDescCreateLock, Left, Ends

(* A buffer that stays when a process ends counts the references of the     *)
(* others.                                                                  *)
LEMMA DisconnectCounts ==
  ASSUME NamesOK, PBInv, NEW p \in Processes, PVRSRVResManDisconnect(p)
  PROVE  \A d \in Devices :
           /\ IsFiniteSet(References(d)')
           /\ Cardinality(References(d)') = Cardinality(References(d)) - items[p][d]
           /\ References(d)' \subseteq References(d)
           /\ stub[d] # NONE /\ d \notin Ends(p) =>
                /\ stub'[d] \in Buffer /\ stub'[d] # NONE
                /\ stub'[d].refCount = Cardinality(References(d)') /\ stub'[d].mem = stub[d].mem
                /\ References(d)' # {}
<1>1. /\ creator' = IF p \in locks THEN NONE ELSE creator
      /\ locks' = locks \ {p}
      /\ items' = [items EXCEPT ![p] = [d \in Devices |-> 0]]
      /\ stub' = [d \in Devices |-> IF stub[d] = NONE \/ d \in Ends(p) THEN NONE
                                    ELSE [stub[d] EXCEPT !.refCount = Left(p, d)]]
      /\ memory' = Freed(Owned(p) \cup {stub[d].mem : d \in Ends(p)})
  BY DisconnectMeans
<1>2. /\ stub \in [Devices -> Buffer \cup {NONE}] /\ items \in [Processes -> [Devices -> Nat]]
      /\ BuffersCounted
  BY DEF PBInv, PBTypes, BuffersSound
<1>3. /\ items' \in [Processes -> [Devices -> Nat]] /\ \A d \in Devices : items'[p][d] = 0
      /\ \A q \in Processes \ {p} : items'[q] = items[q]
  BY <1>1, <1>2
<1>4. ASSUME NEW d \in Devices
      PROVE  /\ IsFiniteSet(References(d)')
             /\ Cardinality(References(d)') = Cardinality(References(d)) - items[p][d]
             /\ References(d)' \subseteq References(d)
  BY <1>3, ReferencesGone DEF PBInv
<1>5. ASSUME NEW d \in Devices, stub[d] # NONE, d \notin Ends(p)
      PROVE  /\ stub'[d] \in Buffer /\ stub'[d] # NONE
             /\ stub'[d].refCount = Cardinality(References(d)') /\ stub'[d].mem = stub[d].mem
             /\ References(d)' # {}
  <2>1. stub[d] \in Buffer /\ Cardinality(References(d)) = stub[d].refCount
    BY <1>2, <1>5 DEF BuffersCounted
  <2>2. Left(p, d) = Cardinality(References(d)')
    BY <1>4, <2>1 DEF Left
  <2>3. Left(p, d) \in Nat /\ Left(p, d) # 0
    <3>1. Cardinality(References(d)') \in Nat
      BY <1>4, FS_CardinalityType
    <3> QED
      BY <1>5, <2>2, <3>1 DEF Ends
  <2>4. stub'[d] = [stub[d] EXCEPT !.refCount = Left(p, d)]
    BY <1>1, <1>5
  <2>5. References(d)' # {}
    BY <2>2, <2>3, FS_EmptySet
  <2>6. stub'[d] \in Buffer /\ stub'[d].refCount = Left(p, d) /\ stub'[d].mem = stub[d].mem
    BY <2>1, <2>3, <2>4 DEF Buffer
  <2> QED
    BY <2>2, <2>5, <2>6 DEF NamesOK, Buffer
<1> QED
  BY <1>4, <1>5

(* The end of a process keeps the invariant.                                *)
LEMMA DisconnectKeeps ==
  ASSUME NamesOK, PBInv, NEW p \in Processes, PVRSRVResManDisconnect(p)
  PROVE  PBInv'
<1>1. /\ creator' = IF p \in locks THEN NONE ELSE creator
      /\ locks' = locks \ {p}
      /\ items' = [items EXCEPT ![p] = [d \in Devices |-> 0]]
      /\ stub' = [d \in Devices |-> IF stub[d] = NONE \/ d \in Ends(p) THEN NONE
                                    ELSE [stub[d] EXCEPT !.refCount = Left(p, d)]]
      /\ memory' = Freed(Owned(p) \cup {stub[d].mem : d \in Ends(p)})
  BY DisconnectMeans
<1>2. /\ stub \in [Devices -> Buffer \cup {NONE}] /\ items \in [Processes -> [Devices -> Nat]]
      /\ BuffersCounted
  BY DEF PBInv, PBTypes, BuffersSound
<1>3. /\ items' \in [Processes -> [Devices -> Nat]] /\ \A d \in Devices : items'[p][d] = 0
      /\ \A q \in Processes \ {p} : items'[q] = items[q]
  BY <1>1, <1>2
<1>4. \A d \in Devices :
        /\ IsFiniteSet(References(d)')
        /\ Cardinality(References(d)') = Cardinality(References(d)) - items[p][d]
        /\ References(d)' \subseteq References(d)
  BY DisconnectCounts
<1>5. \A d \in Devices : stub[d] # NONE /\ d \notin Ends(p) =>
        /\ stub'[d] \in Buffer /\ stub'[d] # NONE
        /\ stub'[d].refCount = Cardinality(References(d)') /\ stub'[d].mem = stub[d].mem
        /\ References(d)' # {}
  BY DisconnectCounts
<1>6. ASSUME NEW d \in Ends(p)
      PROVE  d \in Devices /\ stub[d] # NONE /\ stub'[d] = NONE /\ References(d)' = {}
  <2>1. d \in Devices /\ stub[d] # NONE /\ Left(p, d) = 0
    BY DEF Ends
  <2>2. stub'[d] = NONE
    BY <1>1, <2>1
  <2>3. Cardinality(References(d)') = 0
    BY <1>2, <1>4, <2>1 DEF Left, BuffersCounted
  <2>4. References(d)' = {}
    BY <1>4, <2>1, <2>3, FS_EmptySet
  <2> QED
    BY <2>1, <2>2, <2>4
<1>7. ASSUME NEW d \in Devices, stub[d] = NONE
      PROVE  stub'[d] = NONE /\ References(d)' = {}
  <2>1. References(d) = {}
    BY <1>2, <1>7 DEF BuffersCounted
  <2> QED
    BY <1>1, <1>4, <1>7, <2>1
<1>8. stub' \in [Devices -> Buffer \cup {NONE}]
  <2>1. stub' = [d \in Devices |-> stub'[d]]
    BY <1>1
  <2>2. \A d \in Devices : stub'[d] \in Buffer \cup {NONE}
    BY <1>5, <1>6, <1>7
  <2> QED
    BY <2>1, <2>2
<1>9. BuffersCounted'
  BY <1>5, <1>6, <1>7 DEF BuffersCounted
<1>10. MemoryTypes' /\ MemoryAccounted'
  <2>1. Ends(p) \in SUBSET Devices
    BY DEF Ends
  <2>2. /\ \A i \in (Owned(p) \cup {stub[d].mem : d \in Ends(p)}) \cap DOMAIN memory :
             memory[i] \in Processes \/ \E e \in Ends(p) : i = stub[e].mem
        /\ \A e \in Ends(p) : stub[e].mem \in Owned(p) \cup {stub[d].mem : d \in Ends(p)}
    BY DEF Owned
  <2>3. \A e \in Ends(p) : stub[e] # NONE /\ stub'[e] = NONE
    BY <1>6
  <2>4. \A e \in Devices \ Ends(p) : /\ stub'[e] = NONE <=> stub[e] = NONE
                                     /\ stub[e] # NONE => stub'[e].mem = stub[e].mem
    BY <1>5, <1>7
  <2> QED
    BY <1>1, <2>1, <2>2, <2>3, <2>4, BuffersGo
<1>11. creator' \in Processes \cup {NONE} /\ RightHasResource'
  BY <1>1 DEF NamesOK, PBInv, PBTypes, BuffersSound, RightHasResource
<1> QED
  BY <1>3, <1>4, <1>8, <1>9, <1>10, <1>11, PBInvParts

(* Every step keeps the invariant.                                          *)
LEMMA PBNext == ASSUME NamesOK PROVE PBInv /\ [Next]_vars => PBInv'
<1> SUFFICES ASSUME PBInv, [Next]_vars PROVE PBInv'
  OBVIOUS
<1>1. CASE Next
  BY <1>1, AllocKeeps, FindKeeps, UnrefKeeps, AddKeeps, DisconnectKeeps, Zenon DEF Next
<1>2. CASE UNCHANGED vars
  <2>1. /\ stub' = stub /\ items' = items /\ creator' = creator /\ locks' = locks
             /\ memory' = memory
    BY <1>2 DEF vars
  <2>2. SameMems
    BY <2>1 DEF SameMems
  <2> QED
    BY <2>1, <2>2, BuffersKept, MemoryUnchanged, RightKept, PBInvParts
<1> QED
  BY <1>1, <1>2

(* However processes find, add and give up the shared buffer, and end: its  *)
(* count is that of the references, it exists as long as there is one and   *)
(* has its memory for itself, no memory is lost, and the right to create a  *)
(* buffer is with a process that will give it back (pb.c).                  *)
THEOREM BuffersStaySound == ASSUME NamesOK PROVE Spec => []BuffersSound
<1>1. PBInv => BuffersSound
  BY DEF PBInv
<1> QED
  BY <1>1, PBInit, PBNext, PTL DEF Spec

(* A buffer goes with the only process that still refers to it.             *)
THEOREM BufferGoesLast == ASSUME NamesOK PROVE Spec => OthersKeepBuffer
<1> DEFINE Goes(d) == stub[d] # NONE /\ stub'[d] = NONE
           Users(d) == {p \in Processes : items[p][d] > 0}
           Keeps == \A d \in Devices : Goes(d) => Cardinality(Users(d)) = 1
<1>1. ASSUME PBInv, NEW d \in Devices, Goes(d), NEW p \in Processes,
             Cardinality(References(d)) = items[p][d]
      PROVE  Cardinality(Users(d)) = 1
  <2>1. items[p][d] \in Nat /\ IsFiniteSet(References(d)) /\ References(d) # {}
    BY <1>1 DEF PBInv, PBTypes, BuffersSound, BuffersCounted
  <2>2. Claim(p, items[p][d]) = References(d)
    <3>1. /\ Claim(p, items[p][d]) \subseteq References(d)
          /\ Cardinality(Claim(p, items[p][d])) = items[p][d]
      BY <2>1, ClaimIsReferred, ClaimCounts
    <3> QED
      BY <1>1, <2>1, <3>1, FS_Subset
  <2>3. items[p][d] > 0
    <3>1. items[p][d] # 0
      BY <1>1, <2>1, FS_EmptySet
    <3> QED
      BY <2>1, <3>1
  <2>4. ASSUME NEW q \in Processes, items[q][d] > 0  PROVE q = p
    <3>1. items[q][d] \in Nat
      BY <1>1 DEF PBInv, PBTypes
    <3>2. 1 \in 1..items[q][d]
      BY <2>4, <3>1
    <3>3. <<q, 1>> \in Claim(p, items[p][d])
      BY <2>2, <3>2, ReferenceMeans
    <3> QED
      BY <3>3 DEF Claim
  <2>5. Users(d) = {p}
    BY <2>3, <2>4
  <2> QED
    BY <2>5, FS_Singleton
<1>2. ASSUME NamesOK, PBInv, [Next]_vars, NEW d \in Devices, Goes(d)
      PROVE  \E p \in Processes : Cardinality(References(d)) = items[p][d]
  <2>1. /\ stub \in [Devices -> Buffer \cup {NONE}] /\ stub[d] \in Buffer
        /\ Cardinality(References(d)) = stub[d].refCount
    BY <1>2 DEF PBInv, PBTypes, BuffersSound, BuffersCounted
  <2>2. ASSUME NEW e \in Devices, NEW b \in Buffer, stub' = [stub EXCEPT ![e] = b]  PROVE FALSE
    BY <1>2, <2>1, <2>2 DEF NamesOK, Buffer
  <2>3. ASSUME NEW p \in Processes, NEW e \in Devices, stub[e] # NONE, Refer(p, e)  PROVE FALSE
    <3>1. SameMems
      BY <1>2, <2>3, ReferKeeps
    <3> QED
      BY <1>2, <3>1 DEF SameMems
  <2>4. ASSUME NEW p \in Processes, NEW e \in Devices, SGXUnrefSharedPBDescKM(p, e)
        PROVE  Cardinality(References(d)) = items[p][d]
    <3>1. d = e /\ stub[e].refCount = 1 /\ items[p][e] > 0
      <4>1. stub[d] # NONE /\ stub'[d] = NONE
        BY <1>2
      <4>2. CASE stub[e].refCount = 1
        <5>1. stub' = [stub EXCEPT ![e] = NONE] /\ items[p][e] > 0
          BY <2>4, <4>2 DEF SGXUnrefSharedPBDescKM, SGXCleanupSharedPBDescKM
        <5> QED
          BY <2>1, <4>1, <4>2, <5>1
      <4>3. CASE stub[e].refCount # 1
        <5>1. stub' = [stub EXCEPT ![e].refCount = @ - 1]
          BY <2>4, <4>3 DEF SGXUnrefSharedPBDescKM, SGXCleanupSharedPBDescKM
        <5>2. d = e /\ stub'[d] = [stub[d] EXCEPT !.refCount = stub[d].refCount - 1]
          BY <2>1, <4>1, <5>1
        <5>3. stub[e].refCount - 1 \in Nat
          <6>1. stub[e].refCount \in Nat /\ References(e) # {} /\ IsFiniteSet(References(e))
            BY <1>2, <2>1, <5>2 DEF Buffer, PBInv, BuffersSound, BuffersCounted
          <6>2. stub[e].refCount # 0
            BY <2>1, <5>2, <6>1, FS_EmptySet
          <6> QED
            BY <6>1, <6>2
        <5> QED
          BY <1>2, <2>1, <4>1, <5>2, <5>3 DEF NamesOK, Buffer
      <4> QED
        BY <4>2, <4>3
    <3>2. items[p][d] \in Nat /\ items[p][d] > 0 /\ IsFiniteSet(References(d))
          /\ Cardinality(References(d)) = 1
      BY <1>2, <2>1, <3>1 DEF PBInv, PBTypes
    <3>3. /\ Claim(p, items[p][d]) \subseteq References(d)
          /\ Cardinality(Claim(p, items[p][d])) = items[p][d]
      BY <3>2, ClaimIsReferred, ClaimCounts
    <3>4. items[p][d] <= 1
      BY <3>2, <3>3, FS_Subset
    <3> QED
      BY <3>2, <3>4
  <2>5. ASSUME NEW p \in Processes, PVRSRVResManDisconnect(p)
        PROVE  Cardinality(References(d)) = items[p][d]
    <3>1. d \in Ends(p)
      BY <1>2, <2>5, DisconnectCounts
    <3>2. stub[d].refCount - items[p][d] = 0
      BY <3>1 DEF Ends, Left
    <3>3. stub[d].refCount \in Nat /\ items[p][d] \in Nat
      BY <1>2, <2>1 DEF PBInv, PBTypes, Buffer
    <3> QED
      BY <2>1, <3>2, <3>3
  <2>6. ASSUME stub' = stub  PROVE FALSE
    BY <1>2, <2>6
  <2>7. ASSUME NEW p \in Processes, AllocMemory(p)  PROVE FALSE
    BY <2>6, <2>7 DEF AllocMemory
  <2>8. ASSUME NEW p \in Processes, NEW e \in Devices, NEW b \in BOOLEAN,
               SGXFindSharedPBDescKM(p, e, b)
        PROVE  FALSE
    BY <2>3, <2>6, <2>8 DEF SGXFindSharedPBDescKM
  <2>9. ASSUME NEW p \in Processes, NEW e \in Devices, NEW i \in DOMAIN memory, NEW b \in BOOLEAN,
               SGXAddSharedPBDescKM(p, e, i, b)
        PROVE  FALSE
    <3>1. i \in Nat
      BY <1>2 DEF PBInv, PBTypes
    <3>2. [refCount |-> 1, mem |-> i] \in Buffer
      BY <3>1 DEF Buffer
    <3> QED
      BY <2>2, <2>3, <2>6, <2>9, <3>2 DEF SGXAddSharedPBDescKM
  <2>10. CASE UNCHANGED vars
    BY <2>6, <2>10 DEF vars
  <2>11. CASE Next
    BY <2>4, <2>5, <2>7, <2>8, <2>9, <2>11, Zenon DEF Next
  <2> QED
    BY <1>2, <2>10, <2>11
<1>3. NamesOK /\ PBInv /\ [Next]_vars => Keeps
  <2> HIDE DEF Goes, Users
  <2> QED
    BY <1>1, <1>2
<1>4. NamesOK /\ PBInv /\ [Next]_vars =>
        [\A d \in Devices : stub[d] # NONE /\ stub'[d] = NONE =>
            Cardinality({p \in Processes : items[p][d] > 0}) = 1]_vars
  BY <1>3
<1> QED
  BY <1>4, PBInit, PBNext, PTL DEF Spec, OthersKeepBuffer

-----------------------------------------------------------------------------
(* QueueList: the list, its lock and those who walk it.                    *)

CONSTANTS Queues, Walkers, Nobody
VARIABLES psQueueList, allocated, orphans, ui32Lock, ui32ID, walk, call, broken

Queueing == INSTANCE QueueList

(* The operators on sequences are the same in the instance.                 *)
LEMMA QueueingSequences ==
  ASSUME NEW s
  PROVE  /\ Queueing!ToSet(s) = ToSet(s)
         /\ Queueing!IsInjective(s) <=> IsInjective(s)
         /\ \A i : Queueing!RemoveAt(s, i) = RemoveAt(s, i)
BY DEF ToSet, Queueing!ToSet, IsInjective, Queueing!IsInjective, RemoveAt, Queueing!RemoveAt

(* QueueList: the inductive invariant.                                     *)

CallSteps == {"idle", "reset", "reset lock", "lock", "own", "change",
              "locked?", "own?", "clear", "release", "break", "break ID", "break lock"}
WalkSteps == {"idle", "own", "head", "walk", "locked?", "own?", "clear", "release"}

QueueTypes ==
    /\ psQueueList \in Seq(Queues)
    /\ allocated \in SUBSET Queues /\ orphans \in SUBSET Queues
    /\ ui32Lock \in BOOLEAN /\ broken \in BOOLEAN
    /\ walk \in [Walkers -> [pc : WalkSteps, at : Queues \cup {Nobody}]]
    /\ call \in [pc : CallSteps, queue : Queues \cup {Nobody},
                 kind : {"none", "create", "destroy"}]

(* Who took the lock and has not released it.                               *)
Holding == {"own", "change", "locked?", "own?", "clear", "release"}
WalkerHolds(w) == walk[w].pc # "idle"
CallHolds == call.pc \in Holding

(* One of them at a time, and the lock is taken then.                       *)
OneHolder ==
    /\ \A v, w \in Walkers : WalkerHolds(v) /\ WalkerHolds(w) => v = w
    /\ \A w \in Walkers : WalkerHolds(w) => ~CallHolds /\ ui32Lock
    /\ CallHolds => ui32Lock

(* A call that changes the list finds its own ID when it unlocks.           *)
OwnID == call.pc \in {"change", "locked?", "own?"} => ui32ID = "KERNEL"

(* What a call has in hand.                                                 *)
CallOK ==
    /\ call.pc \notin {"idle", "break", "break ID", "break lock"} => call.queue \in Queues
    /\ call.pc = "idle" => call.kind = "none"
    /\ call.pc # "idle" => call.kind \in {"create", "destroy"}
    /\ call.pc \in {"reset", "reset lock"} => call.kind = "create"
    /\ call.pc \in {"reset", "reset lock", "break", "break ID",
       "break lock"} => psQueueList = <<>>
    /\ call.pc \in {"break", "break ID", "break lock"} => call.kind = "destroy"
    /\ Queueing!Created \subseteq allocated
    /\ call.kind = "destroy" /\ call.pc \in {"lock", "own", "change"} =>
           call.queue \in ToSet(psQueueList) \ orphans

ListOK ==
    /\ ToSet(psQueueList) = allocated \ Queueing!Created /\ IsInjective(psQueueList)
    /\ orphans \subseteq ToSet(psQueueList)
    /\ orphans \cap Queueing!Created = {}

(* A walker stands on a queue of the list, or nowhere.                      *)
WalkOK ==
    \A w \in Walkers :
        /\ walk[w].pc # "walk" => walk[w].at = Nobody
        /\ walk[w].at # Nobody => walk[w].at \in ToSet(psQueueList)

Lost == psQueueList = <<>> /\ \A w \in Walkers : walk[w].at = Nobody

QueueSound == OneHolder /\ OwnID /\ CallOK /\ ListOK /\ WalkOK

QueueInv ==
    /\ QueueTypes
    /\ broken => Lost
    /\ ~broken => QueueSound

-----------------------------------------------------------------------------
(* Lists without repetition.                                                *)

(* The elements that remain when one is taken out of a list.                 *)
LEMMA RemoveAtElements ==
  ASSUME NEW S, NEW s \in Seq(S), NEW i \in DOMAIN s
  PROVE  /\ RemoveAt(s, i) \in Seq(S) /\ Len(RemoveAt(s, i)) = Len(s) - 1
         /\ \A j \in 1..Len(s)-1 : RemoveAt(s, i)[j] = IF j < i THEN s[j] ELSE s[j + 1]
<1>0. /\ Len(s) \in Nat /\ DOMAIN s = 1..Len(s) /\ i \in 1..Len(s)
      /\ \A j \in 1..Len(s) : s[j] \in S
  OBVIOUS
<1> DEFINE left  == SubSeq(s, 1, i - 1)
           right == SubSeq(s, i + 1, Len(s))
<1>1. /\ left \in Seq(S) /\ Len(left) = i - 1
      /\ \A j \in 1..i-1 : left[j] = s[j]
  <2>1. 1 \in Int /\ i - 1 \in Int /\ \A j \in 1..i-1 : s[j] \in S
    BY <1>0
  <2>2. /\ left \in Seq(S) /\ Len(left) = IF 1 <= i - 1 THEN (i - 1) - 1 + 1 ELSE 0
        /\ \A j \in 1..(i-1)-1+1 : left[j] = s[1 + j - 1]
    BY <2>1, SubSeqProperties
  <2> HIDE DEF left
  <2> QED
    BY <1>0, <2>2
<1>2. /\ right \in Seq(S) /\ Len(right) = Len(s) - i
      /\ \A j \in 1..Len(s)-i : right[j] = s[j + i]
  <2>1. i + 1 \in Int /\ Len(s) \in Int /\ \A j \in i+1..Len(s) : s[j] \in S
    BY <1>0
  <2>2. /\ right \in Seq(S) /\ Len(right) = IF i + 1 <= Len(s) THEN Len(s) - (i + 1) + 1 ELSE 0
        /\ \A j \in 1..Len(s)-(i+1)+1 : right[j] = s[i + 1 + j - 1]
    BY <2>1, SubSeqProperties
  <2> HIDE DEF right
  <2>3. Len(right) = Len(s) - i
    BY <1>0, <2>2
  <2>4. ASSUME NEW j \in 1..Len(s)-i  PROVE right[j] = s[j + i]
    <3>1. j \in 1..Len(s)-(i+1)+1 /\ i + 1 + j - 1 = j + i
      BY <1>0
    <3> QED
      BY <2>2, <3>1
  <2> QED
    BY <2>2, <2>3, <2>4
<1> HIDE DEF left, right
<1>3. /\ left \o right \in Seq(S) /\ Len(left \o right) = Len(s) - 1
      /\ \A j \in 1..Len(s)-1 : (left \o right)[j]
           = IF j <= i - 1 THEN left[j] ELSE right[j - (i - 1)]
  <2>1. /\ left \o right \in Seq(S) /\ Len(left \o right) = Len(left) + Len(right)
        /\ \A j \in 1..Len(left) + Len(right) :
              (left \o right)[j] = IF j <= Len(left) THEN left[j] ELSE right[j - Len(left)]
    BY <1>1, <1>2, ConcatProperties, Zenon
  <2>2. Len(left) + Len(right) = Len(s) - 1
    BY <1>0, <1>1, <1>2
  <2> QED
    BY <1>1, <2>1, <2>2, Zenon
<1>4. ASSUME NEW j \in 1..Len(s)-1  PROVE (left \o right)[j] = IF j < i THEN s[j] ELSE s[j + 1]
  <2>1. CASE j < i
    BY <1>0, <1>1, <1>3, <2>1
  <2>2. CASE j >= i
    <3>1. j - (i - 1) \in 1..Len(s)-i /\ (j - (i - 1)) + i = j + 1
      BY <1>0, <2>2
    <3> QED
      BY <1>0, <1>2, <1>3, <2>2, <3>1
  <2>3. j < i \/ j >= i
    BY <1>0
  <2> QED
    BY <2>1, <2>2, <2>3, Zenon
<1> QED
  BY <1>3, <1>4 DEF RemoveAt, left, right

(* A list without repetition loses exactly what is taken out of it.         *)
LEMMA RemoveAtMeans ==
  ASSUME NEW S, NEW s \in Seq(S), IsInjective(s), NEW i \in DOMAIN s
  PROVE  /\ RemoveAt(s, i) \in Seq(S)
         /\ ToSet(RemoveAt(s, i)) = ToSet(s) \ {s[i]}
         /\ IsInjective(RemoveAt(s, i))
<1> DEFINE r == RemoveAt(s, i)
<1>1. /\ Len(s) \in Nat /\ DOMAIN s = 1..Len(s) /\ i \in 1..Len(s)
      /\ \A j \in 1..Len(s) : s[j] \in S
  OBVIOUS
<1>2. /\ r \in Seq(S) /\ Len(r) = Len(s) - 1
      /\ \A j \in 1..Len(s)-1 : r[j] = IF j < i THEN s[j] ELSE s[j + 1]
  BY RemoveAtElements
<1>3. DOMAIN r = 1..Len(s)-1
  BY <1>1, <1>2
<1> HIDE DEF r
<1>4. ToSet(r) \subseteq ToSet(s) \ {s[i]}
  BY <1>1, <1>2, <1>3 DEF ToSet, IsInjective
<1>5. ASSUME NEW x \in ToSet(s) \ {s[i]}  PROVE x \in ToSet(r)
  <2>1. PICK j \in 1..Len(s) : s[j] = x
    BY <1>1, <1>5 DEF ToSet
  <2>2. CASE j < i
    <3>1. j \in 1..Len(s)-1 /\ r[j] = x
      BY <1>1, <1>2, <2>1, <2>2
    <3> QED
      BY <1>3, <3>1 DEF ToSet
  <2>3. CASE j > i
    <3>1. j - 1 \in 1..Len(s)-1 /\ r[j - 1] = x
      BY <1>1, <1>2, <2>1, <2>3
    <3> QED
      BY <1>3, <3>1 DEF ToSet
  <2> QED
    BY <1>1, <1>5, <2>1, <2>2, <2>3
<1>6. IsInjective(r)
  <2> SUFFICES ASSUME NEW j \in 1..Len(s)-1, NEW k \in 1..Len(s)-1, j < k  PROVE r[j] # r[k]
    BY <1>1, <1>3 DEF IsInjective
  <2> DEFINE at(m) == IF m < i THEN m ELSE m + 1
  <2>1. /\ at(j) \in 1..Len(s) /\ at(k) \in 1..Len(s) /\ at(j) # at(k)
        /\ r[j] = s[at(j)] /\ r[k] = s[at(k)]
    BY <1>1, <1>2
  <2> QED
    BY <1>1, <2>1 DEF IsInjective
<1> QED
  BY <1>2, <1>4, <1>5, <1>6 DEF r

(* A list without repetition gains exactly what is put in front of it.      *)
LEMMA PrependMeans ==
  ASSUME NEW S, NEW s \in Seq(S), IsInjective(s), NEW x \in S, x \notin ToSet(s)
  PROVE  /\ <<x>> \o s \in Seq(S)
         /\ ToSet(<<x>> \o s) = ToSet(s) \cup {x}
         /\ IsInjective(<<x>> \o s)
<1> DEFINE r == <<x>> \o s
<1>1. Len(s) \in Nat /\ DOMAIN s = 1..Len(s) /\ \A j \in 1..Len(s) : s[j] \in S /\ s[j] # x
  BY DEF ToSet
<1>2. /\ r \in Seq(S) /\ Len(r) = Len(s) + 1 /\ r[1] = x
      /\ \A j \in 1..Len(s)+1 : j # 1 => r[j] = s[j - 1]
  BY <1>1
<1>3. DOMAIN r = 1..Len(s)+1
  BY <1>1, <1>2
<1> HIDE DEF r
<1>4. ToSet(r) \subseteq ToSet(s) \cup {x}
  BY <1>1, <1>2, <1>3 DEF ToSet
<1>5. x \in ToSet(r)
  BY <1>1, <1>2, <1>3 DEF ToSet
<1>6. ASSUME NEW j \in 1..Len(s)  PROVE s[j] \in ToSet(r)
  <2>1. j + 1 \in DOMAIN r /\ r[j + 1] = s[j]
    BY <1>1, <1>2, <1>3
  <2> QED
    BY <2>1 DEF ToSet
<1>7. IsInjective(r)
  <2> SUFFICES ASSUME NEW j \in 1..Len(s)+1, NEW k \in 1..Len(s)+1, j < k  PROVE r[j] # r[k]
    BY <1>1, <1>3 DEF IsInjective
  <2>1. k - 1 \in 1..Len(s) /\ r[k] = s[k - 1]
    BY <1>1, <1>2
  <2>2. CASE j = 1
    BY <1>1, <1>2, <2>1, <2>2
  <2>3. CASE j # 1
    <3>1. j - 1 \in 1..Len(s) /\ r[j] = s[j - 1] /\ j - 1 # k - 1
      BY <1>1, <1>2, <2>3
    <3> QED
      BY <1>1, <2>1, <3>1 DEF IsInjective
  <2> QED
    BY <2>2, <2>3
<1>8. ToSet(s) \subseteq ToSet(r)
  BY <1>1, <1>6 DEF ToSet
<1> QED
  BY <1>2, <1>4, <1>5, <1>7, <1>8 DEF r

(* What a walker goes to next is in the list.                               *)
LEMMA AfterListed ==
  ASSUME psQueueList \in Seq(Queues), NEW q \in ToSet(psQueueList)
  PROVE  /\ Queueing!Place(q) \in DOMAIN psQueueList /\ psQueueList[Queueing!Place(q)] = q
         /\ Queueing!After(q) \in ToSet(psQueueList) \cup {Nobody}
<1>1. \E i \in DOMAIN psQueueList : psQueueList[i] = q
  BY DEF ToSet
<1>2. Queueing!Place(q) \in DOMAIN psQueueList /\ psQueueList[Queueing!Place(q)] = q
  BY <1>1 DEF Queueing!Place
<1> DEFINE p == Queueing!Place(q)
<1>3. Len(psQueueList) \in Nat /\ DOMAIN psQueueList = 1..Len(psQueueList)
  OBVIOUS
<1>4. p \in 1..Len(psQueueList)
  BY <1>2, <1>3
<1> HIDE DEF p
<1>5. p < Len(psQueueList) => p + 1 \in DOMAIN psQueueList
  BY <1>3, <1>4
<1>6. p < Len(psQueueList) => psQueueList[p + 1] \in ToSet(psQueueList)
  BY <1>5 DEF ToSet
<1> QED
  BY <1>2, <1>6 DEF Queueing!After, p

-----------------------------------------------------------------------------
(* The steps.                                                               *)

(* The list is empty at first and nobody holds the lock.                    *)
LEMMA QueueInit == Queueing!Init => QueueInv
<1> SUFFICES ASSUME Queueing!Init PROVE QueueInv
  OBVIOUS
<1>1. QueueTypes
  <2>1. psQueueList \in Seq(Queues)
    BY EmptySeq DEF Queueing!Init
  <2>2. /\ allocated \in SUBSET Queues /\ orphans \in SUBSET Queues
        /\ ui32Lock \in BOOLEAN /\ broken \in BOOLEAN
    BY DEF Queueing!Init
  <2>3. walk \in [Walkers -> [pc : WalkSteps, at : Queues \cup {Nobody}]]
    BY DEF Queueing!Init, WalkSteps
  <2>4. call \in [pc : CallSteps, queue : Queues \cup {Nobody},
                  kind : {"none", "create", "destroy"}]
    BY DEF Queueing!Init, Queueing!NoCall, CallSteps
  <2> QED
    BY <2>1, <2>2, <2>3, <2>4 DEF QueueTypes
<1>2. ~broken /\ OneHolder /\ OwnID
  BY DEF Queueing!Init, Queueing!NoCall, OneHolder, OwnID, WalkerHolds, CallHolds, Holding
<1>3. CallOK
  BY DEF Queueing!Init, Queueing!NoCall, CallOK, Queueing!Created
<1>4. ListOK
  BY DEF Queueing!Init, Queueing!NoCall, ListOK, Queueing!Created, ToSet, IsInjective
<1>5. WalkOK
  BY DEF Queueing!Init, WalkOK
<1> QED
  BY <1>1, <1>2, <1>3, <1>4, <1>5 DEF QueueInv, QueueSound

(* What nobody but a call touches.                                          *)
CallKept == UNCHANGED <<psQueueList, allocated, orphans, call, broken>>

(* What is said of the call holds as long as the call rests.                *)
LEMMA CallKeptMeans ==
  ASSUME CallKept, QueueTypes, ~broken, QueueSound, OneHolder', OwnID', WalkOK'
  PROVE  ~broken' /\ QueueSound'
<1>1. /\ psQueueList' = psQueueList /\ allocated' = allocated /\ orphans' = orphans
      /\ call' = call /\ broken' = broken
  BY DEF CallKept
<1>2. CallOK'
  BY <1>1 DEF QueueSound, CallOK, Queueing!Created
<1>3. ListOK'
  BY <1>1 DEF QueueSound, ListOK, Queueing!Created
<1> QED
  BY <1>1, <1>2, <1>3 DEF QueueSound

(* A walker goes from where it is to pc, and nobody else holds the lock if  *)
(* it holds it afterwards.                                                  *)
LEMMA WalkerMoves ==
  ASSUME QueueTypes, OneHolder, NEW w \in Walkers, NEW pc \in WalkSteps,
         NEW at \in Queues \cup {Nobody},
         walk' = [walk EXCEPT ![w] = [pc |-> pc, at |-> at]],
         call' = call, WalkerHolds(w), pc # "idle" => ui32Lock'
  PROVE  OneHolder'
<1>1. walk'[w].pc = pc /\ \A v \in Walkers \ {w} : walk'[v] = walk[v]
  BY DEF QueueTypes
<1>2. ~CallHolds /\ ~CallHolds'
  BY DEF OneHolder, CallHolds
<1>3. \A v \in Walkers \ {w} : ~WalkerHolds(v)
  BY DEF OneHolder
<1>4. \A v \in Walkers \ {w} : ~WalkerHolds(v)'
  BY <1>1, <1>3 DEF WalkerHolds
<1>5. WalkerHolds(w)' => ui32Lock'
  BY <1>1 DEF WalkerHolds
<1> QED
  BY <1>2, <1>4, <1>5 DEF OneHolder

(* What it means for a walker to go on.                                     *)
LEMMA GoesMeans ==
  ASSUME QueueTypes, NEW w \in Walkers, NEW pc, Queueing!Goes(w, pc)
  PROVE  walk' = [walk EXCEPT ![w] = [pc |-> pc, at |-> walk[w].at]]
<1>1. walk[w] \in [pc : WalkSteps, at : Queues \cup {Nobody}]
  BY DEF QueueTypes
<1>2. [walk[w] EXCEPT !.pc = pc] = [pc |-> pc, at |-> walk[w].at]
  BY <1>1
<1> QED
  BY <1>2 DEF Queueing!Goes

(* A step of a walker takes the lock, asks in vain, goes on, or leaves.     *)
Takes(w, pc, at) ==
    /\ walk[w].pc = "idle" /\ ~ui32Lock /\ pc = "own" /\ at = walk[w].at
    /\ ui32Lock' = TRUE /\ ui32ID' = ui32ID
GoesOn(w, pc, at) ==
    /\ walk[w].pc # "idle" /\ pc # "idle" /\ ui32Lock' = ui32Lock
    /\ ui32ID' \in {ui32ID, "ISR", Nobody}
    /\ \/ pc # "walk" /\ at = walk[w].at /\ (walk[w].pc = "walk" => at = Nobody)
       \/ pc = "walk" /\ at = Queueing!Head0
       \/ pc = "walk" /\ walk[w].at # Nobody /\ at = Queueing!After(walk[w].at)
GoesOut(w, pc, at) ==
    /\ walk[w].pc \notin {"idle", "walk"} /\ pc = "idle" /\ at = walk[w].at
    /\ ui32Lock' \in {ui32Lock, FALSE}

(* Every step of a walker is one of these three.                            *)
LEMMA WalkSplits ==
  ASSUME QueueTypes, NEW w \in Walkers, Queueing!Walk(w)
  PROVE  /\ ~broken /\ CallKept
         /\ \/ UNCHANGED <<walk, ui32Lock, ui32ID>>
            \/ \E pc \in WalkSteps : \E at :
                 /\ walk' = [walk EXCEPT ![w] = [pc |-> pc, at |-> at]]
                 /\ Takes(w, pc, at) \/ GoesOn(w, pc, at) \/ GoesOut(w, pc, at)
<1> DEFINE Step(pc, at) == /\ walk' = [walk EXCEPT ![w] = [pc |-> pc, at |-> at]]
                           /\ Takes(w, pc, at) \/ GoesOn(w, pc, at) \/ GoesOut(w, pc, at)
           Goal == \/ UNCHANGED <<walk, ui32Lock, ui32ID>>
                   \/ \E pc \in WalkSteps : \E at : Step(pc, at)
           here == walk[w]
<1>1. ~broken /\ CallKept
  BY DEF Queueing!Walk, CallKept
<1>2. here \in [pc : WalkSteps, at : Queues \cup {Nobody}] /\ ui32Lock \in BOOLEAN
  BY DEF QueueTypes
<1>3. ASSUME NEW pc \in WalkSteps, NEW at, Step(pc, at)  PROVE Goal
  BY <1>3, Zenon
<1> SUFFICES Goal
  BY <1>1
<1> HIDE DEF Goal
<1>4. CASE here.pc = "idle" /\ Queueing!OSLockResource(Queueing!Goes(w, "own"), UNCHANGED walk)
  <2>1. CASE ~ui32Lock /\ ui32Lock' = TRUE /\ Queueing!Goes(w, "own") /\ UNCHANGED ui32ID
    <3>1. walk' = [walk EXCEPT ![w] = [pc |-> "own", at |-> here.at]]
      BY <2>1, GoesMeans
    <3>2. Takes(w, "own", here.at)
      BY <1>4, <2>1 DEF Takes
    <3>3. "own" \in WalkSteps
      BY DEF WalkSteps
    <3> QED
      BY <1>3, <3>1, <3>2, <3>3
  <2> QED
    BY <1>4, <2>1 DEF Queueing!OSLockResource, Goal
<1>5. CASE here.pc = "own" /\ Queueing!Owns("ISR") /\ Queueing!Goes(w, "head")
  <2>1. walk' = [walk EXCEPT ![w] = [pc |-> "head", at |-> here.at]]
    BY <1>5, GoesMeans
  <2>2. GoesOn(w, "head", here.at)
    BY <1>5 DEF GoesOn, Queueing!Owns
  <2>3. "head" \in WalkSteps
    BY DEF WalkSteps
  <2> QED
    BY <1>3, <2>1, <2>2, <2>3
<1>6. CASE /\ here.pc = "head" /\ UNCHANGED <<ui32Lock, ui32ID>>
           /\ walk' = [walk EXCEPT ![w] = [pc |-> "walk", at |-> Queueing!Head0]]
  <2>1. GoesOn(w, "walk", Queueing!Head0)
    BY <1>6 DEF GoesOn
  <2>2. "walk" \in WalkSteps
    BY DEF WalkSteps
  <2> QED
    BY <1>3, <1>6, <2>1, <2>2
<1>7. CASE /\ here.pc = "walk" /\ here.at # Nobody /\ UNCHANGED <<ui32Lock, ui32ID>>
           /\ walk' = [walk EXCEPT ![w].at = Queueing!After(@)]
  <2>1. [here EXCEPT !.at = Queueing!After(@)] = [pc |-> "walk", at |-> Queueing!After(here.at)]
    BY <1>2, <1>7
  <2>2. walk' = [walk EXCEPT ![w] = [pc |-> "walk", at |-> Queueing!After(here.at)]]
    BY <1>7, <2>1
  <2>3. GoesOn(w, "walk", Queueing!After(here.at))
    BY <1>7 DEF GoesOn
  <2>4. "walk" \in WalkSteps
    BY DEF WalkSteps
  <2> QED
    BY <1>3, <2>2, <2>3, <2>4
<1>8. CASE here.pc = "walk" /\ here.at = Nobody /\ Queueing!Goes(w,
      "locked?") /\ UNCHANGED <<ui32Lock, ui32ID>>
  <2>1. walk' = [walk EXCEPT ![w] = [pc |-> "locked?", at |-> here.at]]
    BY <1>8, GoesMeans
  <2>2. GoesOn(w, "locked?", here.at)
    BY <1>8 DEF GoesOn
  <2>3. "locked?" \in WalkSteps
    BY DEF WalkSteps
  <2> QED
    BY <1>3, <2>1, <2>2, <2>3
<1>9. CASE /\ here.pc \in Queueing!Unlocking /\ Queueing!Clears(here.pc)
           /\ LET pc == Queueing!OSUnlockResource(here.pc, "ISR") IN Queueing!Goes(w,
              IF pc = "refused" THEN "idle" ELSE pc)
  <2> DEFINE pc == Queueing!OSUnlockResource(here.pc, "ISR")
             to == IF pc = "refused" THEN "idle" ELSE pc
  <2>1. pc \in {"own?", "clear", "release", "refused"}
    BY <1>9 DEF Queueing!OSUnlockResource, Queueing!Unlocking
  <2>2. to \in {"own?", "clear", "release", "idle"}
    BY <2>1
  <2>3. walk' = [walk EXCEPT ![w] = [pc |-> to, at |-> here.at]]
    BY <1>9, GoesMeans
  <2>4. ui32Lock' = ui32Lock /\ ui32ID' \in {ui32ID, Nobody}
    BY <1>9 DEF Queueing!Clears
  <2>5. here.pc \notin {"idle", "walk"}
    BY <1>9 DEF Queueing!Unlocking
  <2> HIDE DEF to
  <2>6. to # "idle" => GoesOn(w, to, here.at)
    BY <2>2, <2>4, <2>5 DEF GoesOn
  <2>7. to = "idle" => GoesOut(w, to, here.at)
    BY <2>4, <2>5 DEF GoesOut
  <2>8. to \in WalkSteps
    BY <2>2 DEF WalkSteps
  <2> QED
    BY <1>3, <2>3, <2>6, <2>7, <2>8
<1>10. CASE here.pc = "release" /\ Queueing!Release /\ Queueing!Goes(w, "idle")
  <2>1. walk' = [walk EXCEPT ![w] = [pc |-> "idle", at |-> here.at]]
    BY <1>10, GoesMeans
  <2>2. GoesOut(w, "idle", here.at)
    BY <1>10 DEF GoesOut, Queueing!Release
  <2>3. "idle" \in WalkSteps
    BY DEF WalkSteps
  <2> QED
    BY <1>3, <2>1, <2>2, <2>3
<1> QED
  BY <1>4, <1>5, <1>6, <1>7, <1>8, <1>9, <1>10, Zenon DEF Queueing!Walk

(* A walker keeps the invariant: it moves in a list that nobody changes     *)
(* while it holds the lock.                                                 *)
LEMMA WalkKeeps ==
  ASSUME QueueTypes, QueueSound, NEW w \in Walkers, Queueing!Walk(w)
  PROVE  QueueInv'
<1>1. /\ ~broken /\ CallKept
      /\ \/ UNCHANGED <<walk, ui32Lock, ui32ID>>
         \/ \E pc \in WalkSteps : \E at :
              /\ walk' = [walk EXCEPT ![w] = [pc |-> pc, at |-> at]]
              /\ Takes(w, pc, at) \/ GoesOn(w, pc, at) \/ GoesOut(w, pc, at)
  BY WalkSplits
<1>2. /\ psQueueList' = psQueueList /\ allocated' = allocated /\ orphans' = orphans
      /\ call' = call /\ broken' = broken
  BY <1>1 DEF CallKept
<1>3. CASE UNCHANGED <<walk, ui32Lock, ui32ID>>
  <2>1. QueueTypes'
    BY <1>2, <1>3, Zenon DEF QueueTypes
  <2>2. OneHolder' /\ OwnID' /\ WalkOK'
    BY <1>2, <1>3 DEF QueueSound, OneHolder, OwnID, WalkOK, WalkerHolds, CallHolds
  <2>3. ~broken' /\ QueueSound'
    BY <1>1, <2>2, CallKeptMeans
  <2> QED
    BY <2>1, <2>3 DEF QueueInv
<1>4. ASSUME NEW pc \in WalkSteps, NEW at,
             walk' = [walk EXCEPT ![w] = [pc |-> pc, at |-> at]],
             Takes(w, pc, at) \/ GoesOn(w, pc, at) \/ GoesOut(w, pc, at)
      PROVE  QueueInv'
  <2>1. walk[w] \in [pc : WalkSteps, at : Queues \cup {Nobody}] /\ psQueueList \in Seq(Queues)
    BY DEF QueueTypes
  <2>2. Queueing!Head0 \in ToSet(psQueueList) \cup {Nobody}
    BY <2>1 DEF Queueing!Head0, ToSet
  <2>3. at \in ToSet(psQueueList) \cup {Nobody} /\ (pc # "walk" => at = Nobody)
    <3>1. /\ walk[w].at # Nobody => walk[w].at \in ToSet(psQueueList)
          /\ walk[w].pc # "walk" => walk[w].at = Nobody
      BY DEF QueueSound, WalkOK
    <3>2. walk[w].at # Nobody => Queueing!After(walk[w].at) \in ToSet(psQueueList) \cup {Nobody}
      BY <2>1, <3>1, AfterListed
    <3>3. CASE Takes(w, pc, at)
      BY <3>1, <3>3 DEF Takes
    <3>4. CASE GoesOn(w, pc, at)
      BY <2>2, <3>1, <3>2, <3>4 DEF GoesOn
    <3>5. CASE GoesOut(w, pc, at)
      BY <3>1, <3>5 DEF GoesOut
    <3> QED
      BY <1>4, <3>3, <3>4, <3>5
  <2>4. at \in Queues \cup {Nobody}
    BY <2>1, <2>3 DEF ToSet
  <2>5. walk' \in [Walkers -> [pc : WalkSteps, at : Queues \cup {Nobody}]]
    <3>1. [pc |-> pc, at |-> at] \in [pc : WalkSteps, at : Queues \cup {Nobody}]
      BY <2>4
    <3> QED
      BY <1>4, <3>1 DEF QueueTypes
  <2>6. ui32Lock' \in BOOLEAN
    BY <1>4 DEF QueueTypes, Takes, GoesOn, GoesOut
  <2>7. QueueTypes'
    BY <1>2, <2>5, <2>6, Zenon DEF QueueTypes
  <2>8. WalkOK'
    <3>1. walk'[w] = [pc |-> pc, at |-> at] /\ \A v \in Walkers \ {w} : walk'[v] = walk[v]
      BY <1>4 DEF QueueTypes
    <3>2. \A v \in Walkers : /\ walk[v].pc # "walk" => walk[v].at = Nobody
                             /\ walk[v].at # Nobody => walk[v].at \in ToSet(psQueueList)
      BY DEF QueueSound, WalkOK
    <3>3. ToSet(psQueueList)' = ToSet(psQueueList)
      BY <1>2
    <3> QED
      BY <2>3, <3>1, <3>2, <3>3 DEF WalkOK
  <2>9. OneHolder' /\ OwnID'
    <3>1. CASE Takes(w, pc, at)
      <4>1. ~CallHolds /\ \A v \in Walkers : ~WalkerHolds(v)
        BY <3>1 DEF QueueSound, OneHolder, Takes
      <4>2. ~CallHolds' /\ \A v \in Walkers \ {w} : ~WalkerHolds(v)'
        <5>1. \A v \in Walkers \ {w} : walk'[v] = walk[v]
          BY <1>4 DEF QueueTypes
        <5> QED
          BY <1>2, <4>1, <5>1 DEF WalkerHolds, CallHolds
      <4>3. OneHolder'
        BY <3>1, <4>2 DEF OneHolder, Takes
      <4>4. OwnID'
        BY <1>2, <3>1 DEF QueueSound, OwnID, Takes
      <4> QED
        BY <4>3, <4>4
    <3>2. CASE GoesOn(w, pc, at) \/ GoesOut(w, pc, at)
      <4>1. WalkerHolds(w)
        BY <3>2 DEF WalkerHolds, GoesOn, GoesOut
      <4>2. ~CallHolds /\ ui32Lock
        BY <4>1 DEF QueueSound, OneHolder
      <4>3. pc # "idle" => ui32Lock'
        BY <3>2, <4>2 DEF GoesOn, GoesOut
      <4>4. OneHolder'
        BY <1>2, <1>4, <2>4, <4>1, <4>3, WalkerMoves DEF QueueSound
      <4>5. OwnID'
        BY <1>2, <4>2 DEF OwnID, CallHolds, Holding
      <4> QED
        BY <4>4, <4>5
    <3> QED
      BY <1>4, <3>1, <3>2
  <2>10. ~broken' /\ QueueSound'
    BY <1>1, <2>8, <2>9, CallKeptMeans
  <2> QED
    BY <2>7, <2>10 DEF QueueInv
<1> QED
  BY <1>1, <1>3, <1>4

-----------------------------------------------------------------------------
(* The calls.                                                               *)

(* Where a call that leaves the walkers alone may take the lock to.         *)
LEMMA CallsMean ==
  ASSUME QueueTypes, NEW pc, Queueing!Calls(pc)
  PROVE  call' = [pc |-> pc, queue |-> call.queue, kind |-> call.kind]
<1>1. call \in [pc : CallSteps, queue : Queues \cup {Nobody},
                kind : {"none", "create", "destroy"}]
  BY DEF QueueTypes
<1> QED
  BY <1>1 DEF Queueing!Calls

(* The walkers stay where they are while the call has the lock or is        *)
(* outside.                                                                 *)
LEMMA CallHoldsAlone ==
  ASSUME OneHolder, walk' = walk, CallHolds' => (CallHolds \/ ~ui32Lock) /\ ui32Lock',
         ui32Lock => ui32Lock' \/ CallHolds
  PROVE  OneHolder'
<1>1. \A v \in Walkers : WalkerHolds(v)' <=> WalkerHolds(v)
  BY DEF WalkerHolds
<1>2. ASSUME NEW v \in Walkers, WalkerHolds(v)'  PROVE ~CallHolds' /\ ui32Lock'
  <2>1. WalkerHolds(v)
    BY <1>1, <1>2
  <2> QED
    BY <2>1 DEF OneHolder
<1>3. \A v, w \in Walkers : WalkerHolds(v)' /\ WalkerHolds(w)' => v = w
  BY <1>1 DEF OneHolder
<1> QED
  BY <1>2, <1>3 DEF OneHolder

(* A call to create a queue begins: the queue has memory and is not in      *)
(* the list.                                                                *)
LEMMA CreateKeeps ==
  ASSUME QueueTypes, QueueSound, NEW q \in Queues, Queueing!PVRSRVCreateCommandQueueKM(q)
  PROVE  QueueInv'
<1>1. /\ ~broken /\ call.pc = "idle" /\ q \notin allocated \cup orphans
      /\ allocated' = allocated \cup {q}
      /\ call' = [pc |-> IF psQueueList = <<>> THEN "reset" ELSE "lock", queue |-> q,
         kind |-> "create"]
      /\ psQueueList' = psQueueList /\ orphans' = orphans /\ ui32Lock' = ui32Lock
      /\ ui32ID' = ui32ID /\ walk' = walk /\ broken' = broken
  BY DEF Queueing!PVRSRVCreateCommandQueueKM
<1>2. call'.pc \in {"reset", "lock"} /\ call'.queue = q /\ call'.kind = "create"
  BY <1>1
<1>3. QueueTypes'
  <2>1. call' \in [pc : CallSteps, queue : Queues \cup {Nobody},
                   kind : {"none", "create", "destroy"}]
    BY <1>1 DEF CallSteps
  <2>2. allocated' \in SUBSET Queues
    BY <1>1 DEF QueueTypes
  <2> QED
    BY <1>1, <2>1, <2>2, Zenon DEF QueueTypes
<1>4. OneHolder'
  <2>1. ~CallHolds'
    BY <1>2 DEF CallHolds, Holding
  <2> QED
    BY <1>1, <2>1, CallHoldsAlone DEF QueueSound
<1>5. OwnID' /\ WalkOK'
  BY <1>1, <1>2 DEF QueueSound, OwnID, WalkOK
<1>6. Queueing!Created = {} /\ Queueing!Created' = {q}
  <2>1. call.kind = "none"
    BY <1>1 DEF QueueSound, CallOK
  <2> QED
    BY <1>2, <2>1 DEF Queueing!Created
<1>7. ListOK'
  BY <1>1, <1>6 DEF QueueSound, ListOK
<1>8. CallOK'
  <2>1. call'.pc = "reset" => psQueueList' = <<>>
    BY <1>1
  <2> QED
    BY <1>1, <1>2, <1>6, <2>1 DEF CallOK
<1> QED
  BY <1>1, <1>3, <1>4, <1>5, <1>7, <1>8 DEF QueueInv, QueueSound

(* A call to destroy a queue begins, or fails before it changes the list.   *)
LEMMA DestroyKeeps ==
  ASSUME QueueTypes, QueueSound, NEW q \in Queues, Queueing!PVRSRVDestroyCommandQueueKM(q)
  PROVE  QueueInv'
<1>1. /\ ~broken /\ call.pc = "idle" /\ q \in ToSet(psQueueList) \ orphans
      /\ psQueueList' = psQueueList /\ allocated' = allocated /\ ui32Lock' = ui32Lock
      /\ ui32ID' = ui32ID /\ walk' = walk /\ broken' = broken
  BY QueueingSequences DEF Queueing!PVRSRVDestroyCommandQueueKM
<1>2. \/ call' = [pc |-> "lock", queue |-> q, kind |-> "destroy"] /\ orphans' = orphans
      \/ orphans' = orphans \cup {q} /\ call' = call
  BY DEF Queueing!PVRSRVDestroyCommandQueueKM
<1>3. QueueTypes'
  <2>1. call' \in [pc : CallSteps, queue : Queues \cup {Nobody},
                   kind : {"none", "create", "destroy"}]
    <3>1. call \in [pc : CallSteps, queue : Queues \cup {Nobody},
                    kind : {"none", "create", "destroy"}]
      BY DEF QueueTypes
    <3>2. [pc |-> "lock", queue |-> q, kind |-> "destroy"]
              \in [pc : CallSteps, queue : Queues \cup {Nobody},
                   kind : {"none", "create", "destroy"}]
      BY DEF CallSteps
    <3> QED
      BY <1>2, <3>1, <3>2, Zenon
  <2>2. orphans' \in SUBSET Queues
    BY <1>2 DEF QueueTypes
  <2> QED
    BY <1>1, <2>1, <2>2, Zenon DEF QueueTypes
<1>4. OneHolder'
  <2>1. ~CallHolds'
    BY <1>1, <1>2 DEF CallHolds, Holding
  <2> QED
    BY <1>1, <2>1, CallHoldsAlone DEF QueueSound
<1>5. OwnID' /\ WalkOK'
  BY <1>1, <1>2 DEF QueueSound, OwnID, WalkOK
<1>6. call.kind = "none" /\ Queueing!Created = {} /\ Queueing!Created' = {}
  <2>1. call.kind = "none"
    BY <1>1 DEF QueueSound, CallOK
  <2>2. call'.kind # "create"
    <3>1. CASE call' = [pc |-> "lock", queue |-> q, kind |-> "destroy"]
      BY <3>1
    <3>2. CASE call' = call
      BY <2>1, <3>2
    <3> QED
      BY <1>2, <3>1, <3>2
  <2> QED
    BY <2>1, <2>2 DEF Queueing!Created
<1>7. ListOK'
  BY <1>1, <1>2, <1>6 DEF QueueSound, ListOK
<1>8. CallOK'
  <2>1. CASE call' = [pc |-> "lock", queue |-> q, kind |-> "destroy"] /\ orphans' = orphans
    BY <1>1, <1>6, <2>1 DEF CallOK
  <2>2. CASE call' = call
    BY <1>1, <1>6, <2>2 DEF QueueSound, CallOK
  <2> QED
    BY <1>2, <2>1, <2>2
<1> QED
  BY <1>1, <1>3, <1>4, <1>5, <1>7, <1>8 DEF QueueInv, QueueSound

(* The lock is reset for the first queue and broken for the last: either    *)
(* nobody has it, or the list is empty and the behaviour ends.              *)
LEMMA ResetKeeps ==
  ASSUME QueueTypes, QueueSound, Queueing!OSCreateResource
  PROVE  QueueInv'
<1>1. /\ ~broken /\ psQueueList' = psQueueList /\ allocated' = allocated /\ orphans' = orphans
      /\ walk' = walk
  BY DEF Queueing!OSCreateResource, Queueing!Kept
<1>2. call.pc \in {"reset", "reset lock"}
  BY DEF Queueing!OSCreateResource
<1>3. psQueueList = <<>> /\ call.kind = "create" /\ call.queue \in Queues
  BY <1>2 DEF QueueSound, CallOK
<1>4. \A w \in Walkers : walk[w].at = Nobody
  BY <1>3 DEF QueueSound, WalkOK, ToSet
<1>5. Lost'
  BY <1>1, <1>3, <1>4 DEF Lost
<1>6. /\ call'.pc \in {"reset lock", "lock"} /\ call'.queue = call.queue /\ call'.kind = call.kind
      /\ call' \in [pc : CallSteps, queue : Queues \cup {Nobody},
                    kind : {"none", "create", "destroy"}]
  <2>1. \/ call' = [pc |-> "reset lock", queue |-> call.queue, kind |-> call.kind]
        \/ call' = [pc |-> "lock", queue |-> call.queue, kind |-> call.kind]
    BY CallsMean DEF Queueing!OSCreateResource
  <2>2. call' \in [pc : {"reset lock", "lock"}, queue : {call.queue}, kind : {call.kind}]
    <3>1. CASE call' = [pc |-> "reset lock", queue |-> call.queue, kind |-> call.kind]
      BY <3>1
    <3>2. CASE call' = [pc |-> "lock", queue |-> call.queue, kind |-> call.kind]
      BY <3>2
    <3> QED
      BY <2>1, <3>1, <3>2
  <2>3. call'.pc \in {"reset lock", "lock"} /\ call'.queue = call.queue /\ call'.kind = call.kind
    BY <2>2
  <2>4. call' \in [pc : CallSteps, queue : Queues \cup {Nobody},
                   kind : {"none", "create", "destroy"}]
    BY <1>3, <2>2 DEF CallSteps
  <2> QED
    BY <2>3, <2>4
<1>7. /\ ui32Lock' \in BOOLEAN /\ broken' \in BOOLEAN /\ (ui32Lock => ui32Lock' \/ broken')
      /\ (~ui32Lock => ~ui32Lock')
  <2>1. \/ ui32Lock' = ui32Lock /\ broken' = broken
        \/ ui32Lock' = FALSE /\ broken' = ui32Lock
    BY DEF Queueing!OSCreateResource, Queueing!Release
  <2>2. ui32Lock \in BOOLEAN /\ broken \in BOOLEAN
    BY DEF QueueTypes
  <2>3. CASE ui32Lock' = ui32Lock /\ broken' = broken
    BY <2>2, <2>3, Zenon
  <2>4. CASE ui32Lock' = FALSE /\ broken' = ui32Lock
    BY <2>2, <2>4, Zenon
  <2> QED
    BY <2>1, <2>3, <2>4
<1>8. QueueTypes'
  BY <1>1, <1>6, <1>7, Zenon DEF QueueTypes
<1>9. ASSUME ~broken'  PROVE QueueSound'
  <2>1. ~CallHolds' /\ ~CallHolds
    BY <1>2, <1>6 DEF CallHolds, Holding
  <2>2. OneHolder'
    BY <1>1, <1>7, <1>9, <2>1, CallHoldsAlone DEF QueueSound
  <2>3. OwnID' /\ WalkOK'
    BY <1>1, <1>6 DEF QueueSound, OwnID, WalkOK
  <2>4. Queueing!Created = {call.queue} /\ Queueing!Created' = Queueing!Created
    BY <1>2, <1>3, <1>6 DEF Queueing!Created
  <2>5. ListOK'
    BY <1>1, <2>4 DEF QueueSound, ListOK
  <2>6. CallOK'
    <3>1. Queueing!Created \subseteq allocated
      BY DEF QueueSound, CallOK
    <3> QED
      BY <1>1, <1>3, <1>6, <2>4, <3>1 DEF CallOK
  <2> QED
    BY <2>2, <2>3, <2>5, <2>6 DEF QueueSound
<1> QED
  BY <1>5, <1>8, <1>9 DEF QueueInv

(* The lock is broken only when the list is empty.                          *)
LEMMA BreakKeeps ==
  ASSUME QueueTypes, QueueSound, Queueing!OSDestroyResource
  PROVE  QueueInv'
<1>1. /\ ~broken /\ psQueueList' = psQueueList /\ allocated' = allocated /\ orphans' = orphans
      /\ walk' = walk
  BY DEF Queueing!OSDestroyResource, Queueing!Kept
<1>2. call.pc \in {"break", "break ID", "break lock"}
  BY DEF Queueing!OSDestroyResource
<1>3. psQueueList = <<>> /\ call.kind = "destroy"
  BY <1>2 DEF QueueSound, CallOK
<1>4. \A w \in Walkers : walk[w].at = Nobody
  BY <1>3 DEF QueueSound, WalkOK, ToSet
<1>5. Lost'
  BY <1>1, <1>3, <1>4 DEF Lost
<1>6. /\ \/ call'.pc = "idle" /\ call'.kind = "none"
         \/ call'.pc \in {"break ID", "break lock"} /\ call'.kind = "destroy"
      /\ call' \in [pc : CallSteps, queue : Queues \cup {Nobody},
                    kind : {"none", "create", "destroy"}]
  <2>1. \/ call' = [pc |-> "break ID", queue |-> call.queue, kind |-> call.kind]
        \/ call' = [pc |-> "break lock", queue |-> call.queue, kind |-> call.kind]
        \/ call' = Queueing!NoCall
    BY CallsMean DEF Queueing!OSDestroyResource, Queueing!Ends
  <2>2. call.queue \in Queues \cup {Nobody}
    BY DEF QueueTypes
  <2> QED
    <3>1. CASE call' = Queueing!NoCall
      BY <3>1 DEF CallSteps, Queueing!NoCall
    <3>2. CASE call' # Queueing!NoCall
      <4>1. \/ call' = [pc |-> "break ID", queue |-> call.queue, kind |-> "destroy"]
            \/ call' = [pc |-> "break lock", queue |-> call.queue, kind |-> "destroy"]
        BY <1>3, <2>1, <3>2
      <4>2. /\ call'.pc \in {"break ID", "break lock"} /\ call'.kind = "destroy"
            /\ call' \in [pc : {"break ID", "break lock"}, queue : {call.queue},
                          kind : {"destroy"}]
        <5>1. CASE call' = [pc |-> "break ID", queue |-> call.queue, kind |-> "destroy"]
          BY <5>1
        <5>2. CASE call' = [pc |-> "break lock", queue |-> call.queue, kind |-> "destroy"]
          BY <5>2
        <5> QED
          BY <4>1, <5>1, <5>2
      <4> QED
        BY <2>2, <4>2 DEF CallSteps
    <3> QED
      BY <3>1, <3>2
<1>7. /\ ui32Lock' \in BOOLEAN /\ broken' \in BOOLEAN /\ (ui32Lock => ui32Lock' \/ broken')
      /\ (~ui32Lock => ~ui32Lock')
  <2>1. \/ ui32Lock' = ui32Lock /\ broken' = broken
        \/ ui32Lock' = FALSE /\ broken' = ui32Lock
    BY DEF Queueing!OSDestroyResource, Queueing!Release
  <2>2. ui32Lock \in BOOLEAN /\ broken \in BOOLEAN
    BY DEF QueueTypes
  <2>3. CASE ui32Lock' = ui32Lock /\ broken' = broken
    BY <2>2, <2>3, Zenon
  <2>4. CASE ui32Lock' = FALSE /\ broken' = ui32Lock
    BY <2>2, <2>4, Zenon
  <2> QED
    BY <2>1, <2>3, <2>4
<1>8. QueueTypes'
  BY <1>1, <1>6, <1>7, Zenon DEF QueueTypes
<1>9. ASSUME ~broken'  PROVE QueueSound'
  <2>1. ~CallHolds' /\ ~CallHolds
    BY <1>2, <1>6 DEF CallHolds, Holding
  <2>2. OneHolder'
    BY <1>1, <1>7, <1>9, <2>1, CallHoldsAlone DEF QueueSound
  <2>3. OwnID' /\ WalkOK'
    BY <1>1, <1>6 DEF QueueSound, OwnID, WalkOK
  <2>4. Queueing!Created = {} /\ Queueing!Created' = {}
    BY <1>2, <1>3, <1>6 DEF Queueing!Created
  <2>5. ListOK'
    BY <1>1, <2>4 DEF QueueSound, ListOK
  <2>6. CallOK'
    BY <1>1, <1>3, <1>6, <2>4 DEF CallOK
  <2> QED
    BY <2>2, <2>3, <2>5, <2>6 DEF QueueSound
<1> QED
  BY <1>5, <1>8, <1>9 DEF QueueInv

(* A call takes the lock, or gives up.                                      *)
LEMMA LocksKeep ==
  ASSUME QueueTypes, QueueSound, Queueing!Locks
  PROVE  QueueInv'
<1>1. ~broken /\ psQueueList' = psQueueList /\ walk' = walk /\ broken' = broken
  BY DEF Queueing!Locks
<1>2. \/ /\ call.pc = "lock" /\ ~ui32Lock /\ ui32Lock' = TRUE /\ Queueing!Calls("own")
         /\ allocated' = allocated /\ orphans' = orphans /\ ui32ID' = ui32ID
      \/ call.pc = "lock" /\ ui32Lock /\ Queueing!Abandons /\ ui32Lock' = ui32Lock
           /\ ui32ID' = ui32ID
      \/ /\ call.pc = "own" /\ ui32ID' = "KERNEL" /\ ui32Lock' = ui32Lock
              /\ Queueing!Calls("change")
         /\ allocated' = allocated /\ orphans' = orphans
  BY DEF Queueing!Locks, Queueing!OSLockResource, Queueing!Owns
<1>3. /\ call.queue \in Queues /\ call.kind \in {"create", "destroy"}
      /\ Queueing!Created \subseteq allocated
      /\ call.kind = "destroy" => call.queue \in ToSet(psQueueList) \ orphans
  BY <1>2 DEF QueueSound, CallOK
<1>4. /\ ToSet(psQueueList) = allocated \ Queueing!Created /\ IsInjective(psQueueList)
      /\ orphans \subseteq ToSet(psQueueList) /\ orphans \cap Queueing!Created = {}
  BY DEF QueueSound, ListOK
<1>5. Queueing!Created = IF call.kind = "create" THEN {call.queue} ELSE {}
  BY <1>2 DEF Queueing!Created
<1>6. CASE ~Queueing!Abandons
  <2>1. /\ call' = [pc |-> IF call.pc = "lock" THEN "own" ELSE "change",
                    queue |-> call.queue, kind |-> call.kind]
        /\ allocated' = allocated /\ orphans' = orphans /\ call.pc \in {"lock", "own"}
    BY <1>2, <1>6, CallsMean
  <2>2. call'.pc \in {"own", "change"} /\ call'.queue = call.queue /\ call'.kind = call.kind
    BY <2>1
  <2>3. QueueTypes'
    <3>1. call' \in [pc : CallSteps, queue : Queues \cup {Nobody},
                     kind : {"none", "create", "destroy"}]
      BY <1>3, <2>1 DEF CallSteps
    <3>2. ui32Lock' \in BOOLEAN
      BY <1>2 DEF QueueTypes
    <3> QED
      BY <1>1, <2>1, <3>1, <3>2, Zenon DEF QueueTypes
  <2>4. OneHolder'
    <3>1. call.pc = "own" => CallHolds /\ ui32Lock
      BY DEF QueueSound, OneHolder, CallHolds, Holding
    <3>2. (CallHolds \/ ~ui32Lock) /\ ui32Lock'
      BY <1>2, <1>6, <3>1
    <3> QED
      BY <1>1, <3>2, CallHoldsAlone DEF QueueSound
  <2>5. OwnID'
    BY <1>2, <1>6, <2>1 DEF OwnID
  <2>6. WalkOK'
    BY <1>1 DEF QueueSound, WalkOK
  <2>7. Queueing!Created' = Queueing!Created
    BY <1>5, <2>2 DEF Queueing!Created
  <2>8. ListOK'
    BY <1>1, <1>4, <2>1, <2>7 DEF ListOK
  <2>9. CallOK'
    BY <1>1, <1>3, <2>1, <2>2, <2>7 DEF CallOK
  <2> QED
    BY <1>1, <2>3, <2>4, <2>5, <2>6, <2>8, <2>9 DEF QueueInv, QueueSound
<1>7. CASE Queueing!Abandons
  <2>1. call' = Queueing!NoCall
    BY <1>7 DEF Queueing!Abandons, Queueing!Ends
  <2>2. call.pc = "lock" /\ ui32Lock' = ui32Lock /\ ui32ID' = ui32ID
    <3>1. call'.pc = "idle"
      BY <2>1 DEF Queueing!NoCall
    <3>2. ~Queueing!Calls("own") /\ ~Queueing!Calls("change")
      <4>1. Queueing!Calls("own") => call'.pc = "own"
        BY CallsMean
      <4>2. Queueing!Calls("change") => call'.pc = "change"
        BY CallsMean
      <4> QED
        BY <3>1, <4>1, <4>2
    <3> QED
      BY <1>2, <3>2, Zenon
  <2>3. ASSUME call.kind = "create"
        PROVE  ListOK' /\ allocated' \subseteq allocated
                 /\ orphans' \subseteq orphans \cup {call.queue}
    <3>1. allocated' = allocated \ {call.queue} /\ orphans' = orphans
      BY <1>7, <2>3 DEF Queueing!Abandons
    <3>2. Queueing!Created' = {} /\ Queueing!Created = {call.queue}
      BY <1>5, <2>1, <2>3 DEF Queueing!Created, Queueing!NoCall
    <3>3. ListOK'
      BY <1>1, <1>4, <3>1, <3>2 DEF ListOK
    <3> QED
      BY <3>1, <3>2, <3>3
  <2>4. ASSUME call.kind = "destroy"
        PROVE  ListOK' /\ allocated' \subseteq allocated
                 /\ orphans' \subseteq orphans \cup {call.queue}
    <3>1. allocated' = allocated /\ orphans' = orphans \cup {call.queue}
      BY <1>7, <2>4 DEF Queueing!Abandons
    <3>2. Queueing!Created' = {} /\ Queueing!Created = {}
      BY <1>5, <2>1, <2>4 DEF Queueing!Created, Queueing!NoCall
    <3>3. ListOK'
      BY <1>1, <1>3, <1>4, <2>4, <3>1, <3>2 DEF ListOK
    <3> QED
      BY <1>3, <3>1, <3>2, <3>3
  <2>5. ListOK' /\ allocated' \subseteq allocated /\ orphans' \subseteq orphans \cup {call.queue}
    BY <1>3, <2>3, <2>4
  <2>6. QueueTypes'
    <3>1. call' \in [pc : CallSteps, queue : Queues \cup {Nobody},
                     kind : {"none", "create", "destroy"}]
      BY <2>1 DEF Queueing!NoCall, CallSteps
    <3>2. allocated' \in SUBSET Queues /\ orphans' \in SUBSET Queues
      BY <1>3, <2>5 DEF QueueTypes
    <3>3. ui32Lock' \in BOOLEAN
      BY <2>2 DEF QueueTypes
    <3> QED
      BY <1>1, <3>1, <3>2, <3>3, Zenon DEF QueueTypes
  <2>7. OneHolder'
    <3>1. ~CallHolds'
      BY <2>1 DEF CallHolds, Holding, Queueing!NoCall
    <3> QED
      BY <1>1, <2>2, <3>1, CallHoldsAlone DEF QueueSound
  <2>8. OwnID' /\ WalkOK'
    BY <1>1, <2>1 DEF QueueSound, OwnID, WalkOK, Queueing!NoCall
  <2>9. CallOK'
    BY <2>1 DEF CallOK, Queueing!NoCall, Queueing!Created
  <2> QED
    BY <1>1, <2>5, <2>6, <2>7, <2>8, <2>9 DEF QueueInv, QueueSound
<1> QED
  BY <1>6, <1>7

(* The list changes while the call has the lock and no walker is in it.     *)
LEMMA ChangesKeep ==
  ASSUME QueueTypes, QueueSound, Queueing!Changes
  PROVE  QueueInv'
<1>1. /\ ~broken /\ call.pc = "change" /\ Queueing!Calls("locked?")
      /\ orphans' = orphans /\ ui32Lock' = ui32Lock /\ ui32ID' = ui32ID
      /\ walk' = walk /\ broken' = broken
  BY DEF Queueing!Changes
<1>2. call' = [pc |-> "locked?", queue |-> call.queue, kind |-> call.kind]
  BY <1>1, CallsMean
<1>3. /\ call.queue \in Queues /\ call.kind \in {"create", "destroy"}
      /\ Queueing!Created \subseteq allocated
      /\ call.kind = "destroy" => call.queue \in ToSet(psQueueList) \ orphans
  BY <1>1 DEF QueueSound, CallOK
<1>4. /\ ToSet(psQueueList) = allocated \ Queueing!Created /\ IsInjective(psQueueList)
      /\ orphans \subseteq ToSet(psQueueList) /\ orphans \cap Queueing!Created = {}
  BY DEF QueueSound, ListOK
<1>5. Queueing!Created' = {}
  BY <1>2 DEF Queueing!Created
<1>6. psQueueList \in Seq(Queues)
  BY DEF QueueTypes
<1>7. ASSUME call.kind = "create"
      PROVE  /\ ListOK' /\ psQueueList' \in Seq(Queues) /\ allocated' \subseteq allocated
  <2>1. psQueueList' = <<call.queue>> \o psQueueList /\ allocated' = allocated
    BY <1>7 DEF Queueing!Changes
  <2>2. Queueing!Created = {call.queue}
    BY <1>1, <1>7 DEF Queueing!Created
  <2>3. call.queue \notin ToSet(psQueueList)
    BY <1>4, <2>2
  <2>4. /\ psQueueList' \in Seq(Queues) /\ IsInjective(psQueueList')
        /\ ToSet(psQueueList') = ToSet(psQueueList) \cup {call.queue}
    BY <1>3, <1>4, <1>6, <2>1, <2>3, PrependMeans
  <2>5. ToSet(psQueueList') = allocated'
    BY <1>3, <1>4, <2>1, <2>2, <2>4
  <2>6. orphans' \subseteq ToSet(psQueueList')
    BY <1>1, <1>4, <2>4
  <2> QED
    BY <1>5, <2>1, <2>4, <2>5, <2>6 DEF ListOK
<1>8. ASSUME call.kind = "destroy"
      PROVE  /\ ListOK' /\ psQueueList' \in Seq(Queues) /\ allocated' \subseteq allocated
  <2>1. psQueueList' = RemoveAt(psQueueList,
        Queueing!Place(call.queue)) /\ allocated' = allocated \ {call.queue}
    BY <1>8, QueueingSequences DEF Queueing!Changes
  <2>2. Queueing!Created = {}
    BY <1>8 DEF Queueing!Created
  <2>3. Queueing!Place(call.queue) \in DOMAIN psQueueList
          /\ psQueueList[Queueing!Place(call.queue)] = call.queue
    BY <1>3, <1>6, <1>8, AfterListed
  <2>4. /\ psQueueList' \in Seq(Queues) /\ IsInjective(psQueueList')
        /\ ToSet(psQueueList') = ToSet(psQueueList) \ {call.queue}
    BY <1>4, <1>6, <2>1, <2>3, RemoveAtMeans
  <2>5. ToSet(psQueueList') = allocated'
    BY <1>4, <2>1, <2>2, <2>4
  <2>6. orphans' \subseteq ToSet(psQueueList')
    BY <1>1, <1>3, <1>4, <1>8, <2>4
  <2> QED
    BY <1>5, <2>1, <2>4, <2>5, <2>6 DEF ListOK
<1>9. ListOK' /\ psQueueList' \in Seq(Queues) /\ allocated' \subseteq allocated
  BY <1>3, <1>7, <1>8
<1>10. QueueTypes'
  <2>1. call' \in [pc : CallSteps, queue : Queues \cup {Nobody},
                   kind : {"none", "create", "destroy"}]
    BY <1>2, <1>3 DEF CallSteps
  <2>2. allocated' \in SUBSET Queues
    BY <1>9 DEF QueueTypes
  <2> QED
    BY <1>1, <1>9, <2>1, <2>2, Zenon DEF QueueTypes
<1>11. CallHolds /\ ui32Lock
  BY <1>1 DEF QueueSound, OneHolder, CallHolds, Holding
<1>12. OneHolder'
  BY <1>1, <1>11, CallHoldsAlone DEF QueueSound
<1>13. OwnID'
  BY <1>1 DEF QueueSound, OwnID
<1>14. WalkOK'
  <2>1. \A w \in Walkers : walk[w].pc = "idle"
    BY <1>11 DEF QueueSound, OneHolder, WalkerHolds
  <2>2. \A w \in Walkers : walk[w].at = Nobody
    BY <2>1 DEF QueueSound, WalkOK
  <2> QED
    BY <1>1, <2>2 DEF WalkOK
<1>15. CallOK'
  BY <1>2, <1>3, <1>5 DEF CallOK
<1> QED
  BY <1>1, <1>9, <1>10, <1>12, <1>13, <1>14, <1>15 DEF QueueInv, QueueSound

(* A call that changed the list finds its own ID: unlocking does not fail.  *)
LEMMA UnlocksKeep ==
  ASSUME QueueTypes, QueueSound, Queueing!Unlocks
  PROVE  QueueInv'
<1>1. /\ ~broken /\ psQueueList' = psQueueList /\ orphans' = orphans
      /\ walk' = walk /\ broken' = broken
      /\ call.pc \in {"locked?", "own?", "clear", "release"}
  BY DEF Queueing!Unlocks, Queueing!Unlocking
<1>2. CallHolds /\ ui32Lock
  BY <1>1 DEF QueueSound, OneHolder, CallHolds, Holding
<1>3. call.pc = "own?" => ui32ID = "KERNEL"
  BY DEF QueueSound, OwnID
<1>4. /\ call.queue \in Queues /\ call.kind \in {"create", "destroy"} /\ Queueing!Created = {}
  BY <1>1 DEF QueueSound, CallOK, Queueing!Created
<1>5. ASSUME call.pc \in Queueing!Unlocking
      PROVE  /\ call' \in [pc : {"own?", "clear", "release"}, queue : {call.queue},
                           kind : {call.kind}]
             /\ allocated' = allocated /\ ui32Lock' = ui32Lock
             /\ call'.pc = "own?" => ui32ID' = "KERNEL"
  <2> DEFINE pc == Queueing!OSUnlockResource(call.pc, "KERNEL")
  <2>1. /\ Queueing!Clears(call.pc)
        /\ IF pc = "refused" THEN Queueing!Fails ELSE Queueing!Calls(pc) /\ UNCHANGED allocated
    BY <1>5 DEF Queueing!Unlocks, Queueing!Unlocking
  <2>2. pc = IF call.pc = "locked?" THEN "own?" ELSE IF call.pc
          = "own?" THEN "clear" ELSE "release"
    BY <1>2, <1>3, <1>5 DEF Queueing!OSUnlockResource, Queueing!Unlocking
  <2> HIDE DEF pc
  <2>3. Queueing!Calls(pc) /\ allocated' = allocated
    BY <2>1, <2>2
  <2>4. call' = [pc |-> pc, queue |-> call.queue, kind |-> call.kind]
    BY <2>3, CallsMean
  <2>5. call'.pc = "own?" => call.pc = "locked?"
    BY <1>5, <2>2, <2>4 DEF Queueing!Unlocking
  <2>6. call.pc = "locked?" => ui32ID = "KERNEL"
    BY DEF QueueSound, OwnID
  <2>7. ui32Lock' = ui32Lock /\ (call.pc = "locked?" => ui32ID' = ui32ID)
    BY <2>1 DEF Queueing!Clears
  <2> QED
    BY <2>2, <2>3, <2>4, <2>5, <2>6, <2>7
<1>6. ASSUME call.pc = "release"
      PROVE  /\ \/ call' = Queueing!NoCall
                \/ /\ call' = [pc |-> "break", queue |-> call.queue, kind |-> "destroy"]
                   /\ psQueueList = <<>>
             /\ allocated' = allocated /\ ui32Lock' = FALSE
  <2>1. /\ Queueing!Release /\ allocated' = allocated
        /\ IF call.kind = "destroy"
             /\ psQueueList = <<>> THEN Queueing!Calls("break") ELSE Queueing!Ends
    BY <1>6 DEF Queueing!Unlocks, Queueing!Unlocking
  <2> QED
    BY <2>1, CallsMean DEF Queueing!Release, Queueing!Ends
<1>7. /\ call'.pc \in {"own?", "clear", "release", "idle", "break"}
      /\ call' \in [pc : CallSteps, queue : Queues \cup {Nobody},
                    kind : {"none", "create", "destroy"}]
      /\ allocated' = allocated
      /\ \/ CallHolds' /\ ui32Lock'
         \/ ~CallHolds'
  <2>1. CASE call.pc \in Queueing!Unlocking
    BY <1>2, <1>4, <1>5, <2>1 DEF CallHolds, Holding, CallSteps
  <2>2. CASE call.pc = "release"
    <3>1. CASE call' = Queueing!NoCall
      BY <1>6, <2>2, <3>1 DEF CallHolds, Holding, CallSteps, Queueing!NoCall
    <3>2. CASE call' = [pc |-> "break", queue |-> call.queue, kind |-> "destroy"]
      <4>1. call'.pc = "break"
        BY <3>2
      <4>2. call' \in [pc : CallSteps, queue : Queues \cup {Nobody},
                       kind : {"none", "create", "destroy"}]
        BY <1>4, <3>2 DEF CallSteps
      <4>3. ~CallHolds'
        BY <4>1 DEF CallHolds, Holding
      <4> QED
        BY <1>6, <2>2, <4>1, <4>2, <4>3
    <3> QED
      BY <1>6, <2>2, <3>1, <3>2
  <2> QED
    BY <1>1, <2>1, <2>2 DEF Queueing!Unlocking
<1>8. QueueTypes'
  <2>1. ui32Lock' \in BOOLEAN
    BY <1>1, <1>5, <1>6 DEF QueueTypes, Queueing!Unlocking
  <2> QED
    BY <1>1, <1>7, <2>1, Zenon DEF QueueTypes
<1>9. OneHolder'
  BY <1>1, <1>2, <1>7, CallHoldsAlone DEF QueueSound
<1>10. OwnID'
  <2>1. CASE call.pc \in Queueing!Unlocking
    BY <1>5, <2>1 DEF OwnID
  <2>2. CASE call.pc = "release"
    BY <1>6, <2>2 DEF OwnID, Queueing!NoCall
  <2> QED
    BY <1>1, <2>1, <2>2 DEF Queueing!Unlocking
<1>11. WalkOK'
  BY <1>1 DEF QueueSound, WalkOK
<1>12. Queueing!Created' = {}
  BY <1>7 DEF Queueing!Created
<1>13. ListOK'
  BY <1>1, <1>4, <1>7, <1>12 DEF QueueSound, ListOK
<1>14. CallOK'
  <2>1. CASE call.pc \in Queueing!Unlocking
    <3>1. /\ call'.pc \in {"own?", "clear", "release"} /\ call'.queue = call.queue
          /\ call'.kind = call.kind
      BY <1>5, <2>1
    <3> QED
      BY <1>4, <1>12, <3>1 DEF CallOK
  <2>2. CASE call.pc = "release"
    <3>1. CASE call' = Queueing!NoCall
      BY <1>12, <3>1 DEF CallOK, Queueing!NoCall
    <3>2. CASE /\ call' = [pc |-> "break", queue |-> call.queue, kind |-> "destroy"]
               /\ psQueueList = <<>>
      BY <1>1, <1>12, <3>2 DEF CallOK
    <3> QED
      BY <1>6, <2>2, <3>1, <3>2
  <2> QED
    BY <1>1, <2>1, <2>2 DEF Queueing!Unlocking
<1> QED
  BY <1>1, <1>8, <1>9, <1>10, <1>11, <1>13, <1>14 DEF QueueInv, QueueSound

-----------------------------------------------------------------------------
(* The theorems.                                                            *)

(* Every step of a walker or of a call keeps the invariant.                 *)
LEMMA QueueNext == QueueInv /\ [Queueing!Next]_(Queueing!queueVars) => QueueInv'
<1> SUFFICES ASSUME QueueInv, [Queueing!Next]_(Queueing!queueVars) PROVE QueueInv'
  OBVIOUS
<1>1. QueueTypes
  BY DEF QueueInv
<1>2. CASE UNCHANGED Queueing!queueVars
  BY <1>2 DEF Queueing!queueVars, QueueInv, QueueTypes, Lost, QueueSound, OneHolder, OwnID,
     CallOK, ListOK, WalkOK,
              WalkerHolds, CallHolds, Queueing!Created
<1>3. CASE broken
  BY <1>2, <1>3 DEF Queueing!Next, Queueing!Broken, Queueing!Walk,
     Queueing!PVRSRVCreateCommandQueueKM, Queueing!PVRSRVDestroyCommandQueueKM,
                    Queueing!OSCreateResource, Queueing!Locks, Queueing!Changes,
                    Queueing!Unlocks, Queueing!OSDestroyResource
<1>4. CASE ~broken /\ Queueing!Next
  <2>1. QueueSound
    BY <1>4 DEF QueueInv
  <2>2. CASE \E w \in Walkers : Queueing!Walk(w)
    BY <1>1, <2>1, <2>2, WalkKeeps
  <2>3. CASE \E q \in Queues : \/ Queueing!PVRSRVCreateCommandQueueKM(q)
                               \/ Queueing!PVRSRVDestroyCommandQueueKM(q)
    BY <1>1, <2>1, <2>3, CreateKeeps, DestroyKeeps
  <2>4. CASE Queueing!OSCreateResource
    BY <1>1, <2>1, <2>4, ResetKeeps
  <2>5. CASE Queueing!Locks
    BY <1>1, <2>1, <2>5, LocksKeep
  <2>6. CASE Queueing!Changes
    BY <1>1, <2>1, <2>6, ChangesKeep
  <2>7. CASE Queueing!Unlocks
    BY <1>1, <2>1, <2>7, UnlocksKeep
  <2>8. CASE Queueing!OSDestroyResource
    BY <1>1, <2>1, <2>8, BreakKeeps
  <2> QED
    BY <1>4, <2>2, <2>3, <2>4, <2>5, <2>6, <2>7, <2>8 DEF Queueing!Next, Queueing!Broken
<1> QED
  BY <1>2, <1>3, <1>4 DEF QueueInv

(* Every walker and every call, wherever they are, keep the list sound:     *)
(* exactly the queues that have memory are in it, each once, a walker       *)
(* stands on one of them, nobody walks while a call changes the list, and a *)
(* queue whose destruction failed is still there (queue.c, osfunc.c).       *)
THEOREM ListStaysSound == Queueing!Spec => []Queueing!QueuesSound
<1>1. QueueInv => Queueing!QueuesSound
  <2> SUFFICES ASSUME QueueInv PROVE Queueing!QueuesSound
    OBVIOUS
  <2>1. broken => psQueueList = <<>> /\ \A w \in Walkers : walk[w].at = Nobody
    BY DEF QueueInv, Lost
  <2>2. ASSUME ~broken
        PROVE  /\ \A a, b \in Queueing!Inside : a = b
               /\ \A w \in Walkers : walk[w].pc = "walk" /\ walk[w].at # Nobody
                    => walk[w].at \in allocated
               /\ ToSet(psQueueList) = allocated \ Queueing!Created /\ IsInjective(psQueueList)
               /\ orphans \subseteq ToSet(psQueueList)
    <3>1. OneHolder /\ ListOK /\ WalkOK
      BY <2>2 DEF QueueInv, QueueSound
    <3>2. \A a, b \in Queueing!Inside : a = b
      BY <3>1 DEF OneHolder, Queueing!Inside, WalkerHolds, CallHolds, Holding
    <3> QED
      BY <3>1, <3>2 DEF ListOK, WalkOK
  <2> QED
    BY <2>1, <2>2, QueueingSequences DEF Queueing!QueuesSound
<1>2. Queueing!Init => QueueInv
  BY QueueInit
<1>3. QueueInv /\ [Queueing!Next]_(Queueing!queueVars) => QueueInv'
  BY QueueNext
<1> QED
  BY <1>1, <1>2, <1>3, PTL DEF Queueing!Spec

-----------------------------------------------------------------------------
(* Kicks: whose cleanup was answered.  A request that nobody gave up has    *)
(* the microkernel's answer to itself: it is the only one on the way, or it *)
(* was answered when its context had no more commands.                      *)

CONSTANTS Syncs, Contexts, KickShapes, TransferShapes, BlitShapes, MaxIssued, MaxRefused, MaxSpurned
VARIABLES
    sync, commands, scene, life, cleanups, ui32CleanupStatus, request,
    issued, refused, spurned, tainted, crossed, spoilt

Given == INSTANCE Kicks

KickTypes ==
    /\ life \in [Contexts -> {"live", "cleaned", "gone"}]
    /\ DOMAIN commands = Contexts
    /\ request \in Contexts \cup {Given!NoOne}
    /\ cleanups \in Seq(Contexts)

Alone ==
    /\ request = Given!NoOne => cleanups = <<>> /\ ~ui32CleanupStatus
    /\ request # Given!NoOne =>
          \/ cleanups = <<request>> /\ ~ui32CleanupStatus
          \/ cleanups = <<>> /\ commands[request] = <<>>

KickInv ==
    /\ KickTypes
    /\ request # Given!NoOne => life[request] = "live"
    /\ ~spoilt => Alone
    /\ Given!CleanedIsUnused

(* Nobody asks for a cleanup at first.                                      *)
LEMMA KickInit == Given!Init => KickInv
<1> SUFFICES ASSUME Given!Init PROVE KickInv
  OBVIOUS
<1>1. KickTypes
  <2>1. cleanups \in Seq(Contexts)
    BY EmptySeq DEF Given!Init
  <2> QED
    BY <2>1 DEF Given!Init, KickTypes
<1> QED
  BY <1>1 DEF Given!Init, KickInv, Alone, Given!CleanedIsUnused

(* Nothing but a command for it changes what a live context has to run.     *)
LEMMA SubmitKeeps ==
  ASSUME Given!NamesOK, KickInv, NEW c \in Contexts, NEW fresh,
         request = Given!NoOne, life[c] = "live",
         commands' = [commands EXCEPT ![c] = fresh] \/ commands' = commands,
         UNCHANGED <<life, cleanups, ui32CleanupStatus, request, spoilt>>
  PROVE  KickInv'
<1>1. KickTypes'
  BY DEF KickInv, KickTypes
<1>2. Given!CleanedIsUnused'
  BY DEF KickInv, KickTypes, Given!CleanedIsUnused
<1> QED
  BY <1>1, <1>2 DEF KickInv, Alone

(* Kicks, transfers and blits keep the invariant, which a context that is   *)
(* gone cannot submit.                                                      *)
LEMMA SubmitsKeep ==
  ASSUME Given!NamesOK, KickInv, NEW c \in Contexts,
         NEW first, NEW final, NEW own, NEW kept, NEW needs, NEW keptNeeds, NEW undone,
         NEW loses,
         Given!Submits(c, first, final, own, kept, needs, keptNeeds, undone, loses)
  PROVE  KickInv'
<1>1. /\ request = Given!NoOne /\ life[c] = "live"
      /\ UNCHANGED <<life, cleanups, ui32CleanupStatus, request, spoilt>>
  BY DEF Given!Submits
<1>2. \/ \E fresh : commands' = [commands EXCEPT ![c] = fresh]
      \/ commands' = commands
  BY DEF Given!Submits
<1> QED
  BY <1>1, <1>2, SubmitKeeps

(* The microkernel runs a command, or answers.                              *)
LEMMA RunsKeeps ==
  ASSUME Given!NamesOK, KickInv, NEW c \in Contexts, Given!Runs(c)
  PROVE  KickInv'
<1>1. /\ commands[c] # <<>> /\ commands' = [commands EXCEPT ![c] = Tail(@)]
      /\ life' = life /\ cleanups' = cleanups /\ ui32CleanupStatus' = ui32CleanupStatus
      /\ request' = request /\ spoilt' = spoilt
  BY DEF Given!Runs
<1>2. \A d \in Contexts : commands[d] = <<>> => commands'[d] = <<>>
  BY <1>1 DEF KickInv, KickTypes
<1>3. KickTypes'
  BY <1>1 DEF KickInv, KickTypes
<1> QED
  BY <1>1, <1>2, <1>3 DEF KickInv, Alone, Given!CleanedIsUnused, KickTypes

(* A request begins when no other waits.                                    *)
LEMMA CleansUpKeeps ==
  ASSUME Given!NamesOK, KickInv, Given!CleansUp
  PROVE  KickInv'
<1>1. /\ cleanups # <<>> /\ commands[Head(cleanups)] = <<>> /\ cleanups' = Tail(cleanups)
      /\ commands' = commands /\ life' = life /\ request' = request /\ spoilt' = spoilt
  BY DEF Given!CleansUp
<1>2. cleanups \in Seq(Contexts) /\ cleanups' \in Seq(Contexts)
  BY <1>1 DEF KickInv, KickTypes
<1>3. ASSUME ~spoilt  PROVE request # Given!NoOne /\ cleanups' = <<>>
               /\ commands'[request'] = <<>>
  <2>1. request # Given!NoOne /\ cleanups = <<request>>
    BY <1>1, <1>3 DEF KickInv, Alone
  <2> QED
    BY <1>1, <2>1
<1> QED
  BY <1>1, <1>2, <1>3 DEF KickInv, KickTypes, Alone, Given!CleanedIsUnused

(* SGXCleanupRequest, until it asks and after it.                           *)
LEMMA LeavesMeans ==
  ASSUME KickInv, NEW c \in Contexts, NEW how \in {"cleaned", "gone"}, Given!Leaves(c, how),
         commands' = commands, how = "cleaned" => commands[c] = <<>>
  PROVE  /\ life' \in [Contexts -> {"live", "cleaned", "gone"}]
         /\ \A d \in Contexts \ {c} : life'[d] = life[d]
         /\ Given!CleanedIsUnused'
<1>1. life' = [life EXCEPT ![c] = how] /\ life \in [Contexts -> {"live", "cleaned", "gone"}]
  BY DEF Given!Leaves, KickInv, KickTypes
<1> QED
  BY <1>1 DEF KickInv, Given!CleanedIsUnused

(* A context is unregistered when the microkernel has confirmed its         *)
(* cleanup.                                                                 *)
LEMMA UnregisterKeeps ==
  ASSUME Given!NamesOK, KickInv, NEW c \in Contexts, Given!Unregister(c)
  PROVE  KickInv'
<1>1. request = Given!NoOne /\ life[c] = "live" /\ commands' = commands
  BY DEF Given!Unregister, Given!Requests, Given!Forces
<1>2. CASE /\ request' = c /\ cleanups' = Append(cleanups, c)
           /\ UNCHANGED <<life, ui32CleanupStatus>>
           /\ spoilt' = (spoilt /\ (cleanups # <<>> \/ ui32CleanupStatus))
  <2>1. cleanups \in Seq(Contexts) /\ cleanups' \in Seq(Contexts) /\ Append(<<>>, c) = <<c>>
    BY <1>2 DEF KickInv, KickTypes
  <2>2. ~spoilt' => cleanups = <<>> /\ ~ui32CleanupStatus
    BY <1>1, <1>2 DEF KickInv, Alone
  <2>3. KickTypes'
    BY <1>1, <1>2, <2>1 DEF KickInv, KickTypes
  <2>4. ~spoilt' => Alone'
    BY <1>2, <2>1, <2>2 DEF Given!NamesOK, Alone
  <2> QED
    BY <1>1, <1>2, <2>3, <2>4 DEF KickInv, Given!CleanedIsUnused
<1>3. CASE /\ Given!Leaves(c, "gone") /\ UNCHANGED <<request, cleanups, spoilt>>
           /\ ui32CleanupStatus' \in {ui32CleanupStatus, FALSE}
  <2>1. /\ life' \in [Contexts -> {"live", "cleaned", "gone"}] /\ Given!CleanedIsUnused'
    BY <1>1, <1>3, LeavesMeans
  <2>2. KickTypes'
    BY <1>1, <1>3, <2>1 DEF KickInv, KickTypes
  <2>3. ~spoilt' => Alone'
    BY <1>1, <1>3 DEF KickInv, Alone
  <2> QED
    BY <1>1, <1>3, <2>1, <2>2, <2>3 DEF KickInv
<1> QED
  BY <1>2, <1>3 DEF Given!Unregister, Given!Requests, Given!Forces

(* An answer that belongs to the request comes when the context is done.    *)
LEMMA AnsweredKeeps ==
  ASSUME Given!NamesOK, KickInv, Given!Answered
  PROVE  KickInv'
<1>1. /\ request # Given!NoOne /\ ui32CleanupStatus /\ ~ui32CleanupStatus'
      /\ Given!Leaves(request, IF spoilt THEN "gone" ELSE "cleaned")
      /\ request' = Given!NoOne /\ commands' = commands /\ cleanups' = cleanups
           /\ spoilt' = spoilt
  BY DEF Given!Answered, Given!AfterCleanup
<1>2. request \in Contexts
  BY <1>1 DEF KickInv, KickTypes
<1>3. ~spoilt => cleanups = <<>> /\ commands[request] = <<>>
  BY <1>1 DEF KickInv, Alone
<1> DEFINE how == IF spoilt THEN "gone" ELSE "cleaned"
<1>4. how \in {"cleaned", "gone"} /\ (how = "cleaned" => commands[request] = <<>>)
  BY <1>3
<1>5. Given!Leaves(request, how)
  BY <1>1
<1> HIDE DEF how
<1>6. life' \in [Contexts -> {"live", "cleaned", "gone"}] /\ Given!CleanedIsUnused'
  BY <1>1, <1>2, <1>4, <1>5, LeavesMeans
<1>7. KickTypes'
  BY <1>1, <1>6 DEF KickInv, KickTypes
<1>8. ~spoilt' => Alone'
  BY <1>1, <1>3 DEF Alone
<1> QED
  BY <1>1, <1>6, <1>7, <1>8 DEF KickInv

(* A request that is given up leaves its answer to come, and is             *)
(* remembered as such.                                                      *)
LEMMA TimesOutKeeps ==
  ASSUME Given!NamesOK, KickInv, Given!TimesOut
  PROVE  KickInv'
<1>1. /\ request # Given!NoOne /\ Given!Leaves(request, "gone") /\ spoilt' = TRUE
      /\ request' = Given!NoOne /\ commands' = commands /\ cleanups' = cleanups
  BY DEF Given!TimesOut
<1>2. request \in Contexts
  BY <1>1 DEF KickInv, KickTypes
<1>3. life' \in [Contexts -> {"live", "cleaned", "gone"}] /\ Given!CleanedIsUnused'
  BY <1>1, <1>2, LeavesMeans
<1>4. KickTypes'
  BY <1>1, <1>3 DEF KickInv, KickTypes
<1> QED
  BY <1>1, <1>3, <1>4 DEF KickInv

(* A context whose cleanup the microkernel has confirmed has no command in  *)
(* its hands, and gets none any more (SGXCleanupRequest, sgxutils.c), as    *)
(* long as no earlier request was given up.                                 *)
THEOREM CleanedStayUnused == ASSUME Given!NamesOK PROVE Given!Spec => []Given!CleanedIsUnused
<1>1. KickInv /\ [Given!Next]_(Given!vars) => KickInv'
  <2> SUFFICES ASSUME KickInv, [Given!Next]_(Given!vars) PROVE KickInv'
    OBVIOUS
  <2>1. ASSUME NEW c \in Contexts,
               Given!SGXDoKickKM(c) \/ Given!SGXSubmitTransferKM(c) \/ Given!SGXSubmit2DKM(c)
        PROVE  KickInv'
    <3>1. \E first, final, own, kept, needs, keptNeeds, undone, loses :
              Given!Submits(c, first, final, own, kept, needs, keptNeeds, undone, loses)
      <4>1. CASE Given!SGXDoKickKM(c)
        BY <4>1, Zenon DEF Given!SGXDoKickKM
      <4>2. CASE Given!SGXSubmitTransferKM(c)
        BY <4>2, Zenon DEF Given!SGXSubmitTransferKM
      <4>3. CASE Given!SGXSubmit2DKM(c)
        BY <4>3, Zenon DEF Given!SGXSubmit2DKM
      <4> QED
        BY <2>1, <4>1, <4>2, <4>3
    <3> QED
      BY <3>1, SubmitsKeep, Zenon
  <2>2. CASE \E c \in Contexts : Given!Runs(c)
    BY <2>2, RunsKeeps
  <2>3. CASE \E c \in Contexts : Given!Unregister(c)
    BY <2>3, UnregisterKeeps
  <2>4. CASE Given!CleansUp
    BY <2>4, CleansUpKeeps
  <2>5. CASE Given!Answered
    BY <2>5, AnsweredKeeps
  <2>6. CASE Given!TimesOut
    BY <2>6, TimesOutKeeps
  <2>7. CASE UNCHANGED Given!vars
    BY <2>7 DEF Given!vars, KickInv, KickTypes, Alone, Given!CleanedIsUnused
  <2> QED
    BY <2>1, <2>2, <2>3, <2>4, <2>5, <2>6, <2>7 DEF Given!Next
<1>2. KickInv => Given!CleanedIsUnused
  BY DEF KickInv
<1> QED
  BY <1>1, <1>2, KickInit, PTL DEF Given!Spec

-----------------------------------------------------------------------------
(* ResMan: who frees a resource.  The list of a process is in the order of  *)
(* registration, the newest first until a sweep turns it around; what a     *)
(* sweep has not freed it still has to do, or a callback has failed.        *)

CONSTANTS Kinds, MaxItems
VARIABLES contexts, psResItemList, kind, alive, unmanaged, sweep, failed, lost

Res == INSTANCE ResMan

All   == {"mapping", "modsync", "memory", "shared"}
Todo1 == <<"reverse", "modsync", "reverse", "memory", "shared">>
Todo2 == <<"modsync", "reverse", "memory", "shared">>
Todo3 == <<"reverse", "memory", "shared">>
Todo4 == <<"memory", "shared">>
Todos == {Res!Order, Todo1, Todo2, Todo3, Todo4, <<"shared">>, <<>>, <<"memory">>}

Sorted(s, up) == \A m, n \in DOMAIN s : m < n => IF up THEN s[m] < s[n] ELSE s[n] < s[m]

ResTypes ==
    /\ contexts \in SUBSET Res!Contexts /\ kind \in Seq(All)
    /\ psResItemList \in [Res!Contexts -> Seq(DOMAIN kind)]
    /\ alive \in SUBSET DOMAIN kind /\ unmanaged \in SUBSET DOMAIN kind
    /\ failed \in SUBSET DOMAIN kind /\ lost \in SUBSET DOMAIN kind
    /\ sweep \in [of : Res!Contexts, todo : Todos, swept : SUBSET DOMAIN kind, on : BOOLEAN]
    /\ ~sweep.on => sweep = Res!NoSweep
    /\ contexts # {} => "device" \in contexts
    /\ sweep.on => sweep.of \in contexts /\ (sweep.of = "device" => contexts = {"device"})
    /\ sweep.of = "device" => sweep.todo \in {<<"memory">>, <<>>}

ListsOK ==
    /\ \A c \in Res!Contexts :
          /\ Res!IsInjective(psResItemList[c])
          /\ c \notin contexts => psResItemList[c] = <<>>
          /\ Res!Listed(c) \cap (unmanaged \cup failed \cup lost) = {}
    /\ \A c, d \in Res!Contexts : c # d => Res!Listed(c) \cap Res!Listed(d) = {}

AllFreed ==
    /\ \A i : i \in alive <=> (\E c \in Res!Contexts : i \in Res!Listed(c))
                           \/ i \in unmanaged \cup failed \cup lost
    /\ unmanaged \cap (failed \cup lost) = {}
    /\ \A i \in lost : \E j \in failed : kind[j] = kind[i]
    /\ \A i \in Res!Listed("device") : kind[i] = "memory"

SweepOK ==
    /\ sweep.on => \A i \in Res!Listed(sweep.of) :
          kind[i] \in Res!ToSet(sweep.todo) \/ \E j \in failed : kind[j] = kind[i]
    /\ \A p \in Processes :
          ~sweep.on \/ sweep.of # p \/ sweep.todo \in {Res!Order, Todo1}
            => Sorted(psResItemList[p], FALSE)
    /\ sweep.todo = Todo2 => Sorted(psResItemList[sweep.of], TRUE)
    /\ sweep.todo \in {Res!Order, Todo1} => \A i \in sweep.swept : kind[i] # "modsync"
    /\ \A i \in sweep.swept, j \in Res!Listed(sweep.of) :
          kind[i] = "modsync" /\ kind[j] = "modsync" => i < j

ResInv == ResTypes /\ ListsOK /\ AllFreed /\ SweepOK

(* The operators on sequences are the same in this instance, too.           *)
LEMMA ResSequences ==
  ASSUME NEW s
  PROVE  /\ Res!ToSet(s) = ToSet(s)
         /\ Res!IsInjective(s) <=> IsInjective(s)
         /\ \A i : Res!RemoveAt(s, i) = RemoveAt(s, i)
BY DEF ToSet, Res!ToSet, IsInjective, Res!IsInjective,
       RemoveAt, Res!RemoveAt

(* What a sweep does next, and what it still has to do then.                *)
LEMMA TodoSteps ==
  /\ Head(Res!Order) = "mapping" /\ Tail(Res!Order) = Todo1
  /\ Head(Todo1) = "reverse" /\ Tail(Todo1) = Todo2
  /\ Head(Todo2) = "modsync" /\ Tail(Todo2) = Todo3
  /\ Head(Todo3) = "reverse" /\ Tail(Todo3) = Todo4
  /\ Head(Todo4) = "memory" /\ Tail(Todo4) = <<"shared">>
  /\ Head(<<"shared">>) = "shared" /\ Tail(<<"shared">>) = <<>>
  /\ Head(<<"memory">>) = "memory" /\ Tail(<<"memory">>) = <<>>
BY DEF Res!Order, Todo1, Todo2, Todo3, Todo4

(* What a sweep has to do, as a set.                                       *)
LEMMA TodoSets ==
  /\ Res!ToSet(Res!Order) = All \cup {"reverse"}
  /\ Res!ToSet(Todo1) = {"reverse", "modsync", "memory", "shared"}
  /\ Res!ToSet(Todo2) = {"reverse", "modsync", "memory", "shared"}
  /\ Res!ToSet(Todo3) = {"reverse", "memory", "shared"}
  /\ Res!ToSet(Todo4) = {"memory", "shared"}
  /\ Res!ToSet(<<"shared">>) = {"shared"} /\ Res!ToSet(<<"memory">>) = {"memory"}
  /\ Res!ToSet(<<>>) = {}
BY DEF Res!Order, Todo1, Todo2, Todo3, Todo4, All, Res!ToSet

(* What a sweep has to do tells how far it is.                              *)
LEMMA TodosDiffer ==
  /\ Res!Order \notin {Todo1, Todo2, Todo3, Todo4, <<"shared">>, <<>>, <<"memory">>}
  /\ Todo1 \notin {Todo2, Todo3, Todo4, <<"shared">>, <<>>, <<"memory">>}
  /\ Todo2 \notin {Todo3, Todo4, <<"shared">>, <<>>, <<"memory">>}
  /\ Todo3 # <<"memory">> /\ Todo4 # <<"memory">>
  /\ Todo3 # <<>> /\ Todo4 # <<>> /\ <<"shared">> # <<>> /\ <<"memory">> # <<>>
BY DEF Res!Order, Todo1, Todo2, Todo3, Todo4

(* What is taken out of a list leaves it in order.                          *)
LEMMA RemoveAtSorted ==
  ASSUME NEW s \in Seq(Nat), NEW i \in DOMAIN s, NEW up \in BOOLEAN, Sorted(s, up)
  PROVE  Sorted(RemoveAt(s, i), up)
<1> DEFINE r == RemoveAt(s, i)
           at(m) == IF m < i THEN m ELSE m + 1
<1>1. Len(s) \in Nat /\ DOMAIN s = 1..Len(s) /\ i \in 1..Len(s)
  OBVIOUS
<1>2. /\ r \in Seq(Nat) /\ Len(r) = Len(s) - 1
      /\ \A j \in 1..Len(s)-1 : r[j] = IF j < i THEN s[j] ELSE s[j + 1]
  BY RemoveAtElements
<1>3. DOMAIN r = 1..Len(s)-1
  BY <1>1, <1>2
<1> HIDE DEF r
<1>4. ASSUME NEW m \in DOMAIN r, NEW n \in DOMAIN r, m < n
      PROVE  IF up THEN r[m] < r[n] ELSE r[n] < r[m]
  <2>1. at(m) \in DOMAIN s /\ at(n) \in DOMAIN s /\ at(m) < at(n)
    <3>1. m \in 1..Len(s)-1 /\ n \in 1..Len(s)-1
      BY <1>3
    <3>2. at(m) \in 1..Len(s)
      BY <1>1, <3>1
    <3>3. at(n) \in 1..Len(s)
      BY <1>1, <3>1
    <3>4. at(m) < at(n)
      <4>1. m \in Int /\ n \in Int /\ i \in Int /\ m < n
        BY <1>1, <1>4, <3>1
      <4>2. CASE n < i
        <5>1. m < i
          BY <4>1, <4>2
        <5> QED
          BY <4>1, <4>2, <5>1
      <4>3. CASE ~(n < i)
        <5>1. at(n) = n + 1 /\ (at(m) = m \/ at(m) = m + 1)
          BY <4>3
        <5> HIDE DEF at
        <5> QED
          BY <4>1, <5>1
      <4> QED
        BY <4>2, <4>3
    <3> QED
      BY <1>1, <3>2, <3>3, <3>4
  <2>2. r[m] = s[at(m)] /\ r[n] = s[at(n)]
    BY <1>1, <1>2, <1>3, <1>4
  <2> HIDE DEF at
  <2> QED
    BY <2>1, <2>2 DEF Sorted
<1> QED
  BY <1>4 DEF Sorted, r

(* A new resource has the highest number.                                   *)
LEMMA PrependSorted ==
  ASSUME NEW s \in Seq(Nat), NEW x \in Nat, \A i \in Res!ToSet(s) : i < x, Sorted(s, FALSE)
  PROVE  Sorted(<<x>> \o s, FALSE)
<1> DEFINE r == <<x>> \o s
<1>1. Len(s) \in Nat /\ DOMAIN s = 1..Len(s) /\ \A j \in 1..Len(s) : s[j] < x
  BY DEF Res!ToSet
<1>2. /\ DOMAIN r = 1..Len(s)+1 /\ r[1] = x
      /\ \A j \in 1..Len(s)+1 : j # 1 => r[j] = s[j - 1]
  BY <1>1
<1> HIDE DEF r
<1>3. ASSUME NEW m \in DOMAIN r, NEW n \in DOMAIN r, m < n
      PROVE  r[n] < r[m]
  <2>1. n # 1 /\ n - 1 \in DOMAIN s /\ r[n] = s[n - 1]
    BY <1>1, <1>2, <1>3
  <2>2. CASE m = 1
    BY <1>1, <1>2, <2>1, <2>2
  <2>3. CASE m # 1
    <3>1. m - 1 \in DOMAIN s /\ r[m] = s[m - 1] /\ m - 1 < n - 1
      BY <1>1, <1>2, <1>3, <2>3
    <3> QED
      BY <2>1, <3>1 DEF Sorted
  <2> QED
    BY <2>2, <2>3
<1> QED
  BY <1>3 DEF Sorted, r

(* The other way round, the list is in the other order.                     *)
LEMMA ReverseMeans ==
  ASSUME NEW S, NEW s \in Seq(S), Res!IsInjective(s)
  PROVE  /\ Res!Reverse(s) \in Seq(S)
         /\ Res!ToSet(Res!Reverse(s)) = Res!ToSet(s)
         /\ Res!IsInjective(Res!Reverse(s))
         /\ Sorted(s, FALSE) => Sorted(Res!Reverse(s), TRUE)
<1> DEFINE r == Res!Reverse(s)
           at(m) == (Len(s) - m) + 1
<1>1. Len(s) \in Nat /\ DOMAIN s = 1..Len(s) /\ \A j \in DOMAIN s : s[j] \in S
  OBVIOUS
<1>2. r = [j \in 1..Len(s) |-> s[at(j)]]
  BY DEF Res!Reverse
<1>3. \A j \in 1..Len(s) : at(j) \in 1..Len(s) /\ at(at(j)) = j
  BY <1>1
<1>4. \A j, k \in 1..Len(s) : j < k => at(k) < at(j)
  BY <1>1
<1>5. \A j, k \in 1..Len(s) : at(j) = at(k) => j = k
  BY <1>1
<1> HIDE DEF r, at
<1>6. r \in Seq(S) /\ DOMAIN r = DOMAIN s /\ \A j \in DOMAIN s : r[j] = s[at(j)]
  <2>1. \A j \in 1..Len(s) : s[at(j)] \in S
    BY <1>1, <1>3
  <2> QED
    BY <1>1, <1>2, <2>1
<1>7. Res!ToSet(r) = Res!ToSet(s)
  <2>1. Res!ToSet(r) \subseteq Res!ToSet(s)
    BY <1>1, <1>3, <1>6 DEF Res!ToSet
  <2>2. ASSUME NEW j \in DOMAIN s  PROVE s[j] \in Res!ToSet(r)
    <3>1. at(j) \in DOMAIN r /\ r[at(j)] = s[j]
      BY <1>1, <1>3, <1>6
    <3> QED
      BY <3>1 DEF Res!ToSet
  <2> QED
    BY <2>1, <2>2 DEF Res!ToSet
<1>8. Res!IsInjective(r)
  BY <1>1, <1>3, <1>5, <1>6 DEF Res!IsInjective
<1>9. ASSUME Sorted(s, FALSE)  PROVE Sorted(r, TRUE)
  BY <1>1, <1>3, <1>4, <1>6, <1>9 DEF Sorted
<1> QED
  BY <1>6, <1>7, <1>8, <1>9 DEF r

-----------------------------------------------------------------------------
(* An item leaves the list it is in, and no other list changes.             *)
LEMMA RemoveMeans ==
  ASSUME ResTypes, ListsOK, NEW c \in Res!Contexts, NEW i \in Res!Listed(c),
         psResItemList' = Res!List_RESMAN_ITEM_Remove(i)
  PROVE  /\ psResItemList' \in [Res!Contexts -> Seq(DOMAIN kind)]
         /\ \A d \in Res!Contexts : /\ Res!ToSet(psResItemList'[d]) = Res!Listed(d) \ {i}
                                    /\ Res!IsInjective(psResItemList'[d])
         /\ \A d \in Res!Contexts : d # c => psResItemList'[d] = psResItemList[d]
         /\ \A up \in BOOLEAN :
               Sorted(psResItemList[c], up) => Sorted(psResItemList'[c], up)
<1> DEFINE s == psResItemList[c]
<1>1. s \in Seq(DOMAIN kind) /\ Res!IsInjective(s) /\ DOMAIN kind \subseteq Nat
  <2>1. kind \in Seq(All)
    BY DEF ResTypes
  <2>2. DOMAIN kind = 1..Len(kind) /\ Len(kind) \in Nat
    BY <2>1
  <2>3. Res!IsInjective(s)
    BY DEF ListsOK
  <2>4. s \in Seq(DOMAIN kind)
    BY DEF ResTypes
  <2> QED
    BY <2>2, <2>3, <2>4
<1>2. s \in Seq(Nat)
  BY <1>1
<1>3. PICK n \in DOMAIN s : s[n] = i
  BY DEF Res!Listed, Res!ToSet
<1>4. Res!Place(c, i) \in DOMAIN s /\ s[Res!Place(c, i)] = i
  BY <1>3 DEF Res!Place
<1>5. psResItemList'[c] = Res!RemoveAt(s, Res!Place(c, i))
  BY DEF Res!List_RESMAN_ITEM_Remove
<1>6. \A d \in Res!Contexts : d # c => i \notin Res!Listed(d)
  BY DEF ListsOK
<1>7. \A d \in Res!Contexts : d # c => psResItemList'[d] = psResItemList[d]
  BY <1>6 DEF Res!List_RESMAN_ITEM_Remove
<1>8. /\ psResItemList'[c] \in Seq(DOMAIN kind)
      /\ Res!ToSet(psResItemList'[c]) = Res!ToSet(s) \ {i}
      /\ Res!IsInjective(psResItemList'[c])
  BY <1>1, <1>4, <1>5, RemoveAtMeans, ResSequences
<1>9. \A up \in BOOLEAN : Sorted(s, up) => Sorted(psResItemList'[c], up)
  BY <1>2, <1>4, <1>5, RemoveAtSorted, ResSequences
<1>10. DOMAIN psResItemList' = Res!Contexts
       /\ psResItemList' = [d \in Res!Contexts |-> psResItemList'[d]]
  BY DEF Res!List_RESMAN_ITEM_Remove
<1>11. \A d \in Res!Contexts : psResItemList'[d] \in Seq(DOMAIN kind)
  BY <1>7, <1>8 DEF ResTypes
<1>12. psResItemList' \in [Res!Contexts -> Seq(DOMAIN kind)]
  BY <1>10, <1>11
<1>13. \A d \in Res!Contexts : /\ Res!ToSet(psResItemList'[d]) = Res!Listed(d) \ {i}
                               /\ Res!IsInjective(psResItemList'[d])
  <2> SUFFICES ASSUME NEW d \in Res!Contexts
               PROVE  /\ Res!ToSet(psResItemList'[d]) = Res!Listed(d) \ {i}
                      /\ Res!IsInjective(psResItemList'[d])
    OBVIOUS
  <2>1. CASE d = c
    BY <1>8, <2>1 DEF Res!Listed
  <2>2. CASE d # c
    <3>1. psResItemList'[d] = psResItemList[d] /\ i \notin Res!Listed(d)
      BY <1>6, <1>7, <2>2
    <3>2. Res!IsInjective(psResItemList[d])
      BY DEF ListsOK
    <3> QED
      BY <3>1, <3>2 DEF Res!Listed
  <2> QED
    BY <2>1, <2>2
<1> QED
  BY <1>7, <1>9, <1>12, <1>13

(* The resources and their types are numbers.                               *)
LEMMA KindMeans ==
  ASSUME ResTypes
  PROVE  /\ Len(kind) \in Nat /\ DOMAIN kind = 1..Len(kind)
         /\ \A i \in DOMAIN kind : kind[i] \in All
         /\ sweep.of \in Res!Contexts
         /\ \A c \in Res!Contexts :
               psResItemList[c] \in Seq(Nat) /\ Res!Listed(c) \subseteq DOMAIN kind
<1>1. kind \in Seq(All)
  BY DEF ResTypes
<1>2. /\ Len(kind) \in Nat /\ DOMAIN kind = 1..Len(kind)
      /\ \A i \in DOMAIN kind : kind[i] \in All
  BY <1>1
<1>3. ASSUME NEW c \in Res!Contexts
      PROVE  psResItemList[c] \in Seq(Nat) /\ Res!Listed(c) \subseteq DOMAIN kind
  <2>1. psResItemList[c] \in Seq(DOMAIN kind)
    BY DEF ResTypes
  <2>2. psResItemList[c] \in Seq(Nat)
    BY <1>2, <2>1
  <2>3. Res!Listed(c) \subseteq DOMAIN kind
    BY <2>1 DEF Res!Listed, Res!ToSet
  <2> QED
    BY <2>2, <2>3
<1>4. sweep.of \in Res!Contexts
  <2>1. sweep \in [of : Res!Contexts, todo : Todos, swept : SUBSET DOMAIN kind, on : BOOLEAN]
    BY DEF ResTypes
  <2> QED
    BY <2>1
<1> QED
  BY <1>2, <1>3, <1>4

(* What freeing an item leaves right, whatever its callback returns.        *)
LEMMA FreeMeans ==
  ASSUME ResTypes, ListsOK, AllFreed,
         NEW c \in Res!Contexts, NEW i \in Res!Listed(c), NEW ok \in BOOLEAN,
         Res!FreeResourceByPtr(i, ok), UNCHANGED <<contexts, kind, unmanaged, lost>>
  PROVE  /\ psResItemList' \in [Res!Contexts -> Seq(DOMAIN kind)]
         /\ alive' \in SUBSET DOMAIN kind /\ failed' \in SUBSET DOMAIN kind
         /\ ListsOK' /\ AllFreed'
         /\ failed \subseteq failed' /\ (~ok => i \in failed')
         /\ \A d \in Res!Contexts : Res!Listed(d)' = Res!Listed(d) \ {i}
         /\ \A d \in Res!Contexts : d # c => psResItemList'[d] = psResItemList[d]
         /\ \A up \in BOOLEAN :
               Sorted(psResItemList[c], up) => Sorted(psResItemList'[c], up)
<1>1. /\ psResItemList' \in [Res!Contexts -> Seq(DOMAIN kind)]
      /\ \A d \in Res!Contexts : /\ Res!ToSet(psResItemList'[d]) = Res!Listed(d) \ {i}
                                 /\ Res!IsInjective(psResItemList'[d])
      /\ \A d \in Res!Contexts : d # c => psResItemList'[d] = psResItemList[d]
      /\ \A up \in BOOLEAN :
            Sorted(psResItemList[c], up) => Sorted(psResItemList'[c], up)
  BY RemoveMeans DEF Res!FreeResourceByPtr
<1>2. \A d \in Res!Contexts : Res!Listed(d)' = Res!Listed(d) \ {i}
  BY <1>1 DEF Res!Listed
<1>3. i \in DOMAIN kind
  BY KindMeans
<1>4. alive' \in SUBSET DOMAIN kind /\ failed' \in SUBSET DOMAIN kind
  BY <1>3 DEF Res!FreeResourceByPtr, ResTypes
<1>5. /\ failed \subseteq failed' /\ (~ok => i \in failed') /\ failed' \subseteq failed \cup {i}
      /\ ok => failed' = failed /\ alive' = alive \ {i}
      /\ ~ok => failed' = failed \cup {i} /\ alive' = alive
  BY DEF Res!FreeResourceByPtr
<1>6. /\ i \notin unmanaged /\ i \notin failed /\ i \notin lost
      /\ \A d \in Res!Contexts : d # c => i \notin Res!Listed(d)
  BY DEF ListsOK
<1>7. c \in contexts
  <2>1. SUFFICES ASSUME psResItemList[c] = <<>>  PROVE FALSE
    BY DEF ListsOK
  <2> QED
    BY <2>1 DEF Res!Listed, Res!ToSet
<1>8. ListsOK'
  <2>1. ASSUME NEW d \in Res!Contexts
        PROVE  /\ Res!IsInjective(psResItemList'[d])
               /\ d \notin contexts' => psResItemList'[d] = <<>>
               /\ Res!Listed(d)' \cap (unmanaged' \cup failed' \cup lost') = {}
    <3>1. d \notin contexts => psResItemList[d] = <<>>
      BY DEF ListsOK
    <3>2. d \notin contexts' => psResItemList'[d] = <<>>
      BY <1>1, <1>7, <3>1
    <3>3. Res!Listed(d) \cap (unmanaged \cup failed \cup lost) = {}
      BY DEF ListsOK
    <3>4. Res!Listed(d)' \cap (unmanaged' \cup failed' \cup lost') = {}
      BY <1>2, <1>5, <3>3
    <3> QED
      BY <1>1, <3>2, <3>4
  <2>2. \A d, e \in Res!Contexts : d # e => Res!Listed(d)' \cap Res!Listed(e)' = {}
    BY <1>2 DEF ListsOK
  <2> QED
    BY <2>1, <2>2 DEF ListsOK, Res!Listed, Res!Contexts
<1>9. AllFreed'
  <2>1. ASSUME NEW j
        PROVE  j \in alive' <=> (\E d \in Res!Contexts : j \in Res!Listed(d)')
                                \/ j \in unmanaged' \cup failed' \cup lost'
    <3>1. j \in alive <=> (\E d \in Res!Contexts : j \in Res!Listed(d))
                           \/ j \in unmanaged \cup failed \cup lost
      BY DEF AllFreed
    <3>2. CASE j = i
      <4>1. j \in alive
        BY <3>1, <3>2
      <4>2. CASE ok
        BY <1>2, <1>5, <1>6, <3>2, <4>2
      <4>3. CASE ~ok
        BY <1>5, <3>2, <4>1, <4>3
      <4> QED
        BY <4>2, <4>3
    <3>3. CASE j # i
      <4>1. (\E d \in Res!Contexts : j \in Res!Listed(d)')
              <=> (\E d \in Res!Contexts : j \in Res!Listed(d))
        BY <1>2, <3>3
      <4>2. j \in unmanaged' \cup failed' \cup lost' <=> j \in unmanaged \cup failed \cup lost
        BY <1>5, <3>3
      <4>3. j \in alive' <=> j \in alive
        BY <1>5, <3>3
      <4> QED
        BY <3>1, <4>1, <4>2, <4>3
    <3> QED
      BY <3>2, <3>3
  <2>2. unmanaged' \cap (failed' \cup lost') = {}
    BY <1>5, <1>6 DEF AllFreed
  <2>3. \A j \in lost' : \E k \in failed' : kind'[k] = kind'[j]
    BY <1>5 DEF AllFreed
  <2>4. "device" \in Res!Contexts
    BY DEF Res!Contexts
  <2>5. \A j \in Res!Listed("device")' : kind'[j] = "memory"
    BY <1>2, <2>4 DEF AllFreed
  <2> QED
    BY <2>1, <2>2, <2>3, <2>5 DEF AllFreed, Res!Contexts, Res!Listed
<1> QED
  BY <1>1, <1>2, <1>4, <1>5, <1>8, <1>9

-----------------------------------------------------------------------------
(* Nothing is listed at first.                                              *)
LEMMA ResInit == Res!NamesOK /\ Res!Init => ResInv
<1> SUFFICES ASSUME Res!NamesOK, Res!Init  PROVE ResInv
  OBVIOUS
<1>1. \A c \in Res!Contexts : psResItemList[c] = <<>> /\ Res!Listed(c) = {}
  BY DEF Res!Init, Res!Listed, Res!ToSet
<1>2. ResTypes
  <2>1. <<>> \in Todos
    BY DEF Todos
  <2>2. kind = <<>> /\ kind \in Seq(All)
    BY DEF Res!Init
  <2>3. psResItemList \in [Res!Contexts -> Seq(DOMAIN kind)]
    BY DEF Res!Init
  <2> QED
    BY <2>1, <2>2, <2>3 DEF Res!Init, ResTypes, Res!NoSweep, Res!Contexts
<1>3. ListsOK
  BY <1>1 DEF Res!Init, ListsOK, Res!IsInjective
<1>4. AllFreed
  BY <1>1 DEF Res!Init, AllFreed, Res!Contexts
<1>5. SweepOK
  <2>1. \A p \in Processes : p \in Res!Contexts
    BY DEF Res!Contexts
  <2>2. Sorted(<<>>, TRUE) /\ Sorted(<<>>, FALSE)
    BY DEF Sorted
  <2>3. ~sweep.on /\ sweep.swept = {} /\ sweep.of \in Res!Contexts
    BY DEF Res!Init, Res!NoSweep, Res!Contexts
  <2> QED
    BY <1>1, <2>1, <2>2, <2>3 DEF SweepOK
<1> QED
  BY <1>2, <1>3, <1>4, <1>5 DEF ResInv

(* While nothing is swept, the lists of the processes are in order.         *)
LEMMA NoSweepOK ==
  ASSUME ~sweep.on, sweep = Res!NoSweep
  PROVE  SweepOK <=> \A p \in Processes : Sorted(psResItemList[p], FALSE)
<1>1. sweep.todo = <<>> /\ sweep.swept = {}
  BY DEF Res!NoSweep
<1>2. <<>> \notin {Res!Order, Todo1, Todo2}
  BY TodosDiffer
<1> QED
  BY <1>1, <1>2 DEF SweepOK

(* A process connects: its list is empty.                                   *)
LEMMA ConnectKeeps ==
  ASSUME ResInv, NEW p \in Processes, Res!PVRSRVResManConnect(p)
  PROVE  ResInv'
<1>1. /\ ~sweep.on /\ contexts' = contexts \cup {p} /\ p \in Res!Contexts /\ "device" \in contexts
      /\ UNCHANGED <<psResItemList, kind, alive, unmanaged, sweep, failed, lost>>
  BY DEF Res!PVRSRVResManConnect, Res!Contexts
<1>2. ResTypes'
  BY <1>1 DEF ResInv, ResTypes, Res!Contexts, Res!NoSweep
<1>3. ListsOK'
  <2>1. \A c \in Res!Contexts : /\ Res!IsInjective(psResItemList[c])
                                /\ c \notin contexts => psResItemList[c] = <<>>
                                /\ Res!Listed(c) \cap (unmanaged \cup failed \cup lost) = {}
    BY DEF ResInv, ListsOK
  <2>2. \A c, d \in Res!Contexts : c # d => Res!Listed(c) \cap Res!Listed(d) = {}
    BY DEF ResInv, ListsOK
  <2> QED
    BY <1>1, <2>1, <2>2 DEF ListsOK, Res!Listed, Res!Contexts
<1>4. AllFreed'
  BY <1>1 DEF ResInv, AllFreed, Res!Listed, Res!Contexts
<1>5. SweepOK'
  BY <1>1 DEF ResInv, SweepOK, Res!Listed
<1> QED
  BY <1>2, <1>3, <1>4, <1>5 DEF ResInv

(* What a new resource changes: nothing of those there are.                 *)
LEMMA NewResource ==
  ASSUME ResTypes, NEW k \in All, kind' = Append(kind, k)
  PROVE  LET new == Len(kind) + 1
         IN  /\ kind' \in Seq(All) /\ DOMAIN kind' = DOMAIN kind \cup {new}
             /\ new \in Nat /\ new \notin DOMAIN kind /\ kind'[new] = k
             /\ \A i \in DOMAIN kind : i < new /\ kind'[i] = kind[i]
<1> DEFINE new == Len(kind) + 1
<1>1. kind \in Seq(All)
  BY DEF ResTypes
<1>2. /\ kind' \in Seq(All) /\ Len(kind') = Len(kind) + 1 /\ kind'[new] = k
      /\ \A i \in 1..Len(kind) : kind'[i] = kind[i]
  BY <1>1
<1>3. /\ Len(kind) \in Nat /\ DOMAIN kind = 1..Len(kind)
      /\ DOMAIN kind' = 1..Len(kind')
  BY <1>1, <1>2
<1> QED
  BY <1>2, <1>3

(* A resource is registered: the newest of its list, or unmanaged.          *)
LEMMA RegisterKeeps ==
  ASSUME Res!NamesOK, ResInv, NEW p \in Processes, NEW k \in Kinds, NEW ok \in BOOLEAN,
         Res!ResManRegisterRes(p, k, ok)
  PROVE  ResInv'
<1> DEFINE new == Len(kind) + 1
           old == psResItemList[p]
<1>1. /\ ~sweep.on /\ p \in contexts /\ p \in Res!Contexts /\ p # "device"
      /\ kind' = Append(kind, k) /\ alive' = alive \cup {new} /\ k \in All
      /\ UNCHANGED <<contexts, sweep, failed, lost>>
  BY DEF Res!ResManRegisterRes, Res!Contexts, Res!NamesOK, All
<1>2. ResTypes /\ ListsOK /\ AllFreed /\ SweepOK
  BY DEF ResInv
<1>3. /\ kind' \in Seq(All) /\ DOMAIN kind' = DOMAIN kind \cup {new}
      /\ new \in Nat /\ new \notin DOMAIN kind
      /\ \A i \in DOMAIN kind : i < new /\ kind'[i] = kind[i]
  BY <1>1, <1>2, NewResource
<1>4. /\ \A c \in Res!Contexts :
            psResItemList[c] \in Seq(Nat) /\ Res!Listed(c) \subseteq DOMAIN kind
      /\ lost \subseteq DOMAIN kind /\ failed \subseteq DOMAIN kind
      /\ unmanaged \subseteq DOMAIN kind /\ alive \subseteq DOMAIN kind
  BY <1>2, KindMeans DEF ResTypes
<1>5. sweep = Res!NoSweep /\ \A q \in Processes : Sorted(psResItemList[q], FALSE)
  BY <1>1, <1>2, NoSweepOK DEF ResTypes
<1>6. \A i \in lost : \E j \in failed : kind'[j] = kind'[i]
  BY <1>2, <1>3, <1>4 DEF AllFreed
<1>7. "device" \in Res!Contexts /\ \A i \in Res!Listed("device") : kind'[i] = "memory"
  BY <1>2, <1>3, <1>4 DEF AllFreed, Res!Contexts
<1> HIDE DEF new
<1>8. CASE ok
  <2>1. /\ psResItemList' = [psResItemList EXCEPT ![p] = <<new>> \o old]
        /\ UNCHANGED unmanaged
    BY <1>8 DEF Res!ResManRegisterRes, new
  <2>2. DOMAIN psResItemList = Res!Contexts /\ old \in Seq(DOMAIN kind)
    BY <1>1, <1>2 DEF ResTypes
  <2>3. old \in Seq(DOMAIN kind') /\ new \in DOMAIN kind' /\ new \notin Res!ToSet(old)
    <3>1. old \in Seq(DOMAIN kind')
      BY <1>3, <2>2
    <3> QED
      BY <1>1, <1>3, <1>4, <3>1 DEF Res!Listed
  <2>4. Res!IsInjective(old)
    BY <1>1, <1>2 DEF ListsOK
  <2>5. /\ <<new>> \o old \in Seq(DOMAIN kind')
        /\ Res!ToSet(<<new>> \o old) = Res!ToSet(old) \cup {new}
        /\ Res!IsInjective(<<new>> \o old)
    BY <2>3, <2>4, PrependMeans, ResSequences
  <2>6. Sorted(<<new>> \o old, FALSE)
    BY <1>1, <1>3, <1>4, <1>5, PrependSorted DEF Res!Listed
  <2>7. /\ psResItemList'[p] = <<new>> \o old
        /\ \A c \in Res!Contexts : c # p => psResItemList'[c] = psResItemList[c]
    BY <1>1, <2>1, <2>2
  <2>8. \A c \in Res!Contexts : psResItemList[c] \in Seq(DOMAIN kind')
    BY <1>2, <1>3 DEF ResTypes
  <2>9. /\ Res!Listed(p)' = Res!Listed(p) \cup {new}
        /\ \A c \in Res!Contexts : c # p => Res!Listed(c)' = Res!Listed(c)
    BY <2>5, <2>7 DEF Res!Listed
  <2>10. ResTypes'
    <3>1. psResItemList' \in [Res!Contexts -> Seq(DOMAIN kind')]
      BY <2>1, <2>2, <2>5, <2>8
    <3>2. alive' \in SUBSET DOMAIN kind'
      BY <1>1, <1>3, <1>4
    <3> QED
      BY <1>1, <1>2, <1>3, <1>4, <2>1, <3>1, <3>2 DEF ResTypes, Res!Contexts, Res!NoSweep
  <2>11. ListsOK'
    <3>1. ASSUME NEW c \in Res!Contexts
          PROVE  /\ Res!IsInjective(psResItemList'[c])
                 /\ c \notin contexts' => psResItemList'[c] = <<>>
                 /\ Res!Listed(c)' \cap (unmanaged' \cup failed' \cup lost') = {}
      <4>1. /\ Res!IsInjective(psResItemList[c])
            /\ c \notin contexts => psResItemList[c] = <<>>
            /\ Res!Listed(c) \cap (unmanaged \cup failed \cup lost) = {}
        BY <1>2 DEF ListsOK
      <4>2. CASE c = p
        BY <1>1, <1>3, <1>4, <2>1, <2>5, <2>7, <2>9, <4>1, <4>2
      <4>3. CASE c # p
        BY <1>1, <2>1, <2>7, <2>9, <4>1, <4>3
      <4> QED
        BY <4>2, <4>3
    <3>2. \A c, d \in Res!Contexts : c # d => Res!Listed(c)' \cap Res!Listed(d)' = {}
      BY <1>2, <1>3, <1>4, <2>9 DEF ListsOK
    <3> QED
      BY <3>1, <3>2 DEF ListsOK, Res!Listed, Res!Contexts
  <2>12. AllFreed'
    <3>1. \A j : j \in alive' <=> \/ \E d \in Res!Contexts : j \in Res!Listed(d)'
                                  \/ j \in unmanaged' \cup failed' \cup lost'
      BY <1>1, <1>2, <2>1, <2>9 DEF AllFreed
    <3>2. \A i \in Res!Listed("device")' : kind'[i] = "memory"
      BY <1>1, <1>7, <2>9
    <3> QED
      BY <1>1, <1>2, <1>6, <2>1, <3>1, <3>2 DEF AllFreed, Res!Listed, Res!Contexts
  <2>13. SweepOK'
    <3>1. \A q \in Processes : Sorted(psResItemList'[q], FALSE)
      BY <1>5, <2>6, <2>7 DEF Res!Contexts
    <3> QED
      BY <1>1, <1>5, <3>1, NoSweepOK, TodosDiffer DEF SweepOK, Res!NoSweep
  <2> QED
    BY <2>10, <2>11, <2>12, <2>13 DEF ResInv
<1>9. CASE ~ok
  <2>1. unmanaged' = unmanaged \cup {new} /\ UNCHANGED psResItemList
    BY <1>9 DEF Res!ResManRegisterRes, new
  <2>2. \A c \in Res!Contexts : Res!Listed(c)' = Res!Listed(c)
    BY <2>1 DEF Res!Listed
  <2>3. ResTypes'
    <3>1. \A c \in Res!Contexts : psResItemList[c] \in Seq(DOMAIN kind')
      BY <1>2, <1>3 DEF ResTypes
    <3>2. psResItemList' \in [Res!Contexts -> Seq(DOMAIN kind')]
      BY <1>2, <2>1, <3>1 DEF ResTypes
    <3> QED
      BY <1>1, <1>2, <1>3, <1>4, <2>1, <3>2 DEF ResTypes, Res!Contexts, Res!NoSweep
  <2>4. ListsOK'
    <3>1. \A c \in Res!Contexts : new \notin Res!Listed(c)
      BY <1>3, <1>4
    <3>2. ASSUME NEW c \in Res!Contexts
          PROVE  /\ Res!IsInjective(psResItemList'[c])
                 /\ c \notin contexts' => psResItemList'[c] = <<>>
                 /\ Res!Listed(c)' \cap (unmanaged' \cup failed' \cup lost') = {}
      BY <1>1, <1>2, <2>1, <2>2, <3>1 DEF ListsOK
    <3>3. \A c, d \in Res!Contexts : c # d => Res!Listed(c)' \cap Res!Listed(d)' = {}
      BY <1>2, <2>2 DEF ListsOK
    <3> QED
      BY <3>2, <3>3 DEF ListsOK, Res!Listed, Res!Contexts
  <2>5. AllFreed'
    <3>1. \A j : j \in alive' <=> \/ \E d \in Res!Contexts : j \in Res!Listed(d)'
                                  \/ j \in unmanaged' \cup failed' \cup lost'
      BY <1>1, <1>2, <2>1, <2>2 DEF AllFreed
    <3>2. unmanaged' \cap (failed' \cup lost') = {}
      BY <1>1, <1>2, <1>3, <1>4, <2>1 DEF AllFreed
    <3> QED
      BY <1>1, <1>6, <1>7, <2>1, <2>2, <3>1, <3>2 DEF AllFreed, Res!Listed, Res!Contexts
  <2>6. SweepOK'
    BY <1>1, <1>5, <2>1, NoSweepOK, TodosDiffer DEF SweepOK, Res!NoSweep
  <2> QED
    BY <2>3, <2>4, <2>5, <2>6 DEF ResInv
<1> QED
  BY <1>8, <1>9

(* While nothing is swept, a list may lose an item.                         *)
LEMMA FreeByPtrKeeps ==
  ASSUME Res!NamesOK, ResInv, NEW p \in Processes, NEW i, NEW ok \in BOOLEAN,
         Res!ResManFreeResByPtr(p, i, ok)
  PROVE  ResInv'
<1>1. /\ ~sweep.on /\ p \in Res!Contexts /\ i \in Res!Listed(p) /\ Res!FreeResourceByPtr(i, ok)
      /\ UNCHANGED <<contexts, kind, unmanaged, sweep, lost>>
  BY DEF Res!ResManFreeResByPtr, Res!Contexts
<1>2. ResTypes /\ ListsOK /\ AllFreed /\ SweepOK
  BY DEF ResInv
<1>3. /\ psResItemList' \in [Res!Contexts -> Seq(DOMAIN kind)]
      /\ alive' \in SUBSET DOMAIN kind /\ failed' \in SUBSET DOMAIN kind
      /\ ListsOK' /\ AllFreed'
      /\ \A d \in Res!Contexts : d # p => psResItemList'[d] = psResItemList[d]
      /\ \A up \in BOOLEAN :
            Sorted(psResItemList[p], up) => Sorted(psResItemList'[p], up)
  BY <1>1, <1>2, FreeMeans
<1>4. ResTypes'
  BY <1>1, <1>2, <1>3 DEF ResTypes, Res!Contexts, Res!NoSweep
<1>5. sweep = Res!NoSweep
  BY <1>1, <1>2 DEF ResTypes
<1>6. \A q \in Processes : Sorted(psResItemList'[q], FALSE)
  BY <1>1, <1>2, <1>3, <1>5, NoSweepOK DEF Res!Contexts
<1>7. SweepOK'
  BY <1>1, <1>5, <1>6, TodosDiffer DEF SweepOK, Res!NoSweep
<1> QED
  BY <1>3, <1>4, <1>7 DEF ResInv

(* An item goes to the device's list, or out of the manager.                *)
LEMMA MovesKeep ==
  ASSUME Res!NamesOK, ResInv, NEW p \in Processes, NEW i, Res!ResManDissociateRes(p, i)
  PROVE  ResInv'
<1> DEFINE removed == Res!List_RESMAN_ITEM_Remove(i)
           device == removed["device"]
<1>1. /\ ~sweep.on /\ p \in Res!Contexts /\ i \in Res!Listed(p)
      /\ p # "device" /\ "device" \in Res!Contexts
      /\ UNCHANGED <<contexts, kind, alive, sweep, failed, lost>>
  BY DEF Res!ResManDissociateRes, Res!Contexts, Res!NamesOK
<1>2. ResTypes /\ ListsOK /\ AllFreed /\ SweepOK
  BY DEF ResInv
<1>3. sweep = Res!NoSweep /\ \A q \in Processes : Sorted(psResItemList[q], FALSE)
  BY <1>1, <1>2, NoSweepOK DEF ResTypes
<1>4. i \in DOMAIN kind
  BY <1>1, <1>2, KindMeans
<1>5. /\ i \notin unmanaged /\ i \notin failed /\ i \notin lost
      /\ \A d \in Res!Contexts : d # p => i \notin Res!Listed(d)
  BY <1>1, <1>2 DEF ListsOK
<1>6. p \in contexts
  <2>1. psResItemList[p] # <<>>
    BY <1>1 DEF Res!Listed, Res!ToSet
  <2> QED
    BY <1>1, <1>2, <2>1 DEF ListsOK
<1>7. i \in alive
  BY <1>1, <1>2 DEF AllFreed
<1>8. CASE /\ kind[i] = "shared" /\ psResItemList' = removed
           /\ unmanaged' = unmanaged \cup {i}
  <2>1. /\ psResItemList' \in [Res!Contexts -> Seq(DOMAIN kind)]
        /\ \A d \in Res!Contexts : /\ Res!ToSet(psResItemList'[d]) = Res!Listed(d) \ {i}
                                   /\ Res!IsInjective(psResItemList'[d])
        /\ \A d \in Res!Contexts : d # p => psResItemList'[d] = psResItemList[d]
        /\ \A up \in BOOLEAN :
              Sorted(psResItemList[p], up) => Sorted(psResItemList'[p], up)
    BY <1>1, <1>2, <1>8, RemoveMeans
  <2>2. \A d \in Res!Contexts : Res!Listed(d)' = Res!Listed(d) \ {i}
    BY <2>1 DEF Res!Listed
  <2>3. ResTypes'
    BY <1>1, <1>2, <1>4, <1>8, <2>1 DEF ResTypes, Res!Contexts, Res!NoSweep
  <2>4. ListsOK'
    <3>1. ASSUME NEW d \in Res!Contexts
          PROVE  /\ Res!IsInjective(psResItemList'[d])
                 /\ d \notin contexts' => psResItemList'[d] = <<>>
                 /\ Res!Listed(d)' \cap (unmanaged' \cup failed' \cup lost') = {}
      <4>1. /\ d \notin contexts => psResItemList[d] = <<>>
            /\ Res!Listed(d) \cap (unmanaged \cup failed \cup lost) = {}
        BY <1>2 DEF ListsOK
      <4> QED
        BY <1>1, <1>6, <1>8, <2>1, <2>2, <4>1
    <3>2. \A d, e \in Res!Contexts : d # e => Res!Listed(d)' \cap Res!Listed(e)' = {}
      BY <1>2, <2>2 DEF ListsOK
    <3> QED
      BY <3>1, <3>2 DEF ListsOK, Res!Listed, Res!Contexts
  <2>5. AllFreed'
    <3>1. ASSUME NEW j
          PROVE  j \in alive' <=> (\E d \in Res!Contexts : j \in Res!Listed(d)')
                                  \/ j \in unmanaged' \cup failed' \cup lost'
      <4>1. j \in alive <=> (\E d \in Res!Contexts : j \in Res!Listed(d))
                             \/ j \in unmanaged \cup failed \cup lost
        BY <1>2 DEF AllFreed
      <4>2. CASE j = i
        BY <1>1, <1>7, <1>8, <4>2
      <4>3. CASE j # i
        BY <1>1, <1>8, <2>2, <4>1, <4>3
      <4> QED
        BY <4>2, <4>3
    <3>2. unmanaged' \cap (failed' \cup lost') = {}
      BY <1>1, <1>2, <1>5, <1>8 DEF AllFreed
    <3>3. /\ \A j \in lost' : \E k \in failed' : kind'[k] = kind'[j]
          /\ \A j \in Res!Listed("device")' : kind'[j] = "memory"
      BY <1>1, <1>2, <2>2 DEF AllFreed
    <3> QED
      BY <3>1, <3>2, <3>3 DEF AllFreed, Res!Listed, Res!Contexts
  <2>6. \A q \in Processes : Sorted(psResItemList'[q], FALSE)
    BY <1>3, <2>1 DEF Res!Contexts
  <2>7. SweepOK'
    BY <1>1, <1>3, <2>6, TodosDiffer DEF SweepOK, Res!NoSweep
  <2> QED
    BY <2>3, <2>4, <2>5, <2>7 DEF ResInv
<1>9. CASE /\ kind[i] = "memory" /\ UNCHANGED unmanaged
           /\ psResItemList' = [removed EXCEPT !["device"] = <<i>> \o @]
  <2>1. i \notin Res!Listed("device")
    BY <1>1, <1>5
  <2>2. DOMAIN removed = Res!Contexts /\ device = psResItemList["device"]
    BY <1>1, <2>1 DEF Res!List_RESMAN_ITEM_Remove
  <2> HIDE DEF removed
  <2>3. /\ psResItemList'["device"] = <<i>> \o psResItemList["device"]
        /\ \A d \in Res!Contexts : d # "device" => psResItemList'[d] = removed[d]
    BY <1>1, <1>9, <2>2
  <2>4. /\ psResItemList["device"] \in Seq(DOMAIN kind) /\ Res!IsInjective(psResItemList["device"])
        /\ i \notin Res!ToSet(psResItemList["device"])
    BY <1>1, <1>2, <2>1 DEF ResTypes, ListsOK, Res!Listed
  <2>5. /\ psResItemList'["device"] \in Seq(DOMAIN kind)
        /\ Res!Listed("device")' = Res!Listed("device") \cup {i}
        /\ Res!IsInjective(psResItemList'["device"])
    BY <1>4, <2>3, <2>4, PrependMeans, ResSequences DEF Res!Listed
  <2>6. /\ \A d \in Res!Contexts : d # "device" /\ d # p => removed[d] = psResItemList[d]
        /\ removed[p] = Res!RemoveAt(psResItemList[p], Res!Place(p, i))
    BY <1>1, <1>5 DEF removed, Res!List_RESMAN_ITEM_Remove
  <2>7. /\ psResItemList[p] \in Seq(DOMAIN kind) /\ Res!IsInjective(psResItemList[p])
        /\ psResItemList[p] \in Seq(Nat)
    BY <1>1, <1>2, KindMeans DEF ResTypes, ListsOK
  <2>8. Res!Place(p, i) \in DOMAIN psResItemList[p] /\ psResItemList[p][Res!Place(p, i)] = i
    <3>1. PICK n \in DOMAIN psResItemList[p] : psResItemList[p][n] = i
      BY <1>1 DEF Res!Listed, Res!ToSet
    <3> QED
      BY <3>1 DEF Res!Place
  <2>9. /\ psResItemList'[p] \in Seq(DOMAIN kind)
        /\ Res!Listed(p)' = Res!Listed(p) \ {i}
        /\ Res!IsInjective(psResItemList'[p])
    BY <1>1, <2>3, <2>6, <2>7, <2>8, RemoveAtMeans, ResSequences DEF Res!Listed
  <2>10. Sorted(psResItemList'[p], FALSE)
    BY <1>1, <1>3, <2>3, <2>6, <2>7, <2>8, RemoveAtSorted, ResSequences
  <2>11. \A d \in Res!Contexts \ {"device", p} : psResItemList'[d] = psResItemList[d]
    BY <2>3, <2>6
  <2>12. \A d \in Res!Contexts \ {"device", p} : Res!Listed(d)' = Res!Listed(d)
    BY <2>11 DEF Res!Listed
  <2>13. ResTypes'
    <3>1. \A d \in Res!Contexts : psResItemList'[d] \in Seq(DOMAIN kind)
      BY <1>2, <2>5, <2>9, <2>11 DEF ResTypes
    <3>2. psResItemList' \in [Res!Contexts -> Seq(DOMAIN kind)]
      BY <1>9, <2>2, <3>1
    <3> QED
      BY <1>1, <1>2, <1>9, <3>2 DEF ResTypes, Res!Contexts, Res!NoSweep
  <2>14. ListsOK'
    <3>1. ASSUME NEW d \in Res!Contexts
          PROVE  /\ Res!IsInjective(psResItemList'[d])
                 /\ d \notin contexts' => psResItemList'[d] = <<>>
                 /\ Res!Listed(d)' \cap (unmanaged' \cup failed' \cup lost') = {}
      <4>1. /\ Res!IsInjective(psResItemList[d])
            /\ d \notin contexts => psResItemList[d] = <<>>
            /\ Res!Listed(d) \cap (unmanaged \cup failed \cup lost) = {}
        BY <1>2 DEF ListsOK
      <4>2. CASE d = "device"
        <5>1. d \in contexts
          BY <1>2, <1>6, <4>2 DEF ResTypes
        <5> QED
          BY <1>1, <1>5, <1>9, <2>5, <4>1, <4>2, <5>1
      <4>3. CASE d = p
        BY <1>1, <1>6, <1>9, <2>9, <4>1, <4>3
      <4>4. CASE d \notin {"device", p}
        BY <1>1, <1>9, <2>11, <2>12, <4>1, <4>4
      <4> QED
        BY <4>2, <4>3, <4>4
    <3>2. ASSUME NEW d \in Res!Contexts, NEW e \in Res!Contexts, d # e
          PROVE  Res!Listed(d)' \cap Res!Listed(e)' = {}
      <4>1. /\ \A c \in Res!Contexts : c # "device" => Res!Listed(c)' \subseteq Res!Listed(c) \ {i}
            /\ Res!Listed("device")' = Res!Listed("device") \cup {i}
        BY <1>5, <2>5, <2>9, <2>12
      <4>2. Res!Listed(d) \cap Res!Listed(e) = {}
        BY <1>2, <3>2 DEF ListsOK
      <4> QED
        BY <3>2, <4>1, <4>2
    <3> QED
      BY <3>1, <3>2 DEF ListsOK, Res!Listed, Res!Contexts
  <2>15. AllFreed'
    <3>1. ASSUME NEW j
          PROVE  j \in alive' <=> (\E d \in Res!Contexts : j \in Res!Listed(d)')
                                  \/ j \in unmanaged' \cup failed' \cup lost'
      <4>1. j \in alive <=> (\E d \in Res!Contexts : j \in Res!Listed(d))
                             \/ j \in unmanaged \cup failed \cup lost
        BY <1>2 DEF AllFreed
      <4>2. CASE j = i
        BY <1>1, <1>7, <2>5, <4>2
      <4>3. CASE j # i
        <5>1. \A d \in Res!Contexts : j \in Res!Listed(d)' <=> j \in Res!Listed(d)
          BY <2>5, <2>9, <2>12, <4>3
        <5> QED
          BY <1>1, <1>9, <4>1, <5>1
      <4> QED
        BY <4>2, <4>3
    <3>2. \A j \in Res!Listed("device")' : kind'[j] = "memory"
      BY <1>1, <1>2, <1>9, <2>5 DEF AllFreed
    <3>3. /\ unmanaged' \cap (failed' \cup lost') = {}
          /\ \A j \in lost' : \E k \in failed' : kind'[k] = kind'[j]
      BY <1>1, <1>2, <1>9 DEF AllFreed
    <3> QED
      BY <3>1, <3>2, <3>3 DEF AllFreed, Res!Listed, Res!Contexts
  <2>16. \A q \in Processes : Sorted(psResItemList'[q], FALSE)
    BY <1>3, <2>10, <2>11 DEF Res!Contexts, Res!NamesOK
  <2>17. SweepOK'
    BY <1>1, <1>3, <2>16, TodosDiffer DEF SweepOK, Res!NoSweep
  <2> QED
    BY <2>13, <2>14, <2>15, <2>17 DEF ResInv
<1> QED
  BY <1>8, <1>9 DEF Res!ResManDissociateRes

(* Unmanaged memory is freed, and is in no list.                            *)
LEMMA FreeSharedKeeps ==
  ASSUME Res!NamesOK, ResInv, NEW i, Res!PVRSRVFreeSharedSysMemoryKM(i)
  PROVE  ResInv'
<1>1. /\ ~sweep.on /\ i \in unmanaged /\ alive' = alive \ {i} /\ unmanaged' = unmanaged \ {i}
      /\ UNCHANGED <<contexts, psResItemList, kind, sweep, failed, lost>>
  BY DEF Res!PVRSRVFreeSharedSysMemoryKM
<1>2. ResTypes /\ ListsOK /\ AllFreed /\ SweepOK
  BY DEF ResInv
<1>3. \A c \in Res!Contexts : Res!Listed(c)' = Res!Listed(c) /\ i \notin Res!Listed(c)
  BY <1>1, <1>2 DEF Res!Listed, ListsOK
<1>4. ResTypes'
  BY <1>1, <1>2 DEF ResTypes, Res!Contexts, Res!NoSweep
<1>5. ListsOK'
  <2>1. ASSUME NEW c \in Res!Contexts
        PROVE  /\ Res!IsInjective(psResItemList'[c])
               /\ c \notin contexts' => psResItemList'[c] = <<>>
               /\ Res!Listed(c)' \cap (unmanaged' \cup failed' \cup lost') = {}
    BY <1>1, <1>2, <1>3 DEF ListsOK
  <2>2. \A c, d \in Res!Contexts : c # d => Res!Listed(c)' \cap Res!Listed(d)' = {}
    BY <1>2, <1>3 DEF ListsOK
  <2> QED
    BY <2>1, <2>2 DEF ListsOK, Res!Listed, Res!Contexts
<1>6. AllFreed'
  <2>1. \A j : j \in alive' <=> \/ \E d \in Res!Contexts : j \in Res!Listed(d)'
                                \/ j \in unmanaged' \cup failed' \cup lost'
    BY <1>1, <1>2, <1>3 DEF AllFreed
  <2> QED
    BY <1>1, <1>2, <2>1 DEF AllFreed, Res!Listed, Res!Contexts
<1>7. SweepOK'
  BY <1>1, <1>2 DEF SweepOK, Res!Listed
<1> QED
  BY <1>4, <1>5, <1>6, <1>7 DEF ResInv

(* A sweep begins: the types it has to do are those of the context.         *)
LEMMA StartsKeeps ==
  ASSUME Res!NamesOK, ResInv, NEW c \in Res!Contexts, NEW types, Res!Starts(c, types),
         \/ c # "device" /\ types = Res!Order
         \/ c = "device" /\ types = <<"memory">> /\ contexts = {"device"}
  PROVE  ResInv'
<1>1. /\ ~sweep.on /\ c \in contexts
      /\ sweep' = [of |-> c, todo |-> types, swept |-> {}, on |-> TRUE]
      /\ UNCHANGED <<contexts, psResItemList, kind, alive, unmanaged, failed, lost>>
  BY DEF Res!Starts
<1>2. ResTypes /\ ListsOK /\ AllFreed /\ SweepOK
  BY DEF ResInv
<1>3. /\ sweep'.of = c /\ sweep'.todo = types /\ sweep'.swept = {} /\ sweep'.on
      /\ \A d \in Res!Contexts : Res!Listed(d)' = Res!Listed(d)
  BY <1>1 DEF Res!Listed
<1>4. types \in Todos /\ types # Todo2
  BY TodosDiffer DEF Todos
<1>5. \A q \in Processes : Sorted(psResItemList[q], FALSE)
  BY <1>1, <1>2, NoSweepOK DEF ResTypes
<1>6. ResTypes'
  BY <1>1, <1>2, <1>4 DEF ResTypes, Res!Contexts, Res!NoSweep
<1>7. ListsOK' /\ AllFreed'
  BY <1>1, <1>2 DEF ListsOK, AllFreed, Res!Listed, Res!Contexts
<1>8. \A i \in Res!Listed(c) : kind[i] \in Res!ToSet(types)
  <2>1. \A i \in Res!Listed(c) : kind[i] \in All
    BY <1>2, KindMeans
  <2> QED
    BY <1>2, <2>1, TodoSets DEF AllFreed
<1>9. SweepOK'
  <2>1. \A i \in Res!Listed(c)' : kind'[i] \in Res!ToSet(types)
    BY <1>1, <1>3, <1>8
  <2>2. \A q \in Processes : Sorted(psResItemList'[q], FALSE)
    BY <1>1, <1>5
  <2> QED
    BY <1>3, <1>4, <2>1, <2>2 DEF SweepOK
<1> QED
  BY <1>6, <1>7, <1>9 DEF ResInv

(* The next type of a sweep, and what that leaves.                          *)
LEMMA TodoGoes ==
  ASSUME NEW todo \in Todos, todo # <<>>
  PROVE  /\ Tail(todo) \in Todos
         /\ Res!ToSet(todo) = Res!ToSet(Tail(todo)) \cup {Head(todo)}
         /\ Head(todo) = "reverse" => (todo = Todo1 /\ Tail(todo) = Todo2)
                                      \/ (todo = Todo3 /\ Tail(todo) = Todo4)
         /\ Tail(todo) \in {Res!Order, Todo1} => todo = Res!Order
         /\ Tail(todo) = Todo2 => todo = Todo1
         /\ Head(todo) = "modsync" => todo = Todo2
         /\ todo = <<"memory">> => Tail(todo) = <<>>
<1>1. Tail(todo) \in Todos
  BY TodoSteps DEF Todos
<1>2. Res!ToSet(todo) = Res!ToSet(Tail(todo)) \cup {Head(todo)}
  <2>1. CASE todo = Res!Order
    <3>1. Head(Res!Order) = "mapping" /\ Tail(Res!Order) = Todo1
      BY TodoSteps
    <3>2. /\ Res!ToSet(Res!Order) = {"reverse", "mapping", "modsync", "memory", "shared"}
          /\ Res!ToSet(Todo1) = {"reverse", "modsync", "memory", "shared"}
      BY TodoSets DEF All
    <3> QED
      BY <2>1, <3>1, <3>2
  <2>2. CASE todo = Todo1
    <3>1. Head(Todo1) = "reverse" /\ Tail(Todo1) = Todo2
      BY TodoSteps
    <3>2. /\ Res!ToSet(Todo1) = {"reverse", "modsync", "memory", "shared"}
          /\ Res!ToSet(Todo2) = {"reverse", "modsync", "memory", "shared"}
      BY TodoSets
    <3> QED
      BY <2>2, <3>1, <3>2
  <2>3. CASE todo = Todo2
    <3>1. Head(Todo2) = "modsync" /\ Tail(Todo2) = Todo3
      BY TodoSteps
    <3>2. /\ Res!ToSet(Todo2) = {"reverse", "modsync", "memory", "shared"}
          /\ Res!ToSet(Todo3) = {"reverse", "memory", "shared"}
      BY TodoSets
    <3> QED
      BY <2>3, <3>1, <3>2
  <2>4. CASE todo = Todo3
    <3>1. Head(Todo3) = "reverse" /\ Tail(Todo3) = Todo4
      BY TodoSteps
    <3>2. /\ Res!ToSet(Todo3) = {"reverse", "memory", "shared"}
          /\ Res!ToSet(Todo4) = {"memory", "shared"}
      BY TodoSets
    <3> QED
      BY <2>4, <3>1, <3>2
  <2>5. CASE todo = Todo4
    <3>1. Head(Todo4) = "memory" /\ Tail(Todo4) = <<"shared">>
      BY TodoSteps
    <3>2. Res!ToSet(Todo4) = {"memory", "shared"} /\ Res!ToSet(<<"shared">>) = {"shared"}
      BY TodoSets
    <3> QED
      BY <2>5, <3>1, <3>2
  <2>6. CASE todo = <<"shared">>
    BY <2>6, TodoSteps, TodoSets
  <2>7. CASE todo = <<"memory">>
    BY <2>7, TodoSteps, TodoSets
  <2> QED
    BY <2>1, <2>2, <2>3, <2>4, <2>5, <2>6, <2>7 DEF Todos
<1>3. /\ Res!Order # Todo1 /\ Res!Order # Todo2 /\ Res!Order # Todo3 /\ Res!Order # Todo4
      /\ Res!Order # <<"shared">> /\ Res!Order # <<>>
      /\ Todo1 # Todo2 /\ Todo1 # Todo3 /\ Todo1 # Todo4
      /\ Todo1 # <<"shared">> /\ Todo1 # <<>> /\ Todo2 # Todo3 /\ Todo2 # Todo4
      /\ Todo2 # <<"shared">> /\ Todo2 # <<>>
  BY TodosDiffer
<1>4. /\ Head(todo) = "reverse" => (todo = Todo1 /\ Tail(todo) = Todo2)
                                      \/ (todo = Todo3 /\ Tail(todo) = Todo4)
      /\ Tail(todo) \in {Res!Order, Todo1} => todo = Res!Order
      /\ Tail(todo) = Todo2 => todo = Todo1
      /\ Head(todo) = "modsync" => todo = Todo2
      /\ todo = <<"memory">> => Tail(todo) = <<>>
  <2>1. CASE todo = Res!Order
    BY <1>3, <2>1, TodoSteps, TodosDiffer
  <2>2. CASE todo = Todo1
    <3>1. Head(Todo1) = "reverse" /\ Tail(Todo1) = Todo2 /\ Todo1 # <<"memory">>
      BY TodoSteps, TodosDiffer
    <3>2. Res!Order # Todo2 /\ Todo1 # Todo2 /\ "reverse" # "modsync"
      BY <1>3
    <3> QED
      BY <2>2, <3>1, <3>2, Zenon
  <2>3. CASE todo = Todo2
    BY <1>3, <2>3, TodoSteps, TodosDiffer
  <2>4. CASE todo = Todo3
    BY <1>3, <2>4, TodoSteps, TodosDiffer
  <2>5. CASE todo = Todo4
    BY <1>3, <2>5, TodoSteps, TodosDiffer
  <2>6. CASE todo = <<"shared">>
    BY <1>3, <2>6, TodoSteps
  <2>7. CASE todo = <<"memory">>
    BY <1>3, <2>7, TodoSteps
  <2> QED
    BY <2>1, <2>2, <2>3, <2>4, <2>5, <2>6, <2>7 DEF Todos
<1> QED
  BY <1>1, <1>2, <1>4

(* A reversal changes the order of a list only.                             *)
LEMMA ReverseKeeps ==
  ASSUME Res!NamesOK, ResInv, Res!List_RESMAN_ITEM_Reverse
  PROVE  ResInv'
<1>0. PICK of \in Res!Contexts : of = sweep.of
  <2>1. ResTypes
    BY DEF ResInv
  <2>2. sweep.of \in Res!Contexts
    BY <2>1, KindMeans, Zenon
  <2> QED
    BY <2>2
<1> DEFINE old == psResItemList[of]
<1>1. /\ sweep.on /\ sweep.todo # <<>> /\ Head(sweep.todo) = "reverse"
      /\ psResItemList' = [psResItemList EXCEPT ![of] = Res!Reverse(old)]
      /\ sweep' = [sweep EXCEPT !.todo = Tail(@)]
      /\ UNCHANGED <<contexts, kind, alive, unmanaged, failed, lost>>
  BY <1>0 DEF Res!List_RESMAN_ITEM_Reverse
<1>2. ResTypes /\ ListsOK /\ AllFreed /\ SweepOK
  BY DEF ResInv
<1>3. /\ sweep \in [of : Res!Contexts, todo : Todos, swept : SUBSET DOMAIN kind, on : BOOLEAN]
      /\ of \in Res!Contexts /\ sweep.todo \in Todos
  BY <1>0, <1>2 DEF ResTypes
<1>4. /\ sweep'.of = of /\ sweep'.todo = Tail(sweep.todo) /\ sweep'.swept = sweep.swept
      /\ sweep'.on
  BY <1>0, <1>1, <1>3
<1>5. /\ Tail(sweep.todo) \in Todos
      /\ Res!ToSet(sweep.todo) = Res!ToSet(Tail(sweep.todo)) \cup {"reverse"}
      /\ \/ sweep.todo = Todo1 /\ Tail(sweep.todo) = Todo2
         \/ sweep.todo = Todo3 /\ Tail(sweep.todo) = Todo4
  BY <1>1, <1>3, TodoGoes
<1>6. of \in Processes
  <2>1. of # "device"
    <3>1. of = "device" => sweep.todo \in {<<"memory">>, <<>>}
      BY <1>0, <1>2 DEF ResTypes
    <3>2. Todo1 \notin {<<"memory">>, <<>>} /\ Todo3 \notin {<<"memory">>, <<>>}
      BY TodosDiffer
    <3> QED
      BY <1>5, <3>1, <3>2
  <2> QED
    BY <2>1 DEF Res!Contexts
<1>7. old \in Seq(DOMAIN kind) /\ Res!IsInjective(old)
  BY <1>2, <1>3 DEF ResTypes, ListsOK
<1>8. /\ Res!Reverse(old) \in Seq(DOMAIN kind) /\ Res!ToSet(Res!Reverse(old)) = Res!ToSet(old)
      /\ Res!IsInjective(Res!Reverse(old))
      /\ Sorted(old, FALSE) => Sorted(Res!Reverse(old), TRUE)
  BY <1>7, ReverseMeans
<1>9. /\ psResItemList'[of] = Res!Reverse(old)
      /\ \A c \in Res!Contexts : c # of => psResItemList'[c] = psResItemList[c]
  BY <1>1, <1>2, <1>3 DEF ResTypes
<1>10. \A c \in Res!Contexts : Res!Listed(c)' = Res!Listed(c)
  BY <1>8, <1>9 DEF Res!Listed
<1>11. of \in contexts
  BY <1>0, <1>1, <1>2 DEF ResTypes
<1>12. ResTypes'
  <2>1. psResItemList' \in [Res!Contexts -> Seq(DOMAIN kind)]
    BY <1>1, <1>2, <1>3, <1>8 DEF ResTypes
  <2>2. sweep' \in [of : Res!Contexts, todo : Todos, swept : SUBSET DOMAIN kind, on : BOOLEAN]
    BY <1>1, <1>3, <1>5
  <2>3. of # "device"
    BY <1>6 DEF Res!NamesOK
  <2> QED
    BY <1>1, <1>2, <1>4, <1>11, <2>1, <2>2, <2>3 DEF ResTypes, Res!Contexts
<1>13. ListsOK'
  <2>1. ASSUME NEW c \in Res!Contexts
        PROVE  /\ Res!IsInjective(psResItemList'[c])
               /\ c \notin contexts' => psResItemList'[c] = <<>>
               /\ Res!Listed(c)' \cap (unmanaged' \cup failed' \cup lost') = {}
    <3>1. /\ Res!IsInjective(psResItemList[c])
          /\ c \notin contexts => psResItemList[c] = <<>>
          /\ Res!Listed(c) \cap (unmanaged \cup failed \cup lost) = {}
      BY <1>2 DEF ListsOK
    <3> QED
      BY <1>1, <1>8, <1>9, <1>10, <1>11, <3>1
  <2>2. \A c, d \in Res!Contexts : c # d => Res!Listed(c)' \cap Res!Listed(d)' = {}
    BY <1>2, <1>10 DEF ListsOK
  <2> QED
    BY <2>1, <2>2 DEF ListsOK, Res!Listed, Res!Contexts
<1>14. AllFreed'
  <2>1. "device" \in Res!Contexts
    BY DEF Res!Contexts
  <2>2. \A j : j \in alive' <=> \/ \E d \in Res!Contexts : j \in Res!Listed(d)'
                                \/ j \in unmanaged' \cup failed' \cup lost'
    BY <1>1, <1>2, <1>10 DEF AllFreed
  <2> QED
    BY <1>1, <1>2, <1>10, <2>1, <2>2 DEF AllFreed, Res!Listed, Res!Contexts
<1>15. SweepOK'
  <2>1. ASSUME NEW i \in Res!Listed(of)'
        PROVE  kind'[i] \in Res!ToSet(sweep'.todo) \/ \E j \in failed' : kind'[j] = kind'[i]
    <3>1. i \in Res!Listed(of)
      BY <1>3, <1>10
    <3>2. kind[i] \in Res!ToSet(sweep.todo) \/ \E j \in failed : kind[j] = kind[i]
      BY <1>0, <1>1, <1>2, <3>1 DEF SweepOK
    <3>3. kind[i] \in All
      BY <1>2, <1>3, <3>1, KindMeans
    <3>4. kind[i] # "reverse"
      BY <3>3 DEF All
    <3> QED
      BY <1>1, <1>4, <1>5, <3>2, <3>4
  <2>2. sweep'.todo \notin {Res!Order, Todo1}
    BY <1>4, <1>5, TodosDiffer, TodoSteps
  <2>3. \A q \in Processes : sweep'.of # q => Sorted(psResItemList'[q], FALSE)
    BY <1>0, <1>2, <1>4, <1>9 DEF SweepOK, Res!Contexts
  <2>4. sweep'.todo = Todo2 => Sorted(psResItemList'[of], TRUE)
    <3>1. Todo4 # Todo2
      BY TodosDiffer
    <3>2. sweep'.todo = Todo2 => sweep.todo = Todo1
      BY <1>4, <1>5, <3>1
    <3>3. sweep.todo \in {Res!Order, Todo1} => Sorted(psResItemList[of], FALSE)
      BY <1>2, <1>6, Zenon DEF SweepOK
    <3>4. sweep.todo = Todo1 => Sorted(old, FALSE)
      BY <3>3
    <3> QED
      BY <1>8, <1>9, <3>2, <3>4
  <2>5. \A i \in sweep'.swept, j \in Res!Listed(of)' :
           kind'[i] = "modsync" /\ kind'[j] = "modsync" => i < j
    BY <1>0, <1>1, <1>2, <1>3, <1>4, <1>10 DEF SweepOK
  <2> QED
    BY <1>4, <2>1, <2>2, <2>3, <2>4, <2>5 DEF SweepOK, Res!Listed
<1> QED
  BY <1>12, <1>13, <1>14, <1>15 DEF ResInv

(* The first item of the type the sweep is at is freed, or there is none.   *)
LEMMA CriteriaKeeps ==
  ASSUME Res!NamesOK, ResInv, NEW ok \in BOOLEAN, Res!FreeResourceByCriteria(ok)
  PROVE  ResInv'
<1>0. PICK of \in Res!Contexts : of = sweep.of
  <2>1. ResTypes
    BY DEF ResInv
  <2>2. sweep.of \in Res!Contexts
    BY <2>1, KindMeans, Zenon
  <2> QED
    BY <2>2
<1> DEFINE list == psResItemList[of]
           todo == sweep.todo
<1>1. /\ sweep.on /\ todo # <<>> /\ Head(todo) # "reverse"
      /\ UNCHANGED <<contexts, kind, unmanaged, lost>>
  BY DEF Res!FreeResourceByCriteria
<1>2. ResTypes /\ ListsOK /\ AllFreed /\ SweepOK
  BY DEF ResInv
<1>3. /\ sweep \in [of : Res!Contexts, todo : Todos, swept : SUBSET DOMAIN kind, on : BOOLEAN]
      /\ todo \in Todos /\ of \in contexts
      /\ contexts # {} => "device" \in contexts
      /\ of = "device" => contexts = {"device"} /\ todo \in {<<"memory">>, <<>>}
  BY <1>0, <1>1, <1>2 DEF ResTypes
<1>4. /\ Tail(todo) \in Todos
      /\ Res!ToSet(todo) = Res!ToSet(Tail(todo)) \cup {Head(todo)}
      /\ Tail(todo) \in {Res!Order, Todo1} => todo = Res!Order
      /\ Tail(todo) = Todo2 => todo = Todo1
      /\ Head(todo) = "modsync" => todo = Todo2
      /\ todo = <<"memory">> => Tail(todo) = <<>>
  BY <1>1, <1>3, TodoGoes
<1>5. todo # Todo1 /\ (todo = Res!Order => Head(todo) = "mapping")
  BY <1>1, TodoSteps
<1>6. /\ \A i \in Res!Listed(of) :
            kind[i] \in Res!ToSet(todo) \/ \E j \in failed : kind[j] = kind[i]
      /\ \A p \in Processes : of # p \/ todo = Res!Order => Sorted(psResItemList[p], FALSE)
      /\ todo = Todo2 => Sorted(list, TRUE)
      /\ todo = Res!Order => \A i \in sweep.swept : kind[i] # "modsync"
      /\ \A i \in sweep.swept, j \in Res!Listed(of) :
            kind[i] = "modsync" /\ kind[j] = "modsync" => i < j
  BY <1>0, <1>1, <1>2, <1>5 DEF SweepOK
<1> HIDE DEF todo
<1>7. CASE /\ \A n \in DOMAIN list : kind[list[n]] # Head(todo)
           /\ sweep' = [sweep EXCEPT !.todo = Tail(@)]
           /\ UNCHANGED <<psResItemList, alive, failed>>
  <2>1. /\ sweep'.of = of /\ sweep'.todo = Tail(todo) /\ sweep'.swept = sweep.swept
        /\ sweep'.on /\ \A c \in Res!Contexts : Res!Listed(c)' = Res!Listed(c)
    BY <1>0, <1>1, <1>3, <1>7 DEF todo, Res!Listed
  <2>2. ResTypes'
    <3>1. sweep' \in [of : Res!Contexts, todo : Todos, swept : SUBSET DOMAIN kind, on : BOOLEAN]
      BY <1>3, <1>4, <1>7 DEF todo
    <3>2. sweep'.of = "device" => sweep'.todo \in {<<"memory">>, <<>>}
      BY <1>1, <1>3, <1>4, <2>1
    <3> QED
      BY <1>1, <1>2, <1>3, <1>7, <2>1, <3>1, <3>2 DEF ResTypes, Res!Contexts
  <2>3. ListsOK' /\ AllFreed'
    BY <1>1, <1>2, <1>7 DEF ListsOK, AllFreed, Res!Listed, Res!Contexts
  <2>4. ASSUME NEW i \in Res!Listed(of)
        PROVE  kind[i] \in Res!ToSet(Tail(todo)) \/ \E j \in failed : kind[j] = kind[i]
    <3>1. kind[i] # Head(todo)
      BY <1>7 DEF Res!Listed, Res!ToSet
    <3> QED
      BY <1>4, <1>6, <3>1
  <2>5. Tail(todo) # Todo2
    BY <1>4, <1>5
  <2>6. SweepOK'
    <3>1. \A i \in Res!Listed(of)' :
             kind'[i] \in Res!ToSet(sweep'.todo) \/ \E j \in failed' : kind'[j] = kind'[i]
      BY <1>0, <1>1, <1>7, <2>1, <2>4
    <3>2. \A p \in Processes : sweep'.of # p \/ sweep'.todo \in {Res!Order, Todo1}
             => Sorted(psResItemList'[p], FALSE)
      BY <1>4, <1>6, <1>7, <2>1
    <3>3. sweep'.todo \in {Res!Order, Todo1} => \A i \in sweep'.swept : kind'[i] # "modsync"
      BY <1>1, <1>4, <1>6, <2>1
    <3>4. \A i \in sweep'.swept, j \in Res!Listed(of)' :
             kind'[i] = "modsync" /\ kind'[j] = "modsync" => i < j
      BY <1>1, <1>6, <2>1
    <3> QED
      BY <2>1, <2>5, <3>1, <3>2, <3>3, <3>4 DEF SweepOK, Res!Listed
  <2> QED
    BY <2>2, <2>3, <2>6 DEF ResInv
<1>8. ASSUME NEW n \in DOMAIN list, kind[list[n]] = Head(todo),
             \A m \in 1 .. n - 1 : kind[list[m]] # Head(todo),
             Res!FreeResourceByPtr(list[n], ok),
             sweep' = [sweep EXCEPT !.swept = @ \cup {list[n]},
                                    !.todo = IF ok THEN @ ELSE Tail(@)]
      PROVE  ResInv'
  <2> DEFINE i == list[n]
  <2>1. i \in Res!Listed(of) /\ i \in DOMAIN kind
    <3>1. i \in Res!Listed(of)
      BY DEF Res!Listed, Res!ToSet
    <3> QED
      BY <1>2, <3>1, KindMeans
  <2>2. /\ psResItemList' \in [Res!Contexts -> Seq(DOMAIN kind)]
        /\ alive' \in SUBSET DOMAIN kind /\ failed' \in SUBSET DOMAIN kind
        /\ ListsOK' /\ AllFreed'
        /\ failed \subseteq failed' /\ (~ok => i \in failed')
        /\ \A d \in Res!Contexts : Res!Listed(d)' = Res!Listed(d) \ {i}
        /\ \A d \in Res!Contexts : d # of => psResItemList'[d] = psResItemList[d]
        /\ \A up \in BOOLEAN : Sorted(list, up) => Sorted(psResItemList'[of], up)
    BY <1>1, <1>2, <1>8, <2>1, FreeMeans
  <2>3. /\ sweep'.of = of /\ sweep'.swept = sweep.swept \cup {i} /\ sweep'.on
        /\ sweep'.todo = IF ok THEN todo ELSE Tail(todo)
    BY <1>0, <1>1, <1>3, <1>8 DEF todo
  <2>4. ResTypes'
    <3>1. sweep' \in [of : Res!Contexts, todo : Todos, swept : SUBSET DOMAIN kind, on : BOOLEAN]
      BY <1>3, <1>4, <1>8, <2>1 DEF todo
    <3>2. sweep'.of = "device" => sweep'.todo \in {<<"memory">>, <<>>}
      BY <1>1, <1>3, <1>4, <2>3
    <3> QED
      BY <1>1, <1>2, <1>3, <2>2, <2>3, <3>1, <3>2 DEF ResTypes, Res!Contexts
  <2>5. ASSUME NEW j \in Res!Listed(of)'
        PROVE  kind[j] \in Res!ToSet(sweep'.todo) \/ \E k \in failed' : kind[k] = kind[j]
    <3>1. j \in Res!Listed(of)
      BY <2>2
    <3>2. CASE ok
      BY <1>6, <2>2, <2>3, <3>1, <3>2
    <3>3. CASE ~ok
      <4>1. CASE kind[j] = Head(todo)
        BY <1>8, <2>2, <3>3, <4>1
      <4>2. CASE kind[j] # Head(todo)
        BY <1>4, <1>6, <2>2, <2>3, <3>1, <3>3, <4>2
      <4> QED
        BY <4>1, <4>2
    <3> QED
      BY <3>2, <3>3
  <2>6. sweep'.todo \in {Res!Order, Todo1} => todo = Res!Order
    BY <1>4, <1>5, <2>3
  <2>7. sweep'.todo = Todo2 => todo = Todo2
    BY <1>4, <1>5, <2>3
  <2>8. ASSUME NEW p \in Processes, sweep'.of # p \/ sweep'.todo \in {Res!Order, Todo1}
        PROVE  Sorted(psResItemList'[p], FALSE)
    <3>1. Sorted(psResItemList[p], FALSE)
      BY <1>6, <2>3, <2>6, <2>8
    <3>2. p \in Res!Contexts
      BY DEF Res!Contexts
    <3> QED
      BY <2>2, <3>1, <3>2
  <2>9. sweep'.todo \in {Res!Order, Todo1} => \A j \in sweep'.swept : kind[j] # "modsync"
    <3>1. todo = Res!Order => kind[i] = "mapping"
      BY <1>5, <1>8
    <3> QED
      BY <1>6, <2>3, <2>6, <3>1
  <2>10. ASSUME NEW j \in sweep'.swept, NEW k \in Res!Listed(of)',
                kind[j] = "modsync", kind[k] = "modsync"
         PROVE  j < k
    <3>1. k \in Res!Listed(of) /\ k # i
      BY <2>2
    <3>2. CASE j \in sweep.swept
      BY <1>6, <2>10, <3>1, <3>2
    <3>3. CASE j = i
      <4>1. todo = Todo2 /\ Head(todo) = "modsync"
        BY <1>4, <1>8, <2>10, <3>3
      <4>2. Sorted(list, TRUE)
        BY <1>6, <4>1
      <4>3. PICK m \in DOMAIN list : list[m] = k
        BY <3>1 DEF Res!Listed, Res!ToSet
      <4>4. DOMAIN list = 1..Len(list) /\ Len(list) \in Nat
        <5>1. list \in Seq(DOMAIN kind)
          BY <1>2 DEF ResTypes
        <5> QED
          BY <5>1
      <4>5. m # n /\ ~(m \in 1 .. n - 1)
        BY <1>8, <2>10, <3>1, <4>1, <4>3
      <4>6. n < m
        BY <4>4, <4>5
      <4> QED
        BY <3>3, <4>2, <4>3, <4>6 DEF Sorted
    <3> QED
      BY <2>3, <3>2, <3>3
  <2>11. SweepOK'
    <3>1. \A j \in Res!Listed(of)' :
             kind'[j] \in Res!ToSet(sweep'.todo) \/ \E k \in failed' : kind'[k] = kind'[j]
      BY <1>1, <2>5
    <3>2. sweep'.todo = Todo2 => Sorted(psResItemList'[of], TRUE)
      BY <1>6, <2>2, <2>7
    <3>3. \A j \in sweep'.swept, k \in Res!Listed(of)' :
             kind'[j] = "modsync" /\ kind'[k] = "modsync" => j < k
      BY <1>1, <2>10
    <3>4. sweep'.todo \in {Res!Order, Todo1} => \A j \in sweep'.swept : kind'[j] # "modsync"
      BY <1>1, <2>9
    <3> HIDE DEF i
    <3> QED
      BY <2>3, <2>8, <3>1, <3>2, <3>3, <3>4 DEF SweepOK, Res!Listed
  <2> QED
    BY <2>2, <2>4, <2>11 DEF ResInv
<1>9. \/ /\ \A n \in DOMAIN list : kind[list[n]] # Head(todo)
         /\ sweep' = [sweep EXCEPT !.todo = Tail(@)]
         /\ UNCHANGED <<psResItemList, alive, failed>>
      \/ \E n \in DOMAIN list :
            /\ kind[list[n]] = Head(todo)
            /\ \A m \in 1 .. n - 1 : kind[list[m]] # Head(todo)
            /\ Res!FreeResourceByPtr(list[n], ok)
            /\ sweep' = [sweep EXCEPT !.swept = @ \cup {list[n]},
                                      !.todo = IF ok THEN @ ELSE Tail(@)]
  BY <1>0, Zenon DEF Res!FreeResourceByCriteria, todo
<1> HIDE DEF list
<1> QED
  BY <1>7, <1>8, <1>9, Zenon

(* A sweep is over: what the context still lists is lost with it.           *)
LEMMA ContextFreedKeeps ==
  ASSUME Res!NamesOK, ResInv, Res!ContextFreed
  PROVE  ResInv'
<1>0. PICK of \in Res!Contexts : of = sweep.of
  BY KindMeans DEF ResInv
<1>1. /\ sweep.on /\ sweep.todo = <<>> /\ sweep' = Res!NoSweep
      /\ UNCHANGED <<kind, alive, unmanaged, failed>>
  BY DEF Res!ContextFreed
<1>2. ResTypes /\ ListsOK /\ AllFreed /\ SweepOK
  BY DEF ResInv
<1>3. /\ of \in contexts /\ contexts \subseteq Res!Contexts
      /\ contexts # {} => "device" \in contexts
      /\ of = "device" => contexts = {"device"}
  BY <1>0, <1>1, <1>2 DEF ResTypes
<1>4. /\ Res!NoSweep \in [of : Res!Contexts, todo : Todos, swept : SUBSET DOMAIN kind, on : BOOLEAN]
      /\ ~Res!NoSweep.on /\ Res!NoSweep.todo = <<>> /\ Res!NoSweep.swept = {}
  BY DEF Res!NoSweep, Res!Contexts, Todos
<1>5. Sorted(<<>>, FALSE)
  BY DEF Sorted
<1>6. \A p \in Processes : p # of => Sorted(psResItemList[p], FALSE)
  BY <1>0, <1>2 DEF SweepOK
<1>7. <<>> \notin {Res!Order, Todo1, Todo2}
  BY TodosDiffer
<1>8. CASE of = "device" /\ UNCHANGED <<contexts, lost, psResItemList>>
  <2>1. ResTypes'
    BY <1>1, <1>2, <1>3, <1>4, <1>8 DEF ResTypes, Res!Contexts
  <2>2. ListsOK' /\ AllFreed'
    BY <1>1, <1>2, <1>8 DEF ListsOK, AllFreed, Res!Listed, Res!Contexts
  <2>3. \A p \in Processes : Sorted(psResItemList'[p], FALSE)
    BY <1>6, <1>8 DEF Res!NamesOK
  <2>4. SweepOK'
    BY <1>1, <1>4, <1>7, <2>3 DEF SweepOK
  <2> QED
    BY <2>1, <2>2, <2>4 DEF ResInv
<1>9. CASE /\ contexts' = contexts \ {of} /\ lost' = lost \cup Res!Listed(of)
           /\ psResItemList' = [psResItemList EXCEPT ![of] = <<>>]
  <2>1. /\ psResItemList'[of] = <<>>
        /\ \A c \in Res!Contexts : c # of => psResItemList'[c] = psResItemList[c]
    BY <1>2, <1>9 DEF ResTypes
  <2>2. Res!ToSet(<<>>) = {} /\ Res!IsInjective(<<>>)
    BY DEF Res!ToSet, Res!IsInjective
  <2>3. /\ Res!Listed(of)' = {}
        /\ \A c \in Res!Contexts : c # of => Res!Listed(c)' = Res!Listed(c)
    BY <2>1, <2>2 DEF Res!Listed
  <2>4. Res!Listed(of) \subseteq DOMAIN kind
    BY <1>2, KindMeans
  <2>5. ResTypes'
    <3>1. psResItemList' \in [Res!Contexts -> Seq(DOMAIN kind)]
      BY <1>2, <1>9 DEF ResTypes
    <3>2. lost' \in SUBSET DOMAIN kind
      BY <1>2, <1>9, <2>4 DEF ResTypes
    <3>3. contexts' \in SUBSET Res!Contexts /\ (contexts' # {} => "device" \in contexts')
      BY <1>3, <1>9
    <3> QED
      BY <1>1, <1>2, <1>4, <3>1, <3>2, <3>3 DEF ResTypes, Res!Contexts
  <2>6. ListsOK'
    <3>1. ASSUME NEW c \in Res!Contexts
          PROVE  /\ Res!IsInjective(psResItemList'[c])
                 /\ c \notin contexts' => psResItemList'[c] = <<>>
                 /\ Res!Listed(c)' \cap (unmanaged' \cup failed' \cup lost') = {}
      <4>1. /\ Res!IsInjective(psResItemList[c])
            /\ c \notin contexts => psResItemList[c] = <<>>
            /\ Res!Listed(c) \cap (unmanaged \cup failed \cup lost) = {}
            /\ c # of => Res!Listed(c) \cap Res!Listed(of) = {}
        BY <1>2 DEF ListsOK
      <4>2. CASE c = of
        BY <2>1, <2>2, <2>3, <4>2
      <4>3. CASE c # of
        BY <1>1, <1>9, <2>1, <2>3, <4>1, <4>3
      <4> QED
        BY <4>2, <4>3
    <3>2. \A c, d \in Res!Contexts : c # d => Res!Listed(c)' \cap Res!Listed(d)' = {}
      BY <1>2, <2>3 DEF ListsOK
    <3> QED
      BY <3>1, <3>2 DEF ListsOK, Res!Listed, Res!Contexts
  <2>7. AllFreed'
    <3>1. ASSUME NEW j
          PROVE  j \in alive' <=> (\E d \in Res!Contexts : j \in Res!Listed(d)')
                                  \/ j \in unmanaged' \cup failed' \cup lost'
      <4>1. j \in alive <=> (\E d \in Res!Contexts : j \in Res!Listed(d))
                             \/ j \in unmanaged \cup failed \cup lost
        BY <1>2 DEF AllFreed
      <4>2. (\E d \in Res!Contexts : j \in Res!Listed(d))
              <=> (\E d \in Res!Contexts : j \in Res!Listed(d)') \/ j \in Res!Listed(of)
        BY <2>3
      <4> QED
        BY <1>1, <1>9, <4>1, <4>2
    <3>2. unmanaged' \cap (failed' \cup lost') = {}
      <4>1. Res!Listed(of) \cap unmanaged = {}
        BY <1>2 DEF ListsOK
      <4> QED
        BY <1>1, <1>2, <1>9, <4>1 DEF AllFreed
    <3>3. \A i \in lost' : \E j \in failed' : kind'[j] = kind'[i]
      <4>1. \A i \in Res!Listed(of) : \E j \in failed : kind[j] = kind[i]
        BY <1>0, <1>1, <1>2, <2>2 DEF SweepOK
      <4> QED
        BY <1>1, <1>2, <1>9, <4>1 DEF AllFreed
    <3>4. \A i \in Res!Listed("device")' : kind'[i] = "memory"
      <4>1. "device" \in Res!Contexts
        BY DEF Res!Contexts
      <4> QED
        BY <1>1, <1>2, <2>3, <4>1 DEF AllFreed
    <3> QED
      BY <3>1, <3>2, <3>3, <3>4 DEF AllFreed, Res!Listed, Res!Contexts
  <2>8. \A p \in Processes : Sorted(psResItemList'[p], FALSE)
    BY <1>5, <1>6, <2>1 DEF Res!Contexts
  <2>9. SweepOK'
    BY <1>1, <1>4, <1>7, <2>8 DEF SweepOK
  <2> QED
    BY <2>5, <2>6, <2>7, <2>9 DEF ResInv
<1> QED
  BY <1>0, <1>8, <1>9 DEF Res!ContextFreed

-----------------------------------------------------------------------------
(* No step of the manager loses a resource.                                 *)
LEMMA ResNext == ASSUME Res!NamesOK PROVE ResInv /\ [Res!Next]_(Res!resVars) => ResInv'
<1> SUFFICES ASSUME ResInv, [Res!Next]_(Res!resVars)  PROVE ResInv'
  OBVIOUS
<1>1. CASE UNCHANGED Res!resVars
  <2>1. UNCHANGED <<contexts, psResItemList, kind, alive, unmanaged, sweep, failed, lost>>
    BY <1>1 DEF Res!resVars
  <2> QED
    BY <2>1 DEF ResInv, ResTypes, ListsOK, AllFreed, SweepOK, Res!Listed, Res!Contexts, Res!NoSweep
<1>2. ASSUME NEW p \in Processes, Res!PVRSRVResManConnect(p) \/ Res!PVRSRVResManDisconnect(p)
      PROVE  ResInv'
  <2>1. p \in Res!Contexts /\ p # "device"
    BY DEF Res!Contexts, Res!NamesOK
  <2> QED
    BY <1>2, <2>1, ConnectKeeps, StartsKeeps DEF Res!PVRSRVResManDisconnect
<1>3. ASSUME NEW p \in Processes, NEW k \in Kinds, NEW ok \in BOOLEAN,
             Res!ResManRegisterRes(p, k, ok)
      PROVE  ResInv'
  BY <1>3, RegisterKeeps
<1>4. ASSUME NEW p \in Processes, NEW i, NEW ok \in BOOLEAN,
             \/ Res!ResManFreeResByPtr(p, i, ok) \/ Res!ResManDissociateRes(p, i)
      PROVE  ResInv'
  BY <1>4, FreeByPtrKeeps, MovesKeep
<1>5. CASE \E i \in unmanaged : Res!PVRSRVFreeSharedSysMemoryKM(i)
  BY <1>5, FreeSharedKeeps
<1>6. CASE Res!PVRSRVDeinitialiseDevice
  <2>1. "device" \in Res!Contexts
    BY DEF Res!Contexts
  <2> QED
    BY <1>6, <2>1, StartsKeeps DEF Res!PVRSRVDeinitialiseDevice
<1>7. CASE Res!List_RESMAN_ITEM_Reverse
  BY <1>7, ReverseKeeps
<1>8. CASE \E ok \in BOOLEAN : Res!FreeResourceByCriteria(ok)
  BY <1>8, CriteriaKeeps
<1>9. CASE Res!ContextFreed
  BY <1>9, ContextFreedKeeps
<1> QED
  BY <1>1, <1>2, <1>3, <1>4, <1>5, <1>6, <1>7, <1>8, <1>9 DEF Res!Next, Res!Over

(* Of every resource that is alive there is one who will free it: one list  *)
(* names it, or somebody uses it unmanaged; or a callback failed, its own   *)
(* or that of another of its type.  A resource that is freed is in no list, *)
(* and the operations on sync objects go the oldest first (resman.c).       *)
THEOREM ResourcesFreed == ASSUME Res!NamesOK PROVE Res!Spec => []Res!ResManSound
<1>1. ResInv => Res!ResManSound
  <2> SUFFICES ASSUME ResInv  PROVE Res!ResManSound
    OBVIOUS
  <2>1. /\ \A c \in Res!Contexts : Res!IsInjective(psResItemList[c])
                                /\ (c \notin contexts => psResItemList[c] = <<>>)
        /\ \A c, d \in Res!Contexts : c # d => Res!Listed(c) \cap Res!Listed(d) = {}
    BY DEF ResInv, ListsOK
  <2> DEFINE listed == UNION {Res!Listed(c) : c \in Res!Contexts}
  <2>2. listed \cup unmanaged \cup failed \cup lost = alive
    <3>1. \A j : j \in alive <=> (\E c \in Res!Contexts : j \in Res!Listed(c))
                              \/ j \in unmanaged \cup failed \cup lost
      BY DEF ResInv, AllFreed
    <3>2. \A j : j \in listed <=> \E c \in Res!Contexts : j \in Res!Listed(c)
      OBVIOUS
    <3> HIDE DEF listed
    <3>3. \A j : j \in alive <=> j \in listed \cup unmanaged \cup failed \cup lost
      BY <3>1, <3>2
    <3> QED
      BY <3>3
  <2>3. \A i \in lost : \E j \in failed : kind[j] = kind[i]
    BY DEF ResInv, AllFreed
  <2>4. \A i \in sweep.swept, j \in Res!Listed(sweep.of) :
           kind[i] = "modsync" /\ kind[j] = "modsync" => i < j
    BY DEF ResInv, SweepOK
  <2>5. (UNION {Res!Listed(c) : c \in Res!Contexts}) \cup unmanaged \cup failed \cup lost = alive
    BY <2>2, Zenon DEF listed
  <2> HIDE DEF listed
  <2> QED
    BY <2>1, <2>3, <2>4, <2>5, Zenon DEF Res!ResManSound
<1> QED
  BY <1>1, ResInit, ResNext, PTL DEF Res!Spec

-----------------------------------------------------------------------------
(* BufferClass: the counts, the memory and the fills of the example device. *)

CONSTANTS NumBuffers, MaxLoads, MaxOpens, MaxFirst, MaxConfigs, MaxFills
VARIABLES
    module, node, psBCInfo, open, maps, psSystemBuffer, ulNumBuffers,
    liveMemory, liveSyncs, fill, read, leaked, accidents, done

Example == INSTANCE BufferClass

(* What is open, as open counts it.                                         *)
Opened(f) == UNION {{p} \X (1..f[p]) : p \in Processes}

(* The contexts of one process more, and of all others the same: what is    *)
(* open grows by as many.                                                   *)
LEMMA OpenedGrows ==
  ASSUME NEW f \in [Processes -> Nat], NEW g \in [Processes -> Nat],
         NEW p \in Processes, NEW n \in Nat,
         g[p] = f[p] + n, \A q \in Processes \ {p} : g[q] = f[q],
         IsFiniteSet(Opened(f)) \/ IsFiniteSet(Opened(g))
  PROVE  /\ IsFiniteSet(Opened(f)) /\ IsFiniteSet(Opened(g))
         /\ Cardinality(Opened(g)) = Cardinality(Opened(f)) + n
<1> DEFINE More == {p} \X (f[p] + 1 .. f[p] + n)
<1>1. f[p] \in Nat
  OBVIOUS
<1>2. IsFiniteSet(More) /\ Cardinality(More) = n
  <2>1. IsFiniteSet({p}) /\ Cardinality({p}) = 1
    BY FS_Singleton
  <2>2. IsFiniteSet(f[p] + 1 .. f[p] + n) /\ Cardinality(f[p] + 1 .. f[p] + n) = n
    <3> DEFINE a == f[p] + 1
               b == f[p] + n
    <3>1. a \in Int /\ b \in Int
      BY <1>1
    <3>2. (IF a > b THEN 0 ELSE b - a + 1) = n
      BY <1>1
    <3> HIDE DEF a, b
    <3>3. IsFiniteSet(a..b) /\ Cardinality(a..b) = IF a > b THEN 0 ELSE b - a + 1
      BY <3>1, FS_Interval, Zenon
    <3>4. IsFiniteSet(a..b) /\ Cardinality(a..b) = n
      BY <3>2, <3>3
    <3> QED
      BY <3>4 DEF a, b
  <2>3. IsFiniteSet(More) /\ Cardinality(More) = Cardinality({p}) * Cardinality(f[p] + 1 .. f[p] + n)
    BY <2>1, <2>2, FS_Product, Zenon
  <2> QED
    BY <2>1, <2>2, <2>3
<1>3. Opened(f) \cup More = Opened(g)
  <2>1. ASSUME NEW x \in Opened(g)  PROVE x \in Opened(f) \cup More
    <3>0. PICK q \in Processes : \E k \in 1..g[q] : x = <<q, k>>
      BY DEF Opened
    <3>1. PICK k \in 1..g[q] : x = <<q, k>>
      BY <3>0
    <3>2. CASE q = p
      BY <1>1, <3>1, <3>2 DEF Opened
    <3>3. CASE q # p
      BY <3>1, <3>3 DEF Opened
    <3> QED
      BY <3>2, <3>3
  <2>2. ASSUME NEW x \in Opened(f)  PROVE x \in Opened(g)
    <3>0. PICK q \in Processes : \E k \in 1..f[q] : x = <<q, k>>
      BY DEF Opened
    <3>1. PICK k \in 1..f[q] : x = <<q, k>>
      BY <3>0
    <3>2. k \in 1..g[q]
      BY <1>1, <3>1
    <3> QED
      BY <3>1, <3>2 DEF Opened
  <2>3. ASSUME NEW x \in More  PROVE x \in Opened(g)
    <3>1. PICK k \in f[p] + 1 .. f[p] + n : x = <<p, k>>
      OBVIOUS
    <3>2. k \in 1..g[p]
      BY <1>1, <3>1
    <3> QED
      BY <3>1, <3>2 DEF Opened
  <2> QED
    BY <2>1, <2>2, <2>3
<1>4. Opened(f) \cap More = {}
  <2> SUFFICES ASSUME NEW q \in Processes, NEW k \in 1..f[q], <<q, k>> \in More  PROVE FALSE
    BY DEF Opened
  <2> QED
    BY <1>1
<1> HIDE DEF More
<1>5. IsFiniteSet(Opened(f))
  <2>1. CASE IsFiniteSet(Opened(g))
    BY <1>3, <2>1, FS_Subset, Zenon
  <2> QED
    BY <2>1
<1>6. /\ IsFiniteSet(Opened(f) \cup More)
      /\ Cardinality(Opened(f) \cup More)
             = Cardinality(Opened(f)) + Cardinality(More) - Cardinality(Opened(f) \cap More)
  BY <1>2, <1>5, FS_Union, Zenon
<1>7. Cardinality({}) = 0
  BY FS_EmptySet, Zenon
<1>8. Cardinality(Opened(f)) \in Nat
  BY <1>5, FS_CardinalityType
<1> QED
  BY <1>2, <1>3, <1>4, <1>5, <1>6, <1>7, <1>8

DeviceTypes ==
    /\ module \in {"absent", "loaded"} /\ node \in {"none", "registered", "orphan"}
    /\ psBCInfo \in [ui32RefCount : Nat, ui32BufferCount : 0..NumBuffers,
                     psBuffer : BOOLEAN, sync : Nat]
    /\ open \in [Processes -> Nat] /\ leaked \in Nat
    /\ maps \subseteq [of : Processes, buffer : Example!Indices, memory : Int]
    /\ psSystemBuffer \in [Example!Indices -> [addr : Int, psSyncData : Nat]]
    /\ ulNumBuffers \in 0..NumBuffers
    /\ fill \in [pc : {"idle", "checked", "fills"}, of : Nat, sync : Nat]
    /\ fill.pc # "idle" => fill.of \in Example!Indices
    /\ read \in [Example!Indices -> {"none", "waits", "runs"}]
    /\ done \in [loads : Nat, configs : Nat, fills : Nat, syncs : Nat]

(* The users of the device, and what it was opened with.                    *)
UsersSound ==
    /\ IsFiniteSet(Opened(open))
    /\ maps # {} => psBCInfo.psBuffer
    /\ psBCInfo.psBuffer => psBCInfo.ui32RefCount > 0 /\ psBCInfo.sync \in liveSyncs \ {0}
    /\ psBCInfo.ui32RefCount > 0 /\ ~psBCInfo.psBuffer => "openFailed" \in accidents

(* The driver and its buffers.                                              *)
DriverSound ==
    /\ node = "orphan" <=> "unloaded" \in accidents
    /\ node = "orphan" => module = "absent"
    /\ module = "absent" => ulNumBuffers = 0 /\ fill = Example!NoFill
    /\ liveMemory = {psSystemBuffer[i].addr : i \in 1..ulNumBuffers}

(* Sync data that is used is there, or was when it was taken.               *)
KnownSync(s) == s \in liveSyncs \cup {0} \/ accidents \cap {"closed", "openFailed"} # {}
Known ==
    /\ \A i \in Example!Indices : KnownSync(psSystemBuffer[i].psSyncData)
    /\ KnownSync(fill.sync)

(* The buffers that were opened are those of the driver.                    *)
Kept == accidents \cap {"reconfigured", "unloaded"} = {}
ArrayKept ==
    Kept => /\ psBCInfo.psBuffer => /\ psBCInfo.ui32BufferCount = ulNumBuffers
                                    /\ \A i \in 1..ulNumBuffers :
                                            psSystemBuffer[i].psSyncData = psBCInfo.sync
            /\ \A m \in maps : m.buffer \in 1..psBCInfo.ui32BufferCount

(* What is read is mapped, and a fill that looked still knows of the reads. *)
ReadsKnown ==
    /\ \A i \in Example!Indices : read[i] # "none" => \E m \in maps : m.buffer = i
    /\ fill.pc = "checked" /\ read[fill.of] = "runs" => accidents \cap {"raced", "reconfigured"} # {}

DeviceInv ==
    /\ DeviceTypes /\ UsersSound /\ DriverSound /\ Known /\ ArrayKept /\ ReadsKnown
    /\ Example!BuffersHonest

(* Addresses of buffers are numbers.                                        *)
LEMMA FreshIsInt ==
  ASSUME Example!NumBuffersOK, DeviceTypes
  PROVE  \A i \in Example!Indices : Example!Fresh(i) \in Int
<1>1. NumBuffers \in Nat /\ done.loads \in Nat /\ done.configs \in Nat
  BY DEF DeviceTypes, Example!NumBuffersOK
<1> DEFINE made == done.loads + done.configs
<1>2. made \in Nat
  BY <1>1
<1> HIDE DEF made
<1>3. made * NumBuffers \in Nat
  BY <1>1, <1>2
<1>4. \A i \in Example!Indices : made * NumBuffers + i \in Int
  BY <1>1, <1>3 DEF Example!Indices
<1> QED
  BY <1>4 DEF Example!Fresh, made

(* Nobody has the device open: no array, no mapping.                        *)
LEMMA NobodyUses ==
  ASSUME DeviceInv, psBCInfo.ui32RefCount = 0
  PROVE  psBCInfo.psBuffer = FALSE /\ maps = {}
BY DEF DeviceInv, UsersSound, DeviceTypes

(* The counts, as long as users, contexts and arrays are the same.          *)
LEMMA CountsStay ==
  ASSUME Example!CountsHonest, psBCInfo' = psBCInfo, open' = open, leaked' = leaked,
         node' = node, maps' \subseteq maps, liveSyncs' = liveSyncs,
         accidents \subseteq accidents'
  PROVE  Example!CountsHonest'
<1>1. Example!Opens' = Example!Opens
  BY DEF Example!Opens
<1> QED
  BY <1>1 DEF Example!CountsHonest, Example!Oops

(* The memory, as long as it is the same.                                   *)
LEMMA MemoryStays ==
  ASSUME Example!MemoryHonest, maps' \subseteq maps, liveMemory' = liveMemory,
         module' = module, node' = node, accidents \subseteq accidents',
         "oops" \in accidents' => "oops" \in accidents,
         "wild" \in accidents' => "wild" \in accidents
  PROVE  Example!MemoryHonest'
<1>1. ASSUME accidents' \cap {"reconfigured", "unloaded"} = {}
      PROVE  {m.memory : m \in maps'} \subseteq liveMemory'
  BY <1>1 DEF Example!MemoryHonest
<1>2. Example!Oops' => accidents' \cap {"unloaded", "openFailed"} # {}
  BY DEF Example!MemoryHonest, Example!Oops
<1>3. "wild" \in accidents' => accidents' \cap {"closed", "openFailed", "reconfigured"} # {}
  BY DEF Example!MemoryHonest
<1>4. module' = "absent" => liveMemory' = {} /\ (node' = "none" \/ "unloaded" \in accidents')
  BY DEF Example!MemoryHonest
<1> QED
  BY <1>1, <1>2, <1>3, <1>4 DEF Example!MemoryHonest

(* What is counted is what is open.                                         *)
LEMMA OpensAre ==
  /\ Example!Opens = Cardinality(Opened(open))
  /\ Example!Opens' = Cardinality(Opened(open'))
<1>1. \A S : Example!Cardinality(S) = Cardinality(S)
  BY Zenon DEF Example!Cardinality, Cardinality
<1>2. Example!Opens = Example!Cardinality(Opened(open))
  BY Zenon DEF Example!Opens, Opened
<1>3. Example!Opens' = Example!Cardinality(Opened(open'))
  BY Zenon DEF Example!Opens, Opened
<1> QED
  BY <1>1, <1>2, <1>3, Zenon

(* Somebody has the device open: it is there, and counted.                  *)
LEMMA SomebodyUses ==
  ASSUME DeviceInv, ~Example!Oops, NEW p \in Processes, open[p] > 0
  PROVE  /\ psBCInfo.ui32RefCount >= open[p] /\ psBCInfo.ui32RefCount > 0 /\ node # "none"
         /\ ~psBCInfo.psBuffer => "openFailed" \in accidents
<1> DEFINE none == [open EXCEPT ![p] = 0]
<1>1. open \in [Processes -> Nat] /\ none \in [Processes -> Nat] /\ open[p] \in Nat
  BY DEF DeviceInv, DeviceTypes
<1>2. open[p] = none[p] + open[p] /\ \A q \in Processes \ {p} : open[q] = none[q]
  BY <1>1
<1>3. IsFiniteSet(Opened(open))
  BY DEF DeviceInv, UsersSound
<1> HIDE DEF none
<1>4. /\ IsFiniteSet(Opened(none))
      /\ Cardinality(Opened(open)) = Cardinality(Opened(none)) + open[p]
  BY <1>1, <1>2, <1>3, OpenedGrows
<1>5. Cardinality(Opened(none)) \in Nat
  BY <1>4, FS_CardinalityType, Zenon
<1>6. psBCInfo.ui32RefCount = Cardinality(Opened(open)) + leaked /\ leaked \in Nat
  <2>1. leaked \in Nat
    BY DEF DeviceInv, DeviceTypes
  <2>2. psBCInfo.ui32RefCount = Example!Opens + leaked
    BY DEF DeviceInv, Example!BuffersHonest, Example!CountsHonest
  <2> QED
    BY <2>1, <2>2, OpensAre
<1>7. psBCInfo.ui32RefCount >= open[p] /\ psBCInfo.ui32RefCount > 0
  BY <1>1, <1>4, <1>5, <1>6
<1>8. node # "none"
  BY <1>7 DEF DeviceInv, Example!BuffersHonest, Example!CountsHonest
<1>9. ~psBCInfo.psBuffer => "openFailed" \in accidents
  BY <1>7 DEF DeviceInv, UsersSound
<1> QED
  BY <1>7, <1>8, <1>9

(* What is open, when it changes for one process, by n.                     *)
LEMMA OpensGrow ==
  ASSUME DeviceInv, NEW p \in Processes, NEW n \in Nat,
         open' = [open EXCEPT ![p] = open[p] + n]
  PROVE  /\ open' \in [Processes -> Nat] /\ IsFiniteSet(Opened(open'))
         /\ Example!Opens \in Nat /\ Example!Opens' = Example!Opens + n
<1>1. open \in [Processes -> Nat] /\ open' \in [Processes -> Nat] /\ IsFiniteSet(Opened(open))
  BY DEF DeviceInv, DeviceTypes, UsersSound
<1>2. open'[p] = open[p] + n /\ \A q \in Processes \ {p} : open'[q] = open[q]
  BY <1>1
<1>3. IsFiniteSet(Opened(open')) /\ Cardinality(Opened(open')) = Cardinality(Opened(open)) + n
  <2>1. PICK g \in [Processes -> Nat] : g = open'
    BY <1>1
  <2>2. g[p] = open[p] + n /\ \A q \in Processes \ {p} : g[q] = open[q]
    BY <1>2, <2>1
  <2>3. IsFiniteSet(Opened(g)) /\ Cardinality(Opened(g)) = Cardinality(Opened(open)) + n
    BY <1>1, <2>2, OpenedGrows
  <2> QED
    BY <2>1, <2>3
<1>4. Cardinality(Opened(open)) \in Nat
  BY <1>1, FS_CardinalityType, Zenon
<1>5. Example!Opens' = Cardinality(Opened(open'))
  BY OpensAre
<1> QED
  BY <1>1, <1>3, <1>4, <1>5, OpensAre

(* And when contexts of a process are closed.                               *)
LEMMA OpensShrink ==
  ASSUME DeviceInv, NEW p \in Processes, NEW n \in Nat, n <= open[p],
         open' = [open EXCEPT ![p] = open[p] - n]
  PROVE  /\ open' \in [Processes -> Nat] /\ IsFiniteSet(Opened(open'))
         /\ Example!Opens' \in Nat /\ Example!Opens = Example!Opens' + n
<1>1. open \in [Processes -> Nat] /\ open' \in [Processes -> Nat] /\ IsFiniteSet(Opened(open))
  BY DEF DeviceInv, DeviceTypes, UsersSound
<1>2. open[p] = open'[p] + n /\ \A q \in Processes \ {p} : open[q] = open'[q]
  BY <1>1
<1>3. IsFiniteSet(Opened(open')) /\ Cardinality(Opened(open)) = Cardinality(Opened(open')) + n
  <2>1. PICK f \in [Processes -> Nat] : f = open'
    BY <1>1
  <2>2. open[p] = f[p] + n /\ \A q \in Processes \ {p} : open[q] = f[q]
    BY <1>2, <2>1
  <2>3. IsFiniteSet(Opened(f)) /\ Cardinality(Opened(open)) = Cardinality(Opened(f)) + n
    BY <1>1, <2>2, OpenedGrows
  <2> QED
    BY <2>1, <2>3
<1>4. Cardinality(Opened(open')) \in Nat
  BY <1>3, FS_CardinalityType, Zenon
<1>5. Example!Opens' = Cardinality(Opened(open'))
  BY OpensAre
<1> QED
  BY <1>1, <1>3, <1>4, <1>5, OpensAre

(* A driver that loads finds nobody and nothing.                            *)
LEMMA LoadKeeps ==
  ASSUME Example!NumBuffersOK, DeviceInv, Example!BC_Example_ModInit
  PROVE  DeviceInv'
<1> USE DEF Example!NumBuffersOK
<1>1. /\ psBCInfo.ui32RefCount = 0 /\ psBCInfo.psBuffer = FALSE /\ maps = {}
      /\ fill = Example!NoFill /\ ulNumBuffers = 0 /\ liveMemory = {}
      /\ node = "none" /\ module = "absent" /\ "unloaded" \notin accidents
      /\ ~Example!Oops
  <2>1. node = "none" /\ module = "absent" /\ ~Example!Oops
    BY DEF Example!BC_Example_ModInit
  <2>2. psBCInfo.ui32RefCount = 0
    BY <2>1 DEF DeviceInv, Example!BuffersHonest, Example!CountsHonest
  <2>3. psBCInfo.psBuffer = FALSE /\ maps = {}
    BY <2>2, NobodyUses
  <2>4. ulNumBuffers = 0 /\ fill = Example!NoFill /\ "unloaded" \notin accidents
    BY <2>1 DEF DeviceInv, DriverSound
  <2>5. liveMemory = {}
    BY <2>1 DEF DeviceInv, Example!BuffersHonest, Example!MemoryHonest
  <2> QED
    BY <2>1, <2>2, <2>3, <2>4, <2>5
<1>2. /\ open' = open /\ maps' = maps /\ liveSyncs' = liveSyncs
      /\ fill' = fill /\ read' = read /\ leaked' = leaked
      /\ done' = [done EXCEPT !.loads = @ + 1]
  BY DEF Example!BC_Example_ModInit, Example!Counts
<1>3. \/ /\ node' = "registered" /\ psBCInfo' = Example!NoInfo /\ module' = "loaded"
         /\ accidents' = accidents
         /\ \E n \in 0..NumBuffers : Example!BC_Example_Buffers_Create(n, liveMemory)
      \/ /\ node' = node /\ psBCInfo' = psBCInfo /\ module' = module
         /\ accidents' = accidents \cup {"class"}
         /\ psSystemBuffer' = psSystemBuffer /\ ulNumBuffers' = ulNumBuffers
         /\ liveMemory' = liveMemory
  BY <1>1 DEF Example!BC_Example_ModInit, Example!BC_Example_Register,
              Example!PVRSRVRegisterBCDeviceKM, Example!Happens
<1>4. /\ DeviceTypes /\ UsersSound /\ DriverSound /\ Known /\ ReadsKnown
      /\ Example!CountsHonest /\ Example!MemoryHonest
  BY DEF DeviceInv, Example!BuffersHonest
<1>5. Example!Opens' = Example!Opens
  BY <1>2 DEF Example!Opens
<1>6. CASE module' = "loaded"
  <2>1. PICK n \in 0..NumBuffers : Example!BC_Example_Buffers_Create(n, liveMemory)
    BY <1>1, <1>3, <1>6
  <2>2. /\ node' = "registered" /\ psBCInfo' = Example!NoInfo /\ accidents' = accidents
    BY <1>1, <1>3, <1>6
  <2>3. /\ ulNumBuffers' = n /\ liveMemory' = {Example!Fresh(i) : i \in 1..n}
        /\ psSystemBuffer' = [i \in Example!Indices |-> IF i <= n
               THEN [addr |-> Example!Fresh(i), psSyncData |-> 0] ELSE psSystemBuffer[i]]
    BY <1>1, <2>1 DEF Example!BC_Example_Buffers_Create
  <2>4. \A i \in Example!Indices : Example!Fresh(i) \in Int
    BY <1>4, FreshIsInt, Zenon
  <2>5. psSystemBuffer' \in [Example!Indices -> [addr : Int, psSyncData : Nat]]
    BY <1>4, <2>3, <2>4 DEF DeviceTypes
  <2>6. DeviceTypes'
    BY <1>1, <1>2, <1>4, <1>6, <2>2, <2>3, <2>5 DEF DeviceTypes, Example!NoInfo, Example!NoFill
  <2>7. UsersSound'
    BY <1>1, <1>2, <1>4, <2>2 DEF UsersSound, Example!NoInfo
  <2>8. DriverSound'
    <3>1. \A i \in 1..n : psSystemBuffer'[i].addr = Example!Fresh(i)
      BY <2>3 DEF Example!Indices
    <3>2. liveMemory' = {psSystemBuffer'[i].addr : i \in 1..ulNumBuffers'}
      BY <2>3, <3>1
    <3> QED
      BY <1>1, <1>6, <2>2, <3>2 DEF DriverSound
  <2>9. Known'
    BY <1>1, <1>2, <1>4, <2>2, <2>3 DEF Known, KnownSync
  <2>10. ArrayKept'
    BY <1>1, <1>2, <2>2 DEF ArrayKept, Example!NoInfo
  <2>11. ReadsKnown'
    BY <1>2, <1>4, <2>2 DEF ReadsKnown
  <2>12. Example!CountsHonest'
    BY <1>1, <1>2, <1>4, <1>5, <2>2 DEF Example!CountsHonest, Example!NoInfo, Example!Oops
  <2>13. Example!MemoryHonest'
    BY <1>1, <1>2, <1>4, <1>6, <2>2 DEF Example!MemoryHonest, Example!Oops
  <2>14. Example!FillsAlone'
    BY <1>1, <1>2 DEF Example!FillsAlone, Example!NoFill
  <2> QED
    BY <2>6, <2>7, <2>8, <2>9, <2>10, <2>11, <2>12, <2>13, <2>14 DEF DeviceInv, Example!BuffersHonest
<1>7. CASE module' # "loaded"
  <2>1. /\ node' = node /\ psBCInfo' = psBCInfo /\ module' = module
        /\ accidents' = accidents \cup {"class"}
        /\ psSystemBuffer' = psSystemBuffer /\ ulNumBuffers' = ulNumBuffers
        /\ liveMemory' = liveMemory
    BY <1>3, <1>7
  <2>2. DeviceTypes'
    BY <1>2, <1>4, <2>1 DEF DeviceTypes
  <2>3. UsersSound' /\ DriverSound' /\ Known' /\ ReadsKnown'
    BY <1>2, <1>4, <2>1 DEF UsersSound, DriverSound, Known, KnownSync, ReadsKnown
  <2>4. ArrayKept'
    BY <1>1, <1>2, <2>1 DEF ArrayKept
  <2>5. Example!CountsHonest'
    BY <1>2, <1>4, <2>1, CountsStay
  <2>6. Example!MemoryHonest'
    BY <1>2, <1>4, <2>1, MemoryStays
  <2>7. Example!FillsAlone'
    BY <1>1, <1>2 DEF Example!FillsAlone, Example!NoFill
  <2> QED
    BY <2>2, <2>3, <2>4, <2>5, <2>6, <2>7 DEF DeviceInv, Example!BuffersHonest
<1> QED
  BY <1>6, <1>7

(* A driver that unloads leaves no buffer, and an orphan if it is in use.    *)
LEMMA UnloadKeeps ==
  ASSUME Example!NumBuffersOK, DeviceInv, Example!BC_Example_ModCleanup
  PROVE  DeviceInv'
<1> USE DEF Example!NumBuffersOK
<1>1. /\ module = "loaded" /\ fill = Example!NoFill /\ ~Example!Oops
      /\ module' = "absent" /\ liveMemory' = Example!BC_Example_Buffers_Destroy
      /\ ulNumBuffers' = 0
      /\ psSystemBuffer' = [i \in Example!Indices |-> [addr |-> 0, psSyncData |-> 0]]
      /\ open' = open /\ maps' = maps /\ liveSyncs' = liveSyncs /\ fill' = fill
      /\ read' = read /\ leaked' = leaked /\ done' = done
  BY DEF Example!BC_Example_ModCleanup
<1>2. /\ DeviceTypes /\ UsersSound /\ DriverSound /\ Known /\ ReadsKnown
      /\ Example!CountsHonest /\ Example!MemoryHonest
  BY DEF DeviceInv, Example!BuffersHonest
<1>3. liveMemory' = {}
  BY <1>1, <1>2 DEF DriverSound, Example!BC_Example_Buffers_Destroy
<1>4. \/ /\ psBCInfo.ui32RefCount = 0 /\ psBCInfo.psBuffer = FALSE /\ maps = {}
         /\ node' = "none" /\ psBCInfo' = Example!NoInfo /\ accidents' = accidents
      \/ node' = "orphan" /\ psBCInfo' = psBCInfo /\ accidents' = accidents \cup {"unloaded"}
  BY NobodyUses DEF Example!BC_Example_ModCleanup, Example!BC_Example_Unregister,
                    Example!PVRSRVRemoveBCDeviceKM, Example!Happens
<1>5. "unloaded" \notin accidents
  BY <1>1, <1>2 DEF DriverSound
<1>6. DeviceTypes'
  <2>1. psSystemBuffer' \in [Example!Indices -> [addr : Int, psSyncData : Nat]]
    BY <1>1
  <2>2. psBCInfo' \in [ui32RefCount : Nat, ui32BufferCount : 0..NumBuffers,
                       psBuffer : BOOLEAN, sync : Nat]
    <3>1. 0 \in 0..NumBuffers
      OBVIOUS
    <3>2. Example!NoInfo \in [ui32RefCount : Nat, ui32BufferCount : 0..NumBuffers,
                             psBuffer : BOOLEAN, sync : Nat]
      BY <3>1 DEF Example!NoInfo
    <3>3. psBCInfo' = Example!NoInfo \/ psBCInfo' = psBCInfo
      BY <1>4
    <3> QED
      BY <1>2, <3>2, <3>3 DEF DeviceTypes
  <2> QED
    BY <1>1, <1>2, <1>4, <2>1, <2>2 DEF DeviceTypes
<1>7. UsersSound'
  BY <1>1, <1>2, <1>4 DEF UsersSound, Example!NoInfo
<1>8. DriverSound'
  <2>1. liveMemory' = {psSystemBuffer'[i].addr : i \in 1..ulNumBuffers'}
    BY <1>1, <1>3
  <2> QED
    BY <1>1, <1>4, <1>5, <2>1 DEF DriverSound
<1>9. Known'
  BY <1>1, <1>2, <1>4 DEF Known, KnownSync
<1>10. ArrayKept'
  BY <1>1, <1>4 DEF ArrayKept, Kept, Example!NoInfo
<1>11. ReadsKnown'
  BY <1>1, <1>2 DEF ReadsKnown, Example!NoFill
<1>12. Example!CountsHonest'
  <2>1. CASE node' = "none"
    <3>1. Example!Opens' = Example!Opens
      BY <1>1 DEF Example!Opens
    <3> QED
      BY <1>1, <1>2, <1>4, <2>1, <3>1 DEF Example!CountsHonest, Example!NoInfo
  <2>2. CASE node' # "none"
    <3>1. psBCInfo' = psBCInfo /\ accidents' = accidents \cup {"unloaded"}
      BY <1>4, <2>2
    <3>2. Example!Opens' = Example!Opens
      BY <1>1 DEF Example!Opens
    <3> QED
      BY <1>1, <1>2, <2>2, <3>1, <3>2 DEF Example!CountsHonest, Example!Oops
  <2> QED
    BY <2>1, <2>2
<1>13. Example!MemoryHonest'
  BY <1>1, <1>2, <1>3, <1>4 DEF Example!MemoryHonest, Example!Oops
<1>14. Example!FillsAlone'
  BY <1>1 DEF Example!FillsAlone, Example!NoFill
<1> QED
  BY <1>6, <1>7, <1>8, <1>9, <1>10, <1>11, <1>12, <1>13, <1>14 DEF DeviceInv, Example!BuffersHonest

(* New buffers take the place of the old ones; whoever uses those is noted. *)
LEMMA ReconfigureKeeps ==
  ASSUME Example!NumBuffersOK, DeviceInv, NEW n \in 0..NumBuffers, Example!ReconfigureBuffer(n)
  PROVE  DeviceInv'
<1> USE DEF Example!NumBuffersOK
<1>1. /\ module = "loaded" /\ ~Example!Oops
      /\ module' = module /\ node' = node /\ psBCInfo' = psBCInfo /\ open' = open
      /\ maps' = maps /\ liveSyncs' = liveSyncs /\ fill' = fill /\ read' = read
      /\ leaked' = leaked /\ done' = [done EXCEPT !.configs = @ + 1]
  BY DEF Example!ReconfigureBuffer, Example!Counts
<1>2. /\ DeviceTypes /\ UsersSound /\ DriverSound /\ Known /\ ReadsKnown
      /\ Example!CountsHonest /\ Example!MemoryHonest /\ Example!FillsAlone
  BY DEF DeviceInv, Example!BuffersHonest
<1>3. /\ ulNumBuffers' = n /\ liveMemory' = {Example!Fresh(i) : i \in 1..n}
      /\ psSystemBuffer' = [i \in Example!Indices |-> IF i <= n
             THEN [addr |-> Example!Fresh(i), psSyncData |-> 0] ELSE psSystemBuffer[i]]
  BY <1>2 DEF Example!ReconfigureBuffer, Example!BC_Example_Buffers_Create,
              Example!BC_Example_Buffers_Destroy, DriverSound
<1>4. \/ accidents' = accidents \cup {"reconfigured"}
      \/ /\ psBCInfo.psBuffer = FALSE /\ maps = {} /\ fill = Example!NoFill
         /\ accidents' = accidents
  <2>1. CASE psBCInfo.ui32RefCount > 0 \/ fill # Example!NoFill
    BY <2>1 DEF Example!ReconfigureBuffer, Example!Happens
  <2>2. CASE ~(psBCInfo.ui32RefCount > 0 \/ fill # Example!NoFill)
    <3>1. psBCInfo.ui32RefCount = 0
      BY <1>2, <2>2 DEF DeviceTypes
    <3> QED
      BY <2>2, <3>1, NobodyUses DEF Example!ReconfigureBuffer
  <2> QED
    BY <2>1, <2>2
<1>5. DeviceTypes'
  <2>1. \A i \in Example!Indices : Example!Fresh(i) \in Int
    BY <1>2, FreshIsInt, Zenon
  <2>2. psSystemBuffer' \in [Example!Indices -> [addr : Int, psSyncData : Nat]]
    BY <1>2, <1>3, <2>1 DEF DeviceTypes
  <2> QED
    BY <1>1, <1>2, <1>3, <2>2 DEF DeviceTypes
<1>6. UsersSound'
  BY <1>1, <1>2, <1>4 DEF UsersSound
<1>7. DriverSound'
  <2>1. \A i \in 1..n : psSystemBuffer'[i].addr = Example!Fresh(i)
    BY <1>3 DEF Example!Indices
  <2>2. liveMemory' = {psSystemBuffer'[i].addr : i \in 1..ulNumBuffers'}
    BY <1>3, <2>1
  <2> QED
    BY <1>1, <1>2, <1>4, <2>2 DEF DriverSound
<1>8. Known'
  BY <1>1, <1>2, <1>3, <1>4 DEF Known, KnownSync
<1>9. ArrayKept'
  BY <1>1, <1>4 DEF ArrayKept, Kept
<1>10. ReadsKnown'
  BY <1>1, <1>2, <1>4 DEF ReadsKnown
<1>11. Example!CountsHonest'
  BY <1>1, <1>2, <1>4, CountsStay
<1>12. Example!MemoryHonest'
  BY <1>1, <1>2, <1>4 DEF Example!MemoryHonest, Example!Oops
<1>13. Example!FillsAlone'
  BY <1>1, <1>2, <1>4 DEF Example!FillsAlone
<1> QED
  BY <1>5, <1>6, <1>7, <1>8, <1>9, <1>10, <1>11, <1>12, <1>13 DEF DeviceInv, Example!BuffersHonest

(* A device is opened once more, for the first time, or in vain.            *)
LEMMA OpenKeeps ==
  ASSUME Example!NumBuffersOK, DeviceInv, NEW p \in Processes, Example!PVRSRVOpenBCDeviceKM(p)
  PROVE  DeviceInv'
<1> USE DEF Example!NumBuffersOK
<1>1. /\ ~Example!Oops /\ node # "none"
      /\ module' = module /\ node' = node /\ maps' = maps /\ ulNumBuffers' = ulNumBuffers
      /\ liveMemory' = liveMemory /\ fill' = fill /\ read' = read
  BY DEF Example!PVRSRVOpenBCDeviceKM
<1>2. /\ DeviceTypes /\ UsersSound /\ DriverSound /\ Known /\ ArrayKept /\ ReadsKnown
      /\ Example!CountsHonest /\ Example!MemoryHonest /\ Example!FillsAlone
  BY DEF DeviceInv, Example!BuffersHonest
<1>3. open \in [Processes -> Nat] /\ leaked \in Nat /\ psBCInfo.ui32RefCount \in Nat
  BY <1>2 DEF DeviceTypes
<1>4. psBCInfo.ui32RefCount = Example!Opens + leaked
  BY <1>1, <1>2 DEF Example!CountsHonest
<1>5. Example!FillsAlone' \/ accidents' # accidents
  BY <1>1, <1>2 DEF Example!FillsAlone
<1>6. CASE psBCInfo.ui32RefCount > 0
  <2>1. /\ psBCInfo' = [psBCInfo EXCEPT !.ui32RefCount = @ + 1]
        /\ open' = [open EXCEPT ![p] = open[p] + 1]
        /\ psSystemBuffer' = psSystemBuffer /\ liveSyncs' = liveSyncs /\ leaked' = leaked
        /\ accidents' = accidents /\ done' = done
    BY <1>6 DEF Example!PVRSRVOpenBCDeviceKM
  <2>2. /\ open' \in [Processes -> Nat] /\ IsFiniteSet(Opened(open'))
        /\ Example!Opens' = Example!Opens + 1 /\ Example!Opens \in Nat
    BY <2>1, OpensGrow
  <2>3. /\ psBCInfo' \in [ui32RefCount : Nat, ui32BufferCount : 0..NumBuffers,
                          psBuffer : BOOLEAN, sync : Nat]
        /\ psBCInfo'.ui32RefCount = psBCInfo.ui32RefCount + 1
        /\ psBCInfo'.ui32BufferCount = psBCInfo.ui32BufferCount
        /\ psBCInfo'.psBuffer = psBCInfo.psBuffer /\ psBCInfo'.sync = psBCInfo.sync
    BY <1>2, <2>1 DEF DeviceTypes
  <2>4. DeviceTypes'
    BY <1>1, <1>2, <2>1, <2>2, <2>3 DEF DeviceTypes
  <2>5. UsersSound'
    BY <1>1, <1>2, <1>3, <1>6, <2>1, <2>2, <2>3 DEF UsersSound
  <2>6. DriverSound' /\ Known' /\ ArrayKept' /\ ReadsKnown'
    BY <1>1, <1>2, <2>1, <2>3 DEF DriverSound, Known, KnownSync, ArrayKept, Kept, ReadsKnown
  <2>7. Example!CountsHonest'
    BY <1>1, <1>2, <1>3, <1>4, <2>1, <2>2, <2>3 DEF Example!CountsHonest, Example!Oops
  <2>8. Example!MemoryHonest'
    BY <1>1, <1>2, <2>1, MemoryStays
  <2>9. Example!FillsAlone'
    BY <1>5, <2>1
  <2> QED
    BY <2>4, <2>5, <2>6, <2>7, <2>8, <2>9 DEF DeviceInv, Example!BuffersHonest
<1>7. CASE ~(psBCInfo.ui32RefCount > 0) /\ node = "orphan"
  <2>1. /\ accidents' = accidents \cup {"oops"} /\ psBCInfo' = psBCInfo /\ open' = open
        /\ psSystemBuffer' = psSystemBuffer /\ liveSyncs' = liveSyncs /\ leaked' = leaked
        /\ done' = done
    BY <1>7 DEF Example!PVRSRVOpenBCDeviceKM, Example!Happens
  <2>2. "unloaded" \in accidents
    BY <1>2, <1>7 DEF DriverSound
  <2>3. DeviceTypes'
    BY <1>1, <1>2, <2>1 DEF DeviceTypes
  <2>4. UsersSound' /\ DriverSound' /\ Known' /\ ReadsKnown'
    BY <1>1, <1>2, <2>1 DEF UsersSound, DriverSound, Known, KnownSync, ReadsKnown
  <2>5. ArrayKept'
    BY <2>1, <2>2 DEF ArrayKept, Kept
  <2>6. Example!CountsHonest'
    BY <1>1, <1>2, <2>1, CountsStay
  <2>7. Example!MemoryHonest'
    BY <1>1, <1>2, <2>1, <2>2 DEF Example!MemoryHonest, Example!Oops
  <2>8. Example!FillsAlone'
    BY <1>1, <1>2, <2>1 DEF Example!FillsAlone
  <2> QED
    BY <2>3, <2>4, <2>5, <2>6, <2>7, <2>8 DEF DeviceInv, Example!BuffersHonest
<1>8. CASE ~(psBCInfo.ui32RefCount > 0) /\ node # "orphan"
  <2>1. psBCInfo.ui32RefCount = 0
    BY <1>3, <1>8
  <2>2. psBCInfo.psBuffer = FALSE /\ maps = {}
    BY <2>1, NobodyUses
  <2>3. done' = [done EXCEPT !.syncs = @ + 1] /\ done.syncs \in Nat
    BY <1>2, <1>8 DEF Example!PVRSRVOpenBCDeviceKM, Example!Counts, DeviceTypes
  <2>4. Example!Opens \in Nat
    <3>1. IsFiniteSet(Opened(open))
      BY <1>2 DEF UsersSound
    <3>2. Cardinality(Opened(open)) \in Nat
      BY <3>1, FS_CardinalityType, Zenon
    <3> QED
      BY <3>2, OpensAre
  <2>5. Example!Opens = 0 /\ leaked = 0
    BY <1>3, <1>4, <2>1, <2>4
  <2>6. CASE psBCInfo' = [ui32RefCount |-> 1, ui32BufferCount |-> ulNumBuffers,
                          psBuffer |-> TRUE, sync |-> done.syncs + 1]
    <3>1. /\ open' = [open EXCEPT ![p] = open[p] + 1]
          /\ Example!GetBCBuffer(ulNumBuffers)
          /\ liveSyncs' = liveSyncs \cup {done.syncs + 1}
          /\ leaked' = leaked /\ accidents' = accidents
      BY <1>8, <2>6 DEF Example!PVRSRVOpenBCDeviceKM
    <3>2. psSystemBuffer' = [i \in Example!Indices |-> IF i <= ulNumBuffers
              THEN [psSystemBuffer[i] EXCEPT !.psSyncData = done.syncs + 1]
              ELSE psSystemBuffer[i]]
      BY <3>1 DEF Example!GetBCBuffer
    <3>3. /\ psSystemBuffer' \in [Example!Indices -> [addr : Int, psSyncData : Nat]]
          /\ \A i \in Example!Indices : psSystemBuffer'[i].addr = psSystemBuffer[i].addr
          /\ \A i \in Example!Indices : psSystemBuffer'[i].psSyncData
                 = IF i <= ulNumBuffers THEN done.syncs + 1 ELSE psSystemBuffer[i].psSyncData
      BY <1>2, <2>3, <3>2 DEF DeviceTypes
    <3>4. /\ open' \in [Processes -> Nat] /\ IsFiniteSet(Opened(open'))
          /\ Example!Opens' = 1
      <4>1. /\ open' \in [Processes -> Nat] /\ IsFiniteSet(Opened(open'))
            /\ Example!Opens' = Example!Opens + 1
        BY <3>1, OpensGrow
      <4> QED
        BY <2>5, <4>1
    <3>5. DeviceTypes'
      BY <1>1, <1>2, <2>3, <2>6, <3>1, <3>3, <3>4 DEF DeviceTypes
    <3>6. UsersSound'
      BY <1>1, <1>2, <2>2, <2>3, <2>6, <3>1, <3>4 DEF UsersSound
    <3>7. DriverSound'
      <4>1. 1..ulNumBuffers \subseteq Example!Indices
        BY <1>2 DEF DeviceTypes, Example!Indices
      <4>2. {psSystemBuffer'[i].addr : i \in 1..ulNumBuffers}
                = {psSystemBuffer[i].addr : i \in 1..ulNumBuffers}
        BY <3>3, <4>1
      <4> QED
        BY <1>1, <1>2, <3>1, <4>2 DEF DriverSound
    <3>8. Known'
      BY <1>1, <1>2, <3>1, <3>3 DEF Known, KnownSync
    <3>9. ArrayKept'
      <4>1. 1..ulNumBuffers \subseteq Example!Indices
        BY <1>2 DEF DeviceTypes, Example!Indices
      <4>2. \A i \in 1..ulNumBuffers : psSystemBuffer'[i].psSyncData = done.syncs + 1
        BY <1>2, <3>3, <4>1 DEF DeviceTypes
      <4> QED
        BY <1>1, <2>2, <2>6, <4>2 DEF ArrayKept
    <3>10. ReadsKnown'
      BY <1>1, <1>2, <3>1 DEF ReadsKnown
    <3>11. Example!CountsHonest'
      BY <1>1, <2>2, <2>5, <2>6, <3>1, <3>4 DEF Example!CountsHonest
    <3>12. Example!MemoryHonest'
      BY <1>1, <1>2, <3>1, MemoryStays
    <3>13. Example!FillsAlone'
      BY <1>5, <3>1
    <3> QED
      BY <3>5, <3>6, <3>7, <3>8, <3>9, <3>10, <3>11, <3>12, <3>13
         DEF DeviceInv, Example!BuffersHonest
  <2>7. CASE psBCInfo' # [ui32RefCount |-> 1, ui32BufferCount |-> ulNumBuffers,
                          psBuffer |-> TRUE, sync |-> done.syncs + 1]
    <3>1. /\ psBCInfo' = [ui32RefCount |-> 1, ui32BufferCount |-> ulNumBuffers,
                          psBuffer |-> FALSE, sync |-> 0]
          /\ \E k \in 0..ulNumBuffers : Example!GetBCBuffer(k)
          /\ leaked' = leaked + 1 /\ accidents' = accidents \cup {"openFailed"}
          /\ open' = open /\ liveSyncs' = liveSyncs
      BY <1>8, <2>7 DEF Example!PVRSRVOpenBCDeviceKM, Example!Happens
    <3>2. PICK k \in 0..ulNumBuffers :
              psSystemBuffer' = [i \in Example!Indices |-> IF i <= k
                  THEN [psSystemBuffer[i] EXCEPT !.psSyncData = done.syncs + 1]
                  ELSE psSystemBuffer[i]]
      BY <3>1 DEF Example!GetBCBuffer
    <3>3. /\ psSystemBuffer' \in [Example!Indices -> [addr : Int, psSyncData : Nat]]
          /\ \A i \in Example!Indices : psSystemBuffer'[i].addr = psSystemBuffer[i].addr
      BY <1>2, <2>3, <3>2 DEF DeviceTypes
    <3>4. Example!Opens' = Example!Opens
      BY <3>1 DEF Example!Opens
    <3>5. DeviceTypes'
      BY <1>1, <1>2, <2>3, <3>1, <3>3 DEF DeviceTypes
    <3>6. UsersSound'
      BY <1>1, <1>2, <2>2, <3>1 DEF UsersSound
    <3>7. DriverSound'
      <4>1. 1..ulNumBuffers \subseteq Example!Indices
        BY <1>2 DEF DeviceTypes, Example!Indices
      <4>2. {psSystemBuffer'[i].addr : i \in 1..ulNumBuffers}
                = {psSystemBuffer[i].addr : i \in 1..ulNumBuffers}
        BY <3>3, <4>1
      <4> QED
        BY <1>1, <1>2, <3>1, <4>2 DEF DriverSound
    <3>8. Known'
      BY <3>1 DEF Known, KnownSync
    <3>9. ArrayKept'
      BY <1>1, <2>2, <3>1 DEF ArrayKept
    <3>10. ReadsKnown'
      BY <1>1, <1>2, <3>1 DEF ReadsKnown
    <3>11. Example!CountsHonest'
      BY <1>1, <2>2, <2>5, <3>1, <3>4 DEF Example!CountsHonest
    <3>12. Example!MemoryHonest'
      BY <1>1, <1>2, <3>1, MemoryStays
    <3>13. Example!FillsAlone'
      BY <1>1, <1>2, <3>1 DEF Example!FillsAlone
    <3> QED
      BY <3>5, <3>6, <3>7, <3>8, <3>9, <3>10, <3>11, <3>12, <3>13
         DEF DeviceInv, Example!BuffersHonest
  <2> QED
    BY <2>6, <2>7
<1> QED
  BY <1>6, <1>7, <1>8

(* A buffer that is mapped is one of the driver's, which has its memory.    *)
LEMMA GetKeeps ==
  ASSUME Example!NumBuffersOK, DeviceInv, NEW p \in Processes, NEW i \in Example!Indices,
         Example!PVRSRVGetBCBufferKM(p, i)
  PROVE  DeviceInv'
<1> USE DEF Example!NumBuffersOK
<1>1. /\ ~Example!Oops /\ open[p] > 0 /\ i <= psBCInfo.ui32BufferCount
      /\ module' = module /\ node' = node /\ psBCInfo' = psBCInfo /\ open' = open
      /\ psSystemBuffer' = psSystemBuffer /\ ulNumBuffers' = ulNumBuffers
      /\ liveMemory' = liveMemory /\ liveSyncs' = liveSyncs /\ fill' = fill /\ read' = read
      /\ leaked' = leaked /\ done' = done
  BY DEF Example!PVRSRVGetBCBufferKM
<1>2. /\ DeviceTypes /\ UsersSound /\ DriverSound /\ Known /\ ArrayKept /\ ReadsKnown
      /\ Example!CountsHonest /\ Example!MemoryHonest /\ Example!FillsAlone
  BY DEF DeviceInv, Example!BuffersHonest
<1>3. i \in 1..psBCInfo.ui32BufferCount
  BY <1>1, <1>2 DEF DeviceTypes, Example!Indices
<1>4. CASE psBCInfo.psBuffer /\ node = "registered"
  <2> DEFINE new == [of |-> p, buffer |-> i, memory |-> psSystemBuffer[i].addr]
  <2>1. maps' = maps \cup {new} /\ accidents' = accidents
    BY <1>4 DEF Example!PVRSRVGetBCBufferKM
  <2>2. new \in [of : Processes, buffer : Example!Indices, memory : Int]
    BY <1>2 DEF DeviceTypes
  <2>3. new.buffer = i /\ new.memory = psSystemBuffer[i].addr
    OBVIOUS
  <2> HIDE DEF new
  <2>4. DeviceTypes'
    BY <1>1, <1>2, <2>1, <2>2 DEF DeviceTypes
  <2>5. UsersSound' /\ DriverSound' /\ Known'
    BY <1>1, <1>2, <1>4, <2>1 DEF UsersSound, DriverSound, Known, KnownSync
  <2>6. ArrayKept'
    BY <1>1, <1>2, <1>3, <2>1, <2>3 DEF ArrayKept, Kept
  <2>7. ReadsKnown'
    BY <1>1, <1>2, <2>1 DEF ReadsKnown
  <2>8. Example!CountsHonest'
    <3>1. Example!Opens' = Example!Opens
      BY <1>1 DEF Example!Opens
    <3>2. psBCInfo.sync \in liveSyncs
      BY <1>2, <1>4 DEF UsersSound
    <3> QED
      BY <1>1, <1>2, <1>4, <2>1, <3>1, <3>2 DEF Example!CountsHonest, Example!Oops
  <2>9. Example!MemoryHonest'
    <3>1. Kept => new.memory \in liveMemory
      <4>1. Kept => psBCInfo.ui32BufferCount = ulNumBuffers
        BY <1>2, <1>4 DEF ArrayKept
      <4>2. liveMemory = {psSystemBuffer[k].addr : k \in 1..ulNumBuffers}
        BY <1>2 DEF DriverSound
      <4> QED
        BY <1>3, <2>3, <4>1, <4>2
    <3>2. ASSUME Kept'  PROVE {m.memory : m \in maps'} \subseteq liveMemory'
      BY <1>1, <1>2, <2>1, <3>1, <3>2 DEF Example!MemoryHonest, Kept
    <3> QED
      BY <1>1, <1>2, <2>1, <3>2 DEF Example!MemoryHonest, Example!Oops, Kept
  <2>10. Example!FillsAlone'
    BY <1>1, <1>2, <2>1 DEF Example!FillsAlone
  <2> QED
    BY <2>4, <2>5, <2>6, <2>7, <2>8, <2>9, <2>10 DEF DeviceInv, Example!BuffersHonest
<1>5. CASE ~(psBCInfo.psBuffer /\ node = "registered")
  <2>1. maps' = maps /\ accidents' = accidents \cup {"oops"}
    BY <1>5 DEF Example!PVRSRVGetBCBufferKM, Example!Happens
  <2>2. accidents \cap {"unloaded", "openFailed"} # {}
    <3>1. CASE ~psBCInfo.psBuffer
      BY <1>1, <3>1, SomebodyUses
    <3>2. CASE node # "registered"
      <4>1. node # "none"
        BY <1>1, SomebodyUses
      <4>2. node = "orphan"
        BY <1>2, <3>2, <4>1 DEF DeviceTypes
      <4> QED
        BY <1>2, <4>2 DEF DriverSound
    <3> QED
      BY <1>5, <3>1, <3>2
  <2>3. DeviceTypes'
    BY <1>1, <1>2, <2>1 DEF DeviceTypes
  <2>4. UsersSound' /\ DriverSound' /\ Known' /\ ArrayKept' /\ ReadsKnown'
    BY <1>1, <1>2, <2>1
       DEF UsersSound, DriverSound, Known, KnownSync, ArrayKept, Kept, ReadsKnown
  <2>5. Example!CountsHonest'
    BY <1>1, <1>2, <2>1, CountsStay
  <2>6. Example!MemoryHonest'
    BY <1>1, <1>2, <2>1, <2>2 DEF Example!MemoryHonest, Example!Oops
  <2>7. Example!FillsAlone'
    BY <1>1, <1>2, <2>1 DEF Example!FillsAlone
  <2> QED
    BY <2>3, <2>4, <2>5, <2>6, <2>7 DEF DeviceInv, Example!BuffersHonest
<1> QED
  BY <1>4, <1>5

(* What no render reads may be unmapped.                                    *)
LEMMA UnmapKeeps ==
  ASSUME Example!NumBuffersOK, DeviceInv, NEW p \in Processes, NEW m \in maps, Example!Unmap(p, m)
  PROVE  DeviceInv'
<1>1. /\ maps' = maps \ {m} /\ read[m.buffer] = "none"
      /\ module' = module /\ node' = node /\ psBCInfo' = psBCInfo /\ open' = open
      /\ psSystemBuffer' = psSystemBuffer /\ ulNumBuffers' = ulNumBuffers
      /\ liveMemory' = liveMemory /\ liveSyncs' = liveSyncs /\ fill' = fill /\ read' = read
      /\ leaked' = leaked /\ accidents' = accidents /\ done' = done
  BY DEF Example!Unmap
<1>2. /\ DeviceTypes /\ UsersSound /\ DriverSound /\ Known /\ ArrayKept /\ ReadsKnown
      /\ Example!CountsHonest /\ Example!MemoryHonest /\ Example!FillsAlone
  BY DEF DeviceInv, Example!BuffersHonest
<1>3. DeviceTypes'
  BY <1>1, <1>2 DEF DeviceTypes
<1>4. UsersSound' /\ DriverSound' /\ Known' /\ ArrayKept'
  BY <1>1, <1>2 DEF UsersSound, DriverSound, Known, KnownSync, ArrayKept, Kept
<1>5. ReadsKnown'
  BY <1>1, <1>2 DEF ReadsKnown
<1>6. Example!CountsHonest'
  BY <1>1, <1>2, CountsStay
<1>7. Example!MemoryHonest'
  BY <1>1, <1>2, MemoryStays
<1>8. Example!FillsAlone'
  BY <1>1, <1>2 DEF Example!FillsAlone
<1> QED
  BY <1>3, <1>4, <1>5, <1>6, <1>7, <1>8 DEF DeviceInv, Example!BuffersHonest

(* Contexts of a process are closed, at once with mappings that no render   *)
(* reads: the references go with them, or are remembered as leaked.         *)
LEMMA ClosingKeeps ==
  ASSUME Example!NumBuffersOK, DeviceInv, ~Example!Oops,
         NEW p \in Processes, NEW n \in Nat, 0 < n, n <= open[p],
         NEW mapped \in SUBSET maps, maps' = mapped,
         \A m \in maps \ mapped : read[m.buffer] = "none",
         Example!CloseBCDeviceCallBack(n, mapped),
         open' = [open EXCEPT ![p] = open[p] - n],
         UNCHANGED <<module, node, psSystemBuffer, ulNumBuffers, liveMemory, fill, read, done>>
  PROVE  DeviceInv'
<1> USE DEF Example!NumBuffersOK
<1>1. /\ module' = module /\ node' = node /\ psSystemBuffer' = psSystemBuffer
      /\ ulNumBuffers' = ulNumBuffers /\ liveMemory' = liveMemory /\ fill' = fill
      /\ read' = read /\ done' = done
  OBVIOUS
<1>2. /\ DeviceTypes /\ UsersSound /\ DriverSound /\ Known /\ ArrayKept /\ ReadsKnown
      /\ Example!CountsHonest /\ Example!MemoryHonest /\ Example!FillsAlone
  BY DEF DeviceInv, Example!BuffersHonest
<1>3. open \in [Processes -> Nat] /\ leaked \in Nat /\ psBCInfo.ui32RefCount \in Nat
  BY <1>2 DEF DeviceTypes
<1>4. /\ psBCInfo.ui32RefCount >= open[p] /\ node # "none"
      /\ ~psBCInfo.psBuffer => "openFailed" \in accidents
  BY <1>3, SomebodyUses
<1>5. /\ open' \in [Processes -> Nat] /\ IsFiniteSet(Opened(open'))
      /\ Example!Opens' \in Nat /\ Example!Opens = Example!Opens' + n
  BY OpensShrink
<1>6. psBCInfo.ui32RefCount = Example!Opens + leaked
  BY <1>2 DEF Example!CountsHonest
<1>7. (ReadsKnown' /\ Example!FillsAlone') \/ ~(accidents \subseteq accidents')
  <2>1. ASSUME accidents \subseteq accidents'  PROVE ReadsKnown'
    BY <1>1, <1>2, <2>1 DEF ReadsKnown
  <2>2. ASSUME accidents \subseteq accidents'  PROVE Example!FillsAlone'
    BY <1>1, <1>2, <2>2 DEF Example!FillsAlone
  <2> QED
    BY <2>1, <2>2
<1>8. CASE psBCInfo' = psBCInfo /\ liveSyncs' = liveSyncs
           /\ leaked' = leaked /\ accidents' = accidents \cup {"oops"}
           /\ accidents \cap {"unloaded", "openFailed"} # {}
  <2>1. DeviceTypes'
    BY <1>1, <1>2, <1>5, <1>8 DEF DeviceTypes
  <2>2. UsersSound' /\ DriverSound' /\ Known' /\ ArrayKept'
    BY <1>1, <1>2, <1>5, <1>8
       DEF UsersSound, DriverSound, Known, KnownSync, ArrayKept, Kept
  <2>3. Example!CountsHonest'
    BY <1>1, <1>2, <1>4, <1>8 DEF Example!CountsHonest, Example!Oops
  <2>4. Example!MemoryHonest'
    BY <1>1, <1>2, <1>8 DEF Example!MemoryHonest, Example!Oops
  <2> QED
    BY <1>7, <1>8, <2>1, <2>2, <2>3, <2>4 DEF DeviceInv, Example!BuffersHonest
<1>9. CASE psBCInfo' = psBCInfo /\ liveSyncs' = liveSyncs
           /\ leaked' = leaked + n /\ accidents' = accidents
  <2>1. DeviceTypes'
    BY <1>1, <1>2, <1>3, <1>5, <1>9 DEF DeviceTypes
  <2>2. UsersSound' /\ DriverSound' /\ Known' /\ ArrayKept'
    BY <1>1, <1>2, <1>5, <1>9
       DEF UsersSound, DriverSound, Known, KnownSync, ArrayKept, Kept
  <2>3. psBCInfo'.ui32RefCount = Example!Opens' + leaked'
    BY <1>3, <1>5, <1>6, <1>9
  <2>4. Example!CountsHonest'
    BY <1>1, <1>2, <1>9, <2>3 DEF Example!CountsHonest, Example!Oops
  <2>5. Example!MemoryHonest'
    BY <1>1, <1>2, <1>9, MemoryStays
  <2> QED
    BY <1>7, <1>9, <2>1, <2>2, <2>4, <2>5 DEF DeviceInv, Example!BuffersHonest
<1>10. CASE psBCInfo.ui32RefCount > n /\ liveSyncs' = liveSyncs
            /\ psBCInfo' = [psBCInfo EXCEPT !.ui32RefCount = @ - n]
            /\ leaked' = leaked /\ accidents' = accidents
  <2>1. psBCInfo.ui32RefCount - n \in Nat /\ psBCInfo.ui32RefCount - n > 0
    BY <1>3, <1>10
  <2>2. /\ psBCInfo' \in [ui32RefCount : Nat, ui32BufferCount : 0..NumBuffers,
                          psBuffer : BOOLEAN, sync : Nat]
        /\ psBCInfo'.ui32RefCount = psBCInfo.ui32RefCount - n
        /\ psBCInfo'.ui32BufferCount = psBCInfo.ui32BufferCount
        /\ psBCInfo'.psBuffer = psBCInfo.psBuffer /\ psBCInfo'.sync = psBCInfo.sync
    BY <1>2, <1>10, <2>1 DEF DeviceTypes
  <2>3. DeviceTypes'
    BY <1>1, <1>2, <1>5, <1>10, <2>2 DEF DeviceTypes
  <2>4. UsersSound' /\ DriverSound' /\ Known' /\ ArrayKept'
    BY <1>1, <1>2, <1>4, <1>5, <1>10, <2>1, <2>2
       DEF UsersSound, DriverSound, Known, KnownSync, ArrayKept, Kept
  <2>5. psBCInfo'.ui32RefCount = Example!Opens' + leaked'
    BY <1>3, <1>5, <1>6, <1>10, <2>2
  <2>6. Example!CountsHonest'
    BY <1>1, <1>2, <1>4, <1>10, <2>2, <2>5 DEF Example!CountsHonest, Example!Oops
  <2>7. Example!MemoryHonest'
    BY <1>1, <1>2, <1>10, MemoryStays
  <2> QED
    BY <1>7, <1>10, <2>3, <2>4, <2>6, <2>7 DEF DeviceInv, Example!BuffersHonest
<1>11. CASE /\ mapped = {} /\ ~(psBCInfo.ui32RefCount > n)
            /\ psBCInfo' = [psBCInfo EXCEPT !.ui32RefCount = 0, !.psBuffer = FALSE]
            /\ liveSyncs' = liveSyncs \ {psBCInfo.sync}
            /\ accidents' = accidents \cup {"closed"} /\ leaked' = leaked
  <2>1. /\ psBCInfo' \in [ui32RefCount : Nat, ui32BufferCount : 0..NumBuffers,
                          psBuffer : BOOLEAN, sync : Nat]
        /\ psBCInfo'.ui32RefCount = 0 /\ psBCInfo'.psBuffer = FALSE
    BY <1>2, <1>11 DEF DeviceTypes
  <2>2. DeviceTypes'
    BY <1>1, <1>2, <1>5, <1>11, <2>1 DEF DeviceTypes
  <2>3. UsersSound' /\ DriverSound' /\ ArrayKept'
    BY <1>1, <1>2, <1>5, <1>11, <2>1 DEF UsersSound, DriverSound, ArrayKept
  <2>4. Known'
    BY <1>11 DEF Known, KnownSync
  <2>5. psBCInfo'.ui32RefCount = Example!Opens' + leaked'
    BY <1>3, <1>5, <1>6, <1>11, <2>1
  <2>6. Example!CountsHonest'
    BY <1>4, <1>1, <1>11, <2>5 DEF Example!CountsHonest
  <2>7. Example!MemoryHonest'
    BY <1>1, <1>2, <1>11, MemoryStays
  <2> QED
    BY <1>7, <1>11, <2>2, <2>3, <2>4, <2>6, <2>7 DEF DeviceInv, Example!BuffersHonest
<1>12. node = "orphan" => "unloaded" \in accidents
  BY <1>2 DEF DriverSound
<1>13. CASE ~psBCInfo.psBuffer /\ psBCInfo.ui32BufferCount > 0
  BY <1>4, <1>8, <1>13 DEF Example!CloseBCDeviceCallBack, Example!Happens
<1>14. CASE ~(~psBCInfo.psBuffer /\ psBCInfo.ui32BufferCount > 0)
  <2>1. CASE mapped # {}
    BY <1>9, <1>14, <2>1 DEF Example!CloseBCDeviceCallBack, Example!StillMapped
  <2>2. CASE mapped = {} /\ psBCInfo.ui32RefCount > n
    BY <1>10, <1>14, <2>2 DEF Example!CloseBCDeviceCallBack, Example!StillMapped
  <2>3. CASE mapped = {} /\ ~(psBCInfo.ui32RefCount > n) /\ node = "orphan"
    BY <1>8, <1>12, <1>14, <2>3 DEF Example!CloseBCDeviceCallBack, Example!StillMapped, Example!Happens
  <2>4. CASE mapped = {} /\ ~(psBCInfo.ui32RefCount > n) /\ node # "orphan"
    BY <1>11, <1>14, <2>4 DEF Example!CloseBCDeviceCallBack, Example!StillMapped, Example!Happens
  <2> QED
    BY <2>1, <2>2, <2>3, <2>4
<1> QED
  BY <1>13, <1>14

(* So a close keeps the invariant, and the end of a process.                *)
LEMMA CloseKeeps ==
  ASSUME Example!NumBuffersOK, DeviceInv, NEW p \in Processes,
         Example!PVRSRVCloseBCDeviceKM(p) \/ Example!ProcessDisconnect(p)
  PROVE  DeviceInv'
<1>1. open[p] \in Nat
  BY DEF DeviceInv, DeviceTypes
<1>2. CASE Example!PVRSRVCloseBCDeviceKM(p)
  <2>1. /\ ~Example!Oops /\ 0 < 1 /\ 1 <= open[p] /\ maps' = maps
        /\ Example!CloseBCDeviceCallBack(1, maps)
        /\ open' = [open EXCEPT ![p] = open[p] - 1]
        /\ UNCHANGED <<module, node, psSystemBuffer, ulNumBuffers, liveMemory, fill, read, done>>
    BY <1>1, <1>2 DEF Example!PVRSRVCloseBCDeviceKM
  <2> QED
    BY <2>1, ClosingKeeps
<1>3. CASE Example!ProcessDisconnect(p)
  <2>1. PICK n \in Nat : n = open[p]
    BY <1>1
  <2>2. PICK mapped \in SUBSET maps : mapped = {m \in maps : m.of # p}
    OBVIOUS
  <2>3. /\ ~Example!Oops /\ 0 < n /\ n <= open[p] /\ maps' = mapped
        /\ \A m \in maps \ mapped : read[m.buffer] = "none"
        /\ Example!CloseBCDeviceCallBack(n, mapped)
        /\ UNCHANGED <<module, node, psSystemBuffer, ulNumBuffers, liveMemory, fill, read, done>>
    BY <1>3, <2>1, <2>2 DEF Example!ProcessDisconnect
  <2>4. open' = [open EXCEPT ![p] = open[p] - n]
    <3>1. open' = [open EXCEPT ![p] = 0]
      BY <1>3 DEF Example!ProcessDisconnect
    <3>2. open[p] - n = 0
      BY <2>1
    <3> QED
      BY <3>1, <3>2
  <2> QED
    BY <2>3, <2>4, ClosingKeeps
<1> QED
  BY <1>2, <1>3

(* A fill that looks sees the reads of a buffer that is mapped, unless the  *)
(* buffers were replaced.                                                   *)
LEMMA LookKeeps ==
  ASSUME Example!NumBuffersOK, DeviceInv, NEW i \in Example!Indices, Example!FillBuffer(i)
  PROVE  DeviceInv'
<1> DEFINE s == psSystemBuffer[i].psSyncData
<1>1. /\ ~Example!Oops /\ module = "loaded" /\ i <= ulNumBuffers
      /\ s # 0 => read[i] = "none"
      /\ fill' = [pc |-> "checked", of |-> i, sync |-> s]
      /\ done' = [done EXCEPT !.fills = @ + 1]
      /\ module' = module /\ node' = node /\ psBCInfo' = psBCInfo /\ open' = open
      /\ maps' = maps /\ psSystemBuffer' = psSystemBuffer /\ ulNumBuffers' = ulNumBuffers
      /\ liveMemory' = liveMemory /\ liveSyncs' = liveSyncs /\ read' = read
      /\ leaked' = leaked /\ accidents' = accidents
  BY DEF Example!FillBuffer, Example!Counts
<1>2. /\ DeviceTypes /\ UsersSound /\ DriverSound /\ Known /\ ArrayKept /\ ReadsKnown
      /\ Example!CountsHonest /\ Example!MemoryHonest /\ Example!FillsAlone
  BY DEF DeviceInv, Example!BuffersHonest
<1>3. s \in Nat /\ KnownSync(s)
  BY <1>2 DEF DeviceTypes, Known
<1>4. read[i] = "runs" => "reconfigured" \in accidents
  <2> SUFFICES ASSUME read[i] = "runs", "reconfigured" \notin accidents  PROVE FALSE
    OBVIOUS
  <2>1. PICK m \in maps : m.buffer = i
    BY <1>2 DEF ReadsKnown
  <2>2. "unloaded" \notin accidents
    BY <1>1, <1>2 DEF DriverSound
  <2>3. Kept
    BY <2>2 DEF Kept
  <2>4. psBCInfo.psBuffer /\ psBCInfo.sync # 0
    BY <1>2, <2>1 DEF UsersSound
  <2>5. i \in 1..ulNumBuffers
    BY <1>1, <1>2 DEF DeviceTypes, Example!Indices
  <2>6. s = psBCInfo.sync
    BY <1>2, <2>3, <2>4, <2>5 DEF ArrayKept
  <2> QED
    BY <1>1, <2>4, <2>6
<1> HIDE DEF s
<1>5. DeviceTypes'
  <2>1. i \in Nat
    BY <1>2 DEF DeviceTypes, Example!Indices
  <2>2. /\ fill' \in [pc : {"idle", "checked", "fills"}, of : Nat, sync : Nat]
        /\ fill'.of = i
    BY <1>1, <1>3, <2>1
  <2>3. done' \in [loads : Nat, configs : Nat, fills : Nat, syncs : Nat]
    BY <1>1, <1>2 DEF DeviceTypes
  <2> QED
    BY <1>1, <1>2, <2>2, <2>3 DEF DeviceTypes
<1>6. UsersSound' /\ DriverSound' /\ ArrayKept'
  BY <1>1, <1>2 DEF UsersSound, DriverSound, ArrayKept, Kept
<1>7. Known'
  BY <1>1, <1>2, <1>3 DEF Known, KnownSync
<1>8. ReadsKnown'
  BY <1>1, <1>2, <1>4 DEF ReadsKnown
<1>9. Example!CountsHonest'
  BY <1>1, <1>2, CountsStay
<1>10. Example!MemoryHonest'
  BY <1>1, <1>2, MemoryStays
<1>11. Example!FillsAlone'
  BY <1>1 DEF Example!FillsAlone
<1> QED
  BY <1>5, <1>6, <1>7, <1>8, <1>9, <1>10, <1>11 DEF DeviceInv, Example!BuffersHonest

(* What a fill announces and completes may touch sync data that is gone,    *)
(* but only after a close or a first open that failed.                      *)
LEMMA FillKeeps ==
  ASSUME Example!NumBuffersOK, DeviceInv, Example!FillAnnounces \/ Example!FillCompletes
  PROVE  DeviceInv'
<1> USE DEF Example!NumBuffersOK
<1>1. /\ ~Example!Oops
      /\ module' = module /\ node' = node /\ psBCInfo' = psBCInfo /\ open' = open
      /\ maps' = maps /\ psSystemBuffer' = psSystemBuffer /\ ulNumBuffers' = ulNumBuffers
      /\ liveMemory' = liveMemory /\ liveSyncs' = liveSyncs /\ leaked' = leaked /\ done' = done
  BY DEF Example!FillAnnounces, Example!FillCompletes
<1>2. /\ DeviceTypes /\ UsersSound /\ DriverSound /\ Known /\ ArrayKept /\ ReadsKnown
      /\ Example!CountsHonest /\ Example!MemoryHonest /\ Example!FillsAlone
  BY DEF DeviceInv, Example!BuffersHonest
<1>3. \/ accidents' = accidents
      \/ /\ accidents' = accidents \cup {"wild"}
         /\ accidents \cap {"closed", "openFailed"} # {}
  <2>1. Example!Touches
    BY DEF Example!FillAnnounces, Example!FillCompletes
  <2>2. KnownSync(fill.sync)
    BY <1>2 DEF Known
  <2>3. CASE fill.sync \in liveSyncs \cup {0}
    BY <2>1, <2>3 DEF Example!Touches
  <2>4. CASE fill.sync \notin liveSyncs \cup {0}
    BY <2>1, <2>2, <2>4 DEF Example!Touches, Example!Happens, KnownSync
  <2> QED
    BY <2>3, <2>4
<1>4. \/ fill.pc = "checked" /\ fill' = [fill EXCEPT !.pc = "fills"] /\ read' = read
      \/ /\ fill.pc = "fills" /\ fill' = Example!NoFill
         /\ read' = [read EXCEPT ![fill.of] = IF @ = "waits" THEN "runs" ELSE @]
  BY DEF Example!FillAnnounces, Example!FillCompletes
<1>5. DeviceTypes' /\ (\A i \in Example!Indices : read'[i] # "none" => read[i] # "none")
  <2>1. CASE fill.pc = "checked" /\ fill' = [fill EXCEPT !.pc = "fills"] /\ read' = read
    BY <1>1, <1>2, <2>1 DEF DeviceTypes
  <2>2. CASE /\ fill.pc = "fills" /\ fill' = Example!NoFill
             /\ read' = [read EXCEPT ![fill.of] = IF @ = "waits" THEN "runs" ELSE @]
    <3>1. /\ read' \in [Example!Indices -> {"none", "waits", "runs"}]
          /\ \A i \in Example!Indices : read'[i] # "none" => read[i] # "none"
      BY <1>2, <2>2 DEF DeviceTypes
    <3>2. /\ fill' \in [pc : {"idle", "checked", "fills"}, of : Nat, sync : Nat]
          /\ fill'.pc = "idle"
      BY <2>2 DEF Example!NoFill
    <3> QED
      BY <1>1, <1>2, <3>1, <3>2 DEF DeviceTypes
  <2> QED
    BY <1>4, <2>1, <2>2
<1>6. UsersSound' /\ ArrayKept'
  BY <1>1, <1>2, <1>3 DEF UsersSound, ArrayKept, Kept
<1>7. module = "loaded"
  <2>1. fill # Example!NoFill
    BY <1>4 DEF Example!NoFill
  <2> QED
    BY <1>2, <2>1 DEF DriverSound, DeviceTypes
<1>8. DriverSound'
  BY <1>1, <1>2, <1>3, <1>7 DEF DriverSound
<1>9. Known'
  <2>1. fill'.sync = fill.sync \/ fill'.sync = 0
    BY <1>2, <1>4 DEF DeviceTypes, Example!NoFill
  <2> QED
    BY <1>1, <1>2, <1>3, <2>1 DEF Known, KnownSync
<1>10. ReadsKnown'
  <2>1. fill'.pc # "checked"
    BY <1>2, <1>4 DEF DeviceTypes, Example!NoFill
  <2> QED
    BY <1>1, <1>2, <1>5, <2>1 DEF ReadsKnown
<1>11. Example!CountsHonest'
  BY <1>1, <1>2, <1>3, CountsStay
<1>12. Example!MemoryHonest'
  BY <1>1, <1>2, <1>3 DEF Example!MemoryHonest, Example!Oops
<1>13. Example!FillsAlone'
  <2>1. CASE fill.pc = "checked" /\ fill' = [fill EXCEPT !.pc = "fills"] /\ read' = read
    <3>1. fill'.of = fill.of
      BY <1>2, <2>1 DEF DeviceTypes
    <3> QED
      BY <1>2, <1>3, <2>1, <3>1 DEF Example!FillsAlone, ReadsKnown
  <2>2. CASE fill' = Example!NoFill
    BY <2>2 DEF Example!FillsAlone, Example!NoFill
  <2> QED
    BY <1>4, <2>1, <2>2
<1> QED
  BY <1>5, <1>6, <1>8, <1>9, <1>10, <1>11, <1>12, <1>13 DEF DeviceInv, Example!BuffersHonest

(* A read of the device waits for the fill, or passes it, which is noted.   *)
LEMMA ReadKeeps ==
  ASSUME Example!NumBuffersOK, DeviceInv, NEW m \in maps, Example!DeviceReads(m)
  PROVE  DeviceInv'
<1> DEFINE b == m.buffer
<1>1. /\ module' = module /\ node' = node /\ psBCInfo' = psBCInfo /\ open' = open
      /\ maps' = maps /\ psSystemBuffer' = psSystemBuffer /\ ulNumBuffers' = ulNumBuffers
      /\ liveMemory' = liveMemory /\ liveSyncs' = liveSyncs /\ fill' = fill
      /\ leaked' = leaked /\ done' = done
  BY DEF Example!DeviceReads
<1>2. /\ DeviceTypes /\ UsersSound /\ DriverSound /\ Known /\ ArrayKept /\ ReadsKnown
      /\ Example!CountsHonest /\ Example!MemoryHonest /\ Example!FillsAlone
  BY DEF DeviceInv, Example!BuffersHonest
<1>3. b \in Example!Indices
  BY <1>2 DEF DeviceTypes
<1>4. read' = [read EXCEPT ![b] = IF fill.of = b /\ fill.pc = "fills" /\ fill.sync = psBCInfo.sync
                                  THEN "waits" ELSE "runs"]
  BY DEF Example!DeviceReads
<1>5. accidents' = accidents \/ accidents' = accidents \cup {"raced"}
  BY DEF Example!DeviceReads, Example!Happens
<1>6. /\ read' \in [Example!Indices -> {"none", "waits", "runs"}]
      /\ \A i \in Example!Indices \ {b} : read'[i] = read[i]
  BY <1>2, <1>3, <1>4 DEF DeviceTypes
<1>7. read'[b] = "runs" /\ fill.of = b /\ fill.pc # "idle" => "raced" \in accidents'
  <2> SUFFICES ASSUME read'[b] = "runs", fill.of = b, fill.pc # "idle"
               PROVE  Example!Passes(b)
    BY DEF Example!DeviceReads, Example!Happens
  <2>1. ~(fill.pc = "fills" /\ fill.sync = psBCInfo.sync)
    BY <1>2, <1>3, <1>4 DEF DeviceTypes
  <2>2. fill.pc = "checked" \/ fill.pc = "fills"
    BY <1>2 DEF DeviceTypes
  <2> QED
    BY <2>1, <2>2 DEF Example!Passes
<1>8. DeviceTypes'
  BY <1>1, <1>2, <1>6 DEF DeviceTypes
<1>9. UsersSound' /\ DriverSound' /\ Known' /\ ArrayKept'
  BY <1>1, <1>2, <1>5 DEF UsersSound, DriverSound, Known, KnownSync, ArrayKept, Kept
<1>10. ReadsKnown'
  <2>1. \A i \in Example!Indices : read'[i] # "none" => \E o \in maps' : o.buffer = i
    BY <1>1, <1>2, <1>6 DEF ReadsKnown
  <2>2. ASSUME fill'.pc = "checked", read'[fill'.of] = "runs"
        PROVE  accidents' \cap {"raced", "reconfigured"} # {}
    <3>1. CASE fill.of = b
      BY <1>1, <1>7, <2>2, <3>1
    <3>2. CASE fill.of # b
      <4>1. fill.of \in Example!Indices \ {b}
        BY <1>1, <1>2, <2>2, <3>2 DEF DeviceTypes
      <4> QED
        BY <1>1, <1>2, <1>5, <1>6, <2>2, <4>1 DEF ReadsKnown
    <3> QED
      BY <3>1, <3>2
  <2> QED
    BY <2>1, <2>2 DEF ReadsKnown
<1>11. Example!CountsHonest'
  BY <1>1, <1>2, <1>5, CountsStay
<1>12. Example!MemoryHonest'
  BY <1>1, <1>2, <1>5, MemoryStays
<1>13. Example!FillsAlone'
  <2> SUFFICES ASSUME fill'.pc = "fills", read'[fill'.of] = "runs"
               PROVE  accidents' \cap {"raced", "reconfigured"} # {}
    BY DEF Example!FillsAlone
  <2>1. CASE fill.of = b
    BY <1>1, <1>7, <2>1
  <2>2. CASE fill.of # b
    <3>1. fill.of \in Example!Indices \ {b}
      BY <1>1, <1>2, <2>2 DEF DeviceTypes
    <3> QED
      BY <1>1, <1>2, <1>5, <1>6, <3>1 DEF Example!FillsAlone
  <2> QED
    BY <2>1, <2>2
<1> QED
  BY <1>8, <1>9, <1>10, <1>11, <1>12, <1>13 DEF DeviceInv, Example!BuffersHonest

(* A read that is done reads no more.                                       *)
LEMMA ReadDoneKeeps ==
  ASSUME Example!NumBuffersOK, DeviceInv, NEW i \in Example!Indices, Example!ReadDone(i)
  PROVE  DeviceInv'
<1>1. /\ module' = module /\ node' = node /\ psBCInfo' = psBCInfo /\ open' = open
      /\ maps' = maps /\ psSystemBuffer' = psSystemBuffer /\ ulNumBuffers' = ulNumBuffers
      /\ liveMemory' = liveMemory /\ liveSyncs' = liveSyncs /\ fill' = fill
      /\ leaked' = leaked /\ accidents' = accidents /\ done' = done
      /\ read' = [read EXCEPT ![i] = "none"]
  BY DEF Example!ReadDone
<1>2. /\ DeviceTypes /\ UsersSound /\ DriverSound /\ Known /\ ArrayKept /\ ReadsKnown
      /\ Example!CountsHonest /\ Example!MemoryHonest /\ Example!FillsAlone
  BY DEF DeviceInv, Example!BuffersHonest
<1>3. /\ read' \in [Example!Indices -> {"none", "waits", "runs"}]
      /\ \A k \in Example!Indices : read'[k] = read[k] \/ read'[k] = "none"
  BY <1>1, <1>2 DEF DeviceTypes
<1>4. DeviceTypes'
  BY <1>1, <1>2, <1>3 DEF DeviceTypes
<1>5. UsersSound' /\ DriverSound' /\ Known' /\ ArrayKept'
  BY <1>1, <1>2 DEF UsersSound, DriverSound, Known, KnownSync, ArrayKept, Kept
<1>6. ReadsKnown'
  BY <1>1, <1>2, <1>3 DEF ReadsKnown, DeviceTypes
<1>7. Example!CountsHonest'
  BY <1>1, <1>2, CountsStay
<1>8. Example!MemoryHonest'
  BY <1>1, <1>2, MemoryStays
<1>9. Example!FillsAlone'
  BY <1>1, <1>2, <1>3 DEF Example!FillsAlone, DeviceTypes
<1> QED
  BY <1>4, <1>5, <1>6, <1>7, <1>8, <1>9 DEF DeviceInv, Example!BuffersHonest

(* At the start nothing is there, and nobody.                               *)
LEMMA DeviceInit ==
  ASSUME Example!NumBuffersOK, Example!Init  PROVE DeviceInv
<1> USE DEF Example!NumBuffersOK
<1>1. /\ module = "absent" /\ node = "none" /\ psBCInfo = Example!NoInfo
      /\ open = [p \in Processes |-> 0] /\ maps = {}
      /\ psSystemBuffer = [i \in Example!Indices |-> [addr |-> 0, psSyncData |-> 0]]
      /\ ulNumBuffers = 0 /\ liveMemory = {} /\ liveSyncs = {}
      /\ fill = Example!NoFill /\ read = [i \in Example!Indices |-> "none"]
      /\ leaked = 0 /\ accidents = {}
      /\ done = [loads |-> 0, configs |-> 0, fills |-> 0, syncs |-> 0]
  BY DEF Example!Init
<1>2. DeviceTypes
  BY <1>1 DEF DeviceTypes, Example!NoInfo, Example!NoFill
<1>3. Opened(open) = {}
  BY <1>1 DEF Opened
<1>4. IsFiniteSet(Opened(open)) /\ Cardinality(Opened(open)) = 0
  BY <1>3, FS_EmptySet
<1>5. UsersSound
  BY <1>1, <1>4 DEF UsersSound, Example!NoInfo
<1>6. DriverSound /\ Known /\ ArrayKept /\ ReadsKnown
  BY <1>1 DEF DriverSound, Known, KnownSync, ArrayKept, ReadsKnown, Example!NoInfo, Example!NoFill
<1>7. Example!CountsHonest
  BY <1>1, <1>4, OpensAre DEF Example!CountsHonest, Example!NoInfo
<1>8. Example!MemoryHonest
  BY <1>1 DEF Example!MemoryHonest, Example!Oops
<1>9. Example!FillsAlone
  BY <1>1 DEF Example!FillsAlone, Example!NoFill
<1> QED
  BY <1>2, <1>5, <1>6, <1>7, <1>8, <1>9 DEF DeviceInv, Example!BuffersHonest

(* Nothing happens to what does not change.                                 *)
LEMMA DeviceStutters ==
  ASSUME DeviceInv, UNCHANGED Example!bcVars  PROVE DeviceInv'
<1>1. /\ module' = module /\ node' = node /\ psBCInfo' = psBCInfo /\ open' = open
      /\ maps' = maps /\ psSystemBuffer' = psSystemBuffer /\ ulNumBuffers' = ulNumBuffers
      /\ liveMemory' = liveMemory /\ liveSyncs' = liveSyncs /\ fill' = fill /\ read' = read
      /\ leaked' = leaked /\ accidents' = accidents /\ done' = done
  BY DEF Example!bcVars
<1>2. /\ DeviceTypes /\ UsersSound /\ DriverSound /\ Known /\ ArrayKept /\ ReadsKnown
      /\ Example!CountsHonest /\ Example!MemoryHonest /\ Example!FillsAlone
  BY DEF DeviceInv, Example!BuffersHonest
<1>3. DeviceTypes' /\ UsersSound' /\ DriverSound' /\ Known' /\ ArrayKept' /\ ReadsKnown'
  BY <1>1, <1>2 DEF DeviceTypes, UsersSound, DriverSound, Known, KnownSync, ArrayKept, Kept,
                    ReadsKnown
<1>4. Example!CountsHonest'
  BY <1>1, <1>2, CountsStay
<1>5. Example!MemoryHonest'
  BY <1>1, <1>2, MemoryStays
<1>6. Example!FillsAlone'
  BY <1>1, <1>2 DEF Example!FillsAlone
<1> QED
  BY <1>3, <1>4, <1>5, <1>6 DEF DeviceInv, Example!BuffersHonest

(* However often the driver of the example device is loaded, unloaded and   *)
(* reconfigured (bufferclass_example*.c), whoever opens, maps and closes    *)
(* its buffers (deviceclass.c), with whatever first open failing: services  *)
(* count every context that is open or was lost, nobody maps memory that is *)
(* gone and nobody fills what is read, but for the accidents that the       *)
(* invariant names.                                                         *)
THEOREM DeviceStaysHonest ==
  ASSUME Example!NumBuffersOK  PROVE Example!Spec => []Example!BuffersHonest
<1>1. Example!Init => DeviceInv
  BY DeviceInit
<1>2. ASSUME DeviceInv, [Example!Next]_Example!bcVars  PROVE DeviceInv'
  <2>1. CASE Example!BC_Example_ModInit
    BY <1>2, <2>1, LoadKeeps
  <2>2. CASE Example!BC_Example_ModCleanup
    BY <1>2, <2>2, UnloadKeeps
  <2>3. ASSUME NEW n \in 0..NumBuffers, Example!ReconfigureBuffer(n)  PROVE DeviceInv'
    BY <1>2, <2>3, ReconfigureKeeps
  <2>4. ASSUME NEW p \in Processes, Example!PVRSRVOpenBCDeviceKM(p)  PROVE DeviceInv'
    BY <1>2, <2>4, OpenKeeps
  <2>5. ASSUME NEW p \in Processes,
               Example!PVRSRVCloseBCDeviceKM(p) \/ Example!ProcessDisconnect(p)
        PROVE  DeviceInv'
    BY <1>2, <2>5, CloseKeeps
  <2>6. ASSUME NEW p \in Processes, NEW i \in Example!Indices, Example!PVRSRVGetBCBufferKM(p, i)
        PROVE  DeviceInv'
    BY <1>2, <2>6, GetKeeps
  <2>7. ASSUME NEW p \in Processes, NEW m \in maps, Example!Unmap(p, m)  PROVE DeviceInv'
    BY <1>2, <2>7, UnmapKeeps
  <2>8. ASSUME NEW i \in Example!Indices, Example!FillBuffer(i)  PROVE DeviceInv'
    BY <1>2, <2>8, LookKeeps
  <2>9. ASSUME NEW i \in Example!Indices, Example!ReadDone(i)  PROVE DeviceInv'
    BY <1>2, <2>9, ReadDoneKeeps
  <2>10. CASE Example!FillAnnounces \/ Example!FillCompletes
    BY <1>2, <2>10, FillKeeps
  <2>11. ASSUME NEW m \in maps, Example!DeviceReads(m)  PROVE DeviceInv'
    BY <1>2, <2>11, ReadKeeps
  <2>12. CASE Example!Stops \/ UNCHANGED Example!bcVars
    BY <1>2, <2>12, DeviceStutters DEF Example!Stops
  <2> QED
    BY <1>2, <2>1, <2>2, <2>3, <2>4, <2>5, <2>6, <2>7, <2>8, <2>9, <2>10, <2>11, <2>12
       DEF Example!Next
<1>3. DeviceInv => Example!BuffersHonest
  BY DEF DeviceInv
<1> QED
  BY <1>1, <1>2, <1>3, PTL DEF Example!Spec

-----------------------------------------------------------------------------
(* SwapChain: the counts, the driver's chain and the flips.                 *)

CONSTANTS MaxChains, MaxCommands, Mishaps
VARIABLES chains, shared, refs, display, queues, slot, mishaps

Swap == INSTANCE SwapChain

ChainTypes ==
    /\ DOMAIN chains \subseteq 1..display.lastID /\ DOMAIN queues \subseteq 1..display.lastID
    /\ chains \in [DOMAIN chains -> [refCount : Nat, shared : BOOLEAN]]
    /\ queues \in [DOMAIN queues -> Nat]
    /\ shared \in Seq(1..MaxChains)
    /\ refs \in [Processes -> [1..MaxChains -> Nat]]
    /\ display \in [opens : [Processes -> Nat], chain : 0..MaxChains, lastID : 0..MaxChains]
    /\ slot \in [chain : 0..MaxChains, handler : BOOLEAN]

(* The references to a chain, by who holds them.                            *)
Held(r, c) == [p \in Processes |-> r[p][c]]

(* Who refers to a chain can still use its queue; while the display was not *)
(* closed under a chain, it is open.                                        *)
ChainsUsed ==
    /\ \A c \in 1..MaxChains : IsFiniteSet(Opened(Held(refs, c)))
    /\ \A p \in Processes, c \in 1..MaxChains : refs[p][c] > 0 => c \in DOMAIN queues
    /\ "closed" \notin mishaps /\ DOMAIN chains # {} => Swap!IsOpen(display)

ChainInv == ChainTypes /\ ChainsUsed /\ Swap!ChainsSound

(* What is counted is what processes hold.                                  *)
LEMMA TotalIs ==
  /\ \A c : Swap!TotalRefs(c) = Cardinality(Opened(Held(refs, c)))
  /\ \A c : Swap!TotalRefs(c)' = Cardinality(Opened(Held(refs', c)))
<1>1. \A S : Swap!Cardinality(S) = Cardinality(S)
  BY Zenon DEF Swap!Cardinality, Cardinality
<1>2. ASSUME NEW r, NEW c
      PROVE  UNION {{p} \X (1 .. r[p][c]) : p \in Processes} = Opened(Held(r, c))
  BY DEF Opened, Held
<1>3. ASSUME NEW c  PROVE Swap!TotalRefs(c) = Cardinality(Opened(Held(refs, c)))
  <2>1. Swap!References(c) = Opened(Held(refs, c))
    BY <1>2, Zenon DEF Swap!References
  <2> QED
    BY <1>1, <2>1, Zenon DEF Swap!TotalRefs
<1>4. ASSUME NEW c  PROVE Swap!TotalRefs(c)' = Cardinality(Opened(Held(refs', c)))
  <2>1. Swap!References(c)' = Opened(Held(refs', c))
    BY <1>2, Zenon DEF Swap!References
  <2> QED
    BY <1>1, <2>1, Zenon DEF Swap!TotalRefs
<1> QED
  BY <1>3, <1>4, Zenon

(* One function counts n more than the other, for one process.              *)
CountsMore(f, g, p, n) ==
    /\ f \in [Processes -> Nat] /\ g \in [Processes -> Nat] /\ p \in Processes /\ n \in Nat
    /\ g[p] = f[p] + n
    /\ \A q \in Processes \ {p} : g[q] = f[q]
    /\ IsFiniteSet(Opened(f)) \/ IsFiniteSet(Opened(g))

(* OpenedGrows, for what one process holds more.                            *)
LEMMA HeldGrows ==
  ASSUME NEW f, NEW g, NEW p, NEW n, CountsMore(f, g, p, n)
  PROVE  /\ IsFiniteSet(Opened(f)) /\ IsFiniteSet(Opened(g))
         /\ Cardinality(Opened(g)) = Cardinality(Opened(f)) + n
<1>1. /\ f \in [Processes -> Nat] /\ g \in [Processes -> Nat] /\ p \in Processes /\ n \in Nat
      /\ g[p] = f[p] + n
      /\ \A q \in Processes \ {p} : g[q] = f[q]
      /\ IsFiniteSet(Opened(f)) \/ IsFiniteSet(Opened(g))
  BY DEF CountsMore
<1> QED
  BY <1>1, OpenedGrows

(* One reference more to one chain.                                         *)
LEMMA ReferenceTaken ==
  ASSUME Swap!MaxChainsOK, ChainTypes, ChainsUsed, NEW p \in Processes, NEW c \in 1..MaxChains, NEW n \in Nat,
         refs' = [refs EXCEPT ![p][c] = refs[p][c] + n]
  PROVE  /\ \A d \in 1..MaxChains : IsFiniteSet(Opened(Held(refs', d)))
         /\ Swap!TotalRefs(c) \in Nat /\ Swap!TotalRefs(c)' = Swap!TotalRefs(c) + n
         /\ \A d \in 1..MaxChains \ {c} : Swap!TotalRefs(d)' = Swap!TotalRefs(d)
<1> USE DEF Swap!MaxChainsOK
<1>1. /\ refs \in [Processes -> [1..MaxChains -> Nat]]
      /\ \A d \in 1..MaxChains : IsFiniteSet(Opened(Held(refs, d)))
  BY DEF ChainTypes, ChainsUsed
<1>2. PICK after \in [Processes -> [1..MaxChains -> Nat]] : after = refs'
  <2>1. refs[p] \in [1..MaxChains -> Nat] /\ refs[p][c] \in Nat /\ refs[p][c] + n \in Nat
    BY <1>1
  <2>2. refs' = [refs EXCEPT ![p] = [refs[p] EXCEPT ![c] = refs[p][c] + n]]
    OBVIOUS
  <2>3. [refs[p] EXCEPT ![c] = refs[p][c] + n] \in [1..MaxChains -> Nat]
    BY <2>1
  <2> QED
    BY <1>1, <2>2, <2>3
<1>3. /\ after[p][c] = refs[p][c] + n
      /\ \A q \in Processes \ {p} : after[q][c] = refs[q][c]
      /\ \A q \in Processes, d \in 1..MaxChains \ {c} : after[q][d] = refs[q][d]
  BY <1>1, <1>2
<1>4. IsFiniteSet(Opened(Held(after, c)))
        /\ Cardinality(Opened(Held(after, c))) = Cardinality(Opened(Held(refs, c))) + n
  <2>1. /\ Held(refs, c) \in [Processes -> Nat] /\ Held(after, c) \in [Processes -> Nat]
        /\ Held(after, c)[p] = Held(refs, c)[p] + n
        /\ \A q \in Processes \ {p} : Held(after, c)[q] = Held(refs, c)[q]
    BY <1>1, <1>3 DEF Held
  <2>2. CountsMore(Held(refs, c), Held(after, c), p, n)
    BY <1>1, <2>1 DEF CountsMore
  <2> QED
    BY <2>2, HeldGrows, Zenon
<1>5. \A d \in 1..MaxChains \ {c} : Held(after, d) = Held(refs, d)
  BY <1>1, <1>3 DEF Held
<1>6. Cardinality(Opened(Held(refs, c))) \in Nat
  BY <1>1, FS_CardinalityType
<1>7. \A d \in 1..MaxChains : IsFiniteSet(Opened(Held(after, d)))
  BY <1>1, <1>4, <1>5
<1>8. \A d : Swap!TotalRefs(d)' = Cardinality(Opened(Held(after, d)))
  BY <1>2, TotalIs
<1>9. Swap!TotalRefs(c)' = Swap!TotalRefs(c) + n /\ Swap!TotalRefs(c) \in Nat
  BY <1>4, <1>6, <1>8, TotalIs
<1>10. \A d \in 1..MaxChains \ {c} : Swap!TotalRefs(d)' = Swap!TotalRefs(d)
  BY <1>5, <1>8, TotalIs
<1> QED
  BY <1>2, <1>7, <1>9, <1>10

(* One less.                                                                *)
LEMMA ReferenceGiven ==
  ASSUME Swap!MaxChainsOK, ChainTypes, ChainsUsed, NEW p \in Processes, NEW c \in 1..MaxChains, refs[p][c] > 0,
         refs' = [refs EXCEPT ![p][c] = refs[p][c] - 1]
  PROVE  /\ \A d \in 1..MaxChains : IsFiniteSet(Opened(Held(refs', d)))
         /\ Swap!TotalRefs(c)' \in Nat /\ Swap!TotalRefs(c) = Swap!TotalRefs(c)' + 1
         /\ \A d \in 1..MaxChains \ {c} : Swap!TotalRefs(d)' = Swap!TotalRefs(d)
<1> USE DEF Swap!MaxChainsOK
<1>1. /\ refs \in [Processes -> [1..MaxChains -> Nat]]
      /\ \A d \in 1..MaxChains : IsFiniteSet(Opened(Held(refs, d)))
  BY DEF ChainTypes, ChainsUsed
<1>2. PICK after \in [Processes -> [1..MaxChains -> Nat]] : after = refs'
  <2>1. refs[p] \in [1..MaxChains -> Nat] /\ refs[p][c] \in Nat /\ refs[p][c] - 1 \in Nat
    BY <1>1
  <2>2. refs' = [refs EXCEPT ![p] = [refs[p] EXCEPT ![c] = refs[p][c] - 1]]
    OBVIOUS
  <2>3. [refs[p] EXCEPT ![c] = refs[p][c] - 1] \in [1..MaxChains -> Nat]
    BY <2>1
  <2> QED
    BY <1>1, <2>2, <2>3
<1>3. /\ refs[p][c] = after[p][c] + 1
      /\ \A q \in Processes \ {p} : after[q][c] = refs[q][c]
      /\ \A q \in Processes, d \in 1..MaxChains \ {c} : after[q][d] = refs[q][d]
  BY <1>1, <1>2
<1>4. IsFiniteSet(Opened(Held(after, c)))
        /\ Cardinality(Opened(Held(refs, c))) = Cardinality(Opened(Held(after, c))) + 1
  <2>1. /\ Held(refs, c) \in [Processes -> Nat] /\ Held(after, c) \in [Processes -> Nat]
        /\ Held(refs, c)[p] = Held(after, c)[p] + 1
        /\ \A q \in Processes \ {p} : Held(refs, c)[q] = Held(after, c)[q]
    BY <1>1, <1>3 DEF Held
  <2>2. CountsMore(Held(after, c), Held(refs, c), p, 1)
    BY <1>1, <2>1 DEF CountsMore
  <2> QED
    BY <2>2, HeldGrows, Zenon
<1>5. \A d \in 1..MaxChains \ {c} : Held(after, d) = Held(refs, d)
  BY <1>1, <1>3 DEF Held
<1>6. Cardinality(Opened(Held(after, c))) \in Nat
  BY <1>4, FS_CardinalityType
<1>7. \A d \in 1..MaxChains : IsFiniteSet(Opened(Held(after, d)))
  BY <1>1, <1>4, <1>5
<1>8. \A d : Swap!TotalRefs(d)' = Cardinality(Opened(Held(after, d)))
  BY <1>2, TotalIs
<1>9. Swap!TotalRefs(c) = Swap!TotalRefs(c)' + 1 /\ Swap!TotalRefs(c)' \in Nat
  BY <1>4, <1>6, <1>8, TotalIs
<1>10. \A d \in 1..MaxChains \ {c} : Swap!TotalRefs(d)' = Swap!TotalRefs(d)
  BY <1>5, <1>8, TotalIs
<1> QED
  BY <1>2, <1>7, <1>9, <1>10

(* Of what one process holds, and what is left without it.                  *)
LEMMA TotalSplits ==
  ASSUME Swap!MaxChainsOK, ChainTypes, ChainsUsed, NEW p \in Processes, NEW c \in 1..MaxChains
  PROVE  /\ Swap!TotalRefs(c) \in Nat /\ Swap!TotalRefs(c) >= refs[p][c]
         /\ Swap!TotalRefs(c) = refs[p][c] =>
                \A q \in Processes \ {p} : refs[q][c] = 0
<1> USE DEF Swap!MaxChainsOK
<1> DEFINE f    == Held(refs, c)
           rest == [f EXCEPT ![p] = 0]
<1>1. refs \in [Processes -> [1..MaxChains -> Nat]] /\ IsFiniteSet(Opened(f))
  BY DEF ChainTypes, ChainsUsed
<1>2. /\ f \in [Processes -> Nat] /\ rest \in [Processes -> Nat]
      /\ f[p] = refs[p][c] /\ f[p] \in Nat /\ rest[p] = 0
      /\ f[p] = rest[p] + f[p]
      /\ \A q \in Processes \ {p} : f[q] = rest[q] /\ f[q] = refs[q][c]
  <2>1. f \in [Processes -> Nat] /\ \A q \in Processes : f[q] = refs[q][c]
    BY <1>1 DEF Held
  <2> HIDE DEF f
  <2>2. rest \in [Processes -> Nat] /\ rest[p] = 0 /\ \A q \in Processes \ {p} : f[q] = rest[q]
    BY <2>1
  <2> QED
    BY <2>1, <2>2
<1> HIDE DEF f, rest
<1>3. IsFiniteSet(Opened(rest)) /\ Cardinality(Opened(f)) = Cardinality(Opened(rest)) + f[p]
  <2>1. CountsMore(rest, f, p, f[p])
    BY <1>1, <1>2 DEF CountsMore
  <2> QED
    BY <2>1, HeldGrows, Zenon
<1>4. Cardinality(Opened(rest)) \in Nat
  BY <1>3, FS_CardinalityType
<1>5. Swap!TotalRefs(c) = Cardinality(Opened(f))
  BY TotalIs DEF f
<1>6. Swap!TotalRefs(c) \in Nat /\ Swap!TotalRefs(c) >= refs[p][c]
  BY <1>2, <1>3, <1>4, <1>5
<1>7. ASSUME Swap!TotalRefs(c) = refs[p][c], NEW q \in Processes \ {p}  PROVE refs[q][c] = 0
  <2>1. Cardinality(Opened(rest)) = 0
    BY <1>2, <1>3, <1>4, <1>5, <1>7
  <2>2. Opened(rest) = {}
    BY <1>3, <2>1, FS_EmptySet
  <2>3. rest[q] \in Nat /\ ~(rest[q] > 0)
    <3> SUFFICES ASSUME rest[q] > 0  PROVE FALSE
      BY <1>2
    <3>1. 1 \in 1..rest[q]
      BY <1>2
    <3>2. <<q, 1>> \in Opened(rest)
      BY <3>1 DEF Opened
    <3> QED
      BY <2>2, <3>2
  <2> QED
    BY <1>2, <2>3
<1> QED
  BY <1>6, <1>7

(* The operators on sequences are the same in the instance.                 *)
LEMMA SwapSequences ==
  ASSUME NEW s
  PROVE  /\ Swap!ToSet(s) = ToSet(s)
         /\ Swap!IsInjective(s) <=> IsInjective(s)
         /\ \A i : Swap!RemoveAt(s, i) = RemoveAt(s, i)
BY DEF ToSet, Swap!ToSet, IsInjective, Swap!IsInjective, RemoveAt, Swap!RemoveAt

(* The counts, as long as nobody refers differently.                        *)
LEMMA RefsStay ==
  ASSUME Swap!RefsExact, chains' = chains, shared' = shared, refs' = refs
  PROVE  Swap!RefsExact' /\ \A c : Swap!TotalRefs(c)' = Swap!TotalRefs(c)
<1>1. \A c : Swap!TotalRefs(c)' = Swap!TotalRefs(c)
  BY TotalIs
<1>2. Swap!ToSet(shared)' = Swap!ToSet(shared) /\ (Swap!IsInjective(shared)' <=> Swap!IsInjective(shared))
  BY DEF Swap!ToSet, Swap!IsInjective
<1> QED
  BY <1>1, <1>2 DEF Swap!RefsExact

(* The parts of the invariant.                                              *)
LEMMA ChainParts ==
  ChainInv <=> /\ ChainTypes /\ ChainsUsed
               /\ Swap!RefsExact /\ Swap!DriverChainOwned /\ Swap!FlipsBacked
BY DEF ChainInv, Swap!ChainsSound

(* Who refers to a chain refers to one that is there.                       *)
LEMMA ReferredIsThere ==
  ASSUME Swap!MaxChainsOK, ChainInv, NEW p \in Processes, NEW c \in 1..MaxChains, refs[p][c] > 0
  PROVE  c \in DOMAIN chains /\ c \in DOMAIN queues /\ chains[c].refCount = Swap!TotalRefs(c)
<1>1. ChainTypes /\ ChainsUsed /\ Swap!RefsExact
  BY ChainParts
<1>2. refs[p][c] \in Nat /\ Swap!TotalRefs(c) \in Nat /\ Swap!TotalRefs(c) >= refs[p][c]
  BY <1>1, TotalSplits DEF ChainTypes, Swap!MaxChainsOK
<1>3. c \in DOMAIN chains /\ chains[c].refCount = Swap!TotalRefs(c)
  BY <1>1, <1>2 DEF Swap!RefsExact
<1> QED
  BY <1>1, <1>3 DEF ChainsUsed

(* The display is opened, or closed, which is noted when chains are left.   *)
LEMMA DisplayKeeps ==
  ASSUME Swap!MaxChainsOK, ChainInv, NEW p \in Processes,
         Swap!OpenDCDeviceKM(p) \/ Swap!CloseDCDeviceKM(p)
  PROVE  ChainInv'
<1> USE DEF Swap!MaxChainsOK
<1>1. /\ ChainTypes /\ ChainsUsed
      /\ Swap!RefsExact /\ Swap!DriverChainOwned /\ Swap!FlipsBacked
  BY ChainParts
<1>2. /\ chains' = chains /\ shared' = shared /\ refs' = refs /\ queues' = queues /\ slot' = slot
      /\ mishaps \subseteq mishaps'
  BY DEF Swap!OpenDCDeviceKM, Swap!CloseDCDeviceKM
<1>3. Swap!RefsExact' /\ \A c : Swap!TotalRefs(c)' = Swap!TotalRefs(c)
  BY <1>1, <1>2, RefsStay
<1>4. /\ display' \in [opens : [Processes -> Nat], chain : 0..MaxChains, lastID : 0..MaxChains]
      /\ display'.chain = display.chain /\ display'.lastID = display.lastID
      /\ Swap!IsOpen(display)' \/ DOMAIN chains = {} \/ "closed" \in mishaps'
  <2>1. display.opens \in [Processes -> Nat]
    BY <1>1 DEF ChainTypes
  <2>2. CASE Swap!OpenDCDeviceKM(p)
    <3>1. display' = [display EXCEPT !.opens = [display.opens EXCEPT ![p] = 1]]
      BY <2>2 DEF Swap!OpenDCDeviceKM
    <3>2. [display.opens EXCEPT ![p] = 1] \in [Processes -> Nat]
      BY <2>1
    <3>3. display'.opens = [display.opens EXCEPT ![p] = 1]
      BY <1>1, <3>1 DEF ChainTypes
    <3>4. display'.opens[p] > 0
      BY <2>1, <3>3
    <3> QED
      BY <1>1, <3>1, <3>2, <3>4 DEF ChainTypes, Swap!IsOpen
  <2>3. CASE Swap!CloseDCDeviceKM(p)
    <3>1. display' = [display EXCEPT !.opens[p] = @ - 1] /\ display.opens[p] > 0
      BY <2>3 DEF Swap!CloseDCDeviceKM
    <3>2. display' = [display EXCEPT !.opens = [display.opens EXCEPT ![p] = display.opens[p] - 1]]
      BY <3>1
    <3>3. [display.opens EXCEPT ![p] = display.opens[p] - 1] \in [Processes -> Nat]
      BY <2>1, <3>1
    <3>4. Swap!IsOpen(display)' \/ DOMAIN chains = {} \/ "closed" \in mishaps'
      BY <2>3 DEF Swap!CloseDCDeviceKM, Swap!IsOpen
    <3> QED
      BY <1>1, <3>2, <3>3, <3>4 DEF ChainTypes
  <2> QED
    BY <2>2, <2>3
<1>5. ChainTypes'
  BY <1>1, <1>2, <1>4 DEF ChainTypes
<1>6. ChainsUsed'
  BY <1>1, <1>2, <1>4 DEF ChainsUsed
<1>7. Swap!DriverChainOwned'
  BY <1>1, <1>2, <1>3, <1>4 DEF Swap!DriverChainOwned
<1>8. Swap!FlipsBacked'
  BY <1>1, <1>2 DEF Swap!FlipsBacked
<1> QED
  BY <1>3, <1>5, <1>6, <1>7, <1>8 DEF ChainInv, Swap!ChainsSound

(* A query adds a reference to a chain that has one.                        *)
LEMMA QueryKeeps ==
  ASSUME Swap!MaxChainsOK, ChainInv, NEW p \in Processes, NEW c \in DOMAIN chains,
         Swap!QueryDCSwapChainKM(p, c)
  PROVE  ChainInv'
<1> USE DEF Swap!MaxChainsOK
<1>1. /\ ChainTypes /\ ChainsUsed
      /\ Swap!RefsExact /\ Swap!DriverChainOwned /\ Swap!FlipsBacked
  BY ChainParts
<1>2. /\ refs' = [refs EXCEPT ![p][c] = refs[p][c] + 1]
      /\ chains' = [chains EXCEPT ![c].refCount = @ + 1]
      /\ shared' = shared /\ display' = display /\ queues' = queues /\ slot' = slot
      /\ mishaps' = mishaps /\ c \in Swap!ToSet(shared)
  BY DEF Swap!QueryDCSwapChainKM, Swap!FindSharedDCSwapChainKM
<1>3. c \in 1..MaxChains /\ DOMAIN chains \subseteq 1..MaxChains
  <2>1. display.lastID \in 0..MaxChains /\ DOMAIN chains \subseteq 1..display.lastID
    BY <1>1 DEF ChainTypes
  <2>2. 1..display.lastID \subseteq 1..MaxChains
    BY <2>1
  <2> QED
    BY <2>1, <2>2
<1>4. /\ \A d \in 1..MaxChains : IsFiniteSet(Opened(Held(refs', d)))
      /\ Swap!TotalRefs(c) \in Nat /\ Swap!TotalRefs(c)' = Swap!TotalRefs(c) + 1
      /\ \A d \in 1..MaxChains \ {c} : Swap!TotalRefs(d)' = Swap!TotalRefs(d)
  BY <1>1, <1>2, <1>3, ReferenceTaken
<1>5. Swap!TotalRefs(c) > 0 /\ chains[c].refCount = Swap!TotalRefs(c) /\ chains[c].shared
  BY <1>1, <1>2, <1>3 DEF Swap!RefsExact
<1>6. /\ DOMAIN chains' = DOMAIN chains
      /\ chains' \in [DOMAIN chains -> [refCount : Nat, shared : BOOLEAN]]
      /\ chains'[c].refCount = chains[c].refCount + 1 /\ chains'[c].shared = chains[c].shared
      /\ \A d \in DOMAIN chains \ {c} : chains'[d] = chains[d]
  <2>1. /\ chains[c] \in [refCount : Nat, shared : BOOLEAN]
        /\ chains' = [chains EXCEPT ![c] = [chains[c] EXCEPT !.refCount = chains[c].refCount + 1]]
    BY <1>1, <1>2 DEF ChainTypes
  <2>2. PICK v \in [refCount : Nat, shared : BOOLEAN] :
            /\ v = [chains[c] EXCEPT !.refCount = chains[c].refCount + 1]
            /\ v.refCount = chains[c].refCount + 1 /\ v.shared = chains[c].shared
    BY <2>1
  <2>3. chains' = [chains EXCEPT ![c] = v]
    BY <2>1, <2>2
  <2> QED
    BY <1>1, <2>2, <2>3 DEF ChainTypes
<1>7. /\ refs' \in [Processes -> [1..MaxChains -> Nat]]
      /\ \A q \in Processes, d \in 1..MaxChains : refs'[q][d] > 0 => refs[q][d] > 0 \/ d = c
  <2>1. refs[p] \in [1..MaxChains -> Nat] /\ refs[p][c] + 1 \in Nat
    BY <1>1, <1>3 DEF ChainTypes
  <2>2. refs' = [refs EXCEPT ![p] = [refs[p] EXCEPT ![c] = refs[p][c] + 1]]
    BY <1>2
  <2>3. [refs[p] EXCEPT ![c] = refs[p][c] + 1] \in [1..MaxChains -> Nat]
    BY <2>1
  <2>4. refs' \in [Processes -> [1..MaxChains -> Nat]]
    BY <1>1, <2>2, <2>3 DEF ChainTypes
  <2> QED
    BY <1>1, <2>1, <2>2, <2>4 DEF ChainTypes
<1>8. ChainTypes'
  BY <1>1, <1>2, <1>6, <1>7 DEF ChainTypes
<1>9. ChainsUsed'
  <2>1. PICK q \in Processes : refs[q][c] > 0
    <3> SUFFICES ASSUME \A q \in Processes : ~(refs[q][c] > 0)  PROVE FALSE
      OBVIOUS
    <3>1. \A q \in Processes : refs[q][c] = 0
      BY <1>1, <1>3 DEF ChainTypes
    <3>2. Opened(Held(refs, c)) = {}
      BY <3>1 DEF Opened, Held
    <3>3. Cardinality(Opened(Held(refs, c))) = 0
      BY <3>2, FS_EmptySet
    <3> QED
      BY <1>5, <3>3, TotalIs
  <2>2. c \in DOMAIN queues
    BY <1>1, <1>3, <2>1 DEF ChainsUsed
  <2> QED
    BY <1>1, <1>2, <1>4, <1>6, <1>7, <2>2 DEF ChainsUsed
<1>10. Swap!RefsExact'
  <2>1. \A d \in 1..MaxChains : IF d \in DOMAIN chains' THEN chains'[d].refCount = Swap!TotalRefs(d)'
                                ELSE Swap!TotalRefs(d)' = 0
    BY <1>1, <1>3, <1>4, <1>5, <1>6 DEF Swap!RefsExact
  <2>2. Swap!ToSet(shared)' = Swap!ToSet(shared)
        /\ (Swap!IsInjective(shared)' <=> Swap!IsInjective(shared))
    BY <1>2 DEF Swap!ToSet, Swap!IsInjective
  <2>3. ASSUME NEW d \in DOMAIN chains
        PROVE  chains'[d].shared /\ Swap!TotalRefs(d)' > 0
                   <=> chains[d].shared /\ Swap!TotalRefs(d) > 0
    <3>1. CASE d = c
      <4>1. Swap!TotalRefs(c)' > 0 /\ Swap!TotalRefs(c) > 0
        BY <1>4, <1>5
      <4>2. Swap!TotalRefs(d)' > 0 /\ Swap!TotalRefs(d) > 0
        BY <3>1, <4>1
      <4>3. chains[d].shared /\ chains'[d].shared
        BY <1>5, <1>6, <3>1
      <4> QED
        BY <4>2, <4>3
    <3>2. CASE d # c
      BY <1>3, <1>4, <1>6, <3>2
    <3> QED
      BY <3>1, <3>2
  <2> QED
    BY <1>1, <1>6, <2>1, <2>2, <2>3 DEF Swap!RefsExact
<1>11. Swap!DriverChainOwned'
  <2>1. ASSUME NEW d \in DOMAIN chains, Swap!TotalRefs(d) > 0  PROVE Swap!TotalRefs(d)' > 0
    <3>1. CASE d = c
      BY <1>4, <3>1
    <3>2. CASE d # c
      BY <1>3, <1>4, <2>1, <3>2
    <3> QED
      BY <3>1, <3>2
  <2> QED
    BY <1>1, <1>2, <1>6, <2>1 DEF Swap!DriverChainOwned
<1>12. Swap!FlipsBacked'
  BY <1>1, <1>2, <1>6 DEF Swap!FlipsBacked
<1> QED
  BY <1>8, <1>9, <1>10, <1>11, <1>12 DEF ChainInv, Swap!ChainsSound

(* A new chain has an ID of its own, and one reference.                     *)
LEMMA MakeKeeps ==
  ASSUME Swap!MaxChainsOK, ChainInv, NEW p \in Processes, NEW isShared \in BOOLEAN,
         Swap!CreateDCSwapChainKM(p, isShared)
  PROVE  ChainInv'
<1> USE DEF Swap!MaxChainsOK
<1>1. /\ ChainTypes /\ ChainsUsed
      /\ Swap!RefsExact /\ Swap!DriverChainOwned /\ Swap!FlipsBacked
  BY ChainParts
<1>2. PICK c \in 1..MaxChains : c = display.lastID + 1
  BY <1>1 DEF ChainTypes, Swap!CreateDCSwapChainKM, Swap!DriverCreates
<1>3. /\ display.opens[p] > 0 /\ display.chain = 0
      /\ chains' = Swap!With(chains, c, [refCount |-> 1, shared |-> isShared])
      /\ queues' = Swap!With(queues, c, 0)
      /\ refs' = [refs EXCEPT ![p][c] = 1]
      /\ shared' = IF isShared THEN <<c>> \o shared ELSE shared
      /\ display' = [display EXCEPT !.chain = c, !.lastID = c]
      /\ slot' = slot /\ mishaps' = mishaps
  BY <1>2 DEF Swap!CreateDCSwapChainKM, Swap!DriverCreates
<1>4. c \notin DOMAIN chains /\ c \notin DOMAIN queues
  BY <1>1, <1>2 DEF ChainTypes
<1>5. Swap!TotalRefs(c) = 0 /\ refs[p][c] = 0
  <2>1. Swap!TotalRefs(c) = 0
    BY <1>1, <1>4 DEF Swap!RefsExact
  <2>2. refs[p][c] \in Nat /\ Swap!TotalRefs(c) >= refs[p][c]
    BY <1>1, TotalSplits DEF ChainTypes
  <2> QED
    BY <2>1, <2>2
<1>6. refs' = [refs EXCEPT ![p][c] = refs[p][c] + 1]
  BY <1>3, <1>5
<1>7. /\ \A d \in 1..MaxChains : IsFiniteSet(Opened(Held(refs', d)))
      /\ Swap!TotalRefs(c)' = 1
      /\ \A d \in 1..MaxChains \ {c} : Swap!TotalRefs(d)' = Swap!TotalRefs(d)
  <2>1. /\ \A d \in 1..MaxChains : IsFiniteSet(Opened(Held(refs', d)))
        /\ Swap!TotalRefs(c)' = Swap!TotalRefs(c) + 1
        /\ \A d \in 1..MaxChains \ {c} : Swap!TotalRefs(d)' = Swap!TotalRefs(d)
    BY <1>1, <1>6, ReferenceTaken
  <2> QED
    BY <1>5, <2>1
<1>8. /\ DOMAIN chains' = DOMAIN chains \cup {c}
      /\ chains' \in [DOMAIN chains' -> [refCount : Nat, shared : BOOLEAN]]
      /\ chains'[c].refCount = 1 /\ chains'[c].shared = isShared
      /\ \A d \in DOMAIN chains : chains'[d] = chains[d]
  BY <1>1, <1>3, <1>4 DEF ChainTypes, Swap!With
<1>9. /\ DOMAIN queues' = DOMAIN queues \cup {c} /\ queues' \in [DOMAIN queues' -> Nat]
      /\ queues'[c] = 0 /\ \A d \in DOMAIN queues : queues'[d] = queues[d]
  BY <1>1, <1>3, <1>4 DEF ChainTypes, Swap!With
<1>10. /\ refs' \in [Processes -> [1..MaxChains -> Nat]]
       /\ \A q \in Processes, d \in 1..MaxChains : refs'[q][d] > 0 => refs[q][d] > 0 \/ d = c
  <2>1. refs[p] \in [1..MaxChains -> Nat]
    BY <1>1 DEF ChainTypes
  <2>2. refs' = [refs EXCEPT ![p] = [refs[p] EXCEPT ![c] = 1]]
    BY <1>3
  <2>3. [refs[p] EXCEPT ![c] = 1] \in [1..MaxChains -> Nat]
    BY <2>1
  <2>4. refs' \in [Processes -> [1..MaxChains -> Nat]]
    BY <1>1, <2>2, <2>3 DEF ChainTypes
  <2> QED
    BY <1>1, <2>1, <2>2, <2>4 DEF ChainTypes
<1>11. /\ display' \in [opens : [Processes -> Nat], chain : 0..MaxChains, lastID : 0..MaxChains]
       /\ display'.chain = c /\ display'.lastID = c /\ display'.opens = display.opens
  <2>1. c \in 0..MaxChains
    BY <1>2
  <2> QED
    BY <1>1, <1>3, <2>1 DEF ChainTypes
<1>12. /\ shared' \in Seq(1..MaxChains) /\ IsInjective(shared')
       /\ ToSet(shared') = ToSet(shared) \cup IF isShared THEN {c} ELSE {}
  <2>1. shared \in Seq(1..MaxChains) /\ IsInjective(shared) /\ c \notin ToSet(shared)
    BY <1>1, <1>4, SwapSequences DEF ChainTypes, Swap!RefsExact
  <2>2. CASE isShared
    <3>1. shared' = <<c>> \o shared
      BY <1>3, <2>2
    <3>2. shared' \in Seq(1..MaxChains) /\ Len(shared') = Len(shared) + 1
          /\ \A i \in 1..Len(shared) + 1 : shared'[i] = IF i = 1 THEN c ELSE shared[i - 1]
      BY <2>1, <3>1
    <3>3. IsInjective(shared')
      <4>1. \A i \in 1..Len(shared) : shared[i] # c
        BY <2>1 DEF ToSet
      <4>2. \A i, j \in 1..Len(shared) : shared[i] = shared[j] => i = j
        BY <2>1 DEF IsInjective
      <4>3. ASSUME NEW i \in 1..Len(shared'), NEW j \in 1..Len(shared'), shared'[i] = shared'[j]
            PROVE  i = j
        <5>1. CASE i = 1 /\ j # 1
          <6>1. j - 1 \in 1..Len(shared)
            BY <2>1, <3>2, <5>1
          <6>2. c = shared[j - 1]
            BY <3>2, <4>3, <5>1
          <6> QED
            BY <4>1, <6>1, <6>2
        <5>2. CASE i # 1 /\ j = 1
          <6>1. i - 1 \in 1..Len(shared)
            BY <2>1, <3>2, <5>2
          <6>2. c = shared[i - 1]
            BY <3>2, <4>3, <5>2
          <6> QED
            BY <4>1, <6>1, <6>2
        <5>3. CASE i # 1 /\ j # 1
          <6>1. i - 1 \in 1..Len(shared) /\ j - 1 \in 1..Len(shared)
            BY <2>1, <3>2, <5>3
          <6>2. shared[i - 1] = shared[j - 1]
            BY <3>2, <4>3, <5>3
          <6>3. i - 1 = j - 1
            BY <4>2, <6>1, <6>2
          <6> QED
            BY <6>3
        <5> QED
          BY <5>1, <5>2, <5>3
      <4> QED
        BY <3>2, <4>3 DEF IsInjective
    <3>4. ToSet(shared') = ToSet(shared) \cup {c}
      <4>1. ASSUME NEW x \in ToSet(shared')  PROVE x \in ToSet(shared) \cup {c}
        <5>1. DOMAIN shared' = 1..Len(shared) + 1 /\ DOMAIN shared = 1..Len(shared)
          BY <2>1, <3>2
        <5>2. PICK i \in 1..Len(shared) + 1 : x = shared'[i]
          BY <4>1, <5>1 DEF ToSet
        <5>3. CASE i = 1
          BY <3>2, <5>2, <5>3
        <5>4. CASE i # 1
          <6>1. i - 1 \in 1..Len(shared) /\ x = shared[i - 1]
            BY <2>1, <3>2, <5>2, <5>4
          <6> QED
            BY <5>1, <6>1 DEF ToSet
        <5> QED
          BY <5>3, <5>4
      <4>2. ASSUME NEW x \in ToSet(shared)  PROVE x \in ToSet(shared')
        <5>1. PICK i \in 1..Len(shared) : x = shared[i]
          BY <2>1, <4>2 DEF ToSet
        <5>2. PICK j \in 1..Len(shared') : shared'[j] = x
          <6>1. i + 1 \in 1..Len(shared') /\ shared'[i + 1] = x
            BY <2>1, <3>2, <5>1
          <6> QED
            BY <6>1
        <5>3. DOMAIN shared' = 1..Len(shared')
          BY <3>2
        <5>4. j \in DOMAIN shared'
          BY <5>3
        <5> QED
          BY <5>2, <5>4, Zenon DEF ToSet
      <4>3. 1 \in 1..Len(shared') /\ shared'[1] = c
        BY <2>1, <3>2
      <4>4. c \in ToSet(shared')
        BY <3>2, <4>3 DEF ToSet
      <4> QED
        BY <4>1, <4>2, <4>4
    <3> QED
      BY <2>2, <3>2, <3>3, <3>4
  <2>3. CASE ~isShared
    BY <1>3, <2>1, <2>3
  <2> QED
    BY <2>2, <2>3
<1>13. ChainTypes'
  <2>1. \A d \in 1..display.lastID : d \in 1..c
    BY <1>1, <1>2 DEF ChainTypes
  <2>2. DOMAIN chains' \subseteq 1..display'.lastID /\ DOMAIN queues' \subseteq 1..display'.lastID
    BY <1>1, <1>8, <1>9, <1>11, <2>1 DEF ChainTypes
  <2> QED
    BY <1>1, <1>3, <1>8, <1>9, <1>10, <1>11, <1>12, <2>2 DEF ChainTypes
<1>14. ChainsUsed'
  <2>1. Swap!IsOpen(display)'
    BY <1>3, <1>11 DEF Swap!IsOpen
  <2>2. \A q \in Processes, d \in 1..MaxChains : refs'[q][d] > 0 => d \in DOMAIN queues'
    BY <1>1, <1>9, <1>10 DEF ChainsUsed
  <2> QED
    BY <1>7, <2>1, <2>2 DEF ChainsUsed
<1>15. Swap!RefsExact'
  <2>1. \A d \in 1..MaxChains : IF d \in DOMAIN chains' THEN chains'[d].refCount = Swap!TotalRefs(d)'
                                ELSE Swap!TotalRefs(d)' = 0
    BY <1>1, <1>4, <1>7, <1>8 DEF Swap!RefsExact
  <2>2. ToSet(shared) = {d \in DOMAIN chains : chains[d].shared /\ Swap!TotalRefs(d) > 0}
    BY <1>1, SwapSequences DEF Swap!RefsExact
  <2>3. \A d \in DOMAIN chains : d \in 1..MaxChains /\ d # c
    BY <1>1, <1>4 DEF ChainTypes
  <2>4. ToSet(shared') = {d \in DOMAIN chains' : chains'[d].shared /\ Swap!TotalRefs(d)' > 0}
    BY <1>7, <1>8, <1>12, <2>2, <2>3
  <2>5. Swap!ToSet(shared)' = ToSet(shared') /\ (Swap!IsInjective(shared)' <=> IsInjective(shared'))
    BY SwapSequences
  <2> QED
    BY <1>12, <2>1, <2>4, <2>5 DEF Swap!RefsExact
<1>16. Swap!DriverChainOwned'
  <2>1. ASSUME mishaps \cap {"noRef", "closed"} = {}
        PROVE  DOMAIN chains' = {c} /\ Swap!TotalRefs(c)' > 0
    <3>1. DOMAIN chains = {}
      BY <1>1, <1>3, <2>1 DEF Swap!DriverChainOwned
    <3> QED
      BY <1>7, <1>8, <3>1
  <2>2. {display'.chain} \ {0} = {c}
    BY <1>2, <1>11
  <2> QED
    BY <1>3, <2>1, <2>2 DEF Swap!DriverChainOwned
<1>17. Swap!FlipsBacked'
  BY <1>1, <1>3, <1>8, <1>9 DEF Swap!FlipsBacked
<1> QED
  BY <1>13, <1>14, <1>15, <1>16, <1>17 DEF ChainInv, Swap!ChainsSound

(* A creation that fails leaves the driver's chain, which is noted.         *)
LEMMA CreateFailsKeeps ==
  ASSUME Swap!MaxChainsOK, ChainInv, NEW p \in Processes, Swap!CreateDCSwapChainFails(p)
  PROVE  ChainInv'
<1> USE DEF Swap!MaxChainsOK
<1>1. /\ ChainTypes /\ ChainsUsed
      /\ Swap!RefsExact /\ Swap!DriverChainOwned /\ Swap!FlipsBacked
  BY ChainParts
<1>2. PICK c \in 1..MaxChains : c = display.lastID + 1
  BY <1>1 DEF ChainTypes, Swap!CreateDCSwapChainFails, Swap!DriverCreates
<1>3. /\ display' = [display EXCEPT !.chain = c, !.lastID = c]
      /\ mishaps' = mishaps \cup {"noRef"}
      /\ chains' = chains /\ shared' = shared /\ refs' = refs /\ queues' = queues /\ slot' = slot
  BY <1>1, <1>2 DEF Swap!CreateDCSwapChainFails, Swap!DriverCreates, ChainTypes
<1>4. /\ display' \in [opens : [Processes -> Nat], chain : 0..MaxChains, lastID : 0..MaxChains]
      /\ display'.lastID = c /\ display'.opens = display.opens
  <2>1. c \in 0..MaxChains
    BY <1>2
  <2> QED
    BY <1>1, <1>3, <2>1 DEF ChainTypes
<1>5. ChainTypes'
  <2>1. \A d \in 1..display.lastID : d \in 1..c
    BY <1>1, <1>2 DEF ChainTypes
  <2> QED
    BY <1>1, <1>3, <1>4, <2>1 DEF ChainTypes
<1>6. ChainsUsed'
  BY <1>1, <1>3, <1>4 DEF ChainsUsed, Swap!IsOpen
<1>7. Swap!RefsExact'
  BY <1>1, <1>3, RefsStay
<1>8. Swap!DriverChainOwned' /\ Swap!FlipsBacked'
  BY <1>1, <1>3 DEF Swap!DriverChainOwned, Swap!FlipsBacked
<1> QED
  BY <1>5, <1>6, <1>7, <1>8 DEF ChainInv, Swap!ChainsSound

(* With a reference less, nobody refers who did not.                        *)
LEMMA RefsLess ==
  ASSUME Swap!MaxChainsOK, ChainTypes, NEW p \in Processes, NEW c \in 1..MaxChains,
         refs[p][c] > 0, refs' = [refs EXCEPT ![p][c] = refs[p][c] - 1]
  PROVE  /\ refs' \in [Processes -> [1..MaxChains -> Nat]]
         /\ \A q \in Processes, d \in 1..MaxChains : refs'[q][d] > 0 => refs[q][d] > 0
<1> USE DEF Swap!MaxChainsOK
<1>1. refs \in [Processes -> [1..MaxChains -> Nat]]
  BY DEF ChainTypes
<1>2. refs[p] \in [1..MaxChains -> Nat] /\ refs[p][c] \in Nat /\ refs[p][c] - 1 \in Nat
  BY <1>1
<1>3. refs' = [refs EXCEPT ![p] = [refs[p] EXCEPT ![c] = refs[p][c] - 1]]
  OBVIOUS
<1>4. [refs[p] EXCEPT ![c] = refs[p][c] - 1] \in [1..MaxChains -> Nat]
  BY <1>2
<1>5. refs' \in [Processes -> [1..MaxChains -> Nat]]
  BY <1>1, <1>3, <1>4
<1> QED
  BY <1>1, <1>2, <1>3, <1>5

(* A reference goes that is not the last one.                               *)
LEMMA OneOfSeveralGoes ==
  ASSUME Swap!MaxChainsOK, ChainInv, NEW p \in Processes, NEW c \in DOMAIN chains,
         Swap!DestroyDCSwapChainRef(p, c), chains[c].refCount # 1
  PROVE  ChainInv' /\ DOMAIN chains' = DOMAIN chains
<1> USE DEF Swap!MaxChainsOK
<1>1. /\ ChainTypes /\ ChainsUsed
      /\ Swap!RefsExact /\ Swap!DriverChainOwned /\ Swap!FlipsBacked
  BY ChainParts
<1>2. /\ refs[p][c] > 0 /\ refs' = [refs EXCEPT ![p][c] = refs[p][c] - 1]
      /\ chains' = [chains EXCEPT ![c].refCount = @ - 1]
      /\ shared' = shared /\ display' = display /\ queues' = queues /\ slot' = slot
      /\ mishaps' = mishaps
  BY DEF Swap!DestroyDCSwapChainRef
<1>3. c \in 1..MaxChains /\ DOMAIN chains \subseteq 1..MaxChains
  <2>1. display.lastID \in 0..MaxChains /\ DOMAIN chains \subseteq 1..display.lastID
    BY <1>1 DEF ChainTypes
  <2>2. 1..display.lastID \subseteq 1..MaxChains
    BY <2>1
  <2> QED
    BY <2>1, <2>2
<1>4. /\ \A d \in 1..MaxChains : IsFiniteSet(Opened(Held(refs', d)))
      /\ Swap!TotalRefs(c)' \in Nat /\ Swap!TotalRefs(c) = Swap!TotalRefs(c)' + 1
      /\ \A d \in 1..MaxChains \ {c} : Swap!TotalRefs(d)' = Swap!TotalRefs(d)
  BY <1>1, <1>2, <1>3, ReferenceGiven
<1>5. chains[c].refCount = Swap!TotalRefs(c) /\ Swap!TotalRefs(c)' > 0
  <2>1. chains[c].refCount = Swap!TotalRefs(c)
    BY <1>1, <1>3 DEF Swap!RefsExact
  <2> QED
    BY <1>4, <2>1
<1>6. /\ DOMAIN chains' = DOMAIN chains
      /\ chains' \in [DOMAIN chains -> [refCount : Nat, shared : BOOLEAN]]
      /\ chains'[c].refCount = chains[c].refCount - 1 /\ chains'[c].shared = chains[c].shared
      /\ \A d \in DOMAIN chains \ {c} : chains'[d] = chains[d]
  <2>1. /\ chains[c] \in [refCount : Nat, shared : BOOLEAN] /\ chains[c].refCount - 1 \in Nat
        /\ chains' = [chains EXCEPT ![c] = [chains[c] EXCEPT !.refCount = chains[c].refCount - 1]]
    BY <1>1, <1>2, <1>4, <1>5 DEF ChainTypes
  <2>2. PICK v \in [refCount : Nat, shared : BOOLEAN] :
            /\ v = [chains[c] EXCEPT !.refCount = chains[c].refCount - 1]
            /\ v.refCount = chains[c].refCount - 1 /\ v.shared = chains[c].shared
    BY <2>1
  <2>3. chains' = [chains EXCEPT ![c] = v]
    BY <2>1, <2>2
  <2> QED
    BY <1>1, <2>2, <2>3 DEF ChainTypes
<1>7. /\ refs' \in [Processes -> [1..MaxChains -> Nat]]
      /\ \A q \in Processes, d \in 1..MaxChains : refs'[q][d] > 0 => refs[q][d] > 0
  BY <1>1, <1>2, <1>3, RefsLess
<1>8. ChainTypes'
  BY <1>1, <1>2, <1>6, <1>7 DEF ChainTypes
<1>9. ChainsUsed'
  BY <1>1, <1>2, <1>4, <1>6, <1>7 DEF ChainsUsed
<1>10. Swap!RefsExact'
  <2>1. \A d \in 1..MaxChains : IF d \in DOMAIN chains' THEN chains'[d].refCount = Swap!TotalRefs(d)'
                                ELSE Swap!TotalRefs(d)' = 0
    BY <1>1, <1>3, <1>4, <1>5, <1>6 DEF Swap!RefsExact
  <2>2. Swap!ToSet(shared)' = Swap!ToSet(shared)
        /\ (Swap!IsInjective(shared)' <=> Swap!IsInjective(shared))
    BY <1>2 DEF Swap!ToSet, Swap!IsInjective
  <2>3. ASSUME NEW d \in DOMAIN chains
        PROVE  chains'[d].shared /\ Swap!TotalRefs(d)' > 0
                   <=> chains[d].shared /\ Swap!TotalRefs(d) > 0
    <3>1. CASE d = c
      <4>1. Swap!TotalRefs(c)' > 0 /\ Swap!TotalRefs(c) > 0
        BY <1>4, <1>5
      <4>2. Swap!TotalRefs(d)' > 0 /\ Swap!TotalRefs(d) > 0
        BY <3>1, <4>1
      <4>3. chains[d].shared = chains'[d].shared
        BY <1>6, <3>1
      <4> QED
        BY <4>2, <4>3
    <3>2. CASE d # c
      BY <1>3, <1>4, <1>6, <3>2
    <3> QED
      BY <3>1, <3>2
  <2> QED
    BY <1>1, <1>6, <2>1, <2>2, <2>3 DEF Swap!RefsExact
<1>11. Swap!DriverChainOwned'
  <2>1. ASSUME NEW d \in DOMAIN chains, Swap!TotalRefs(d) > 0  PROVE Swap!TotalRefs(d)' > 0
    <3>1. CASE d = c
      BY <1>5, <3>1
    <3>2. CASE d # c
      BY <1>3, <1>4, <2>1, <3>2
    <3> QED
      BY <3>1, <3>2
  <2> QED
    BY <1>1, <1>2, <1>6, <2>1 DEF Swap!DriverChainOwned
<1>12. Swap!FlipsBacked'
  BY <1>1, <1>2, <1>6 DEF Swap!FlipsBacked
<1> QED
  BY <1>6, <1>8, <1>9, <1>10, <1>11, <1>12 DEF ChainInv, Swap!ChainsSound

(* The last reference goes: the chain goes with it, unless the driver       *)
(* refuses, which it does with a display that was closed or whose chain is  *)
(* one that a failed creation left.                                         *)
LEMMA LastGoes ==
  ASSUME Swap!MaxChainsOK, ChainInv, NEW p \in Processes, NEW c \in DOMAIN chains,
         Swap!DestroyDCSwapChainRef(p, c), chains[c].refCount = 1
  PROVE  /\ ChainInv' /\ DOMAIN chains \ DOMAIN chains' \subseteq {c}
         /\ c \notin DOMAIN chains' => slot'.chain # c
         /\ \A q \in Processes : refs[q][c] > 0 <=> q = p
<1> USE DEF Swap!MaxChainsOK
<1>1. /\ ChainTypes /\ ChainsUsed
      /\ Swap!RefsExact /\ Swap!DriverChainOwned /\ Swap!FlipsBacked
  BY ChainParts
<1>2. /\ refs[p][c] > 0 /\ refs' = [refs EXCEPT ![p][c] = refs[p][c] - 1]
      /\ mishaps' = mishaps \cup IF queues[c] > 0 THEN {"flush"} ELSE {}
      /\ Swap!DestroyDCSwapChain(c)
  BY DEF Swap!DestroyDCSwapChainRef
<1>3. c \in 1..MaxChains /\ DOMAIN chains \subseteq 1..MaxChains
  <2>1. display.lastID \in 0..MaxChains /\ DOMAIN chains \subseteq 1..display.lastID
    BY <1>1 DEF ChainTypes
  <2>2. 1..display.lastID \subseteq 1..MaxChains
    BY <2>1
  <2> QED
    BY <2>1, <2>2
<1>4. /\ \A d \in 1..MaxChains : IsFiniteSet(Opened(Held(refs', d)))
      /\ Swap!TotalRefs(c)' \in Nat /\ Swap!TotalRefs(c) = Swap!TotalRefs(c)' + 1
      /\ \A d \in 1..MaxChains \ {c} : Swap!TotalRefs(d)' = Swap!TotalRefs(d)
  BY <1>1, <1>2, <1>3, ReferenceGiven
<1>5. Swap!TotalRefs(c) = 1 /\ Swap!TotalRefs(c)' = 0 /\ c \in DOMAIN queues
  <2>1. Swap!TotalRefs(c) = 1
    BY <1>1, <1>3 DEF Swap!RefsExact
  <2> QED
    BY <1>1, <1>2, <1>3, <1>4, <2>1 DEF ChainsUsed
<1>6. refs[p][c] = 1 /\ \A q \in Processes \ {p} : refs[q][c] = 0
  <2>1. refs[p][c] \in Nat /\ Swap!TotalRefs(c) >= refs[p][c]
    BY <1>1, <1>3, TotalSplits DEF ChainTypes
  <2>2. refs[p][c] = 1
    BY <1>2, <1>5, <2>1
  <2> QED
    BY <1>1, <1>3, <1>5, <2>2, TotalSplits
<1>7. /\ refs' \in [Processes -> [1..MaxChains -> Nat]]
      /\ \A q \in Processes, d \in 1..MaxChains : refs'[q][d] > 0 => refs[q][d] > 0
  BY <1>1, <1>2, <1>3, RefsLess
<1>8. \A q \in Processes : refs'[q][c] = 0
  BY <1>1, <1>2, <1>3, <1>6 DEF ChainTypes
<1>9. /\ shared' \in Seq(1..MaxChains) /\ IsInjective(shared')
      /\ ToSet(shared') = ToSet(shared) \ {c}
  <2>1. shared \in Seq(1..MaxChains) /\ IsInjective(shared)
    BY <1>1, SwapSequences DEF ChainTypes, Swap!RefsExact
  <2>2. shared' = Swap!Unlinked(shared, c)
    BY <1>2 DEF Swap!DestroyDCSwapChain
  <2>3. CASE c \in ToSet(shared)
    <3> DEFINE i == Swap!Place(shared, c)
    <3>1. i \in DOMAIN shared /\ shared[i] = c
      <4>1. \E n \in DOMAIN shared : shared[n] = c
        BY <2>3 DEF ToSet
      <4> QED
        BY <4>1 DEF Swap!Place
    <3>2. shared' = RemoveAt(shared, i)
      BY <2>2, <2>3, SwapSequences DEF Swap!Unlinked
    <3> HIDE DEF i
    <3> QED
      BY <2>1, <3>1, <3>2, RemoveAtMeans
  <2>4. CASE c \notin ToSet(shared)
    BY <2>1, <2>2, <2>4, SwapSequences DEF Swap!Unlinked
  <2> QED
    BY <2>3, <2>4
<1>10. /\ queues' = IF queues[c] = 0 THEN Swap!Without(queues, c) ELSE queues
       /\ DOMAIN queues' \subseteq DOMAIN queues /\ queues' \in [DOMAIN queues' -> Nat]
       /\ \A d \in DOMAIN queues' : queues'[d] = queues[d]
       /\ \A d \in DOMAIN queues \ {c} : d \in DOMAIN queues'
       /\ queues[c] = 0 => c \notin DOMAIN queues'
       /\ queues[c] \in Nat
  <2>1. queues' = IF queues[c] = 0 THEN Swap!Without(queues, c) ELSE queues
    BY <1>2 DEF Swap!DestroyDCSwapChain, Swap!DestroyCommandQueue
  <2>2. CASE queues[c] = 0
    BY <1>1, <1>5, <2>1, <2>2 DEF ChainTypes, Swap!Without
  <2>3. CASE queues[c] # 0
    BY <1>1, <1>5, <2>1, <2>3 DEF ChainTypes
  <2> QED
    BY <2>1, <2>2, <2>3
<1>11. /\ display' \in [opens : [Processes -> Nat], chain : 0..MaxChains, lastID : 0..MaxChains]
       /\ display'.lastID = display.lastID /\ display'.opens = display.opens
  <2>1. 0 \in 0..MaxChains
    OBVIOUS
  <2> QED
    BY <1>1, <1>2, <2>1 DEF ChainTypes, Swap!DestroyDCSwapChain
<1>12. /\ chains' \in [DOMAIN chains' -> [refCount : Nat, shared : BOOLEAN]]
       /\ DOMAIN chains \ {c} \subseteq DOMAIN chains' /\ DOMAIN chains' \subseteq DOMAIN chains
       /\ \A d \in DOMAIN chains \ {c} : chains'[d] = chains[d]
       /\ c \in DOMAIN chains' => /\ chains'[c].refCount = 0 /\ ~Swap!DriverDestroys(c)
                                  /\ slot' = slot /\ display' = display
       /\ c \notin DOMAIN chains' => /\ Swap!DriverDestroys(c) /\ slot' = Swap!Drained(c)
                                     /\ display'.chain = 0
  <2>1. CASE Swap!DriverDestroys(c)
    <3>1. chains' = Swap!Without(chains, c) /\ slot' = Swap!Drained(c)
          /\ display' = [display EXCEPT !.chain = 0]
      BY <1>2, <2>1 DEF Swap!DestroyDCSwapChain
    <3>2. display'.chain = 0
      BY <1>1, <3>1 DEF ChainTypes
    <3> QED
      BY <1>1, <2>1, <3>1, <3>2 DEF ChainTypes, Swap!Without
  <2>2. CASE ~Swap!DriverDestroys(c)
    <3>1. chains' = [chains EXCEPT ![c].refCount = 0] /\ slot' = slot /\ display' = display
      BY <1>2, <2>2 DEF Swap!DestroyDCSwapChain
    <3>2. chains[c] \in [refCount : Nat, shared : BOOLEAN]
      BY <1>1 DEF ChainTypes
    <3>3. PICK v \in [refCount : Nat, shared : BOOLEAN] :
              v = [chains[c] EXCEPT !.refCount = 0] /\ v.refCount = 0
      <4>1. PICK n \in Nat : n = 0
        OBVIOUS
      <4>2. [chains[c] EXCEPT !.refCount = n] \in [refCount : Nat, shared : BOOLEAN]
        BY <3>2
      <4>3. [chains[c] EXCEPT !.refCount = n].refCount = n
        BY <3>2
      <4> QED
        BY <4>1, <4>2, <4>3
    <3>4. chains' = [chains EXCEPT ![c] = v]
      BY <3>1, <3>3
    <3> QED
      BY <1>1, <2>2, <3>1, <3>3, <3>4 DEF ChainTypes
  <2> QED
    BY <2>1, <2>2
<1>13. /\ slot' \in [chain : 0..MaxChains, handler : BOOLEAN]
       /\ slot' = slot \/ slot' = Swap!NoFlip
       /\ c \notin DOMAIN chains' => slot'.chain # c
  <2>1. slot' = slot \/ slot' = Swap!NoFlip
    BY <1>12 DEF Swap!Drained
  <2>2. Swap!NoFlip \in [chain : 0..MaxChains, handler : BOOLEAN] /\ Swap!NoFlip.chain # c
    <3>1. 0 \in 0..MaxChains /\ 0 # c
      BY <1>3
    <3> QED
      BY <3>1 DEF Swap!NoFlip
  <2>3. c \notin DOMAIN chains' => slot'.chain # c
    BY <1>12, <2>2 DEF Swap!Drained
  <2> QED
    BY <1>1, <2>1, <2>2, <2>3 DEF ChainTypes
<1>14. ChainTypes'
  <2>1. DOMAIN chains' \subseteq 1..display'.lastID /\ DOMAIN queues' \subseteq 1..display'.lastID
    BY <1>1, <1>10, <1>11, <1>12 DEF ChainTypes
  <2> QED
    BY <1>7, <1>9, <1>10, <1>11, <1>12, <1>13, <2>1 DEF ChainTypes
<1>15. ChainsUsed'
  <2>1. \A q \in Processes, d \in 1..MaxChains : refs'[q][d] > 0 => d \in DOMAIN queues'
    BY <1>1, <1>7, <1>8, <1>10 DEF ChainsUsed
  <2>2. "closed" \notin mishaps' /\ DOMAIN chains' # {} => Swap!IsOpen(display)'
    BY <1>1, <1>2, <1>11, <1>12 DEF ChainsUsed, Swap!IsOpen
  <2> QED
    BY <1>4, <2>1, <2>2 DEF ChainsUsed
<1>16. Swap!RefsExact'
  <2>1. ASSUME NEW d \in 1..MaxChains
        PROVE  IF d \in DOMAIN chains' THEN chains'[d].refCount = Swap!TotalRefs(d)'
               ELSE Swap!TotalRefs(d)' = 0
    <3>1. CASE d = c
      BY <1>5, <1>12, <3>1
    <3>2. CASE d # c
      BY <1>1, <1>4, <1>12, <3>2 DEF Swap!RefsExact
    <3> QED
      BY <3>1, <3>2
  <2>2. ToSet(shared) = {d \in DOMAIN chains : chains[d].shared /\ Swap!TotalRefs(d) > 0}
    BY <1>1, SwapSequences DEF Swap!RefsExact
  <2>3. ~(Swap!TotalRefs(c)' > 0)
    BY <1>5
  <2>4. \A d \in DOMAIN chains \ {c} : /\ d \in DOMAIN chains' /\ chains'[d] = chains[d]
                                       /\ Swap!TotalRefs(d)' = Swap!TotalRefs(d)
    BY <1>3, <1>4, <1>12
  <2>5. ToSet(shared') = {d \in DOMAIN chains' : chains'[d].shared /\ Swap!TotalRefs(d)' > 0}
    <3>1. ASSUME NEW d
          PROVE  d \in ToSet(shared')
                     <=> d \in DOMAIN chains' /\ chains'[d].shared /\ Swap!TotalRefs(d)' > 0
      <4>1. CASE d = c
        <5>1. ~(Swap!TotalRefs(d)' > 0)
          BY <2>3, <4>1
        <5> QED
          BY <1>9, <4>1, <5>1
      <4>2. CASE d # c
        BY <1>9, <1>12, <2>2, <2>4, <4>2
      <4> QED
        BY <4>1, <4>2
    <3> QED
      BY <3>1
  <2>6. Swap!ToSet(shared)' = ToSet(shared') /\ (Swap!IsInjective(shared)' <=> IsInjective(shared'))
    BY SwapSequences
  <2> QED
    BY <1>9, <2>1, <2>5, <2>6 DEF Swap!RefsExact
<1>17. Swap!DriverChainOwned'
  <2> SUFFICES ASSUME mishaps' \cap {"noRef", "closed"} = {}
               PROVE  /\ DOMAIN chains' = {display'.chain} \ {0}
                      /\ \A d \in DOMAIN chains' : Swap!TotalRefs(d)' > 0
    BY DEF Swap!DriverChainOwned
  <2>1. mishaps \cap {"noRef", "closed"} = {}
    BY <1>2
  <2>2. DOMAIN chains = {display.chain} \ {0}
    BY <1>1, <2>1 DEF Swap!DriverChainOwned
  <2>3. display.chain = c /\ DOMAIN chains = {c}
    BY <2>2
  <2>4. Swap!IsOpen(display)
    BY <1>1, <2>1 DEF ChainsUsed
  <2>5. Swap!DriverDestroys(c)
    BY <2>3, <2>4 DEF Swap!DriverDestroys
  <2>6. DOMAIN chains' = {} /\ display'.chain = 0
    BY <1>12, <2>3, <2>5
  <2> QED
    BY <2>6
<1>18. Swap!FlipsBacked'
  <2> SUFFICES ASSUME "flush" \notin mishaps'
               PROVE  /\ \A d \in DOMAIN queues' : queues'[d] > 0 => d \in DOMAIN chains'
                      /\ slot' # Swap!NoFlip => slot'.chain \in DOMAIN chains'
                      /\ slot' # Swap!NoFlip /\ mishaps' = {} => slot'.handler
    BY DEF Swap!FlipsBacked
  <2>1. queues[c] = 0 /\ "flush" \notin mishaps /\ mishaps' = mishaps
    BY <1>2, <1>10
  <2>2. \A d \in DOMAIN queues' : queues'[d] > 0 => d \in DOMAIN chains'
    BY <1>1, <1>10, <1>12, <2>1 DEF Swap!FlipsBacked
  <2>3. slot' # Swap!NoFlip => slot'.chain \in DOMAIN chains'
    BY <1>1, <1>12, <1>13, <2>1 DEF Swap!FlipsBacked
  <2>4. slot' # Swap!NoFlip /\ mishaps' = {} => slot'.handler
    BY <1>1, <1>13, <2>1 DEF Swap!FlipsBacked
  <2> QED
    BY <2>2, <2>3, <2>4
<1>19. ChainInv'
  BY <1>14, <1>15, <1>16, <1>17, <1>18 DEF ChainInv, Swap!ChainsSound
<1> QED
  BY <1>6, <1>12, <1>13, <1>19

(* A flip goes into the queue of a chain that is there.                     *)
LEMMA SwapKeeps ==
  ASSUME Swap!MaxChainsOK, ChainInv, NEW p \in Processes, NEW c \in DOMAIN chains,
         Swap!SwapToDCBufferKM(p, c)
  PROVE  ChainInv'
<1> USE DEF Swap!MaxChainsOK
<1>1. /\ ChainTypes /\ ChainsUsed
      /\ Swap!RefsExact /\ Swap!DriverChainOwned /\ Swap!FlipsBacked
  BY ChainParts
<1>2. /\ c \in DOMAIN queues /\ queues' = [queues EXCEPT ![c] = @ + 1]
      /\ chains' = chains /\ shared' = shared /\ refs' = refs /\ display' = display
      /\ slot' = slot /\ mishaps' = mishaps
  BY DEF Swap!SwapToDCBufferKM
<1>3. /\ DOMAIN queues' = DOMAIN queues /\ queues' \in [DOMAIN queues -> Nat]
      /\ \A d \in DOMAIN queues \ {c} : queues'[d] = queues[d]
  BY <1>1, <1>2 DEF ChainTypes
<1>4. Swap!RefsExact' /\ \A d : Swap!TotalRefs(d)' = Swap!TotalRefs(d)
  BY <1>1, <1>2, RefsStay
<1>5. ChainTypes'
  BY <1>1, <1>2, <1>3 DEF ChainTypes
<1>6. ChainsUsed'
  BY <1>1, <1>2, <1>3 DEF ChainsUsed, Swap!IsOpen
<1>7. Swap!DriverChainOwned'
  BY <1>1, <1>2, <1>4 DEF Swap!DriverChainOwned
<1>8. Swap!FlipsBacked'
  <2>1. \A d \in DOMAIN queues \ {c} : queues'[d] = queues[d]
    BY <1>3
  <2> QED
    BY <1>1, <1>2, <1>3, <2>1 DEF Swap!FlipsBacked
<1> QED
  BY <1>4, <1>5, <1>6, <1>7, <1>8 DEF ChainInv, Swap!ChainsSound

(* The driver takes a flip; while nothing went wrong it is one of its own   *)
(* chain, and will be completed.                                            *)
LEMMA FlipKeeps ==
  ASSUME Swap!MaxChainsOK, ChainInv, NEW c \in 1..MaxChains, Swap!ProcessFlip(c)
  PROVE  ChainInv'
<1> USE DEF Swap!MaxChainsOK
<1>1. /\ ChainTypes /\ ChainsUsed
      /\ Swap!RefsExact /\ Swap!DriverChainOwned /\ Swap!FlipsBacked
  BY ChainParts
<1>2. /\ c \in DOMAIN queues /\ queues[c] > 0 /\ queues' = [queues EXCEPT ![c] = queues[c] - 1]
      /\ slot' = [chain |-> c, handler |-> display.chain = c]
      /\ chains' = chains /\ shared' = shared /\ refs' = refs /\ display' = display
      /\ mishaps' = mishaps
  BY DEF Swap!ProcessFlip
<1>3. /\ DOMAIN queues' = DOMAIN queues /\ queues' \in [DOMAIN queues -> Nat]
      /\ \A d \in DOMAIN queues : queues'[d] > 0 => queues[d] > 0
  <2>1. queues[c] \in Nat /\ queues[c] - 1 \in Nat
    BY <1>1, <1>2 DEF ChainTypes
  <2> QED
    BY <1>1, <1>2, <2>1 DEF ChainTypes
<1>4. Swap!RefsExact' /\ \A d : Swap!TotalRefs(d)' = Swap!TotalRefs(d)
  BY <1>1, <1>2, RefsStay
<1>5. /\ slot' \in [chain : 0..MaxChains, handler : BOOLEAN]
      /\ slot'.chain = c /\ slot'.handler = (display.chain = c)
  <2>1. c \in 0..MaxChains /\ (display.chain = c) \in BOOLEAN
    OBVIOUS
  <2> QED
    BY <1>2, <2>1
<1>6. ChainTypes'
  BY <1>1, <1>2, <1>3, <1>5 DEF ChainTypes
<1>7. ChainsUsed'
  BY <1>1, <1>2, <1>3 DEF ChainsUsed, Swap!IsOpen
<1>8. Swap!DriverChainOwned'
  BY <1>1, <1>2, <1>4 DEF Swap!DriverChainOwned
<1>9. Swap!FlipsBacked'
  <2> SUFFICES ASSUME "flush" \notin mishaps'
               PROVE  /\ \A d \in DOMAIN queues' : queues'[d] > 0 => d \in DOMAIN chains'
                      /\ slot'.chain \in DOMAIN chains'
                      /\ mishaps' = {} => slot'.handler
    BY DEF Swap!FlipsBacked
  <2>1. \A d \in DOMAIN queues : queues[d] > 0 => d \in DOMAIN chains
    BY <1>1, <1>2 DEF Swap!FlipsBacked
  <2>2. c \in DOMAIN chains
    BY <1>2, <2>1
  <2>3. ASSUME mishaps' = {}  PROVE slot'.handler
    <3>1. mishaps \cap {"noRef", "closed"} = {}
      BY <1>2, <2>3
    <3>2. DOMAIN chains = {display.chain} \ {0}
      BY <1>1, <3>1 DEF Swap!DriverChainOwned
    <3> QED
      BY <1>5, <2>2, <3>2
  <2> QED
    BY <1>2, <1>3, <1>5, <2>1, <2>2, <2>3
<1> QED
  BY <1>4, <1>6, <1>7, <1>8, <1>9 DEF ChainInv, Swap!ChainsSound

(* A flip is completed, or nothing happens.                                 *)
LEMMA HandlerKeeps ==
  ASSUME Swap!MaxChainsOK, ChainInv, Swap!SwapHandler \/ UNCHANGED Swap!vars
  PROVE  ChainInv'
<1> USE DEF Swap!MaxChainsOK
<1>1. /\ ChainTypes /\ ChainsUsed
      /\ Swap!RefsExact /\ Swap!DriverChainOwned /\ Swap!FlipsBacked
  BY ChainParts
<1>2. /\ slot' = slot \/ slot' = Swap!NoFlip
      /\ chains' = chains /\ shared' = shared /\ refs' = refs /\ display' = display
      /\ queues' = queues /\ mishaps' = mishaps
  BY DEF Swap!SwapHandler, Swap!vars
<1>3. Swap!RefsExact' /\ \A d : Swap!TotalRefs(d)' = Swap!TotalRefs(d)
  BY <1>1, <1>2, RefsStay
<1>4. slot' \in [chain : 0..MaxChains, handler : BOOLEAN]
  <2>1. 0 \in 0..MaxChains
    OBVIOUS
  <2>2. Swap!NoFlip \in [chain : 0..MaxChains, handler : BOOLEAN]
    BY <2>1 DEF Swap!NoFlip
  <2> QED
    BY <1>1, <1>2, <2>2 DEF ChainTypes
<1>5. ChainTypes'
  BY <1>1, <1>2, <1>4 DEF ChainTypes
<1>6. ChainsUsed'
  BY <1>1, <1>2 DEF ChainsUsed, Swap!IsOpen
<1>7. Swap!DriverChainOwned'
  BY <1>1, <1>2, <1>3 DEF Swap!DriverChainOwned
<1>8. Swap!FlipsBacked'
  BY <1>1, <1>2 DEF Swap!FlipsBacked
<1> QED
  BY <1>3, <1>5, <1>6, <1>7, <1>8 DEF ChainInv, Swap!ChainsSound

(* There are no chains at first.                                            *)
LEMMA ChainsStart ==
  ASSUME Swap!MaxChainsOK, Swap!Init  PROVE ChainInv
<1> USE DEF Swap!MaxChainsOK
<1>1. /\ chains = <<>> /\ shared = <<>> /\ queues = <<>> /\ mishaps = {} /\ slot = Swap!NoFlip
      /\ refs = [p \in Processes |-> [c \in 1..MaxChains |-> 0]]
      /\ display = [opens |-> [p \in Processes |-> 0], chain |-> 0, lastID |-> 0]
  BY DEF Swap!Init
<1>2. DOMAIN chains = {} /\ DOMAIN queues = {}
  BY <1>1
<1>3. \A p \in Processes, c \in 1..MaxChains : refs[p][c] = 0
  BY <1>1
<1>4. \A c \in 1..MaxChains : Opened(Held(refs, c)) = {}
  BY <1>3 DEF Opened, Held
<1>5. \A c \in 1..MaxChains : IsFiniteSet(Opened(Held(refs, c))) /\ Swap!TotalRefs(c) = 0
  BY <1>4, FS_EmptySet, TotalIs
<1>6. ChainTypes
  <2>1. 0 \in 0..MaxChains
    OBVIOUS
  <2>2. /\ display \in [opens : [Processes -> Nat], chain : 0..MaxChains, lastID : 0..MaxChains]
        /\ slot \in [chain : 0..MaxChains, handler : BOOLEAN]
    BY <1>1, <2>1 DEF Swap!NoFlip
  <2>3. refs \in [Processes -> [1..MaxChains -> Nat]] /\ shared \in Seq(1..MaxChains)
    BY <1>1
  <2>4. /\ chains \in [DOMAIN chains -> [refCount : Nat, shared : BOOLEAN]]
        /\ queues \in [DOMAIN queues -> Nat]
    BY <1>1, <1>2
  <2> QED
    BY <1>2, <2>2, <2>3, <2>4 DEF ChainTypes
<1>7. ChainsUsed
  BY <1>2, <1>3, <1>5 DEF ChainsUsed
<1>8. Swap!RefsExact
  <2>1. Swap!ToSet(shared) = {} /\ Swap!IsInjective(shared)
    BY <1>1 DEF Swap!ToSet, Swap!IsInjective
  <2> QED
    BY <1>2, <1>5, <2>1 DEF Swap!RefsExact
<1>9. Swap!DriverChainOwned
  BY <1>1, <1>2 DEF Swap!DriverChainOwned
<1>10. Swap!FlipsBacked
  BY <1>1, <1>2 DEF Swap!FlipsBacked
<1> QED
  BY <1>6, <1>7, <1>8, <1>9, <1>10 DEF ChainInv, Swap!ChainsSound

(* What a step does to the chains: what has to hold of them still does, and *)
(* one that goes had one process refer to it and no flip with the driver.   *)
LEMMA ChainStep ==
  ASSUME Swap!MaxChainsOK, ChainInv, [Swap!Next]_(Swap!vars)
  PROVE  /\ ChainInv'
         /\ \A c \in DOMAIN chains \ DOMAIN chains' :
                /\ slot'.chain # c
                /\ \E p \in Processes : \A q \in Processes : refs[q][c] > 0 <=> q = p
<1> DEFINE Gone == \A c \in DOMAIN chains \ DOMAIN chains' :
                       /\ slot'.chain # c
                       /\ \E p \in Processes : \A q \in Processes : refs[q][c] > 0 <=> q = p
<1>1. ChainTypes
  BY ChainParts
<1>2. ASSUME NEW p \in Processes, Swap!OpenDCDeviceKM(p) \/ Swap!CloseDCDeviceKM(p)
      PROVE  ChainInv' /\ Gone
  <2>1. chains' = chains
    BY <1>2 DEF Swap!OpenDCDeviceKM, Swap!CloseDCDeviceKM
  <2> QED
    BY <1>2, <2>1, DisplayKeeps
<1>3. ASSUME NEW p \in Processes, NEW isShared \in BOOLEAN, Swap!CreateDCSwapChainKM(p, isShared)
      PROVE  ChainInv' /\ Gone
  <2>1. DOMAIN chains \subseteq DOMAIN chains'
    BY <1>3 DEF Swap!CreateDCSwapChainKM, Swap!With
  <2>2. ChainInv'
    BY <1>3, MakeKeeps
  <2> QED
    BY <2>1, <2>2
<1>4. ASSUME NEW p \in Processes, Swap!CreateDCSwapChainFails(p)
      PROVE  ChainInv' /\ Gone
  <2>1. chains' = chains
    BY <1>4 DEF Swap!CreateDCSwapChainFails
  <2> QED
    BY <1>4, <2>1, CreateFailsKeeps
<1>5. ASSUME NEW p \in Processes, NEW c \in DOMAIN chains, Swap!QueryDCSwapChainKM(p, c)
      PROVE  ChainInv' /\ Gone
  <2>1. DOMAIN chains' = DOMAIN chains
    BY <1>5 DEF Swap!QueryDCSwapChainKM
  <2> QED
    BY <1>5, <2>1, QueryKeeps
<1>6. ASSUME NEW p \in Processes, NEW c \in DOMAIN chains, Swap!DestroyDCSwapChainRef(p, c)
      PROVE  ChainInv' /\ Gone
  <2>1. CASE chains[c].refCount # 1
    BY <1>6, <2>1, OneOfSeveralGoes
  <2>2. CASE chains[c].refCount = 1
    BY <1>6, <2>2, LastGoes
  <2> QED
    BY <2>1, <2>2
<1>7. ASSUME NEW p \in Processes, NEW c \in DOMAIN chains,
             Swap!SwapToDCBufferKM(p, c) \/ Swap!SwapToDCSystemKM(p, c)
      PROVE  ChainInv' /\ Gone
  <2>1. Swap!SwapToDCBufferKM(p, c)
    BY <1>7 DEF Swap!SwapToDCSystemKM
  <2>2. chains' = chains
    BY <2>1 DEF Swap!SwapToDCBufferKM
  <2> QED
    BY <2>1, <2>2, SwapKeeps
<1>8. ASSUME NEW c \in 1..MaxChains, Swap!ProcessFlip(c)  PROVE ChainInv' /\ Gone
  <2>1. chains' = chains
    BY <1>8 DEF Swap!ProcessFlip
  <2> QED
    BY <1>8, <2>1, FlipKeeps
<1>9. ASSUME Swap!SwapHandler \/ UNCHANGED Swap!vars  PROVE ChainInv' /\ Gone
  <2>1. chains' = chains
    BY <1>9 DEF Swap!SwapHandler, Swap!vars
  <2> QED
    BY <1>9, <2>1, HandlerKeeps
<1> HIDE DEF Gone
<1>10. ChainInv' /\ Gone
  BY <1>2, <1>3, <1>4, <1>5, <1>6, <1>7, <1>8, <1>9, Zenon DEF Swap!Next
<1> QED
  BY <1>10 DEF Gone

(* A chain counts the references to it and is there as long as somebody     *)
(* refers to it; the driver's chain belongs to somebody unless a creation   *)
(* failed or the display was closed; a flip is one of a chain that is there.*)
THEOREM ChainsStaySound ==
  ASSUME Swap!MaxChainsOK  PROVE Swap!Spec => []Swap!ChainsSound
<1>1. Swap!Init => ChainInv
  BY ChainsStart
<1>2. ChainInv /\ [Swap!Next]_(Swap!vars) => ChainInv'
  BY ChainStep
<1>3. ChainInv => Swap!ChainsSound
  BY DEF ChainInv
<1> QED
  BY <1>1, <1>2, <1>3, PTL DEF Swap!Spec

(* Nothing a process does takes a chain from another that refers to it, or  *)
(* from under a flip that the driver has.                                   *)
THEOREM OthersKeepTheirChains ==
  ASSUME Swap!MaxChainsOK  PROVE Swap!Spec => Swap!OthersKeepChains
<1> DEFINE A == \A c \in DOMAIN chains \ DOMAIN chains' :
                    Swap!Cardinality({p \in Processes : refs[p][c] > 0}) = 1 /\ slot'.chain # c
<1>1. Swap!Init => ChainInv
  BY ChainsStart
<1>2. ChainInv /\ [Swap!Next]_(Swap!vars) => ChainInv'
  BY ChainStep
<1>3. ChainInv /\ [Swap!Next]_(Swap!vars) => A
  <2> SUFFICES ASSUME ChainInv, [Swap!Next]_(Swap!vars),
                      NEW c \in DOMAIN chains \ DOMAIN chains'
               PROVE  Swap!Cardinality({p \in Processes : refs[p][c] > 0}) = 1 /\ slot'.chain # c
    OBVIOUS
  <2>1. /\ slot'.chain # c
        /\ \E p \in Processes : \A q \in Processes : refs[q][c] > 0 <=> q = p
    BY ChainStep
  <2>2. PICK p \in Processes : \A q \in Processes : refs[q][c] > 0 <=> q = p
    BY <2>1
  <2>3. {q \in Processes : refs[q][c] > 0} = {p}
    BY <2>2
  <2>4. Cardinality({p}) = 1
    BY FS_Singleton
  <2>5. Swap!Cardinality({p}) = Cardinality({p})
    BY Zenon DEF Swap!Cardinality, Cardinality
  <2> QED
    BY <2>1, <2>3, <2>4, <2>5
<1>4. ChainInv /\ [Swap!Next]_(Swap!vars) => [A]_(Swap!vars)
  BY <1>3
<1> QED
  BY <1>1, <1>2, <1>4, PTL DEF Swap!Spec, Swap!OthersKeepChains

-----------------------------------------------------------------------------
(* DisplayDriver: the load, the chains and their handlers, and the blanks.  *)

CONSTANTS FBs, BufferCounts, SettleCount, MaxMade, MaxFlips, MaxEvents, MaxBlanks, MaxSleeps
VARIABLES
    loader, held, gapsDevInfo, registered, opens, swapChain, notifier, screen, swapWork, swapper,
    system, slips
Driver == INSTANCE DisplayDriver

ChainKind == [id : Nat, skip : Nat, count : Nat, closing : BOOLEAN, bNotVSynced : BOOLEAN,
              iBlankEvents : Nat]
Screen == [shown : Nat, room : Nat, dark : BOOLEAN, sBlanked : BOOLEAN, sBlankEvents : Nat,
           sFlush : BOOLEAN, sEarlySuspend : BOOLEAN, settled : Nat]
FlipKind == [buf : Nat, interval : {0, 1}]
Swapping == [pc : {"check", "wait", "vsync", "complete"}, buf : Nat, interval : {0, 1},
             bPreviouslyNotVSynced : BOOLEAN, left : Nat, events : Nat]
Swappers == {Driver!Idle} \cup Swapping
System == [asleep : {"no", "flagged", "yes", "waking"}, made : Nat, flips : Nat, blanks : Nat,
           sleeps : Nat, last : Nat]
LoadSteps == {"probe", "device", "commands", "ready"}
Leaving == {"leave", "gone"}

DriverTypes ==
    /\ loader \in [pc : LoadSteps \cup {"done"} \cup Leaving, fb : FBs]
    /\ held \in [FBs -> SUBSET Driver!Everything]
    /\ registered \in [FBs -> SUBSET {"device", "commands"}]
    /\ gapsDevInfo \subseteq FBs /\ opens \subseteq FBs
    /\ swapChain \in [FBs -> Seq(ChainKind)]
    /\ notifier \in [FBs -> {"off", "on", "loop"}]
    /\ screen \in [FBs -> Screen]
    /\ swapWork \in [FBs -> Seq(FlipKind)]
    /\ swapper \in [FBs -> Swappers]
    /\ system \in System

(* The table has only the devices the load is done with; what services know *)
(* of the one it is at is what its step says.                               *)
LoadInv ==
    /\ Driver!AllOrNothing
    /\ loader.pc \in LoadSteps => \A f \in FBs : f <= loader.fb => f \notin gapsDevInfo
    /\ loader.pc = "device" => registered[loader.fb] = {}
    /\ loader.pc = "commands" => registered[loader.fb] = {"device"}
    /\ loader.pc = "ready" => registered[loader.fb] = {"device", "commands"}
    /\ "open" \in slips => loader.pc \in Leaving

(* Who has a chain has its device open, and nobody unloads the driver.      *)
ChainsOpen ==
    /\ Driver!ChainOutlivesWork
    /\ \A f \in FBs : swapChain[f] # <<>> => f \in opens /\ loader.pc \notin Leaving

(* What the handler of a chain may conclude from the blanks it has seen.    *)
Trusts(c, s, w) ==
    /\ c.iBlankEvents <= s.sBlankEvents
    /\ w.pc = "idle" => \/ c.bNotVSynced \/ c.iBlankEvents # s.sBlankEvents
                        \/ s.settled >= SettleCount
    /\ w.pc = "check" => /\ c.bNotVSynced
                         /\ \/ w.bPreviouslyNotVSynced \/ c.iBlankEvents # s.sBlankEvents
                            \/ s.settled >= SettleCount
    /\ w.pc \in {"wait", "vsync"} =>
          /\ w.left > 0 /\ c.iBlankEvents = w.events
          /\ w.events # s.sBlankEvents \/ s.settled + w.left >= SettleCount
    /\ w.pc = "complete" =>
          \/ c.bNotVSynced
          \/ /\ c.iBlankEvents = w.events
             /\ w.events # s.sBlankEvents \/ s.settled >= SettleCount
SwappersTrust ==
    \A f \in FBs : swapChain[f] # <<>> => Trusts(swapChain[f][1], screen[f], swapper[f])

(* While the system sleeps a chain that is left has its flag set, and the   *)
(* flags that are set are those of devices in the table.                    *)
SleepInv ==
    /\ Driver!FlagHonest
    /\ system.asleep # "no" =>
          /\ \A f \in FBs : swapChain[f] # <<>> => screen[f].sEarlySuspend
          /\ (\E f \in FBs : swapChain[f] # <<>>) \/ "asleep" \in slips
    /\ \A f \in FBs : screen[f].sEarlySuspend => f \in gapsDevInfo \/ loader.pc \in Leaving

DriverInv == DriverTypes /\ LoadInv /\ ChainsOpen /\ SwappersTrust /\ SleepInv

(* The frame buffers are numbered from 0.                                   *)
LEMMA FBsNumbered ==
  ASSUME Driver!FBsOK
  PROVE  /\ Driver!Top \in FBs /\ 0 \in FBs
         /\ \A f \in FBs : /\ f \in Nat /\ f <= Driver!Top
                           /\ f # 0 => f - 1 \in FBs
                           /\ f # Driver!Top => f + 1 \in FBs
  <1>1. PICK t \in Nat : t = Driver!Top /\ FBs = 0 .. t
    BY DEF Driver!FBsOK
  <1>2. /\ t \in 0 .. t /\ 0 \in 0 .. t
        /\ \A f \in 0 .. t : /\ f \in Nat /\ f <= t
                             /\ f # 0 => f - 1 \in 0 .. t
                             /\ f # t => f + 1 \in 0 .. t
    BY <1>1
  <1> QED
    BY <1>1, <1>2, Zenon

(* A frame buffer is a number.                                              *)
LEMMA FBIsNat ==
  ASSUME Driver!FBsOK, NEW f \in FBs
  PROVE  f \in Nat
  BY DEF Driver!FBsOK

(* Before the load nothing is registered.                                   *)
LEMMA DriverStarts ==
  ASSUME Driver!FBsOK, Driver!Init
  PROVE  DriverInv
<1>1. DriverTypes
  <2>1. <<>> \in Seq(ChainKind) /\ <<>> \in Seq(FlipKind)
    BY EmptySeq
  <2> QED
    BY <2>1, FBsNumbered DEF Driver!Init, DriverTypes, LoadSteps, Screen, Swappers, System
<1>2. LoadInv
  BY DEF Driver!Init, LoadInv, Driver!AllOrNothing, LoadSteps
<1>3. ChainsOpen
  BY DEF Driver!Init, ChainsOpen, Driver!ChainOutlivesWork, Driver!HasChain
<1>4. SwappersTrust /\ SleepInv
  BY DEF Driver!Init, SwappersTrust, SleepInv, Driver!FlagHonest
<1> QED
  BY <1>1, <1>2, <1>3, <1>4 DEF DriverInv

(* What a step that has nothing to do with a part of the invariant leaves   *)
(* as it is: of the load,                                                   *)
LEMMA LoadStays ==
  ASSUME LoadInv, UNCHANGED <<loader, held, registered, gapsDevInfo>>,
         \A f \in opens' : f \in opens \/ f \in gapsDevInfo,
         "open" \in slips' <=> "open" \in slips
  PROVE  LoadInv'
  BY DEF LoadInv, Driver!AllOrNothing, Driver!Probing

(* Of the chains and their work,                                            *)
LEMMA NoChainMoves ==
  ASSUME ChainsOpen, UNCHANGED <<swapChain, notifier, swapWork, swapper>>,
         \A f \in FBs : screen'[f].shown = screen[f].shown,
         slips \subseteq slips',
         \A f \in FBs : swapChain[f] # <<>> => f \in opens' /\ loader'.pc \notin Leaving
  PROVE  ChainsOpen'
  BY DEF ChainsOpen, Driver!ChainOutlivesWork, Driver!HasChain, Driver!Idle

(* of what the handlers have seen,                                          *)
LEMMA TrustStays ==
  ASSUME SwappersTrust, UNCHANGED <<swapChain, swapper>>,
         \A f \in FBs : /\ screen'[f].sBlankEvents = screen[f].sBlankEvents
                        /\ screen'[f].settled = screen[f].settled
  PROVE  SwappersTrust'
  BY DEF SwappersTrust, Trusts

(* and of the sleep of the system.                                          *)
LEMMA SleepStays ==
  ASSUME SleepInv, UNCHANGED swapChain, system'.asleep = system.asleep,
         \A f \in FBs : screen'[f].sEarlySuspend = screen[f].sEarlySuspend,
         gapsDevInfo \subseteq gapsDevInfo' \/ loader'.pc \in Leaving,
         loader.pc \in Leaving => loader'.pc \in Leaving,
         slips \subseteq slips'
  PROVE  SleepInv'
  BY DEF SleepInv, Driver!FlagHonest

(* To the next frame buffer, or to the end of the load.                     *)
LEMMA NextIs ==
  ASSUME Driver!FBsOK, NEW f \in FBs, Driver!NextFB(f)
  PROVE  /\ loader' \in [pc : {"probe", "done"}, fb : FBs]
         /\ loader'.pc = "probe" => loader'.fb = f - 1
<1>1. CASE f = 0
  BY <1>1, FBsNumbered DEF Driver!NextFB
<1>2. CASE f # 0
  BY <1>2, FBsNumbered DEF Driver!NextFB
<1> QED
  BY <1>1, <1>2

(* The load leaves the chains, the handlers and the blanks alone.           *)
LoadsOnly ==
    /\ UNCHANGED <<opens, swapChain, notifier, swapWork, swapper, system>>
    /\ \A f \in FBs : /\ screen'[f].shown = screen[f].shown
                      /\ screen'[f].sBlankEvents = screen[f].sBlankEvents
                      /\ screen'[f].settled = screen[f].settled
                      /\ screen'[f].sEarlySuspend = screen[f].sEarlySuspend
    /\ slips \subseteq slips'
    /\ loader.pc \in LoadSteps /\ loader'.pc \in LoadSteps \cup {"done"}
    /\ gapsDevInfo \subseteq gapsDevInfo'

(* So it keeps what is said of them.                                        *)
LEMMA LoadKeepsRest ==
  ASSUME DriverInv, LoadsOnly
  PROVE  ChainsOpen' /\ SwappersTrust' /\ SleepInv'
<1> USE DEF DriverInv, LoadsOnly
<1>1. ChainsOpen'
  BY NoChainMoves DEF ChainsOpen, LoadSteps, Leaving
<1>2. SwappersTrust'
  BY TrustStays
<1>3. SleepInv'
  BY SleepStays DEF LoadSteps, Leaving
<1> QED
  BY <1>1, <1>2, <1>3

(* What the load of one frame buffer leaves of what is known of the others. *)
LoadsOne(f) ==
    /\ \A g \in FBs \ {f} : held'[g] = held[g] /\ registered'[g] = registered[g]
    /\ "open" \in slips' <=> "open" \in slips
    /\ opens' = opens

(* A step of the load of one frame buffer that leaves more to do,           *)
LEMMA StillLoading ==
  ASSUME Driver!FBsOK, DriverInv, NEW f \in FBs, LoadsOne(f), loader.fb = f,
         loader.pc \in LoadSteps, gapsDevInfo' = gapsDevInfo,
         loader'.pc \in LoadSteps, loader'.fb = f,
         loader'.pc # "probe",
         loader'.pc = "device" => registered'[f] = {},
         loader'.pc = "commands" => registered'[f] = {"device"},
         loader'.pc = "ready" => registered'[f] = {"device", "commands"}
  PROVE  LoadInv'
<1>0. f \in Nat
  BY FBIsNat
<1>1. loader'.pc \in {"device", "commands", "ready"} /\ f \notin gapsDevInfo /\ "open" \notin slips
  BY <1>0 DEF DriverInv, LoadInv, LoadSteps, Leaving
<1>2. Driver!AllOrNothing'
  BY <1>1 DEF DriverInv, LoadInv, LoadsOne, Driver!AllOrNothing, Driver!Probing
<1> QED
  BY <1>1, <1>2 DEF DriverInv, LoadInv, LoadsOne

(* and the one after which it takes the next.                               *)
LEMMA MovesOn ==
  ASSUME Driver!FBsOK, DriverInv, NEW f \in FBs, LoadsOne(f), loader.fb = f,
         loader.pc \in LoadSteps, Driver!NextFB(f),
         \/ gapsDevInfo' = gapsDevInfo /\ held'[f] = {} /\ registered'[f] = {}
         \/ /\ gapsDevInfo' = gapsDevInfo \cup {f}
            /\ held'[f] = Driver!Everything /\ registered'[f] = {"device", "commands"}
  PROVE  LoadInv'
<1>1. /\ loader'.pc \in {"probe", "done"} /\ (loader'.pc = "probe" => loader'.fb = f - 1)
      /\ "open" \notin slips /\ f \in Nat /\ f \notin gapsDevInfo
      /\ \A g \in FBs : g \in Nat /\ (g <= f => g \notin gapsDevInfo)
  <2>1. f \in Nat /\ \A g \in FBs : g \in Nat
    BY FBIsNat
  <2>2. loader'.pc \in {"probe", "done"} /\ (loader'.pc = "probe" => loader'.fb = f - 1)
    BY NextIs
  <2>3. "open" \notin slips /\ \A g \in FBs : g <= f => g \notin gapsDevInfo
    BY DEF DriverInv, LoadInv, LoadSteps, Leaving
  <2> QED
    BY <2>1, <2>2, <2>3
<1>2. \A g \in FBs : g <= f - 1 => g <= f /\ g # f
  <2>1. f \in Nat /\ \A g \in FBs : g \in Nat
    BY FBIsNat
  <2> QED
    BY <2>1
<1>3. \A g \in FBs \ {f} : g \in gapsDevInfo' <=> g \in gapsDevInfo
  OBVIOUS
<1>4. Driver!AllOrNothing'
  <2>1. \A g \in FBs \ {f} : ~Driver!Probing(g)
    BY DEF Driver!Probing
  <2>2. \A g \in FBs : ~Driver!Probing(g)'
    BY <1>1 DEF Driver!Probing
  <2>3. /\ \A g \in FBs \ {f} : held'[g] = held[g] /\ registered'[g] = registered[g]
        /\ opens' = opens /\ Driver!AllOrNothing
    BY DEF DriverInv, LoadInv, LoadsOne
  <2> QED
    BY <1>1, <1>3, <2>1, <2>2, <2>3 DEF Driver!AllOrNothing
<1>5. \A g \in FBs : g <= f - 1 => g \notin gapsDevInfo'
  BY <1>1, <1>2, <1>3
<1>6. loader'.pc \in LoadSteps => \A g \in FBs : g <= loader'.fb => g \notin gapsDevInfo'
  BY <1>1, <1>5 DEF LoadSteps
<1>7. "open" \notin slips'
  BY <1>1 DEF LoadsOne
<1>8. loader'.pc # "device" /\ loader'.pc # "commands" /\ loader'.pc # "ready"
  BY <1>1
<1> QED
  BY <1>4, <1>6, <1>7, <1>8, Zenon DEF LoadInv

(* A step of the load of one frame buffer.                                  *)
LEMMA LoadStepKeeps ==
  ASSUME Driver!FBsOK, DriverInv, NEW f \in FBs,
         \/ Driver!InitFBDev(f) \/ Driver!RegisterDCDevice(f)
         \/ Driver!RegisterCmdProcList(f) \/ Driver!InitLocks(f)
  PROVE  DriverInv'
<1> USE DEF LoadSteps
<1>1. DriverTypes
  BY DEF DriverInv
<1>2. /\ loader.fb = f /\ f \in Nat /\ f \notin gapsDevInfo /\ "open" \notin slips
      /\ loader.pc = "probe" => held[f] = {} /\ registered[f] = {}
  <2>1. loader.fb = f /\ loader.pc \in LoadSteps
    BY DEF Driver!InitFBDev, Driver!RegisterDCDevice, Driver!RegisterCmdProcList,
           Driver!InitLocks
  <2>2. f \in Nat
    BY FBIsNat
  <2>3. "open" \notin slips /\ f \notin gapsDevInfo
    BY <2>1, <2>2 DEF DriverInv, LoadInv, Leaving
  <2> QED
    BY <2>1, <2>2, <2>3 DEF DriverInv, LoadInv, Driver!AllOrNothing, Driver!Probing
<1>3. DriverTypes' /\ LoadsOnly
  <2>1. CASE Driver!InitFBDev(f)
    <3>1. CASE Driver!NextFB(f) /\ UNCHANGED <<held, screen>>
      BY <1>1, <2>1, <3>1, NextIs DEF Driver!InitFBDev, DriverTypes, LoadsOnly
    <3>2. CASE ~(Driver!NextFB(f) /\ UNCHANGED <<held, screen>>)
      <4>1. PICK n \in BufferCounts : screen' = [screen EXCEPT ![f].room = n]
        BY <2>1, <3>2 DEF Driver!InitFBDev
      <4>2. n \in Nat
        BY DEF Driver!FBsOK
      <4>3. /\ screen' \in [FBs -> Screen]
            /\ \A g \in FBs : /\ screen'[g].shown = screen[g].shown
                              /\ screen'[g].sBlankEvents = screen[g].sBlankEvents
                              /\ screen'[g].settled = screen[g].settled
                              /\ screen'[g].sEarlySuspend = screen[g].sEarlySuspend
        <5> DEFINE t == [screen[f] EXCEPT !.room = n]
        <5>1. screen \in [FBs -> Screen] /\ screen[f] \in Screen
          BY <1>1 DEF DriverTypes
        <5>2. /\ t \in Screen /\ t.shown = screen[f].shown /\ t.settled = screen[f].settled
              /\ t.sBlankEvents = screen[f].sBlankEvents
              /\ t.sEarlySuspend = screen[f].sEarlySuspend
          BY <4>2, <5>1 DEF Screen
        <5>3. screen' = [screen EXCEPT ![f] = t]
          BY <4>1
        <5> HIDE DEF t
        <5> QED
          BY <5>1, <5>2, <5>3
      <4>4. loader' \in [pc : LoadSteps, fb : FBs]
        BY <1>1, <2>1, <3>2 DEF Driver!InitFBDev, DriverTypes
      <4>5. held' \in [FBs -> SUBSET Driver!Everything]
        <5>1. held' = [held EXCEPT ![f] = {"info", "framebuffer"}]
          BY <2>1, <3>2 DEF Driver!InitFBDev
        <5>2. {"info", "framebuffer"} \in SUBSET Driver!Everything
          BY DEF Driver!Everything
        <5> QED
          BY <1>1, <5>1, <5>2 DEF DriverTypes
      <4> QED
        BY <1>1, <2>1, <4>3, <4>4, <4>5 DEF Driver!InitFBDev, DriverTypes, LoadsOnly
    <3> QED
      BY <3>1, <3>2
  <2>2. CASE Driver!RegisterDCDevice(f)
    <3>1. loader' \in [pc : LoadSteps \cup {"done"}, fb : FBs]
      BY <1>1, <2>2, NextIs DEF Driver!RegisterDCDevice, DriverTypes
    <3>2. /\ held' \in [FBs -> SUBSET Driver!Everything]
          /\ registered' \in [FBs -> SUBSET {"device", "commands"}]
      <4>1. registered[f] \cup {"commands"} \in SUBSET {"device", "commands"}
        BY <1>1 DEF DriverTypes
      <4>2. /\ held' = held \/ held' = [held EXCEPT ![f] = {}]
            /\ \/ registered' = registered \/ registered' = [registered EXCEPT ![f] = {}]
               \/ registered' = [registered EXCEPT ![f] = {"device"}]
               \/ registered' = [registered EXCEPT ![f] = registered[f] \cup {"commands"}]
        BY <2>2 DEF Driver!RegisterDCDevice
      <4>3. /\ held \in [FBs -> SUBSET Driver!Everything]
            /\ registered \in [FBs -> SUBSET {"device", "commands"}]
        BY <1>1 DEF DriverTypes
      <4> QED
        BY <4>1, <4>2, <4>3
    <3> QED
      BY <1>1, <2>2, <3>1, <3>2 DEF Driver!RegisterDCDevice, DriverTypes, LoadsOnly
  <2>3. CASE Driver!RegisterCmdProcList(f)
    <3>1. loader' \in [pc : LoadSteps \cup {"done"}, fb : FBs]
      BY <1>1, <2>3, NextIs DEF Driver!RegisterCmdProcList, DriverTypes
    <3>2. /\ held' \in [FBs -> SUBSET Driver!Everything]
          /\ registered' \in [FBs -> SUBSET {"device", "commands"}]
      <4>1. registered[f] \cup {"commands"} \in SUBSET {"device", "commands"}
        BY <1>1 DEF DriverTypes
      <4>2. /\ held' = held \/ held' = [held EXCEPT ![f] = {}]
            /\ \/ registered' = registered \/ registered' = [registered EXCEPT ![f] = {}]
               \/ registered' = [registered EXCEPT ![f] = {"device"}]
               \/ registered' = [registered EXCEPT ![f] = registered[f] \cup {"commands"}]
        BY <2>3 DEF Driver!RegisterCmdProcList
      <4>3. /\ held \in [FBs -> SUBSET Driver!Everything]
            /\ registered \in [FBs -> SUBSET {"device", "commands"}]
        BY <1>1 DEF DriverTypes
      <4> QED
        BY <4>1, <4>2, <4>3
    <3> QED
      BY <1>1, <2>3, <3>1, <3>2 DEF Driver!RegisterCmdProcList, DriverTypes, LoadsOnly
  <2>4. CASE Driver!InitLocks(f)
    <3>1. loader' \in [pc : LoadSteps \cup {"done"}, fb : FBs]
      BY <1>1, <2>4, NextIs DEF Driver!InitLocks, DriverTypes
    <3> QED
      BY <1>1, <2>4, <3>1 DEF Driver!InitLocks, DriverTypes, LoadsOnly
  <2> QED
    BY <2>1, <2>2, <2>3, <2>4
<1>4. LoadInv'
  <2>1. CASE Driver!InitFBDev(f)
    <3>1. CASE Driver!NextFB(f) /\ UNCHANGED <<held, screen>>
      <4>1. LoadsOne(f) /\ held'[f] = {} /\ registered'[f] = {} /\ gapsDevInfo' = gapsDevInfo
        BY <1>2, <2>1, <3>1 DEF Driver!InitFBDev, LoadsOne
      <4> QED
        BY <1>2, <2>1, <3>1, <4>1, MovesOn DEF Driver!InitFBDev
    <3>2. CASE ~(Driver!NextFB(f) /\ UNCHANGED <<held, screen>>)
      <4>1. /\ LoadsOne(f) /\ registered'[f] = {} /\ gapsDevInfo' = gapsDevInfo
            /\ loader'.pc = "device" /\ loader'.fb = f
        BY <1>1, <1>2, <2>1, <3>2 DEF Driver!InitFBDev, LoadsOne, DriverTypes
      <4> QED
        BY <1>2, <2>1, <4>1, StillLoading DEF Driver!InitFBDev
    <3> QED
      BY <3>1, <3>2
  <2>2. CASE Driver!RegisterDCDevice(f)
    <3>1. registered[f] = {}
      BY <1>2, <2>2 DEF Driver!RegisterDCDevice, DriverInv, LoadInv
    <3>2. CASE loader'.pc = "commands"
      <4>1. /\ LoadsOne(f) /\ registered'[f] = {"device"} /\ gapsDevInfo' = gapsDevInfo
            /\ loader'.fb = f
        BY <1>1, <1>2, <2>2, <3>2 DEF Driver!RegisterDCDevice, LoadsOne, DriverTypes, Driver!NextFB
      <4> QED
        BY <1>2, <2>2, <3>2, <4>1, StillLoading DEF Driver!RegisterDCDevice
    <3>3. CASE loader'.pc # "commands"
      <4>1. /\ LoadsOne(f) /\ held'[f] = {} /\ registered'[f] = {} /\ gapsDevInfo' = gapsDevInfo
            /\ Driver!NextFB(f)
        BY <1>1, <1>2, <2>2, <3>1, <3>3 DEF Driver!RegisterDCDevice, LoadsOne, DriverTypes
      <4> QED
        BY <1>2, <2>2, <4>1, MovesOn DEF Driver!RegisterDCDevice
    <3> QED
      BY <3>2, <3>3
  <2>3. CASE Driver!RegisterCmdProcList(f)
    <3>1. registered[f] = {"device"}
      BY <1>2, <2>3 DEF Driver!RegisterCmdProcList, DriverInv, LoadInv
    <3>2. CASE loader'.pc = "ready"
      <4>1. /\ LoadsOne(f) /\ registered'[f] = {"device", "commands"}
            /\ gapsDevInfo' = gapsDevInfo /\ loader'.fb = f
        BY <1>1, <1>2, <2>3, <3>1, <3>2
           DEF Driver!RegisterCmdProcList, LoadsOne, DriverTypes, Driver!NextFB
      <4> QED
        BY <1>2, <2>3, <3>2, <4>1, StillLoading DEF Driver!RegisterCmdProcList
    <3>3. CASE loader'.pc # "ready"
      <4>1. /\ LoadsOne(f) /\ held'[f] = {} /\ registered'[f] = {} /\ gapsDevInfo' = gapsDevInfo
            /\ Driver!NextFB(f)
        BY <1>1, <1>2, <2>3, <3>3 DEF Driver!RegisterCmdProcList, LoadsOne, DriverTypes
      <4> QED
        BY <1>2, <2>3, <4>1, MovesOn DEF Driver!RegisterCmdProcList
    <3> QED
      BY <3>2, <3>3
  <2>4. CASE Driver!InitLocks(f)
    <3>1. /\ LoadsOne(f) /\ gapsDevInfo' = gapsDevInfo \cup {f} /\ Driver!NextFB(f)
          /\ held'[f] = Driver!Everything /\ registered'[f] = {"device", "commands"}
      BY <1>1, <1>2, <2>4 DEF Driver!InitLocks, LoadsOne, DriverTypes, DriverInv, LoadInv
    <3> QED
      BY <1>2, <2>4, <3>1, MovesOn DEF Driver!InitLocks
  <2> QED
    BY <2>1, <2>2, <2>3, <2>4
<1> QED
  BY <1>3, <1>4, LoadKeepsRest DEF DriverInv

(* The unload of one frame buffer.                                          *)
LEMMA DeInitKeeps ==
  ASSUME Driver!FBsOK, DriverInv, NEW f \in FBs, Driver!DeInitDev(f)
  PROVE  DriverInv'
<1>1. /\ loader.pc = "leave" /\ loader'.pc \in Leaving /\ slips \subseteq slips'
      /\ UNCHANGED <<opens, swapChain, notifier, screen, swapWork, swapper, system>>
  BY DEF Driver!DeInitDev, Leaving
<1>2. DriverTypes'
  <2>1. loader' \in [pc : LoadSteps \cup {"done"} \cup Leaving, fb : FBs]
    BY FBsNumbered DEF Driver!DeInitDev, Leaving
  <2>2. /\ held' \in [FBs -> SUBSET Driver!Everything]
        /\ registered' \in [FBs -> SUBSET {"device", "commands"}] /\ gapsDevInfo' \subseteq FBs
    <3>1. /\ held \in [FBs -> SUBSET Driver!Everything]
          /\ registered \in [FBs -> SUBSET {"device", "commands"}] /\ gapsDevInfo \subseteq FBs
      BY DEF DriverInv, DriverTypes
    <3>2. /\ \/ held' = [held EXCEPT ![f] = held[f] \ {"lock"}]
             \/ held' = [held EXCEPT ![f] = {}]
          /\ \/ registered' = [registered EXCEPT ![f] = {"device"}]
             \/ registered' = [registered EXCEPT ![f] = {}]
          /\ gapsDevInfo' = gapsDevInfo \/ gapsDevInfo' = gapsDevInfo \ {f}
      BY DEF Driver!DeInitDev
    <3>3. held[f] \ {"lock"} \in SUBSET Driver!Everything
      BY <3>1
    <3> QED
      BY <3>1, <3>2, <3>3
  <2> QED
    BY <1>1, <2>1, <2>2 DEF DriverInv, DriverTypes
<1>3. Driver!AllOrNothing'
  <2>1. SUFFICES ASSUME "open" \notin slips' PROVE Driver!AllOrNothing'
    BY DEF Driver!AllOrNothing
  <2>2. /\ f \notin gapsDevInfo \cap opens /\ gapsDevInfo' = gapsDevInfo \ {f}
        /\ "open" \notin slips
        /\ held' = [held EXCEPT ![f] = {}] /\ registered' = [registered EXCEPT ![f] = {}]
    BY <2>1 DEF Driver!DeInitDev
  <2>3. held'[f] = {} /\ registered'[f] = {}
        /\ \A g \in FBs \ {f} : held'[g] = held[g] /\ registered'[g] = registered[g]
    BY <2>2 DEF DriverInv, DriverTypes
  <2>4. Driver!AllOrNothing /\ \A g \in FBs : ~Driver!Probing(g)
    BY <1>1 DEF DriverInv, LoadInv, Driver!Probing
  <2> QED
    BY <1>1, <2>2, <2>3, <2>4 DEF Driver!AllOrNothing
<1>4. LoadInv'
  BY <1>1, <1>3 DEF LoadInv, LoadSteps, Leaving
<1>5. ChainsOpen'
  BY <1>1, NoChainMoves DEF DriverInv, ChainsOpen, Leaving
<1>6. SwappersTrust'
  BY <1>1, TrustStays DEF DriverInv
<1>7. SleepInv'
  BY <1>1, SleepStays DEF DriverInv
<1> QED
  BY <1>2, <1>4, <1>5, <1>6, <1>7 DEF DriverInv

(* The beginning of the unload.                                             *)
LEMMA UnloadStarts ==
  ASSUME Driver!FBsOK, DriverInv, Driver!OMAPLFBDeInit
  PROVE  DriverInv'
<1>1. /\ loader.pc = "done" /\ loader' = [pc |-> "leave", fb |-> 0]
      /\ \A f \in FBs : swapChain[f] = <<>>
      /\ UNCHANGED <<held, gapsDevInfo, registered, opens, swapChain, notifier, screen, swapWork,
                     swapper, system, slips>>
  BY DEF Driver!OMAPLFBDeInit, Driver!HasChain
<1>2. DriverTypes'
  BY <1>1, FBsNumbered DEF DriverInv, DriverTypes, Leaving
<1>3. LoadInv'
  <2>1. Driver!AllOrNothing /\ \A g \in FBs : ~Driver!Probing(g)
    BY <1>1 DEF DriverInv, LoadInv, Driver!Probing
  <2>2. Driver!AllOrNothing'
    BY <1>1, <2>1 DEF Driver!AllOrNothing
  <2> QED
    BY <1>1, <2>2 DEF LoadInv, LoadSteps, Leaving
<1>4. ChainsOpen' /\ SwappersTrust' /\ SleepInv'
  BY <1>1, NoChainMoves, TrustStays, SleepStays DEF DriverInv, Leaving
<1> QED
  BY <1>2, <1>3, <1>4 DEF DriverInv

(* What a step does to what a frame buffer shows that is no flip: it may    *)
(* count one blank event more.                                              *)
Blanks(s, t) ==
    /\ s \in Screen /\ t \in Screen /\ t.shown = s.shown
    /\ \/ t.sBlankEvents = s.sBlankEvents /\ t.settled = s.settled
       \/ t.sBlankEvents = s.sBlankEvents + 1 /\ t.settled = 0

(* An event of the frame buffer is such a step.                             *)
LEMMA EventCounts ==
  ASSUME NEW f, NEW s \in Screen, NEW dark \in BOOLEAN
  PROVE  /\ Blanks(s, Driver!OMAPLFBFrameBufferEvents(f, s, dark))
         /\ Driver!OMAPLFBFrameBufferEvents(f, s, dark).sEarlySuspend = s.sEarlySuspend
<1>1. CASE notifier[f] = "on"
  <2> DEFINE t == [s EXCEPT !.dark = dark, !.sBlanked = dark,
                            !.sBlankEvents = s.sBlankEvents + 1, !.settled = 0]
  <2>1. t = Driver!OMAPLFBFrameBufferEvents(f, s, dark)
    BY <1>1 DEF Driver!OMAPLFBFrameBufferEvents
  <2>2. t \in Screen
    <3>0. PICK n \in Nat : n = s.sBlankEvents + 1
      BY DEF Screen
    <3> DEFINE u == [s EXCEPT !.sBlankEvents = n, !.settled = 0]
    <3>1. u \in Screen
      BY DEF Screen
    <3>2. t = [u EXCEPT !.dark = dark, !.sBlanked = dark]
      BY <3>0 DEF Screen
    <3> HIDE DEF t, u
    <3> QED
      BY <3>1, <3>2 DEF Screen
  <2>3. /\ t.shown = s.shown /\ t.sBlankEvents = s.sBlankEvents + 1 /\ t.settled = 0
        /\ t.sEarlySuspend = s.sEarlySuspend
    BY DEF Screen
  <2> HIDE DEF t
  <2> QED
    BY <2>1, <2>2, <2>3, Zenon DEF Blanks
<1>2. CASE notifier[f] # "on"
  <2> DEFINE t == [s EXCEPT !.dark = dark]
  <2>1. t = Driver!OMAPLFBFrameBufferEvents(f, s, dark)
    BY <1>2 DEF Driver!OMAPLFBFrameBufferEvents
  <2>2. t \in Screen
    BY DEF Screen
  <2>3. /\ t.shown = s.shown /\ t.sBlankEvents = s.sBlankEvents /\ t.settled = s.settled
        /\ t.sEarlySuspend = s.sEarlySuspend
    BY DEF Screen
  <2> HIDE DEF t
  <2> QED
    BY <2>1, <2>2, <2>3, Zenon DEF Blanks
<1> QED
  BY <1>1, <1>2

(* A handler that noted the blanks it had seen notices one more.            *)
LEMMA BlankNoticed ==
  ASSUME NEW c \in ChainKind, NEW s, NEW t, NEW w \in Swappers, SettleCount \in Nat,
         Blanks(s, t), Trusts(c, s, w)
  PROVE  Trusts(c, t, w)
<1>1. s.sBlankEvents \in Nat /\ s.settled \in Nat /\ c.iBlankEvents \in Nat
  BY DEF Blanks, Screen, ChainKind
<1>2. CASE t.sBlankEvents = s.sBlankEvents /\ t.settled = s.settled
  BY <1>2 DEF Trusts
<1>3. CASE t.sBlankEvents = s.sBlankEvents + 1
  <2>1. /\ c.iBlankEvents <= t.sBlankEvents /\ c.iBlankEvents # t.sBlankEvents
    BY <1>1, <1>3 DEF Trusts
  <2>2. w.pc = "idle" \/ w.pc = "check" \/ w.pc = "wait" \/ w.pc = "vsync" \/ w.pc = "complete"
    BY DEF Swappers, Swapping, Driver!Idle
  <2> QED
    BY <2>1, <2>2 DEF Trusts
<1> QED
  BY <1>2, <1>3 DEF Blanks

(* Such steps keep all but what is said of the sleep of the system.         *)
LEMMA BlanksKeep ==
  ASSUME Driver!FBsOK, DriverInv,
         UNCHANGED <<loader, held, gapsDevInfo, registered, swapChain, notifier, swapWork,
                     swapper, slips>>,
         screen' \in [FBs -> Screen], \A f \in FBs : Blanks(screen[f], screen'[f]),
         opens' \subseteq FBs, \A f \in opens' : f \in opens \/ f \in gapsDevInfo,
         \A f \in opens \ opens' : swapChain[f] = <<>>,
         system' \in System
  PROVE  DriverTypes' /\ LoadInv' /\ ChainsOpen' /\ SwappersTrust'
<1>1. DriverTypes'
  BY DEF DriverInv, DriverTypes
<1>2. LoadInv'
  BY LoadStays DEF DriverInv
<1>3. ChainsOpen'
  <2>1. \A f \in FBs : swapChain[f] # <<>> => f \in opens' /\ loader'.pc \notin Leaving
    BY DEF DriverInv, ChainsOpen
  <2> QED
    BY <2>1, NoChainMoves DEF DriverInv, Blanks
<1>4. SwappersTrust'
  <2>1. SUFFICES ASSUME NEW f \in FBs, swapChain[f] # <<>>
                 PROVE  Trusts(swapChain[f][1], screen'[f], swapper[f])
    BY DEF SwappersTrust
  <2>2. swapChain[f][1] \in ChainKind /\ swapper[f] \in Swappers
    <3>1. swapChain[f] \in Seq(ChainKind) /\ swapper[f] \in Swappers
      BY DEF DriverInv, DriverTypes
    <3> QED
      BY <2>1, <3>1
  <2>3. Trusts(swapChain[f][1], screen[f], swapper[f])
    BY <2>1 DEF DriverInv, SwappersTrust
  <2>4. SettleCount \in Nat
    BY DEF Driver!FBsOK
  <2> QED
    BY <2>2, <2>3, <2>4, BlankNoticed
<1> QED
  BY <1>1, <1>2, <1>3, <1>4

(* Blanks, the flush state, and devices that open and close.                *)
LEMMA DevicesKeep ==
  ASSUME Driver!FBsOK, DriverInv, NEW f \in FBs,
         \/ Driver!BlankedByOthers(f) \/ Driver!OpenDCDevice(f) \/ Driver!CloseDCDevice(f)
         \/ Driver!SetDCState(f)
  PROVE  DriverInv'
<1>1. /\ screen \in [FBs -> Screen] /\ screen[f] \in Screen /\ gapsDevInfo \subseteq FBs
      /\ opens \subseteq FBs /\ system \in System
  BY DEF DriverInv, DriverTypes
<1>2. PICK t \in Screen : /\ screen' = [screen EXCEPT ![f] = t] /\ Blanks(screen[f], t)
                          /\ t.sEarlySuspend = screen[f].sEarlySuspend
  <2>1. CASE Driver!BlankedByOthers(f) \/ Driver!OpenDCDevice(f)
    <3>1. PICK dark \in BOOLEAN :
            screen' = [screen EXCEPT ![f] = Driver!OMAPLFBFrameBufferEvents(f, screen[f], dark)]
      BY <2>1 DEF Driver!BlankedByOthers, Driver!OpenDCDevice
    <3>2. /\ Blanks(screen[f], Driver!OMAPLFBFrameBufferEvents(f, screen[f], dark))
          /\ Driver!OMAPLFBFrameBufferEvents(f, screen[f], dark).sEarlySuspend
                = screen[f].sEarlySuspend
      BY <1>1, EventCounts
    <3> QED
      BY <3>1, <3>2, Zenon DEF Blanks
  <2>2. CASE Driver!CloseDCDevice(f)
    <3>1. screen' = [screen EXCEPT ![f] = screen[f]] /\ Blanks(screen[f], screen[f])
      BY <1>1, <2>2 DEF Driver!CloseDCDevice, Blanks
    <3> QED
      BY <1>1, <3>1, Zenon
  <2>3. CASE Driver!SetDCState(f)
    <3> DEFINE t == [screen[f] EXCEPT !.sFlush = ~screen[f].sFlush]
    <3>1. screen' = [screen EXCEPT ![f] = t]
      BY <2>3 DEF Driver!SetDCState
    <3>2. t \in Screen /\ t.shown = screen[f].shown /\ t.sBlankEvents = screen[f].sBlankEvents
          /\ t.settled = screen[f].settled /\ t.sEarlySuspend = screen[f].sEarlySuspend
      BY <1>1 DEF Screen
    <3> HIDE DEF t
    <3>3. Blanks(screen[f], t)
      BY <1>1, <3>2 DEF Blanks
    <3> QED
      BY <3>1, <3>2, <3>3
  <2> QED
    BY <2>1, <2>2, <2>3
<1>3. /\ screen' \in [FBs -> Screen]
      /\ \A g \in FBs : /\ Blanks(screen[g], screen'[g])
                        /\ screen'[g].sEarlySuspend = screen[g].sEarlySuspend
  <2>1. \A g \in FBs : Blanks(screen[g], screen[g])
    BY <1>1 DEF Blanks
  <2>2. screen' \in [FBs -> Screen] /\ screen'[f] = t /\ \A g \in FBs \ {f} : screen'[g] = screen[g]
    BY <1>1, <1>2
  <2> QED
    BY <1>2, <2>1, <2>2
<1>4. /\ UNCHANGED <<loader, held, gapsDevInfo, registered, swapChain, notifier, swapWork,
                     swapper, slips>>
      /\ \/ opens' = opens \/ (opens' = opens \cup {f} /\ f \in gapsDevInfo)
         \/ opens' = opens \ {f} /\ swapChain[f] = <<>>
      /\ \/ system' = system
         \/ \E n \in {0, 1} : system' = [system EXCEPT !.blanks = system.blanks + n]
  <2>1. CASE Driver!BlankedByOthers(f)
    BY <2>1 DEF Driver!BlankedByOthers
  <2>2. CASE Driver!OpenDCDevice(f) \/ Driver!CloseDCDevice(f) \/ Driver!SetDCState(f)
    BY <2>2 DEF Driver!OpenDCDevice, Driver!CloseDCDevice, Driver!SetDCState, Driver!HasChain
  <2> QED
    BY <2>1, <2>2
<1>5. system' \in System /\ system'.asleep = system.asleep
  BY <1>1, <1>4 DEF System
<1>6. /\ opens' \subseteq FBs /\ \A g \in opens' : g \in opens \/ g \in gapsDevInfo
      /\ \A g \in opens \ opens' : swapChain[g] = <<>>
  BY <1>1, <1>4
<1>7. DriverTypes' /\ LoadInv' /\ ChainsOpen' /\ SwappersTrust'
  BY <1>3, <1>4, <1>5, <1>6, BlanksKeep
<1>8. SleepInv'
  BY <1>3, <1>4, <1>5, SleepStays DEF DriverInv
<1> QED
  BY <1>7, <1>8 DEF DriverInv

(* A step of early suspend, or of the resume, goes on.                      *)
LEMMA EarlySuspendIs ==
  ASSUME DriverInv, NEW to \in {"no", "flagged", "yes", "waking"},
         NEW Changed \in [FBs -> Screen],
         Driver!Running, \E f \in FBs : Driver!HasChain(f),
         system' = [system EXCEPT !.asleep = to,
                                  !.sleeps = @ + IF system.asleep = "no" THEN 1 ELSE 0],
         screen' = [f \in FBs |-> IF f \in gapsDevInfo THEN Changed[f] ELSE screen[f]]
  PROVE  /\ loader.pc \notin Leaving /\ "open" \notin slips
         /\ system' \in System /\ system'.asleep = to
         /\ screen' \in [FBs -> Screen]
         /\ \A f \in gapsDevInfo : screen'[f] = Changed[f]
         /\ \A f \in FBs \ gapsDevInfo : screen'[f] = screen[f] /\ ~screen[f].sEarlySuspend
         /\ \A f \in FBs : swapChain[f] # <<>> => f \in gapsDevInfo
         /\ \E f \in FBs : swapChain[f] # <<>>
<1>1. loader.pc \notin Leaving /\ "open" \notin slips
  BY DEF Driver!Running, DriverInv, LoadInv, Leaving
<1>2. system' \in System /\ system'.asleep = to
  <2>1. system \in System
    BY DEF DriverInv, DriverTypes
  <2>2. PICK n \in Nat : system' = [system EXCEPT !.asleep = to, !.sleeps = n]
    <3>1. system.sleeps + 1 \in Nat /\ system.sleeps + 0 \in Nat
      BY <2>1 DEF System
    <3> QED
      BY <3>1, Zenon
  <2> QED
    BY <2>1, <2>2 DEF System
<1>3. /\ screen' \in [FBs -> Screen]
      /\ \A f \in gapsDevInfo : screen'[f] = Changed[f]
      /\ \A f \in FBs \ gapsDevInfo : screen'[f] = screen[f]
  BY DEF DriverInv, DriverTypes
<1>4. \A f \in FBs : screen[f].sEarlySuspend => f \in gapsDevInfo
  BY <1>1 DEF DriverInv, SleepInv
<1>5. \A f \in FBs : swapChain[f] # <<>> => f \in gapsDevInfo
  BY <1>1 DEF DriverInv, ChainsOpen, LoadInv, Driver!AllOrNothing
<1>6. \E f \in FBs : swapChain[f] # <<>>
  BY DEF Driver!HasChain
<1> QED
  BY <1>1, <1>2, <1>3, <1>4, <1>5, <1>6

(* Early suspend sets the flags, then blanks; the resume unblanks, then     *)
(* clears them.                                                             *)
LEMMA SuspendKeeps ==
  ASSUME Driver!FBsOK, DriverInv,
         Driver!OMAPLFBEarlySuspendHandler \/ Driver!OMAPLFBEarlyResumeHandler
  PROVE  DriverInv'
<1>1. screen \in [FBs -> Screen] /\ gapsDevInfo \subseteq FBs /\ opens \subseteq FBs
  BY DEF DriverInv, DriverTypes
<1>2. PICK to \in {"no", "flagged", "yes", "waking"}, Changed \in [FBs -> Screen] :
        /\ system.asleep = CASE to = "flagged" -> "no" [] to = "yes" -> "flagged"
                             [] to = "waking" -> "yes" [] OTHER -> "waking"
        /\ system' = [system EXCEPT !.asleep = to,
                                    !.sleeps = @ + IF system.asleep = "no" THEN 1 ELSE 0]
        /\ screen' = [f \in FBs |-> IF f \in gapsDevInfo THEN Changed[f] ELSE screen[f]]
        /\ \A f \in FBs : /\ Blanks(screen[f], Changed[f])
                          /\ Changed[f].sEarlySuspend =
                                CASE to = "flagged" -> TRUE [] to = "no" -> FALSE
                                  [] OTHER -> screen[f].sEarlySuspend
        /\ Driver!Running /\ \E f \in FBs : Driver!HasChain(f)
        /\ UNCHANGED <<loader, held, gapsDevInfo, registered, opens, swapChain, notifier,
                       swapWork, swapper, slips>>
  <2> DEFINE Flags(flag) == [f \in FBs |-> [screen[f] EXCEPT !.sEarlySuspend = flag]]
             Events(dark) == [f \in FBs |-> Driver!OMAPLFBFrameBufferEvents(f, screen[f], dark)]
  <2>1. \A flag \in BOOLEAN : /\ Flags(flag) \in [FBs -> Screen]
                              /\ \A f \in FBs : /\ Blanks(screen[f], Flags(flag)[f])
                                                /\ Flags(flag)[f].sEarlySuspend = flag
    <3>1. SUFFICES ASSUME NEW flag \in BOOLEAN, NEW f \in FBs
                   PROVE  /\ [screen[f] EXCEPT !.sEarlySuspend = flag] \in Screen
                          /\ Blanks(screen[f], [screen[f] EXCEPT !.sEarlySuspend = flag])
                          /\ [screen[f] EXCEPT !.sEarlySuspend = flag].sEarlySuspend = flag
      OBVIOUS
    <3>2. screen[f] \in Screen
      BY <1>1
    <3> QED
      BY <3>2 DEF Screen, Blanks
  <2>2. \A dark \in BOOLEAN :
          /\ Events(dark) \in [FBs -> Screen]
          /\ \A f \in FBs : /\ Blanks(screen[f], Events(dark)[f])
                            /\ Events(dark)[f].sEarlySuspend = screen[f].sEarlySuspend
    BY <1>1, EventCounts DEF Blanks
  <2>3. CASE Driver!EarlySuspendStep("no", "flagged", LAMBDA f : Driver!Flagged(TRUE, f))
    <3>1. screen' = [f \in FBs |-> IF f \in gapsDevInfo THEN Flags(TRUE)[f] ELSE screen[f]]
      BY <2>3 DEF Driver!EarlySuspendStep, Driver!Flagged
    <3> HIDE DEF Flags
    <3> QED
      BY <2>1, <2>3, <3>1 DEF Driver!EarlySuspendStep
  <2>4. CASE Driver!EarlySuspendStep("flagged", "yes",
               LAMBDA f : Driver!OMAPLFBFrameBufferEvents(f, screen[f], TRUE))
    <3>1. screen' = [f \in FBs |-> IF f \in gapsDevInfo THEN Events(TRUE)[f] ELSE screen[f]]
      BY <2>4 DEF Driver!EarlySuspendStep
    <3> HIDE DEF Events
    <3> QED
      BY <2>2, <2>4, <3>1 DEF Driver!EarlySuspendStep
  <2>5. CASE Driver!EarlySuspendStep("yes", "waking",
               LAMBDA f : Driver!OMAPLFBFrameBufferEvents(f, screen[f], FALSE))
    <3>1. screen' = [f \in FBs |-> IF f \in gapsDevInfo THEN Events(FALSE)[f] ELSE screen[f]]
      BY <2>5 DEF Driver!EarlySuspendStep
    <3> HIDE DEF Events
    <3> QED
      BY <2>2, <2>5, <3>1 DEF Driver!EarlySuspendStep
  <2>6. CASE Driver!EarlySuspendStep("waking", "no", LAMBDA f : Driver!Flagged(FALSE, f))
    <3>1. screen' = [f \in FBs |-> IF f \in gapsDevInfo THEN Flags(FALSE)[f] ELSE screen[f]]
      BY <2>6 DEF Driver!EarlySuspendStep, Driver!Flagged
    <3> HIDE DEF Flags
    <3> QED
      BY <2>1, <2>6, <3>1 DEF Driver!EarlySuspendStep
  <2> QED
    BY <2>3, <2>4, <2>5, <2>6
       DEF Driver!OMAPLFBEarlySuspendHandler, Driver!OMAPLFBEarlyResumeHandler
<1>3. /\ loader.pc \notin Leaving /\ "open" \notin slips
      /\ system' \in System /\ system'.asleep = to
      /\ screen' \in [FBs -> Screen]
      /\ \A f \in gapsDevInfo : screen'[f] = Changed[f]
      /\ \A f \in FBs \ gapsDevInfo : screen'[f] = screen[f] /\ ~screen[f].sEarlySuspend
      /\ \A f \in FBs : swapChain[f] # <<>> => f \in gapsDevInfo
      /\ \E f \in FBs : swapChain[f] # <<>>
  <2>1. system' = [system EXCEPT !.asleep = to,
                                 !.sleeps = @ + IF system.asleep = "no" THEN 1 ELSE 0]
    BY <1>2
  <2>2. /\ Driver!Running /\ \E f \in FBs : Driver!HasChain(f)
        /\ screen' = [f \in FBs |-> IF f \in gapsDevInfo THEN Changed[f] ELSE screen[f]]
    BY <1>2
  <2> QED
    BY <2>1, <2>2, EarlySuspendIs
<1>4. DriverTypes' /\ LoadInv' /\ ChainsOpen' /\ SwappersTrust'
  <2>1. \A f \in FBs : Blanks(screen[f], screen'[f])
    <3>1. \A f \in FBs : Blanks(screen[f], screen[f])
      BY <1>1 DEF Blanks
    <3> QED
      BY <1>2, <1>3, <3>1
  <2> QED
    BY <1>1, <1>2, <1>3, <2>1, BlanksKeep
<1>5. SleepInv'
  <2>1. \A f \in FBs : /\ screen'[f].sEarlySuspend => f \in gapsDevInfo
                       /\ to = "no" => ~screen'[f].sEarlySuspend
    BY <1>2, <1>3 DEF DriverInv, SleepInv
  <2>2. to # "no" => \A f \in FBs : swapChain[f] # <<>> => screen'[f].sEarlySuspend
    <3>1. CASE to = "flagged"
      BY <1>2, <1>3, <3>1
    <3>2. CASE to \in {"yes", "waking"}
      BY <1>2, <1>3, <3>2 DEF DriverInv, SleepInv
    <3> QED
      BY <3>1, <3>2
  <2> QED
    BY <1>2, <1>3, <2>1, <2>2 DEF SleepInv, Driver!FlagHonest
<1> QED
  BY <1>4, <1>5 DEF DriverInv

(* The system wakes up with nobody to hear of it.                           *)
LEMMA UnheardKeeps ==
  ASSUME Driver!FBsOK, DriverInv, Driver!WakesUnheard
  PROVE  DriverInv'
<1>1. /\ system.asleep # "no" /\ system' = [system EXCEPT !.asleep = "no"]
      /\ \A f \in FBs : swapChain[f] = <<>>
      /\ UNCHANGED <<loader, held, gapsDevInfo, registered, opens, swapChain, notifier, screen,
                     swapWork, swapper, slips>>
  BY DEF Driver!WakesUnheard, Driver!HasChain
<1>2. system' \in System /\ system'.asleep = "no"
  BY <1>1 DEF DriverInv, DriverTypes, System
<1>3. DriverTypes' /\ LoadInv' /\ ChainsOpen' /\ SwappersTrust'
  <2>1. /\ screen \in [FBs -> Screen] /\ opens \subseteq FBs /\ UNCHANGED <<screen, opens>>
    BY <1>1 DEF DriverInv, DriverTypes
  <2>2. \A f \in FBs : Blanks(screen[f], screen'[f])
    BY <2>1 DEF Blanks
  <2> QED
    BY <1>1, <1>2, <2>1, <2>2, BlanksKeep
<1>4. SleepInv'
  BY <1>1, <1>2 DEF DriverInv, SleepInv, Driver!FlagHonest
<1> QED
  BY <1>3, <1>4 DEF DriverInv

(* A step of the chain of one frame buffer and its handler: the values it   *)
(* leaves, and what must be so for it to keep the invariant.                *)
Leaves(f, c, s, q, w, n) ==
    /\ c \in Seq(ChainKind) /\ s \in Screen /\ q \in Seq(FlipKind) /\ w \in Swappers
    /\ n \in {"off", "on", "loop"}
    /\ swapChain' = [swapChain EXCEPT ![f] = c] /\ screen' = [screen EXCEPT ![f] = s]
    /\ swapWork' = [swapWork EXCEPT ![f] = q] /\ swapper' = [swapper EXCEPT ![f] = w]
    /\ notifier' = [notifier EXCEPT ![f] = n]
    /\ UNCHANGED <<loader, held, gapsDevInfo, registered, opens>>
    /\ system' \in System /\ system'.asleep = system.asleep
    /\ slips \subseteq slips' /\ ("open" \in slips' => "open" \in slips)
    /\ s.sEarlySuspend = screen[f].sEarlySuspend

Allowed(f, c, s, q, w, n) ==
    /\ q # <<>> \/ w # Driver!Idle => c # <<>>
    /\ c = <<>> => s.shown = 0 /\ (n = "off" \/ "unblank" \in slips')
    /\ c # <<>> => f \in opens /\ loader.pc \notin Leaving /\ Trusts(c[1], s, w)
    /\ c # <<>> /\ swapChain[f] = <<>> => system.asleep = "no"
    /\ c = <<>> /\ swapChain[f] # <<>> /\ s.sEarlySuspend => "asleep" \in slips'

(* An allowed step keeps the invariant.                                     *)
LEMMA ChainStepKeeps ==
  ASSUME DriverInv, NEW f \in FBs, NEW c, NEW s, NEW q, NEW w, NEW n,
         Leaves(f, c, s, q, w, n), Allowed(f, c, s, q, w, n)
  PROVE  DriverInv'
<1>1. /\ swapChain \in [FBs -> Seq(ChainKind)] /\ screen \in [FBs -> Screen]
      /\ swapWork \in [FBs -> Seq(FlipKind)] /\ swapper \in [FBs -> Swappers]
      /\ notifier \in [FBs -> {"off", "on", "loop"}]
  BY DEF DriverInv, DriverTypes
<1>2. /\ swapChain' \in [FBs -> Seq(ChainKind)] /\ screen' \in [FBs -> Screen]
      /\ swapWork' \in [FBs -> Seq(FlipKind)] /\ swapper' \in [FBs -> Swappers]
      /\ notifier' \in [FBs -> {"off", "on", "loop"}]
  BY <1>1 DEF Leaves
<1>3. /\ swapChain'[f] = c /\ screen'[f] = s /\ swapWork'[f] = q /\ swapper'[f] = w
      /\ notifier'[f] = n
  BY <1>1 DEF Leaves
<1>4. \A g \in FBs \ {f} :
        /\ swapChain'[g] = swapChain[g] /\ screen'[g] = screen[g] /\ swapWork'[g] = swapWork[g]
        /\ swapper'[g] = swapper[g] /\ notifier'[g] = notifier[g]
  BY <1>1 DEF Leaves
<1>5. /\ UNCHANGED <<loader, held, gapsDevInfo, registered, opens>>
      /\ system' \in System /\ system'.asleep = system.asleep /\ slips \subseteq slips'
      /\ "open" \in slips' <=> "open" \in slips
      /\ s.sEarlySuspend = screen[f].sEarlySuspend
  BY DEF Leaves
<1>6. DriverTypes'
  BY <1>2, <1>5 DEF DriverInv, DriverTypes
<1>7. LoadInv'
  BY <1>5, LoadStays DEF DriverInv
<1>8. ChainsOpen'
  <2>1. SUFFICES ASSUME NEW g \in FBs
                 PROVE  /\ swapWork'[g] # <<>> \/ swapper'[g] # Driver!Idle => swapChain'[g] # <<>>
                        /\ swapChain'[g] = <<>> => /\ screen'[g].shown = 0
                                                   /\ notifier'[g] = "off" \/ "unblank" \in slips'
                        /\ swapChain'[g] # <<>> => g \in opens' /\ loader'.pc \notin Leaving
    BY DEF ChainsOpen, Driver!ChainOutlivesWork, Driver!HasChain, Driver!Idle
  <2>2. CASE g = f
    BY <1>3, <1>5, <2>2 DEF Allowed
  <2>3. CASE g # f
    <3>1. /\ swapWork[g] # <<>> \/ swapper[g] # Driver!Idle => swapChain[g] # <<>>
          /\ swapChain[g] = <<>> => /\ screen[g].shown = 0
                                    /\ notifier[g] = "off" \/ "unblank" \in slips
          /\ swapChain[g] # <<>> => g \in opens /\ loader.pc \notin Leaving
      BY DEF DriverInv, ChainsOpen, Driver!ChainOutlivesWork, Driver!HasChain
    <3> QED
      BY <1>4, <1>5, <2>3, <3>1
  <2> QED
    BY <2>2, <2>3
<1>9. SwappersTrust'
  <2>1. SUFFICES ASSUME NEW g \in FBs, swapChain'[g] # <<>>
                 PROVE  Trusts(swapChain'[g][1], screen'[g], swapper'[g])
    BY DEF SwappersTrust
  <2>2. CASE g = f
    BY <1>3, <2>1, <2>2 DEF Allowed
  <2>3. CASE g # f
    BY <1>4, <2>1, <2>3 DEF DriverInv, SwappersTrust
  <2> QED
    BY <2>2, <2>3
<1>10. SleepInv'
  <2>1. \A g \in FBs : screen'[g].sEarlySuspend = screen[g].sEarlySuspend
    BY <1>3, <1>4, <1>5
  <2>2. Driver!FlagHonest'
    BY <1>5, <2>1 DEF DriverInv, SleepInv, Driver!FlagHonest
  <2>3. \A g \in FBs : screen'[g].sEarlySuspend => g \in gapsDevInfo' \/ loader'.pc \in Leaving
    BY <1>5, <2>1 DEF DriverInv, SleepInv
  <2>4. ASSUME system.asleep # "no"
        PROVE  /\ \A g \in FBs : swapChain'[g] # <<>> => screen'[g].sEarlySuspend
               /\ (\E g \in FBs : swapChain'[g] # <<>>) \/ "asleep" \in slips'
    <3>1. /\ \A g \in FBs : swapChain[g] # <<>> => screen[g].sEarlySuspend
          /\ (\E g \in FBs : swapChain[g] # <<>>) \/ "asleep" \in slips
      BY <2>4 DEF DriverInv, SleepInv
    <3>2. c # <<>> => swapChain[f] # <<>>
      BY <2>4 DEF Allowed
    <3>3. c = <<>> /\ swapChain[f] # <<>> => "asleep" \in slips'
      BY <1>5, <3>1 DEF Allowed
    <3> QED
      BY <1>3, <1>4, <1>5, <2>1, <3>1, <3>2, <3>3
  <2> QED
    BY <1>5, <2>2, <2>3, <2>4 DEF SleepInv
<1> QED
  BY <1>6, <1>7, <1>8, <1>9, <1>10 DEF DriverInv

(* What is known of one frame buffer.                                       *)
LEMMA OneFB ==
  ASSUME DriverInv, NEW f \in FBs
  PROVE  /\ swapChain \in [FBs -> Seq(ChainKind)] /\ screen \in [FBs -> Screen]
         /\ swapWork \in [FBs -> Seq(FlipKind)] /\ swapper \in [FBs -> Swappers]
         /\ notifier \in [FBs -> {"off", "on", "loop"}] /\ system \in System
         /\ swapChain[f] \in Seq(ChainKind) /\ screen[f] \in Screen
         /\ swapWork[f] \in Seq(FlipKind) /\ swapper[f] \in Swappers
         /\ notifier[f] \in {"off", "on", "loop"}
         /\ swapWork[f] # <<>> \/ swapper[f] # Driver!Idle => swapChain[f] # <<>>
         /\ swapChain[f] = <<>> => /\ screen[f].shown = 0
                                   /\ notifier[f] = "off" \/ "unblank" \in slips
         /\ swapChain[f] # <<>> => /\ f \in opens /\ loader.pc \notin Leaving
                                   /\ swapChain[f][1] \in ChainKind
                                   /\ Trusts(swapChain[f][1], screen[f], swapper[f])
<1>1. /\ swapChain \in [FBs -> Seq(ChainKind)] /\ screen \in [FBs -> Screen]
      /\ swapWork \in [FBs -> Seq(FlipKind)] /\ swapper \in [FBs -> Swappers]
      /\ notifier \in [FBs -> {"off", "on", "loop"}] /\ system \in System
  BY DEF DriverInv, DriverTypes
<1>2. /\ swapChain[f] \in Seq(ChainKind) /\ screen[f] \in Screen
      /\ swapWork[f] \in Seq(FlipKind) /\ swapper[f] \in Swappers
      /\ notifier[f] \in {"off", "on", "loop"}
  BY <1>1
<1>3. /\ swapWork[f] # <<>> \/ swapper[f] # Driver!Idle => swapChain[f] # <<>>
      /\ swapChain[f] = <<>> => /\ screen[f].shown = 0
                                /\ notifier[f] = "off" \/ "unblank" \in slips
      /\ swapChain[f] # <<>> => f \in opens /\ loader.pc \notin Leaving
  BY DEF DriverInv, ChainsOpen, Driver!ChainOutlivesWork, Driver!HasChain
<1>4. swapChain[f] # <<>> => swapChain[f][1] \in ChainKind
  BY <1>2
<1>5. swapChain[f] # <<>> => Trusts(swapChain[f][1], screen[f], swapper[f])
  BY DEF DriverInv, SwappersTrust
<1> QED
  BY <1>1, <1>2, <1>3, <1>4, <1>5

(* A chain that is changed is a chain still.                                *)
LEMMA ChainChanged ==
  ASSUME NEW c \in Seq(ChainKind), c # <<>>, NEW d \in ChainKind
  PROVE  [c EXCEPT ![1] = d] \in Seq(ChainKind) /\ [c EXCEPT ![1] = d] # <<>>
         /\ [c EXCEPT ![1] = d][1] = d
<1>1. Len(c) \in Nat /\ Len(c) # 0
  BY LenProperties, EmptySeq
<1>2. 1 \in 1 .. Len(c)
  BY <1>1
<1>3. /\ [c EXCEPT ![1] = d] \in Seq(ChainKind) /\ Len([c EXCEPT ![1] = d]) = Len(c)
      /\ [c EXCEPT ![1] = d][1] = d
  BY <1>2, ExceptSeq
<1> QED
  BY <1>1, <1>3

(* A chain is made, by a handler that has nothing to do.                    *)
LEMMA CreateChainKeeps ==
  ASSUME Driver!FBsOK, DriverInv, NEW f \in FBs, Driver!CreateDCSwapChain(f)
  PROVE  DriverInv'
<1>1. /\ swapChain[f] = <<>> /\ f \in opens /\ loader.pc \notin Leaving
      /\ system.asleep = "no" /\ swapWork[f] = <<>> /\ swapper[f] = Driver!Idle
  BY OneFB DEF Driver!CreateDCSwapChain, Driver!CanCreate, Driver!HasChain, Driver!Running, Leaving
<1>2. PICK c \in ChainKind : /\ swapChain' = [swapChain EXCEPT ![f] = <<c>>]
                             /\ c.bNotVSynced /\ c.iBlankEvents = 0
  <2>1. PICK n \in 2 .. screen[f].room :
          swapChain' = [swapChain EXCEPT ![f] =
              <<[id |-> system.made + 1, skip |-> screen[f].room - n, count |-> n,
                 closing |-> FALSE, bNotVSynced |-> TRUE, iBlankEvents |-> 0]>>]
    BY DEF Driver!CreateDCSwapChain
  <2>2. screen[f].room \in Nat /\ system.made \in Nat
    BY OneFB DEF Screen, System
  <2>3. n \in Nat /\ screen[f].room - n \in Nat /\ system.made + 1 \in Nat
    BY <2>2
  <2>4. [id |-> system.made + 1, skip |-> screen[f].room - n, count |-> n,
         closing |-> FALSE, bNotVSynced |-> TRUE, iBlankEvents |-> 0] \in ChainKind
    BY <2>3 DEF ChainKind
  <2> QED
    BY <2>1, <2>4
<1>3. PICK s \in Screen : /\ screen' = [screen EXCEPT ![f] = s]
                          /\ s.sEarlySuspend = screen[f].sEarlySuspend /\ s.sBlankEvents = 1
  <2> DEFINE s == [Driver!EnabledScreen(f) EXCEPT !.sBlankEvents = 1, !.dark = FALSE]
  <2>1. screen[f] \in Screen
    BY OneFB
  <2>2. /\ Driver!EnabledScreen(f) \in Screen
        /\ Driver!EnabledScreen(f).sEarlySuspend = screen[f].sEarlySuspend
    BY <2>1 DEF Driver!EnabledScreen, Screen
  <2>3. s \in Screen /\ s.sEarlySuspend = screen[f].sEarlySuspend /\ s.sBlankEvents = 1
    BY <2>2 DEF Screen
  <2>4. screen' = [screen EXCEPT ![f] = s]
    BY DEF Driver!CreateDCSwapChain
  <2> HIDE DEF s
  <2> QED
    BY <2>3, <2>4
<1>4. system' \in System /\ system'.asleep = system.asleep
  <2>1. system \in System
    BY OneFB
  <2>2. PICK n \in Nat : system' = [system EXCEPT !.made = n]
    BY <2>1 DEF Driver!CreateDCSwapChain, System
  <2> QED
    BY <2>1, <2>2 DEF System
<1>5. <<c>> \in Seq(ChainKind) /\ <<c>> # <<>> /\ <<c>>[1] = c
  OBVIOUS
<1>6. Leaves(f, <<c>>, s, swapWork[f], swapper[f], "on")
  <2>1. /\ swapWork' = [swapWork EXCEPT ![f] = swapWork[f]]
        /\ swapper' = [swapper EXCEPT ![f] = swapper[f]]
        /\ swapWork[f] \in Seq(FlipKind) /\ swapper[f] \in Swappers
    BY OneFB DEF Driver!CreateDCSwapChain
  <2> QED
    BY <1>2, <1>3, <1>4, <1>5, <2>1 DEF Driver!CreateDCSwapChain, Leaves
<1>7. Allowed(f, <<c>>, s, swapWork[f], swapper[f], "on")
  <2>1. Trusts(c, s, Driver!Idle)
    BY <1>2, <1>3 DEF Trusts, Driver!Idle
  <2> QED
    BY <1>1, <1>5, <2>1 DEF Allowed
<1> QED
  BY <1>6, <1>7, ChainStepKeeps

(* A chain that is not made after all.                                      *)
LEMMA EnableFailsKeeps ==
  ASSUME Driver!FBsOK, DriverInv, NEW f \in FBs, Driver!EnableFails(f)
  PROVE  DriverInv'
<1>1. swapChain[f] = <<>> /\ swapWork[f] = <<>> /\ swapper[f] = Driver!Idle
  BY OneFB DEF Driver!EnableFails, Driver!CanCreate, Driver!HasChain
<1>2. PICK s \in Screen : /\ screen' = [screen EXCEPT ![f] = s]
                          /\ s.sEarlySuspend = screen[f].sEarlySuspend
                          /\ s.shown = screen[f].shown
  <2>1. screen[f] \in Screen
    BY OneFB
  <2>2. /\ Driver!EnabledScreen(f) \in Screen
        /\ Driver!EnabledScreen(f).sEarlySuspend = screen[f].sEarlySuspend
        /\ Driver!EnabledScreen(f).shown = screen[f].shown
    BY <2>1 DEF Driver!EnabledScreen, Screen
  <2> QED
    BY <2>2 DEF Driver!EnableFails
<1>3. PICK n \in {"off", "on", "loop"} :
        /\ notifier' = [notifier EXCEPT ![f] = n]
        /\ n = "off" \/ "unblank" \in slips'
        /\ slips \subseteq slips' /\ ("open" \in slips' => "open" \in slips)
  <2>1. notifier = [notifier EXCEPT ![f] = notifier[f]]
    BY OneFB
  <2> QED
    BY <2>1 DEF Driver!EnableFails
<1>4. Leaves(f, <<>>, s, swapWork[f], swapper[f], n)
  <2>1. /\ swapChain' = [swapChain EXCEPT ![f] = <<>>]
        /\ swapWork' = [swapWork EXCEPT ![f] = swapWork[f]]
        /\ swapper' = [swapper EXCEPT ![f] = swapper[f]]
        /\ swapWork[f] \in Seq(FlipKind) /\ swapper[f] \in Swappers /\ system \in System
    BY <1>1, OneFB DEF Driver!EnableFails
  <2>2. <<>> \in Seq(ChainKind)
    BY EmptySeq
  <2> QED
    BY <1>2, <1>3, <2>1, <2>2 DEF Driver!EnableFails, Leaves
<1>5. Allowed(f, <<>>, s, swapWork[f], swapper[f], n)
  BY <1>1, <1>2, <1>3, OneFB DEF Allowed
<1> QED
  BY <1>4, <1>5, ChainStepKeeps

(* A chain that is changed, its handler at work or not: what the steps of   *)
(* the handler have in common.                                              *)
HandlerStep(f, c, s, q, w) ==
    /\ c \in ChainKind /\ s \in Screen /\ q \in Seq(FlipKind) /\ w \in Swappers
    /\ swapChain' = [swapChain EXCEPT ![f] = [swapChain[f] EXCEPT ![1] = c]]
    /\ screen' = [screen EXCEPT ![f] = s] /\ s.sEarlySuspend = screen[f].sEarlySuspend
    /\ swapWork' = [swapWork EXCEPT ![f] = q] /\ swapper' = [swapper EXCEPT ![f] = w]
    /\ UNCHANGED <<loader, held, gapsDevInfo, registered, opens, notifier>>
    /\ system' \in System /\ system'.asleep = system.asleep
    /\ slips \subseteq slips' /\ ("open" \in slips' => "open" \in slips)

(* It is allowed if the handler may still trust what it has seen.           *)
LEMMA HandlerStepKeeps ==
  ASSUME DriverInv, NEW f \in FBs, swapChain[f] # <<>>, NEW c, NEW s, NEW q, NEW w,
         HandlerStep(f, c, s, q, w), Trusts(c, s, w)
  PROVE  DriverInv'
<1> DEFINE d == [swapChain[f] EXCEPT ![1] = c]
<1>1. d \in Seq(ChainKind) /\ d # <<>> /\ d[1] = c
  <2>1. swapChain[f] \in Seq(ChainKind)
    BY OneFB
  <2> QED
    BY <2>1, ChainChanged DEF HandlerStep
<1>2. swapChain' = [swapChain EXCEPT ![f] = d]
  BY DEF HandlerStep
<1> HIDE DEF d
<1>3. Leaves(f, d, s, q, w, notifier[f])
  <2>1. /\ notifier' = [notifier EXCEPT ![f] = notifier[f]]
        /\ notifier[f] \in {"off", "on", "loop"}
    BY OneFB DEF HandlerStep
  <2> QED
    BY <1>1, <1>2, <2>1 DEF HandlerStep, Leaves
<1>4. Allowed(f, d, s, q, w, notifier[f])
  BY <1>1, OneFB DEF Allowed
<1> QED
  BY <1>3, <1>4, ChainStepKeeps

(* The same with the chain as it was.                                       *)
LEMMA ChainAsItWas ==
  ASSUME DriverInv, NEW f \in FBs, swapChain[f] # <<>>
  PROVE  swapChain = [swapChain EXCEPT ![f] = [swapChain[f] EXCEPT ![1] = swapChain[f][1]]]
<1>1. swapChain \in [FBs -> Seq(ChainKind)] /\ swapChain[f] \in Seq(ChainKind)
  BY OneFB
<1>2. swapChain[f] = [swapChain[f] EXCEPT ![1] = swapChain[f][1]]
  BY <1>1
<1> QED
  BY <1>1, <1>2

(* What a step that concerns only some of it leaves of one frame buffer.    *)
LEMMA RestAsItWas ==
  ASSUME DriverInv, NEW f \in FBs
  PROVE  /\ screen = [screen EXCEPT ![f] = screen[f]]
         /\ swapWork = [swapWork EXCEPT ![f] = swapWork[f]]
         /\ swapper = [swapper EXCEPT ![f] = swapper[f]]
  BY OneFB

(* The destruction of a chain begins.                                       *)
LEMMA DestroyStarts ==
  ASSUME DriverInv, NEW f \in FBs, Driver!DestroyDCSwapChain(f)
  PROVE  DriverInv'
<1> DEFINE c == [swapChain[f][1] EXCEPT !.closing = TRUE]
<1>1. swapChain[f] # <<>>
  BY DEF Driver!DestroyDCSwapChain, Driver!HasChain
<1>2. swapChain[f][1] \in ChainKind /\ Trusts(swapChain[f][1], screen[f], swapper[f])
  BY <1>1, OneFB
<1>3. swapChain' = [swapChain EXCEPT ![f] = [swapChain[f] EXCEPT ![1] = c]]
  BY DEF Driver!DestroyDCSwapChain
<1>4. /\ c \in ChainKind /\ c.bNotVSynced = swapChain[f][1].bNotVSynced
      /\ c.iBlankEvents = swapChain[f][1].iBlankEvents
  BY <1>2 DEF ChainKind
<1> HIDE DEF c
<1>5. HandlerStep(f, c, screen[f], swapWork[f], swapper[f])
  BY <1>3, <1>4, RestAsItWas, OneFB DEF Driver!DestroyDCSwapChain, HandlerStep
<1>6. Trusts(c, screen[f], swapper[f])
  BY <1>2, <1>4 DEF Trusts
<1> QED
  BY <1>1, <1>5, <1>6, HandlerStepKeeps

(* It ends when the work is done.                                           *)
LEMMA DestroyedKeeps ==
  ASSUME DriverInv, NEW f \in FBs, Driver!SwapChainDestroyed(f)
  PROVE  DriverInv'
<1> DEFINE s == [screen[f] EXCEPT !.shown = 0, !.sBlanked = FALSE]
<1>1. /\ swapChain' = [swapChain EXCEPT ![f] = <<>>] /\ notifier' = [notifier EXCEPT ![f] = "off"]
      /\ swapWork[f] = <<>> /\ swapper[f] = Driver!Idle
      /\ slips' = slips \cup IF screen[f].sEarlySuspend THEN {"asleep"} ELSE {}
      /\ UNCHANGED <<loader, held, gapsDevInfo, registered, opens, swapWork, swapper, system>>
  BY DEF Driver!SwapChainDestroyed, Driver!OMAPLFBDestroySwapQueue
<1>2. screen' = [screen EXCEPT ![f] = s]
  BY OneFB DEF Driver!SwapChainDestroyed
<1>3. s \in Screen /\ s.shown = 0 /\ s.sEarlySuspend = screen[f].sEarlySuspend
  <2>1. screen[f] \in Screen
    BY OneFB
  <2> QED
    BY <2>1 DEF Screen
<1> HIDE DEF s
<1>4. Leaves(f, <<>>, s, swapWork[f], swapper[f], "off")
  <2>1. <<>> \in Seq(ChainKind)
    BY EmptySeq
  <2>2. slips \subseteq slips' /\ ("open" \in slips' => "open" \in slips)
    BY <1>1
  <2> QED
    BY <1>1, <1>2, <1>3, <2>1, <2>2, RestAsItWas, OneFB DEF Leaves
<1>5. Allowed(f, <<>>, s, swapWork[f], swapper[f], "off")
  BY <1>1, <1>3 DEF Allowed
<1> QED
  BY <1>4, <1>5, ChainStepKeeps

(* A flip is taken, for the handler or for nobody.                          *)
LEMMA FlipTaken ==
  ASSUME DriverInv, NEW f \in FBs, Driver!ProcessFlip(f)
  PROVE  DriverInv'
<1>1. /\ UNCHANGED <<loader, held, gapsDevInfo, registered, opens, swapChain, notifier, screen,
                     swapper>>
      /\ slips' = slips \/ slips' = slips \cup {"late"}
      /\ system' = [system EXCEPT !.flips = @ + 1]
  BY DEF Driver!ProcessFlip
<1>2. system' \in System /\ system'.asleep = system.asleep
  <2>1. system \in System
    BY OneFB
  <2>2. PICK n \in Nat : system' = [system EXCEPT !.flips = n]
    BY <1>1, <2>1 DEF System
  <2> QED
    BY <2>1, <2>2 DEF System
<1>3. slips \subseteq slips' /\ ("open" \in slips' => "open" \in slips)
  BY <1>1
<1>4. CASE swapChain[f] # <<>>
  <2>1. swapChain[f][1] \in ChainKind /\ Trusts(swapChain[f][1], screen[f], swapper[f])
    BY <1>4, OneFB
  <2>2. PICK q \in Seq(FlipKind) : swapWork' = [swapWork EXCEPT ![f] = q]
    <3>1. CASE UNCHANGED swapWork
      BY <3>1, RestAsItWas, OneFB
    <3>2. CASE ~UNCHANGED swapWork
      <4>1. PICK b \in 0 .. swapChain[f][1].count - 1, interval \in {0, 1} :
              swapWork' = [swapWork EXCEPT ![f] =
                             Append(swapWork[f], [buf |-> b, interval |-> interval])]
        BY <3>2 DEF Driver!ProcessFlip, Driver!Chain
      <4>2. b \in Nat
        BY <2>1 DEF ChainKind
      <4>3. [buf |-> b, interval |-> interval] \in FlipKind
        BY <4>2 DEF FlipKind
      <4>4. Append(swapWork[f], [buf |-> b, interval |-> interval]) \in Seq(FlipKind)
        BY <4>3, OneFB, AppendProperties
      <4> QED
        BY <4>1, <4>4
    <3> QED
      BY <3>1, <3>2
  <2>3. HandlerStep(f, swapChain[f][1], screen[f], q, swapper[f])
    BY <1>1, <1>2, <1>3, <1>4, <2>1, <2>2, RestAsItWas, ChainAsItWas, OneFB DEF HandlerStep
  <2> QED
    BY <1>4, <2>1, <2>3, HandlerStepKeeps
<1>5. CASE swapChain[f] = <<>>
  <2>1. UNCHANGED swapWork
    BY <1>5 DEF Driver!ProcessFlip, Driver!SwapChainHasChanged, Driver!HasChain
  <2>2. Leaves(f, <<>>, screen[f], swapWork[f], swapper[f], notifier[f])
    <3>1. /\ notifier = [notifier EXCEPT ![f] = notifier[f]]
          /\ swapChain = [swapChain EXCEPT ![f] = <<>>] /\ <<>> \in Seq(ChainKind)
      BY <1>5, OneFB, EmptySeq
    <3> QED
      BY <1>1, <1>2, <1>3, <2>1, <3>1, RestAsItWas, OneFB DEF Leaves
  <2>3. Allowed(f, <<>>, screen[f], swapWork[f], swapper[f], notifier[f])
    BY <1>3, <1>5, OneFB DEF Allowed
  <2> QED
    BY <2>2, <2>3, ChainStepKeeps
<1> QED
  BY <1>4, <1>5

(* The handler shows a buffer, and doubts that the display has settled if   *)
(* the flip before was not synchronised.                                    *)
LEMMA ShowKeeps ==
  ASSUME DriverInv, NEW f \in FBs, Driver!OMAPLFBFlip(f)
  PROVE  DriverInv'
<1> DEFINE flip == Head(swapWork[f])
           c == [swapChain[f][1] EXCEPT !.bNotVSynced = TRUE]
           s == [screen[f] EXCEPT !.shown = swapChain[f][1].skip + flip.buf]
           w == [pc |-> "check", buf |-> flip.buf, interval |-> flip.interval,
                 bPreviouslyNotVSynced |-> swapChain[f][1].bNotVSynced, left |-> 0, events |-> 0]
<1>1. swapper[f] = Driver!Idle /\ swapWork[f] # <<>> /\ swapChain[f] # <<>>
  BY OneFB DEF Driver!OMAPLFBFlip
<1>2. /\ swapChain[f][1] \in ChainKind /\ Trusts(swapChain[f][1], screen[f], Driver!Idle)
      /\ screen[f] \in Screen /\ swapWork[f] \in Seq(FlipKind)
  BY <1>1, OneFB
<1>3. flip \in FlipKind /\ Tail(swapWork[f]) \in Seq(FlipKind)
  BY <1>1, <1>2, HeadTailProperties
<1>4. /\ swapChain' = [swapChain EXCEPT ![f] = [swapChain[f] EXCEPT ![1] = c]]
      /\ screen' = [screen EXCEPT ![f] = s]
      /\ swapper' = [swapper EXCEPT ![f] = w]
      /\ swapWork' = [swapWork EXCEPT ![f] = Tail(swapWork[f])]
      /\ UNCHANGED <<loader, held, gapsDevInfo, registered, opens, notifier, system, slips>>
  BY DEF Driver!OMAPLFBFlip, Driver!Chain
<1> HIDE DEF flip
<1>5. /\ c \in ChainKind /\ c.bNotVSynced /\ c.iBlankEvents = swapChain[f][1].iBlankEvents
  BY <1>2 DEF ChainKind
<1>6. /\ s \in Screen /\ s.sEarlySuspend = screen[f].sEarlySuspend
      /\ s.sBlankEvents = screen[f].sBlankEvents /\ s.settled = screen[f].settled
  <2>1. PICK n \in Nat : n = swapChain[f][1].skip + flip.buf
    BY <1>2, <1>3 DEF ChainKind, FlipKind
  <2>2. s = [screen[f] EXCEPT !.shown = n]
    BY <2>1
  <2> QED
    BY <1>2, <2>2 DEF Screen
<1>7. w \in Swappers /\ w.pc = "check" /\ w.bPreviouslyNotVSynced = swapChain[f][1].bNotVSynced
  BY <1>2, <1>3 DEF Swappers, Swapping, ChainKind, FlipKind
<1> HIDE DEF c, s, w
<1>8. HandlerStep(f, c, s, Tail(swapWork[f]), w)
  BY <1>3, <1>4, <1>5, <1>6, <1>7, OneFB DEF HandlerStep
<1>9. Trusts(c, s, w)
  BY <1>2, <1>5, <1>6, <1>7 DEF Trusts, Driver!Idle
<1> QED
  BY <1>1, <1>8, <1>9, HandlerStepKeeps

(* What the handler at work knows.                                          *)
LEMMA AtWork ==
  ASSUME DriverInv, NEW f \in FBs, swapper[f].pc # "idle"
  PROVE  /\ swapChain[f] # <<>> /\ swapChain[f][1] \in ChainKind /\ swapper[f] \in Swapping
         /\ screen[f] \in Screen /\ swapWork[f] \in Seq(FlipKind)
         /\ Trusts(swapChain[f][1], screen[f], swapper[f])
<1>1. swapper[f] # Driver!Idle
  BY DEF Driver!Idle
<1>2. swapChain[f] # <<>> /\ swapper[f] \in Swapping
  BY <1>1, OneFB DEF Swappers
<1> QED
  BY <1>2, OneFB

(* It gives up: the flip was not synchronised.                              *)
LEMMA GivesUpIs ==
  ASSUME DriverInv, NEW f \in FBs, swapper[f].pc \in {"wait", "vsync"}, Driver!GivesUp(f),
         NEW s \in Screen, screen' = [screen EXCEPT ![f] = s],
         s.sEarlySuspend = screen[f].sEarlySuspend, s.sBlankEvents = screen[f].sBlankEvents,
         UNCHANGED <<loader, held, gapsDevInfo, registered, opens, notifier, swapWork, system,
                     slips>>
  PROVE  DriverInv'
<1> DEFINE c == [swapChain[f][1] EXCEPT !.bNotVSynced = TRUE]
           w == [swapper[f] EXCEPT !.pc = "complete"]
<1>1. /\ swapChain[f] # <<>> /\ swapChain[f][1] \in ChainKind /\ swapper[f] \in Swapping
      /\ swapWork[f] \in Seq(FlipKind) /\ Trusts(swapChain[f][1], screen[f], swapper[f])
  BY AtWork
<1>2. /\ swapChain' = [swapChain EXCEPT ![f] = [swapChain[f] EXCEPT ![1] = c]]
      /\ swapper' = [swapper EXCEPT ![f] = w]
  BY DEF Driver!GivesUp
<1>3. c \in ChainKind /\ c.bNotVSynced /\ c.iBlankEvents = swapChain[f][1].iBlankEvents
  BY <1>1 DEF ChainKind
<1>4. w \in Swappers /\ w.pc = "complete"
  BY <1>1 DEF Swappers, Swapping
<1> HIDE DEF c, w
<1>5. HandlerStep(f, c, s, swapWork[f], w)
  BY <1>1, <1>2, <1>3, <1>4, RestAsItWas, OneFB DEF HandlerStep
<1>6. Trusts(c, s, w)
  BY <1>1, <1>3, <1>4 DEF Trusts
<1> QED
  BY <1>1, <1>5, <1>6, HandlerStepKeeps

(* It decides how long to wait.                                             *)
LEMMA DecidesKeeps ==
  ASSUME Driver!FBsOK, DriverInv, NEW f \in FBs, Driver!Decides(f)
  PROVE  DriverInv'
<1>1. /\ swapper[f].pc = "check"
      /\ UNCHANGED <<loader, held, gapsDevInfo, registered, opens, notifier, screen, swapWork,
                     system, slips>>
  BY DEF Driver!Decides
<1>2. /\ swapChain[f] # <<>> /\ swapChain[f][1] \in ChainKind /\ swapper[f] \in Swapping
      /\ screen[f] \in Screen /\ swapWork[f] \in Seq(FlipKind)
      /\ Trusts(swapChain[f][1], screen[f], swapper[f])
  BY <1>1, AtWork
<1>3. CASE Driver!DontWaitForVSync(f)
  <2> DEFINE w == [swapper[f] EXCEPT !.pc = "complete"]
  <2>1. swapper' = [swapper EXCEPT ![f] = w] /\ UNCHANGED swapChain
    BY <1>3 DEF Driver!Decides
  <2>2. w \in Swappers /\ w.pc = "complete"
    BY <1>2 DEF Swappers, Swapping
  <2> HIDE DEF w
  <2>3. HandlerStep(f, swapChain[f][1], screen[f], swapWork[f], w)
    BY <1>1, <1>2, <2>1, <2>2, RestAsItWas, ChainAsItWas, OneFB DEF HandlerStep
  <2>4. Trusts(swapChain[f][1], screen[f], w)
    BY <1>1, <1>2, <2>2 DEF Trusts
  <2> QED
    BY <1>2, <2>3, <2>4, HandlerStepKeeps
<1>4. CASE ~Driver!DontWaitForVSync(f)
  <2> DEFINE events == screen[f].sBlankEvents
             settles == Driver!Settles(f, events)
             left == IF settles THEN SettleCount ELSE swapper[f].interval
             w == [swapper[f] EXCEPT !.left = left, !.events = events,
                                     !.pc = IF left > 0 THEN "wait" ELSE "complete"]
             c == [swapChain[f][1] EXCEPT !.bNotVSynced = FALSE,
                      !.iBlankEvents = IF settles THEN events ELSE @]
  <2>1. swapper' = [swapper EXCEPT ![f] = w]
    BY <1>4 DEF Driver!Decides
  <2>2. swapChain' = [swapChain EXCEPT ![f] = [swapChain[f] EXCEPT ![1] = c]]
    <3> DEFINE d == [swapChain[f][1] EXCEPT !.bNotVSynced = FALSE]
               e == IF settles THEN events ELSE swapChain[f][1].iBlankEvents
               A == [swapChain EXCEPT ![f] = [swapChain[f] EXCEPT ![1] = d]]
    <3>1. swapChain' = [swapChain EXCEPT ![f][1].bNotVSynced = FALSE,
                           ![f][1].iBlankEvents = IF settles THEN events ELSE @]
      BY <1>4 DEF Driver!Decides
    <3>2. d \in ChainKind /\ d.iBlankEvents = swapChain[f][1].iBlankEvents
          /\ c = [d EXCEPT !.iBlankEvents = e]
      BY <1>2 DEF ChainKind
    <3>3. swapChain \in [FBs -> Seq(ChainKind)] /\ swapChain[f] \in Seq(ChainKind)
      BY OneFB
    <3> HIDE DEF settles, e, c
    <3>4. A[f] = [swapChain[f] EXCEPT ![1] = d] /\ A[f][1] = d
      BY <1>2, <3>2, <3>3, ChainChanged
    <3>5. swapChain' = [A EXCEPT ![f] = [A[f] EXCEPT ![1] =
                           [A[f][1] EXCEPT !.iBlankEvents =
                               IF settles THEN events ELSE A[f][1].iBlankEvents]]]
      BY <3>1
    <3>6. [A[f][1] EXCEPT !.iBlankEvents = IF settles THEN events ELSE A[f][1].iBlankEvents] = c
      BY <3>2, <3>4 DEF e
    <3>7. swapChain' = [A EXCEPT ![f] = [A[f] EXCEPT ![1] = c]]
      BY <3>5, <3>6
    <3>8. [A[f] EXCEPT ![1] = c] = [swapChain[f] EXCEPT ![1] = c]
      BY <3>3, <3>4
    <3> QED
      BY <3>3, <3>7, <3>8
  <2>3. settles <=> \/ swapper[f].bPreviouslyNotVSynced
                    \/ swapChain[f][1].iBlankEvents # events
    BY DEF Driver!Settles, Driver!Chain
  <2> HIDE DEF settles
  <2>4. events \in Nat /\ left \in Nat /\ screen[f].settled \in Nat /\ SettleCount \in Nat
    BY <1>2 DEF Driver!FBsOK, Screen, Swapping
  <2> HIDE DEF left
  <2>5. /\ w \in Swappers /\ w.left = left /\ w.events = events
        /\ w.pc = IF left > 0 THEN "wait" ELSE "complete"
    BY <1>2, <2>4 DEF Swappers, Swapping
  <2>6. c.iBlankEvents = events
    BY <1>2, <2>3 DEF ChainKind
  <2>7. c \in ChainKind
    <3>1. c = [swapChain[f][1] EXCEPT !.bNotVSynced = FALSE, !.iBlankEvents = events]
      BY <1>2, <2>3 DEF ChainKind
    <3> QED
      BY <1>2, <2>4, <3>1 DEF ChainKind
  <2> HIDE DEF c, w
  <2>8. HandlerStep(f, c, screen[f], swapWork[f], w)
    BY <1>1, <1>2, <2>1, <2>2, <2>5, <2>7, RestAsItWas, OneFB DEF HandlerStep
  <2>9. screen[f].settled + left >= SettleCount
    <3>1. CASE settles
      BY <2>4, <3>1 DEF left
    <3>2. CASE ~settles
      <4>1. screen[f].settled >= SettleCount
        BY <1>1, <1>2, <2>3, <3>2 DEF Trusts
      <4> QED
        BY <2>4, <4>1
    <3> QED
      BY <3>1, <3>2
  <2>10. Trusts(c, screen[f], w)
    <3>1. CASE left > 0
      BY <2>4, <2>5, <2>6, <2>9, <3>1 DEF Trusts
    <3>2. CASE left = 0
      <4>1. w.pc = "complete" /\ screen[f].settled >= SettleCount
        BY <2>4, <2>5, <2>9, <3>2
      <4> QED
        BY <2>4, <2>5, <2>6, <4>1 DEF Trusts
    <3> QED
      BY <2>4, <3>1, <3>2
  <2> QED
    BY <1>2, <2>8, <2>10, HandlerStepKeeps
<1> QED
  BY <1>3, <1>4

(* It waits.                                                                *)
LEMMA WaitKeeps ==
  ASSUME DriverInv, NEW f \in FBs, Driver!OMAPLFBWaitForVSync(f)
  PROVE  DriverInv'
<1>1. /\ swapper[f].pc = "wait"
      /\ UNCHANGED <<loader, held, gapsDevInfo, registered, opens, notifier, screen, swapWork,
                     system, slips>>
  BY DEF Driver!OMAPLFBWaitForVSync
<1>2. /\ swapChain[f] # <<>> /\ swapChain[f][1] \in ChainKind /\ swapper[f] \in Swapping
      /\ screen[f] \in Screen /\ swapWork[f] \in Seq(FlipKind)
      /\ Trusts(swapChain[f][1], screen[f], swapper[f])
  BY <1>1, AtWork
<1>3. CASE Driver!GivesUp(f)
  BY <1>1, <1>2, <1>3, GivesUpIs, RestAsItWas
<1>4. CASE swapper' = [swapper EXCEPT ![f].pc = "vsync"] /\ UNCHANGED swapChain
  <2> DEFINE w == [swapper[f] EXCEPT !.pc = "vsync"]
  <2>1. swapper' = [swapper EXCEPT ![f] = w]
    BY <1>4
  <2>2. w \in Swappers /\ w.pc = "vsync" /\ w.left = swapper[f].left /\ w.events = swapper[f].events
    BY <1>2 DEF Swappers, Swapping
  <2> HIDE DEF w
  <2>3. HandlerStep(f, swapChain[f][1], screen[f], swapWork[f], w)
    BY <1>1, <1>2, <1>4, <2>1, <2>2, RestAsItWas, ChainAsItWas, OneFB DEF HandlerStep
  <2>4. Trusts(swapChain[f][1], screen[f], w)
    BY <1>1, <1>2, <2>2 DEF Trusts
  <2> QED
    BY <1>2, <2>3, <2>4, HandlerStepKeeps
<1> QED
  BY <1>3, <1>4 DEF Driver!OMAPLFBWaitForVSync

(* A vsync comes.                                                           *)
LEMMA VSyncKeeps ==
  ASSUME Driver!FBsOK, DriverInv, NEW f \in FBs, Driver!VSync(f)
  PROVE  DriverInv'
<1> DEFINE s == [screen[f] EXCEPT !.settled = IF @ < SettleCount THEN @ + 1 ELSE @]
<1>1. /\ swapper[f].pc = "vsync" /\ screen' = [screen EXCEPT ![f] = s]
      /\ UNCHANGED <<loader, held, gapsDevInfo, registered, opens, notifier, swapWork, system,
                     slips>>
  BY DEF Driver!VSync
<1>2. /\ swapChain[f] # <<>> /\ swapChain[f][1] \in ChainKind /\ swapper[f] \in Swapping
      /\ screen[f] \in Screen /\ swapWork[f] \in Seq(FlipKind)
      /\ Trusts(swapChain[f][1], screen[f], swapper[f]) /\ SettleCount \in Nat
  BY <1>1, AtWork DEF Driver!FBsOK
<1>3. /\ s \in Screen /\ s.sEarlySuspend = screen[f].sEarlySuspend
      /\ s.sBlankEvents = screen[f].sBlankEvents
      /\ s.settled = screen[f].settled + 1 \/ s.settled >= SettleCount
  <2>1. screen[f].settled \in Nat
    BY <1>2 DEF Screen
  <2>2. PICK n \in Nat : /\ n = IF screen[f].settled < SettleCount THEN screen[f].settled + 1
                                ELSE screen[f].settled
                         /\ n = screen[f].settled + 1 \/ n >= SettleCount
    BY <1>2, <2>1
  <2>3. s = [screen[f] EXCEPT !.settled = n]
    BY <2>2
  <2> HIDE DEF s
  <2> QED
    BY <1>2, <2>2, <2>3 DEF Screen
<1> HIDE DEF s
<1>4. CASE Driver!GivesUp(f)
  BY <1>1, <1>3, <1>4, GivesUpIs
<1>5. CASE /\ swapper' = [swapper EXCEPT ![f].left = @ - 1,
                             ![f].pc = IF swapper[f].left = 1 THEN "complete" ELSE "wait"]
           /\ UNCHANGED swapChain
  <2> DEFINE w == [swapper[f] EXCEPT !.left = @ - 1,
                                     !.pc = IF swapper[f].left = 1 THEN "complete" ELSE "wait"]
  <2>1. swapper' = [swapper EXCEPT ![f] = w]
    BY <1>5, OneFB
  <2>2. swapper[f].left \in Nat /\ swapper[f].left > 0
    BY <1>1, <1>2 DEF Swapping, Trusts
  <2>3. PICK n \in Nat : n = swapper[f].left - 1
    BY <2>2
  <2>4. /\ w \in Swappers /\ w.left = n /\ w.events = swapper[f].events
        /\ w.pc = IF swapper[f].left = 1 THEN "complete" ELSE "wait"
    <3>1. w = [swapper[f] EXCEPT !.left = n,
                                 !.pc = IF swapper[f].left = 1 THEN "complete" ELSE "wait"]
      BY <1>2, <2>3 DEF Swapping
    <3> QED
      BY <1>2, <3>1 DEF Swappers, Swapping
  <2> HIDE DEF w
  <2>5. HandlerStep(f, swapChain[f][1], s, swapWork[f], w)
    BY <1>1, <1>2, <1>3, <1>5, <2>1, <2>4, RestAsItWas, ChainAsItWas, OneFB DEF HandlerStep
  <2>6. /\ swapChain[f][1].iBlankEvents = swapper[f].events
        /\ swapChain[f][1].iBlankEvents <= s.sBlankEvents
        /\ \/ swapper[f].events # s.sBlankEvents
           \/ screen[f].settled + swapper[f].left >= SettleCount
    BY <1>1, <1>2, <1>3 DEF Trusts
  <2>7. screen[f].settled + swapper[f].left >= SettleCount => s.settled + n >= SettleCount
    <3>1. screen[f].settled \in Nat /\ s.settled \in Nat
      BY <1>2, <1>3 DEF Screen
    <3>2. s.settled = screen[f].settled + 1 \/ s.settled >= SettleCount
      BY <1>3
    <3>3. SettleCount \in Nat
      BY <1>2
    <3> QED
      BY <2>2, <2>3, <3>1, <3>2, <3>3
  <2>8. Trusts(swapChain[f][1], s, w)
    <3>1. s.settled \in Nat
      BY <1>3 DEF Screen
    <3>2. CASE swapper[f].left = 1
      <4>1. w.pc = "complete" /\ n = 0
        BY <2>3, <2>4, <3>2
      <4>2. swapper[f].events # s.sBlankEvents \/ s.settled >= SettleCount
        BY <1>2, <2>6, <2>7, <3>1, <4>1
      <4> QED
        BY <2>4, <2>6, <4>1, <4>2 DEF Trusts
    <3>3. CASE swapper[f].left # 1
      <4>1. w.pc = "wait" /\ n > 0
        BY <2>2, <2>3, <2>4, <3>3
      <4> QED
        BY <2>4, <2>6, <2>7, <4>1 DEF Trusts
    <3> QED
      BY <3>2, <3>3
  <2> QED
    BY <1>2, <2>5, <2>8, HandlerStepKeeps
<1> QED
  BY <1>4, <1>5 DEF Driver!VSync

(* A flip is complete.                                                      *)
LEMMA CompleteKeeps ==
  ASSUME Driver!FBsOK, DriverInv, NEW f \in FBs, Driver!CmdComplete(f)
  PROVE  DriverInv'
<1>1. /\ swapper[f].pc = "complete" /\ swapper' = [swapper EXCEPT ![f] = Driver!Idle]
      /\ UNCHANGED <<loader, held, gapsDevInfo, registered, opens, swapChain, notifier, screen,
                     swapWork, system, slips>>
  BY DEF Driver!CmdComplete
<1>2. /\ swapChain[f] # <<>> /\ swapChain[f][1] \in ChainKind
      /\ screen[f] \in Screen /\ swapWork[f] \in Seq(FlipKind)
      /\ Trusts(swapChain[f][1], screen[f], swapper[f])
  BY <1>1, AtWork
<1>3. HandlerStep(f, swapChain[f][1], screen[f], swapWork[f], Driver!Idle)
  BY <1>1, <1>2, RestAsItWas, ChainAsItWas, OneFB DEF HandlerStep, Swappers
<1>4. Trusts(swapChain[f][1], screen[f], Driver!Idle)
  BY <1>1, <1>2 DEF Trusts, Driver!Idle
<1> QED
  BY <1>2, <1>3, <1>4, HandlerStepKeeps

(* The invariant is inductive.                                              *)
LEMMA DriverStep ==
  ASSUME Driver!FBsOK, DriverInv, [Driver!Next]_Driver!driverVars
  PROVE  DriverInv'
<1>1. CASE UNCHANGED Driver!driverVars
  BY <1>1 DEF Driver!driverVars, DriverInv, DriverTypes, LoadInv, Driver!AllOrNothing,
              Driver!Probing, ChainsOpen, Driver!ChainOutlivesWork, Driver!HasChain,
              SwappersTrust, SleepInv, Driver!FlagHonest
<1>2. CASE \E f \in FBs :
             \/ Driver!InitFBDev(f) \/ Driver!RegisterDCDevice(f)
             \/ Driver!RegisterCmdProcList(f) \/ Driver!InitLocks(f)
  BY <1>2, LoadStepKeeps
<1>3. CASE \E f \in FBs : Driver!DeInitDev(f)
  BY <1>3, DeInitKeeps
<1>4. CASE \E f \in FBs : \/ Driver!BlankedByOthers(f) \/ Driver!OpenDCDevice(f)
                          \/ Driver!CloseDCDevice(f) \/ Driver!SetDCState(f)
  BY <1>4, DevicesKeep
<1>5. CASE \E f \in FBs : Driver!CreateDCSwapChain(f) \/ Driver!EnableFails(f)
  BY <1>5, CreateChainKeeps, EnableFailsKeeps
<1>6. CASE \E f \in FBs : Driver!DestroyDCSwapChain(f) \/ Driver!SwapChainDestroyed(f)
  BY <1>6, DestroyStarts, DestroyedKeeps
<1>7. CASE \E f \in FBs : Driver!ProcessFlip(f) \/ Driver!OMAPLFBFlip(f) \/ Driver!Decides(f)
  BY <1>7, FlipTaken, ShowKeeps, DecidesKeeps
<1>8. CASE \E f \in FBs : \/ Driver!OMAPLFBWaitForVSync(f) \/ Driver!VSync(f)
                          \/ Driver!CmdComplete(f)
  BY <1>8, WaitKeeps, VSyncKeeps, CompleteKeeps
<1>9. CASE Driver!OMAPLFBEarlySuspendHandler \/ Driver!OMAPLFBEarlyResumeHandler
  BY <1>9, SuspendKeeps
<1>10. CASE Driver!WakesUnheard
  BY <1>10, UnheardKeeps
<1>11. CASE Driver!OMAPLFBDeInit
  BY <1>11, UnloadStarts
<1>12. CASE Driver!Gone
  BY <1>1, <1>12 DEF Driver!Gone
<1> QED
  BY <1>1, <1>2, <1>3, <1>4, <1>5, <1>6, <1>7, <1>8, <1>9, <1>10, <1>11, <1>12 DEF Driver!Next

(* The display driver's part of ChainsSound (MCParts), for any number of    *)
(* frame buffers, of buffers and of vsyncs a display needs: a device is     *)
(* loaded altogether or not at all, its chain outlives the work of its      *)
(* handler, no flip is taken for synchronised before the display has        *)
(* settled, and the flag of early suspend does not outlive the sleep.       *)
THEOREM DriverStaysSound == Driver!FBsOK => (Driver!Spec => []Driver!DriverSound)
<1> SUFFICES ASSUME Driver!FBsOK PROVE Driver!Spec => []Driver!DriverSound
  OBVIOUS
<1>1. Driver!Init => DriverInv
  BY DriverStarts
<1>2. DriverInv /\ [Driver!Next]_Driver!driverVars => DriverInv'
  BY DriverStep
<1>3. DriverInv => Driver!DriverSound
  <2>1. SUFFICES ASSUME DriverInv PROVE Driver!DriverSound
    OBVIOUS
  <2>2. Driver!AllOrNothing /\ Driver!ChainOutlivesWork /\ Driver!FlagHonest
    BY <2>1 DEF DriverInv, LoadInv, ChainsOpen, SleepInv
  <2>3. Driver!SettledBeforeTrusted
    <3>1. SUFFICES ASSUME NEW f \in FBs, swapper[f].pc = "complete"
                   PROVE  \/ swapChain[f][1].bNotVSynced
                          \/ swapper[f].events # screen[f].sBlankEvents
                          \/ screen[f].settled >= SettleCount
      BY DEF Driver!SettledBeforeTrusted, Driver!Chain
    <3>2. Trusts(swapChain[f][1], screen[f], swapper[f])
      BY <2>1, <3>1, AtWork
    <3> QED
      BY <3>1, <3>2 DEF Trusts
  <2> QED
    BY <2>2, <2>3 DEF Driver!DriverSound
<1> QED
  BY <1>1, <1>2, <1>3, PTL DEF Driver!Spec

=============================================================================
