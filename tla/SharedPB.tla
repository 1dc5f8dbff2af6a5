------------------------------ MODULE SharedPB ------------------------------
(***************************************************************************)
(* The parameter buffer that the processes share (pb.c).  A process looks  *)
(* for it; if there is none it may be given the right to create one, which *)
(* it keeps until it adds the buffer, in a later bridge call, or ends.     *)
(* The memory of the buffer was allocated by its creator, and is taken     *)
(* from the creator's resources so that it can outlive it.                 *)
(***************************************************************************)
EXTENDS Naturals, FiniteSets, Functions

CONSTANTS
    Processes,
    Devices,   \* SGX cores: each has its buffer, the right to create is one
    MaxRefs,   \* bound: references of a process to one buffer
    MaxMems,   \* bound: memories for buffers at a time
    NONE

VARIABLES
    stub,     \* psStubPBDescListKM of each device: the count and the memory
    items,    \* the resources of each process: references by device
    creator,  \* psPerProcCreateSharedPB
    locks,    \* the processes with the resource that stands for the right
    memory    \* who owns each memory: a process, or a device's buffer

(* Nothing is called as something else.                                     *)
NamesOK == /\ NONE \notin Processes \cup [refCount : Nat, mem : Nat]
           /\ Processes \cap Devices = {}
           /\ MaxMems \in Nat

vars == <<stub, items, creator, locks, memory>>

Init ==
    /\ stub = [d \in Devices |-> NONE]
    /\ items = [p \in Processes |-> [d \in Devices |-> 0]]
    /\ creator = NONE
    /\ locks = {}
    /\ memory = <<>>

Owned(p) == {i \in DOMAIN memory : memory[i] = p}
Freed(gone) == Restrict(memory, DOMAIN memory \ gone)
Refer(p, d) == /\ items' = [items EXCEPT ![p][d] = @ + 1]
               /\ stub' = [stub EXCEPT ![d].refCount = @ + 1]

(* Memory for a buffer: its description, its blocks and their subranges.    *)
AllocMemory(p) ==
    /\ Owned(p) = {} /\ Cardinality(DOMAIN memory) < MaxMems
    /\ LET new == CHOOSE i \in 1 .. MaxMems : i \notin DOMAIN memory
       IN  memory' = [i \in DOMAIN memory \cup {new} |-> IF i = new THEN p ELSE memory[i]]
    /\ UNCHANGED <<stub, items, creator, locks>>

(* A buffer that cannot be referred to for want of memory counts as not     *)
(* found, without the right to create.                                      *)
SGXFindSharedPBDescKM(p, d, bLockOnFailure) ==
    \/ /\ stub[d] # NONE /\ items[p][d] < MaxRefs
       /\ Refer(p, d)
       /\ UNCHANGED <<creator, locks, memory>>
    \/ /\ stub[d] = NONE /\ bLockOnFailure /\ creator = NONE
       /\ creator' = p
       /\ locks' = locks \cup {p}
       /\ UNCHANGED <<stub, items, memory>>

(* The last reference frees the memory; the microkernel is asked to forget  *)
(* it afterwards.                                                           *)
SGXCleanupSharedPBDescKM(p, d) ==
    /\ items' = [items EXCEPT ![p][d] = @ - 1]
    /\ IF stub[d].refCount = 1
       THEN stub' = [stub EXCEPT ![d] = NONE] /\ memory' = Freed({stub[d].mem})
       ELSE stub' = [stub EXCEPT ![d].refCount = @ - 1] /\ UNCHANGED memory

SGXUnrefSharedPBDescKM(p, d) ==
    /\ items[p][d] > 0
    /\ SGXCleanupSharedPBDescKM(p, d)
    /\ UNCHANGED <<creator, locks>>

(* Mutant of Dissociated: the memory stays with its creator.                *)
DissociatedNot(i, d) == memory

(* PVRSRVDissociateMemFromResmanKM for each piece of memory.                *)
Dissociated(i, d) == [memory EXCEPT ![i] = d]

(* What was given and is not used.                                          *)
NoAddKeepPB(i) == Freed({i})

(* Mutant of SGXAddSharedPBDescKM: whoever has memory may add.              *)
SGXAddSharedPBDescAny(p, d, i, bMemory) ==
    /\ i \in Owned(p)
    /\ creator' = NONE /\ locks' = locks \ {creator}
    /\ stub' = [stub EXCEPT ![d] = [refCount |-> 1, mem |-> i]]
    /\ items' = [items EXCEPT ![p][d] = @ + 1]
    /\ memory' = Dissociated(i, d)

(* The right is given back in any case.  Without it, without memory, or     *)
(* when there is a buffer by now, the memory is freed.                      *)
SGXAddSharedPBDescKM(p, d, i, bMemory) ==
    LET right == creator = p
    IN  /\ i \in Owned(p)
        /\ creator' = IF right THEN NONE ELSE creator
        /\ locks' = IF right THEN locks \ {p} ELSE locks
        /\ \/ /\ right /\ bMemory /\ stub[d] = NONE
              /\ stub' = [stub EXCEPT ![d] = [refCount |-> 1, mem |-> i]]
              /\ items' = [items EXCEPT ![p][d] = @ + 1]
              /\ memory' = Dissociated(i, d)
           \/ /\ right /\ bMemory /\ stub[d] # NONE /\ items[p][d] < MaxRefs
              /\ Refer(p, d)
              /\ memory' = NoAddKeepPB(i)
           \/ /\ ~right \/ ~bMemory
              /\ memory' = NoAddKeepPB(i)
              /\ UNCHANGED <<stub, items>>

(* Mutant of SGXCleanupSharedPBDescCreateLock: the right stays.             *)
SGXCleanupSharedPBDescCreateLockKeeps(p) == creator
SGXCleanupSharedPBDescCreateLock(p) == IF p \in locks THEN NONE ELSE creator

(* The process ends: first the right, then its references, then memory that *)
(* is still its own.                                                        *)
PVRSRVResManDisconnect(p) ==
    LET left(d) == stub[d].refCount - items[p][d]
        last    == {d \in Devices : stub[d] # NONE /\ left(d) = 0}
    IN  /\ creator' = SGXCleanupSharedPBDescCreateLock(p)
        /\ locks' = locks \ {p}
        /\ items' = [items EXCEPT ![p] = [d \in Devices |-> 0]]
        /\ stub' = [d \in Devices |->
                      IF stub[d] = NONE \/ d \in last THEN NONE
                      ELSE [stub[d] EXCEPT !.refCount = left(d)]]
        /\ memory' = Freed(Owned(p) \cup {stub[d].mem : d \in last})

Next ==
    \E p \in Processes :
        \/ AllocMemory(p)
        \/ PVRSRVResManDisconnect(p)
        \/ \E d \in Devices :
              \/ \E b \in BOOLEAN : SGXFindSharedPBDescKM(p, d, b)
              \/ SGXUnrefSharedPBDescKM(p, d)
              \/ \E i \in DOMAIN memory, b \in BOOLEAN : SGXAddSharedPBDescKM(p, d, i, b)

Spec == Init /\ [][Next]_vars

-----------------------------------------------------------------------------
(* Properties.                                                              *)

(* The right to create is where its resource is: a process that ends, or    *)
(* has added, cannot keep the others waiting for it.                        *)
RightHasResource == locks = {creator} \ {NONE}

(* A buffer counts its references, exists as long as there is one, and its  *)
(* memory is its own: no process can take it away by ending, and none is    *)
(* lost.                                                                    *)
References(d) == UNION {{p} \X (1 .. items[p][d]) : p \in Processes}
BuffersCounted ==
    \A d \in Devices :
        /\ stub[d] = NONE => References(d) = {}
        /\ stub[d] # NONE => /\ Cardinality(References(d)) = stub[d].refCount
                            /\ References(d) # {}
MemoryAccounted ==
    /\ \A d \in Devices : stub[d] # NONE => stub[d].mem \in DOMAIN memory
    /\ \A i \in DOMAIN memory :
          memory[i] \in Processes \/ (stub[memory[i]] # NONE /\ stub[memory[i]].mem = i)
    /\ \A d \in Devices : stub[d] # NONE => memory[stub[d].mem] = d

BuffersSound == RightHasResource /\ BuffersCounted /\ MemoryAccounted

(* What one process does takes no buffer from another that refers to it.    *)
OthersKeepBuffer ==
    [][\A d \in Devices : stub[d] # NONE /\ stub'[d] = NONE =>
          Cardinality({p \in Processes : items[p][d] > 0}) = 1]_vars

=============================================================================
