---------------------------- MODULE DeviceMemory ----------------------------
(***************************************************************************)
(* Device memory and its reference counts (devicemem.c, buffer_manager.c). *)
(*                                                                         *)
(* A process has memory by allocating it, by wrapping memory it already    *)
(* has, by mapping the buffer of a display, or by mapping what another     *)
(* process exported.  Each of these is a PVRSRV_KERNEL_MEM_INFO on top of  *)
(* a BM_BUF; it may carry a sync info, which a mapping shares with its     *)
(* source.  The resource manager frees what a process leaves behind.       *)
(* Calls run one at a time, under the bridge lock.                         *)
(***************************************************************************)
EXTENDS Naturals, FiniteSets, Functions

CONSTANTS
    Processes,
    Ids,         \* bound: names for mem infos, buffers and sync infos
    Addresses,   \* physical memory that clients wrap
    Sizes,       \* sizes it may be wrapped with
    DCBuffers,   \* buffers of a display, each contiguous
    HeapShared,  \* does the heap belong to the kernel's context
    Sharing,     \* bound: do clients export memory
    SyncChoices, \* bound: is memory allocated with a sync info, without, or both
    WrapChoices, \* bound: is wrapped memory contiguous, or not, or both
    Modulus,     \* one more than what the count of a context may hold, 2^32
    MaxRefs,     \* bound: how often a process asks for its context
    MaxFaults,   \* bound: calls during which memory is short
    Nil, Kernel

ASSUME DeviceMemoryAssumption ==
    /\ HeapShared \in BOOLEAN /\ Sharing \in BOOLEAN
    /\ Sharing => HeapShared
    /\ SyncChoices \cup WrapChoices \subseteq BOOLEAN
    /\ Sizes \subseteq Nat /\ MaxFaults \in Nat
    /\ Modulus \in Nat /\ MaxRefs \in Nat /\ MaxRefs < Modulus
    /\ Nil \notin Processes \cup Ids \cup DCBuffers /\ Kernel \notin Processes \cup {Nil}
    /\ DCBuffers \cap (Addresses \cup Ids) = {}

VARIABLES
    mem,      \* what the driver has allocated: a record, see MemType
    context,  \* the BM_CONTEXT of each process, see NoContext
    exiting,  \* the process whose resources are being freed
    faults    \* the calls during which memory was short

vars == <<mem, context, exiting, faults>>

(* Where the buffers of a process lie: pBMHeap->pBMContext.  Nil is for a
   context that has gone, with its heaps and its hash.                      *)
HeapOf(p) == IF HeapShared THEN Kernel ELSE p
Contexts  == Processes \cup {Kernel, Nil}

(* leaked: a segment of its heaps' arenas belongs to no buffer; remade: its
   heaps were made a second time.                                           *)
NoContext == [refCount |-> 0, listed |-> FALSE, leaked |-> FALSE, remade |-> FALSE]

Init ==
    /\ mem = [info |-> <<>>, buf |-> <<>>, sync |-> <<>>,
              hash |-> [c \in Contexts |-> <<>>],
              handles |-> {}, pinned |-> {}, memMap |-> [d \in DCBuffers |-> 0]]
    /\ context = [p \in Processes |-> NoContext]
    /\ exiting = Nil
    /\ faults = 0

NewId(f) == CHOOSE i \in Ids : i \notin DOMAIN f
Put(f, i, r) == [j \in DOMAIN f \cup {i} |-> IF j = i THEN r ELSE f[j]]
Without(f, i) == RestrictDomain(f, LAMBDA j : j # i)
Contiguous(b) == b.kind = "contig"

-----------------------------------------------------------------------------
(* The buffer manager.                                                      *)

AllocBuf(M, b) == LET i == NewId(M.buf) IN [M EXCEPT !.buf = Put(@, i, b)]

Buf(kind, ctx, addr, size) ==
    [kind |-> kind, ctx |-> ctx, addr |-> addr, size |-> size,
     refCount |-> 0, exportCount |-> 0, devMapped |-> TRUE]

(* Memory of the heap itself, from its import arena.                        *)
AllocMemory(p) == Buf("ram", HeapOf(p), Nil, 0)

(* Memory from elsewhere, mapped for the device.                            *)
WrapMemory(p, addr, size, contig) ==
    Buf(IF contig THEN "contig" ELSE "scatter", HeapOf(p), addr, size)

BM_Alloc(M, p) == AllocBuf(M, [AllocMemory(p) EXCEPT !.refCount = 1])

(* BM_Wrap finds contiguous memory that the context has wrapped before.     *)
Wrapped(M, p, addr) ==
    LET h == M.hash[HeapOf(p)] IN IF addr \in DOMAIN h THEN h[addr] ELSE Nil
Hit(M, p, addr, size) ==
    Wrapped(M, p, addr) # Nil /\ M.buf[Wrapped(M, p, addr)].size = size

(* Mutant of BM_Wrap: whatever was wrapped before is used, uncounted.       *)
BM_WrapUncounted(M, p, addr, size, contig) ==
    IF Wrapped(M, p, addr) # Nil THEN M
    ELSE LET i == NewId(M.buf)
             N == AllocBuf(M, [WrapMemory(p, addr, size, contig) EXCEPT !.refCount = 1])
         IN  IF contig THEN [N EXCEPT !.hash[HeapOf(p)] = Put(@, addr, i)] ELSE N

BM_Wrap(M, p, addr, size, contig) ==
    IF Hit(M, p, addr, size) THEN [M EXCEPT !.buf[Wrapped(M, p, addr)].refCount = @ + 1]
    ELSE LET i == NewId(M.buf)
             N == AllocBuf(M, [WrapMemory(p, addr, size, contig) EXCEPT !.refCount = 1])
             H == Without(M.hash[HeapOf(p)], addr)
         IN  [N EXCEPT !.hash[HeapOf(p)] = IF contig THEN Put(H, addr, i) ELSE H]

(* The buffer BM_Wrap returns.                                              *)
BufOf(M, p, addr, size) ==
    IF Hit(M, p, addr, size) THEN Wrapped(M, p, addr) ELSE NewId(M.buf)

(* BM_Wrap that fails has forgotten an entry of another size nevertheless.  *)
WrapFails(M, p, addr, size) ==
    IF Hit(M, p, addr, size) THEN M
    ELSE [M EXCEPT !.hash[HeapOf(p)] = Without(@, addr)]

BM_Export(M, b) == [M EXCEPT !.buf[b].exportCount = @ + 1]

(* The device mapping of wrapped memory goes with its allocator.            *)
FreeBuf(M, b, bFromAllocator) ==
    IF M.buf[b].exportCount = 0 /\ M.buf[b].refCount = 0
    THEN [M EXCEPT !.buf = Without(@, b)]
    ELSE [M EXCEPT !.buf[b].devMapped = @ /\ (M.buf[b].kind = "ram" \/ ~bFromAllocator)]

BM_FreeExport(M, b) == FreeBuf([M EXCEPT !.buf[b].exportCount = @ - 1], b, FALSE)

(* Mutant of BM_Free: the entry stays in the hash.                          *)
BM_FreeKeepsEntry(M, b) ==
    LET N == [M EXCEPT !.buf[b].refCount = @ - 1]
    IN  IF N.buf[b].refCount > 0 THEN N ELSE FreeBuf(N, b, TRUE)

BM_Free(M, b) ==
    LET N == [M EXCEPT !.buf[b].refCount = @ - 1]
        B == N.buf[b]
    IN  IF B.refCount > 0 THEN N
        ELSE IF Contiguous(B)
        THEN FreeBuf([N EXCEPT !.hash[B.ctx] = Without(@, B.addr)], b, TRUE)
        ELSE FreeBuf(N, b, TRUE)

-----------------------------------------------------------------------------
(* Mem infos and sync infos.                                                *)

AllocSyncInfo(M) == [M EXCEPT !.sync = Put(@, NewId(M.sync), 1)]
AddInfo(M, r) == [M EXCEPT !.info = Put(@, NewId(M.info), r)]

(* The count of a sync info goes down; with the last one it is freed.       *)
ReleaseSync(M, s) ==
    IF s = Nil THEN M
    ELSE IF M.sync[s] = 1 THEN [M EXCEPT !.sync = Without(@, s)]
    ELSE [M EXCEPT !.sync[s] = @ - 1]

(* A mapping shares the sync info of its source, if that has one.           *)
ShareSync(S, s) == IF s = Nil THEN S ELSE [S EXCEPT ![s] = @ + 1]

(* FreeDeviceMem: the buffer and the info, whatever the count.              *)
FreeDeviceMem(M, i) ==
    LET N == BM_Free(M, M.info[i].buf) IN [N EXCEPT !.info = Without(@, i)]

(* FreeDeviceMem2: the info only with its last reference.                   *)
FreeDeviceMem2(M, i, bFromAllocator) ==
    LET N == IF bFromAllocator THEN BM_Free(M, M.info[i].buf)
             ELSE BM_FreeExport(M, M.info[i].buf)
    IN  IF M.info[i].refCount = 0 THEN [N EXCEPT !.info = Without(@, i)] ELSE N

(* Mutant of FreeMemCallBackCommon: the kernel's handle is not released.    *)
FreeMemCallBackCommonHandle(M0, i, bFromAllocator) ==
    LET M == [M0 EXCEPT !.info[i].refCount = @ - 1,
                        !.info[i].res = IF bFromAllocator THEN Nil ELSE @]
    IN  FreeDeviceMem2(IF M.info[i].refCount # 0 THEN M
                       ELSE ReleaseSync([M EXCEPT !.pinned = @ \ {i}], M.info[i].sync),
                       i, bFromAllocator)

(* Mutant of FreeMemCallBackCommon: wrapped pages are let go of at once.    *)
FreeMemCallBackCommonUnpins(M0, i, bFromAllocator) ==
    LET M == [M0 EXCEPT !.info[i].refCount = @ - 1, !.pinned = @ \ {i},
                        !.info[i].res = IF bFromAllocator THEN Nil ELSE @,
                        !.handles = IF bFromAllocator THEN @ \ {i} ELSE @]
    IN  FreeDeviceMem2(IF M.info[i].refCount # 0 THEN M
                       ELSE ReleaseSync(M, M.info[i].sync), i, bFromAllocator)

(* Memory that was allocated or wrapped gives up its sync info with the last
   reference; the sync info of a display's buffer is not counted.           *)
FreeMemCallBackCommon(M0, i, bFromAllocator) ==
    LET M == [M0 EXCEPT !.info[i].refCount = @ - 1,
                        !.info[i].res = IF bFromAllocator THEN Nil ELSE @,
                        !.handles = IF bFromAllocator THEN @ \ {i} ELSE @]
    IN  FreeDeviceMem2(IF M.info[i].refCount # 0 THEN M
                       ELSE ReleaseSync([M EXCEPT !.pinned = @ \ {i}], M.info[i].sync),
                       i, bFromAllocator)

(* Mutant of UnmapDeviceMemory: the source is forgotten.                    *)
UnmapDeviceMemoryOnly(M, i) ==
    FreeDeviceMem(ReleaseSync(M, M.info[i].sync), i)

UnmapDeviceMemory(M, i) ==
    FreeMemCallBackCommon(FreeDeviceMem(ReleaseSync(M, M.info[i].sync), i),
                          M.info[i].src, FALSE)

UnmapDeviceClassMemory(M, i) ==
    FreeMemCallBackCommon([M EXCEPT !.memMap[M.info[i].src] = @ - 1], i, TRUE)

(* The callback the resource manager has for a mem info.                    *)
CallBack(M, i) ==
    CASE M.info[i].memType = "MAPPED"      -> UnmapDeviceMemory(M, i)
      [] M.info[i].memType = "DEVICECLASS" -> UnmapDeviceClassMemory(M, i)
      [] OTHER                             -> FreeMemCallBackCommon(M, i, TRUE)

-----------------------------------------------------------------------------
(* The calls of a process.                                                  *)

Ready(p) == exiting = Nil /\ context[p].listed
Room == Ids \ DOMAIN mem.info # {} /\ Ids \ DOMAIN mem.buf # {} /\ Ids \ DOMAIN mem.sync # {}
Owned(p) == {i \in DOMAIN mem.info : mem.info[i].res = p}
Short == faults < MaxFaults /\ faults' = faults + 1

Info(memType, b, s, src, p) ==
    [memType |-> memType, refCount |-> 1, buf |-> b, sync |-> s, src |-> src, res |-> p]

(* The first request of a process makes its context, later ones count.  With
   the count at 0 again, the heaps of a context that is there are made anew. *)
BM_CreateContext(c) ==
    LET n == (c.refCount + 1) % Modulus
    IN  [c EXCEPT !.refCount = n, !.listed = TRUE, !.remade = @ \/ n = 0]

(* A segment that an arena has given out keeps the context; memory that was
   wrapped or mapped is not from an arena.                                  *)
RA_TestDelete(p, c) ==
    ~c.leaked /\ \A b \in DOMAIN mem.buf : mem.buf[b].kind = "ram" => mem.buf[b].ctx # p

Decremented(n) == IF n = 0 THEN Modulus - 1 ELSE n - 1

(* Mutant of BM_DestroyContext: the heaps are not tested.                   *)
BM_DestroyContextUntested(p, c) ==
    IF Decremented(c.refCount) > 0 THEN [c EXCEPT !.refCount = Decremented(@)] ELSE NoContext

(* A refusal leaves the count at 0, from where the next call takes it to the
   largest value and finds nothing to do.                                   *)
BM_DestroyContext(p, c) ==
    IF Decremented(c.refCount) > 0 \/ ~RA_TestDelete(p, c)
    THEN [c EXCEPT !.refCount = Decremented(@)] ELSE NoContext

(* The heaps and the hash go with the context, under the memory that still
   lies there: its heap is one that has gone, and it is not mapped any more. *)
BM_DestroyContextCallBack(M, p) ==
    [M EXCEPT !.hash[p] = <<>>,
              !.buf = [b \in DOMAIN @ |->
                          IF @[b].ctx # p THEN @[b]
                          ELSE [@[b] EXCEPT !.ctx = Nil, !.devMapped = FALSE]]]

MemoryFollows(p) ==
    mem' = IF context'[p].listed THEN mem ELSE BM_DestroyContextCallBack(mem, p)

(* Where the heaps of the context have to be made that may fail; then the
   request is taken back.                                                   *)
CreateDeviceMemContextKM(p) ==
    LET c == BM_CreateContext(context[p])
    IN  /\ exiting = Nil /\ c.refCount <= MaxRefs
        /\ \/ context' = [context EXCEPT ![p] = c] /\ UNCHANGED faults
           \/ /\ ~context[p].listed \/ c.refCount = 0
              /\ context' = [context EXCEPT ![p] = BM_DestroyContext(p, c)] /\ Short
        /\ MemoryFollows(p)
        /\ UNCHANGED exiting

DestroyDeviceMemContextKM(p) ==
    /\ Ready(p)
    /\ context' = [context EXCEPT ![p] = BM_DestroyContext(p, @)]
    /\ MemoryFollows(p)
    /\ UNCHANGED <<exiting, faults>>

(* Memory of the heap; "withSync" is not PVRSRV_MEM_NO_SYNCOBJ.  A failure
   behind RA_Alloc leaves the segment to nobody.                            *)
AllocDeviceMemKM(p, withSync) ==
    LET M == BM_Alloc(mem, p)
        s == IF withSync THEN NewId(mem.sync) ELSE Nil
        N == IF withSync THEN AllocSyncInfo(M) ELSE M
    IN  /\ Ready(p) /\ Room
        /\ \/ /\ mem' = AddInfo(N, Info("DEVICE", NewId(mem.buf), s, Nil, p))
              /\ UNCHANGED <<context, faults>>
           \/ mem' = mem /\ Short /\ UNCHANGED context
           \/ /\ mem' = mem /\ Short
              /\ context' = [context EXCEPT ![p].leaked = @ \/ ~HeapShared]
           \/ /\ mem' = [mem EXCEPT !.sync = N.sync] /\ Short   \* ResManRegisterRes failed
              /\ UNCHANGED context
        /\ UNCHANGED exiting

(* Memory of the process by its pages, which are pinned, or by its physical
   address.  When no resource can be registered nobody will free it.        *)
WrapExtMemoryKM(p, addr, size, contig) ==
    LET b == BufOf(mem, p, addr, size)
        i == NewId(mem.info)
        M == AllocSyncInfo(BM_Wrap(mem, p, addr, size, contig))
        Done(owner) == [AddInfo(M, Info("WRAPPED", b, NewId(mem.sync), Nil, owner))
                            EXCEPT !.pinned = IF contig THEN @ ELSE @ \cup {i}]
    IN  /\ Ready(p) /\ Room
        /\ \/ mem' = Done(p) /\ UNCHANGED faults
           \/ mem' = WrapFails(mem, p, addr, size) /\ Short
           \/ mem' = Done(Nil) /\ Short
        /\ UNCHANGED <<context, exiting>>

(* A buffer of a display; mapping it twice finds the first mapping.         *)
MapDeviceClassMemoryKM(p, d) ==
    LET b == BufOf(mem, p, d, 1)
        M == BM_Wrap(mem, p, d, 1, TRUE)
    IN  /\ Ready(p) /\ Room
        /\ \/ /\ mem' = [AddInfo(M, Info("DEVICECLASS", b, Nil, d, p)) EXCEPT !.memMap[d] = @ + 1]
              /\ UNCHANGED faults
           \/ mem' = WrapFails(mem, p, d, 1) /\ Short
        /\ UNCHANGED <<context, exiting>>

(* A process publishes its memory under a handle of the kernel.  Clients
   export what they allocated or wrapped.                                   *)
ExportDeviceMem(p, i) ==
    /\ exiting = Nil /\ Sharing /\ i \in Owned(p)
    /\ mem.info[i].memType \in {"DEVICE", "WRAPPED"}
    /\ mem' = [mem EXCEPT !.handles = @ \cup {i}]
    /\ UNCHANGED <<context, exiting, faults>>

(* Mutant of MapDeviceMemoryKM: the source is not counted.                    *)
MapDeviceMemoryKMUncounted(p, i) ==
    LET s == mem.info[i].sync
        B == mem.buf[mem.info[i].buf]
        M == BM_Wrap(mem, p, B.addr, B.size, FALSE)
        C == [M EXCEPT !.sync = ShareSync(@, s)]
    IN  /\ Ready(p) /\ Room /\ i \in mem.handles
        /\ mem' = AddInfo(BM_Export(C, mem.info[i].buf),
                          Info("MAPPED", BufOf(mem, p, B.addr, B.size), s, i, p))
        /\ UNCHANGED <<context, exiting, faults>>

(* Mutant of MapDeviceMemoryKM: the sync info is shared but not counted.      *)
MapDeviceMemoryKMSync(p, i) ==
    LET B == mem.buf[mem.info[i].buf]
        M == BM_Wrap(mem, p, B.addr, B.size, FALSE)
        C == [M EXCEPT !.info[i].refCount = @ + 1]
    IN  /\ Ready(p) /\ Room /\ i \in mem.handles
        /\ mem' = AddInfo(BM_Export(C, mem.info[i].buf),
                          Info("MAPPED", BufOf(mem, p, B.addr, B.size), mem.info[i].sync, i, p))
        /\ UNCHANGED <<context, exiting, faults>>

(* Mutant of MapDeviceMemoryKM: the buffer is not marked as exported.         *)
MapDeviceMemoryKMUnexported(p, i) ==
    LET s == mem.info[i].sync
        B == mem.buf[mem.info[i].buf]
        M == BM_Wrap(mem, p, B.addr, B.size, FALSE)
        C == [M EXCEPT !.sync = ShareSync(@, s),
                       !.info[i].refCount = @ + 1]
    IN  /\ Ready(p) /\ Room /\ i \in mem.handles
        /\ mem' = AddInfo(C, Info("MAPPED", BufOf(mem, p, B.addr, B.size), s, i, p))
        /\ UNCHANGED <<context, exiting, faults>>

(* The pages of exported memory appear in the heap of another process; the
   mapping shares the sync info of its source and keeps the source.  When
   the source is contiguous memory of the same context, BM_Wrap finds its
   buffer.                                                                  *)
MapDeviceMemoryKM(p, i) ==
    LET s == mem.info[i].sync
        B == mem.buf[mem.info[i].buf]
        M == BM_Wrap(mem, p, B.addr, B.size, FALSE)
        C == [M EXCEPT !.sync = ShareSync(@, s),
                       !.info[i].refCount = @ + 1]
        Done(owner) == AddInfo(BM_Export(C, mem.info[i].buf),
                               Info("MAPPED", BufOf(mem, p, B.addr, B.size), s, i, owner))
    IN  /\ Ready(p) /\ Room /\ i \in mem.handles
        /\ \/ mem' = Done(p) /\ UNCHANGED faults
           \/ mem' = WrapFails(mem, p, B.addr, B.size) /\ Short
           \/ mem' = Done(Nil) /\ Short
        /\ UNCHANGED <<context, exiting>>

(* Freeing, unwrapping and unmapping go through the resource manager.       *)
FreeByHandle(p, i) ==
    /\ exiting = Nil /\ i \in Owned(p)
    /\ mem' = CallBack(mem, i)
    /\ UNCHANGED <<context, exiting, faults>>

(* The end of a process: its resources are freed type by type, the context
   last.  (One that has neither has nothing to be freed.)                   *)
Order == [DEVICECLASS |-> 1, WRAPPED |-> 2, MAPPED |-> 3, DEVICE |-> 4]

ProcessDisconnect(p) ==
    /\ exiting = Nil /\ (context[p].listed \/ Owned(p) # {})
    /\ exiting' = p
    /\ UNCHANGED <<mem, context, faults>>

FreeResource(i) ==
    /\ exiting # Nil /\ i \in Owned(exiting)
    /\ \A j \in Owned(exiting) : Order[mem.info[i].memType] <= Order[mem.info[j].memType]
    /\ mem' = CallBack(mem, i)
    /\ UNCHANGED <<context, exiting, faults>>

DestroyContextCallBack ==
    /\ exiting # Nil /\ Owned(exiting) = {}
    /\ context' = [context EXCEPT ![exiting] = NoContext]
    /\ mem' = BM_DestroyContextCallBack(mem, exiting)
    /\ exiting' = Nil
    /\ UNCHANGED faults

Next ==
    \/ \E p \in Processes :
        \/ CreateDeviceMemContextKM(p) \/ DestroyDeviceMemContextKM(p) \/ ProcessDisconnect(p)
        \/ \E withSync \in SyncChoices : AllocDeviceMemKM(p, withSync)
        \/ \E addr \in Addresses, size \in Sizes, contig \in WrapChoices :
              WrapExtMemoryKM(p, addr, size, contig)
        \/ \E d \in DCBuffers : MapDeviceClassMemoryKM(p, d)
        \/ \E i \in DOMAIN mem.info :
              ExportDeviceMem(p, i) \/ MapDeviceMemoryKM(p, i) \/ FreeByHandle(p, i)
    \/ \E i \in DOMAIN mem.info : FreeResource(i)
    \/ DestroyContextCallBack

Spec == Init /\ [][Next]_vars

-----------------------------------------------------------------------------
(* Properties.                                                              *)

Infos == DOMAIN mem.info
Mappings(i) == {j \in Infos : mem.info[j].memType = "MAPPED" /\ mem.info[j].src = i}
(* What holds a buffer: infos that somebody has yet to free.                *)
Holders(b) == {i \in Infos : mem.info[i].buf = b /\ mem.info[i].res # Nil}

TypeOK ==
    /\ \A i \in Infos : i \in Ids /\ mem.info[i].refCount \in Nat
                        /\ mem.info[i].res \in Processes \cup {Nil}
    /\ \A b \in DOMAIN mem.buf : b \in Ids /\ mem.buf[b].refCount \in Nat
                                 /\ mem.buf[b].exportCount \in Nat
    /\ \A s \in DOMAIN mem.sync : s \in Ids /\ mem.sync[s] \in Nat
    /\ context \in [Processes -> [refCount : Nat, listed : BOOLEAN,
                                   leaked : BOOLEAN, remade : BOOLEAN]]
    /\ exiting \in Processes \cup {Nil} /\ faults \in 0 .. MaxFaults

(* Every pointer names a live object: the buffer and sync info of a mem
   info, the source of a mapping, the kernel's handles, and the hash of
   wrapped memory, whose entries are what BM_Wrap will share.               *)
NothingDangles ==
    /\ \A i \in Infos :
          /\ mem.info[i].buf \in DOMAIN mem.buf
          /\ mem.info[i].sync \in DOMAIN mem.sync \cup {Nil}
          /\ mem.info[i].memType = "MAPPED" => mem.info[i].src \in Infos
    /\ \A i \in mem.handles : i \in Infos /\ mem.info[i].res # Nil
    /\ \A c \in DOMAIN mem.hash : \A a \in DOMAIN mem.hash[c] :
          LET b == mem.hash[c][a]
          IN  /\ b \in DOMAIN mem.buf
              /\ mem.buf[b].refCount > 0 /\ mem.buf[b].addr = a /\ mem.buf[b].ctx = c

(* Counts are never too low, and exact as long as no call ran short of
   memory: a buffer counts those who have yet to free it and its exports, a
   mem info its owner and the mappings of it, a sync info the mem infos with
   it.                                                                      *)
CountsExact ==
    /\ \A b \in DOMAIN mem.buf :
          LET exports == UNION {Mappings(i) : i \in {j \in Infos : mem.info[j].buf = b}}
          IN  /\ mem.buf[b].refCount >= Cardinality(Holders(b))
              /\ mem.buf[b].exportCount = Cardinality(exports)
              /\ faults = 0 => mem.buf[b].refCount = Cardinality(Holders(b))
    /\ \A i \in Infos :
          LET owners == IF mem.info[i].res = Nil THEN 0 ELSE 1
          IN  /\ mem.info[i].refCount >= owners + Cardinality(Mappings(i))
              /\ faults = 0 => mem.info[i].refCount = owners + Cardinality(Mappings(i))
    /\ \A s \in DOMAIN mem.sync :
          LET users == {i \in Infos : mem.info[i].sync = s}
          IN  /\ mem.sync[s] >= Cardinality(users)
              /\ faults = 0 => mem.sync[s] = Cardinality(users)
    /\ \A d \in DOMAIN mem.memMap :
          mem.memMap[d] = Cardinality({i \in Infos : mem.info[i].src = d})

(* Memory outlives its mappings: what a process has is mapped for the
   device, in a context that is there, and the pages behind a mapping are
   still the source's, pinned if they were wrapped by their pages.
   Two things take memory out of its context, and no other.  The process may
   destroy its context under what it has wrapped or mapped there, as
   BM_DestroyContext looks for memory from an arena only; and it may have the
   heaps made a second time, over the first, when after a refusal it destroys
   the context once more and asks for it again.                             *)
MemoryOutlivesMappings ==
    \A i \in Infos :
        LET b == mem.buf[mem.info[i].buf]
            destroyedUnderIt == b.ctx = Nil /\ b.kind # "ram"
            there == b.ctx \in Processes => context[b.ctx].listed
            remade == b.ctx \in Processes /\ context[b.ctx].remade
        IN  /\ mem.info[i].res # Nil =>
                  destroyedUnderIt \/ (b.ctx # Nil /\ there /\ (b.devMapped \/ remade))
            /\ mem.info[i].memType = "MAPPED" =>
                  LET src == mem.info[i].src
                  IN  /\ mem.info[src].buf \in DOMAIN mem.buf
                      /\ (mem.info[src].memType = "WRAPPED"
                            /\ ~Contiguous(mem.buf[mem.info[src].buf])) => src \in mem.pinned

(* Nothing is left of what everybody has freed.                             *)
NothingLeft ==
    (faults = 0 /\ \A i \in Infos : mem.info[i].res = Nil) =>
        /\ Infos = {} /\ DOMAIN mem.buf = {} /\ DOMAIN mem.sync = {}
        /\ mem.handles = {} /\ mem.pinned = {}
        /\ \A c \in DOMAIN mem.hash : DOMAIN mem.hash[c] = {}

(* What a process has goes away only by its own calls or its own end.       *)
OthersKeepTheirs ==
    [][\A i \in Infos : mem.info[i].res # Nil =>
          \/ i \in DOMAIN mem'.info /\ mem'.info[i].res = mem.info[i].res
          \/ exiting = mem.info[i].res
          \/ exiting = Nil /\ \E p \in Processes : p = mem.info[i].res /\ FreeByHandle(p, i)]_vars

=============================================================================
