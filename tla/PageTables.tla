----------------------------- MODULE PageTables -----------------------------
(* The MMU of SGX (mmu.c): a page directory for each memory context, page   *)
(* tables that are allocated when a range is and freed with its last page,  *)
(* shared heaps whose tables every directory names, and the note that the   *)
(* next command must have SGX drop what it has cached.                      *)
(*                                                                          *)
(* Pages are numbered from the start of the address space, TableSize to a   *)
(* page table, one table to an entry of the directory.  The arena of a heap *)
(* is ResourceArena's; here it gives any free range.                        *)
EXTENDS Integers, FiniteSets

CONSTANTS
    Contexts,       \* memory contexts of processes
    Directory,      \* entries of a page directory: 0..n
    TableSize,      \* ui32PTNumEntriesUsable
    Heaps,          \* heap name |-> its first entry, its size in pages, whether it is shared
    Tables,         \* pages there are for page tables, numbers
    MaxPages        \* bound: pages of an allocation

VARIABLES
    pvPDCpuVAddr,       \* the page directory of each live context
    apsPTInfoList,      \* the tables each context has allocated itself
    tables,             \* the entries and counts of the tables there are
    ranges,             \* what the arenas have given out, and mapped
    ui32CacheControl,   \* what the next command tells SGX to invalidate
    stale               \* kinds of entries SGX may have cached that changed since

vars == <<pvPDCpuVAddr, apsPTInfoList, tables, ranges, ui32CacheControl, stale>>

Kernel  == "kernel"
Live    == DOMAIN pvPDCpuVAddr
Nothing == 0
Entries == 0..(TableSize - 1)

(* The directory entry and the table entry of a page, and a heap's pages.   *)
Entry(page) == page \div TableSize
Index(page) == page % TableSize
MMU_Create(h) == (Heaps[h].base * TableSize)..(Heaps[h].base * TableSize + Heaps[h].pages - 1)
Pages(r)    == r.start..(r.start + r.count - 1)

(* Shared heaps belong to the kernel's context, the others to a process.    *)
MMU_IsHeapShared(h) == Heaps[h].shared
Owner(c, h) == IF MMU_IsHeapShared(h) THEN Kernel ELSE c

(* A new directory names no table.                                          *)
MMU_Initialise == [d \in Directory |-> Nothing]

Init ==
    /\ pvPDCpuVAddr = [c \in {Kernel} |-> MMU_Initialise]
    /\ apsPTInfoList = [c \in {Kernel} |-> MMU_Initialise]
    /\ tables = <<>>
    /\ ranges = {}
    /\ ui32CacheControl = {}
    /\ stale = {}

(* What the next command says must be dropped: dropping the directory cache *)
(* drops what was found through it.                                         *)
MMU_InvalidateDirectoryCache == ui32CacheControl \cup {"PD"}
MMU_InvalidatePageTableCache == ui32CacheControl \cup {"PT"}

(* The valid entries of the directories and tables.  SGX may have read one  *)
(* at any time before it is overwritten.                                    *)
EntriesOf(pd, ts) ==
    UNION {{<<"PD", c, d, pd[c][d]>> : d \in {d \in Directory : pd[c][d] # Nothing}} : c \in DOMAIN pd} \cup
    UNION {{<<"PT", t, i, ts[t].pte[i]>> : i \in DOMAIN ts[t].pte} : t \in DOMAIN ts}

SGXReads ==
    stale' = stale \cup {e[1] : e \in EntriesOf(pvPDCpuVAddr, tables) \ EntriesOf(pvPDCpuVAddr', tables')}

-----------------------------------------------------------------------------
(* Mutant of DirectoriesOf: an entry is set in the directory of the heap's  *)
(* context only.                                                            *)
OwnDirectory(c, h) == {Owner(c, h)}

(* The directories that name the tables of a heap.                          *)
DirectoriesOf(c, h) == IF MMU_IsHeapShared(h) THEN Live ELSE {c}

WithEntries(cs, new) ==
    [x \in Live |->
        [d \in Directory |-> IF x \in cs /\ d \in DOMAIN new THEN new[d] ELSE pvPDCpuVAddr[x][d]]]

(* A page for a table, with no valid entry.                                 *)
AllocPageTableMemory == [pte |-> <<>>, ui32ValidPTECount |-> 0]

(* Tables for the entries that have none, in ascending order and as long as *)
(* there is memory.                                                         *)
Rank(x, S) == Cardinality({y \in S : y < x})
DeferredAllocPagetables(o, r) ==
    LET missing == {d \in {Entry(p) : p \in Pages(r)} : apsPTInfoList[o][d] = Nothing}
        free    == Tables \ DOMAIN tables
        had     == {d \in missing : Rank(d, missing) < Cardinality(free)}
    IN  [complete |-> had = missing,
         new |-> [d \in had |-> CHOOSE t \in free : Rank(t, free) = Rank(d, missing)]]

(* The pages of a range in a table; an entry names the range, whose memory  *)
(* the code puts there.                                                     *)
In(r, table, t) == {Index(p) : p \in {p \in Pages(r) : table[Entry(p)] = t}}

MMU_MapPage(t, i, r) ==
    [pte |-> [x \in DOMAIN t.pte \cup i |-> IF x \in i THEN r ELSE t.pte[x]],
     ui32ValidPTECount |-> t.ui32ValidPTECount + Cardinality(i)]

MMU_MapPages(ts, table, r) == [t \in DOMAIN ts |-> MMU_MapPage(ts[t], In(r, table, t), r)]

(* A range from the heap's arena and its tables.  What was allocated of the *)
(* tables stays when one cannot be had, but the range is given back.        *)
MMU_Alloc(c, h, r) ==
    LET o     == Owner(c, h)
        alloc == DeferredAllocPagetables(o, r)
        new   == alloc.new
        list  == [d \in Directory |-> IF d \in DOMAIN new THEN new[d] ELSE apsPTInfoList[o][d]]
        all   == [t \in DOMAIN tables \cup {new[d] : d \in DOMAIN new} |->
                    IF t \in DOMAIN tables THEN tables[t] ELSE AllocPageTableMemory]
    IN  /\ Pages(r) \subseteq MMU_Create(h)
        /\ \A s \in ranges : s.heap = h /\ Owner(s.context, h) = o => Pages(s) \cap Pages(r) = {}
        /\ pvPDCpuVAddr' = WithEntries(DirectoriesOf(c, h), new)
        /\ apsPTInfoList' = [apsPTInfoList EXCEPT ![o] = list]
        /\ IF alloc.complete
           THEN tables' = MMU_MapPages(all, list, r) /\ ranges' = ranges \cup {r}
           ELSE tables' = all /\ UNCHANGED ranges
        /\ ui32CacheControl' = IF new = <<>> THEN ui32CacheControl ELSE MMU_InvalidateDirectoryCache

(* Memory for a context, or for the kernel in a shared heap.                *)
DevMemoryAlloc(c, h, start, count) ==
    /\ c \in Live /\ (c = Kernel) = MMU_IsHeapShared(h)
    /\ MMU_Alloc(c, h, [context |-> c, heap |-> h, start |-> start, count |-> count])
    /\ SGXReads

-----------------------------------------------------------------------------
(* The tables of a context whose entries are in ds go, and the directories  *)
(* cs no longer name them.                                                  *)
DeferredFreePageTable(cs, o, ds, ts) ==
    LET gone == {apsPTInfoList[o][d] : d \in ds} IN
    /\ pvPDCpuVAddr' = WithEntries(cs, [d \in ds |-> Nothing])
    /\ apsPTInfoList' = [apsPTInfoList EXCEPT ![o] = [d \in Directory |-> IF d \in ds THEN Nothing ELSE @[d]]]
    /\ tables' = [t \in DOMAIN ts \ gone |-> ts[t]]

(* The tables of a range's context without its pages, and the directory     *)
(* entries of those that have none left.                                    *)
Unmapped(r) ==
    LET table == apsPTInfoList[Owner(r.context, r.heap)] IN
    [t \in DOMAIN tables |->
        LET mine == In(r, table, t) \cap DOMAIN tables[t].pte IN
        [pte |-> [i \in DOMAIN tables[t].pte \ mine |-> tables[t].pte[i]],
         ui32ValidPTECount |-> tables[t].ui32ValidPTECount - Cardinality(mine)]]

(* Mutant of Unused: a table goes with any of its pages.                    *)
Touched(r, ts) ==
    {d \in {Entry(p) : p \in Pages(r)} : apsPTInfoList[Owner(r.context, r.heap)][d] # Nothing}

Unused(r, ts) ==
    {d \in {Entry(p) : p \in Pages(r)} :
       LET t == apsPTInfoList[Owner(r.context, r.heap)][d] IN t # Nothing /\ ts[t].ui32ValidPTECount = 0}

(* Mutant of Invalidate: the directory cache is never dropped.              *)
InvalidateTables(unused) == MMU_InvalidatePageTableCache

Invalidate(unused) ==
    IF unused # {} THEN MMU_InvalidateDirectoryCache ELSE MMU_InvalidatePageTableCache

(* The arena takes a range back: its entries are cleared and the tables     *)
(* freed that have none left.                                               *)
MMU_UnmapPagesAndFreePTs(r) ==
    LET unused == Unused(r, Unmapped(r)) IN
    /\ DeferredFreePageTable(DirectoriesOf(r.context, r.heap), Owner(r.context, r.heap), unused, Unmapped(r))
    /\ ui32CacheControl' = Invalidate(unused)

MMU_Free(r) == ranges' = ranges \ {r} /\ MMU_UnmapPagesAndFreePTs(r)

DevMemoryFree(r) ==
    /\ r \in ranges
    /\ MMU_Free(r)
    /\ SGXReads

-----------------------------------------------------------------------------
SharedEntries ==
    UNION {{Entry(p) : p \in MMU_Create(h)} : h \in {h \in DOMAIN Heaps : MMU_IsHeapShared(h)}}

(* Mutant of MMU_InsertHeap: a new directory starts empty.                  *)
InsertNothing == MMU_Initialise

(* A directory into which the shared heaps are inserted: the entries of the *)
(* kernel's.                                                                *)
MMU_InsertHeap == [d \in Directory |-> IF d \in SharedEntries THEN pvPDCpuVAddr[Kernel][d] ELSE Nothing]

BM_CreateContext(c) ==
    /\ c \in Contexts \ Live
    /\ pvPDCpuVAddr' = [x \in Live \cup {c} |-> IF x = c THEN MMU_InsertHeap ELSE pvPDCpuVAddr[x]]
    /\ apsPTInfoList' = [x \in Live \cup {c} |-> IF x = c THEN MMU_Initialise ELSE apsPTInfoList[x]]
    /\ ui32CacheControl' = IF \E d \in SharedEntries : pvPDCpuVAddr[Kernel][d] # Nothing
                           THEN MMU_InvalidateDirectoryCache ELSE ui32CacheControl
    /\ UNCHANGED <<tables, ranges>>
    /\ SGXReads

(* The heaps of a context are deleted, its tables with them, those too that *)
(* an allocation left that failed.                                          *)
MMU_Delete(c) ==
    /\ tables' = [t \in DOMAIN tables \ {apsPTInfoList[c][d] : d \in Directory} |-> tables[t]]
    /\ ui32CacheControl' = MMU_InvalidateDirectoryCache

(* Then its directory is cleared and freed, and leaves the list of those    *)
(* that are told of shared tables.                                          *)
MMU_Finalise(c) ==
    /\ pvPDCpuVAddr' = [x \in Live \ {c} |-> pvPDCpuVAddr[x]]
    /\ apsPTInfoList' = [x \in Live \ {c} |-> apsPTInfoList[x]]

(* What was allocated in the context is gone before (DeviceMemory).         *)
BM_DestroyContext(c) ==
    /\ c \in Live \ {Kernel}
    /\ \A r \in ranges : r.context # c
    /\ MMU_Delete(c)
    /\ MMU_Finalise(c)
    /\ UNCHANGED ranges
    /\ SGXReads

(* A command takes the note with it, and SGX drops what it says before it   *)
(* does anything else.                                                      *)
SGXScheduleCCBCommand ==
    /\ ui32CacheControl # {}
    /\ ui32CacheControl' = {}
    /\ stale' = IF "PD" \in ui32CacheControl THEN {} ELSE stale \ {"PT"}
    /\ UNCHANGED <<pvPDCpuVAddr, apsPTInfoList, tables, ranges>>

Next ==
    \/ \E c \in Live, h \in DOMAIN Heaps, start \in 0..(Cardinality(Directory) * TableSize - 1),
          count \in 1..MaxPages : DevMemoryAlloc(c, h, start, count)
    \/ \E r \in ranges : DevMemoryFree(r)
    \/ \E c \in Contexts : BM_CreateContext(c) \/ BM_DestroyContext(c)
    \/ SGXScheduleCCBCommand

Spec == Init /\ [][Next]_vars

-----------------------------------------------------------------------------
(* What SGX finds for a page when it walks the directory of a context.      *)
Walk(c, page) == LET t == pvPDCpuVAddr[c][Entry(page)] IN
                 IF t = Nothing \/ Index(page) \notin DOMAIN tables[t].pte THEN {}
                 ELSE {tables[t].pte[Index(page)]}

Holders(c, page) == {r \in ranges : r.context \in {c, Kernel} /\ page \in Pages(r)}

(* In every context, also those made later, an allocated page leads to its  *)
(* memory and any other page nowhere: no directory names a freed table, and *)
(* no table is freed while it has a page.                                   *)
TranslationsExact ==
    \A c \in Live, d \in Directory, i \in Entries :
        /\ pvPDCpuVAddr[c][d] # Nothing => pvPDCpuVAddr[c][d] \in DOMAIN tables
        /\ Walk(c, d * TableSize + i) = Holders(c, d * TableSize + i)

(* A table's count is that of its valid entries, and every table is in the  *)
(* list of one context, from where it will be freed.                        *)
TablesCounted ==
    \A t \in DOMAIN tables :
        /\ tables[t].ui32ValidPTECount = Cardinality(DOMAIN tables[t].pte)
        /\ Cardinality({x \in Live \X Directory : apsPTInfoList[x[1]][x[2]] = t}) = 1

(* What SGX may still have cached and is no longer so is dropped with the   *)
(* next command: none runs with memory that was given back.                 *)
StaleIsDropped ==
    /\ "PD" \in stale => "PD" \in ui32CacheControl
    /\ stale # {} => ui32CacheControl # {}

PagesSound == TranslationsExact /\ TablesCounted /\ StaleIsDropped

=============================================================================
