# TLA+ models of the TI SGX kernel services driver

The driver in `src/` is PowerVR *services4* for Linux: a kernel module that owns
an SGX graphics core and lets processes render to surfaces, flip them to a
display, and share memory.  This directory models the parts whose
correctness depends on several actors, checks them on small instances with TLC, and
proves the invariants that matter most for every instance with TLAPS.

Contents: 1 inventory, 2 what is hard, 3 plan, 4 the modules and the code,
5 runs, bounds and fairness, 6 proofs, 7 what is only checked or not modelled.

## 1. The system

Paths are relative to `src/services4/`; `srvkm/` is the driver proper,
`3rdparty/` holds display drivers that plug into it.

| Part | State it keeps | Operations | Correct when |
|---|---|---|---|
| Command queues, `srvkm/common/queue.c` | a ring per swap chain, the list of queues, one complete-data slot per device and command type | create, destroy, get space, insert, submit, process, complete | every pending operation completes exactly once, in order of issue; a queue that is stuck does not stop the others |
| Sync objects, `include/servicesint.h` | four counters per surface: read/write, pending/complete | issue, complete, compare | a surface is never read and written at once |
| Display class, `srvkm/common/deviceclass.c` | devices, swap chains and references to them, the last buffer flipped | open, create/destroy chain, swap to buffer or system surface | a chain outlives its queued flips; each chain is destroyed once |
| Frame-buffer driver, `3rdparty/dc_omapfb3_linux` | swap chain, buffers with a work item and a cookie each, a work queue | process a flip, swap handler, complete | each accepted flip completes once, in order |
| MISR and ISR, `srvkm/common/pvrsrv.c`, `srvkm/env/linux/osfunc.c` | MISR work item | LISR, schedule, MISR | no wake-up is lost |
| Resource lock, `osfunc.c` | lock word and owner ID | create, lock, unlock, destroy | one owner; only the owner unlocks |
| Power management, `srvkm/common/power.c` | power lock, power state of system and devices | set state, pre/post power, lock | hardware is touched only when it is on; state changes do not overlap |
| SGX power and active power, `srvkm/devices/sgx/sgxpower.c`, `sgxutils.c` | the microkernel's idle request, the deferred-kick flag | power event test, pre/post power | no command is left in the CCB of a sleeping core |
| Kernel CCB, `sgxutils.c` | a ring shared with the microkernel | acquire slot, schedule | a command is never overwritten before it was read |
| SGX kick and transfer, `sgxkick.c`, `sgxtransfer.c` | pending counters | kick TA, transfer, 2D | a kick that fails leaves no counter behind |
| SGX cleanup, `sgxutils.c` | the cleanup status word | request, poll | memory is freed only when the microkernel let go of it |
| Reset and recovery, `sgxreset.c`, `sgxinit.c` | watchdog counters | reset, recover, detect lock-up | work queued before the reset goes on after it |
| Shared parameter buffer, `srvkm/devices/sgx/pb.c` | the shared buffer, its reference count, the right to create it | find, add, unreference | at most one buffer; the right is given back |
| Sync modification objects, `srvkm/bridged/bridged_pvr_bridge.c` | per object, the ticket of an operation a process announced by hand | create, destroy, announce, complete, take a token, query | operations complete in order, also when their process ends; a token tells the truth |
| Resource manager, `srvkm/common/resman.c` | a list of resources per process context | register, free by pointer or criteria, disconnect | each resource is freed once, in order, none is left |
| Per-process data, `perproc.c` | reference count per process | connect, disconnect | freed with the last reference |
| Handle manager, `handle.c` | handle table, free list, parents, batches | allocate, look up, release, batch | a handle names one object of its type until released |
| Buffer manager, device memory, `buffer_manager.c`, `devicemem.c` | contexts, heaps, mappings and their counts | allocate, map, free | memory lives as long as a mapping |
| MMU, `mmu.c` | page directory and tables | map, unmap, invalidate | no stale translation |
| Resource allocator, hash, `ra.c`, `hash.c` | boundary tags, buckets | allocate, free, insert, remove | segments are disjoint |
| Event objects, `srvkm/env/linux/event.c` | time stamps and waiters | create, signal, wait, close | a signal wakes each waiter once |
| Bridge, `pvr_bridge_k.c`, `srvkm/bridged/` | one mutex, `gPVRSRVLock` | dispatch | one call at a time |

How they interact.  A process enters through the bridge, which runs one call
at a time.  A flip (`PVRSRVSwapToDCBufferKM`) takes ring space, counts a pending
read on the surface it shows and on the surface it replaces, submits the command
and schedules the MISR.  The MISR, a single-threaded work queue item, runs the device
handlers and then `PVRSRVProcessQueues`: under `sQProcessResource` it takes
every command whose dependencies are met and whose device has its slot free,
and hands it to the display driver, which queues the buffer on its own
work queue.  When the flip is on screen the swap handler completes the
command: counters move, the slot becomes free, SGX is kicked (it may have waited
for the counters) and the MISR is scheduled (the next command may have waited
for the slot).  SGX runs renders by itself once it was kicked and interrupts when one ends.
The watchdog timer and the MISR may start a recovery, whose pass over the queues
*flushes*: it also accepts dependencies that are older than the counters.

Memory.  A process asks the bridge for memory; the wrapper makes a handle for each object that the call
made.  `devicemem.c` gets a buffer from the buffer manager, which takes addresses from a heap's arena (`ra.c`),
writes page table entries (`mmu.c`) and gets pages from `mm.c`; the result is registered with the resource manager,
which frees it if the process ends first.  User space maps it through `mmap.c` in a second call, `mmap`.

Display and buffer class drivers are kernel modules of their own: they register functions with
services (`PVRSRVRegisterDCDeviceKM`, `PVRSRVRegisterBCDeviceKM`), are called back, and may be unloaded.

## 2. What is hard

`PROJECT.json` lists each hazard at its line.  In short: two walkers of
the queues that lock with the same ID; a slot that is released after the counters
it guards moved; a completion cookie that is read late; flushing passes that bend
the order; wake-ups that exist only as an edge (work item, kick, interrupt);
refused commands; locks that are tried once and whose failure is ignored;
a lock that is created again while it is held; deferred kicks noted in a flag that two
parties write; call-backs run with the list lock dropped; and errors half-way
through create and destroy paths.

## 3. Plan

The order in which the parts were taken, the most important first.

1. `CommandQueue`: the queues with everyone who drives them; every frame goes through it.
2. `CommandRing`, `CommandFifo`: the memory of one queue, shown to implement a FIFO of whole commands.
3. `PowerKick`: the power lock, active power and the deferred kick; `KernelCCB`: the ring of commands for SGX.
4. `SyncModObj`: operations announced by processes, and the end of a process.
5. `Kicks`, `SwapChain`, `SharedPB`: what clients submit and share.
6. `DeviceMemory`, `ResourceArena` with `BoundaryTags`, `HashTable`, `PageTables`, `MemoryAreas`: memory.
7. `HandleTable`, and the bridge: `BridgeSteps`, `ServicesCalls`, `SGXCalls`, `BridgeCalls`.
8. `EventObject`, `QueueList`, `ResMan`; then load and unload: `Startup`, `DisplayDriver`, `BufferClass`.

Abstract specifications, each implemented by a detailed one: `CommandFifo` by `CommandRing` and by `KernelCCB`, `HandleMap` by
`HandleTable`, `KeyedMap` by `HashTable`, `AddressAllocator` by `ResourceArena`.

What composes what: `CommandQueue` contains the display driver, SGX and the watchdog as far as flips need them;
`BridgeCalls` runs the wrappers of `ServicesCalls` and `SGXCalls` in the steps of `BridgeSteps`; `ResourceArena` works
on the data structure of `BoundaryTags`.  The remaining components meet only under the bridge lock, one call at a time, and
are modelled one by one, each with the others' part in its environment.

There are proofs about `CommandQueue`, `CommandRing`, `PowerKick`, `SyncModObj`, `DeviceMemory`, `KernelCCB`,
`EventObject`, `SharedPB`, `QueueList`, `ResMan`, `BufferClass`, `SwapChain`, `DisplayDriver` and what a cleanup promises
in `Kicks` (section 6).  Not proved are the counts of `Kicks`, the load, the bridge, and the data structures
(`ResourceArena`, `HashTable`, `HandleTable`, `PageTables`), whose invariants speak of chains and areas
in sequences and need an inductive argument about each.

## 4. The modules and the code

### `CommandQueue` (with `MCCommandQueue`)

| Model | Code |
|---|---|
| `syncData[s]` | `PVRSRV_SYNC_DATA` of a surface: `wop`, `rop` are the pending counts, `woc`, `roc` the complete ones |
| `cmds[q]` | the commands between the read and the write offset of a `PVRSRV_QUEUE_INFO`; an operation carries the counts it was issued at |
| `resource` | `sQProcessResource.ui32ID`; both walkers lock it with `ISR_ID` |
| `walker[w]` | the two threads that run `PVRSRVProcessQueues`: the MISR work item and the recovery started by the lock-up timer |
| `slot[d][k]`, `ccbOffset[d]` | `apsCmdCompleteData`, `ui32CCBOffset` |
| `swapWork[d]`, `hCmdComplete[s]`, `handler[d]` | the work queue of the frame-buffer driver, the cookie of a buffer, the running `OMAPLFBSwapHandler` |
| `lastFlip[q]` | `psLastFlipBuffer` |
| `client` | the one bridge call in progress |
| `renders`, `running`, `ukKick`, `irq` | SGX and its microkernel (external): what it was given, what it runs, whether it was kicked, its interrupt line |

`PVRSRVSwapToDCBufferKM` is `BeginSwap`, `GetQueueSpaceKM`, one `InsertCommandKM` per
source surface, `SubmitCommandKM` and `ScheduleSwap`: a walker may run between any two.
`PVRSRVProcessQueues` is `LockQueues`, one step per command
(`ProcessCommand`, `CommandRefused`) or per queue left (`LeaveQueue`), `UnlockQueues`.
`PVRSRVCommandCompleteKM` is `CommandCompleteKM`, one `CompleteOp` per counter,
`ReleaseSlot`, `ScheduleDeviceCallbacks`, `ScheduleMISR`: another thread may see the slot
busy while half of the counters moved.

### `CommandRing` (with `MCCommandRing`), `CommandFifo`

`CommandQueue` takes a queue of whole commands for granted; `CommandRing` is the memory that provides
it.  The bridge call that fills in a command and the thread that processes the queue share no lock.

| Model | Code |
|---|---|
| `readOffset`, `writeOffset` | `ui32ReadOffset`, moved by the walker only, and `ui32WriteOffset`, moved by the client only |
| `mem` | `pvLinQueueKM`: `QueueSize` bytes and `PVRSRV_MAX_CMD_SIZE` behind them, so that no command is split |
| `Wrap` | the mask `& (ui32QueueSize - 1)`, a remainder because `NearestPower2` rounds the size |
| `client` | between `PVRSRVGetQueueSpaceKM` and `PVRSRVSubmitCommandKM`; `InsertCommandKM` writes one word |
| `walker` | the reading of the command at the read offset, one word per `ProcessCommand`; `LeaveQueue` is every reason not to take it |
| `queued`, `taken` | history: the commands between the offsets, and what the last command was read as |

Sizes are in whole words, as `(x + 3) & ~3` makes them.  A caller that is refused (`CMD_TOO_BIG`) or waits in vain
(`CANNOT_GET_QUEUE_SPACE`) changes nothing.  `CommandFifo` is the promise: `Submit` and `Take` of whole
commands.  `CommandRing` implements it with `fifo <- ` the contents of `queued`; `taken` is compared as
it was *read from memory*, so an overwritten or half-written command breaks the refinement.

### `PowerKick` (with `MCPowerKick`)

The SGX core is turned on by whoever has a command for it and turned off when
the microkernel says that it is idle.  Five threads compete for the power lock:
a bridge call, the completion of a flip, the MISR, the watchdog's work item, and the
system's suspend and resume.  Each is a list of *stages* (`thread[t].todo`), one per
function that takes the lock, and a place (`pc`) in the first of them.

| Model | Code |
|---|---|
| `resource` | `sPowerStateChangeResource` |
| `PowerLockWrap` | the build option `SYS_CUSTOM_POWERLOCK_WRAP`: `OSPowerLockWrap` takes a mutex, so nobody meets a taken lock |
| `sysPowered`, `devPower` | `eCurrentPowerState` of the system and of the SGX power device |
| `bActive` | `bActive` of the watchdog's timer |
| `bReProcess` | `bReProcessDeviceCommandComplete`, the note that a kick is owed |
| `powerStatus`, `activePower`, `clearActive` | `ui32PowerStatus`, and `INTERRUPT_ACTIVE_POWER` in `ui32InterruptFlags` and `ui32InterruptClearFlags`: words shared with the microkernel |
| `ccb` | the kernel CCB between its offsets; the ring is in `KernelCCB` |
| `work`, `ready`, `done` | renders the microkernel knows, those it has found to be ready, flips that have completed (the dependencies of renders) |

`SGXScheduleCCBCommandKM` is `PowerLock`, then either `ClearReProcess` or the steps that turn the core on
(`ResetPowerStatus`, `SGXInitialise`), `SGXScheduleCCBCommand` and
`PowerUnlock`.  `SGXTestActivePowerEvent` reads both flags, acknowledges
(`AcknowledgeActivePower`), and under the lock goes through `OSDisableTimer`,
`SendPowerOff` and `DevicePowerOff`; what `SGXPostActivePowerEvent` reads, it reads after
the unlock, in a step of its own.  `GiveUp` is what each caller does with
`PVRSRV_ERROR_RETRY`.  The microkernel's actions (`Uk...`) are external: it reads a
command, looks at what is ready, answers a power command, asks for power-off when
idle, and may hang.

### `KernelCCB` (instance `ccb` of `MCServices`; proofs in `KernelCCBProofs`)

`PowerKick` has the commands for SGX as a queue that is never full; `KernelCCB` is the ring itself, with SGX on.

| Model | Code |
|---|---|
| `psCommands`, `ui32WriteOffset`, `ui32ReadOffset` | the ring of `PVRSRV_SGX_CCB_INFO`; one slot stays free |
| `cacheControl` | `ui32CacheControl`: each bit is the set of the requests it stands for |
| `ePendingCacheOpType` | the operation on the CPU cache that `PVRSRVGetMiscInfoKM` deferred |
| `submitter[t]` | the place of the bridge call and of the MISR in `SGXScheduleCCBCommandKM`; `word` is what it loaded from `ui32CacheControl` |
| `wanted`, `executed` | history: the requests that are not met; the last command SGX read |

`LoadsCacheControl` and `StoresCacheControl` are the two halves of a `|=` of the MMU code or of a cleanup, which hold the bridge lock but not
the power lock; `TakesCacheControl` and `ClearsCacheControl` are the load and the store of zero under the power lock.
`FIX_HW_BRN_28889` looks whether a command must come first, which then goes through the same steps with `nested` set.
The ring implements `CommandFifo`.

### `SyncModObj` (with `MCSyncModObj`; proofs in `SyncModObjProofs`)

A process may operate on a surface without the driver's help: it announces the operation, which
gives it a ticket and raises the pending counts, and later reports that it is done.  The driver only
keeps the ticket, in an object that the resource manager lists, and completes the operation itself
if the process ends before.  All of this runs under the bridge lock.

| Model | Code |
|---|---|
| `sync[s]` | the four counters of a surface, which wrap at `Modulus` (2^32 in the code) |
| `obj[o]` | `MODIFY_SYNC_OP_INFO`; `sync = "none"` is a NULL `psKernelSyncInfo`, `owner = "lost"` is memory that nobody points to any more |
| `resList[p]` | `psResItemList` of the process, head first: `ResManDissociateRes` moves an announced object to the head |
| `exit` | the `PVRSRVResManDisconnect` in progress, and the call-back it waits in |
| `token[s]` | what some client was given by `PVRSRVSyncOpsTakeTokenBW` |
| `ops[s]`, `issued[s]` | history: the outstanding operations of a surface in order of issue, whoever issued them |

The queries (`PVRSRVSyncOpsFlushToToken`, `...ModObj`, `...Delta`) change nothing and are operators:
`DoQuerySyncOpsSatisfied`, `Satisfied`, `FlushedToDelta`.  `PVRSRVResManDisconnect` is
`PVRSRVProcessDisconnect` (which reverses the list), one `FreeResourceByPtr` per object,
`OpFlushedComplete` or `FlushTimeout` for each call-back that had to wait, and the step that frees the context.
SGX (external) issues reads and writes through a kick and completes them in their turn, also
while a process that ends holds the lock.

### `Kicks` (instance `kicks` of `MCMemory`; proofs in `PartsProofs`)

| Model | Code |
|---|---|
| `sync[s]` | the four counters of a surface |
| `commands[c]` | per context, what `SGXDoKickKM`, `SGXSubmitTransferKM` and `SGXSubmit2DKM` gave the microkernel, each with the counts it must wait for |
| `scene[c]` | what the first kick of a render, or the parts of a transfer, counted for the last one to complete |
| `life`, `cleanups`, `ui32CleanupStatus`, `request` | contexts, and the handshake of `SGXCleanupRequest` |
| `tainted`, `crossed`, `spoilt` | history that conditions the properties, see section 7 |

`SGXDoKickKM` counts in the order of the code and, on `RETRY`, takes back what the code takes back.
`Runs` and `CleansUp` are the microkernel (external): it runs a command whose counts are reached, completes its
operations, and answers a cleanup of a context that has no commands.

### `SwapChain` (instance `swap` of `MCParts`; proofs in `PartsProofs`)

`chains`, `shared`, `refs` are the chains with their counts, the shared chain of the device and the references of
each process; `display` is the device with the driver's one chain; `queues` and `slot` are the flips under way, as far as they keep a
chain in use.  Actions are the bridge calls (`OpenDCDeviceKM` to `SwapToDCSystemKM`), the
end of a process being the closing and destroying of all it has in some order, and the driver's `ProcessFlip` and
`SwapHandler`.  `mishaps` records the three failures that the code does not undo, see section 7.

### `SharedPB` (instance `pb`; proofs in `PartsProofs`)

`stub` is `psStubPBDescListKM` of each core, `items` the references of each process, `creator` and `locks` the right to create
(`psPerProcCreateSharedPB`, and the resource that gives it back).  `SGXFindSharedPBDescKM`, `SGXAddSharedPBDescKM`,
`SGXUnrefSharedPBDescKM` and `PVRSRVResManDisconnect` are one action each: the bridge lock is held.

### `DeviceMemory` (with `MCDeviceMemory`; instances of `MCMemory`; proofs in `DeviceMemoryProofs`)

| Model | Code |
|---|---|
| `mem.info`, `mem.buf`, `mem.sync` | the `PVRSRV_KERNEL_MEM_INFO`s, the `BM_BUF`s (each with its `BM_MAPPING`) and the `PVRSRV_KERNEL_SYNC_INFO`s, with their counts; `res` is the process whose resource list has the info |
| `mem.hash` | `pBMContext->pBufferHash` of each context: the wrapped memory that `BM_Wrap` finds again |
| `mem.handles`, `mem.pinned` | the infos that have a kernel handle because they were exported; those whose client pages are locked |
| `mem.memMap` | `ui32MemMapRefCount` of the display's buffers |
| `context` | the `BM_CONTEXT` of a process: its count, whether it is there, whether a segment of its arenas has been lost, whether its heaps were made a second time |
| `exiting` | the process whose resources are being freed, in any order the resource manager may reach |

Each call is one action with its failure paths: an allocation that fails (`faults`) leaves what the code leaves.
A process may destroy its context at any time: `BM_DestroyContext` counts down modulo `Modulus` and tests the import arenas of the
heaps (`RA_TestDelete`), no more; `BM_DestroyContextCallBack` takes the heaps and the hash, and leaves wrapped and mapped memory that lay
there in a context that has gone (`Nil`).

### `BoundaryTags`, `ResourceArena`, `AddressAllocator` (with `MCResourceArena`)

`BoundaryTags` is `ra.c` as functions on a record of segments (in address order, neighbours are the boundary
tags) and free lists by power of two: insertion, splitting with alignment, coalescing, the search from the
order of the size upwards.  `ResourceArena` makes `RA_Create`, `RA_Alloc` and `RA_Free` of them, for a heap's
addresses (one span; freeing names the whole quanta whose page table entries go, `backed`) and for memory that is
imported span by span.  `AddressAllocator` is the promise: areas handed out are disjoint and in the pool.

### `HashTable`, `KeyedMap` (instance `hash`)

`ppBucketTable` is the sequence of chains.  A table resizes as `hash.c` does, unless there is no memory, and a rehash
reverses chains.  `KeyedMap` is a map whose insertion may be refused.

### `PageTables` (instance `pages` of `MCServices`)

| Model | Code |
|---|---|
| `pvPDCpuVAddr[c]` | the page directory of a context: per entry, the table or nothing |
| `apsPTInfoList[c]` | the tables the context knows, with shared heaps in the kernel's |
| `tables[t]` | page table entries and `ui32ValidPTECount` |
| `ranges` | what heaps' arenas have given out and mapped |
| `ui32CacheControl`, `stale` | what the next command invalidates, and what SGX may have cached that changed since |

`DevMemoryAlloc` and `DevMemoryFree` are the whole of `MMU_Alloc`/`MMU_MapPages` and `MMU_Free` with the tables they make and drop;
creating and destroying a context copies the entries of shared heaps.

### `MemoryAreas` (instances `threads` and `areas`)

`areas` are `LinuxMemArea`s and parts of them, `structs` the `KV_OFFSET_STRUCT`s, `vmas` user mappings.
A thread asks for a mapping (`PVRMMapOSMemHandleToMMapData`), maps (`PVRMMap`), releases it and unmaps, each in a step of its own
since the bridge lock is dropped between; `FreesHandle`, `ExitMappings`, `PVRSRVProcessDisconnect` come between any two.

### `HandleTable`, `HandleMap` (instances `handles`, `kernel`)

`base` is `PVRSRV_HANDLE_BASE`: handles in blocks, the free list threaded through them with its `0` for "next
in order", the hash of shared handles, the batch.  Fields that a free handle keeps from its last life are reset in the model.
`HandleMap` is the promise: names, parents, and a batch that is
committed or released whole.  The kernel's table searches for a free handle instead (`bPurgingEnabled`).

### `BridgeSteps`, `ServicesCalls`, `SGXCalls`, `BridgeCalls` (instance `calls`)

`BridgeSteps` has the steps of which wrappers consist: look a handle up, allocate one or a sub-handle, open, commit or release a batch, make or
free an object, give up.  `ServicesCalls` and `SGXCalls` are the two dispatch tables, each wrapper the sequence of
its steps with what each does on failure.  `BridgeCalls` runs one path through one wrapper as one action: admission first
(`BridgedDispatchKM`), then its steps, each of which may fail.  `world` is what the process has: objects,
handles with their parents, the batch.

### `EventObject` (instance `events`; proofs in `EventObjectProofs`)

`sList` are the objects with `sTimeStamp` and `ui32TimeStampPrevious`; `waits[t]` is the place of a thread in `LinuxEventObjectWait`, which
drops `gPVRSRVLock` while it sleeps; `walk` is the MISR's walk, one object at a time.

### `QueueList` (instance `queues`; proofs in `PartsProofs`)

The list of queues with the lock taken apart: `OSLockResource` is an atomic try and a later store of the ID,
`OSUnlockResource` two reads and two stores (`Unlocking`, `Clears`, `Release`), `OSCreateResource` and
`OSBreakResourceLock` plain stores.  Calls are serial under the bridge lock; the MISR and a recovery walk.
A behaviour ends when a plain store takes the lock from a walker (`broken`).

### `ResMan` (instance `resman`; proofs in `PartsProofs`)

The lists of a process and of the device node, head first; registering, freeing by pointer, dissociating, and the sweep of a disconnect, type by
type in the code's order, with the reversal for operations on sync objects and the stop at a callback that fails.
No callback re-enters the manager and every call is under the bridge lock, so the lock that `FreeResourceByPtr` drops
round a callback exposes nothing.

### `Startup` (instance `load`)

`at` is the function that runs, `failed` the steps that failed, `alive` what has been made, `clocks` the core's clocks and its users in the runtime power
management.  `ModuleStep` is `PVRCore_Init`, `SysInitialise`, `SysFinalise`, opening by the
init server and others, power transitions, `SysDeinitialise` and the unload.

### `DisplayDriver` (instances `driver`, `load`; proofs in `PartsProofs`)

The ti335x frame-buffer driver: `loader` goes through the frame buffers, `held` and `registered` say what each
registration has left; the chain, its work queue and its swap handler (`swapper`), which waits for vsyncs unless
blanked, flushed or suspended; `notifier` and `system` are the frame-buffer notifier and early suspend.

### `BufferClass` (instance `example`; proofs in `PartsProofs`)

The example driver (`module`, `psSystemBuffer`, `fill`) and the services' side (`psBCInfo`, `open`, `maps`), with SGX's
reads (`read`) as the environment.  `FillBuffer` is two steps: the look at the counters, and the announcement.

## 5. Runs, bounds and fairness

Components that share nothing are checked in one run: `MCMemory`, `MCParts` and `MCServices`
hold an instance of each, a variable `instance` is chosen in the first state, and from then on only that instance moves.
The state space is the sum, not the product, of those of the instances.  A property of such a run is stated with the
modules; `ChainsSound`, for example, is `ChainsSound` of `SwapChain`, `DriverSound` of `DisplayDriver` and `QueuesSound` of `QueueList`.

| Run | Question | Instance |
|---|---|---|
| `flips` | is each operation held exactly once, and are surfaces used exclusively and in order, when walkers, driver, client and SGX interleave | one display, a chain of two buffers and the system surface, one slot, two commands per queue, at most 2 operations per buffer, flips that the driver accepts or refuses |
| `live` | does everything that was issued complete | the same, three operations on one buffer, no refused flips |
| `settle` | does a wedged queue leave the other alone | two displays with a chain each |
| `core` | without the mutex: is hardware touched only when it is on, is the CCB of a sleeping core empty, is the lock given back on every path, and is every render that became ready known to somebody who will kick | one render and its flip, one suspend, and one hang or one failed start |
| `mutex` | with the mutex: does every render whose flip completes finish | one render, one suspend |
| `yield` | does the watchdog leave a power transition be, as its comment says | with the mutex, one hang: **violated**, see section 7 |
| `memory` | does memory live exactly as long as somebody refers to it; are arenas, hash tables and counters of kicks sound | see below |
| `parts` | are a queue's memory, handles, swap chains, parameter buffers, bridge calls, the display and buffer class drivers, lists of queues and of resources sound | see below |
| `grows` | may a handle table grow only when nothing is free, as `handle.c` asserts | one table, four handles: **violated**, see section 7 |
| `services` | do operations on sync objects complete in order and tokens tell the truth; do signals reach, page tables agree, commands for SGX arrive whole and in order with the caches to be dropped, loads undo themselves, mappings reach their memory | see below |
| `exit` | is what a process announced completed at its end at the latest | one process with two objects, and SGX on one surface, four operations, one wait for SGX that times out |
| `left` | has a process that ended no resource left, as `resman.c:298` asserts | two processes: **violated**, see section 7 |

| Instance | Bounds |
|---|---|
| `ring` | eight words, commands of one and three words and one that is too big: every alignment to the top of the ring occurs; unbounded in time |
| `handles`, `kernel` | two blocks of two handles, batches of three, and of one to three for the kernel, one call during which memory is short |
| `swap` | two processes, two chains, two references, two flips in a queue, the three mishaps |
| `pb` | three processes, two cores, two references, three memories |
| `calls` | eight topics, each with the calls that meet: two to four objects, four to nine handles, of which up to four are there from the beginning |
| `driver`, `load` (of `MCParts`) | one frame buffer with room for none or two buffers, two vsyncs to settle, two chains, two flips, one foreign blank, one suspend; two frame buffers for the load alone |
| `queues` | two queues, two walkers |
| `resman` | one process and the device, three resources of three kinds |
| `example` | one buffer, two processes, two loads, two opens each, one reconfiguration, one fill |
| device memory | four instances: two processes that share, with three mem infos and contiguous wrapped memory; one process that wraps contiguous memory with two sizes, in a heap of its own; the same with two mem infos and memory short once; two processes with two mem infos each, wrapped memory of both kinds, a display's buffer and memory short twice. The count of a context is modulo 4, so it wraps; with heaps of its own a process may ask for its context twice |
| arenas | one span of ten at quantum four, and an importing arena; sizes 2, 3, 5, alignments 1 and 4; one shortage of memory |
| `hash` | four keys that collide in small tables; the table grows to eight and shrinks again |
| `kicks` | two render contexts, one of which renders in two parts, and one for transfers and blits, two surfaces and a dependency, three commands, one refusal, one late cleanup |
| `sync` | two processes, two objects, one surface, counters modulo 4, four operations: the counters wrap |
| `events` | three threads of two processes, two objects, two walks |
| `pages` | two contexts, a directory of four tables of two pages, three tables to be had |
| `ccb` | a ring of two commands, page table and data caches, one request of each kind at a time |
| `load` (of `MCServices`) | every step fails or not, any combination of the build options; one power request fails |
| `threads`, `areas` | two threads of one process with an area and two parts; two processes with an area and a part of it |

Why this is enough.  Two operations on a buffer are what it takes for one to wait for the other, three for
an operation to be overtaken by a flushing pass while a second waits.  `NumSlots` is 1, as in the code
(`DC_NUM_COMMANDS_PER_TYPE`).  Two queued commands per ring make both the full ring and a head
that blocks a second command reachable.  `ClipRects` contains a count that the display
driver rejects.  The two buffers of the chain are interchangeable, so `flips` uses symmetry, and so do `memory` for
its processes and `services` for two pairs of names; the runs with liveness properties do not.

In `CommandRing` the state space is finite without a bound on the number of commands.  In `parts` deadlock is
checked; modules whose counters are bounded say when they may rest.  Deadlock is not
checked in the other runs: once `MaxOps` operations are issued and done,
the system may rest, and a queue whose head the driver always refuses rests too
unless a wake-up comes.

In `PowerKick` one render is enough for each of the two orders that matter: its command and the
completion of its flip may each come first, before, while or after the core is turned
off, and both call for the lock.  One suspend and one hang each meet every other step.

Reference counts need a second reference to be dropped at the wrong time and a third party to notice: two references
or two holders are in every instance that counts.  Wraps and boundaries occur in small arithmetic (counters modulo 4,
blocks of two, tables of two pages).

Fairness of `FairSpec` in `PowerKick`.  Threads run (`WF` of each thread's steps), the MISR is a
work item, a suspended system is resumed some day, and a microkernel that does not
hang reads its commands and finishes ready renders.  `PowerLock` is strongly
fair: `FairSpec` is used with the mutex only, whose waiters are served in
turn.  Renders, flips, suspends and hangs are not fair, nor is the microkernel's
idle request.

In `SyncModObj` five operations on a surface whose counters have four values let a token grow older than
a whole round.  At most `Modulus - 1` operations are outstanding, as 2^32 never are.

Fairness of `FairSpec` in `SyncModObj`.  Every process ends some day (`WF` of its disconnect: the bridge
lock is a mutex whose waiters are served in turn), the disconnect runs, and SGX completes what has its
turn.  `MaxStalls` bounds the waits for SGX that exceed `MAX_HW_TIME_US`: a wait that
times out loses the operation for good, and `AnnouncedCompletes` excepts what was lost so.  No client is bound to complete what it announced.

`Delivered` (`SignalsReported` of `EventObject`, and the ring of `KernelCCB` as a FIFO), `OthersKeepTheirs` and the like are action properties and need no fairness.

Fairness of `FairSpec` in `CommandQueue`.  The MISR is a work item of a single-threaded work queue and
`queue_work` guarantees a run after each successful queueing: `WF` of
`StartMISR` and of each step of a walk (the spin on the resource in
`PVRSRVProcessQueues` ends when the other walker, which never sleeps inside, leaves).  The swap
handler is a work item of the driver's own queue: `WF` of each display's driver.  The bridge call in
progress is a runnable thread: `WF(BridgeCall)`.  SGX makes progress on what it can start:
`WF` of its steps.  No fairness is assumed for clients that issue new work or
for lock-ups.

## 6. Proofs

`CommandQueueProofs` extends `CommandQueue`.  Assumptions: `ListAssumption`
(no queue is twice in the list) and `ConstantsAssumption` (one chain per device, as
`PVRSRV_ERROR_FLIP_CHAIN_EXISTS` enforces; chains share no surface; sizes are
positive).  Nothing is assumed about the number of devices, queues, surfaces, operations, slots.

| Theorem | Statement |
|---|---|
| `TypeCorrect` | `Spec => []TypeOK` |
| `WalkersExclude` | `Spec => []OneWalker` |
| `CompletionsKept` | `Spec => []NoCompletionLost` |
| `SurfacesExclude` | `Spec => []SurfaceExclusive` |
| `StartsOrdered` | `Spec => StartsInOrder` |
| `PendingHeld` | `Spec => []PendingIsHeld` |

The argument for `SurfacesExclude` and `StartsOrdered` is that an operation's pair of pending counts works as a
ticket: `wop + rop` grows with each operation issued on a surface, so no two
operations on a surface have the same ticket (`TicketsUnique`), and a ticket lies between the
complete and the pending counts (`TicketsInRange`).  What is with a driver or runs on SGX
has exactly the ticket that the complete counts name (`InFlightIsMet`), hence there is
at most one.  A flushing pass accepts an operation whose counts were *passed*; with
the tickets in range, passed means reached (lemma `StaleIsMet`), so flushing bends nothing.
`CommandsReadTheirBuffer`, `SwapWorkHoldsSlots`, `FlipHoldsSlot` and `HandlerHoldsSlot` relate a slot in use to
the buffer that will complete it; without them the swap handler could, as far as the
induction knows, complete a slot twice.  Their conjunction `OrderInv` is inductive.

`PendingHeld` adds a count (`CountInv`): the operations on a surface that somebody still holds (`HeldOps`, in a queue, with a driver,
in the kernel CCB) are finitely many, and as many as the pending count is ahead of the complete one.  A call that waits for space in
its queue has issued nothing yet; a step that issues or completes an operation adds or takes one member of
the set, by the uniqueness of tickets the right one; every other step only moves operations from one holder to the next.

`CommandRingProofs` extends `CommandRing`, for every ring and every set of command sizes. Assumptions:
the ring is not empty (`SizesAssumption`) and commands have at least one word (`CommandsAssumption`). That `QueueSize` is
a power of two is only needed to read the mask as a remainder.

| Theorem | Statement |
|---|---|
| `TypeCorrect` | `Spec => []TypeOK` |
| `CommandsStayIntact` | `Spec => []CommandsIntact` |
| `EqualOffsetsMeanEmpty` | `Spec => []EqualMeansEmpty` |
| `WritesInside` | `Spec => []WithinBuffer` |
| `RingIsFifo` | `Spec => ImplementsFifo` |

The argument measures every place by its distance from the read offset, going up and around
(`DistFrom`).  In these terms the ring is a line: commands lie one after the other up to the write offset
(`InRing`, `InOrder`, `Adjacent`), submitting adds at the far end (`DistUp`), processing moves all
of them down by the size of the first (`DistDown`), and what a client writes lies beyond the write offset and ends
before the read offset comes around (`WriterFits`), hence misses every waiting command (`Apart`). `ReaderHonest` says
that what was read so far are the first words of the first command.  `RingInv` is inductive.

`PowerKickProofs` extends `PowerKick`, for both builds and any number of renders, suspends,
hangs and failing starts.  Assumptions: a render is not one of the names of the
other commands (`RendersAssumption`), `PowerLockWrap` is a Boolean (`BuildAssumption`), bounds are numbers
(`BoundsAssumption`).

| Theorem | Statement |
|---|---|
| `TypeCorrect` | `Spec => []TypeOK` |
| `PowerLockExcludes` | `Spec => []PowerExclusive` |
| `HardwareIsOnHolds` | `Spec => []HardwareIsOn` |
| `AsleepEmpty` | `Spec => []AsleepMeansEmpty` |
| `KicksCovered` | `Spec => []KickCovered` |

The argument has four layers.  `Inv` says that a thread's place fits the stage it is in and
that the threads under the lock are exactly its owner: each step either takes the free lock,
moves under it, or gives it back, on the error paths too.  `HardwareInv` adds what the
watchdog may be doing (`TimerList`, `TimerOK`): it can only be in its recovery while the timer was enabled, and
a transition that turns the core off disables the timer, then waits for the work item, so a
recovery under the lock meets a core that is on.  `CoreInv` adds the CCB: a power-off command
is the last one (`PowerOffLast`), because whoever sends it keeps the lock until the core is off, and
the microkernel answers it after all that preceded it (`AnswerMeansEmpty`), so without hangs the CCB is empty
when the answer is seen.  `KickInv` follows a kick from the client to the microkernel: while a thread has it in its list the
thread's place says that it will send it or defer it; then the command in the CCB stands for it, until the microkernel reads the command and
looks at the renders.  A list from which a thread may return without sending is empty, or the system sleeps and its resumption
will look (`Lists`, `ResumeAsleep`); `StatusOK` says what each word the microkernel
leaves in the host control says of the renders (nothing to do, powered off, restart wanted).  One
reason to be covered always hands over to another.

`SyncModObjProofs` extends `SyncModObj`, for any set of processes, objects and surfaces and any number of outstanding
operations.  Assumptions: the three names of no process (`"none"`, `"lost"`, `"device"`) are not processes, objects or surfaces
(`NamesAssumption`); the counters have at least two values and the bounds are numbers (`NumbersAssumption`).

| Theorem | Statement |
|---|---|
| `TypeCorrect` | `Spec => []TypeOK` |
| `AnnouncedHeld` | `Spec => []AnnouncedIsHeld` |
| `QueriesTrue` | `Spec => []QueriesHonest` |
| `WaitsForOthers` | `Spec => []ExitWaitsForOthers` |
| `CompletesOrdered` | `Spec => CompletesInOrder` |

The argument reads every number from the list of what is outstanding on a surface: the ticket of the `i`th operation is the complete
count plus the writes (or reads) among the operations before it (`Ups`), and a token is such a count, up to
the width of the counters (`CountsInv`).  Hence a query answers truly as long as the counters have not gone around since its
token was taken, which is what `QueriesHonest` asks.  `HeldInv` says that
outstanding operations and objects that are not empty describe each other, `OwnedInv` that a process lists
the objects it owns, but for the one it is waiting for; both hold when the wait times out, too, since the
object that is lost then keeps its operation.  `OrderInv` says that a process lists its latest announcement first, and that the end of the
process goes through the list the other way: what is still listed then was announced after the operation waited for.

`DeviceMemoryProofs` extends `DeviceMemory`, for every number of processes, addresses, sizes, buffers of displays and names, for
a heap of the kernel's context and one of each process, and for any number of calls that run out of memory.  Assumption:
`DeviceMemoryAssumption` (names of different kinds differ, bounds are numbers, the count of a context holds more than
a client asks for, memory is exported from a shared heap only).

| Theorem | Statement |
|---|---|
| `TypeCorrect` | `Spec => []TypeOK` |
| `PointersLive` | `Spec => []NothingDangles` |
| `CountsTrue` | `Spec => []CountsExact` |
| `MemoryStays` | `Spec => []MemoryOutlivesMappings` |
| `AllFreed` | `Spec => []NothingLeft` |
| `FreedByOwner` | `Spec => OthersKeepTheirs` |

The argument is one invariant on the whole heap of records, `Sound`: each count is the number of members of a set.  The count of an info is
its mappings (`MapsOf`) and its owner; a buffer's is the infos that hold it (`Holding`), its export count the
mappings of those infos (`Exports`); a sync info's is its users (`UsersOf`), and may be more by what
calls that ran out of memory have left.  Two sets make it inductive through calls that
free in several steps: the infos in somebody's hands (`K`: an owner's, or nobody's after a failed registration) and the mappings whose
source has yet to hear that they go (`J`).  The invariant `IInv` says that for some `K` the records are sound with no mapping half
gone.  Each call is first described by what it does to the parts of the record (lemmas `...Is`), then shown to keep the
parts sound; freeing an unmapped info is `Sound` with the mapping in `J`, then without.
Where buffers lie is one more part of it (`InHeapOf`): memory from an arena lies in a context that is there, since the arenas
are tested; memory that was wrapped or mapped may lie in one that has gone, and then nobody's hash has it (`StrandedSound`).  `MemoryStays` says that there
is no other way for memory to lose its context or its mapping, but for a context whose heaps were made again.
`FreedByOwner` needs besides that no call but a free takes an info, and that a free takes the one
it is given and at most a source that nobody owns any more.

`KernelCCBProofs` extends `KernelCCB`, for a ring of any size and any number of requests.  The theorems suppose `SizesOK`: the ring has a slot,
and commands have numbers.

| Theorem | Statement |
|---|---|
| `RequestsMet` | `Spec => []CCBSound`, which the property `CachesSound` of `MCServices` contains |
| `RingIsFifo` | `Spec => Fifo!Spec`, which `Delivered` contains |

Under the power lock one thread at a time moves, and the other can only note something: the lemmas `Sends` and `NotesKeep` reduce
every step to one of the two cases.  The invariant then says what a sender knows at each place (`ThreadOK`): that a slot is free, which
stays so since SGX only makes room; that what it loaded is what is noted, unless something was noted since
(`TakenOK`); that both invalidations do not meet in it (`ApartOK`).  The bridge call itself notes nothing while it sends (`BridgeOK`), hence what its client
asked for is in the ring before the kick.  The ring is taken as a line of `Pending` slots from the read offset on (`RingIs`): publishing
adds one at the end (`Grows`), SGX takes the first and moves the others up (`Shrinks`), and a command that is copied
lies outside (`UnreadKept`).  The same three lemmas say of the sequence of unread commands that it is appended to, loses its head, or
stays.

`EventObjectProofs` extends `EventObject`, for any number of threads, processes and objects.  The theorems suppose `NamesOK`:
`"none"` is no thread and no object, and the bound on the walks is a number.

| Theorem | Statement |
|---|---|
| `TypeCorrect` | `Spec => []TypeOK` |
| `SignalsReachWaiters` | `Spec => []SignalsReach`, which `MCServices` checks under the same name |
| `SignalsAreReported` | `Spec => SignalsReported`, which `Delivered` contains |

A sleeper has read the stamp after it joined the queue, so that a walk which stamps the object afterwards finds it there; between the stamp and the
wake-up the invariant excepts the object being stamped (`ThreadOK`).  A walk visits listed objects only and stamps each once
(`WalkOK`, since writers wait for the walk to end), which bounds the stamps.  `WaitOK` relates a waiter to its object: its stamp is one the object had, and
if no other thread ever used the object, a wait that found a change is ahead of what was reported,
and one that ran out of time equals it.  Only the end of a wait changes what was reported (`OthersReportNothing`), and of an object with
one user that is this user (`FinishReports`).

`PartsProofs` extends `SharedPB` and has `QueueList`, `Kicks`, `ResMan`, `BufferClass`, `SwapChain` and `DisplayDriver` as the instances
`Queueing`, `Given`, `Res`, `Example`, `Swap` and `Driver`.

| Theorem | Statement |
|---|---|
| `BuffersStaySound` | `Spec => []BuffersSound` of `SharedPB`, for any processes and cores |
| `BufferGoesLast` | `Spec => OthersKeepBuffer` of `SharedPB` |
| `ListStaysSound` | `Spec => []QueuesSound` of `QueueList`, for any queues and walkers |
| `CleanedStayUnused` | `Spec => []CleanedIsUnused` of `Kicks`, for any contexts and surfaces |
| `ResourcesFreed` | `Spec => []ResManSound` of `ResMan`, for any processes and number of resources |
| `DeviceStaysHonest` | `Spec => []BuffersHonest` of `BufferClass`, for any processes and number of buffers |
| `ChainsStaySound` | `Spec => []ChainsSound` of `SwapChain`, for any processes and number of chains, whichever mishaps happen |
| `OthersKeepTheirChains` | `Spec => OthersKeepChains` of `SwapChain` |
| `DriverStaysSound` | `Spec => []DriverSound` of `DisplayDriver`, for any number of frame buffers, of buffers and of vsyncs to settle |

These are the conjuncts `pb`, `queues`, `kicks`, `resman`, `example`, `swap`, `driver` and `load` of what `parts` and `memory` check; of
`parts`, all of `ChainsSound`, of `BuffersSound` and of `OthersKeepTheirs` is thereby proved.  `ListStaysSound` supposes nothing, `DeviceStaysHonest` and the two
about chains that a bound is a number (`NumBuffersOK`, `MaxChainsOK`), `DriverStaysSound` that frame buffers are numbered from 0
and what is counted is counted in numbers (`FBsOK`), the others `NamesOK` of their module: `NONE` or `"device"` is no
process, types are those the code has, bounds are numbers.

* `SharedPB`: the count of a buffer is the cardinality of the set `References` of its core; adding, dropping and the end of a process
  change that set in one process's part only, and the count by as much.  A buffer goes when nothing refers to it.
  The right to create is with one process that lists the resource, so nobody else makes a second buffer meanwhile.
* `QueueList`: whoever holds the lock is alone (`OneHolder`), a call finds its own ID when it unlocks (`OwnID`), and the list is what is
  allocated but for a queue a call has made and not yet listed (`ListOK`); so a walker never stands on a queue that goes.
* `Kicks`: an unspoilt request is alone in the microkernel's hands, so the answer that is found is its own (`Alone`), and a
  context that is being cleaned gets no commands, because the client has given it up.
* `ResMan`: every item of the context that is being swept is of a type that is still to come, or a callback failed for its type (`SweepOK`).
  A list is in the order of registration, the newest first, until the first reversal and the oldest first between the two, which is when
  the operations on sync objects are swept; hence they go in the order they were made in, even when one was moved or freed out of turn.
* `BufferClass`: what is counted is a set, the pairs of a process and the number of one of its contexts, which a step changes in one
  process's part only (`OpenedGrows`).  Mappings need the array of an opened device (`UsersSound`); the array is the one the driver
  has, until it is unloaded or reconfigured under its users (`ArrayKept`); a read runs on a mapped buffer only, and a fill that has looked at
  the counters knows of the reads, or the race is noted (`ReadsKnown`).
* `SwapChain`: the references to a chain are counted the same way.  Who refers to a chain finds its queue (`ChainsUsed`), since a
  queue goes with the last reference; the driver agrees to destroy what the device destroys, since its chain is
  the only one and the display is open while chains are left, unless a mishap is noted.  The driver waits for the chain it
  destroys (`Drained`), so no flip with the driver loses its chain.
* `DisplayDriver`: the table has only the frame buffers the load is done with, and what services know of the one it is at follows from
  its step (`LoadInv`).  Who has a chain has its device open, and the driver is not unloaded meanwhile (`ChainsOpen`).  The
  handler waits at least as often as the display still needs, unless it has seen a blank it has not noted, and the chain's
  `iBlankEvents` never runs ahead of the events, so the next blank makes them differ (`Trusts`).  While the system sleeps, a chain that is left
  has its flag set, because no chain is made meanwhile (`SleepInv`).

`MCServices`, `MCMemory` and `MCParts` assume `SizesOK`, `NamesOK`, `NumBuffersOK`, `MaxChainsOK` and `FBsOK` of their instances, which TLC evaluates.

## 7. What is only checked, and what is left out

* `EveryOpCompletes`, `QueuesSettle`, `AnnouncedCompletes` and `EveryRenderFinishes` are liveness under
  fairness, out of the prover's reach.
* `memory` but for `DeviceMemory` and `CleanedIsUnused` of `Kicks`, `parts` but for `CommandRing`, `SharedPB`, `QueueList`, `ResMan`,
  `BufferClass`, `SwapChain` and `DisplayDriver` (that is, `TablesSound`, `HandlesName`, `ImplementsMap` and `AllOrNothing`), and
  `services` but for `SyncModObj`, `KernelCCB` and `EventObject` are model-checked, not proved: that `HandleTable` implements `HandleMap`, `HashTable` `KeyedMap`, and `ResourceArena`
  `AddressAllocator`, is what those runs show on small instances.
* Liveness apart, the proofs are about each module by itself, as are the runs: that the parts meet only as section 3 says is read from the code.
* The `TypeOK` of each module with proofs, and `EqualMeansEmpty` and `WithinBuffer` of `CommandRing`, are proved
  and not listed in a run: the inductions need them.

What the properties except, because the code does it:

* `RecoveryGivesWay` does not hold.  With `SYS_CUSTOM_POWERLOCK_WRAP`, a power
  transition holds the mutex while `OSDisableTimer` flushes the work queue of the
  watchdog (`osfunc.c:1965`); the watchdog's work item, when it has just detected a lock-up,
  waits in `HWRecoveryResetSGX` for that mutex.  Neither goes on.  Without the
  mutex the watchdog spins for a second, gives up with "Power transition in progress" and the
  transition goes on; that is what the message at `sgxinit.c:1088` expects.
* `NoResourceLeft` does not hold.  `ModifyCompleteSyncOpsCallBack` runs under `gPVRSRVLock` and waits for the
  operations before its own.  If one of these belongs to another process, that process cannot enter the driver
  to complete it; the wait times out, `FreeResourceByCriteria` stops at the error, and the later
  objects of the process stay in a list whose context is freed.  `resman.c:298` asserts that the list is
  empty (the assertion stops nothing in a release build, which is what the model follows after it).
* In the build without the mutex a deferred kick may stay deferred: the MISR retries it once,
  and if a bridge call holds the lock again, and nothing else happens, no thread is left that
  would try.  Hence `EveryRenderFinishes` is checked with the mutex; without it `KickCovered`
  says that the kick is at least noted.
* The same build loses the wish to restart when another thread turns the core on between
  the power-off and `SGXPostActivePowerEvent`'s look at the status, and that start times
  out: `KickCovered` excepts behaviours with a failed start.
* `HWRecoveryResetSGX` of the MISR takes the lock without looking at the power state again, so it may
  reset a core that was turned off meanwhile; `HardwareIsOn` speaks of the watchdog's
  recovery only, which `OSDisableTimer` keeps away.
* `GrowsFromEmpty` does not hold: `ReallocHandleArray` takes a first free index of 0 for an empty free list and asserts that it is, but index 0 may
  head a list; a batch that wants more handles than are free grows the table then, and the free handles it had are lost.  The run `parts`
  has `LosesFreeList = FALSE`, which keeps such a batch away.
* `SwapChain`, `mishaps`: when a queue cannot be flushed or its lock not taken, the chain is destroyed and the queue stays
  listed; when the reference to a new chain cannot be allocated, the third-party chain stays; a display
  that is closed before its chains leaves them with a device that is not there.  The failed allocation of the chain
  itself dereferences NULL in its error path (`deviceclass.c:1168`) and is not modelled; nor is a failing `pfnGetDCInfo` (`1100`), which
  leaves an empty queue and a chain that nothing names (the drivers here fail it for missing arguments only).
* `Kicks`: a kick that is refused with `RETRY` keeps its TA/3D write and its synchronisation reads counted
  (`sgxkick.c:87`, `101`, `115` against `589` to `638`), and every other error keeps all of it: such surfaces are `tainted`.  A later kick of an open
  render, or part of a transfer, that uses a surface on which others have operations under way, or which its own end completes, can deadlock (`crossed`).  A cleanup request
  that times out shifts completions to later requests (`sgxutils.c:671`; `spoilt`), and a context's memory is freed whatever
  the request returned.
* `KernelCCB`: what a bridge call notes in `ui32CacheControl` between the load and the clearing by a command of the MISR is lost
  (`sgxutils.c:333`, `341`): `RequestsKept` counts such requests as no longer wanted, and `OwnKept` says that it takes the other thread. A note made after the check for
  BRN 28889 (`sgxutils.c:209`) may send both invalidations with one command; `NotBoth` excepts commands with such a note (`late`).
* `DeviceMemory`: `BM_DestroyContext` tests the import arenas only (`buffer_manager.c:632`), so a process that has wrapped or mapped memory in
  heaps of its own and destroys its context gets `PVRSRV_OK`, and the heaps, the page tables and the hash go under that memory; a process that ends does the same to memory
  that nobody frees because its registration failed.  The count goes down before anything is tested (`673`): a refused destroy leaves it at 0, a
  second one takes it below, to the largest value, and reports success, and the request after that brings it to 0 again and has
  the heaps made a second time, over the first.  These two cases, and no other, are what `MemoryOutlivesMappings` excepts.  A failure behind
  `RA_Alloc` (`130`, `146`) loses the segment, after which the context is never destroyed but by the end of its process.
  Memory whose registration fails is left.
* `BridgeCalls`: committing a batch in which an allocation failed releases it but reports success, because the count of failures is cleared
  (`handle.c:1643`) before it is looked at (`1645`); one batch asks
  for a handle too few (`bridged_sgx_bridge.c:2460` against `2487`); the reference to mapped memory of a display buffer hangs
  under the buffer and dangles after the unmapping; `CreateSyncInfoModObj` leaks its object when no handle can
  be had (`bridged_pvr_bridge.c:3925`); a dead init server leaves `gbInitServerRunning` set.
* `EventObject`: two threads that wait on one object take each other's signals, and a wait that times out may set the
  previous time stamp back; an object may be closed under a sleeping waiter (`event.c:273`).
* `QueueList`: creating the first queue resets the lock under a walker of the empty list (`queue.c:289`); if it does, the
  unlock may fail, and the queue is freed while listed.
* `ResMan`: memory shared by two parties whose registration fails is lost when its process dies (`mem.c:96`).
* `PageTables`: an entry that is skipped in a walk does not advance the address (`mmu.c:2134`); a failing `MMU_Alloc`
  leaves tables with no valid entries; failing initialisation leaks (`mmu.c:1279`).
* `Startup`: `PVRSRVInit` returns success after an event object could not be made (`pvrsrv.c:310`); a list
  that could not be made is destroyed with an uninitialised event object; `SysDeinitialise` stops at the first error; the
  runtime power management is disabled before the clocks are (`sysconfig.c:595`, `608`); a failed request of power stays counted
  (`clocks.lost`); a failed probe is not reported.
* `DisplayDriver`: flips under way when a chain goes are taken and never completed; the driver unloads only without chains, and
  an open device stays registered with services without its driver.  `slips` names these cases.
* `BufferClass`, `accidents`: a first open that fails half way keeps its count (`deviceclass.c:1827`); a close that is refused because
  another process maps a buffer loses the context (`1734`); a failed load leaves the class behind; the sync data is not forgotten at
  the close; a fill looks at the counters once (`bufferclass_example_private.c:238`).
* `MemoryAreas`, `unruly`: a process that frees a handle it maps, or maps one area with two threads at a time, gets what it asked for.

Not modelled, or simplified:

* In `CommandQueue`, `PVRSRVScheduleDeviceCallbacks` is a kick that reaches SGX at once: the power
  lock and the deferral of a kick are in `PowerKick`.
* In `CommandQueue`, counters do not wrap, memory is sequentially consistent, and vertical synchronisation
  delays `SwapHandler` and nothing else.
* In `SyncModObj` calls with no flag set, failing allocations and the freeing of surfaces are left out (sync infos outlive the
  objects that point to them), and so is the roll-back of a refused kick.  The call of
  `PVRSRVScheduleDeviceCallbacks` after a completion is the kick that `CommandQueue` and `PowerKick` model.
* A pre-power step that fails (`SysSystemPrePowerState` after the devices' pre-power,
  `power.c:404`), clock speed changes and more than one power device are not modelled. In `PowerKick` kernel CCB slots are always available.
* `KernelCCB`: stores reach memory in program order, SGX is on and does not hang (`PowerKick` has both), the deferred operations on the CPU cache are
  of one kind, and the answer that `PollForValueKM` waits for may be an older one. The unknown command type of `sgxutils.c:346` has no caller.
* The register sequence of a reset and the clock speed.
* `Kicks`: status values and parameter dumps; clients are taken not to read and write one surface in a kick; blits exist on cores with 2D hardware only.
* `HashTable`: keys are unique, as every user keeps them; `HASH_Iterate` has no caller.
* `PageTables`: device addresses that a client chooses (`mmu.c:2465`, `2507`), which no caller asks for; otherwise the SGX530 build (4 K pages, no dummy page, none of the work-arounds that this core does not need); dropping the directory cache is
  taken to drop that of the tables.
* `Startup`: failing look-ups of clocks, unbinding through sysfs, the SGX OCP register; the driver is loaded once and not unloaded while suspended.
  The other boards differ in names and addresses.
* `DeviceMemory`: the cross-process mapping work-around (`buffer_manager.c:1735`) that the build leaves out.  Device addresses that `WrapMemory` loses when
  it fails after `DevMemoryAlloc` (`buffer_manager.c:381`, `399`) are not followed, as nothing tests the arena they are from.  Memory without RAM behind it and
  device addresses that a client chooses (`152` to `181`, where the result of `pfnMMUAlloc` is ignored) have no caller: `AllocDeviceMem` always asks for RAM (`devicemem.c:365`).
  What happens when memory is freed whose heaps and hash have gone is not followed: it is modelled as if they were still there, and a
  process that stops there is one that takes no more steps, for which nothing is promised.
* `MemoryAreas`: areas of one size; the kinds of pages and their caching.
* `DisplayDriver`: the notifier of each device is called for the blanks of every frame buffer (`omaplfb_linux.c:464` looks the device up), where the model
  has that of the device only: with several devices an event is counted several times in the code, and one is noted before the device's own notifier is registered; the DRM build, the result of a failed wait for vsync (undefined: `OMAPLFBWaitForVSync` returns nothing), the queries.
* `BufferClass`: a registration with the resource manager that fails after an open (`deviceclass.c:1907` ignores it), an index of a buffer that
  the fill does not check, and the image.
* `BridgeCalls`: parameter dumps and the copying of arguments.
* Failure paths of `PVRSRVOpen` (`module.c:428`), which leave the process connected; processes that open the device more than once.
* `PROJECT.json` lists every component that has no module yet, and why.
