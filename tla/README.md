# A TLA+ development of cjcj-runtime

cjcj-runtime is a port of the Cangjie/Maple runtime from C++ to Cangjie. The
modules of `src/src/rt.*` are compiled to functions with the C++ runtime's own
symbol names and interposed over `libcangjie-runtime.so` one subsystem at a
time; what no Cangjie code may do (signals, assembly stubs, thread-local
registers) stays in the C++/assembly "Layer 0" under `src/rt0`. Correctness
therefore means two things here: the data structures must be right, and they
must be right under the threads, mutexes and stop-the-world protocol of a
runtime this repository does not contain.

This directory holds TLA+ modules for the part of the code where that is hard,
TLC configurations that check them on small instances, and proofs that TLAPS
checks for every instance. Paths below are relative to the repository's root.
`PROJECT.json` relates every definition to the source lines it models.

1. Inventory of the system
2. The modules, and how they correspond to the code
3. The runs: what is checked, the bounds, the fairness
4. The proofs
5. Disagreements found in the code
6. What is not modelled, and why
7. Plan

## 1. Inventory

### Components

| Component | State it keeps | Operations | What makes it correct |
|---|---|---|---|
| **Free-unit tree** `CartesianTree.cj` | nodes in a slab, total of free units; headers of free blocks in the unit metadata | `MergeInsert`, `TakeUnits`, `TakeUnitsLowAddr`, `ReleaseRootNode` | search tree on addresses and heap on lengths; adjacent blocks always merged; overlaps refused; searches exact; metadata stays walkable |
| **Free region manager** `FreeRegionManager.cj` | a dirty and a released tree, a mutex each | `TakeRegion`, `AddGarbageUnits`, `AddReleaseUnits`, `ReleaseGarbageRegions` | a unit has one owner; none is lost; handed-out memory reads as zero; no deadlock with stop-the-world |
| **Region metadata** `RegionInfo.cj` | per unit: role, size, links, bit fields, live info, allocation pointer | `InitRegion`, header look-up, bit-field CAS loops, `Alloc` | interior addresses find their own region; concurrent bit-field writers do not lose updates |
| **Region lists and cache** `RegionList.cj` | head, tail, two counts, a mutex; links and type in region metadata; `active` of a cache | prepend, take, delete, try-delete, merge, move, visit; activate/deactivate | links and counts agree; a region is in one place; type tells the list; visitors miss nothing |
| **Allocation buffer** `AllocBuffer.cj` | thread's region, prepared region, stack roots | allocate, prepare, push roots, merge roots | one consumer of a prepared region |
| **Mark bitmap, live info** `RegionBitmap.cj` | mark words, part counters, live bytes | `MarkBits`, `IsMarked`, `GetPreLiveBytes`, `RecomputeLiveBytes` | one marker per object; counters agree with the bits |
| **Mark work stack** `MarkWorkStack.cj` | chain of buffers | push, pop, insert, split | nothing lost or doubled by splits |
| **Forward-data spaces** `ForwardDataManager.cj` | two tagged spaces of two bump zones | allocate live info and bitmap, set tag, clear/unbind previous | nothing allocated from a cleared space; zones do not meet |
| **Reader-writer lock** `RwLock.cj` | one counter | `LockRead`, `TryLockRead`, `UnlockRead`, `LockWrite`, `UnlockWrite` | exclusion; the counter tells the holders |
| **Object state word** `StateWord.cj` | type, state code, lock bit in one word | state code, forwarding lock | no lost lock bit |
| **Page pool** `PagePool.cj` | fresh zone, a tree of its own, fall-back mappings | `GetPage`, `ReturnPage` | pages go back where they came from |
| **Deques and slot list** `LocalDeque.cj`, `SlotList.cj` | array plus single-use overflow; free list | push, pop; allocate, deallocate | order kept across the spill |
| **Sub-scheduler instances** `instance_bridge.cpp` | an atomic flag, a condition variable and a handle in the creator's stack frame; a static counter | `InstanceNew`, `RunTask`, `Stop` | creation returns, with a usable handle, or null without a runtime |
| **Spin locks, semaphore, scheduler records** `rt.base`, `rt.sched` | one word each; C layouts; a ring | lock, unlock, wait, post; insert, remove | (wrappers of native primitives) |
| **Signal chain** `rt0/signal` | per signal: mark, saved action, stack of handlers; per thread: signal mask, handling mark | mark and register, add and remove handlers, the program's `sigaction`, `signal`, `sigprocmask`, dispatch on the interrupted thread or in a task | the program gets back the actions it set; no synchronous handler runs in another; the handling mark is cleared outside; marked signals get through; a saved action is called in the form it has |
| **Section tables** `rt0/os/{Windows,Macos}/Section.cpp` | start and size of each kind of metadata and of the runtime's code | one constructor at load time | each kind is where the linker put it; the size reaches over all kinds |
| **Binary loader** `rt0/os/{Windows,Linux}/Loader.cpp` | none of its own; the system's images and references | load, unload, what an address belongs to | an answer is about one image, and no unmapped memory is read |
| **Windows module records** `WinModuleManager.cpp` | records of loaded images, kept for ever | read at start, read again at run time, find by address, binary search of functions | a pc finds the record and the function it is in |
| **Windows unwinder** `UnwindWin.cpp` | one static flag in each of two functions | first frame, caller's frame address, caller's stack pointer | each frame address is the one compiled code left |
| **Memory maps** `MemMap.cj`, `MemCommon.cj` | address ranges | map, commit, release | (system calls) |
| **Barrier protocol** | none here | forwarding calls | - |
| **Demangler** `rt.demangle` | none | name to text | agreement with the C++ one |
| **Stack maps, exception tables** | none | decoders | agreement with the compiler's tables |
| **Object model** `rt.objectmodel` | none | accessors, GC-bit walks | - |
| **Thread-locals, types, parameters, exports** | layouts, constants | - | - |
| **Layer 0 assembly, platform leaves** | none | stubs, one-call wrappers | - |

`PROJECT.json` lists the same components with their sources and status.

### How they interact

- *Calls under a mutex.* `FreeRegionManager` owns two trees and takes the mutex
  of one of them around each tree operation. The tree in turn rewrites the
  headers of the blocks it changes (`RegionInfo.InitFreeRegion` and friends):
  metadata that other threads walk.
- *Shared metadata.* A region's links, type and trace flag live in its
  `RegionInfo`. `RegionList` operations read them under the mutex of *a* list,
  and which list is exactly what the type is asked for (`TryDeleteRegion`).
- *Stop-the-world.* `FreeRegionManager` enters a *saferegion*
  (`src/rt0/ScopedSaferegion.cpp`) before it may block. A mutator in a
  saferegion counts as stopped; leaving it waits while the world is stopped.
  The mutex must be given up before leaving.
- *Atomics.* Markers share mark words and counters through fetch-or and
  fetch-add. The lock is load and compare-and-swap.
- *Kernel, handler, tasks.* The kernel has `SignalStack::Handler` as the action
  of every marked signal; the program's own action is only in `sigAction`.
  `Handler` runs the chain on the interrupted thread with every signal blocked,
  or queues a task that a worker thread runs without any signal frame. What
  the program asks of the kernel through `sigaction`, `signal` and
  `sigprocmask` passes through this library first.
- *Constructor, loader, unwinder.* On Windows the section constructor finds the
  range of the runtime's code, which the unwinder asks for (is this a frame of
  the runtime?). The unwinder looks functions up through the module records,
  which are a copy of the system's list of images, which the loader's callers
  change.
- *A stack frame shared by two threads.* `InstanceNew` waits on a condition
  variable in its own frame, which the driver thread it starts notifies.
- *Callers.* Region lists, bitmaps and instances are called by C++ code outside
  the repository. What those callers must keep to is written as guards (below).

### What is hard

The behaviours that tests hardly reach are listed with their lines as `hazards`
in `PROJECT.json`. The main ones:

- a block that is in neither tree while the collector carries it from one to
  the other (`FreeRegionManager.cj:323`), with its neighbours changing;
- a stale read of the dirty tree's total, without its mutex (`:331`);
- clearing memory after the mutex is gone (`:214`);
- leaving a saferegion with a mutex held would deadlock with the collector (`:235`);
- rotations while an insertion path is unwound and merging has removed nodes
  from that path (`CartesianTree.cj:507`), pruned searches that rely on heap
  order (`:752`), and a slab without bound check (`:81`);
- two markers that see a clear word and both go for the fetch-or
  (`RegionBitmap.cj:183`), with bits, part counters and live bytes updated one
  by one (`:193`); unsigned indices that step below zero (`:276`);
- threads that race to delete one region from a list whose identity is in the
  region's type (`RegionList.cj:424`), a merge that owns regions no list shows
  (`:390`), a move during which two lists show the same regions (`:537`);
- a load and a compare-and-swap with other readers and writers in between
  (`RwLock.cj:52`);
- a notification sent without the waiter's mutex (`instance_bridge.cpp:85`);
- a signal that is registered before it is marked (`SignalStack.h:33`), flags
  and function of a saved action read at two times (`SignalStack.cpp:187`), a
  fault inside a handler (`:148`), a mask undone only when a handler declines
  (`:157`), a filtered set written back into the program's object (`:369`);
- a fact about the last frame in a static variable of all threads
  (`UnwindWin.cpp:117`), records that outlive their images
  (`WinModuleManager.cpp:109`), a handle taken without a reference
  (`Windows/Loader.cpp:77`), section names told apart by prefixes
  (`Windows/Section.cpp:142`);
- live infos that are bound, unbound and cleared in two spaces while regions
  become garbage and are taken again (`RegionInfo.cj:1065`), zones without a
  bound check (`ForwardDataManager.cj:211`), memory committed from where the last
  commit ended (`:229`) and never cleared when it is handed out (`:385`).

## 2. The modules

    UnitRuns                    vocabulary: units, maximal runs, best fit
      FreeBlocks                abstract: a set of free units
        ^ implemented by CartesianTree
      FreeRegionManager         two sets of free units, threads, stop-the-world
        FreeRegionManagerProofs
    ReadersWriter               abstract: one writer or many readers
        ^ implemented by RwLock
                                RwLockProofs
    RegionSequences             abstract: sequences of regions
        ^ implemented by RegionList
                                RegionListProofs
                                MCRegionList
    RegionBitmap
      RegionBitmapProofs
    InstanceBridge
      InstanceBridgeProofs
    SignalStack
      SignalStackProofs
      MCSignalStack
    Loader                      the system's images, load, unload, ask
      WinModuleManager          records of images
        UnwindWin               walks; takes in an instance of Section
          UnwindWinProofs
          MCUnwindWin
    Section
    ForwardDataSpaces
      ForwardDataProofs
      MCForwardDataSpaces

The free-memory stack is modelled in two layers joined by an abstract
specification. `CartesianTree` has the tree itself; that it implements
`FreeBlocks` - a set of free units with lowest-address best fit - is checked as
a refinement. `FreeRegionManager` then has one *set of units* for each tree,
described by the same operators of `UnitRuns` (`BestFit`, `AnyFit`, `Blocks`),
and can spend its states on interleavings instead of tree shapes.

### CartesianTree, FreeBlocks

| TLA+ | Code |
|---|---|
| `root` | the root slot and the nodes it reaches. A node is a value (children included), so an operation over `Node**` slots is a recursive function from the old subtree to the new one |
| `totalCount` | `totalCount`, adjusted in `IncTotalCount`, `DecTotalCount` |
| `unitInfo` | role, size and offset to the header of each unit's `UnitInfo` |
| `regions`, `detached`, `fresh` | the tree's clients: allocated regions, blocks taken by `ReleaseRootNode`, and where the heap has grown to |
| `MergeInsertInternal`, `MergeToRight`, `MergeToLeft`, `RiseLeft`... | insertion with merges on both sides and rotations on the way back; refusals where the code returns `MERGE_ERROR` or false |
| `FindBestFitLowAddr`, `FindAny`, `Carve` | the pruned searches, and taking a piece from a block (a block that empties is rotated down and unlinked) |

Each tree operation is one step, because the code runs it under one mutex.
Refreshing headers is part of the step that changes the node. The slab, which
has no bound check, is represented by the bound `NodesFitSlab` on the nodes.

### FreeRegionManager

A thread's `pc` is the piece of work it is at; one step is what happens between
two points where another thread can interfere: getting a mutex, the critical
section with its unlock, work outside it. `TakeRegion` is
`TakeRegion -> TryLock / SkipTree -> CarveRegion / CarveNothing -> Prehandle ->
ReturnRegion`, with `LeavePoll` for the safepoint in its retry loop; `try` is
the pair of flags `tryDirtyTree`, `tryReleasedTree`, and `at` the tree it turns
to. Adding is `Lock -> InsertBlock -> ` leave the saferegion. The collector's
`ReleaseGarbageRegions` reads the dirty total *without* the mutex, locks,
detaches the largest block, unlocks, releases its memory, locks the other tree
and inserts. `zero` is the set of units whose memory reads as zero: clearing
and releasing add units, giving a region to a mutator removes them.

External parts: the stop-the-world handshake (`world`) and entering and leaving
a saferegion, modelled from their use through
`CJRT_ScopedEnterSaferegionOnlyMutatorBegin/End`; growth of the heap (`fresh`),
modelled from the allocator's callers.

### RwLock, ReadersWriter

Every load, compare-and-swap, fetch-and-subtract and store of `lockCount` is a
step; `seen` is the value a thread loaded last. The code's aborts lead to the
label `"fatal"`. `ReadersWriter` is the abstract grant and release.

### RegionList, RegionSequences

The lists are linked through `next` and `prev` of the regions, with `list`
holding head, tail and both counts of each list (and of the local list a
merging thread has on its stack). An operation under one mutex is one step;
`MergeRegionList` is two steps because the code lets go of the source before
it locks the target; `MoveTo` and `VisitAllRegions` are several steps during
which `mutex` is held. `TryDeleteRegion` decides by the type read under the
mutex. Assertions of a debug build and `RtFatal` set `fatal`. `RegionCache` is
the same list with an `active` flag and the trace bits it clears.

The callers of these lists are outside the repository. The model assumes what
makes the operations meaningful, as guards marked *caller* or as
`ListsAssumption`:

- a region is prepended by the thread that has it, and with the type of a
  `TryDeleteRegion` list only into that list;
- no `TryDeleteRegion` on a list while a merge is carrying its regions away;
- the untyped take of the head is not used on lists that `TryDeleteRegion` is used on;
- `DeleteRegion` is called with a region of the list, and a cache, which may be
  inactive, is filled by `TryPrependRegion` alone and never the target of a merge;
- the target of `MoveTo` is empty and nobody else moves there; moves are acyclic
  (the code holds the source's mutex while it waits for the target's, so moves
  in a cycle would block each other).

These are obligations of the callers, not results.

`RegionSequences` is what the lists promise: sequences that change in one step.
Under the mapping (`Walk`, what a loop along `next` from the head meets, written
as a recursive function with a bound) a move takes effect when the target is
assigned, and a merge in its two halves, with the regions in the thread's hands
between them. Taking a region out (`Withdraw`) keeps the order of the others.

### RegionBitmap

One bit stands for the bytes a mark bit covers; a word is the set of its bits.
`starts` is the layout of objects, chosen once: all layouts are initial states.
`StartMark`, `LoadHead`, `OrHead`, `AddHeadPart`, `AddLive`, `OrTail`,
`AddTailPart` are the atomic operations of `MarkBits` in the order of the code.
`won` is a history variable: how often `MarkBits` told a caller that the object
was not marked before. `GetPreLiveBytes` and `RecomputeLiveBytes` are operators
evaluated in every state in which no marker is active, as the code calls them
after marking. `GetPreLiveBytes` keeps the unsigned width of the word index
(`IndexMod`) and answers `NoReturn` where the loop would not end. Part counters
keep their width too (`PartMod`); `SizeAssumption` demands that one part fits
(regions below 8 MiB), which the region sizes of the C++ side must guarantee.

### InstanceBridge

One host thread per instance. `runtime` says whether `Runtime::CurrentRef()` is
there; some host makes it so at some time (`InitRuntime`, external), and it stays: the
program finishes the runtime after the last call. A call of `InstanceNew` without it
is `InstanceNewRefused` (null, no driver), after which the host may call again. With
it, `InstanceNew` is `ReadId`, `CreateThread`, `TestInited`, `Block`,
`Wake`/`SpuriousWake`, `InstanceNewReturn`; the test of the predicate and the
wait are two steps since the driver does not take the mutex. `Accepts` is what
`RunTask` and `Stop` test - a runtime, a handle that is not null, a known
sub-scheduler - and a host may pass any host's handle, also null. The driver is `CreateSubSchedulerAndInit`, `WriteSchedule`,
`StoreInited`, `NotifyAll`. Two things the language leaves undefined are
choices: `id++` on an unsynchronised static is a read and a write; notifying
through a frame whose function has returned may end the process (`crashed`)
or have no effect. The sub-scheduler is external: it is in `subModelMap` from
its creation until it is stopped; `stopped` only observes which handles `Stop` has taken.

### SignalStack

A step is what a thread does between two points where the kernel can interrupt
it or another thread can interfere. `frames[t]` is the stack of invocations of
`Handler` and `HandlerImpl` on a thread, each with the locals of the C++
functions and the mask that `sigreturn` puts back.

| TLA+ | Code |
|---|---|
| `Deliver`, `Fault`, `Raise` | external: the kernel takes a pending signal that is not blocked, or raises one for an instruction; it runs the action it has |
| `SignalHandler` | `Handler`: run here, or queue a task (which may be refused) |
| `TakeTask` | external: a worker runs the queued `HandlerImpl`; its context belongs to a signal frame that has returned, so what is read there is a choice |
| `HandlerImpl`, `WalkStack`, `MarkHandling`, `HandlerAccepts`, `HandlerDeclines` | the loop over the handlers with its mask and its mark, each set in a step of its own |
| `ReadSavedAction`, `CallSavedAction` | flags and mask of the saved action first, its function later |
| `MarkSigRegisters`, `MarkSigMarks` | `MarkSig`: the kernel's action is replaced in one call, the mark set in the next |
| `SigactionMarked`, `SigactionUnmarked`, `SigactionLinked` | the interposed `sigaction` and `signal`: the test of the mark and the kernel's call are two steps |
| `SigprocmaskFilter`, `SigprocmaskLinked`, `SigprocmaskInHandler` | the interposed `sigprocmask`: the filter, which writes into the program's object, and the kernel's call |

Assumed of the callers: the stack of handlers of a signal does not change while
a thread walks it (the vector has no lock), and `SA_SIGINFO` comes with a
function (`ProgramActions`). Errors of the kernel's calls, which the code
logs or ignores, are left out.

### Section, Loader, WinModuleManager, UnwindWin

`UnwindWin` composes the four. It takes in `Section` by instance - the
constructor runs first, and everything else waits for it - and extends the
records, which extend the loader.

- *Section.* `ScanSection` is one turn of the Windows loop over the section
  headers, with the chain of prefix comparisons as a table in the chain's order;
  `InitSectionInformation` is the macOS look-up by exact name. Sizes are cut to
  the width the globals have.
- *Loader.* The system's loader is external: images are mapped and unmapped at
  addresses it chooses. The question what an address belongs to
  (`GetBinaryInfoFromAddress`) takes several steps on Windows, between which
  another thread may unload the image, and one step on Linux and macOS.
- *WinModuleManager.* The records are a set; `EnumProcessModules` and its second
  call call with a larger array are steps of their own. A refresh adds its
  records as one set: those of different images never have one name.
  `GetRuntimeFunction` is the binary search with its unsigned bounds, a recursive
  function over the pairs of them.
- *UnwindWin.* Unwind codes are numbers with the operation and its operand in
  the bits the code reads; `GetStackOffset` is the loop over them, a recursive
  function over its turns. A walk asks,
  as the runtime does, for the stack pointer and the frame address of one caller
  after the other; each answer is a step, and the static flag is set in a step
  of its own at the end.

What compiled code and the stubs leave on a stack (`FA`, `SP`, `Rbp`) is
external and is computed from the outermost frame inwards, the other way round
from the code's rules, so that comparing the two says something. Callers do not unload
an image while one of its functions is on a stack that is being walked.

Five assumptions say what images and stacks are, and TLC evaluates them: images
never overlap, wherever they are mapped, and names belong to existing exports and
differ (`ImagesOK`); function tables are sorted and their length fits the search's
indices (`FunctionsOK`: the Windows loader demands the order, and 2^31
functions do not fit an image); the frames of a walked stack are functions of
images that have records (`StacksOK`). `FramesOK` is what the compilers and the
linker promise the unwinder: the unwind codes of code in C and C++ describe its frame
(operations one behind the other, operands by the x64 format, one allocation
at most; `Described` adds them up as a set, not by the code's loop); managed code is
never where the thread runs in C, and `ThrowStackOverflowError` and the stack-grow
stub are called from prologues of managed code (`Layered`); and the runtime's
`.text_rt` holds all of its functions and lies inside its image. `SectionsOK` is what the
constructor may rely on: its own library is in the list once, with sections in
any order, shorter than half the address space; a section name that starts
with a name asked for is itself one (`IsWhole`); and no comparison of the chain takes the section of a
later one (`NamesDiffer`).

### ForwardDataSpaces

| TLA+ | Code |
|---|---|
| `position`, `lastCommit` | `zonePosition` and `lastCommitEndAddr` of the two zones of each space; addresses are numbers from the start of the mapping |
| `ReadTag`, `Allocate` | `ForwardDataAllocateLiveInfo`, `ForwardDataAllocateRegionBitmap`: the tag is read in one step and the zone bumped in another, with the commit on Windows |
| `SetTagID`, `UnbindPrevious`, `UnbindEnd`, `ReleaseMemory`, `Reset` | the switch, the walk (one live info per step), and the two halves of `ForwardDataClearPrevious` |
| `CheckAndClearLiveInfo`, `InitRegionInfo` | what `RegionInfo` does to the binding of a region |
| `ClaimLiveInfo`, `ClaimBitmap`, `PublishLiveInfo`, `PublishBitmap` | external: the C++ collector claims a field by a sentinel (which `GetLiveInfo` and `GetMarkBitmap` test for), allocates, and stores |
| `EndMarking`, `BecomeGarbage` | external: the collector's phases |

What the collector owes is in the guards: the tag is switched and marking ends
only when no marker is between a claim and a store, markers use no live info of
the previous space, and a region becomes garbage between two markings. Regions are sets of units and
share none (`UnitsAssumption`). Markers
*do* work while the previous space is unbound and cleared, and a garbage region
is taken and initialised at any time. `info` holds the live infos that memory
does not show as zero; `written` the bitmaps in memory nobody has zeroed. A commit
that leaves the mapping is refused, and the end moves on all the same, as in the
code, which logs the error and hands the memory out.

## 3. The runs

| Run | Instance | Distinct states | Question |
|---|---|---|---|
| `tree` | 6 units | 153,722 | Do all histories of grow, take, free and release keep the tree ordered, merged and exact, its metadata walkable, and implement `FreeBlocks`? |
| `manager` | 3 units, 2 mutators, collector, fair | 643,350 | Does every unit keep one owner in every interleaving, is handed-out memory zero, is a stopped world free of mutexes? Does the collector finish in a stopped world, and does every stop succeed? |
| `rwlock` | 3 threads | 25,348 | Is the lock a readers-writer lock that never shuts everybody out? |
| `bitmap` | 4 words of 2 bits in 2 parts, 2 markers, all layouts | 1,544,067 | Does each object have one winner, and do counters and live bytes agree with the bits? |
| `bitmap_parts` | 3 words of 2 bits in 2 parts | violated | Does `GetPreLiveBytes` answer for every offset? No (section 5). |
| `lists` | 2 threads, 3 regions, 4 lists | 437,729 | Do links, counts, types and places agree, and do the lists implement sequences? |
| `instance` | 2 hosts, runtime there or not | 5,401 | Is the handle that `InstanceNew` answers accepted until it is stopped, and null answered only without a driver? |
| `instance_returns` | 2 hosts, fair | violated | Does `InstanceNew` return? Not always (section 5). |
| `signal` | 3 signals, a program thread and a worker | 1,470,423 | Do marks, masks and the program's actions stay right under nested faults, tasks and set-up in between? |
| `unwind` | 5 files, 5 bases, 2 walkers, 5 stacks; many section tables | 129,112 | Are sections, records, answers and frame addresses the right ones while images come and go? |
| `unwind_race` | 2 walkers, stacks with overflow and growth | violated | Is a frame address right whoever else walks? No (section 5). |
| `forward` | 2 regions (1 and 2 units), 2 markers, 2 bitmaps | 1,278,189 | Does a region keep its live info, and lose it with its space, while markers, the collector and mutators interleave; is what is handed out unshared, zero and committed? |

**Bounds.** All counters are bounded by the constants, so no run needs a state
constraint.

- *tree*: six units allow three separate free blocks, hence trees of every
  shape up to three nodes with equal and unequal lengths, two-sided merges that
  remove a node on the insertion path, and blocks that shrink below two
  children. The searches and refusals are compared with exhaustive definitions
  for *every* request in *every* state.
- *manager*: three units let one thread's carried block have a neighbour in
  either tree and one more in use, and blocks of up to three units merge and are
  carved. Two mutators are enough for both mutexes to be contended while the
  collector waits for a third party. Requests are for one unit: the safety
  properties are proved for requests of every length, any number of units and
  of mutators (section 4), so the run spends its states on liveness.
- *rwlock*: three threads give two readers and a writer, and a reader whose
  compare-and-swap is overtaken by both an entering and a leaving one.
- *bitmap*: two words per part so that parts and words differ, two bits per
  word so that objects start inside a word, fill it, and span several; all 128
  layouts.
- *lists*: three regions give a head, a middle and a tail; one is two units long
  so that the two counts differ. Two threads, one list that is raced for, one
  cache, one that is visited, drained and moved, and one that is moved into.
  Threads, and the two regions of equal length, are interchangeable.
- *instance*: instances share only the runtime, the counter and the set of known
  sub-schedulers, so two suffice; one may be refused and the other not.
- *signal*: one synchronous signal, one that aborts, and one that is handled in
  a task and ignored by default, since the code tells exactly these apart. A
  program thread, which also does the set-up, and a worker; two signals sent,
  three calls, stacks of two handlers, two nested invocations: enough for a
  fault in a handler, for a second registration over a first action, and for a
  call of the program in the middle of a registration. The five properties are
  proved without these bounds.
- *unwind*: a program, the runtime, a system library without record, and two
  libraries for two free bases, so that a base and a name can be used again; room
  for three handles in the first enumeration, so that the second is needed;
  three loads or unloads and two walks. The five stacks have every kind of
  function the code tells apart, and prologues with pushes, saved registers, a
  frame register and the three forms of allocation. Section
  tables: every order of up to three of eight names that are close to each
  other, and the full tables in every rotation and with each one left out. A
  behaviour either asks what addresses belong to or walks stacks, which share
  no state. Widths (`Word`) are scaled down to 1024.
- *forward*: the heap has as many units as its regions, and each region may
  ask for all bitmaps there is room for. The large region's bitmap is a page (5
  bytes), the small one's less (3), and zones do not start on page boundaries, so
  that a commit spans two pages or none, and one at the end of
  the mapping is refused. Two kinds of bitmaps stand for the code's three, in the
  sizes too. Two markers are enough for one to overtake the other between tag
  and bump. The state space is finite: after two cycles the spaces are used
  again. Bitmaps longer than a page need larger heaps; the properties are proved for
  every size (section 4).

**Fairness.** Invariants need none. For its two liveness properties `manager` assumes weak fairness of
each thread *inside* an operation (`Continue`), of the rest of a
`ReleaseGarbageRegions` that has begun, and of the world stopping once all
mutators are at a stop: threads are scheduled by the operating system, and the
stop-the-world handshake is the runtime's own duty. Nothing forces a mutator to
call an operation. It is not assumed that a try-lock succeeds or that
mutexes are handed over in order; accordingly nothing says that a *particular*
`TakeRegion` ends: the code retries try-locks without a queue and may also
answer null although enough units are free (`FreeRegionManager.cj:204`), and
neither is claimed. `rwlock` assumes that a thread inside a lock operation runs
on and a holder unlocks some day; only progress of *somebody* is claimed, a
writer may starve. `instance_returns` assumes that every started thread runs
on; it does not assume spurious wake-ups, to which no condition variable is
obliged.

**Deadlock** is checked in all runs but those of `InstanceBridge`, `SignalStack`
and `UnwindWin`: hosts that have stopped their instances have nothing left to
do, a signal may end the process, and when the calls are used up a run of the
last two is over.

**What the properties say.** Every property has a comment at its definition and,
in `PROJECT.json`, a plausible error of the code (an unchecked refusal, a
dropped rotation, a blind store in place of a compare-and-swap, a missing
reset...) under which TLC finds it violated; the operators that express those
errors stand next to the definitions they vary, marked *Mutant*.

## 4. The proofs

TLAPS checks 18,966 obligations in eight modules. The assumptions, all of them
named, in the modules that declare the constants, and evaluated by TLC on the runs:

- the heap has at least one unit (`UnitsAssumption`); the collector is not a
  mutator, the owner of a free mutex is no thread, requests are between 1 and N
  units (`ThreadsAssumption`);
- the lock's set of threads is finite (`ThreadsFinite`);
- for the bitmap, sizes are positive, a part's counter holds a whole part, an index
  holds every word, and there are finitely many markers (`SizeAssumption`);
- for the signal chain, synchronous and abort signals are different and the main
  thread is one of the program's (`SignalClasses`), and the program's actions and
  sets are of their types (`ProgramActions`, `ProgramSets`);
- for the region lists, there are finitely many regions, each has a unit, and
  callers keep to the merges and moves described above (`ListsAssumption`);
- for the images, tables, stacks and sections, `ImagesOK`, `FunctionsOK`, `StacksOK`,
  `FramesOK` and `SectionsOK` (section 2). `NamesDiffer` in the last is a fact about
  the literals in the code, not about the environment: the prover does not
  know strings as sequences of characters, so TLC evaluates it;
- for the forward-data spaces, sizes are positive and regions share no units
  (`ForwardAssumption`, `UnitsAssumption`). One theorem, `MemoryStaysSound`, has
  `CommitsFit` as a hypothesis, which `CodeLayoutFits` proves of the code's sizes;
- for the instances, the null pointer is no handle (`NullIsNoHandle`).

### FreeRegionManagerProofs

For every heap size, set of mutators and longest request: `TypeCorrect`,
`UnitsNotShared`, `UnitsNotLost`, `InsertNeverFails`, `TakenIsZero`,
`LiveIsKept`, `StoppedHoldsNoMutex`, each `Spec => []P` for a property P that
`manager` checks.

None of these is inductive on its own. The inductive invariant `IInv` is

- *Control*: a mutex is held exactly by the thread in its critical section
  (`MutexHeld`); in a stopped world mutators are idle or in a saferegion
  (`StoppedMutators`); a thread carries a block exactly at certain labels
  (`BlkCarried`); requests are in range; nobody is at `"fatal"`.
- *Ownership*: `NoUnitShared`, `NoUnitLost`, and everything owned is below
  `fresh`. `BelowFresh` is needed for growth: without it a new region could
  overlap something. `NoUnitShared` needs `BlkCarried`, since a step inserts
  `blk[t]` and must know that it is a block nobody else has.
- *Zeroed*: units of the released tree and of blocks on their way into it or out
  of it are zero, live regions are not. This is why memory from the released
  tree need not be cleared; it depends on *Ownership* (a unit of the released
  tree is in no live region, so no mutator writes it).

Each operation moves at most one block from one owner to another, so the proof
has one lemma for each *kind of move* and each action cites the one it is.
`NeverFatal` falls out: an insertion is refused only for an overlap, and a
carried block overlaps nothing.

### RwLockProofs

`TypeCorrect`, `CountCorrect`, `NoMisuseSeen` for any finite set of threads, and
`Refinement`: `Spec => ImplementsReadersWriter`. The invariant adds to the three
checked ones that a reader's compare-and-swap never starts from `WRITE_LOCKED`
(`SeenUnlocked`): a stale value is harmless, since the compare-and-swap fails,
but a stale -1 that happens to match would turn a write lock into a free one. Every
step is shown to be one of four transfers or to leave holders and counter
alone, and each transfer is a step of `ReadersWriter`.

### RegionBitmapProofs

`WonOnce` (`OneMarkerWins`) and `TailWordsClear` (`NeverAborts`) for every
region size, word width, layout of objects and set of markers. Two kinds of
facts meet here. The arithmetic: from quotient and remainder by a variable word
width it follows that the head bits of an object contain its first bit and lie
in the object (`HeadCovers`), that the bits of each tail word lie in the object
too (`TailCovers`, where the rounding up of the word count and the mask of the
last word have to agree), and that objects are disjoint (`Disjoint`). The
invariant `IInv`:

- a marked bit belongs to an object whose first bit is marked (`MarksOwned`);
  this is what makes the head bits alone decide, also when objects share a word;
- a marker in the tail loop is at a tail word of its object (`AtObject`);
- an object is unmarked, in the hands of one winner, or finished (`OneWinner`);
- no bit of an object is set beyond the word its winner has reached
  (`NobodyAhead`). `NeverAborts` follows from it and from `TailCovers`: a whole
  tail word lies in the object and beyond what has been reached.

The second half is about the counters: `CountersAreExact` (`CountersExact`) and
`PreLiveIsExact` (`PreLiveExactPastFirstPart`). Bits, part counters and live bytes
are updated one by one, so between two updates the counters are behind: `Counters`
says that a part counter plus what the markers have yet to add to it
(`Uncounted`) is the number of set bits of the part, and the same of the live
bytes. It is preserved because a fetch-or sets only bits nobody has set
(`OneWinner`, `NobodyAhead`), and modulo `PartMod` nothing is lost because a part
fits its counter. The sums are folds over finite sets. Their laws (a sum
over a set with one element more, over two disjoint sets, of functions that differ in one
place) are shown from the fold's recursive function by a least counterexample in
the order of inclusion (`LeastSet`): the library's induction theorems take an
operator as a parameter, but that the order is well-founded can be cited as it is.
`GetPreLiveBytes` then is a sum of the counters of whole parts and of the words of
a broken one, which for offsets behind the first part meet at the same bit
(`BitsBeforeSplit`); its loop is an interval of words (`WordsCounted`).

### RegionListProofs

`SpecListsConsistent` (`ListsConsistent`), `SpecNeverFatal` (`NeverFatal`) and
`SpecVisitorSeesAll` (`VisitorSeesAll`) for any regions, threads, lists, merges
and moves that satisfy `ListsAssumption`.

What a list contains is what a loop over its links meets (`Reach`, the least set
closed under `next`), and that is hard to reason about: one wrong link changes the
contents of a list far away. The invariant therefore says where regions are
outright: there are a `home` (the list, or the merging thread, a region is at)
and a `pos` (an integer, its place there) with which everything agrees
(`Placed`):

- `Homes`: the regions without a home are those a thread has taken;
- `Chains`: the regions at home in a list are linked both ways from its head to
  its tail with `pos` going up by one at every link (`Order`), and its counts are
  theirs (`Counted`); a list that is copied and not yet cleared is nobody's home.
  Links along which `pos` goes up cannot form a cycle, so a walk from a region
  meets exactly those behind it (`ReachedFrom`);
- `Visits`: a visitor has still to see the regions from its next one on;
- `Types`: a region has the type of a `Deletable` list if it is there or a merge
  carries it from there;
- `Traces`: an inactive cache is home to no traced region;
- and `Control` of the threads in the middle of an operation: two never move to
  the same list.

Both witnesses are the proof's own, no variables of the model: each operation is
shown to take one pair to another. Putting a region before the head, taking one
out and splicing two lists are lemmas about `Order` alone (`OrderPrepend`,
`OrderRemove`, `OrderSplice`); that no assertion of `DeleteRegionLocked` fails
(`DeleteSafe`) and that no count runs short (`CountRemove`) follow from it.
Operations on other lists leave `Order` alone (`Elsewhere`), which is where
mutual exclusion enters.

`SequencesImplemented` is the refinement, `Spec => ImplementsSequences`. `Walk` is
a recursive function; that it is defined, and that it finds the sequence `s` of
regions when `s` is a path of links from the head to nobody (`Path`,
`WalkIsPath`), follow from a least counterexample on its bound. `Order` gives
every list a path (`OrderPath`), whose regions differ, so that the bound of as many
steps as there are regions suffices. Then each operation on links is one on
paths: one region put before a path, one path behind another (`PathConcat`), one
region taken out (`PathRemove`), and what an operation does elsewhere leaves a path alone (`WalksKept`).
So each step is a step of `RegionSequences` or none. The invariant above is used
throughout: with two homes for a region the operation on one list would change
the sequence of another.

### InstanceBridgeProofs

`HandleReady` (`HandleIsReady`) for any set of hosts, none of which is null
(`NullIsNoHandle`). The driver enters the sub-scheduler in the runtime's map
(`DriverIsKnown`), writes the handle, and raises the flag last (`FlagTellsHandle`);
the creator leaves its frame on the flag alone, and one that was refused has no
driver (`CreatorSawFlag`). Mutex and notification play no part, so spurious
wake-ups are harmless.

### SignalStackProofs

For any signals, threads, handlers, actions and sets: `SignalTypes` (the types,
which no run checks since it follows), `ActionsAreKept`
(`ProgramSeesItsActions`), `CallsAreFormed` (`NoWildCall`), `MarkIsCleared`
(`MarkClearedOutside`), `HandlersDoNotNest` (`OneSynchronousHandler`),
`SignalsGetThrough` (`MarkedStaysOpen`). The bounds on signals, calls, handlers
and nesting appear in guards only; no proof uses them. The inductive invariant has
three layers, each proved with the one below:

- `ActionInv`: what is on a stack of frames belongs to a registered signal and
  walks inside its handlers (`Registered`, `InStack`); the flags a frame has read are those of the saved
  action, unless it was replaced meanwhile (`Formed`); and a signal is registered
  before it can reach a task or a frame (`Known`). Registration being one call
  of the kernel is what makes `ProgramSeesItsActions` inductive.
- `HandlingInv`: the handling mark is set exactly while a synchronous handler
  runs, and a frame above it does not walk the handlers. Each frame's
  `previous_value` tells the mark below it, so the property is about the whole
  stack and needs lemmas on replacing and removing its top.
- `MaskInv`: the mask a thread will have when all its frames are gone is
  somewhere - in the lowest frame's `uc`, in a `previous_mask`, or in the thread - and
  wherever it is (`Base`), it has no marked signal the thread did not block before.
  A set on its way to the kernel was filtered against the marks of its time
  (`CallsFiltered`).

### ForwardDataProofs

For any regions, markers, kinds of bitmaps and sizes: `BindingsStayCurrent`
(`BindingsCurrent`), `MarksStayKept` (`MarksKept`), `UnbindNeverFatal`
(`NeverFatal`), `AllocationsStaySound` (all of `MemoryIsSound` but the committed
memory) and, where the layout grants it, `MemoryStaysSound` (`MemoryIsSound`). `IInv` says

- who works: a marker has claimed what it is to bind, in the space of the tag,
  and no two work on the same thing (`JobsHold`, `JobsDiffer`);
- who owns: each live info has its region or the one marker that is about to
  bind it (`SlotsOwned`), what is garbage has none of this cycle
  (`GarbageUnbound`), and between two cycles the previous space holds nothing
  (`PreviousEmpty`);
- where: live infos lie one behind the other from the start of their zone
  (`SlotsChained`), so the walk of `UnbindPrevious`, which adds a live info's size at
  a time, meets exactly live infos, and what it has passed is bound to no region
  (`WalkOK`);
- how much: the position of a zone counts what was allocated (`SlotsCounted`,
  `BitsCounted`). That is why no zone overruns its end although no allocation
  looks at it: one live info for a region and one bitmap for a region and kind,
  and the units of all regions are those of the heap.

`MemoryStaysSound` adds `CommitsCover`: every byte of the current space below
`lastCommit` and inside the space is backed. A commit starts where the last one ended
and is as long as one allocation, rounded; so `lastCommit` runs ahead of `position`
by an amount that depends on the history, may leave the space, and is refused at
the end of the mapping. `CommitsFit` is what keeps refused commits harmless: a
bitmap longer than a page belongs to a region of so many units that the headers it
does not need make up for rounding. It is a condition on sizes, not on histories; TLC
evaluates it for the run, and the code's sizes have it for heaps of at least 13
units (`CodeLayoutFits`).

### UnwindWinProofs

For any images, bases, tables and stacks within the assumptions:

- `AnswersAreOneImage` (`AnswerIsOneImage`), by the invariant `LoaderInv`
  (`LoaderHolds`): mapped images differ and do not overlap (`ImagesHold`); what a
  question has gathered so far is of the one image that was mapped at its address all the
  time, if there is one (`Follows`); and memory of no image is read by other
  questions only (`CrashHolds`). What the search for the nearest export answers (`CandidateNearest`,
  `SymbolIsNearest`) is shown by a least counterexample on the length of the table.
- `LookupsFindImages` (`LookupFindsImage`), by `LookupInv`: a record that is not of
  this moment is of a file that was unmapped (`RecordsHold`); somebody keeps the
  images of a walked stack loaded (`WalkHolds`); a refresh on its way will see the
  image its walk seeks, whatever comes and goes between the two enumerations, or
  has recorded it (`RefreshHolds`). From these: a walk is lost, or takes the wrong record, only if
  a file was unmapped before (a stale record hides the image, or was named like
  it), and otherwise the binary search finds the function of the pc. That the search does,
  with unsigned bounds that may step below zero, is a least counterexample over the
  distance of the bounds; sorted tables are used in it.
- `SectionsAreFound` (`SectionsFound`), by `SectionInv` (`SectionsHold`): after n headers, what
  is located is exactly what the first n sections of the constructor's own image
  say (`ScanHolds`), whatever images are before it, and each kind is located once. The size is
  the distance of the least start and the greatest end of all kinds, which exist by
  least counterexamples, and it survives the cut to a word or an int because the
  library is shorter than half of either.
- `WalksAreExact` (`WalkIsExact`), by `WalksHold`. A walk that met only its own flag and
  right records is *on track* (`OnTrack`): it is at the frame it has the address of; its
  status is risky exactly where the thread runs in C (`InC`); and it has set each flag
  exactly if the frame it leaves throws, which depends on which of the two functions
  it is in. None of the three can be left out: the branch the code takes depends on the status
  and on the flag, and the flag on which frame was looked up last. That a branch then yields
  the layout's address is shown for each pair of callee and caller (`NextFrame`) from
  the recurrences of the layout (`FrameLayout`), from the fact that a pc is in
  `.text_rt` for the runtime's functions only (`RuntimeFrames`, which uses `SectionInv`, that the
  runtime stays mapped and that images do not overlap), and from `StackOffsetIsSize`: the
  loop over the unwind codes, over any number of slots, adds up what `Described` says. The
  other threads' walks only matter through the flags, and one whose flag is taken is
  marked as mixed.

### Only model-checked

- *The tree* (`TreeWellFormed`, `MetadataSound`, `OperationsExact`,
  `ImplementsFreeBlocks`). Its operations are recursive over a data type and the
  module uses RECURSIVE operators, which the prover cannot unfold; it holds no
  theorem. What the proofs about the manager take from the tree is exactly
  `FreeBlocks`, and that the tree implements it is checked for 6 units. (Recursive
  *functions* over numbers and finite sets are within the prover's reach by
  least counterexamples, as in the proofs above; a function over trees would need a set of
  all trees as its domain.)
- *Liveness* (`CollectorFinishes`, `StopGranted`, `SomebodyEnters`): the prover
  has no ENABLED.

## 5. Disagreements found

1. **`GetPreLiveBytes` does not end for some offsets** (run `bitmap_parts`,
   property `PreLiveExact`). For an offset behind the first word of the first
   part, in a region with more than one mark word per part (more than 16 words,
   so more than 8 KiB), `partStartIndex` is 0 and
   `while (index >= partStartIndex)` at `src/src/rt.gc/RegionBitmap.cj:277`
   compares an unsigned index that wraps below 0 (the build uses
   `--int-overflow wrapping`, `src/cjpm.toml:11`). The parity probe only uses
   regions of 8,192 bytes, where it cannot happen. For all other offsets the
   answer is exact; `PreLiveExactPastFirstPart` in run `bitmap` says so.
2. **`InstanceNew` may wait for ever** (run `instance_returns`, property
   `InstanceNewReturns`). The driver stores the flag and notifies without the
   mutex (`src/src.native/rt.instance/instance_bridge.cpp:84-85`); if both come
   between the creator's test of the predicate and its wait (`:140-141`), the
   only notification is lost. The contract test expects each call to return
   (`src/test/contract/instance/managed_host_contract.cj:193`).

3. **The unwinder's flag is shared by all threads** (run `unwind_race`, property
   `WalkIsAlwaysExact`). `isCalleeThrowStackOverFlowError` is a static variable
   of `GetCallerFrameInfo` (`src/rt0/os/Windows/UnwindWin.cpp:117`, and one of
   `GetCallerRsp`): one call sets it for the next. With two threads walking
   stacks, one takes the flag of the other, so the rule the comment at `:134`
   gives for `callee is ThrowStackOverFlowError` is used for another callee, and
   not for the right one. `WalkIsExact` in run `unwind` says that every walk
   that meets only its own flag is exact.

Other things the code does that the models keep, that no text of the repository
contradicts, and that the properties except by name:

- a `sigaction` of the program that tested the mark before a registration
  replaces the runtime's handler (`raced`); a default action that is put
  back stays, although the signal may be one that is ignored by default
  (`defaulted`, `SignalStack.cpp:205`); an action replaced between the two reads
  may be called in the wrong form (`torn`, `:187`); a worker keeps the mask of a
  task's handler (`leaked`, `:157`); `sigprocmask` writes the filtered set into the
  program's object, so a set filled once to block and to unblock loses its marked
  signals (`early`, `:369`);
- a record of an unloaded image hides the image that is mapped there next
  (`gone`, `WinModuleManager.cpp:109`), and the second enumeration may use handles
  nobody filled in (`garbage`, `:168`); an answer about an image that is unloaded
  during the question may mix two images or read unmapped memory
  (`query.file`, `Windows/Loader.cpp:77`).

Run `instance_returns` also has behaviours in which the creator returns before the
driver notifies, so that the condition variable is dead stack; this is listed
with the lost wake-up as a hazard of the same line and modelled as a choice.
`InstanceNewReturns` is not blamed on it (a crashed process satisfies it), and no
property claims that it never happens.

**Hazards that no property catches going wrong.** The code, or a caller, may meet
these; where `PROJECT.json` names properties beside them, these hold with the case left out,
by a guard or by a ghost, and each `note` says so:

- a `TryDeleteRegion` on a list whose regions a merge is carrying away
  (`RegionList.cj:390`; guard of `TryDeleteRegion`), and a tag switched while a marker is between
  a claim and a store (`ForwardDataManager.cj:369`; guard of `SetTagID`), so
  `NeverFatal` of either module says nothing of a caller that breaks that order;
- the five of the signal chain just listed (`raced`, `defaulted`, `torn`, `leaked`,
  `early`);
- stale module records, also where the binary search wraps over one (`gone`), and an
  image unloaded during the question (`query.file`); a pc equal to an inclusive end of a
  function is not among those looked up;
- the set of module records without a lock, and the state word, which has no property yet.

## 6. Not modelled

- *Outside the repository*: the C++ collector, the scheduler and the allocator's
  callers. They appear as environment actions with the guards listed above.
- *No state or no concurrency to speak of*: demangler, stack-map and exception
  decoders, object accessors, barrier forwarding, layouts, constants, export
  tables, assembly stubs, system-call wrappers. The repository compares the
  demangler byte for byte with the C++ one, which says more than a bounded model
  could.
- *Parts of modelled components*: iterators, dumps and statistics of the tree
  and the manager; the ghost lists and `CopyListTo` of the region lists (a
  snapshot the C++ collector walks without a lock); the sums that live info takes over two
  bitmaps; most of `RegionInfo`'s bit fields; default parameters of instances; of
  the signal chain, the look-up of the libc functions at start
  (`FindSymbolInLibc`, `CreatePthreadKey`, `InitializeSignalStack`) and the names of
  `SignalUtils.cpp`; of the module records, `GetWinModuleByName` and `Fini`, which the
  unwinder does not use.
- *Undefined behaviour inside containers*: the set of module records and the
  vector of handlers are changed without a lock while other threads may read
  them. There are no outcomes to choose from, so an insertion is one step; the
  hazard is listed.
- *One-call wrappers*: `Atomic.cpp` (the steps of the models), futexes, the
  semaphore, the spin locks, page-pool mutexes.
- *Components still to model*: `MarkWorkStack`, `PagePool`, `AllocBuffer`,
  `StateWord`, the deques. Nothing in them is out of reach; the signal chain, the
  Windows unwinder and the forward-data spaces, where threads, the kernel and
  the collector meet, were put first. Hazards of theirs that are listed without
  a property are open.
- *Forward-data spaces*: the end of the mapping (`ForwardDataDestroy`), the abort when it
  cannot be had, advice to the system, and commits the system refuses *inside* the
  mapping for want of memory (the code logs them and hands the memory out; only those
  that leave the mapping are modelled). Likewise a decommit the system refuses on
  Windows (`ForwardDataManager.cj:276`): it is only logged, the space is reset all the
  same, and the old words stay, so that memory handed out next is not zero;
  `ReleaseMemory` always leaves zeroes. A mapping macOS does not renew (`:262`) is
  only logged too, there after the words have been cleared.
- *The steps of `CheckAndClearLiveInfo`* (`RegionInfo.cj:1061-1069`) are one step: the
  type is read, the field is read, null and a live byte count of 0 are written, each on
  its own. Only the collector, which does this, makes a region garbage; a marker
  claims only a null field; and who takes a garbage region clears the field (`:1272`)
  before the type (`:1274`). So nothing that comes between can change the outcome.
  The live byte count is not modelled.
- *Instances*: the end of the runtime (the program calls nothing afterwards).

Memory is sequentially consistent in all models. The atomics of `RwLock`,
`RegionBitmap` and the instance's flag are modelled as indivisible steps on one
memory.

## 7. Plan

The order was: the free-memory stack first (a wrong step there corrupts the
heap of every program), then the lock it and others rest on, then marking and
the region lists, then the instance handshake, then the C++ of Layer 0 that has
state: the signal chain, the section tables, the loader, the module records and
the unwinder, then the forward-data spaces. That part is done. What is left, most important first:

| Module | Models | Worth stating |
|---|---|---|
| `PagePool` | `GetPage`, `ReturnPage` over the fresh zone, a `FreeBlocks` and private mappings | a page has one owner and goes back where it came from (composes with `FreeBlocks`) |
| `AllocBuffer` | prepared region by one compare-and-swap, roots; composed with `RegionSequences` | a prepared region is used once or returned |
| `StateWord` | lock bit, state code, forwarding | the lock excludes; a plain store of the state code loses no lock under the callers' order |
| `RegionInfoBits` | the bit-field CAS loops and `Alloc` | no update lost; allocation never passes the end |
| `MarkWorkStack`, `LocalDeque` | buffers, insert and split; spill into the single-use deque | a bag (a sequence) of the same elements, as refinements |

Every safety property that a passing run checks is a theorem too, except the
tree's; further theorems come with the modules above.
