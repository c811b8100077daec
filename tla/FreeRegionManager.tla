-------------------------- MODULE FreeRegionManager --------------------------
(***************************************************************************)
(* rt.heap.allocator/FreeRegionManager.cj: mutators and the collector take *)
(* regions from, and return them to, two free-unit trees, each under its   *)
(* own mutex.  The dirty tree holds units whose contents are garbage, the  *)
(* released tree units whose memory was given back to the system and so    *)
(* reads as zero.  ReleaseGarbageRegions moves blocks from the one to the  *)
(* other and holds neither mutex in between.                               *)
(*                                                                         *)
(* A tree is the set of units it indexes: module CartesianTree shows that  *)
(* the code's tree implements that (FreeBlocks).  One step is what a       *)
(* thread does between two points where another thread can interfere: the  *)
(* acquisition of a mutex, the critical section with its release, and each *)
(* piece of work outside.                                                  *)
(*                                                                         *)
(* Stop-the-world is the C++ runtime's, used through                       *)
(* CJRT_ScopedEnterSaferegionOnlyMutatorBegin/End: a mutator inside a safe *)
(* region counts as stopped, and waits at its end while a stop is wanted.  *)
(***************************************************************************)
EXTENDS UnitRuns, FiniteSets

CONSTANTS
  Mutators,     \* threads that run managed code
  Collector,    \* the GC thread
  NoThread,     \* the owner of a free mutex
  MaxTake       \* the longest region a mutator asks for, in units

Threads == Mutators \union {Collector}
Trees == {"dirty", "released"}

ASSUME ThreadsAssumption ==
  /\ Collector \notin Mutators
  /\ NoThread \notin Threads
  /\ MaxTake \in 1 .. N

VARIABLES
  free,       \* per tree, the units it indexes
  mutex,      \* per tree, the thread that holds its mutex
  regions,    \* live regions, <<first unit, length>>
  fresh,      \* first unit the region manager has never handed out
  zero,       \* units whose memory reads as zero
  pc,         \* per thread, what it does next
  at,         \* per thread, the tree it turns to next or holds
  try,        \* per thread, TakeRegion's tryDirtyTree and tryReleasedTree
  want,       \* per thread, the length TakeRegion was asked for
  blk,        \* per thread, the block it is moving from one place to another
  goal,       \* the collector's targetCachedSize, in units
  world       \* stop-the-world: "running", "stopping" or "stopped"

vars == <<free, mutex, regions, fresh, zero, pc, at, try, want, blk, goal, world>>

NoBlock == <<0, 0>>
Regions == Units \X (1 .. N)
RunOf(r) == Run(r[1], r[2])

TakePCs == {"tryLock", "carve", "prehandle", "taken", "poll"}
AddPCs == {"addLock", "add", "addEnd"}
ReleasePCs == {"rootLock", "root", "moveLock", "move", "check"}

TypeOK ==
  /\ free \in [Trees -> SUBSET Units]
  /\ mutex \in [Trees -> Threads \union {NoThread}]
  /\ regions \subseteq Regions
  /\ fresh \in 0 .. N
  /\ zero \subseteq Units
  /\ pc \in [Threads -> {"idle", "fatal"} \union TakePCs \union AddPCs \union ReleasePCs]
  /\ at \in [Threads -> Trees]
  /\ try \in [Threads -> SUBSET Trees]
  /\ want \in [Threads -> 0 .. N]
  /\ blk \in [Threads -> Regions \union {NoBlock}]
  /\ goal \in 0 .. N
  /\ world \in {"running", "stopping", "stopped"}

Init ==
  /\ free = [tree \in Trees |-> {}]
  /\ mutex = [tree \in Trees |-> NoThread]
  /\ regions = {}
  /\ fresh = 0
  /\ zero = Units
  /\ pc = [t \in Threads |-> "idle"]
  /\ at = [t \in Threads |-> "dirty"]
  /\ try = [t \in Threads |-> {}]
  /\ want = [t \in Threads |-> 0]
  /\ blk = [t \in Threads |-> NoBlock]
  /\ goal = 0
  /\ world = "running"

-----------------------------------------------------------------------------
(* Steps shared by the operations *)

Goto(t, label) == pc' = [pc EXCEPT ![t] = label]

\* pthread_mutex_lock.
Lock(t, from, to) ==
  /\ pc[t] = from
  /\ mutex[at[t]] = NoThread
  /\ mutex' = [mutex EXCEPT ![at[t]] = t]
  /\ Goto(t, to)
  /\ UNCHANGED <<free, regions, fresh, zero, at, try, want, blk, goal, world>>

Unlock(t) == mutex' = [mutex EXCEPT ![at[t]] = NoThread]

\* A mutator in idle runs managed code and takes a safepoint before it calls
\* in; the collector is never held up.
MayStart(t) == pc[t] = "idle" /\ (t \in Mutators => world = "running")

\* Mutant: the mutex is not released.
InsertBlockKeepingMutex(t, from, to) ==
  /\ pc[t] = from
  /\ free' = [free EXCEPT ![at[t]] = @ \union RunOf(blk[t])]
  /\ blk' = [blk EXCEPT ![t] = NoBlock]
  /\ Goto(t, to)
  /\ UNCHANGED <<mutex, regions, fresh, zero, at, try, want, goal, world>>

\* MergeInsert of the thread's block into the tree whose mutex it holds.  The
\* tree refuses units it already has, and the refusal is fatal.
InsertBlock(t, from, to) ==
  /\ pc[t] = from
  /\ IF RunOf(blk[t]) \cap free[at[t]] # {}
     THEN /\ Goto(t, "fatal")
          /\ UNCHANGED <<free, mutex, blk>>
     ELSE /\ free' = [free EXCEPT ![at[t]] = @ \union RunOf(blk[t])]
          /\ blk' = [blk EXCEPT ![t] = NoBlock]
          /\ Unlock(t)
          /\ Goto(t, to)
  /\ UNCHANGED <<regions, fresh, zero, at, try, want, goal, world>>

-----------------------------------------------------------------------------
(* TakeRegion *)

TakeRegion(t, n) ==
  /\ t \in Mutators
  /\ MayStart(t)
  /\ want' = [want EXCEPT ![t] = n]
  /\ try' = [try EXCEPT ![t] = Trees]
  /\ at' = [at EXCEPT ![t] = "dirty"]
  /\ Goto(t, "tryLock")
  /\ UNCHANGED <<free, mutex, regions, fresh, zero, blk, goal, world>>

\* Mutant: the loop body does not end in a safe region.
NextTreeWithoutPoll(t) ==
  /\ at' = [at EXCEPT ![t] = "released"]
  /\ Goto(t, "tryLock")

\* From the dirty tree to the released tree, from there to the end of the
\* loop body, where the thread enters a safe region.
NextTree(t) ==
  /\ at' = [at EXCEPT ![t] = "released"]
  /\ Goto(t, IF at[t] = "dirty" THEN "tryLock" ELSE "poll")

TryLock(t) ==
  /\ pc[t] = "tryLock"
  /\ at[t] \in try[t]
  /\ Lock(t, "tryLock", "carve")

\* The tree was found empty before, or TryLock fails because it is held.
SkipTree(t) ==
  /\ pc[t] = "tryLock"
  /\ at[t] \notin try[t] \/ mutex[at[t]] # NoThread
  /\ NextTree(t)
  /\ UNCHANGED <<free, mutex, regions, fresh, zero, try, want, blk, goal, world>>

\* Mutant: the rest of the block is not put back.
CarveWholeBlock(t) ==
  /\ pc[t] = "carve"
  /\ \E b \in BestFit(free[at[t]], want[t]), k \in 1 .. N :
       /\ IsBlock(free[at[t]], b, k)
       /\ free' = [free EXCEPT ![at[t]] = @ \ Run(b, k)]
       /\ blk' = [blk EXCEPT ![t] = <<b, want[t]>>]
       /\ zero' = IF at[t] = "dirty" THEN zero \union Run(b, want[t]) ELSE zero
  /\ Unlock(t)
  /\ Goto(t, IF at[t] = "dirty" THEN "taken" ELSE "prehandle")
  /\ UNCHANGED <<regions, fresh, at, try, want, goal, world>>

\* TakeUnitsLowAddr succeeds.  Dirty units are cleared before the mutex is
\* released, released ones are looked at afterwards.
CarveRegion(t) ==
  /\ pc[t] = "carve"
  /\ \E b \in BestFit(free[at[t]], want[t]) :
       LET r == <<b, want[t]>> IN
       /\ free' = [free EXCEPT ![at[t]] = @ \ RunOf(r)]
       /\ blk' = [blk EXCEPT ![t] = r]
       /\ zero' = IF at[t] = "dirty" THEN zero \union RunOf(r) ELSE zero
  /\ Unlock(t)
  /\ Goto(t, IF at[t] = "dirty" THEN "taken" ELSE "prehandle")
  /\ UNCHANGED <<regions, fresh, at, try, want, goal, world>>

CarveNothing(t) ==
  /\ pc[t] = "carve"
  /\ BestFit(free[at[t]], want[t]) = {}
  /\ try' = [try EXCEPT ![t] = @ \ {at[t]}]
  /\ Unlock(t)
  /\ NextTree(t)
  /\ UNCHANGED <<free, regions, fresh, zero, want, blk, goal, world>>

\* Mutant: one unit too many is cleared.
PrehandleTooLong(t) ==
  /\ pc[t] = "prehandle"
  /\ \E expectPhysicalMem \in BOOLEAN :
       zero' = IF expectPhysicalMem
               THEN zero \union (Run(blk[t][1], blk[t][2] + 1) \cap Units)
               ELSE zero
  /\ Goto(t, "taken")
  /\ UNCHANGED <<free, mutex, regions, fresh, at, try, want, blk, goal, world>>

\* PrehandleReleasedUnit: the region is cleared if physical memory is expected.
Prehandle(t) ==
  /\ pc[t] = "prehandle"
  /\ \E expectPhysicalMem \in BOOLEAN :
       zero' = IF expectPhysicalMem THEN zero \union RunOf(blk[t]) ELSE zero
  /\ Goto(t, "taken")
  /\ UNCHANGED <<free, mutex, regions, fresh, at, try, want, blk, goal, world>>

\* The call returns a region, and the mutator starts to write into it.
ReturnRegion(t) ==
  /\ pc[t] = "taken"
  /\ regions' = regions \union {blk[t]}
  /\ zero' = zero \ RunOf(blk[t])
  /\ blk' = [blk EXCEPT ![t] = NoBlock]
  /\ try' = [try EXCEPT ![t] = {}]
  /\ want' = [want EXCEPT ![t] = 0]
  /\ at' = [at EXCEPT ![t] = "dirty"]
  /\ Goto(t, "idle")
  /\ UNCHANGED <<free, mutex, fresh, goal, world>>

\* The safe region at the end of the loop body is left, and the loop runs
\* again unless both trees were found without a fitting block.
LeavePoll(t) ==
  /\ pc[t] = "poll"
  /\ world = "running"
  /\ at' = [at EXCEPT ![t] = "dirty"]
  /\ want' = [want EXCEPT ![t] = IF try[t] = {} THEN 0 ELSE @]
  /\ Goto(t, IF try[t] = {} THEN "idle" ELSE "tryLock")
  /\ UNCHANGED <<free, mutex, regions, fresh, zero, try, blk, goal, world>>

\* Mutant: the end of the heap is not checked.
GrowHeapUnbounded(t, n) ==
  /\ t \in Mutators
  /\ MayStart(t)
  /\ fresh <= N
  /\ fresh' = fresh + n
  /\ regions' = regions \union {<<fresh, n>>}
  /\ zero' = zero \ Run(fresh, n)
  /\ UNCHANGED <<free, mutex, pc, at, try, want, blk, goal, world>>

\* The region manager takes units the heap has never used (external caller).
GrowHeap(t, n) ==
  /\ t \in Mutators
  /\ MayStart(t)
  /\ fresh + n <= N
  /\ fresh' = fresh + n
  /\ regions' = regions \union {<<fresh, n>>}
  /\ zero' = zero \ Run(fresh, n)
  /\ UNCHANGED <<free, mutex, pc, at, try, want, blk, goal, world>>

-----------------------------------------------------------------------------
(* AddGarbageUnits and AddReleaseUnits *)

\* Mutant: the region stays in its caller's hands.
StartAddKeepingRegion(t, r, tree) ==
  /\ MayStart(t)
  /\ r \in regions
  /\ blk' = [blk EXCEPT ![t] = r]
  /\ at' = [at EXCEPT ![t] = tree]
  /\ Goto(t, "addLock")
  /\ UNCHANGED <<free, mutex, regions, fresh, try, want, goal, world>>

\* The caller gives up region r; a mutator enters a safe region first.
StartAdd(t, r, tree) ==
  /\ MayStart(t)
  /\ r \in regions
  /\ regions' = regions \ {r}
  /\ blk' = [blk EXCEPT ![t] = r]
  /\ at' = [at EXCEPT ![t] = tree]
  /\ Goto(t, "addLock")
  /\ UNCHANGED <<free, mutex, fresh, try, want, goal, world>>

AddGarbageUnits(t, r) == StartAdd(t, r, "dirty") /\ UNCHANGED zero

\* The caller has given the memory back to the system (ReleaseUnits).
AddReleaseUnits(t, r) ==
  StartAdd(t, r, "released") /\ zero' = zero \union RunOf(r)

AddLock(t) == Lock(t, "addLock", "add")

Add(t) == InsertBlock(t, "add", "addEnd")

\* The safe region ends after the mutex is released.
AddEnd(t) ==
  /\ pc[t] = "addEnd"
  /\ t \in Mutators => world = "running"
  /\ at' = [at EXCEPT ![t] = "dirty"]
  /\ Goto(t, "idle")
  /\ UNCHANGED <<free, mutex, regions, fresh, zero, try, want, blk, goal, world>>

-----------------------------------------------------------------------------
(* ReleaseGarbageRegions, called on the collector *)

\* The dirty total is read without the mutex, before the loop and at its end.
EnoughGarbageLeft(cached) == Cardinality(free["dirty"]) > cached

ReleaseGarbageRegions(cached) ==
  /\ MayStart(Collector)
  /\ EnoughGarbageLeft(cached)
  /\ goal' = cached
  /\ at' = [at EXCEPT ![Collector] = "dirty"]
  /\ Goto(Collector, "rootLock")
  /\ UNCHANGED <<free, mutex, regions, fresh, zero, try, want, blk, world>>

RootLock == Lock(Collector, "rootLock", "root")

\* Mutant: the node is not removed.
ReleaseRootKeepingNode ==
  /\ pc[Collector] = "root"
  /\ \E r \in Blocks(free["dirty"]) :
       /\ zero' = zero \union RunOf(r)
       /\ blk' = [blk EXCEPT ![Collector] = r]
  /\ Unlock(Collector)
  /\ at' = [at EXCEPT ![Collector] = "released"]
  /\ Goto(Collector, "moveLock")
  /\ UNCHANGED <<free, regions, fresh, try, want, goal, world>>

\* Mutant: the memory is not given back.
ReleaseRootKeepingMemory ==
  /\ pc[Collector] = "root"
  /\ \E r \in Blocks(free["dirty"]) :
       /\ free' = [free EXCEPT !["dirty"] = @ \ RunOf(r)]
       /\ blk' = [blk EXCEPT ![Collector] = r]
  /\ Unlock(Collector)
  /\ at' = [at EXCEPT ![Collector] = "released"]
  /\ Goto(Collector, "moveLock")
  /\ UNCHANGED <<regions, fresh, zero, try, want, goal, world>>

\* ReleaseRootNode of one of the longest blocks: its memory goes back to the
\* system while the block is still protected by the mutex.
ReleaseRoot ==
  /\ pc[Collector] = "root"
  /\ \E r \in Blocks(free["dirty"]) :
       /\ \A other \in Blocks(free["dirty"]) : other[2] <= r[2]
       /\ free' = [free EXCEPT !["dirty"] = @ \ RunOf(r)]
       /\ zero' = zero \union RunOf(r)
       /\ blk' = [blk EXCEPT ![Collector] = r]
  /\ Unlock(Collector)
  /\ at' = [at EXCEPT ![Collector] = "released"]
  /\ Goto(Collector, "moveLock")
  /\ UNCHANGED <<regions, fresh, try, want, goal, world>>

NoRoot ==
  /\ pc[Collector] = "root"
  /\ free["dirty"] = {}
  /\ Unlock(Collector)
  /\ goal' = 0
  /\ Goto(Collector, "idle")
  /\ UNCHANGED <<free, regions, fresh, zero, at, try, want, blk, world>>

MoveLock == Lock(Collector, "moveLock", "move")

Move == InsertBlock(Collector, "move", "check")

CheckGarbage ==
  /\ pc[Collector] = "check"
  /\ at' = [at EXCEPT ![Collector] = "dirty"]
  /\ IF EnoughGarbageLeft(goal)
     THEN Goto(Collector, "rootLock") /\ UNCHANGED goal
     ELSE Goto(Collector, "idle") /\ goal' = 0
  /\ UNCHANGED <<free, mutex, regions, fresh, zero, try, want, blk, world>>

-----------------------------------------------------------------------------
(* Stop-the-world (external) *)

InSaferegion(m) == pc[m] \in {"poll"} \union AddPCs

StopTheWorld ==
  /\ pc[Collector] = "idle"
  /\ world = "running"
  /\ world' = "stopping"
  /\ UNCHANGED <<free, mutex, regions, fresh, zero, pc, at, try, want, blk, goal>>

WorldStopped ==
  /\ world = "stopping"
  /\ \A m \in Mutators : pc[m] = "idle" \/ InSaferegion(m)
  /\ world' = "stopped"
  /\ UNCHANGED <<free, mutex, regions, fresh, zero, pc, at, try, want, blk, goal>>

StartTheWorld ==
  /\ pc[Collector] = "idle"
  /\ world = "stopped"
  /\ world' = "running"
  /\ UNCHANGED <<free, mutex, regions, fresh, zero, pc, at, try, want, blk, goal>>

-----------------------------------------------------------------------------
\* What a thread does once it is inside one of the operations.
Continue(t) ==
  \/ TryLock(t) \/ SkipTree(t) \/ CarveRegion(t) \/ CarveNothing(t)
  \/ Prehandle(t) \/ ReturnRegion(t) \/ LeavePoll(t)
  \/ AddLock(t) \/ Add(t) \/ AddEnd(t)

ContinueRelease ==
  RootLock \/ ReleaseRoot \/ NoRoot \/ MoveLock \/ Move \/ CheckGarbage

Start(t) ==
  \/ \E n \in 1 .. MaxTake : TakeRegion(t, n) \/ GrowHeap(t, n)
  \/ \E r \in regions : AddGarbageUnits(t, r) \/ AddReleaseUnits(t, r)

Next ==
  \/ \E t \in Threads : Start(t) \/ Continue(t)
  \/ \E cached \in 0 .. N : ReleaseGarbageRegions(cached)
  \/ ContinueRelease
  \/ StopTheWorld \/ WorldStopped \/ StartTheWorld

Spec == Init /\ [][Next]_vars

\* Threads inside the runtime keep running, and a stop is granted once every
\* mutator has reached a safe region.  Nothing is assumed about who wins a
\* contended mutex, or about how often operations are called.
Fairness ==
  /\ \A t \in Threads : WF_vars(Continue(t))
  /\ WF_vars(ContinueRelease)
  /\ WF_vars(WorldStopped)

FairSpec == Spec /\ Fairness

-----------------------------------------------------------------------------
(* Properties *)

FreeUnits == free["dirty"] \union free["released"]

\* At any time a unit has one owner: a tree, a live region, or the thread that
\* is moving its block.  In particular no two TakeRegion calls return the same
\* unit, and a block between the two trees is in neither.
NoUnitShared ==
  /\ free["dirty"] \cap free["released"] = {}
  /\ \A t \in Threads : RunOf(blk[t]) \cap FreeUnits = {}
  /\ \A t, u \in Threads : t # u => RunOf(blk[t]) \cap RunOf(blk[u]) = {}
  /\ \A r \in regions : RunOf(r) \cap FreeUnits = {}
  /\ \A r \in regions, t \in Threads : RunOf(r) \cap RunOf(blk[t]) = {}
  /\ \A r, s \in regions : r # s => RunOf(r) \cap RunOf(s) = {}

\* No unit the heap ever handed out drops out of the trees, the regions and the
\* blocks in motion.
NoUnitLost ==
  \A u \in 0 .. fresh - 1 :
     \/ u \in FreeUnits
     \/ \E r \in regions : u \in RunOf(r)
     \/ \E t \in Threads : u \in RunOf(blk[t])

\* The fatal MergeInsert branches (FreeRegionManager.cj:232, 245, 327) are never
\* taken when callers give up every region once.
NeverFatal == \A t \in Threads : pc[t] # "fatal"

\* Whichever tree a region comes from, and whether or not physical memory was
\* expected, TakeRegion returns memory that reads as zero.
TakenMemoryIsZero ==
  \A t \in Threads : pc[t] = "taken" => RunOf(blk[t]) \subseteq zero

\* Clearing or releasing memory (ClearUnits, ReleaseUnits) never reaches a unit
\* of a live region.
LiveMemoryKept == \A r \in regions : RunOf(r) \cap zero = {}

\* While the world is stopped a tree mutex is only held by the collector or by
\* a mutator that will release it without being resumed: safe regions end after
\* the mutex is released, so the collector never waits for a stopped mutator.
StoppedWorldHoldsNoMutex ==
  world = "stopped" =>
     \A tree \in Trees :
        mutex[tree] \in Mutators => pc[mutex[tree]] = "add"

\* Every operation the collector runs in a stopped world comes to an end.
CollectorFinishes ==
  (world = "stopped" /\ pc[Collector] # "idle") ~> pc[Collector] = "idle"

\* A mutator that spins in TakeRegion, waits for a mutex or waits to be resumed
\* never keeps the collector from stopping the world.
StopGranted == world = "stopping" ~> world = "stopped"

=============================================================================
