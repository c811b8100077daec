----------------------- MODULE FreeRegionManagerProofs -----------------------
(***************************************************************************)
(* The safety properties of FreeRegionManager, for any heap size, any      *)
(* mutators and any longest request.  The argument has three layers:       *)
(*   Control     who holds which mutex, which threads carry a block, and   *)
(*               where mutators are while the world is stopped;            *)
(*   Ownership   the trees, the live regions and the carried blocks        *)
(*               partition the units below fresh;                          *)
(*   Zeroed      which of these units read as zero.                        *)
(* Each operation moves at most one block from one owner to another, and   *)
(* Ownership is shown once for each kind of move.                          *)
(***************************************************************************)
EXTENDS FreeRegionManager, TLAPS

HoldPCs == {"carve", "add", "root", "move"}
MovingPCs == {"prehandle", "taken", "addLock", "add", "moveLock", "move"}

\* A mutex is held by the thread that stands in its critical section.
MutexHeld ==
  \A tree \in Trees, t \in Threads :
     mutex[tree] = t <=> (pc[t] \in HoldPCs /\ at[t] = tree)

StoppedMutators ==
  world = "stopped" => \A m \in Mutators : pc[m] = "idle" \/ InSaferegion(m)

WantInRange ==
  \A t \in Threads : pc[t] \in {"tryLock", "carve", "poll"} => want[t] \in 1 .. N

BlkCarried ==
  \A t \in Threads :
     IF pc[t] \in MovingPCs THEN blk[t] \in Regions ELSE blk[t] = NoBlock

Control == MutexHeld /\ StoppedMutators /\ WantInRange /\ BlkCarried /\ NeverFatal

BelowFresh ==
  /\ FreeUnits \subseteq 0 .. fresh - 1
  /\ \A r \in regions : RunOf(r) \subseteq 0 .. fresh - 1
  /\ \A t \in Threads : RunOf(blk[t]) \subseteq 0 .. fresh - 1

Ownership == NoUnitShared /\ NoUnitLost /\ BelowFresh

Zeroed ==
  /\ free["released"] \subseteq zero
  /\ \A t \in Threads :
        \/ pc[t] \in {"prehandle", "taken"}
        \/ pc[t] \in MovingPCs /\ at[t] = "released"
        => RunOf(blk[t]) \subseteq zero
  /\ LiveMemoryKept

IInv == TypeOK /\ Control /\ Ownership /\ Zeroed

-----------------------------------------------------------------------------
(* Runs of units *)

\* No unit belongs to the block of a thread that carries none.
LEMMA NoBlockEmpty == RunOf(NoBlock) = {}
BY DEF RunOf, NoBlock, Run

\* TakeUnitsLowAddr finds a place inside one free block of its tree.
LEMMA BestFitInside ==
  ASSUME NEW S, NEW n \in 1 .. N, NEW b \in BestFit(S, n)
  PROVE  <<b, n>> \in Regions /\ RunOf(<<b, n>>) \subseteq S
<1>1. PICK k \in n .. N : b \in Units /\ IsBlock(S, b, k)
  BY DEF BestFit
<1>2. Run(b, k) \subseteq S
  BY <1>1 DEF IsBlock
<1>3. Run(b, n) \subseteq Run(b, k)
  BY <1>1, UnitsAssumption DEF Run, Units
<1> QED
  BY <1>1, <1>2, <1>3 DEF RunOf, Regions

\* The root block lies inside its tree.
LEMMA BlocksInside ==
  ASSUME NEW S, NEW r \in Blocks(S)
  PROVE  r \in Regions /\ RunOf(r) \subseteq S
BY DEF Blocks, IsBlock, RunOf, Regions

\* Growing the heap by n units adds exactly the units that were above fresh.
LEMMA GrowRange ==
  ASSUME TypeOK, NEW n \in 1 .. MaxTake, fresh + n <= N
  PROVE  /\ <<fresh, n>> \in Regions
         /\ fresh + n \in 0 .. N
         /\ 0 .. fresh + n - 1 = (0 .. fresh - 1) \union RunOf(<<fresh, n>>)
         /\ (0 .. fresh - 1) \cap RunOf(<<fresh, n>>) = {}
         /\ Run(fresh, n) = RunOf(<<fresh, n>>)
BY UnitsAssumption, ThreadsAssumption DEF TypeOK, Regions, Units, RunOf, Run

\* Units below fresh are units of the heap.
LEMMA BelowFreshInHeap ==
  ASSUME fresh \in 0 .. N
  PROVE  0 .. fresh - 1 \subseteq Units
BY UnitsAssumption DEF Units

-----------------------------------------------------------------------------
(* The six ways in which a step moves a block *)

MovesNothing == UNCHANGED <<free, regions, fresh, blk>>

TakesOut(t) ==
  /\ blk[t] = NoBlock
  /\ \E tree \in Trees, r \in Regions :
       /\ RunOf(r) \subseteq free[tree]
       /\ free' = [free EXCEPT ![tree] = @ \ RunOf(r)]
       /\ blk' = [blk EXCEPT ![t] = r]
  /\ UNCHANGED <<regions, fresh>>

PutsIn(t) ==
  /\ \E tree \in Trees : free' = [free EXCEPT ![tree] = @ \union RunOf(blk[t])]
  /\ blk' = [blk EXCEPT ![t] = NoBlock]
  /\ UNCHANGED <<regions, fresh>>

HandsOut(t) ==
  /\ blk[t] \in Regions
  /\ regions' = regions \union {blk[t]}
  /\ blk' = [blk EXCEPT ![t] = NoBlock]
  /\ UNCHANGED <<free, fresh>>

TakesBack(t) ==
  /\ blk[t] = NoBlock
  /\ \E r \in regions :
       /\ regions' = regions \ {r}
       /\ blk' = [blk EXCEPT ![t] = r]
  /\ UNCHANGED <<free, fresh>>

Grows ==
  /\ \E n \in 1 .. MaxTake :
       /\ fresh + n <= N
       /\ fresh' = fresh + n
       /\ regions' = regions \union {<<fresh, n>>}
  /\ UNCHANGED <<free, blk>>

Transfer(t) ==
  MovesNothing \/ TakesOut(t) \/ PutsIn(t) \/ HandsOut(t) \/ TakesBack(t) \/ Grows

-----------------------------------------------------------------------------
(* Ownership *)

\* A block that leaves a tree is owned by the thread that carries it.
LEMMA TakesOutKeepsOwnership ==
  ASSUME TypeOK, Ownership, NEW t \in Threads, TakesOut(t)
  PROVE  Ownership'
<1>1. PICK tree \in Trees, r \in Regions :
        /\ RunOf(r) \subseteq free[tree]
        /\ free' = [free EXCEPT ![tree] = @ \ RunOf(r)]
        /\ blk' = [blk EXCEPT ![t] = r]
  BY DEF TakesOut
<1>2. blk[t] = NoBlock /\ RunOf(blk[t]) = {} /\ UNCHANGED <<regions, fresh>>
  BY NoBlockEmpty DEF TakesOut
<1>3. \A u \in Threads : RunOf(blk'[u]) = IF u = t THEN RunOf(r) ELSE RunOf(blk[u])
  BY <1>1 DEF TypeOK
<1>4. /\ RunOf(r) \subseteq FreeUnits
      /\ FreeUnits' = FreeUnits \ RunOf(r)
      /\ free'["dirty"] \cap free'["released"] = {}
  BY <1>1 DEF FreeUnits, Ownership, NoUnitShared, TypeOK, Trees
<1>5. NoUnitShared'
  BY <1>2, <1>3, <1>4 DEF Ownership, NoUnitShared
<1>6. NoUnitLost'
  BY <1>2, <1>3, <1>4 DEF Ownership, NoUnitLost
<1>7. BelowFresh'
  BY <1>2, <1>3, <1>4 DEF Ownership, BelowFresh
<1> QED
  BY <1>5, <1>6, <1>7 DEF Ownership

\* A block that enters a tree leaves the thread that carried it.
LEMMA PutsInKeepsOwnership ==
  ASSUME TypeOK, Ownership, NEW t \in Threads, PutsIn(t)
  PROVE  Ownership'
<1>1. PICK tree \in Trees : free' = [free EXCEPT ![tree] = @ \union RunOf(blk[t])]
  BY DEF PutsIn
<1>2. blk' = [blk EXCEPT ![t] = NoBlock] /\ UNCHANGED <<regions, fresh>>
  BY DEF PutsIn
<1>3. \A u \in Threads : RunOf(blk'[u]) = IF u = t THEN {} ELSE RunOf(blk[u])
  BY <1>2, NoBlockEmpty DEF TypeOK
<1>4. /\ FreeUnits' = FreeUnits \union RunOf(blk[t])
      /\ free'["dirty"] \cap free'["released"] = {}
  BY <1>1 DEF FreeUnits, Ownership, NoUnitShared, TypeOK, Trees
<1>5. NoUnitShared'
  BY <1>2, <1>3, <1>4 DEF Ownership, NoUnitShared
<1>6. NoUnitLost'
  BY <1>2, <1>3, <1>4 DEF Ownership, NoUnitLost
<1>7. BelowFresh'
  BY <1>2, <1>3, <1>4 DEF Ownership, BelowFresh
<1> QED
  BY <1>5, <1>6, <1>7 DEF Ownership

\* TakeRegion's result leaves the thread that carried it and becomes a region.
LEMMA HandsOutKeepsOwnership ==
  ASSUME TypeOK, Ownership, NEW t \in Threads, HandsOut(t)
  PROVE  Ownership'
<1>1. /\ regions' = regions \union {blk[t]}
      /\ blk' = [blk EXCEPT ![t] = NoBlock]
      /\ UNCHANGED <<free, fresh>>
  BY DEF HandsOut
<1>2. \A u \in Threads : RunOf(blk'[u]) = IF u = t THEN {} ELSE RunOf(blk[u])
  BY <1>1, NoBlockEmpty DEF TypeOK
<1>3. FreeUnits' = FreeUnits
  BY <1>1 DEF FreeUnits
<1>4. NoUnitShared'
  BY <1>1, <1>2, <1>3 DEF Ownership, NoUnitShared
<1>5. NoUnitLost'
  BY <1>1, <1>2, <1>3 DEF Ownership, NoUnitLost
<1>6. BelowFresh'
  BY <1>1, <1>2, <1>3 DEF Ownership, BelowFresh
<1> QED
  BY <1>4, <1>5, <1>6 DEF Ownership

\* A region that is given up is owned by the thread that gives it up.
LEMMA TakesBackKeepsOwnership ==
  ASSUME TypeOK, Ownership, NEW t \in Threads, TakesBack(t)
  PROVE  Ownership'
<1>1. PICK r \in regions : regions' = regions \ {r} /\ blk' = [blk EXCEPT ![t] = r]
  BY DEF TakesBack
<1>2. RunOf(blk[t]) = {} /\ UNCHANGED <<free, fresh>>
  BY NoBlockEmpty DEF TakesBack
<1>3. \A u \in Threads : RunOf(blk'[u]) = IF u = t THEN RunOf(r) ELSE RunOf(blk[u])
  BY <1>1 DEF TypeOK
<1>4. FreeUnits' = FreeUnits
  BY <1>2 DEF FreeUnits
<1>5. NoUnitShared'
  BY <1>1, <1>2, <1>3, <1>4 DEF Ownership, NoUnitShared
<1>6. NoUnitLost'
  BY <1>1, <1>2, <1>3, <1>4 DEF Ownership, NoUnitLost
<1>7. BelowFresh'
  BY <1>1, <1>2, <1>3, <1>4 DEF Ownership, BelowFresh
<1> QED
  BY <1>5, <1>6, <1>7 DEF Ownership

\* Units never used before become a region.
LEMMA GrowsKeepsOwnership ==
  ASSUME TypeOK, Ownership, Grows
  PROVE  Ownership'
<1>1. PICK n \in 1 .. MaxTake :
        fresh + n <= N /\ fresh' = fresh + n /\ regions' = regions \union {<<fresh, n>>}
  BY DEF Grows
<1>2. UNCHANGED <<free, blk>> /\ FreeUnits' = FreeUnits
  BY DEF Grows, FreeUnits
<1> DEFINE R == RunOf(<<fresh, n>>)
           Old == 0 .. fresh - 1
<1>3. 0 .. fresh' - 1 = Old \union R /\ Old \cap R = {}
  <2>1. 0 .. fresh + n - 1 = Old \union R /\ Old \cap R = {}
    BY <1>1, GrowRange
  <2>2. fresh' - 1 = fresh + n - 1
    BY <1>1, ThreadsAssumption, UnitsAssumption DEF TypeOK
  <2> QED
    BY <2>1, <2>2, Zenon
<1> HIDE DEF R, Old
<1>4. /\ FreeUnits \subseteq Old
      /\ \A r \in regions : RunOf(r) \subseteq Old
      /\ \A t \in Threads : RunOf(blk[t]) \subseteq Old
  BY DEF Ownership, BelowFresh, Old
<1>5. \A r \in regions' : r \in regions \/ RunOf(r) = R
  BY <1>1 DEF R
<1>6. NoUnitShared'
  <2>1. \A r, s \in regions' : r # s => RunOf(r) \cap RunOf(s) = {}
    <3> SUFFICES ASSUME NEW r \in regions', NEW s \in regions', r # s
                 PROVE  RunOf(r) \cap RunOf(s) = {}
      OBVIOUS
    <3>1. CASE r \in regions /\ s \in regions
      BY <3>1 DEF Ownership, NoUnitShared
    <3>2. CASE r \notin regions
      <4>1. r = <<fresh, n>> /\ s \in regions
        BY <1>1, <3>2
      <4> QED
        BY <4>1, <1>3, <1>4 DEF R
    <3>3. CASE s \notin regions
      <4>1. s = <<fresh, n>> /\ r \in regions
        BY <1>1, <3>3
      <4> QED
        BY <4>1, <1>3, <1>4 DEF R
    <3> QED
      BY <3>1, <3>2, <3>3
  <2> QED
    BY <2>1, <1>2, <1>3, <1>4, <1>5 DEF Ownership, NoUnitShared
<1>7. NoUnitLost'
  <2> SUFFICES ASSUME NEW u \in 0 .. fresh' - 1
               PROVE  \/ u \in FreeUnits'
                      \/ \E r \in regions' : u \in RunOf(r)
                      \/ \E t \in Threads : u \in RunOf(blk'[t])
    BY DEF NoUnitLost
  <2>1. CASE u \in Old
    BY <2>1, <1>1, <1>2 DEF Ownership, NoUnitLost, Old
  <2>2. CASE u \in R
    BY <2>2, <1>1 DEF R
  <2> QED
    BY <2>1, <2>2, <1>3
<1>8. BelowFresh'
  BY <1>2, <1>3, <1>4, <1>5 DEF BelowFresh
<1> QED
  BY <1>6, <1>7, <1>8 DEF Ownership

\* Whatever a step moves, the units stay partitioned among their owners.
LEMMA TransferKeepsOwnership ==
  ASSUME TypeOK, Ownership, NEW t \in Threads, Transfer(t)
  PROVE  Ownership'
<1>1. CASE MovesNothing
  BY <1>1 DEF MovesNothing, Ownership, NoUnitShared, NoUnitLost, BelowFresh, FreeUnits
<1> QED
  BY <1>1, TakesOutKeepsOwnership, PutsInKeepsOwnership, HandsOutKeepsOwnership,
     TakesBackKeepsOwnership, GrowsKeepsOwnership DEF Transfer

\* The variables that hold blocks keep their types.
LEMMA TransferKeepsTypes ==
  ASSUME TypeOK, Ownership, NEW t \in Threads, Transfer(t)
  PROVE  /\ free' \in [Trees -> SUBSET Units]
         /\ regions' \subseteq Regions
         /\ fresh' \in 0 .. N
         /\ blk' \in [Threads -> Regions \union {NoBlock}]
<1>1. CASE MovesNothing
  BY <1>1 DEF MovesNothing, TypeOK
<1>2. CASE TakesOut(t)
  BY <1>2 DEF TakesOut, TypeOK
<1>3. CASE PutsIn(t)
  <2>1. RunOf(blk[t]) \subseteq Units
    BY BelowFreshInHeap DEF TypeOK, Ownership, BelowFresh
  <2> QED
    BY <1>3, <2>1 DEF PutsIn, TypeOK
<1>4. CASE HandsOut(t)
  BY <1>4 DEF HandsOut, TypeOK
<1>5. CASE TakesBack(t)
  BY <1>5 DEF TakesBack, TypeOK
<1>6. CASE Grows
  BY <1>6, GrowRange DEF Grows, TypeOK
<1> QED
  BY <1>1, <1>2, <1>3, <1>4, <1>5, <1>6 DEF Transfer

-----------------------------------------------------------------------------
(* Every step is one of the six *)

\* MergeInsert never meets a unit its tree already has, so the block goes in
\* and the mutex is released.
LEMMA InsertSucceeds ==
  ASSUME IInv, NEW t \in Threads, NEW from, NEW to, InsertBlock(t, from, to)
  PROVE  /\ pc[t] = from
         /\ free' = [free EXCEPT ![at[t]] = @ \union RunOf(blk[t])]
         /\ blk' = [blk EXCEPT ![t] = NoBlock]
         /\ Unlock(t)
         /\ Goto(t, to)
         /\ UNCHANGED <<regions, fresh, zero, at, try, want, goal, world>>
<1>1. RunOf(blk[t]) \cap free[at[t]] = {}
  BY DEF IInv, TypeOK, Trees, Ownership, NoUnitShared, FreeUnits
<1> QED
  BY <1>1 DEF InsertBlock

\* The actions of a mutator or the collector, sorted by the block they move.
LEMMA StartTransfers ==
  ASSUME IInv, NEW t \in Threads, Start(t)
  PROVE  Transfer(t)
<1> USE DEF Transfer
<1>1. ASSUME NEW n \in 1 .. MaxTake, TakeRegion(t, n)
      PROVE  Transfer(t)
  BY <1>1 DEF TakeRegion, MovesNothing
<1>2. ASSUME NEW n \in 1 .. MaxTake, GrowHeap(t, n)
      PROVE  Transfer(t)
  BY <1>2 DEF GrowHeap, Grows
<1>3. ASSUME NEW r \in regions, AddGarbageUnits(t, r) \/ AddReleaseUnits(t, r)
      PROVE  Transfer(t)
  <2>1. pc[t] = "idle" /\ blk[t] = NoBlock
    BY <1>3 DEF AddGarbageUnits, AddReleaseUnits, StartAdd, MayStart, MovingPCs,
                IInv, Control, BlkCarried
  <2> QED
    BY <1>3, <2>1 DEF AddGarbageUnits, AddReleaseUnits, StartAdd, TakesBack
<1> QED
  BY <1>1, <1>2, <1>3 DEF Start

\* The steps inside an operation, sorted by the block they move.
LEMMA ContinueTransfers ==
  ASSUME IInv, NEW t \in Threads, Continue(t)
  PROVE  Transfer(t)
<1> USE DEF Transfer
<1>1. CASE TryLock(t) \/ SkipTree(t) \/ CarveNothing(t) \/ Prehandle(t)
           \/ LeavePoll(t) \/ AddLock(t) \/ AddEnd(t)
  BY <1>1 DEF TryLock, SkipTree, CarveNothing, Prehandle, LeavePoll, AddLock, AddEnd,
              Lock, MovesNothing
<1>2. CASE CarveRegion(t)
  <2>1. blk[t] = NoBlock /\ want[t] \in 1 .. N /\ at[t] \in Trees
    BY <1>2 DEF CarveRegion, MovingPCs, IInv, Control, BlkCarried, WantInRange, TypeOK
  <2>2. PICK b \in BestFit(free[at[t]], want[t]) :
          /\ free' = [free EXCEPT ![at[t]] = @ \ RunOf(<<b, want[t]>>)]
          /\ blk' = [blk EXCEPT ![t] = <<b, want[t]>>]
    BY <1>2 DEF CarveRegion
  <2>3. <<b, want[t]>> \in Regions /\ RunOf(<<b, want[t]>>) \subseteq free[at[t]]
    BY <2>1, BestFitInside
  <2>4. UNCHANGED <<regions, fresh>>
    BY <1>2 DEF CarveRegion
  <2> QED
    BY <2>1, <2>2, <2>3, <2>4 DEF TakesOut
<1>3. CASE ReturnRegion(t)
  <2>1. blk[t] \in Regions
    BY <1>3 DEF ReturnRegion, MovingPCs, IInv, Control, BlkCarried
  <2> QED
    BY <1>3, <2>1 DEF ReturnRegion, HandsOut
<1>4. CASE Add(t)
  BY <1>4, InsertSucceeds DEF Add, PutsIn, IInv, TypeOK
<1> QED
  BY <1>1, <1>2, <1>3, <1>4 DEF Continue

\* The collector's steps, sorted by the block they move.
LEMMA ReleaseTransfers ==
  ASSUME IInv, ContinueRelease
  PROVE  Transfer(Collector)
<1> USE DEF Transfer
<1>1. CASE RootLock \/ NoRoot \/ MoveLock \/ CheckGarbage
  BY <1>1 DEF RootLock, NoRoot, MoveLock, CheckGarbage, Lock, MovesNothing
<1>2. CASE ReleaseRoot
  <2>1. blk[Collector] = NoBlock
    BY <1>2 DEF ReleaseRoot, MovingPCs, IInv, Control, BlkCarried, Threads
  <2>2. PICK r \in Blocks(free["dirty"]) :
          /\ free' = [free EXCEPT !["dirty"] = @ \ RunOf(r)]
          /\ blk' = [blk EXCEPT ![Collector] = r]
    BY <1>2 DEF ReleaseRoot
  <2>3. r \in Regions /\ RunOf(r) \subseteq free["dirty"]
    BY BlocksInside
  <2> QED
    BY <1>2, <2>1, <2>2, <2>3 DEF ReleaseRoot, TakesOut, Trees
<1>3. CASE Move
  <2>1. Collector \in Threads
    BY DEF Threads
  <2> QED
    BY <1>3, <2>1, InsertSucceeds DEF Move, PutsIn, IInv, TypeOK
<1> QED
  BY <1>1, <1>2, <1>3 DEF ContinueRelease

\* So every step moves at most one block from one owner to another.
LEMMA StepTransfers ==
  ASSUME IInv, Next
  PROVE  \E t \in Threads : Transfer(t)
<1>1. CASE \E t \in Threads : Start(t) \/ Continue(t)
  BY <1>1, StartTransfers, ContinueTransfers
<1>2. CASE \E cached \in 0 .. N : ReleaseGarbageRegions(cached)
  BY <1>2 DEF ReleaseGarbageRegions, MovesNothing, Transfer, Threads
<1>3. CASE ContinueRelease
  BY <1>3, ReleaseTransfers DEF Threads
<1>4. CASE StopTheWorld \/ WorldStopped \/ StartTheWorld
  BY <1>4 DEF StopTheWorld, WorldStopped, StartTheWorld, MovesNothing, Transfer, Threads
<1> QED
  BY <1>1, <1>2, <1>3, <1>4 DEF Next

-----------------------------------------------------------------------------
(* Control *)

\* The control state: everything but the trees, the regions and the memory.
ControlTyped ==
  /\ mutex \in [Trees -> Threads \union {NoThread}]
  /\ pc \in [Threads -> {"idle", "fatal"} \union TakePCs \union AddPCs \union ReleasePCs]
  /\ at \in [Threads -> Trees]
  /\ try \in [Threads -> SUBSET Trees]
  /\ want \in [Threads -> 0 .. N]
  /\ goal \in 0 .. N
  /\ world \in {"running", "stopping", "stopped"}

\* TakeRegion and its loop: the mutex is held from TryLock to the end of the
\* search, and a block is carried from there to the return.
LEMMA TakeKeepsControl ==
  ASSUME IInv, NEW t \in Threads, Transfer(t),
         \/ \E n \in 1 .. MaxTake : TakeRegion(t, n)
         \/ TryLock(t) \/ SkipTree(t) \/ CarveRegion(t) \/ CarveNothing(t)
         \/ Prehandle(t) \/ ReturnRegion(t) \/ LeavePoll(t)
  PROVE  ControlTyped' /\ Control'
<1> USE UnitsAssumption, ThreadsAssumption
    DEF IInv, TypeOK, ControlTyped, Control, MutexHeld, StoppedMutators,
        WantInRange, BlkCarried, NeverFatal, InSaferegion, HoldPCs, MovingPCs,
        TakePCs, AddPCs, ReleasePCs, Trees, Threads, Goto, Unlock
<1>1. ASSUME NEW n \in 1 .. MaxTake, TakeRegion(t, n)
      PROVE  ControlTyped' /\ Control'
  BY <1>1 DEF TakeRegion, MayStart
<1>2. CASE TryLock(t)
  BY <1>2 DEF TryLock, Lock
<1>3. CASE SkipTree(t)
  BY <1>3 DEF SkipTree, NextTree
<1>4. CASE CarveNothing(t)
  BY <1>4 DEF CarveNothing, NextTree
<1>5. CASE CarveRegion(t)
  <2>1. want[t] \in 1 .. N
    BY <1>5 DEF CarveRegion
  <2>2. PICK r \in Regions : blk' = [blk EXCEPT ![t] = r]
    BY <1>5, <2>1, BestFitInside DEF CarveRegion
  <2>3. /\ pc[t] = "carve"
        /\ Unlock(t)
        /\ Goto(t, IF at[t] = "dirty" THEN "taken" ELSE "prehandle")
        /\ UNCHANGED <<at, try, want, goal, world>>
    BY <1>5 DEF CarveRegion
  <2> QED
    BY <2>2, <2>3
<1>6. CASE Prehandle(t)
  BY <1>6 DEF Prehandle
<1>7. CASE ReturnRegion(t)
  BY <1>7 DEF ReturnRegion
<1>8. CASE LeavePoll(t)
  BY <1>8 DEF LeavePoll
<1> QED
  BY <1>1, <1>2, <1>3, <1>4, <1>5, <1>6, <1>7, <1>8

\* AddGarbageUnits and AddReleaseUnits: the block is carried into the tree's
\* critical section, and the safe region ends after the mutex is released.
LEMMA AddKeepsControl ==
  ASSUME IInv, NEW t \in Threads, Transfer(t),
         \/ \E n \in 1 .. MaxTake : GrowHeap(t, n)
         \/ \E r \in regions : AddGarbageUnits(t, r) \/ AddReleaseUnits(t, r)
         \/ AddLock(t) \/ Add(t) \/ AddEnd(t)
  PROVE  ControlTyped' /\ Control'
<1> USE UnitsAssumption, ThreadsAssumption
    DEF IInv, TypeOK, ControlTyped, Control, MutexHeld, StoppedMutators,
        WantInRange, BlkCarried, NeverFatal, InSaferegion, HoldPCs, MovingPCs,
        TakePCs, AddPCs, ReleasePCs, Trees, Threads, Goto, Unlock
<1>1. ASSUME NEW n \in 1 .. MaxTake, GrowHeap(t, n)
      PROVE  ControlTyped' /\ Control'
  BY <1>1 DEF GrowHeap, MayStart
<1>2. ASSUME NEW r \in regions, AddGarbageUnits(t, r) \/ AddReleaseUnits(t, r)
      PROVE  ControlTyped' /\ Control'
  BY <1>2 DEF AddGarbageUnits, AddReleaseUnits, StartAdd, MayStart
<1>3. CASE AddLock(t)
  BY <1>3 DEF AddLock, Lock
<1>4. CASE Add(t)
  <2>1. /\ pc[t] = "add"
        /\ blk' = [blk EXCEPT ![t] = NoBlock]
        /\ Unlock(t)
        /\ Goto(t, "addEnd")
        /\ UNCHANGED <<at, try, want, goal, world>>
    BY <1>4, InsertSucceeds DEF Add
  <2> QED
    BY <2>1
<1>5. CASE AddEnd(t)
  BY <1>5 DEF AddEnd
<1> QED
  BY <1>1, <1>2, <1>3, <1>4, <1>5

\* ReleaseGarbageRegions: the block is carried from one critical section to
\* the next, and mutators stay where they are.
LEMMA ReleaseKeepsControl ==
  ASSUME IInv,
         (\E cached \in 0 .. N : ReleaseGarbageRegions(cached)) \/ ContinueRelease
  PROVE  ControlTyped' /\ Control'
<1> USE UnitsAssumption, ThreadsAssumption
    DEF IInv, TypeOK, ControlTyped, Control, MutexHeld, StoppedMutators,
        WantInRange, BlkCarried, NeverFatal, InSaferegion, HoldPCs, MovingPCs,
        TakePCs, AddPCs, ReleasePCs, Trees, Threads, Goto, Unlock
<1>1. ASSUME NEW cached \in 0 .. N, ReleaseGarbageRegions(cached)
      PROVE  ControlTyped' /\ Control'
  BY <1>1 DEF ReleaseGarbageRegions, MayStart
<1>2. CASE RootLock
  BY <1>2 DEF RootLock, Lock
<1>3. CASE ReleaseRoot
  <2>1. PICK r \in Regions : blk' = [blk EXCEPT ![Collector] = r]
    BY <1>3, BlocksInside DEF ReleaseRoot
  <2>2. /\ pc[Collector] = "root"
        /\ Unlock(Collector)
        /\ at' = [at EXCEPT ![Collector] = "released"]
        /\ Goto(Collector, "moveLock")
        /\ UNCHANGED <<try, want, goal, world>>
    BY <1>3 DEF ReleaseRoot
  <2> QED
    BY <2>1, <2>2
<1>4. CASE NoRoot
  BY <1>4 DEF NoRoot
<1>5. CASE MoveLock
  BY <1>5 DEF MoveLock, Lock
<1>6. CASE Move
  <2>1. /\ pc[Collector] = "move"
        /\ blk' = [blk EXCEPT ![Collector] = NoBlock]
        /\ Unlock(Collector)
        /\ Goto(Collector, "check")
        /\ UNCHANGED <<at, try, want, goal, world>>
    BY <1>6, InsertSucceeds DEF Move
  <2> QED
    BY <2>1
<1>7. CASE CheckGarbage
  BY <1>7 DEF CheckGarbage
<1> QED
  BY <1>1, <1>2, <1>3, <1>4, <1>5, <1>6, <1>7 DEF ContinueRelease

\* Stopping and starting the world moves no thread; a stop waits for mutators
\* to be idle or in a safe region.
LEMMA WorldKeepsControl ==
  ASSUME IInv, StopTheWorld \/ WorldStopped \/ StartTheWorld
  PROVE  ControlTyped' /\ Control'
<1> USE DEF IInv, TypeOK, ControlTyped, Control, MutexHeld, StoppedMutators,
            WantInRange, BlkCarried, NeverFatal, InSaferegion
<1>1. CASE StopTheWorld
  BY <1>1 DEF StopTheWorld
<1>2. CASE WorldStopped
  BY <1>2 DEF WorldStopped
<1>3. CASE StartTheWorld
  BY <1>3 DEF StartTheWorld
<1> QED
  BY <1>1, <1>2, <1>3

\* Every step keeps the control state consistent.
LEMMA StepKeepsControl ==
  ASSUME IInv, Next
  PROVE  ControlTyped' /\ Control'
<1>1. CASE \E t \in Threads : Start(t) \/ Continue(t)
  BY <1>1, StartTransfers, ContinueTransfers, TakeKeepsControl, AddKeepsControl
     DEF Start, Continue
<1> QED
  BY <1>1, ReleaseKeepsControl, WorldKeepsControl DEF Next

-----------------------------------------------------------------------------
(* Memory that reads as zero *)

\* A step that moves no block and changes no memory keeps Zeroed if no thread
\* comes to carry a block it has to have zeroed.
LEMMA IdleKeepsZeroed ==
  ASSUME IInv, NEW t \in Threads, MovesNothing, UNCHANGED zero,
         \A u \in Threads : u # t => pc'[u] = pc[u] /\ at'[u] = at[u],
         pc'[t] \notin {"prehandle", "taken"},
         pc'[t] \in MovingPCs => pc[t] \in MovingPCs /\ at'[t] = at[t]
  PROVE  Zeroed'
BY DEF IInv, Zeroed, LiveMemoryKept, MovesNothing

\* TakeRegion clears dirty units before it gives up the mutex and takes others
\* only from the tree whose units are zero; what it clears is its own block.
LEMMA TakeKeepsZeroed ==
  ASSUME IInv, NEW t \in Threads,
         \/ \E n \in 1 .. MaxTake : TakeRegion(t, n)
         \/ TryLock(t) \/ SkipTree(t) \/ CarveRegion(t) \/ CarveNothing(t)
         \/ Prehandle(t) \/ ReturnRegion(t) \/ LeavePoll(t)
  PROVE  Zeroed'
<1> USE DEF IInv, MovingPCs, Goto
<1>1. ASSUME NEW n \in 1 .. MaxTake, TakeRegion(t, n)
      PROVE  Zeroed'
  BY <1>1, IdleKeepsZeroed DEF TakeRegion, TypeOK, MovesNothing
<1>2. CASE TryLock(t)
  BY <1>2, IdleKeepsZeroed DEF TryLock, Lock, TypeOK, MovesNothing
<1>3. CASE SkipTree(t)
  BY <1>3, IdleKeepsZeroed DEF SkipTree, NextTree, TypeOK, MovesNothing
<1>4. CASE CarveNothing(t)
  BY <1>4, IdleKeepsZeroed DEF CarveNothing, NextTree, TypeOK, MovesNothing
<1>5. CASE CarveRegion(t)
  <2>1. want[t] \in 1 .. N /\ at[t] \in Trees /\ blk[t] = NoBlock
    BY <1>5 DEF CarveRegion, Control, WantInRange, BlkCarried, TypeOK
  <2>2. PICK r \in Regions :
          /\ RunOf(r) \subseteq free[at[t]]
          /\ free' = [free EXCEPT ![at[t]] = @ \ RunOf(r)]
          /\ blk' = [blk EXCEPT ![t] = r]
          /\ zero' = IF at[t] = "dirty" THEN zero \union RunOf(r) ELSE zero
    BY <1>5, <2>1, BestFitInside DEF CarveRegion
  <2>3. UNCHANGED <<regions, at>>
        /\ Goto(t, IF at[t] = "dirty" THEN "taken" ELSE "prehandle")
    BY <1>5 DEF CarveRegion
  <2>4. RunOf(r) \subseteq FreeUnits
    BY <2>1, <2>2 DEF FreeUnits, Trees
  <2>5. RunOf(r) \subseteq zero'
    BY <2>1, <2>2 DEF Zeroed, Trees
  <2>6. free'["released"] \subseteq zero'
    BY <2>1, <2>2 DEF Zeroed, Trees, TypeOK
  <2>7. LiveMemoryKept'
    BY <2>2, <2>3, <2>4 DEF Zeroed, LiveMemoryKept, Ownership, NoUnitShared
  <2>8. \A u \in Threads :
           \/ pc'[u] \in {"prehandle", "taken"}
           \/ pc'[u] \in MovingPCs /\ at'[u] = "released"
           => RunOf(blk'[u]) \subseteq zero'
    <3> SUFFICES ASSUME NEW u \in Threads,
                        \/ pc'[u] \in {"prehandle", "taken"}
                        \/ pc'[u] \in MovingPCs /\ at'[u] = "released"
                 PROVE  RunOf(blk'[u]) \subseteq zero'
      OBVIOUS
    <3>1. CASE u = t
      BY <3>1, <2>2, <2>5 DEF TypeOK
    <3>2. CASE u # t
      BY <3>2, <2>2, <2>3 DEF Zeroed, TypeOK
    <3> QED
      BY <3>1, <3>2
  <2> QED
    BY <2>6, <2>7, <2>8 DEF Zeroed
<1>6. CASE Prehandle(t)
  <2>1. /\ UNCHANGED <<free, regions, at, blk>>
        /\ pc[t] = "prehandle"
        /\ pc' = [pc EXCEPT ![t] = "taken"]
        /\ zero' = zero \union RunOf(blk[t]) \/ zero' = zero
    BY <1>6 DEF Prehandle
  <2>2. LiveMemoryKept'
    BY <2>1 DEF Zeroed, LiveMemoryKept, Ownership, NoUnitShared
  <2> QED
    BY <2>1, <2>2 DEF Zeroed, TypeOK
<1>7. CASE ReturnRegion(t)
  <2>1. /\ regions' = regions \union {blk[t]}
        /\ zero' = zero \ RunOf(blk[t])
        /\ blk' = [blk EXCEPT ![t] = NoBlock]
        /\ at' = [at EXCEPT ![t] = "dirty"]
        /\ pc' = [pc EXCEPT ![t] = "idle"]
        /\ UNCHANGED free
    BY <1>7 DEF ReturnRegion
  <2>2. LiveMemoryKept'
    BY <2>1 DEF Zeroed, LiveMemoryKept
  <2>3. free'["released"] \subseteq zero'
    BY <2>1 DEF Zeroed, Ownership, NoUnitShared, FreeUnits
  <2>4. \A u \in Threads \ {t} : RunOf(blk[u]) \cap RunOf(blk[t]) = {}
    BY DEF Ownership, NoUnitShared
  <2> QED
    BY <2>1, <2>2, <2>3, <2>4 DEF Zeroed, TypeOK
<1>8. CASE LeavePoll(t)
  BY <1>8, IdleKeepsZeroed DEF LeavePoll, TypeOK, MovesNothing
<1> QED
  BY <1>1, <1>2, <1>3, <1>4, <1>5, <1>6, <1>7, <1>8

\* Only memory given back to the system goes to the released tree, and new
\* regions are above everything that has to read as zero.
LEMMA AddKeepsZeroed ==
  ASSUME IInv, NEW t \in Threads,
         \/ \E n \in 1 .. MaxTake : GrowHeap(t, n)
         \/ \E r \in regions : AddGarbageUnits(t, r) \/ AddReleaseUnits(t, r)
         \/ AddLock(t) \/ Add(t) \/ AddEnd(t)
  PROVE  Zeroed'
<1> USE DEF IInv, MovingPCs, Goto
<1>1. ASSUME NEW n \in 1 .. MaxTake, GrowHeap(t, n)
      PROVE  Zeroed'
  <2> DEFINE R == RunOf(<<fresh, n>>)
  <2>1. /\ regions' = regions \union {<<fresh, n>>}
        /\ zero' = zero \ R
        /\ UNCHANGED <<free, pc, at, blk>>
    BY <1>1, GrowRange DEF GrowHeap
  <2>2. (0 .. fresh - 1) \cap R = {}
    BY <1>1, GrowRange DEF GrowHeap
  <2>3. \A r \in regions' : r \in regions \/ RunOf(r) = R
    BY <2>1
  <2> HIDE DEF R
  <2>4. free["released"] \cap R = {} /\ \A u \in Threads : RunOf(blk[u]) \cap R = {}
    BY <2>2 DEF Ownership, BelowFresh, FreeUnits
  <2> QED
    BY <2>1, <2>3, <2>4 DEF Zeroed, LiveMemoryKept
<1>2. ASSUME NEW r \in regions, AddGarbageUnits(t, r)
      PROVE  Zeroed'
  BY <1>2 DEF AddGarbageUnits, StartAdd, Zeroed, LiveMemoryKept, TypeOK
<1>3. ASSUME NEW r \in regions, AddReleaseUnits(t, r)
      PROVE  Zeroed'
  <2>1. /\ regions' = regions \ {r}
        /\ zero' = zero \union RunOf(r)
        /\ blk' = [blk EXCEPT ![t] = r]
        /\ at' = [at EXCEPT ![t] = "released"]
        /\ pc' = [pc EXCEPT ![t] = "addLock"]
        /\ UNCHANGED free
    BY <1>3 DEF AddReleaseUnits, StartAdd
  <2>2. LiveMemoryKept'
    BY <2>1 DEF Zeroed, LiveMemoryKept, Ownership, NoUnitShared
  <2> QED
    BY <2>1, <2>2 DEF Zeroed, TypeOK
<1>4. CASE AddLock(t)
  BY <1>4, IdleKeepsZeroed DEF AddLock, Lock, TypeOK, MovesNothing
<1>5. CASE Add(t)
  <2>1. /\ pc[t] = "add"
        /\ free' = [free EXCEPT ![at[t]] = @ \union RunOf(blk[t])]
        /\ blk' = [blk EXCEPT ![t] = NoBlock]
        /\ pc' = [pc EXCEPT ![t] = "addEnd"]
        /\ UNCHANGED <<regions, zero, at>>
    BY <1>5, InsertSucceeds DEF Add
  <2> QED
    BY <2>1 DEF Zeroed, LiveMemoryKept, TypeOK
<1>6. CASE AddEnd(t)
  BY <1>6, IdleKeepsZeroed DEF AddEnd, TypeOK, MovesNothing
<1> QED
  BY <1>1, <1>2, <1>3, <1>4, <1>5, <1>6

\* ReleaseGarbageRegions gives the memory of a block back before the block can
\* reach the released tree.
LEMMA ReleaseKeepsZeroed ==
  ASSUME IInv,
         (\E cached \in 0 .. N : ReleaseGarbageRegions(cached)) \/ ContinueRelease
  PROVE  Zeroed'
<1> USE DEF IInv, MovingPCs, Goto
<1>1. Collector \in Threads
  BY DEF Threads
<1>2. ASSUME NEW cached \in 0 .. N, ReleaseGarbageRegions(cached)
      PROVE  Zeroed'
  BY <1>1, <1>2, IdleKeepsZeroed DEF ReleaseGarbageRegions, TypeOK, MovesNothing
<1>3. CASE RootLock
  BY <1>1, <1>3, IdleKeepsZeroed DEF RootLock, Lock, TypeOK, MovesNothing
<1>4. CASE ReleaseRoot
  <2>1. PICK r \in Blocks(free["dirty"]) :
          /\ free' = [free EXCEPT !["dirty"] = @ \ RunOf(r)]
          /\ zero' = zero \union RunOf(r)
          /\ blk' = [blk EXCEPT ![Collector] = r]
    BY <1>4 DEF ReleaseRoot
  <2>2. /\ pc' = [pc EXCEPT ![Collector] = "moveLock"]
        /\ at' = [at EXCEPT ![Collector] = "released"]
        /\ UNCHANGED regions
    BY <1>4 DEF ReleaseRoot
  <2>3. RunOf(r) \subseteq FreeUnits
    BY BlocksInside DEF FreeUnits
  <2>4. LiveMemoryKept'
    BY <2>1, <2>2, <2>3 DEF Zeroed, LiveMemoryKept, Ownership, NoUnitShared
  <2> QED
    BY <1>1, <2>1, <2>2, <2>4 DEF Zeroed, TypeOK, Trees
<1>5. CASE NoRoot
  BY <1>1, <1>5, IdleKeepsZeroed DEF NoRoot, TypeOK, MovesNothing
<1>6. CASE MoveLock
  BY <1>1, <1>6, IdleKeepsZeroed DEF MoveLock, Lock, TypeOK, MovesNothing
<1>7. CASE Move
  <2>1. /\ pc[Collector] = "move"
        /\ free' = [free EXCEPT ![at[Collector]] = @ \union RunOf(blk[Collector])]
        /\ blk' = [blk EXCEPT ![Collector] = NoBlock]
        /\ pc' = [pc EXCEPT ![Collector] = "check"]
        /\ UNCHANGED <<regions, zero, at>>
    BY <1>1, <1>7, InsertSucceeds DEF Move
  <2> QED
    BY <1>1, <2>1 DEF Zeroed, LiveMemoryKept, TypeOK
<1>8. CASE CheckGarbage
  BY <1>1, <1>8, IdleKeepsZeroed DEF CheckGarbage, TypeOK, MovesNothing
<1> QED
  BY <1>2, <1>3, <1>4, <1>5, <1>6, <1>7, <1>8 DEF ContinueRelease

\* Every step keeps track of the memory that reads as zero.
LEMMA StepKeepsZeroed ==
  ASSUME IInv, Next
  PROVE  Zeroed'
<1>1. ASSUME NEW t \in Threads, Start(t) \/ Continue(t)
      PROVE  Zeroed'
  <2>1. CASE Start(t)
    BY <2>1, TakeKeepsZeroed, AddKeepsZeroed DEF Start
  <2>2. CASE Continue(t)
    BY <2>2, TakeKeepsZeroed, AddKeepsZeroed DEF Continue
  <2> QED
    BY <1>1, <2>1, <2>2
<1>2. CASE StopTheWorld \/ WorldStopped \/ StartTheWorld
  BY <1>2 DEF StopTheWorld, WorldStopped, StartTheWorld, IInv, Zeroed, LiveMemoryKept
<1> QED
  BY <1>1, <1>2, ReleaseKeepsZeroed DEF Next

\* Only units of the heap are cleared or given back to the system.
LEMMA StepKeepsMemoryTyped ==
  ASSUME IInv, Next
  PROVE  zero' \subseteq Units
<1>1. CASE \E t \in Threads : CarveRegion(t)
  <2>1. PICK t \in Threads : CarveRegion(t)
    BY <1>1
  <2>2. want[t] \in 1 .. N /\ at[t] \in Trees
    BY <2>1 DEF CarveRegion, IInv, Control, WantInRange, TypeOK
  <2>3. PICK r : RunOf(r) \subseteq free[at[t]]
                 /\ zero' \subseteq zero \union RunOf(r)
    BY <2>1, <2>2, BestFitInside DEF CarveRegion
  <2> QED
    BY <2>2, <2>3 DEF IInv, TypeOK
<1>2. CASE ReleaseRoot
  BY <1>2, BlocksInside DEF ReleaseRoot, IInv, TypeOK, Trees
<1>3. CASE \E t \in Threads : Prehandle(t)
  BY <1>3, BelowFreshInHeap DEF Prehandle, IInv, TypeOK, Ownership, BelowFresh
<1>4. CASE \E t \in Threads, r \in regions : AddReleaseUnits(t, r)
  BY <1>4, BelowFreshInHeap DEF AddReleaseUnits, IInv, TypeOK, Ownership, BelowFresh
<1>5. CASE zero' \subseteq zero
  BY <1>5 DEF IInv, TypeOK
<1>6. ASSUME NEW t \in Threads, Start(t) \/ Continue(t)
      PROVE  zero' \subseteq Units
  <2>1. CASE Start(t)
    <3>1. CASE \E n \in 1 .. MaxTake : TakeRegion(t, n) \/ GrowHeap(t, n)
      BY <3>1, <1>5 DEF TakeRegion, GrowHeap
    <3>2. CASE \E r \in regions : AddGarbageUnits(t, r)
      BY <3>2, <1>5 DEF AddGarbageUnits
    <3> QED
      BY <2>1, <3>1, <3>2, <1>4 DEF Start
  <2>2. CASE Continue(t)
    <3>1. CASE CarveRegion(t) \/ Prehandle(t)
      BY <3>1, <1>1, <1>3
    <3>2. CASE Add(t)
      BY <3>2, <1>5, InsertSucceeds DEF Add
    <3> QED
      BY <2>2, <3>1, <3>2, <1>5
         DEF Continue, TryLock, SkipTree, CarveNothing, ReturnRegion, LeavePoll,
             AddLock, AddEnd, Lock
  <2> QED
    BY <1>6, <2>1, <2>2
<1>7. CASE ContinueRelease
  BY <1>7, <1>2, <1>5
     DEF ContinueRelease, RootLock, NoRoot, MoveLock, Move, CheckGarbage, Lock,
         InsertBlock
<1>8. CASE \E cached \in 0 .. N : ReleaseGarbageRegions(cached)
  BY <1>8, <1>5 DEF ReleaseGarbageRegions
<1>9. CASE StopTheWorld \/ WorldStopped \/ StartTheWorld
  BY <1>9, <1>5 DEF StopTheWorld, WorldStopped, StartTheWorld
<1> QED
  BY <1>6, <1>7, <1>8, <1>9 DEF Next

-----------------------------------------------------------------------------
(* The invariant *)

\* Nothing is owned, held or carried at the start.
LEMMA InitInvariant == Init => IInv
<1> SUFFICES ASSUME Init PROVE IInv
  OBVIOUS
<1>1. TypeOK
  BY UnitsAssumption DEF Init, TypeOK, Trees
<1>2. Control
  BY ThreadsAssumption
     DEF Init, Control, MutexHeld, StoppedMutators, WantInRange, BlkCarried,
         NeverFatal, HoldPCs, MovingPCs
<1>3. /\ free["dirty"] = {} /\ free["released"] = {}
      /\ regions = {}
      /\ fresh = 0
      /\ \A t \in Threads : RunOf(blk[t]) = {}
  BY NoBlockEmpty DEF Init, Trees
<1>4. FreeUnits = {} /\ 0 .. fresh - 1 = {}
  BY <1>3 DEF FreeUnits
<1>5. Ownership
  BY <1>3, <1>4 DEF Ownership, NoUnitShared, NoUnitLost, BelowFresh
<1>6. Zeroed
  BY <1>3 DEF Zeroed, LiveMemoryKept
<1> QED
  BY <1>1, <1>2, <1>5, <1>6 DEF IInv

\* The strengthened invariant holds in every reachable state.
LEMMA Invariant == Spec => []IInv
<1>1. IInv /\ [Next]_vars => IInv'
  <2> SUFFICES ASSUME IInv, [Next]_vars PROVE IInv'
    OBVIOUS
  <2>1. CASE Next
    <3>1. PICK t \in Threads : Transfer(t)
      BY <2>1, StepTransfers
    <3>2. Ownership'
      BY <3>1, TransferKeepsOwnership DEF IInv
    <3>3. ControlTyped' /\ Control'
      BY <2>1, StepKeepsControl
    <3>4. zero' \subseteq Units /\ Zeroed'
      BY <2>1, StepKeepsZeroed, StepKeepsMemoryTyped
    <3>5. TypeOK'
      BY <3>1, <3>3, <3>4, TransferKeepsTypes DEF IInv, TypeOK, ControlTyped
    <3> QED
      BY <3>2, <3>3, <3>4, <3>5 DEF IInv
  <2>2. CASE UNCHANGED vars
    BY <2>2 DEF vars, IInv, TypeOK, Control, MutexHeld, StoppedMutators, WantInRange,
                BlkCarried, NeverFatal, InSaferegion, Ownership, NoUnitShared,
                NoUnitLost, BelowFresh, FreeUnits, Zeroed, LiveMemoryKept
  <2> QED
    BY <2>1, <2>2
<1> QED
  BY <1>1, InitInvariant, PTL DEF Spec

-----------------------------------------------------------------------------
(* The results *)

\* Every variable of the region manager keeps its type, for any heap size and
\* number of mutators.
THEOREM TypeCorrect == Spec => []TypeOK
<1>1. IInv => TypeOK
  BY DEF IInv
<1> QED
  BY <1>1, Invariant, PTL

\* A unit never has two owners, whatever TakeRegion, AddGarbageUnits,
\* AddReleaseUnits and ReleaseGarbageRegions do at the same time.
THEOREM UnitsNotShared == Spec => []NoUnitShared
<1>1. IInv => NoUnitShared
  BY DEF IInv, Ownership
<1> QED
  BY <1>1, Invariant, PTL

\* No unit is lost between the trees, though ReleaseGarbageRegions holds no
\* mutex while it carries a block from one to the other.
THEOREM UnitsNotLost == Spec => []NoUnitLost
<1>1. IInv => NoUnitLost
  BY DEF IInv, Ownership
<1> QED
  BY <1>1, Invariant, PTL

\* MergeInsert never fails, so the fatal branches are not reached.
THEOREM InsertNeverFails == Spec => []NeverFatal
<1>1. IInv => NeverFatal
  BY DEF IInv, Control
<1> QED
  BY <1>1, Invariant, PTL

\* TakeRegion returns memory that reads as zero, from either tree.
THEOREM TakenIsZero == Spec => []TakenMemoryIsZero
<1>1. IInv => TakenMemoryIsZero
  BY DEF IInv, Zeroed, TakenMemoryIsZero
<1> QED
  BY <1>1, Invariant, PTL

\* Neither clearing nor releasing touches a live region.
THEOREM LiveIsKept == Spec => []LiveMemoryKept
<1>1. IInv => LiveMemoryKept
  BY DEF IInv, Zeroed
<1> QED
  BY <1>1, Invariant, PTL

\* A stopped world holds no tree mutex that only a resumed mutator could
\* release.
THEOREM StoppedHoldsNoMutex == Spec => []StoppedWorldHoldsNoMutex
<1>1. IInv => StoppedWorldHoldsNoMutex
  <2> SUFFICES ASSUME IInv, world = "stopped", NEW tree \in Trees,
                      mutex[tree] \in Mutators
               PROVE  pc[mutex[tree]] = "add"
    BY DEF StoppedWorldHoldsNoMutex
  <2>1. pc[mutex[tree]] \in HoldPCs
    BY DEF IInv, Control, MutexHeld, Threads
  <2>2. pc[mutex[tree]] = "idle" \/ InSaferegion(mutex[tree])
    BY DEF IInv, Control, StoppedMutators
  <2> QED
    BY <2>1, <2>2 DEF HoldPCs, InSaferegion, AddPCs
<1> QED
  BY <1>1, Invariant, PTL

=============================================================================
