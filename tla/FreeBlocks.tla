----------------------------- MODULE FreeBlocks -----------------------------
(***************************************************************************)
(* What a free-unit tree of the heap promises its callers, without the     *)
(* tree.  The heap is an array of N units.  A unit is free (the tree       *)
(* indexes it), part of an allocated region, part of a block detached from *)
(* the tree, or not used yet (the heap grows from unit 0 upwards).         *)
(*                                                                         *)
(* The tree only ever shows maximal runs of free units, so its blocks are  *)
(* a function of the set of free units (UnitRuns) and are no state here.   *)
(***************************************************************************)
EXTENDS UnitRuns

VARIABLES
  free,       \* units the tree indexes
  regions,    \* allocated regions, <<first unit, length>>
  detached,   \* free blocks taken out of the tree as they are (ReleaseRootNode)
  fresh       \* first unit the heap has never handed out

vars == <<free, regions, detached, fresh>>

UnitsOf(blks) == UNION {Run(blk[1], blk[2]) : blk \in blks}

TypeOK ==
  /\ free \subseteq Units
  /\ regions \subseteq Units \X (1 .. N)
  /\ detached \subseteq Units \X (1 .. N)
  /\ fresh \in 0 .. N

Init ==
  /\ free = {}
  /\ regions = {}
  /\ detached = {}
  /\ fresh = 0

Grow(n) ==
  /\ fresh + n <= N
  /\ fresh' = fresh + n
  /\ regions' = regions \union {<<fresh, n>>}
  /\ UNCHANGED <<free, detached>>

Take(b, n) ==
  /\ regions' = regions \union {<<b, n>>}
  /\ UNCHANGED <<detached, fresh>>
  /\ free' = free \ Run(b, n)

TakeLowAddr(n) == \E b \in Units : Take(b, n) /\ b \in BestFit(free, n)

TakeAny(n) == \E b \in Units : Take(b, n) /\ b \in AnyFit(free, n)

Give(blk) ==
  /\ blk \in regions \union detached
  /\ free' = free \union Run(blk[1], blk[2])
  /\ regions' = regions \ {blk}
  /\ detached' = detached \ {blk}
  /\ UNCHANGED fresh

\* The tree gives up one of its largest blocks whole.
Detach(blk) ==
  /\ detached' = detached \union {blk}
  /\ UNCHANGED <<regions, fresh>>
  /\ blk \in Blocks(free)
  /\ \A other \in Blocks(free) : other[2] <= blk[2]
  /\ free' = free \ Run(blk[1], blk[2])

Next ==
  \/ \E n \in 1 .. N : Grow(n) \/ TakeLowAddr(n) \/ TakeAny(n)
  \/ \E blk \in Units \X (1 .. N) : Give(blk) \/ Detach(blk)

Spec == Init /\ [][Next]_vars

=============================================================================
