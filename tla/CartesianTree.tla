---------------------------- MODULE CartesianTree ----------------------------
(***************************************************************************)
(* The free-unit tree of rt.heap.allocator/CartesianTree.cj, with the unit *)
(* metadata of RegionInfo.cj that its operations write.                    *)
(*                                                                         *)
(* A node is a free block.  The tree is a search tree on the first unit of *)
(* the block and a max-heap on its length.  A node is a value here, not an *)
(* address: an operation that the code writes as a walk over Node** slots  *)
(* is a recursive function from the old subtree of a slot to the new one.  *)
(*                                                                         *)
(* The second half is the state machine: the tree, the total it caches,    *)
(* the metadata of every unit, and the client's regions.  All operations   *)
(* run under one mutex in FreeRegionManager.cj, so each is one step.       *)
(***************************************************************************)
EXTENDS UnitRuns, Sequences, FiniteSets, SequencesExt

-----------------------------------------------------------------------------
(* Nodes *)

Null == [count |-> 0]     \* reads as the length the code uses for a null child

CartesianNode(b, n) == [l |-> Null, r |-> Null, index |-> b, count |-> n]

End(t) == t.index + t.count

RECURSIVE NodesOf(_)
NodesOf(t) == IF t = Null THEN <<>> ELSE NodesOf(t.l) \o <<t>> \o NodesOf(t.r)

UnitsIn(t) == UNION {Run(x.index, x.count) : x \in ToSet(NodesOf(t))}

-----------------------------------------------------------------------------
(* Rotations and the heap order *)

RotateLeftChild(t) == [t.l EXCEPT !.r = [t EXCEPT !.l = t.l.r]]
RotateRightChild(t) == [t.r EXCEPT !.l = [t EXCEPT !.r = t.r.l]]

IsProperNode(t) == t.count >= t.l.count /\ t.count >= t.r.count

\* LowerImproperNodeOnce lifts the longer child, the right one among equals.
LiftsRight(t) == t.r # Null /\ (t.l = Null \/ t.r.count >= t.l.count)

\* MaintainHeapPropertyForNonZeroNode: lower a shrunken block to its place.
RECURSIVE LowerNonZeroNode(_)
LowerNonZeroNode(t) ==
  IF IsProperNode(t) THEN t
  ELSE IF LiftsRight(t)
       THEN [RotateRightChild(t) EXCEPT !.l = LowerNonZeroNode(@)]
       ELSE [RotateLeftChild(t) EXCEPT !.r = LowerNonZeroNode(@)]

\* Lower an emptied block until it is a leaf, and unlink it.
RECURSIVE RemoveZeroNode(_)
RemoveZeroNode(t) ==
  IF t.l = Null /\ t.r = Null THEN Null
  ELSE IF LiftsRight(t)
       THEN [RotateRightChild(t) EXCEPT !.l = RemoveZeroNode(@)]
       ELSE [RotateLeftChild(t) EXCEPT !.r = RemoveZeroNode(@)]

RemoveNode(t) == RemoveZeroNode([t EXCEPT !.count = 0])

-----------------------------------------------------------------------------
(* Insertion.  A result is [ok, t, ...]: ok is FALSE where the code returns *)
(* MERGE_ERROR or false, and then t is the subtree as it was.               *)

\* The node of the right subtree that starts where the new block ends, taken
\* off the left spine; an error if the new block runs into the subtree.
RECURSIVE TakeNearestRight(_, _)
TakeNearestRight(t, e) ==
  IF t = Null THEN [ok |-> TRUE, t |-> Null, count |-> 0]
  ELSE IF t.index = e
       THEN [ok |-> t.l = Null, t |-> t.r, count |-> t.count]
  ELSE IF t.index < e
       THEN [ok |-> FALSE, t |-> t, count |-> 0]
  ELSE LET s == TakeNearestRight(t.l, e)
       IN  [s EXCEPT !.t = [t EXCEPT !.l = s.t]]

\* Mutant: unlinking the left neighbour drops its left subtree.
TakeNearestLeftDropping(t, b) ==
  IF t # Null /\ End(t) = b
  THEN [ok |-> TRUE, t |-> Null, count |-> t.count]
  ELSE [ok |-> t = Null \/ End(t) < b, t |-> t, count |-> 0]

\* Its mirror image: the node of the left subtree that ends where the new
\* block starts.
RECURSIVE TakeNearestLeft(_, _)
TakeNearestLeft(t, b) ==
  IF t = Null THEN [ok |-> TRUE, t |-> Null, count |-> 0]
  ELSE IF End(t) = b
       THEN [ok |-> t.r = Null, t |-> t.l, count |-> t.count]
  ELSE IF End(t) > b
       THEN [ok |-> FALSE, t |-> t, count |-> 0]
  ELSE LET s == TakeNearestLeft(t.r, b)
       IN  [s EXCEPT !.t = [t EXCEPT !.r = s.t]]

\* headers lists the RefreshFreeRegionInfo calls in order, as <<unit, length>>.
Failed(t) == [ok |-> FALSE, t |-> t, rising |-> FALSE, headers |-> <<>>]
Merged(t, headers) == [ok |-> TRUE, t |-> t, rising |-> TRUE, headers |-> headers]

\* The new block starts where node t ends.
MergeToRight(t, b, n) ==
  LET s == TakeNearestRight(t.r, b + n)
      count == t.count + n
  IN  IF ~s.ok THEN Failed(t)
      ELSE Merged([t EXCEPT !.r = s.t, !.count = count + s.count],
                  <<<<t.index, count>>, <<t.index, count + s.count>>>>)

\* The new block ends where node t starts.
MergeToLeft(t, b, n) ==
  LET s == TakeNearestLeft(t.l, b)
      count == t.count + n
  IN  IF ~s.ok THEN Failed(t)
      ELSE Merged([t EXCEPT !.l = s.t, !.index = b - s.count,
                            !.count = count + s.count],
                  <<<<b, count>>, <<b - s.count, count + s.count>>>>)

\* Mutant: the insertion never rotates on its way up.
RiseLeftUnrotated(t, s) ==
  IF ~s.ok THEN Failed(t)
  ELSE [s EXCEPT !.t = [t EXCEPT !.l = s.t], !.rising = FALSE]

\* After an insertion below t the new child may be longer than t: the code
\* unwinds its slot stack and rotates until a parent is long enough.
RiseLeft(t, s) ==
  LET u == [t EXCEPT !.l = s.t] IN
  IF ~s.ok THEN Failed(t)
  ELSE IF s.rising /\ u.count < u.l.count
       THEN [s EXCEPT !.t = RotateLeftChild(u)]
       ELSE [s EXCEPT !.t = u, !.rising = FALSE]

RiseRight(t, s) ==
  LET u == [t EXCEPT !.r = s.t] IN
  IF ~s.ok THEN Failed(t)
  ELSE IF s.rising /\ u.count < u.r.count
       THEN [s EXCEPT !.t = RotateRightChild(u)]
       ELSE [s EXCEPT !.t = u, !.rising = FALSE]

RECURSIVE MergeInsertInternal(_, _, _)

MergeInsertInternal(t, b, n) ==
  IF t = Null THEN Merged(CartesianNode(b, n), <<<<b, n>>>>)
  ELSE IF b = End(t) THEN MergeToRight(t, b, n)
  ELSE IF b + n = t.index THEN MergeToLeft(t, b, n)
  ELSE IF b + n < t.index THEN RiseLeft(t, MergeInsertInternal(t.l, b, n))
  ELSE IF b > End(t) THEN RiseRight(t, MergeInsertInternal(t.r, b, n))
  ELSE Failed(t)

-----------------------------------------------------------------------------
(* Search *)

\* FindBestFitLowAddrPtr: depth first, left before right, over the nodes that
\* are long enough; once an exact fit is known only left subtrees remain.
RECURSIVE FindBestFitLowAddr(_, _, _)

\* Mutant: no tie-break on the address.
FindBestFitFirst(t, n, best) ==
  IF t.count < n THEN best
  ELSE LET here == IF best = Null \/ t.count < best.count THEN t ELSE best
       IN  FindBestFitLowAddr(t.r, n, FindBestFitLowAddr(t.l, n, here))

FindBestFitLowAddr(t, n, best) ==
  IF t.count < n THEN best
  ELSE LET better == \/ best = Null
                     \/ t.count < best.count
                     \/ t.count = best.count /\ t.index < best.index
           here == IF better THEN t ELSE best
           left == FindBestFitLowAddr(t.l, n, here)
       IN  IF here.count = n THEN left ELSE FindBestFitLowAddr(t.r, n, left)

\* TakeUnitsImpl: breadth first, right before left, up to the first node that
\* is too short; the node before it is the one.
RECURSIVE LastLongEnough(_, _, _)
LastLongEnough(queue, n, last) ==
  IF queue = <<>> \/ Head(queue).count < n THEN last
  ELSE LET t == Head(queue)
           children == SelectSeq(<<t.r, t.l>>, LAMBDA c : c # Null)
       IN  LastLongEnough(Tail(queue) \o children, n, t)

FindAny(t, n) == IF t = Null THEN Null ELSE LastLongEnough(<<t>>, n, Null)

\* UpdateNode on the block that starts at b, then restore the heap below it.
RECURSIVE Carve(_, _, _)

Carve(t, b, n) ==
  IF b < t.index THEN [t EXCEPT !.l = Carve(@, b, n)]
  ELSE IF b > t.index THEN [t EXCEPT !.r = Carve(@, b, n)]
  ELSE LET u == [t EXCEPT !.index = b + n, !.count = @ - n]
       IN  IF u.count = 0 THEN RemoveZeroNode(u) ELSE LowerNonZeroNode(u)

\* Mutant: the header is refreshed even when nothing is left.
CarveHeadersAlways(blk, n) == <<<<blk.index + n, blk.count - n>>>>

\* The header UpdateNode refreshes: none when nothing is left of the block.
CarveHeaders(blk, n) ==
  IF blk.count - n > 0 THEN <<<<blk.index + n, blk.count - n>>>> ELSE <<>>

-----------------------------------------------------------------------------
VARIABLES
  root,         \* the tree
  totalCount,   \* cached number of units in the tree
  unitInfo,     \* metadata of every unit: role, size (regionEnd), owner
  regions,      \* the client's regions, <<first unit, length>>
  detached,     \* blocks released from the tree and not yet inserted again
  fresh         \* first unit never handed out

vars == <<root, totalCount, unitInfo, regions, detached, fresh>>

NoOwner == -1

UnitInfoType == [role : {"free", "region", "subordinate"},
                 size : 0 .. N,
                 owner : Units \union {NoOwner}]

\* InitRegionInfo of the head unit of a block or region.
InitRegionInfo(info, b, n, role) ==
  [info EXCEPT ![b] = [role |-> role, size |-> n, owner |-> NoOwner]]

InitFreeRegion(info, header) == InitRegionInfo(info, header[1], header[2], "free")

Refresh(info, headers) == FoldLeft(InitFreeRegion, info, headers)

\* InitRegion: the head, then every other unit points at it.
InitRegion(info, b, n) ==
  LET head == InitRegionInfo(info, b, n, "region")
  IN  [u \in Units |->
         IF u \in Run(b, n) \ {b}
         THEN [head[u] EXCEPT !.role = "subordinate", !.owner = b]
         ELSE head[u]]

\* GetRegionInfo: the head unit of the region or block a unit belongs to.
GetRegionInfo(u) ==
  IF unitInfo[u].role = "subordinate" THEN unitInfo[u].owner ELSE u

Init ==
  /\ root = Null
  /\ totalCount = 0
  /\ unitInfo = [u \in Units |-> [role |-> "free", size |-> 0, owner |-> NoOwner]]
  /\ regions = {}
  /\ detached = {}
  /\ fresh = 0

\* The region manager grows the heap: InitRegionAt on units never used.
InitRegionAt(n) ==
  /\ fresh + n <= N
  /\ fresh' = fresh + n
  /\ unitInfo' = InitRegion(unitInfo, fresh, n)
  /\ regions' = regions \union {<<fresh, n>>}
  /\ UNCHANGED <<root, totalCount, detached>>

\* Carve n units from blk and make them a region (TakeRegion, one branch).
TakeFrom(blk, n) ==
  /\ blk # Null
  /\ root' = Carve(root, blk.index, n)
  /\ totalCount' = totalCount - n
  /\ unitInfo' = InitRegion(Refresh(unitInfo, CarveHeaders(blk, n)), blk.index, n)
  /\ regions' = regions \union {<<blk.index, n>>}
  /\ UNCHANGED <<detached, fresh>>

TakeUnitsLowAddr(n) == TakeFrom(FindBestFitLowAddr(root, n, Null), n)

TakeUnits(n) == TakeFrom(FindAny(root, n), n)

\* MergeInsert of a region or of a released block.
MergeInsert(blk) ==
  LET s == MergeInsertInternal(root, blk[1], blk[2]) IN
  /\ blk \in regions \union detached
  /\ s.ok
  /\ root' = s.t
  /\ totalCount' = totalCount + blk[2]
  /\ unitInfo' = Refresh(unitInfo, s.headers)
  /\ regions' = regions \ {blk}
  /\ detached' = detached \ {blk}
  /\ UNCHANGED fresh

\* One block at a time: ReleaseGarbageRegions inserts the block it released
\* into the other tree before it looks at the next root.
ReleaseRootNode ==
  /\ root # Null
  /\ detached = {}
  /\ root' = RemoveNode(root)
  /\ totalCount' = totalCount - root.count
  /\ detached' = detached \union {<<root.index, root.count>>}
  /\ UNCHANGED <<unitInfo, regions, fresh>>

Next ==
  \/ \E n \in 1 .. N : InitRegionAt(n)
  \/ \E n \in 1 .. N : TakeUnitsLowAddr(n)
  \/ \E n \in 1 .. N : TakeUnits(n)
  \/ \E blk \in regions \union detached : MergeInsert(blk)
  \/ ReleaseRootNode

Spec == Init /\ [][Next]_vars

-----------------------------------------------------------------------------
(* Properties *)

Abstract == INSTANCE FreeBlocks WITH free <- UnitsIn(root)

\* Every variable has its type, and only non-empty blocks inside the heap are
\* nodes of the tree.
TypeOK ==
  /\ \A x \in ToSet(NodesOf(root)) : x.count > 0 /\ Run(x.index, x.count) \subseteq Units
  /\ totalCount \in 0 .. N
  /\ unitInfo \in [Units -> UnitInfoType]
  /\ regions \subseteq Units \X (1 .. N)
  /\ detached \subseteq Units \X (1 .. N)
  /\ fresh \in 0 .. N

\* After any sequence of merges, carvings and releases no node is shorter than
\* a child (the searches prune on it, CartesianTree.cj:727, 743, 769).
HeapOrder == \A x \in ToSet(NodesOf(root)) : IsProperNode(x)

\* Nodes stand in address order with a gap between neighbours: no free block
\* is ever left split in two (MergeToRight, MergeToLeft, Rotate*Child).
FullyMerged ==
  LET nodes == NodesOf(root) IN
  \A i \in 1 .. Len(nodes) - 1 : End(nodes[i]) < nodes[i + 1].index

\* The node slab that Init sizes for (N >> 1) + 1 nodes is never exceeded:
\* RTAllocatorT.Allocate has no bound check of its own.
NodesFitSlab == Len(NodesOf(root)) <= N \div 2 + 1

\* The cached total is the number of units in the tree, so DecTotalCount never
\* aborts and ReleaseGarbageRegions reads the real amount of garbage.
TotalCountExact == totalCount = Cardinality(UnitsIn(root))

\* All of these at once, in every history of merges, carvings and releases:
\* what each operation takes for granted of the tree the others left.
TreeWellFormed == TypeOK /\ HeapOrder /\ FullyMerged /\ NodesFitSlab /\ TotalCountExact

\* Hopping from header to header by region size visits exactly the blocks
\* of the tree, the released blocks and the regions: no header is stale or
\* overwritten by the refresh of a neighbour (IncCount, UpdateNode).
RECURSIVE Walk(_)
Walk(u) ==
  IF u >= fresh \/ unitInfo[u].size = 0 THEN {}
  ELSE {<<u, unitInfo[u].size>>} \union Walk(u + unitInfo[u].size)

HeapIsWalkable ==
  Walk(0) = regions \union detached
              \union {<<x.index, x.count>> : x \in ToSet(NodesOf(root))}

\* An address inside a region always leads to that region's own header, after
\* any history of frees, merges and reuse of its units (GetRegionInfoAt).
InteriorFindsHeader ==
  \A blk \in regions : \A u \in Run(blk[1], blk[2]) :
     /\ GetRegionInfo(u) = blk[1]
     /\ unitInfo[blk[1]].role = "region"

\* The metadata a walk of the heap and an interior address rely on is right at
\* the same time, after any history of merges and reuse.
MetadataSound == HeapIsWalkable /\ InteriorFindsHeader

\* MergeInsert refuses a block exactly when some unit of it is already in the
\* tree (a double free, which FreeRegionManager turns into RtFatal), and a
\* refused block leaves the tree as it was.
RefusesExactlyOverlaps ==
  \A b \in Units : \A n \in 1 .. N - b :
     LET s == MergeInsertInternal(root, b, n)
     IN  /\ s.ok <=> Run(b, n) \cap UnitsIn(root) = {}
         /\ ~s.ok => s.t = root

\* The pruned searches find what an exhaustive one would: TakeUnitsLowAddr the
\* lowest of the smallest blocks that fit, TakeUnits some block that fits, and
\* neither fails while a block fits.
SearchesAreExact ==
  \A n \in 1 .. N :
     LET low == FindBestFitLowAddr(root, n, Null)
         any == FindAny(root, n)
     IN  /\ BestFit(UnitsIn(root), n) = IF low = Null THEN {} ELSE {low.index}
         /\ IF any = Null THEN AnyFit(UnitsIn(root), n) = {}
            ELSE any.index \in AnyFit(UnitsIn(root), n)

\* What the next insertion or search would do is right in every state of the
\* tree, for every block and every length.
OperationsExact == RefusesExactlyOverlaps /\ SearchesAreExact

\* The tree implements a plain set of free units with best-fit, lowest-address
\* carving.
ImplementsFreeBlocks == Abstract!Spec

=============================================================================
