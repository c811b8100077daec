----------------------------- MODULE RegionList -----------------------------
(***************************************************************************)
(* The region lists of rt.heap.allocator/RegionList.cj: regions linked     *)
(* through their metadata, a head, a tail and two counts per list, and one *)
(* mutex per list.  An operation under one mutex is one step.  MoveTo      *)
(* holds two mutexes for a while, a merge lets go of both lists between    *)
(* its halves, and a visitor runs region by region: those take more steps. *)
(*                                                                         *)
(* The lists are used by the C++ collector, which is not part of this      *)
(* repository.  The guards marked "caller" are what its callers owe.       *)
(***************************************************************************)
EXTENDS Integers, Sequences, FiniteSets, SequencesExt

CONSTANTS Regions, Threads, Lists,
          Nobody,       \* no region and no thread: a null pointer, a free mutex
          UnitCount,    \* length of every region
          Deletable,    \* lists on which TryDeleteRegion is called
          Caches,       \* lists that are RegionCaches
          Merges,       \* <<src, dst>>: dst.MergeRegionList(src) is called
          Moves         \* <<src, dst>>: src.MoveTo(dst) is called

Spaces == {m[2] : m \in Moves}      \* lists that only MoveTo fills

\* Caller: nothing is merged into a cache, which may be inactive.
ASSUME ListsAssumption ==
    /\ IsFiniteSet(Regions)
    /\ UnitCount \in [Regions -> Nat \ {0}]
    /\ Deletable \subseteq Lists /\ Caches \subseteq Lists
    /\ Merges \cup Moves \subseteq Lists \X Lists
    /\ \A m \in Merges \cup Moves : m[1] # m[2]
    /\ Spaces \cap (Deletable \cup Caches \cup {m[2] : m \in Merges}) = {}
    /\ Caches \cap {m[2] : m \in Merges} = {}
    /\ Deletable \cap {m[1] : m \in Moves} = {}
    /\ Nobody \notin Regions \cup Threads \cup Lists /\ Lists \cap Threads = {}

VARIABLES
    list,       \* head, tail, regionCount, unitCount of every list, and of the
                \* local list a merging thread has
    next, prev, \* links of every region
    type,       \* type of every region: the list it is for, or Nobody
    traced,     \* regions with the trace-region flag
    active,     \* caches that are active
    mutex,      \* who holds the mutex of a list between two steps
    holder,     \* the thread that has taken a region out of the lists
    op,         \* what every thread is in the middle of
    unvisited,  \* regions a visitor has still to see
    fatal       \* RtFatal has ended the process
vars == <<list, next, prev, type, traced, active, mutex, holder, op, unvisited, fatal>>

Idle == [pc |-> "idle", src |-> Nobody, dst |-> Nobody, node |-> Nobody]
Empty == [head |-> Nobody, tail |-> Nobody, regions |-> 0, units |-> 0]

Init ==
    /\ list = [l \in Lists \cup Threads |-> Empty]
    /\ next = [r \in Regions |-> Nobody]
    /\ prev = [r \in Regions |-> Nobody]
    /\ type = [r \in Regions |-> Nobody]
    /\ traced = {}
    /\ active = {}
    /\ mutex = [l \in Lists |-> Nobody]
    /\ holder \in [Regions -> Threads]
    /\ op = [t \in Threads |-> Idle]
    /\ unvisited = [t \in Threads |-> {}]
    /\ fatal = FALSE

\* The regions a loop comes to that starts at n and follows the links: those in
\* every set that has n and the next region of each of its own.
Reach(n) ==
    {r \in Regions : \A S \in SUBSET Regions :
        n \in S \cup {Nobody} /\ (\A x \in S : next[x] \in S \cup {Nobody}) => r \in S}
Members(l) == Reach(list[l].head)

\* Their order.  (Bounded, should the links form a cycle.)
Walk(l) ==
    LET from[k \in 0 .. Cardinality(Regions)] ==
            [n \in Regions \cup {Nobody} |->
                IF k = 0 \/ n = Nobody THEN <<>> ELSE <<n>> \o from[k - 1][next[n]]]
    IN  from[Cardinality(Regions)][list[l].head]

-----------------------------------------------------------------------------
(* Under the mutex of a list *)

Free(l) == mutex[l] = Nobody

Retype(R, ty) == type' = [r \in Regions |-> IF r \in R THEN ty ELSE type[r]]

PrependRegionLocked(l, r) ==
    /\ list' = [list EXCEPT ![l] =
          [head |-> r, tail |-> IF @.head = Nobody THEN r ELSE @.tail,
           regions |-> @.regions + 1, units |-> @.units + UnitCount[r]]]
    /\ next' = [next EXCEPT ![r] = list[l].head]
    /\ prev' = [x \in Regions |->
          IF x = r THEN Nobody ELSE IF x = list[l].head THEN r ELSE prev[x]]
    /\ Retype({r}, l)

IsHead(l, del) == list[l].head = del
IsTail(l, del) == list[l].tail = del
OnlyOne(l, del) == IsHead(l, del) /\ next[del] = Nobody

\* DecCounts, the assertions of a debug build and the links of a null region:
\* what ends the process.
CannotDelete(l, del) ==
    \/ list[l].regions < 1 \/ list[l].units < UnitCount[del]
    \/ list[l].head = Nobody \/ list[l].tail = Nobody
    \/ IsHead(l, del) # (prev[del] = Nobody)
    \/ ~OnlyOne(l, del) /\ (IsTail(l, del) # (next[del] = Nobody))

\* Mutant: the region after the deleted one keeps its link back.
UnlinkForwardOnly(l, del) ==
    /\ list' = [list EXCEPT ![l] =
          [head |-> IF IsHead(l, del) THEN next[del] ELSE @.head,
           tail |-> IF OnlyOne(l, del) \/ IsTail(l, del) THEN prev[del] ELSE @.tail,
           regions |-> @.regions - 1, units |-> @.units - UnitCount[del]]]
    /\ next' = [x \in Regions |->
          IF x = del THEN Nobody ELSE IF x = prev[del] THEN next[del] ELSE next[x]]
    /\ prev' = [prev EXCEPT ![del] = Nobody]

Unlink(l, del) ==
    /\ list' = [list EXCEPT ![l] =
          [head |-> IF IsHead(l, del) THEN next[del] ELSE @.head,
           tail |-> IF OnlyOne(l, del) \/ IsTail(l, del) THEN prev[del] ELSE @.tail,
           regions |-> @.regions - 1, units |-> @.units - UnitCount[del]]]
    /\ next' = [x \in Regions |->
          IF x = del THEN Nobody ELSE IF x = prev[del] THEN next[del] ELSE next[x]]
    /\ prev' = [x \in Regions |->
          IF x = del THEN Nobody ELSE IF x = next[del] THEN prev[del] ELSE prev[x]]

\* Delete a region and hand it to thread t with a new type.
DeleteRegionLocked(t, l, del, newType) ==
    IF CannotDelete(l, del)
    THEN /\ fatal' = TRUE
         /\ UNCHANGED <<list, next, prev, type, holder>>
    ELSE /\ Unlink(l, del)
         /\ Retype({del}, newType)
         /\ holder' = [holder EXCEPT ![del] = t]
         /\ UNCHANGED fatal

Begin(t, what) == op' = [op EXCEPT ![t] = what]
CanStart(t) == ~fatal /\ op[t] = Idle

-----------------------------------------------------------------------------
(* One critical section *)

\* Caller: the thread has taken the region, and no list is filled by Prepend
\* that MoveTo overwrites or that only lets regions in while it is active.
PrependRegion(t, l, r) ==
    /\ CanStart(t) /\ holder[r] = t /\ l \notin Spaces \cup Caches /\ Free(l)
    /\ PrependRegionLocked(l, r)
    /\ holder' = [holder EXCEPT ![r] = Nobody]
    /\ UNCHANGED <<traced, active, mutex, op, unvisited, fatal>>

\* A cache takes regions only while it is active; else the caller keeps it.
TryPrependRegion(t, l, r) ==
    /\ CanStart(t) /\ holder[r] = t /\ Free(l)
    /\ l \in active
    /\ PrependRegionLocked(l, r)
    /\ holder' = [holder EXCEPT ![r] = Nobody]
    /\ UNCHANGED <<traced, active, mutex, op, unvisited, fatal>>

ActivateRegionCache(t, l) ==
    /\ CanStart(t) /\ Free(l)
    /\ active' = active \cup {l}
    /\ UNCHANGED <<list, next, prev, type, traced, mutex, holder, op, unvisited, fatal>>

DeactivateRegionCache(t, l) ==
    /\ CanStart(t) /\ Free(l)
    /\ traced' = traced \ Members(l)
    /\ active' = active \ {l}
    /\ UNCHANGED <<list, next, prev, type, mutex, holder, op, unvisited, fatal>>

ClearTraceRegionFlag(t, l) ==
    /\ CanStart(t) /\ Free(l)
    /\ traced' = traced \ Members(l)
    /\ UNCHANGED <<list, next, prev, type, active, mutex, holder, op, unvisited, fatal>>

\* RegionInfo.SetTraceRegionFlag(1), on a region the thread has taken.
SetTraceRegionFlag(t, r) ==
    /\ CanStart(t) /\ holder[r] = t
    /\ traced' = traced \cup {r}
    /\ UNCHANGED <<list, next, prev, type, active, mutex, holder, op, unvisited, fatal>>

\* The two TakeHeadRegion: the one without a type leaves the type as it is.
\* Caller: it is not used where the type tells TryDeleteRegion the list.
TakeHeadRegion(t, l, newType) ==
    /\ CanStart(t) /\ Free(l)
    /\ list[l].head # Nobody
    /\ newType \in {Nobody} \cup (IF l \in Deletable THEN {} ELSE {type[list[l].head]})
    /\ DeleteRegionLocked(t, l, list[l].head, newType)
    /\ UNCHANGED <<traced, active, mutex, op, unvisited>>

\* Caller: the region is in the list, whose type does not matter.
DeleteRegion(t, l, r) ==
    /\ CanStart(t) /\ Free(l)
    /\ l \notin Deletable /\ r \in Members(l)
    /\ DeleteRegionLocked(t, l, r, type[r])
    /\ UNCHANGED <<traced, active, mutex, op, unvisited>>

\* Mutant: the region is deleted whatever its type.
TryDeleteRegionUntyped(t, l, r) ==
    /\ CanStart(t) /\ Free(l)
    /\ \A u \in Threads : op[u].pc = "merge" => op[u].src # l
    /\ DeleteRegionLocked(t, l, r, Nobody)
    /\ UNCHANGED <<traced, active, mutex, op, unvisited>>

\* Several threads may want a region; the one that finds its type unchanged
\* takes it.  Caller: not while a merge carries the list's regions away with
\* their types unchanged, and the new type is not that of a Deletable list.
TryDeleteRegion(t, l, r) ==
    /\ CanStart(t) /\ Free(l)
    /\ \A u \in Threads : op[u].pc = "merge" => op[u].src # l
    /\ type[r] = l
    /\ DeleteRegionLocked(t, l, r, Nobody)
    /\ UNCHANGED <<traced, active, mutex, op, unvisited>>

-----------------------------------------------------------------------------
(* MergeRegionList: the source is moved to a local list, then spliced. *)

MergeTake(t, src, dst) ==
    /\ CanStart(t) /\ Free(src)
    /\ list[src].head # Nobody
    /\ list' = [list EXCEPT ![t] = list[src], ![src] = Empty]
    /\ Begin(t, [Idle EXCEPT !.pc = "merge", !.src = src, !.dst = dst])
    /\ UNCHANGED <<next, prev, type, traced, active, mutex, holder, unvisited, fatal>>

\* Mutant: the old regions of the target are left behind.
MergeSpliceDropping(t) ==
    /\ op[t].pc = "merge"
    /\ Free(op[t].dst)
    /\ LET dst == op[t].dst
       IN  /\ Retype(Members(t), dst)
           /\ list' = [list EXCEPT ![t] = Empty, ![dst] = list[t]]
           /\ UNCHANGED <<next, prev>>
    /\ Begin(t, Idle)
    /\ UNCHANGED <<traced, active, mutex, holder, unvisited, fatal>>

\* SetElementType of the local list happens under the mutex of the target.
MergeSplice(t) ==
    /\ op[t].pc = "merge"
    /\ Free(op[t].dst)
    /\ LET dst == op[t].dst
           old == list[dst]
           new == list[t]
       IN  /\ Retype(Members(t), dst)
           /\ list' = [list EXCEPT ![t] = Empty, ![dst] =
                 [head |-> new.head,
                  tail |-> IF old.head = Nobody THEN new.tail ELSE old.tail,
                  regions |-> old.regions + new.regions, units |-> old.units + new.units]]
           /\ next' = [r \in Regions |->
                 IF r = new.tail /\ old.head # Nobody THEN old.head ELSE next[r]]
           /\ prev' = [r \in Regions |-> IF r = old.head THEN new.tail ELSE prev[r]]
    /\ Begin(t, Idle)
    /\ UNCHANGED <<traced, active, mutex, holder, unvisited, fatal>>

-----------------------------------------------------------------------------
(* MoveTo holds the mutex of its list while AssignWith waits for the target's. *)

\* Caller: the target is empty, and nobody else is moving there.
MoveLock(t, src, dst) ==
    /\ CanStart(t) /\ Free(src)
    /\ list[dst].head = Nobody
    /\ \A u \in Threads : op[u].pc \in {"assign", "clear"} => op[u].dst # dst
    /\ mutex' = [mutex EXCEPT ![src] = t]
    /\ Begin(t, [Idle EXCEPT !.pc = "assign", !.src = src, !.dst = dst])
    /\ UNCHANGED <<list, next, prev, type, traced, active, holder, unvisited, fatal>>

AssignWith(t) ==
    /\ op[t].pc = "assign"
    /\ Free(op[t].dst)
    /\ list' = [list EXCEPT ![op[t].dst] = list[op[t].src]]
    /\ Begin(t, [op[t] EXCEPT !.pc = "clear"])
    /\ UNCHANGED <<next, prev, type, traced, active, mutex, holder, unvisited, fatal>>

ClearList(t) ==
    /\ op[t].pc = "clear"
    /\ list' = [list EXCEPT ![op[t].src] = Empty]
    /\ mutex' = [mutex EXCEPT ![op[t].src] = Nobody]
    /\ Begin(t, Idle)
    /\ UNCHANGED <<next, prev, type, traced, active, holder, unvisited, fatal>>

-----------------------------------------------------------------------------
(* VisitAllRegions: the visitor may delete the region it is at. *)

VisitStart(t, l) ==
    /\ CanStart(t) /\ Free(l)
    /\ mutex' = [mutex EXCEPT ![l] = t]
    /\ unvisited' = [unvisited EXCEPT ![t] = Members(l)]
    /\ Begin(t, [Idle EXCEPT !.pc = "visit", !.src = l, !.node = list[l].head])
    /\ UNCHANGED <<list, next, prev, type, traced, active, holder, fatal>>

\* Mutant: the next region is looked up after the visitor.
VisitNodeThenNext(t) ==
    LET node == op[t].node IN
    /\ op[t].pc = "visit" /\ node # Nobody
    /\ unvisited' = [unvisited EXCEPT ![t] = @ \ {node}]
    /\ \/ UNCHANGED <<list, next, prev, type, holder, fatal>>
       \/ DeleteRegionLocked(t, op[t].src, node, Nobody)
    /\ Begin(t, [op[t] EXCEPT !.node = next'[node]])
    /\ UNCHANGED <<traced, active, mutex>>

\* The next region is looked up before the visitor is called.
VisitNode(t) ==
    LET node == op[t].node IN
    /\ op[t].pc = "visit" /\ node # Nobody
    /\ unvisited' = [unvisited EXCEPT ![t] = @ \ {node}]
    /\ Begin(t, [op[t] EXCEPT !.node = next[node]])
    /\ \/ UNCHANGED <<list, next, prev, type, holder, fatal>>
       \/ DeleteRegionLocked(t, op[t].src, node, Nobody)    \* RemoveRegionLocked
    /\ UNCHANGED <<traced, active, mutex>>

VisitEnd(t) ==
    /\ op[t].pc = "visit" /\ op[t].node = Nobody
    /\ mutex' = [mutex EXCEPT ![op[t].src] = Nobody]
    /\ Begin(t, Idle)
    /\ UNCHANGED <<list, next, prev, type, traced, active, holder, unvisited, fatal>>

-----------------------------------------------------------------------------
Next == \E t \in Threads :
    \/ \E l \in Lists, r \in Regions : PrependRegion(t, l, r) \/ DeleteRegion(t, l, r)
    \/ \E l \in Lists : VisitStart(t, l) \/ ClearTraceRegionFlag(t, l)
    \/ \E l \in Lists, newType \in Lists \cup {Nobody} : TakeHeadRegion(t, l, newType)
    \/ \E l \in Deletable, r \in Regions : TryDeleteRegion(t, l, r)
    \/ \E l \in Caches : ActivateRegionCache(t, l) \/ DeactivateRegionCache(t, l)
    \/ \E l \in Caches, r \in Regions : TryPrependRegion(t, l, r)
    \/ \E r \in Regions : SetTraceRegionFlag(t, r)
    \/ \E m \in Merges : MergeTake(t, m[1], m[2])
    \/ \E m \in Moves : MoveLock(t, m[1], m[2])
    \/ MergeSplice(t) \/ AssignWith(t) \/ ClearList(t)
    \/ VisitNode(t) \/ VisitEnd(t)

Spec == Init /\ [][Next]_vars

-----------------------------------------------------------------------------
\* A list that MoveTo has copied and not yet cleared.
Cleared(l) == \A t \in Threads : ~(op[t].pc = "clear" /\ op[t].src = l)

\* Every variable has its type, and a mutex is held exactly by the operation
\* that takes more than one step under it.
TypeOK ==
    /\ list \in [Lists \cup Threads ->
          [head : Regions \cup {Nobody}, tail : Regions \cup {Nobody},
           regions : 0 .. Cardinality(Regions), units : Nat]]
    /\ next \in [Regions -> Regions \cup {Nobody}]
    /\ prev \in [Regions -> Regions \cup {Nobody}]
    /\ type \in [Regions -> Lists \cup {Nobody}]
    /\ holder \in [Regions -> Threads \cup {Nobody}]
    /\ traced \subseteq Regions /\ active \subseteq Caches /\ fatal \in BOOLEAN
    /\ mutex \in [Lists -> Threads \cup {Nobody}]
    /\ \A l \in Lists, t \in Threads :
          mutex[l] = t <=> op[t].pc \in {"assign", "clear", "visit"} /\ op[t].src = l

\* As many as the regions of R have together.
UnitsOf(R) == UNION {{r} \X (1 .. UnitCount[r]) : r \in R}

\* The links of a list that no thread has half moved run from its head to its
\* tail and back, and its counts are those of the regions they reach.
WellLinked ==
    \A l \in Lists \cup Threads : Cleared(l) =>
       /\ list[l].head = Nobody <=> list[l].tail = Nobody
       /\ list[l].tail \in Members(l) \cup {Nobody}
       /\ \A r \in Members(l) :
             /\ prev[r] = Nobody <=> r = list[l].head
             /\ next[r] = Nobody <=> r = list[l].tail
             /\ prev[r] # Nobody => prev[r] \in Members(l) /\ next[prev[r]] = r
             /\ next[r] # Nobody => prev[next[r]] = r
       /\ list[l].regions = Cardinality(Members(l))
       /\ list[l].units = Cardinality(UnitsOf(Members(l)))

\* A region is in one list, on its way to one, or with one thread: merging and
\* moving lose no region, and no two lists hand out the same one.
OneHome ==
    \A r \in Regions :
       Cardinality({l \in Lists \cup Threads : Cleared(l) /\ r \in Members(l)})
          = IF holder[r] = Nobody THEN 1 ELSE 0

\* Outside a merge the type of a region is that of a Deletable list exactly
\* when it is in that list: what TryDeleteRegion takes the type for.
TypeTellsList ==
    \A l \in Deletable, r \in Regions :
       (\A t \in Threads : op[t].pc = "merge" => op[t].src # l)
          => (type[r] = l <=> r \in Members(l))

\* The counts never run short and no assertion of a debug build fails, however
\* threads race for the same regions.
NeverFatal == ~fatal

\* A visitor that deletes regions on its way still sees every region the list
\* had when VisitAllRegions took its mutex.
VisitorSeesAll ==
    \A t \in Threads : op[t].pc = "visit" => unvisited[t] = Reach(op[t].node)

\* A cache that is not active keeps no traced region: one that is being put in
\* while the cache is deactivated is either cleared or refused.
InactiveCacheUntraced ==
    \A l \in Caches \ active : Cleared(l) => Members(l) \cap traced = {}

\* All of these at once: what each operation takes for granted of the links,
\* counts, types and flags another thread left (RegionList.cj:356-670).
ListsConsistent == TypeOK /\ WellLinked /\ OneHome /\ TypeTellsList /\ InactiveCacheUntraced

\* The lists are sequences, and every operation is one step on them: a move
\* takes effect when the target is assigned, a merge in its two halves.
Abstract == INSTANCE RegionSequences WITH
    contents <- [l \in Lists |-> IF Cleared(l) THEN Walk(l) ELSE <<>>],
    carried <- [t \in Threads |-> Walk(t)]
ImplementsSequences == Abstract!Spec
=============================================================================
