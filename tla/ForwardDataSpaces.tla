-------------------------- MODULE ForwardDataSpaces --------------------------
(***************************************************************************)
(* rt.gc.forwarddata/ForwardDataManager.cj: the memory of live infos and   *)
(* mark bitmaps.  There are two spaces of two bump zones each.  Markers    *)
(* allocate from the space of the current tag; the collector switches the  *)
(* tag, unbinds the live infos of the previous space from their regions    *)
(* and clears that space.                                                  *)
(*                                                                         *)
(* Claiming, binding and publishing are the C++ collector's               *)
(* (GetOrAllocLiveInfo and its like are stubs here), modelled from the     *)
(* sentinel GetLiveInfo and GetMarkBitmap test for.  The collector's order *)
(* of calls is the one of test/parity/gc/forwarddata_probe.cj.             *)
(*                                                                         *)
(* On Windows memory is committed as zones grow (CommitsOnDemand); there   *)
(* the spin lock makes an allocation one step, elsewhere it is one         *)
(* fetch-and-add.                                                          *)
(***************************************************************************)
EXTENDS Integers, FiniteSets, Functions

CONSTANTS
  Regions, Markers,
  Kinds,            \* the bitmaps of a live info: mark, resurrect, enqueue in the code
  UnitCount,        \* units of the heap (regionUnitCount)
  UnitsOf,          \* the units of a region
  LiveInfoSize, HeaderSize, WordsSize,  \* bytes: live info, bitmap header, bitmap words per unit
  PageSize,
  CommitsOnDemand,
  Null, Claimed     \* the null pointer, and the sentinel 0x1234

Tags == {0, 1}
Zones == {"live", "bits"}
Live == "liveInfo"      \* what a job is for, when not for a bitmap

ASSUME ForwardAssumption ==
  /\ UnitCount \in Nat \ {0}
  /\ IsFiniteSet(Kinds)
  /\ {LiveInfoSize, HeaderSize, WordsSize, PageSize} \subseteq Nat \ {0}
  /\ CommitsOnDemand \in BOOLEAN
  /\ Null \notin Regions /\ Null \notin Int /\ Claimed \notin Int
  /\ Null # Claimed
  /\ Live \notin Kinds

\* Regions are made of units of the heap, and share none.
ASSUME UnitsAssumption ==
  /\ UnitsOf \in [Regions -> (SUBSET (1..UnitCount)) \ {{}}]
  /\ \A r, s \in Regions : r # s => UnitsOf[r] \cap UnitsOf[s] = {}

VARIABLES
  tag,          \* currentTagID
  position,     \* per space and zone, zonePosition
  lastCommit,   \* per space and zone, lastCommitEndAddr
  backed,       \* pages with memory behind them
  info,         \* live infos that are not zero or are allocated, by address
  written,      \* bitmaps in memory not zeroed since, <<address, length>>
  liveInfo,     \* per region, the field of that name
  garbage,      \* regions of type GARBAGE_REGION
  phase,        \* what the collector is at
  walk,         \* UnbindPrevious: current and position
  job           \* per marker, the allocation it is at

vars == <<tag, position, lastCommit, backed, info, written, liveInfo, garbage,
          phase, walk, job>>

-----------------------------------------------------------------------------
(* Layout *)

RoundUp(x) == ((x + PageSize - 1) \div PageSize) * PageSize

BitmapSize(r) == HeaderSize + Cardinality(UnitsOf[r]) * WordsSize

SpaceSize ==
  RoundUp(UnitCount * (LiveInfoSize + Cardinality(Kinds) * (HeaderSize + WordsSize)))

ZoneStart(s, z) ==
  s * SpaceSize + (IF z = "live" THEN 0 ELSE UnitCount * LiveInfoSize)

ZoneEnd(s, z) == IF z = "live" THEN ZoneStart(s, "bits") ELSE (s + 1) * SpaceSize

Pages(at, size) == (at \div PageSize) .. ((at + size - 1) \div PageSize)

Mapping == Pages(0, 2 * SpaceSize)

SpaceOf(at) == IF at < SpaceSize THEN 0 ELSE 1

EmptyInfo == [region |-> Null, bitmap |-> [k \in Kinds |-> Null]]

NoJob == [step |-> "idle", region |-> Null, kind |-> Live, space |-> 0, at |-> 0]

Init ==
  /\ tag = 0
  /\ position = [s \in Tags |-> [z \in Zones |-> ZoneStart(s, z)]]
  /\ lastCommit = position
  /\ backed = IF CommitsOnDemand THEN {} ELSE Mapping
  /\ info = <<>>
  /\ written = {}
  /\ liveInfo = [r \in Regions |-> Null]
  /\ garbage = {}
  /\ phase = "mark"
  /\ walk = [current |-> 0, position |-> 0]
  /\ job = [t \in Markers |-> NoJob]

\* GetPreviousTagID.
Previous == 1 - tag

-----------------------------------------------------------------------------
(* Markers *)

\* Caller: markers are at work from the switch of the tag to the end of
\* marking, and look at no live info of the previous space.
Marking == phase \in {"unbind", "release", "reset", "mark"}

\* Compare-and-swap of null to the sentinel: one marker allocates.
ClaimLiveInfo(t, r) ==
  /\ Marking
  /\ job[t].step = "idle"
  /\ r \notin garbage
  /\ liveInfo[r] = Null
  /\ liveInfo' = [liveInfo EXCEPT ![r] = Claimed]
  /\ job' = [job EXCEPT ![t] = [NoJob EXCEPT !.step = "tag", !.region = r]]
  /\ UNCHANGED <<tag, position, lastCommit, backed, info, written, garbage, phase, walk>>

ClaimBitmap(t, r, k) ==
  /\ Marking
  /\ job[t].step = "idle"
  /\ r \notin garbage
  /\ liveInfo[r] \in DOMAIN info
  /\ SpaceOf(liveInfo[r]) = tag
  /\ info[liveInfo[r]].bitmap[k] = Null
  /\ info' = [info EXCEPT ![liveInfo[r]].bitmap[k] = Claimed]
  /\ job' = [job EXCEPT ![t] =
               [NoJob EXCEPT !.step = "tag", !.region = r, !.kind = k]]
  /\ UNCHANGED <<tag, position, lastCommit, backed, written, liveInfo, garbage, phase, walk>>

\* AllocateLiveInfo and AllocateRegionBitmap: the tag decides on the space...
ReadTag(t) ==
  /\ job[t].step = "tag"
  /\ job' = [job EXCEPT ![t] = [@ EXCEPT !.step = "allocate", !.space = tag]]
  /\ UNCHANGED <<tag, position, lastCommit, backed, info, written, liveInfo, garbage, phase, walk>>

ZoneOf(j) == IF j.kind = Live THEN "live" ELSE "bits"
SizeOf(j) == IF j.kind = Live THEN LiveInfoSize ELSE BitmapSize(j.region)

\* VirtualAlloc refuses a range that leaves the mapping; the error is logged
\* and the end moves on all the same.
Commit(s, z, size) ==
  LET last == lastCommit[s][z]
      pages == Pages(last, RoundUp(size))
  IN  /\ backed' = backed \union (IF pages \subseteq Mapping THEN pages ELSE {})
      /\ lastCommit' = [lastCommit EXCEPT ![s][z] = last + RoundUp(size)]

\* ...and, in a later step, the position of the zone moves.  A live info is
\* what its memory holds; constructing a bitmap leaves its words alone.
Allocate(t) ==
  LET j == job[t]
      s == j.space
      z == ZoneOf(j)
      start == position[s][z]
      end == start + SizeOf(j)
  IN  /\ j.step = "allocate"
      /\ position' = [position EXCEPT ![s][z] = end]
      /\ IF CommitsOnDemand /\ end > lastCommit[s][z]
         THEN Commit(s, z, SizeOf(j))
         ELSE UNCHANGED <<backed, lastCommit>>
      /\ info' = IF j.kind = Live
                 THEN [at \in DOMAIN info \union {start} |->
                         IF at \in DOMAIN info THEN info[at] ELSE EmptyInfo]
                 ELSE info
      /\ job' = [job EXCEPT ![t] = [@ EXCEPT !.step = "publish", !.at = start]]
      /\ UNCHANGED <<tag, written, liveInfo, garbage, phase, walk>>

\* The live info learns its region and the region its live info; or the live
\* info its bitmap, which is then written.
PublishLiveInfo(t) ==
  LET j == job[t]
  IN  /\ j.step = "publish" /\ j.kind = Live
      /\ info' = [info EXCEPT ![j.at].region = j.region]
      /\ liveInfo' = [liveInfo EXCEPT ![j.region] = j.at]
      /\ job' = [job EXCEPT ![t] = NoJob]
      /\ UNCHANGED <<tag, position, lastCommit, backed, written, garbage, phase, walk>>

PublishBitmap(t) ==
  LET j == job[t]
  IN  /\ j.step = "publish" /\ j.kind # Live
      /\ info' = [info EXCEPT ![liveInfo[j.region]].bitmap[j.kind] = j.at]
      /\ written' = written \union {<<j.at, SizeOf(j)>>}
      /\ job' = [job EXCEPT ![t] = NoJob]
      /\ UNCHANGED <<tag, position, lastCommit, backed, liveInfo, garbage, phase, walk>>

-----------------------------------------------------------------------------
(* The collector *)

\* SetTagID.  Caller: no marker is between reading the tag and binding.
SetTagID ==
  /\ phase = "rest"
  /\ \A t \in Markers : job[t].step = "idle"
  /\ tag' = Previous
  /\ walk' = [current |-> ZoneStart(tag, "live"), position |-> position[tag]["live"]]
  /\ phase' = "unbind"
  /\ UNCHANGED <<position, lastCommit, backed, info, written, liveInfo, garbage, job>>

\* Mutant: the live info of a region is cleared whichever it is.
ClearLiveInfo(r, at) == liveInfo' = [liveInfo EXCEPT ![r] = Null]

\* RegionInfo.CheckAndClearLiveInfo.  The code reads the type, reads the field and
\* writes null in plain steps.  Nothing that matters can come between: only this
\* thread makes a region garbage, a marker claims only a null field, and whoever
\* takes a garbage region clears the field before it changes the type.
CheckAndClearLiveInfo(r, at) ==
  liveInfo' = IF r \notin garbage /\ liveInfo[r] = at
              THEN [liveInfo EXCEPT ![r] = Null]
              ELSE liveInfo

\* Mutant: the region of the live info is not there yet.
UnbindTwiceAhead ==
  /\ phase = "unbind" /\ walk.current < walk.position
  /\ walk' = [walk EXCEPT !.current = @ + 2 * LiveInfoSize]
  /\ CheckAndClearLiveInfo(info[walk.current].region, walk.current)
  /\ UNCHANGED <<tag, position, lastCommit, backed, info, written, garbage, phase, job>>

\* Mutant: the walk starts over in the space markers allocate from.
UnbindIntoCurrent ==
  /\ phase = "unbind" /\ walk.current < walk.position
  /\ walk' = [current |-> ZoneStart(tag, "live"), position |-> position[tag]["live"]]
  /\ IF info[walk.current].region = Null
     THEN phase' = "fatal" /\ UNCHANGED liveInfo
     ELSE UNCHANGED phase /\ CheckAndClearLiveInfo(info[walk.current].region, walk.current)
  /\ UNCHANGED <<tag, position, lastCommit, backed, info, written, garbage, job>>

\* UnbindPrevious, one live info at a time; it aborts on one without region.
UnbindPrevious ==
  /\ phase = "unbind" /\ walk.current < walk.position
  /\ IF info[walk.current].region = Null
     THEN phase' = "fatal" /\ UNCHANGED <<liveInfo, walk>>
     ELSE /\ CheckAndClearLiveInfo(info[walk.current].region, walk.current)
          /\ walk' = [walk EXCEPT !.current = @ + LiveInfoSize]
          /\ UNCHANGED phase
  /\ UNCHANGED <<tag, position, lastCommit, backed, info, written, garbage, job>>

UnbindEnd ==
  /\ phase = "unbind" /\ walk.current >= walk.position
  /\ phase' = "release"
  /\ UNCHANGED <<tag, position, lastCommit, backed, info, written, liveInfo, garbage, walk, job>>

\* ClearPrevious, first half: the memory of the space reads as zero when it
\* is used again; on Windows it is decommitted.  A decommit the system refuses,
\* which the code only logs, is left out: the old words would stay.
ReleaseMemory ==
  /\ phase = "release"
  /\ info' = Restrict(info, {at \in DOMAIN info : SpaceOf(at) = tag})
  /\ written' = {b \in written : SpaceOf(b[1]) = tag}
  /\ backed' = IF CommitsOnDemand
               THEN backed \ Pages(Previous * SpaceSize, SpaceSize)
               ELSE backed
  /\ phase' = "reset"
  /\ UNCHANGED <<tag, position, lastCommit, liveInfo, garbage, walk, job>>

\* Mutant: the ends of committed memory are kept.
ResetPositions ==
  /\ phase = "reset"
  /\ position' = [position EXCEPT ![Previous] = [z \in Zones |-> ZoneStart(Previous, z)]]
  /\ phase' = "mark"
  /\ UNCHANGED <<tag, lastCommit, backed, info, written, liveInfo, garbage, walk, job>>

\* ClearPrevious, second half: ForwardDataSpaceReset.
Reset ==
  LET starts == [z \in Zones |-> ZoneStart(Previous, z)]
  IN  /\ phase = "reset"
      /\ position' = [position EXCEPT ![Previous] = starts]
      /\ lastCommit' = [lastCommit EXCEPT ![Previous] = starts]
      /\ phase' = "mark"
      /\ UNCHANGED <<tag, backed, info, written, liveInfo, garbage, walk, job>>

\* Caller: marking ends when no marker is at work.
EndMarking ==
  /\ phase = "mark"
  /\ \A t \in Markers : job[t].step = "idle"
  /\ phase' = "rest"
  /\ UNCHANGED <<tag, position, lastCommit, backed, info, written, liveInfo, garbage, walk, job>>

\* Caller: a region becomes garbage after marking.
BecomeGarbage(r) ==
  /\ phase = "rest"
  /\ garbage' = garbage \union {r}
  /\ UNCHANGED <<tag, position, lastCommit, backed, info, written, liveInfo, phase, walk, job>>

\* A mutator takes the units of a garbage region and initialises them
\* (InitRegionInfo), at any time.
InitRegionInfo(r) ==
  /\ r \in garbage
  /\ garbage' = garbage \ {r}
  /\ liveInfo' = [liveInfo EXCEPT ![r] = Null]
  /\ UNCHANGED <<tag, position, lastCommit, backed, info, written, phase, walk, job>>

-----------------------------------------------------------------------------
Mark(t) ==
  \/ \E r \in Regions : ClaimLiveInfo(t, r) \/ \E k \in Kinds : ClaimBitmap(t, r, k)
  \/ ReadTag(t) \/ Allocate(t) \/ PublishLiveInfo(t) \/ PublishBitmap(t)

Collect ==
  \/ SetTagID \/ UnbindPrevious \/ UnbindEnd \/ ReleaseMemory \/ Reset \/ EndMarking
  \/ \E r \in Regions : BecomeGarbage(r)

Next ==
  \/ \E t \in Markers : Mark(t)
  \/ Collect
  \/ \E r \in Regions : InitRegionInfo(r)

Spec == Init /\ [][Next]_vars

-----------------------------------------------------------------------------
(* Properties *)

TypeOK ==
  /\ tag \in Tags
  /\ position \in [Tags -> [Zones -> Nat]]
  /\ lastCommit \in [Tags -> [Zones -> Nat]]
  /\ backed \subseteq Mapping
  /\ written \subseteq Nat \X Nat
  /\ liveInfo \in [Regions -> Nat \union {Null, Claimed}]
  /\ garbage \subseteq Regions
  /\ phase \in {"mark", "rest", "unbind", "release", "reset", "fatal"}
  /\ walk \in [current : Nat, position : Nat]
  /\ job \in [Markers -> [step : {"idle", "tag", "allocate", "publish"},
                          region : Regions \union {Null}, kind : Kinds \union {Live},
                          space : Tags, at : Nat]]

\* A region that is no garbage has a live info that is allocated and names it,
\* and none of the previous space once that has been unbound: clearing leaves
\* no region with a live info of the cleared space (UnbindPrevious,
\* ClearPrevious; GARBAGE regions are skipped and may dangle).
BindingsCurrent ==
  \A r \in Regions \ garbage :
     liveInfo[r] \in Nat =>
        /\ liveInfo[r] \in DOMAIN info
        /\ info[liveInfo[r]].region = r
        /\ liveInfo[r] < position[SpaceOf(liveInfo[r])]["live"]
        /\ SpaceOf(liveInfo[r]) = tag \/ phase \notin {"release", "reset", "mark"}

\* While a cycle is marking, a live info handed to a region stays the region's:
\* unbinding the previous cycle's takes no marks of this cycle away, also from
\* a region that was garbage then and is a new one now (CheckAndClearLiveInfo).
MarksKept ==
  Marking =>
     \A at \in DOMAIN info :
        SpaceOf(at) = tag /\ info[at].region # Null => liveInfo[info[at].region] = at

\* UnbindPrevious never meets a live info that is allocated but not yet bound.
NeverFatal == phase # "fatal"

\* The live infos and bitmaps in use, as <<address, length>>.
Allocations ==
  {<<at, LiveInfoSize>> : at \in DOMAIN info}
     \union written
     \union {<<job[t].at, SizeOf(job[t])>> :
               t \in {t \in Markers : job[t].step = "publish" /\ job[t].kind # Live}}

Apart(a, b) == a[1] + a[2] <= b[1] \/ b[1] + b[2] <= a[1]

\* A live info has no region and no bitmaps yet, a bitmap no marks.
ReadsZero(j) ==
  IF j.kind = Live
  THEN info[j.at] = EmptyInfo
  ELSE \A b \in written : Apart(b, <<j.at, SizeOf(j)>>)

\* What is in use overlaps nothing else in use.
Unshared == \A a, b \in Allocations : a # b => Apart(a, b)

ZonesHold == \A s \in Tags, z \in Zones : position[s][z] <= ZoneEnd(s, z)

AllZero == \A t \in Markers : job[t].step = "publish" => ReadsZero(job[t])

Backed == \A a \in Allocations : SpaceOf(a[1]) = tag => Pages(a[1], a[2]) \subseteq backed

\* What is handed out overlaps nothing in use and no zone runs into the next
\* one, although no allocation looks at an end; it reads as zero, although
\* neither live infos nor bitmaps are cleared when they are allocated; and it
\* has memory behind it, although a commit starts where the last one ended, is
\* as long as the one allocation, and may be refused at the end of the mapping
\* (ForwardDataSpaceAllocate, ClearPrevious).
MemoryIsSound == TypeOK /\ Unshared /\ ZonesHold /\ AllZero /\ Backed

\* What the layout must grant for commits that are as long as one allocation:
\* the bitmaps of a heap are longer than a page, a live info is not, and a
\* bitmap longer than a page belongs to a region of so many units that the
\* headers it does not need, one per unit but the first, make up for rounding.
CommitsFit ==
  /\ LiveInfoSize <= PageSize
  /\ PageSize < UnitCount * (Cardinality(Kinds) * (HeaderSize + WordsSize))
  /\ \A r \in Regions : BitmapSize(r) > PageSize =>
       RoundUp(BitmapSize(r)) <= Cardinality(Kinds) * ((Cardinality(UnitsOf[r]) - 1) * HeaderSize)

=============================================================================
