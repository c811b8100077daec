------------------------- MODULE ForwardDataProofs -------------------------
(***************************************************************************)
(* Proofs about ForwardDataSpaces.  The invariants its run checks are not  *)
(* inductive: that no zone overruns its end follows from who owns what is  *)
(* allocated, one live info per region and one bitmap per region and kind  *)
(* in each cycle, and ownership needs the order of the collector's phases. *)
(***************************************************************************)
EXTENDS ForwardDataSpaces, FiniteSetTheorems, TLAPS

-----------------------------------------------------------------------------
(* The inductive invariant *)

InfoRecords == [region : Regions \union {Null}, bitmap : [Kinds -> Nat \union {Null, Claimed}]]

InfoOK == DOMAIN info \subseteq Nat /\ info \in [DOMAIN info -> InfoRecords]

\* The live infos of the space of the tag, and of the other one.
Current == {at \in DOMAIN info : SpaceOf(at) = tag}
Old == {at \in DOMAIN info : SpaceOf(at) = Previous}

Busy(t) == job[t].step # "idle"
Binds(t) == job[t].step = "publish" /\ job[t].kind = Live
Fills(t) == job[t].step = "publish" /\ job[t].kind # Live
Extent(j) == <<j.at, SizeOf(j)>>

\* A marker at work has claimed what it is to bind, in the space of the tag.
JobsHold ==
  \A t \in Markers : Busy(t) =>
     /\ Marking
     /\ job[t].region \in Regions \ garbage
     /\ job[t].step # "tag" => job[t].space = tag
     /\ job[t].kind = Live => liveInfo[job[t].region] = Claimed
     /\ job[t].kind # Live =>
          /\ liveInfo[job[t].region] \in Current
          /\ info[liveInfo[job[t].region]].bitmap[job[t].kind] = Claimed

\* No two markers are at work on the same live info or bitmap.
JobsDiffer ==
  \A t, u \in Markers : t # u /\ Busy(t) /\ Busy(u) =>
     job[t].region # job[u].region \/ job[t].kind # job[u].kind

\* A live info lies between the start and the position of its zone.
SlotsInZone ==
  \A at \in DOMAIN info :
     /\ ZoneStart(SpaceOf(at), "live") <= at
     /\ at + LiveInfoSize <= position[SpaceOf(at)]["live"]

SlotsApart ==
  \A a, b \in DOMAIN info : a # b => a + LiveInfoSize <= b \/ b + LiveInfoSize <= a

\* The live infos of a space lie one behind the other from the start of the
\* zone to its position, until the space is cleared.
SlotsChained ==
  \A s \in Tags : s = tag \/ phase \in {"unbind", "release"} =>
     /\ position[s]["live"] = ZoneStart(s, "live") \/ ZoneStart(s, "live") \in DOMAIN info
     /\ \A at \in DOMAIN info : SpaceOf(at) = s =>
          \/ at + LiveInfoSize \in DOMAIN info /\ SpaceOf(at + LiveInfoSize) = s
          \/ at + LiveInfoSize = position[s]["live"]

\* Outside a cycle's unbinding the previous space holds nothing.
PreviousEmpty ==
  /\ phase \in {"reset", "mark", "rest"} =>
       /\ Old = {}
       /\ \A b \in written : SpaceOf(b[1]) = tag
  /\ phase \in {"mark", "rest"} =>
       \A z \in Zones : /\ position[Previous][z] = ZoneStart(Previous, z)
                        /\ lastCommit[Previous][z] = ZoneStart(Previous, z)

\* A live info without a region is about to be bound, by one marker.
SlotsOwned ==
  /\ \A at \in DOMAIN info : info[at].region = Null =>
       \E t \in Markers : Binds(t) /\ job[t].at = at
  /\ \A t \in Markers : Binds(t) => job[t].at \in Current /\ info[job[t].at] = EmptyInfo
  /\ \A t, u \in Markers : t # u /\ Binds(t) /\ Binds(u) => job[t].at # job[u].at

\* What is garbage while a cycle is marking has no live info of the cycle.
GarbageUnbound == Marking => \A at \in Current : info[at].region \notin garbage

\* The unbinding walk is at a live info of the previous space or at the end,
\* and what it has passed is bound to no region that is no garbage.
WalkOK ==
  phase = "unbind" =>
    /\ walk.position = position[Previous]["live"]
    /\ walk.current \in Old \/ walk.current = walk.position
    /\ \A r \in Regions \ garbage :
         liveInfo[r] \in Old => walk.current <= liveInfo[r]

\* The position of the current live-info zone counts its live infos.
SlotsCounted ==
  /\ IsFiniteSet(Current)
  /\ position[tag]["live"] = ZoneStart(tag, "live") + LiveInfoSize * Cardinality(Current)

\* The bitmaps allocated in this cycle, as <<region, kind>>, and their units.
Taken ==
  {p \in Regions \X Kinds :
     \/ \E at \in Current : info[at].region = p[1] /\ info[at].bitmap[p[2]] \in Nat
     \/ \E t \in Markers : Fills(t) /\ job[t].region = p[1] /\ job[t].kind = p[2]}

UnitsTaken(T) ==
  {q \in (1..UnitCount) \X Kinds : \E r \in Regions : q[1] \in UnitsOf[r] /\ <<r, q[2]>> \in T}

\* The position of the current bitmap zone counts them.
BitsCounted ==
  position[tag]["bits"] = ZoneStart(tag, "bits") + HeaderSize * Cardinality(Taken)
                            + WordsSize * Cardinality(UnitsTaken(Taken))

InBits(b, s) == ZoneStart(s, "bits") <= b[1] /\ b[1] + b[2] <= position[s]["bits"]

BitsInZone ==
  /\ \A b \in written : b[2] > 0 /\ InBits(b, SpaceOf(b[1]))
  /\ \A t \in Markers : Fills(t) => SpaceOf(job[t].at) = tag /\ InBits(Extent(job[t]), tag)

BitsApart ==
  /\ \A a, b \in written : a # b => Apart(a, b)
  /\ \A t \in Markers, b \in written : Fills(t) => Apart(b, Extent(job[t]))
  /\ \A t, u \in Markers : t # u /\ Fills(t) /\ Fills(u) => Apart(Extent(job[t]), Extent(job[u]))

IInv ==
  /\ TypeOK /\ InfoOK
  /\ JobsHold /\ JobsDiffer
  /\ SlotsInZone /\ SlotsApart /\ SlotsChained /\ SlotsOwned /\ SlotsCounted
  /\ PreviousEmpty /\ GarbageUnbound /\ WalkOK
  /\ BindingsCurrent /\ MarksKept /\ NeverFatal
  /\ BitsInZone /\ BitsApart /\ BitsCounted
  /\ ZonesHold

\* What is committed: the bytes of the current space below the last commit.
CommitsCover ==
  /\ ~CommitsOnDemand => backed = Mapping
  /\ CommitsOnDemand =>
       /\ \A s \in Tags, z \in Zones : position[s][z] <= lastCommit[s][z]
       /\ \A z \in Zones, x \in Nat :
            ZoneStart(tag, z) <= x /\ x < lastCommit[tag][z] /\ x < (tag + 1) * SpaceSize
              => x \div PageSize \in backed

-----------------------------------------------------------------------------
(* Arithmetic and layout *)

\* What integer division says (ForwardDataSpaceAllocate rounds to pages).
LEMMA DivFacts ==
  ASSUME NEW a \in Nat, NEW b \in Nat \ {0}
  PROVE  /\ a \div b \in Nat
         /\ b * (a \div b) <= a
         /\ a < b * (a \div b) + b
BY SMT

\* A quotient is the one number whose multiples enclose the dividend.
LEMMA DivUnique ==
  ASSUME NEW a \in Nat, NEW b \in Nat \ {0}, NEW q \in Nat, b * q <= a, a < b * q + b
  PROVE  a \div b = q
BY SMT

\* Division is monotonic.
LEMMA DivMono ==
  ASSUME NEW a \in Nat, NEW c \in Nat, NEW b \in Nat \ {0}, a <= c
  PROVE  a \div b <= c \div b
BY SMT

LEMMA MulMono ==
  ASSUME NEW a \in Nat, NEW b \in Nat, NEW c \in Nat, a <= b
  PROVE  c * a <= c * b
BY SMT

LEMMA MulNat ==
  ASSUME NEW a \in Nat, NEW b \in Nat
  PROVE  a * b \in Nat
BY SMT

\* Rounding up to a page (AllocUtilRndUp).
LEMMA RoundUpFacts ==
  ASSUME NEW x \in Nat
  PROVE  /\ RoundUp(x) \in Nat
         /\ x <= RoundUp(x) /\ RoundUp(x) < x + PageSize
         /\ \E n \in Nat : RoundUp(x) = PageSize * n
<1>1. PageSize \in Nat \ {0}
  BY ForwardAssumption
<1> DEFINE n == (x + PageSize - 1) \div PageSize
<1>2. /\ n \in Nat
      /\ PageSize * n <= x + PageSize - 1
      /\ x + PageSize - 1 < PageSize * n + PageSize
  <2>1. x + PageSize - 1 \in Nat
    BY <1>1
  <2> QED BY <1>1, <2>1, DivFacts
<1>3. PageSize * n \in Nat
  BY <1>1, <1>2, MulNat
<1>4. RoundUp(x) = PageSize * n
  <2> HIDE DEF n
  <2>1. n * PageSize = PageSize * n
    BY <1>1, <1>2
  <2> QED BY <2>1 DEF RoundUp, n
<1> QED
  BY <1>1, <1>2, <1>3, <1>4

KindCount == Cardinality(Kinds)
LiveBytes == UnitCount * LiveInfoSize
BitBytes == UnitCount * (KindCount * (HeaderSize + WordsSize))

\* A space is as long as its two zones, rounded to a page.
LEMMA SpaceFacts ==
  /\ LiveBytes \in Nat /\ BitBytes \in Nat /\ KindCount \in Nat
  /\ SpaceSize \in Nat /\ SpaceSize > 0
  /\ LiveBytes + BitBytes <= SpaceSize
  /\ \E n \in Nat : SpaceSize = PageSize * n
<1>1. KindCount \in Nat
  BY ForwardAssumption, FS_CardinalityType DEF KindCount
<1>2. /\ UnitCount \in Nat \ {0} /\ LiveInfoSize \in Nat \ {0}
      /\ HeaderSize \in Nat \ {0} /\ WordsSize \in Nat \ {0}
  BY ForwardAssumption
<1>3. KindCount * (HeaderSize + WordsSize) \in Nat
  BY <1>1, <1>2, MulNat
<1>4. LiveBytes \in Nat /\ BitBytes \in Nat
  BY <1>2, <1>3, MulNat DEF LiveBytes, BitBytes
<1>5. LiveBytes > 0
  BY <1>2 DEF LiveBytes
<1>6. SpaceSize = RoundUp(LiveBytes + BitBytes)
  <2>1. UnitCount * (LiveInfoSize + KindCount * (HeaderSize + WordsSize)) = LiveBytes + BitBytes
    <3> DEFINE c == KindCount * (HeaderSize + WordsSize)
    <3>1. c \in Nat BY <1>3
    <3> HIDE DEF c
    <3>2. UnitCount * (LiveInfoSize + c) = UnitCount * LiveInfoSize + UnitCount * c
      BY <1>2, <3>1
    <3> QED BY <3>2 DEF c, LiveBytes, BitBytes
  <2> QED BY <2>1 DEF SpaceSize, KindCount
<1> QED
  BY <1>1, <1>4, <1>5, <1>6, RoundUpFacts

\* Where the four zones start and end.
LEMMA Layout ==
  /\ ZoneStart(0, "live") = 0
  /\ ZoneEnd(0, "live") = LiveBytes
  /\ ZoneStart(0, "bits") = LiveBytes
  /\ ZoneEnd(0, "bits") = SpaceSize
  /\ ZoneStart(1, "live") = SpaceSize
  /\ ZoneEnd(1, "live") = SpaceSize + LiveBytes
  /\ ZoneStart(1, "bits") = SpaceSize + LiveBytes
  /\ ZoneEnd(1, "bits") = SpaceSize + SpaceSize
BY SpaceFacts DEF ZoneStart, ZoneEnd, LiveBytes

\* Zones are intervals of natural numbers, one behind the other in a space.
LEMMA Zones4 ==
  ASSUME NEW s \in Tags
  PROVE  /\ ZoneStart(s, "live") \in Nat /\ ZoneEnd(s, "live") \in Nat
         /\ ZoneStart(s, "bits") \in Nat /\ ZoneEnd(s, "bits") \in Nat
         /\ s * SpaceSize \in Nat /\ (s + 1) * SpaceSize \in Nat
         /\ (s + 1) * SpaceSize = s * SpaceSize + SpaceSize
         /\ ZoneStart(s, "live") = s * SpaceSize
         /\ ZoneEnd(s, "live") = ZoneStart(s, "live") + LiveBytes
         /\ ZoneStart(s, "bits") = ZoneEnd(s, "live")
         /\ ZoneStart(s, "bits") + BitBytes <= ZoneEnd(s, "bits")
         /\ ZoneEnd(s, "bits") = (s + 1) * SpaceSize
<1>1. CASE s = 0
  <2>1. s * SpaceSize = 0 /\ (s + 1) * SpaceSize = SpaceSize
    BY <1>1, SpaceFacts
  <2> QED BY <1>1, <2>1, Layout, SpaceFacts
<1>2. CASE s = 1
  <2>1. s * SpaceSize = SpaceSize /\ (s + 1) * SpaceSize = SpaceSize + SpaceSize
    BY <1>2, SpaceFacts
  <2> QED BY <1>2, <2>1, Layout, SpaceFacts
<1> QED
  BY <1>1, <1>2 DEF Tags

\* An address is in the space whose bounds enclose it.
LEMMA SpaceOfFacts ==
  /\ \A x : SpaceOf(x) \in Tags
  /\ \A s \in Tags, x \in Nat :
       s * SpaceSize <= x /\ x < (s + 1) * SpaceSize => SpaceOf(x) = s
<1>1. \A x : SpaceOf(x) \in Tags
  BY DEF SpaceOf, Tags
<1>2. ASSUME NEW s \in Tags, NEW x \in Nat, s * SpaceSize <= x, x < (s + 1) * SpaceSize
      PROVE  SpaceOf(x) = s
  <2>1. CASE s = 0
    BY <1>2, <2>1, SpaceFacts DEF SpaceOf
  <2>2. CASE s = 1
    BY <1>2, <2>2, SpaceFacts DEF SpaceOf
  <2> QED BY <2>1, <2>2 DEF Tags
<1> QED
  BY <1>1, <1>2

-----------------------------------------------------------------------------
(* One lemma per action *)

\* Taken does not change with steps that neither fill a bitmap nor bind one.
LEMMA TakenFrame ==
  ASSUME UNCHANGED <<tag, info>>,
         \A t \in Markers : (Fills(t)' <=> Fills(t)) /\ (Fills(t) => job'[t] = job[t])
  PROVE  Taken' = Taken
BY DEF Taken, Current, Old, Fills

LEMMA StepClaimLiveInfo ==
  ASSUME IInv, NEW t \in Markers, NEW r \in Regions, ClaimLiveInfo(t, r)
  PROVE  IInv'
<1> USE DEF ClaimLiveInfo, IInv
<1>1. TypeOK' /\ InfoOK'
  BY DEF TypeOK, InfoOK, NoJob, Tags
<1>2. JobsHold' /\ JobsDiffer'
  <2>1. /\ job'[t].step = "tag" /\ job'[t].region = r /\ job'[t].kind = Live
        /\ liveInfo'[r] = Claimed
    BY DEF TypeOK, NoJob
  <2>2. ASSUME NEW u \in Markers, u # t
        PROVE  /\ job'[u] = job[u]
               /\ Busy(u) => job[u].region # r /\ liveInfo'[job[u].region] = liveInfo[job[u].region]
    <3>1. job'[u] = job[u]
      BY <2>2 DEF TypeOK
    <3>2. ASSUME Busy(u), job[u].region = r
          PROVE  FALSE
      BY <3>2, ForwardAssumption DEF JobsHold, Current, Old, InfoOK
    <3> QED BY <3>1, <3>2 DEF TypeOK
  <2>3. JobsHold'
    <3> SUFFICES ASSUME NEW u \in Markers, Busy(u)'
                 PROVE  /\ Marking'
                        /\ job'[u].region \in Regions \ garbage'
                        /\ job'[u].step # "tag" => job'[u].space = tag'
                        /\ job'[u].kind = Live => liveInfo'[job'[u].region] = Claimed
                        /\ job'[u].kind # Live =>
                              /\ liveInfo'[job'[u].region] \in Current'
                              /\ info'[liveInfo'[job'[u].region]].bitmap[job'[u].kind] = Claimed
      BY DEF JobsHold
    <3>1. CASE u = t
      BY <2>1, <3>1 DEF Marking
    <3>2. CASE u # t
      BY <2>2, <3>2 DEF Marking, JobsHold, Busy, Current, Old
    <3> QED BY <3>1, <3>2
  <2>4. JobsDiffer'
    BY <2>1, <2>2 DEF JobsDiffer, Busy
  <2> QED BY <2>3, <2>4
<1>3. SlotsInZone' /\ SlotsApart' /\ SlotsCounted'
  BY DEF SlotsInZone, SlotsApart, SlotsCounted, Current, Old
<1>4. SlotsChained'
  BY DEF SlotsChained, Current, Old
<1>5. SlotsOwned'
  BY DEF TypeOK, SlotsOwned, Current, Old, Binds, NoJob
<1>6. PreviousEmpty' /\ GarbageUnbound' /\ NeverFatal'
  BY DEF PreviousEmpty, GarbageUnbound, NeverFatal, Previous, Current, Old, Marking
<1>7. WalkOK' /\ BindingsCurrent' /\ MarksKept'
  BY ForwardAssumption DEF TypeOK, InfoOK, WalkOK, BindingsCurrent, MarksKept, Current, Old, Previous, Marking
<1>8. BitsInZone' /\ BitsApart'
  BY DEF TypeOK, BitsInZone, BitsApart, InBits, Fills, Extent, SizeOf, NoJob
<1>9. BitsCounted'
  <2>1. Taken' = Taken
    BY TakenFrame DEF TypeOK, Fills, NoJob
  <2> QED BY <2>1 DEF BitsCounted, UnitsTaken
<1>10. ZonesHold'
  BY DEF ZonesHold
<1> QED
  BY <1>1, <1>2, <1>3, <1>4, <1>5, <1>6, <1>7, <1>8, <1>9, <1>10

LEMMA StepClaimBitmap ==
  ASSUME IInv, NEW t \in Markers, NEW r \in Regions, NEW k \in Kinds, ClaimBitmap(t, r, k)
  PROVE  IInv'
<1> USE DEF ClaimBitmap, IInv
<1> DEFINE a == liveInfo[r]
<1>1. /\ a \in Current /\ a \in Nat /\ info[a].region = r
      /\ info[a].bitmap[k] = Null /\ k # Live
  BY ForwardAssumption DEF Current, Old, InfoOK, BindingsCurrent
<1>2. /\ InfoOK' /\ DOMAIN info' = DOMAIN info
      /\ Current' = Current /\ Old' = Old
      /\ \A b \in DOMAIN info :
           /\ info'[b].region = info[b].region
           /\ b # a => info'[b] = info[b]
           /\ \A j \in Kinds : info'[b].bitmap[j] =
                IF b = a /\ j = k THEN Claimed ELSE info[b].bitmap[j]
  <2>1. /\ InfoOK' /\ DOMAIN info' = DOMAIN info
        /\ \A b \in DOMAIN info :
             /\ info'[b].region = info[b].region
             /\ b # a => info'[b] = info[b]
             /\ \A j \in Kinds : info'[b].bitmap[j] =
                  IF b = a /\ j = k THEN Claimed ELSE info[b].bitmap[j]
    BY <1>1 DEF InfoOK, InfoRecords, Current, Old
  <2> QED BY <2>1 DEF Current, Old, Previous
<1>3. /\ job'[t].step = "tag" /\ job'[t].region = r /\ job'[t].kind = k
      /\ \A u \in Markers \ {t} : job'[u] = job[u]
  BY DEF TypeOK, NoJob
<1>4. TypeOK'
  BY DEF TypeOK, NoJob, Tags
<1>5. JobsHold' /\ JobsDiffer'
  <2>1. \A u \in Markers \ {t} : Busy(u) => job[u].region # r \/ job[u].kind # k
    BY <1>1, ForwardAssumption DEF JobsHold
  <2>2. JobsHold'
    <3> SUFFICES ASSUME NEW u \in Markers, Busy(u)'
                 PROVE  /\ Marking'
                        /\ job'[u].region \in Regions \ garbage'
                        /\ job'[u].step # "tag" => job'[u].space = tag'
                        /\ job'[u].kind = Live => liveInfo'[job'[u].region] = Claimed
                        /\ job'[u].kind # Live =>
                              /\ liveInfo'[job'[u].region] \in Current'
                              /\ info'[liveInfo'[job'[u].region]].bitmap[job'[u].kind] = Claimed
      BY DEF JobsHold
    <3>1. CASE u = t
      BY <1>1, <1>2, <1>3, <3>1 DEF Marking, Current, Old
    <3>2. CASE u # t
      <4>1. job'[u] = job[u] /\ Busy(u)
        BY <1>3, <3>2 DEF Busy
      <4>2. job[u].kind # Live =>
              /\ liveInfo[job[u].region] \in Current
              /\ info'[liveInfo[job[u].region]].bitmap[job[u].kind] = Claimed
        BY <1>2, <4>1 DEF JobsHold, TypeOK, Current, Old
      <4>3. /\ Marking' /\ garbage' = garbage /\ tag' = tag /\ liveInfo' = liveInfo
        BY DEF Marking
      <4>4. /\ job[u].region \in Regions \ garbage
            /\ job[u].step # "tag" => job[u].space = tag
            /\ job[u].kind = Live => liveInfo[job[u].region] = Claimed
        BY <4>1 DEF JobsHold
      <4>5. Current' = Current
        BY <1>2
      <4> HIDE DEF IInv, ClaimBitmap, a
      <4> QED BY <4>1, <4>2, <4>3, <4>4, <4>5
    <3> QED BY <3>1, <3>2
  <2>3. JobsDiffer'
    BY <1>3, <2>1 DEF JobsDiffer, Busy
  <2> QED BY <2>2, <2>3
<1>6. SlotsInZone' /\ SlotsApart' /\ SlotsCounted'
  BY <1>2 DEF SlotsInZone, SlotsApart, SlotsCounted
<1>7. SlotsChained'
  BY <1>2 DEF SlotsChained
<1>8. SlotsOwned'
  <2>1. \A u \in Markers : (Binds(u)' <=> Binds(u)) /\ (Binds(u) => job'[u] = job[u])
    BY <1>3 DEF Binds
  <2>2. \A u \in Markers : Binds(u) => job[u].at \in Current /\ job[u].at # a
    BY <1>1, ForwardAssumption DEF SlotsOwned, EmptyInfo
  <2>3. ASSUME NEW at \in DOMAIN info', info'[at].region = Null
        PROVE  \E u \in Markers : Binds(u)' /\ job'[u].at = at
    <3>1. at \in DOMAIN info /\ info[at].region = Null
      BY <1>2, <2>3
    <3>2. PICK u \in Markers : Binds(u) /\ job[u].at = at
      BY <3>1 DEF SlotsOwned
    <3>3. Binds(u)' /\ job'[u] = job[u]
      BY <2>1, <3>2
    <3> HIDE DEF IInv, ClaimBitmap, a
    <3> QED BY <3>2, <3>3
  <2>4. \A u \in Markers : Binds(u) => info'[job[u].at] = EmptyInfo
    BY <1>2, <2>2 DEF SlotsOwned, Current, Old
  <2>5. Current' = Current
    BY <1>2
  <2>6. \A u, w \in Markers : u # w /\ Binds(u) /\ Binds(w) => job[u].at # job[w].at
    BY DEF SlotsOwned
  <2> HIDE DEF IInv, ClaimBitmap, a
  <2> QED BY <2>1, <2>2, <2>3, <2>4, <2>5, <2>6 DEF SlotsOwned
<1>9. PreviousEmpty' /\ GarbageUnbound' /\ NeverFatal'
  BY <1>2 DEF PreviousEmpty, GarbageUnbound, NeverFatal, Previous, Marking, Current, Old
<1>10. WalkOK' /\ BindingsCurrent' /\ MarksKept'
  BY <1>2 DEF WalkOK, BindingsCurrent, MarksKept, Previous, Marking
<1>11. BitsInZone' /\ BitsApart'
  BY <1>3 DEF BitsInZone, BitsApart, InBits, Fills, Extent, SizeOf
<1>12. BitsCounted'
  <2>1. Taken' = Taken
    <3>1. \A u \in Markers : (Fills(u)' <=> Fills(u)) /\ (Fills(u) => job'[u] = job[u])
      BY <1>3 DEF Fills
    <3>2. \A p \in Regions \X Kinds :
            (\E at \in Current' : info'[at].region = p[1] /\ info'[at].bitmap[p[2]] \in Nat)
            <=> (\E at \in Current : info[at].region = p[1] /\ info[at].bitmap[p[2]] \in Nat)
      BY <1>1, <1>2, ForwardAssumption DEF Current, Old
    <3> QED BY <3>1, <3>2 DEF Taken, Fills
  <2> QED BY <2>1 DEF BitsCounted, UnitsTaken
<1>13. ZonesHold'
  BY DEF ZonesHold
<1> QED
  BY <1>2, <1>4, <1>5, <1>6, <1>7, <1>8, <1>9, <1>10, <1>11, <1>12, <1>13

LEMMA StepReadTag ==
  ASSUME IInv, NEW t \in Markers, ReadTag(t)
  PROVE  IInv'
<1> USE DEF ReadTag, IInv
<1>1. TypeOK' /\ InfoOK'
  <2>1. job' \in [Markers -> [step : {"idle", "tag", "allocate", "publish"},
                              region : Regions \union {Null}, kind : Kinds \union {Live},
                              space : Tags, at : Nat]]
    BY DEF TypeOK
  <2> QED BY <2>1 DEF TypeOK, InfoOK
<1>2. /\ \A u \in Markers \ {t} : job'[u] = job[u]
      /\ job[t].step = "tag" /\ job'[t].step = "allocate" /\ job'[t].space = tag
      /\ job'[t].region = job[t].region /\ job'[t].kind = job[t].kind
  BY DEF TypeOK
<1>3. JobsHold' /\ JobsDiffer'
  <2>1. JobsHold'
    BY <1>2 DEF JobsHold, Busy, Marking, Current, Old
  <2>2. JobsDiffer'
    BY <1>2 DEF JobsDiffer, Busy
  <2> QED BY <2>1, <2>2
<1>4. SlotsInZone' /\ SlotsApart' /\ SlotsCounted'
  BY DEF SlotsInZone, SlotsApart, SlotsCounted, Current, Old
<1>5. SlotsChained'
  BY DEF SlotsChained, Current, Old
<1>6. SlotsOwned'
  BY <1>2 DEF SlotsOwned, Current, Old, Binds
<1>7. PreviousEmpty' /\ GarbageUnbound' /\ NeverFatal'
  BY DEF PreviousEmpty, GarbageUnbound, NeverFatal, Previous, Current, Old, Marking
<1>8. WalkOK' /\ BindingsCurrent' /\ MarksKept'
  BY DEF WalkOK, BindingsCurrent, MarksKept, Current, Old, Previous, Marking
<1>9. BitsInZone' /\ BitsApart'
  BY <1>2 DEF BitsInZone, BitsApart, InBits, Fills, Extent, SizeOf
<1>10. BitsCounted'
  <2>1. Taken' = Taken
    BY <1>2, TakenFrame DEF Fills
  <2> QED BY <2>1 DEF BitsCounted, UnitsTaken
<1>11. ZonesHold'
  BY DEF ZonesHold
<1> QED
  BY <1>1, <1>3, <1>4, <1>5, <1>6, <1>7, <1>8, <1>9, <1>10, <1>11

LEMMA StepUnbindEnd ==
  ASSUME IInv, UnbindEnd
  PROVE  IInv'
<1> USE DEF UnbindEnd, IInv
<1>1. TypeOK' /\ InfoOK'
  BY DEF TypeOK, InfoOK
<1>2. JobsHold' /\ JobsDiffer'
  BY DEF JobsHold, JobsDiffer, Busy, Marking, Current
<1>3. SlotsInZone' /\ SlotsApart' /\ SlotsCounted'
  BY DEF SlotsInZone, SlotsApart, SlotsCounted, Current
<1>4. SlotsChained'
  BY DEF SlotsChained
<1>5. SlotsOwned'
  BY DEF SlotsOwned, Current, Binds
<1>6. PreviousEmpty' /\ GarbageUnbound' /\ NeverFatal' /\ WalkOK' /\ MarksKept'
  BY DEF PreviousEmpty, GarbageUnbound, NeverFatal, WalkOK, MarksKept, Current, Marking
<1>7. BindingsCurrent'
  <2>1. ASSUME NEW r \in Regions \ garbage, liveInfo[r] \in Nat
        PROVE  SpaceOf(liveInfo[r]) = tag
    <3>1. SUFFICES ASSUME SpaceOf(liveInfo[r]) = Previous  PROVE FALSE
      BY SpaceOfFacts DEF TypeOK, Tags, Previous
    <3>2. liveInfo[r] \in Old /\ liveInfo[r] < position[Previous]["live"]
      BY <2>1, <3>1 DEF BindingsCurrent, Old
    <3>3. walk.current <= liveInfo[r] /\ walk.position = position[Previous]["live"]
      BY <3>2 DEF WalkOK
    <3>4. walk.current >= walk.position /\ walk.current \in Nat /\ walk.position \in Nat
      BY DEF TypeOK
    <3> QED BY <2>1, <3>2, <3>3, <3>4
  <2> QED BY <2>1 DEF BindingsCurrent
<1>8. BitsInZone' /\ BitsApart'
  BY DEF BitsInZone, BitsApart, InBits, Fills, Extent, SizeOf
<1>9. BitsCounted'
  <2>1. Taken' = Taken
    BY TakenFrame DEF Fills
  <2> QED BY <2>1 DEF BitsCounted, UnitsTaken
<1>10. ZonesHold'
  BY DEF ZonesHold
<1> QED
  BY <1>1, <1>2, <1>3, <1>4, <1>5, <1>6, <1>7, <1>8, <1>9, <1>10

LEMMA StepEndMarking ==
  ASSUME IInv, EndMarking
  PROVE  IInv'
<1> USE DEF EndMarking, IInv
<1>1. TypeOK' /\ InfoOK'
  BY DEF TypeOK, InfoOK
<1>2. JobsHold' /\ JobsDiffer'
  BY DEF JobsHold, JobsDiffer, Busy
<1>3. SlotsInZone' /\ SlotsApart' /\ SlotsCounted'
  BY DEF SlotsInZone, SlotsApart, SlotsCounted, Current
<1>4. SlotsChained'
  BY DEF SlotsChained
<1>5. SlotsOwned'
  BY DEF SlotsOwned, Current, Binds
<1>6. PreviousEmpty' /\ GarbageUnbound' /\ NeverFatal' /\ WalkOK' /\ MarksKept'
  BY DEF PreviousEmpty, GarbageUnbound, NeverFatal, WalkOK, MarksKept, Current, Old, Marking, Previous
<1>7. BindingsCurrent'
  BY DEF BindingsCurrent
<1>8. BitsInZone' /\ BitsApart'
  BY DEF BitsInZone, BitsApart, InBits, Fills, Extent, SizeOf
<1>9. BitsCounted'
  <2>1. Taken' = Taken
    BY TakenFrame DEF Fills
  <2> QED BY <2>1 DEF BitsCounted, UnitsTaken
<1>10. ZonesHold'
  BY DEF ZonesHold
<1> QED
  BY <1>1, <1>2, <1>3, <1>4, <1>5, <1>6, <1>7, <1>8, <1>9, <1>10

LEMMA StepBecomeGarbage ==
  ASSUME IInv, NEW r \in Regions, BecomeGarbage(r)
  PROVE  IInv'
<1> USE DEF BecomeGarbage, IInv
<1>1. TypeOK' /\ InfoOK'
  BY DEF TypeOK, InfoOK
<1>2. JobsHold' /\ JobsDiffer'
  BY DEF JobsHold, JobsDiffer, Busy, Marking
<1>3. SlotsInZone' /\ SlotsApart' /\ SlotsCounted'
  BY DEF SlotsInZone, SlotsApart, SlotsCounted, Current
<1>4. SlotsChained'
  BY DEF SlotsChained
<1>5. SlotsOwned'
  BY DEF SlotsOwned, Current, Binds
<1>6. PreviousEmpty' /\ GarbageUnbound' /\ NeverFatal' /\ WalkOK' /\ MarksKept'
  BY DEF PreviousEmpty, GarbageUnbound, NeverFatal, WalkOK, MarksKept, Current, Old, Marking, Previous
<1>7. BindingsCurrent'
  BY DEF BindingsCurrent
<1>8. BitsInZone' /\ BitsApart'
  BY DEF BitsInZone, BitsApart, InBits, Fills, Extent, SizeOf
<1>9. BitsCounted'
  <2>1. Taken' = Taken
    BY TakenFrame DEF Fills
  <2> QED BY <2>1 DEF BitsCounted, UnitsTaken
<1>10. ZonesHold'
  BY DEF ZonesHold
<1> QED
  BY <1>1, <1>2, <1>3, <1>4, <1>5, <1>6, <1>7, <1>8, <1>9, <1>10

LEMMA StepInitRegionInfo ==
  ASSUME IInv, NEW r \in Regions, InitRegionInfo(r)
  PROVE  IInv'
<1> USE DEF InitRegionInfo, IInv
<1>1. TypeOK' /\ InfoOK'
  BY DEF TypeOK, InfoOK
<1>2. /\ liveInfo'[r] = Null /\ r \in garbage
      /\ \A q \in Regions \ {r} : liveInfo'[q] = liveInfo[q]
  BY DEF TypeOK
<1>3. JobsHold' /\ JobsDiffer'
  <2>1. \A u \in Markers : Busy(u) => job[u].region \in Regions \ {r}
    BY DEF JobsHold
  <2>2. JobsHold'
    BY <1>2, <2>1 DEF JobsHold, Busy, Marking, Current
  <2> QED BY <2>2 DEF JobsDiffer, Busy
<1>4. SlotsInZone' /\ SlotsApart' /\ SlotsCounted'
  BY DEF SlotsInZone, SlotsApart, SlotsCounted, Current
<1>5. SlotsChained'
  BY DEF SlotsChained
<1>6. SlotsOwned'
  BY DEF SlotsOwned, Current, Binds
<1>7. PreviousEmpty' /\ GarbageUnbound' /\ NeverFatal'
  BY DEF PreviousEmpty, GarbageUnbound, NeverFatal, Current, Old, Marking, Previous
<1>8. WalkOK'
  <2>1. Null \notin Old
    BY ForwardAssumption DEF InfoOK, Old
  <2> QED BY <1>2, <2>1 DEF WalkOK, Old, Previous
<1>9. BindingsCurrent'
  BY <1>2, ForwardAssumption DEF BindingsCurrent
<1>10. MarksKept'
  <2>1. Marking => \A at \in DOMAIN info : SpaceOf(at) = tag => info[at].region # r
    BY <1>2 DEF GarbageUnbound, Current
  <2>2. \A at \in DOMAIN info : info[at].region # Null => info[at].region \in Regions
    BY DEF InfoOK, InfoRecords
  <2> QED BY <1>2, <2>1, <2>2 DEF MarksKept, Marking
<1>11. BitsInZone' /\ BitsApart'
  BY DEF BitsInZone, BitsApart, InBits, Fills, Extent, SizeOf
<1>12. BitsCounted'
  <2>1. Taken' = Taken
    BY TakenFrame DEF Fills
  <2> QED BY <2>1 DEF BitsCounted, UnitsTaken
<1>13. ZonesHold'
  BY DEF ZonesHold
<1> QED
  BY <1>1, <1>3, <1>4, <1>5, <1>6, <1>7, <1>8, <1>9, <1>10, <1>11, <1>12, <1>13

\* The two spaces are different ones.
LEMMA PreviousFacts ==
  ASSUME tag \in Tags
  PROVE  /\ Previous \in Tags /\ Previous # tag
         /\ \A s \in Tags : s = tag \/ s = Previous
BY DEF Tags, Previous

LEMMA StepUnbindPrevious ==
  ASSUME IInv, UnbindPrevious
  PROVE  IInv'
<1> USE DEF IInv
<1> DEFINE a == walk.current
<1>1. /\ phase = "unbind" /\ a < walk.position
      /\ UNCHANGED <<tag, position, lastCommit, backed, info, written, garbage, job>>
  BY DEF UnbindPrevious
<1>2. a \in Old /\ a \in Nat /\ walk.position \in Nat /\ tag \in Tags
  BY <1>1 DEF WalkOK, TypeOK
<1>3. info[a].region # Null
  <2>1. SUFFICES ASSUME info[a].region = Null PROVE FALSE
    OBVIOUS
  <2>2. PICK t \in Markers : Binds(t) /\ job[t].at = a
    BY <1>2, <2>1 DEF SlotsOwned, Old
  <2>3. a \in Current
    BY <2>2 DEF SlotsOwned
  <2> QED BY <1>2, <2>3, PreviousFacts DEF Current, Old
<1>4. /\ phase' = phase
      /\ walk' = [walk EXCEPT !.current = a + LiveInfoSize]
      /\ CheckAndClearLiveInfo(info[a].region, a)
  BY <1>3 DEF UnbindPrevious
<1>5. info[a].region \in Regions
  BY <1>2, <1>3 DEF InfoOK, InfoRecords, Old
<1>6. /\ liveInfo' \in [Regions -> Nat \union {Null, Claimed}]
      /\ \A r \in Regions : liveInfo'[r] =
           IF r = info[a].region /\ r \notin garbage /\ liveInfo[r] = a THEN Null ELSE liveInfo[r]
  BY <1>4, <1>5 DEF CheckAndClearLiveInfo, TypeOK
<1>7. /\ walk'.current = a + LiveInfoSize /\ walk'.position = walk.position
      /\ walk' \in [current : Nat, position : Nat]
      /\ LiveInfoSize \in Nat \ {0}
  BY <1>2, <1>4, ForwardAssumption DEF TypeOK
<1>8. TypeOK' /\ InfoOK'
  BY <1>1, <1>4, <1>6, <1>7 DEF TypeOK, InfoOK
<1>9. a \notin Current /\ a # Claimed
  BY <1>2, PreviousFacts, ForwardAssumption DEF Current, Old
<1>10. JobsHold' /\ JobsDiffer'
  <2>1. \A u \in Markers : Busy(u) => job[u].region \in Regions
                                        /\ liveInfo'[job[u].region] = liveInfo[job[u].region]
    BY <1>6, <1>9 DEF JobsHold
  <2>2. JobsHold'
    BY <1>1, <1>4, <2>1 DEF JobsHold, Busy, Marking, Current
  <2> QED BY <1>1, <2>2 DEF JobsDiffer, Busy
<1>11. SlotsInZone' /\ SlotsApart' /\ SlotsCounted'
  BY <1>1 DEF SlotsInZone, SlotsApart, SlotsCounted, Current
<1>12. SlotsChained'
  BY <1>1, <1>4 DEF SlotsChained
<1>13. SlotsOwned'
  BY <1>1 DEF SlotsOwned, Current, Binds
<1>14. PreviousEmpty' /\ GarbageUnbound' /\ NeverFatal'
  BY <1>1, <1>4 DEF PreviousEmpty, GarbageUnbound, NeverFatal, Current, Old, Marking, Previous
<1>15. WalkOK'
  <2>1. Old' = Old /\ Previous' = Previous
    BY <1>1 DEF Old, Previous
  <2>2. walk'.current \in Old \/ walk'.current = walk'.position
    BY <1>1, <1>2, <1>7, PreviousFacts DEF SlotsChained, WalkOK, Old
  <2>3. ASSUME NEW r \in Regions \ garbage, liveInfo'[r] \in Old
        PROVE  walk'.current <= liveInfo'[r]
    <3>1. Null \notin Old /\ Old \subseteq DOMAIN info /\ Old \subseteq Nat
      BY ForwardAssumption DEF Old, InfoOK
    <3>2. liveInfo'[r] = liveInfo[r] /\ a <= liveInfo[r]
      BY <1>1, <1>6, <2>3, <3>1 DEF WalkOK
    <3>3. liveInfo[r] # a
      <4>1. liveInfo[r] = a => info[a].region = r
        BY <1>2 DEF BindingsCurrent
      <4> QED BY <1>6, <2>3, <3>1, <4>1
    <3>4. liveInfo[r] \in Nat
      BY <2>3, <3>1, <3>2
    <3> QED BY <1>2, <1>7, <2>3, <3>1, <3>2, <3>3, <3>4 DEF SlotsApart
  <2> QED BY <1>1, <2>1, <2>2, <2>3, <1>7 DEF WalkOK
<1>16. BindingsCurrent'
  BY <1>1, <1>4, <1>6, ForwardAssumption DEF BindingsCurrent
<1>17. MarksKept'
  <2>1. \A at \in DOMAIN info : info[at].region # Null => info[at].region \in Regions
    BY DEF InfoOK, InfoRecords
  <2> QED BY <1>1, <1>4, <1>6, <1>9, <2>1 DEF MarksKept, Marking, Current
<1>18. BitsInZone' /\ BitsApart'
  BY <1>1 DEF BitsInZone, BitsApart, InBits, Fills, Extent, SizeOf
<1>19. BitsCounted'
  <2>1. Taken' = Taken
    BY <1>1, TakenFrame DEF Fills
  <2> QED BY <1>1, <2>1 DEF BitsCounted, UnitsTaken
<1>20. ZonesHold'
  BY <1>1 DEF ZonesHold
<1> QED
  BY <1>8, <1>10, <1>11, <1>12, <1>13, <1>14, <1>15, <1>16, <1>17, <1>18, <1>19, <1>20

LEMMA StepSetTagID ==
  ASSUME IInv, SetTagID
  PROVE  IInv'
<1> USE DEF IInv
<1>1. /\ phase = "rest" /\ phase' = "unbind"
      /\ \A t \in Markers : job[t].step = "idle"
      /\ tag' = Previous
      /\ walk' = [current |-> ZoneStart(tag, "live"), position |-> position[tag]["live"]]
      /\ UNCHANGED <<position, lastCommit, backed, info, written, liveInfo, garbage, job>>
  BY DEF SetTagID
<1>2. tag \in Tags /\ tag' \in Tags /\ Previous' = tag /\ Previous \in Tags
  BY <1>1 DEF TypeOK, Previous, Tags
<1>3. Current' = {} /\ Old' = Current
  BY <1>1, <1>2 DEF PreviousEmpty, Current, Old
<1>4. \A t \in Markers : ~Busy(t)' /\ ~Binds(t) /\ ~Binds(t)' /\ ~Fills(t)'
  BY <1>1 DEF Busy, Binds, Fills
<1>5. walk'.current = ZoneStart(tag, "live") /\ walk'.position = position[tag]["live"]
  BY <1>1
<1>6. TypeOK' /\ InfoOK'
  <2>1. walk' \in [current : Nat, position : Nat]
    BY <1>1, <1>2, Zones4 DEF TypeOK, Zones
  <2> QED BY <1>1, <1>2, <2>1 DEF TypeOK, InfoOK
<1>7. JobsHold' /\ JobsDiffer'
  BY <1>4 DEF JobsHold, JobsDiffer
<1>8. SlotsInZone' /\ SlotsApart'
  BY <1>1 DEF SlotsInZone, SlotsApart
<1>9. SlotsCounted'
  <2>1. IsFiniteSet({}) /\ Cardinality({}) = 0
    BY FS_EmptySet
  <2>2. position[Previous]["live"] = ZoneStart(Previous, "live")
    BY <1>1 DEF PreviousEmpty, Zones
  <2>3. ZoneStart(Previous, "live") \in Nat /\ LiveInfoSize \in Nat
    BY <1>2, Zones4, ForwardAssumption
  <2>4. ZoneStart(Previous, "live") = ZoneStart(Previous, "live") + LiveInfoSize * 0
    BY <2>3
  <2> QED BY <1>1, <1>3, <2>1, <2>2, <2>4 DEF SlotsCounted
<1>10. SlotsChained'
  <2>1. \A at \in DOMAIN info : SpaceOf(at) = tag
    BY <1>1, <1>2, SpaceOfFacts, PreviousFacts DEF PreviousEmpty, Old
  <2> QED BY <1>1, <1>2, <2>1, PreviousFacts DEF SlotsChained, PreviousEmpty, Zones
<1>11. SlotsOwned'
  BY <1>1, <1>4 DEF SlotsOwned
<1>12. PreviousEmpty' /\ GarbageUnbound' /\ NeverFatal'
  BY <1>1, <1>3 DEF PreviousEmpty, GarbageUnbound, NeverFatal
<1>13. WalkOK'
  <2>1. ZoneStart(tag, "live") \in Old' \/ ZoneStart(tag, "live") = position[tag]["live"]
    <3>1. \A at \in DOMAIN info : SpaceOf(at) = tag
      BY <1>1, <1>2, SpaceOfFacts, PreviousFacts DEF PreviousEmpty, Old
    <3> QED BY <1>2, <1>3, <3>1 DEF SlotsChained, Current
  <2>2. \A r \in Regions : liveInfo[r] \in Old' => ZoneStart(tag, "live") <= liveInfo[r]
    BY <1>3 DEF SlotsInZone, Current
  <2> QED BY <1>1, <1>2, <1>5, <2>1, <2>2 DEF WalkOK
<1>14. BindingsCurrent'
  BY <1>1 DEF BindingsCurrent
<1>15. MarksKept'
  BY <1>3 DEF MarksKept, Current
<1>16. BitsInZone' /\ BitsApart'
  BY <1>1, <1>4 DEF BitsInZone, BitsApart, InBits
<1>17. BitsCounted'
  <2>1. Taken' = {}
    BY <1>3, <1>4 DEF Taken
  <2>2. UnitsTaken({}) = {} /\ Cardinality({}) = 0
    BY FS_EmptySet DEF UnitsTaken
  <2>3. position[Previous]["bits"] = ZoneStart(Previous, "bits")
    BY <1>1 DEF PreviousEmpty, Zones
  <2>4. ZoneStart(Previous, "bits") \in Nat /\ HeaderSize \in Nat /\ WordsSize \in Nat
    BY <1>2, Zones4, ForwardAssumption
  <2>5. ZoneStart(Previous, "bits") = ZoneStart(Previous, "bits") + HeaderSize * 0 + WordsSize * 0
    BY <2>4
  <2> QED BY <1>1, <2>1, <2>2, <2>3, <2>5 DEF BitsCounted
<1>18. ZonesHold'
  BY <1>1 DEF ZonesHold
<1> QED
  BY <1>6, <1>7, <1>8, <1>9, <1>10, <1>11, <1>12, <1>13, <1>14, <1>15, <1>16, <1>17, <1>18

LEMMA StepReleaseMemory ==
  ASSUME IInv, ReleaseMemory
  PROVE  IInv'
<1> USE DEF IInv
<1>1. /\ phase = "release" /\ phase' = "reset"
      /\ written' = {b \in written : SpaceOf(b[1]) = tag}
      /\ backed' \subseteq backed
      /\ UNCHANGED <<tag, position, lastCommit, liveInfo, garbage, walk, job>>
  BY DEF ReleaseMemory
<1>2. info' = [at \in Current |-> info[at]]
  BY DEF ReleaseMemory, Restrict, Current
<1>3. DOMAIN info' = Current /\ \A at \in Current : info'[at] = info[at]
  BY <1>2
<1>4. tag \in Tags /\ Previous' = Previous
  BY <1>1 DEF TypeOK, Previous
<1>5. Current' = Current /\ Old' = {} /\ Current \subseteq DOMAIN info
  BY <1>1, <1>3, <1>4, PreviousFacts DEF Current, Old
<1>6. TypeOK'
  BY <1>1 DEF TypeOK
<1>7. InfoOK'
  <2>1. \A at \in Current : info[at] \in InfoRecords /\ at \in Nat
    BY <1>5 DEF InfoOK
  <2>2. info' \in [Current -> InfoRecords]
    BY <1>2, <2>1
  <2> QED BY <1>3, <2>1, <2>2 DEF InfoOK
<1>8. JobsHold' /\ JobsDiffer'
  BY <1>1, <1>3, <1>5 DEF JobsHold, JobsDiffer, Busy, Marking
<1>9. SlotsInZone' /\ SlotsApart' /\ SlotsCounted'
  BY <1>1, <1>3, <1>5 DEF SlotsInZone, SlotsApart, SlotsCounted
<1>10. SlotsChained'
  <2>1. SpaceOf(ZoneStart(tag, "live")) = tag
    BY <1>4, Zones4, SpaceOfFacts, SpaceFacts
  <2> QED BY <1>1, <1>3, <1>4, <2>1 DEF SlotsChained, Current
<1>11. SlotsOwned'
  BY <1>1, <1>3, <1>5 DEF SlotsOwned, Binds
<1>12. PreviousEmpty' /\ GarbageUnbound' /\ NeverFatal' /\ WalkOK'
  BY <1>1, <1>3, <1>5 DEF PreviousEmpty, GarbageUnbound, NeverFatal, WalkOK, Marking
<1>13. BindingsCurrent'
  <2>1. \A r \in Regions \ garbage : liveInfo[r] \in Nat => liveInfo[r] \in Current
    BY <1>1 DEF BindingsCurrent, Current
  <2> QED BY <1>1, <1>3, <2>1 DEF BindingsCurrent, Current
<1>14. MarksKept'
  BY <1>1, <1>3 DEF MarksKept, Marking, Current
<1>15. BitsInZone' /\ BitsApart'
  BY <1>1 DEF BitsInZone, BitsApart, InBits, Fills, Extent, SizeOf
<1>16. BitsCounted'
  <2>1. \A t \in Markers : Fills(t)' <=> Fills(t)
    BY <1>1 DEF Fills
  <2>2. Taken' = Taken
    BY <1>1, <1>3, <1>5, <2>1 DEF Taken
  <2> QED BY <1>1, <2>2 DEF BitsCounted, UnitsTaken
<1>17. ZonesHold'
  BY <1>1 DEF ZonesHold
<1> QED
  BY <1>6, <1>7, <1>8, <1>9, <1>10, <1>11, <1>12, <1>13, <1>14, <1>15, <1>16, <1>17

LEMMA StepReset ==
  ASSUME IInv, Reset
  PROVE  IInv'
<1> USE DEF IInv
<1> DEFINE starts == [z \in Zones |-> ZoneStart(Previous, z)]
<1>1. /\ phase = "reset" /\ phase' = "mark"
      /\ position' = [position EXCEPT ![Previous] = starts]
      /\ lastCommit' = [lastCommit EXCEPT ![Previous] = starts]
      /\ UNCHANGED <<tag, backed, info, written, liveInfo, garbage, walk, job>>
  BY DEF Reset
<1>2. /\ tag \in Tags /\ Previous' = Previous /\ Previous \in Tags /\ Previous # tag
      /\ \A s \in Tags : s = tag \/ s = Previous
  BY <1>1, PreviousFacts DEF TypeOK, Previous
<1>3. starts \in [Zones -> Nat]
  BY <1>2, Zones4 DEF Zones
<1>4. /\ position' \in [Tags -> [Zones -> Nat]] /\ lastCommit' \in [Tags -> [Zones -> Nat]]
      /\ position'[tag] = position[tag]
      /\ \A z \in Zones : position'[Previous][z] = ZoneStart(Previous, z)
                            /\ lastCommit'[Previous][z] = ZoneStart(Previous, z)
  BY <1>1, <1>2, <1>3 DEF TypeOK
<1>5. \A at \in DOMAIN info : SpaceOf(at) = tag
  BY <1>1, <1>2, SpaceOfFacts DEF PreviousEmpty, Old
<1>6. \A b \in written : SpaceOf(b[1]) = tag
  BY <1>1 DEF PreviousEmpty
<1>7. TypeOK' /\ InfoOK'
  BY <1>1, <1>4 DEF TypeOK, InfoOK
<1>8. JobsHold' /\ JobsDiffer'
  BY <1>1 DEF JobsHold, JobsDiffer, Busy, Marking, Current
<1>9. SlotsInZone' /\ SlotsApart' /\ SlotsCounted'
  BY <1>1, <1>4, <1>5 DEF SlotsInZone, SlotsApart, SlotsCounted, Current
<1>10. SlotsChained'
  BY <1>1, <1>4 DEF SlotsChained
<1>11. SlotsOwned'
  BY <1>1 DEF SlotsOwned, Current, Binds
<1>12. PreviousEmpty' /\ GarbageUnbound' /\ NeverFatal' /\ WalkOK'
  BY <1>1, <1>2, <1>4, <1>5, <1>6
     DEF PreviousEmpty, GarbageUnbound, NeverFatal, WalkOK, Marking, Current, Old
<1>13. BindingsCurrent'
  BY <1>1, <1>4, <1>5 DEF BindingsCurrent
<1>14. MarksKept'
  BY <1>1 DEF MarksKept, Marking
<1>15. BitsInZone' /\ BitsApart'
  BY <1>1, <1>4, <1>6 DEF BitsInZone, BitsApart, InBits, Fills, Extent, SizeOf
<1>16. BitsCounted'
  <2>1. Taken' = Taken
    BY <1>1, TakenFrame DEF Fills
  <2> QED BY <1>1, <1>4, <2>1 DEF BitsCounted, UnitsTaken
<1>17. ZonesHold'
  <2>1. \A z \in Zones : ZoneStart(Previous, z) <= ZoneEnd(Previous, z)
    BY <1>2, Zones4, SpaceFacts DEF Zones
  <2> QED BY <1>2, <1>4, <2>1 DEF ZonesHold
<1> QED
  BY <1>7, <1>8, <1>9, <1>10, <1>11, <1>12, <1>13, <1>14, <1>15, <1>16, <1>17

LEMMA StepPublishLiveInfo ==
  ASSUME IInv, NEW t \in Markers, PublishLiveInfo(t)
  PROVE  IInv'
<1> USE DEF IInv
<1> DEFINE a == job[t].at
           r == job[t].region
<1>1. /\ Binds(t)
      /\ info' = [info EXCEPT ![a].region = r]
      /\ liveInfo' = [liveInfo EXCEPT ![r] = a]
      /\ job' = [job EXCEPT ![t] = NoJob]
      /\ UNCHANGED <<tag, position, lastCommit, backed, written, garbage, phase, walk>>
  BY DEF PublishLiveInfo, Binds
<1>2. Busy(t) /\ Marking /\ r \in Regions \ garbage /\ liveInfo[r] = Claimed /\ a \in Nat
  BY <1>1 DEF JobsHold, Busy, Binds, TypeOK
<1>3. a \in Current /\ a \in DOMAIN info /\ info[a] = EmptyInfo /\ tag \in Tags
  BY <1>1 DEF SlotsOwned, Current, TypeOK
<1>4. /\ DOMAIN info' = DOMAIN info /\ Current' = Current /\ Old' = Old /\ Previous' = Previous
      /\ info'[a].region = r /\ info'[a].bitmap = [k \in Kinds |-> Null]
  BY <1>1, <1>3 DEF Current, Old, Previous, EmptyInfo
<1>5. \A b \in DOMAIN info : b # a => info'[b] = info[b]
  BY <1>1
<1>6. /\ liveInfo'[r] = a /\ liveInfo' \in [Regions -> Nat \union {Null, Claimed}]
      /\ \A q \in Regions \ {r} : liveInfo'[q] = liveInfo[q]
  BY <1>1, <1>2 DEF TypeOK
<1>7. /\ job'[t] = NoJob /\ ~Busy(t)' /\ ~Binds(t)' /\ ~Fills(t)' /\ ~Fills(t)
      /\ \A u \in Markers \ {t} : job'[u] = job[u]
  BY <1>1 DEF TypeOK, NoJob, Busy, Binds, Fills
<1>8. \A u \in Markers \ {t} : /\ Busy(u)' <=> Busy(u)
                               /\ Binds(u)' <=> Binds(u)
                               /\ Fills(u)' <=> Fills(u)
  BY <1>7 DEF Busy, Binds, Fills
<1>9. Null \notin Regions /\ Null \notin Nat /\ Claimed \notin Nat /\ Claimed \notin Current
      /\ Null \notin Current
  BY ForwardAssumption DEF Current, InfoOK
<1>10. TypeOK'
  <2>1. NoJob \in [step : {"idle", "tag", "allocate", "publish"}, region : Regions \union {Null},
                   kind : Kinds \union {Live}, space : Tags, at : Nat]
    BY DEF NoJob, Tags
  <2> QED BY <1>1, <1>6, <2>1 DEF TypeOK
<1>11. InfoOK'
  <2>1. \A b \in DOMAIN info : info'[b] \in InfoRecords
    <3>1. info'[a] \in InfoRecords
      BY <1>1, <1>2, <1>3 DEF InfoRecords, EmptyInfo
    <3> QED BY <1>5, <3>1 DEF InfoOK
  <2> QED BY <1>1, <1>4, <2>1 DEF InfoOK
<1>12. JobsHold'
  <2> SUFFICES ASSUME NEW u \in Markers, Busy(u)'
               PROVE  /\ Marking'
                      /\ job'[u].region \in Regions \ garbage'
                      /\ job'[u].step # "tag" => job'[u].space = tag'
                      /\ job'[u].kind = Live => liveInfo'[job'[u].region] = Claimed
                      /\ job'[u].kind # Live =>
                            /\ liveInfo'[job'[u].region] \in Current'
                            /\ info'[liveInfo'[job'[u].region]].bitmap[job'[u].kind] = Claimed
    BY DEF JobsHold
  <2>1. u # t /\ Busy(u) /\ job'[u] = job[u]
    BY <1>7, <1>8
  <2>2. job[u].region # r
    BY <1>1, <1>2, <1>9, <2>1 DEF JobsHold, JobsDiffer, Binds
  <2>3. job[u].kind # Live => liveInfo[job[u].region] # a
    BY <1>3, <1>9, <2>1 DEF JobsHold, BindingsCurrent, EmptyInfo, TypeOK, Current, InfoOK
  <2>4. Marking' /\ garbage' = garbage /\ tag' = tag /\ liveInfo'[job[u].region] = liveInfo[job[u].region]
    BY <1>1, <1>2, <1>6, <2>1, <2>2 DEF Marking, JobsHold
  <2>5. job[u].kind # Live => info'[liveInfo[job[u].region]] = info[liveInfo[job[u].region]]
    BY <1>5, <2>1, <2>3 DEF JobsHold, Current
  <2> QED BY <1>4, <2>1, <2>4, <2>5 DEF JobsHold
<1>13. JobsDiffer'
  BY <1>7, <1>8 DEF JobsDiffer
<1>14. SlotsInZone' /\ SlotsApart' /\ SlotsCounted'
  BY <1>1, <1>4 DEF SlotsInZone, SlotsApart, SlotsCounted
<1>15. SlotsChained'
  BY <1>1, <1>4 DEF SlotsChained
<1>16. SlotsOwned'
  <2>1. ASSUME NEW at \in DOMAIN info', info'[at].region = Null
        PROVE  \E u \in Markers : Binds(u)' /\ job'[u].at = at
    <3>1. at # a /\ at \in DOMAIN info /\ info[at].region = Null
      BY <1>2, <1>4, <1>5, <1>9, <2>1
    <3>2. PICK u \in Markers : Binds(u) /\ job[u].at = at
      BY <3>1 DEF SlotsOwned
    <3>3. u # t
      BY <3>1, <3>2
    <3> QED BY <1>7, <1>8, <3>2, <3>3
  <2>2. ASSUME NEW u \in Markers, Binds(u)'
        PROVE  job'[u].at \in Current' /\ info'[job'[u].at] = EmptyInfo
    <3>1. u # t /\ Binds(u) /\ job'[u] = job[u]
      BY <1>7, <1>8, <2>2
    <3>2. job[u].at # a /\ job[u].at \in Current /\ info[job[u].at] = EmptyInfo
      BY <1>1, <3>1 DEF SlotsOwned
    <3> QED BY <1>4, <1>5, <3>1, <3>2 DEF Current
  <2>3. \A u, w \in Markers : u # w /\ Binds(u)' /\ Binds(w)' => job'[u].at # job'[w].at
    BY <1>7, <1>8 DEF SlotsOwned
  <2> QED BY <2>1, <2>2, <2>3 DEF SlotsOwned, EmptyInfo
<1>17. PreviousEmpty' /\ NeverFatal'
  BY <1>1, <1>4 DEF PreviousEmpty, NeverFatal
<1>18. GarbageUnbound'
  BY <1>1, <1>2, <1>4, <1>5 DEF GarbageUnbound, Current, Marking
<1>19. WalkOK'
  <2>1. a \notin Old
    BY <1>3, PreviousFacts DEF Current, Old
  <2> QED BY <1>1, <1>4, <1>6, <2>1 DEF WalkOK
<1>20. BindingsCurrent'
  <2>1. ASSUME NEW q \in Regions \ garbage, q # r, liveInfo[q] \in Nat
        PROVE  liveInfo[q] # a
    BY <1>3, <1>9, <2>1 DEF BindingsCurrent, EmptyInfo
  <2>2. a < position[SpaceOf(a)]["live"] /\ SpaceOf(a) = tag
    <3>1. a + LiveInfoSize <= position[tag]["live"] /\ SpaceOf(a) = tag
      BY <1>3 DEF SlotsInZone, Current
    <3>2. position[tag]["live"] \in Nat /\ LiveInfoSize \in Nat \ {0}
      BY <1>3, ForwardAssumption DEF TypeOK, Zones
    <3> QED BY <1>2, <3>1, <3>2
  <2>3. ASSUME NEW q \in Regions \ garbage', liveInfo'[q] \in Nat
        PROVE  /\ liveInfo'[q] \in DOMAIN info'
               /\ info'[liveInfo'[q]].region = q
               /\ liveInfo'[q] < position'[SpaceOf(liveInfo'[q])]["live"]
               /\ SpaceOf(liveInfo'[q]) = tag' \/ phase' \notin {"release", "reset", "mark"}
    <3>1. CASE q = r
      BY <1>1, <1>3, <1>4, <1>6, <2>2, <3>1
    <3>2. CASE q # r
      <4>1. liveInfo'[q] = liveInfo[q] /\ q \in Regions \ garbage
        BY <1>1, <1>6, <3>2
      <4>2. info'[liveInfo[q]] = info[liveInfo[q]]
        BY <1>5, <2>1, <2>3, <3>2, <4>1 DEF BindingsCurrent
      <4> QED BY <1>1, <1>4, <2>3, <4>1, <4>2 DEF BindingsCurrent
    <3> QED BY <3>1, <3>2
  <2> QED BY <2>3 DEF BindingsCurrent
<1>21. MarksKept'
  <2>1. ASSUME NEW at \in DOMAIN info, SpaceOf(at) = tag, info'[at].region # Null
        PROVE  liveInfo'[info'[at].region] = at
    <3>1. CASE at = a
      BY <1>4, <1>6, <3>1
    <3>2. CASE at # a
      <4>1. info'[at] = info[at]
        BY <1>5, <3>2
      <4>2. info[at].region \in Regions /\ liveInfo[info[at].region] = at
        BY <1>2, <2>1, <4>1 DEF MarksKept, InfoOK, InfoRecords
      <4>3. info[at].region # r
        BY <1>2, <1>9, <2>1, <4>2 DEF Current, InfoOK
      <4> QED BY <1>6, <4>1, <4>2, <4>3
    <3> QED BY <3>1, <3>2
  <2> QED BY <1>1, <1>4, <2>1 DEF MarksKept
<1>22. BitsInZone' /\ BitsApart'
  BY <1>1, <1>7, <1>8 DEF BitsInZone, BitsApart, InBits, Extent, SizeOf
<1>23. BitsCounted'
  <2>1. Taken' = Taken
    <3>1. \A k \in Kinds : info[a].bitmap[k] = Null /\ info'[a].bitmap[k] = Null
      BY <1>3, <1>4 DEF EmptyInfo
    <3>2. \A p \in Regions \X Kinds :
            (\E at \in Current : info'[at].region = p[1] /\ info'[at].bitmap[p[2]] \in Nat)
            <=> (\E at \in Current : info[at].region = p[1] /\ info[at].bitmap[p[2]] \in Nat)
      BY <1>5, <1>9, <3>1 DEF Current
    <3>3. \A p \in Regions \X Kinds :
            (\E u \in Markers : Fills(u)' /\ job'[u].region = p[1] /\ job'[u].kind = p[2])
            <=> (\E u \in Markers : Fills(u) /\ job[u].region = p[1] /\ job[u].kind = p[2])
      BY <1>7, <1>8
    <3> QED BY <1>4, <3>2, <3>3 DEF Taken
  <2> QED BY <1>1, <2>1 DEF BitsCounted, UnitsTaken
<1>24. ZonesHold'
  BY <1>1 DEF ZonesHold
<1> QED
  BY <1>10, <1>11, <1>12, <1>13, <1>14, <1>15, <1>16, <1>17, <1>18, <1>19, <1>20, <1>21,
     <1>22, <1>23, <1>24

\* Every job of a bitmap has a length.
LEMMA SizeFacts ==
  /\ LiveInfoSize \in Nat \ {0} /\ HeaderSize \in Nat \ {0} /\ WordsSize \in Nat \ {0}
  /\ \A r \in Regions : /\ UnitsOf[r] \subseteq 1..UnitCount /\ IsFiniteSet(UnitsOf[r])
                        /\ Cardinality(UnitsOf[r]) \in Nat \ {0}
                        /\ BitmapSize(r) \in Nat \ {0}
<1>1. /\ LiveInfoSize \in Nat \ {0} /\ HeaderSize \in Nat \ {0} /\ WordsSize \in Nat \ {0}
      /\ UnitCount \in Nat
  BY ForwardAssumption
<1>2. ASSUME NEW r \in Regions
      PROVE  /\ UnitsOf[r] \subseteq 1..UnitCount /\ IsFiniteSet(UnitsOf[r])
             /\ Cardinality(UnitsOf[r]) \in Nat \ {0}
             /\ BitmapSize(r) \in Nat \ {0}
  <2>1. UnitsOf[r] \subseteq 1..UnitCount /\ UnitsOf[r] # {}
    BY UnitsAssumption
  <2>2. IsFiniteSet(1..UnitCount)
    BY <1>1, FS_Interval
  <2>3. IsFiniteSet(UnitsOf[r])
    BY <2>1, <2>2, FS_Subset
  <2>4. Cardinality(UnitsOf[r]) \in Nat \ {0}
    BY <2>1, <2>3, FS_CardinalityType, FS_EmptySet
  <2>5. Cardinality(UnitsOf[r]) * WordsSize \in Nat
    BY <1>1, <2>4, MulNat
  <2> QED BY <1>1, <2>1, <2>3, <2>4, <2>5 DEF BitmapSize
<1> QED
  BY <1>1, <1>2

LEMMA StepPublishBitmap ==
  ASSUME IInv, NEW t \in Markers, PublishBitmap(t)
  PROVE  IInv'
<1> USE DEF IInv
<1> DEFINE b == job[t].at
           r == job[t].region
           k == job[t].kind
           a == liveInfo[r]
<1>1. /\ Fills(t)
      /\ info' = [info EXCEPT ![a].bitmap[k] = b]
      /\ written' = written \union {<<b, BitmapSize(r)>>}
      /\ job' = [job EXCEPT ![t] = NoJob]
      /\ UNCHANGED <<tag, position, lastCommit, backed, liveInfo, garbage, phase, walk>>
  BY DEF PublishBitmap, Fills, SizeOf
<1>2. /\ Busy(t) /\ Marking /\ r \in Regions \ garbage /\ k \in Kinds /\ k # Live /\ b \in Nat
      /\ a \in Current /\ info[a].bitmap[k] = Claimed
  BY <1>1 DEF JobsHold, Busy, Fills, TypeOK
<1>3. /\ a \in DOMAIN info /\ a \in Nat /\ SpaceOf(a) = tag /\ tag \in Tags
      /\ info[a].region = r
  BY <1>2 DEF Current, InfoOK, BindingsCurrent, TypeOK
<1>4. /\ InfoOK' /\ DOMAIN info' = DOMAIN info
      /\ \A c \in DOMAIN info :
           /\ info'[c].region = info[c].region
           /\ c # a => info'[c] = info[c]
           /\ \A j \in Kinds : info'[c].bitmap[j] =
                IF c = a /\ j = k THEN b ELSE info[c].bitmap[j]
  BY <1>1, <1>2, <1>3 DEF InfoOK, InfoRecords
<1>5. Current' = Current /\ Old' = Old /\ Previous' = Previous
  BY <1>1, <1>4 DEF Current, Old, Previous
<1>6. /\ job'[t] = NoJob /\ ~Busy(t)' /\ ~Binds(t)' /\ ~Fills(t)' /\ ~Binds(t)
      /\ \A u \in Markers \ {t} : job'[u] = job[u]
  BY <1>1 DEF TypeOK, NoJob, Busy, Binds, Fills
<1>7. \A u \in Markers \ {t} : /\ Busy(u)' <=> Busy(u)
                               /\ Binds(u)' <=> Binds(u)
                               /\ Fills(u)' <=> Fills(u)
  BY <1>6 DEF Busy, Binds, Fills
<1>8. Null \notin Regions /\ Null \notin Nat /\ Claimed \notin Nat
  BY ForwardAssumption
<1>9. /\ BitmapSize(r) \in Nat \ {0} /\ SpaceOf(b) = tag
      /\ InBits(<<b, BitmapSize(r)>>, tag)
      /\ Extent(job[t]) = <<b, BitmapSize(r)>>
  BY <1>1, <1>2, SizeFacts DEF BitsInZone, Extent, SizeOf
<1>10. TypeOK'
  <2>1. NoJob \in [step : {"idle", "tag", "allocate", "publish"}, region : Regions \union {Null},
                   kind : Kinds \union {Live}, space : Tags, at : Nat]
    BY DEF NoJob, Tags
  <2>2. written' \subseteq Nat \X Nat
    BY <1>1, <1>2, <1>9 DEF TypeOK
  <2> QED BY <1>1, <2>1, <2>2 DEF TypeOK
<1>11. JobsHold'
  <2> SUFFICES ASSUME NEW u \in Markers, Busy(u)'
               PROVE  /\ Marking'
                      /\ job'[u].region \in Regions \ garbage'
                      /\ job'[u].step # "tag" => job'[u].space = tag'
                      /\ job'[u].kind = Live => liveInfo'[job'[u].region] = Claimed
                      /\ job'[u].kind # Live =>
                            /\ liveInfo'[job'[u].region] \in Current'
                            /\ info'[liveInfo'[job'[u].region]].bitmap[job'[u].kind] = Claimed
    BY DEF JobsHold
  <2>1. u # t /\ Busy(u) /\ job'[u] = job[u]
    BY <1>6, <1>7
  <2>2. job[u].region # r \/ job[u].kind # k
    BY <1>2, <2>1 DEF JobsDiffer
  <2>3. job[u].kind # Live => job[u].kind \in Kinds /\ liveInfo[job[u].region] \in DOMAIN info
    BY <2>1 DEF JobsHold, Current, TypeOK
  <2>4. job[u].kind # Live /\ liveInfo[job[u].region] = a => job[u].region = r
    BY <1>3, <2>1 DEF JobsHold, BindingsCurrent
  <2>5. job[u].kind # Live =>
          info'[liveInfo[job[u].region]].bitmap[job[u].kind]
            = info[liveInfo[job[u].region]].bitmap[job[u].kind]
    BY <1>4, <2>2, <2>3, <2>4
  <2>6. Marking' /\ garbage' = garbage /\ tag' = tag /\ liveInfo' = liveInfo
    BY <1>1, <1>2 DEF Marking
  <2> QED BY <1>5, <2>1, <2>5, <2>6 DEF JobsHold
<1>12. JobsDiffer'
  BY <1>6, <1>7 DEF JobsDiffer
<1>13. SlotsInZone' /\ SlotsApart' /\ SlotsCounted'
  BY <1>1, <1>4, <1>5 DEF SlotsInZone, SlotsApart, SlotsCounted
<1>14. SlotsChained'
  BY <1>1, <1>4 DEF SlotsChained
<1>15. SlotsOwned'
  <2>1. ASSUME NEW at \in DOMAIN info', info'[at].region = Null
        PROVE  \E u \in Markers : Binds(u)' /\ job'[u].at = at
    <3>1. at \in DOMAIN info /\ info[at].region = Null
      BY <1>4, <2>1
    <3>2. PICK u \in Markers : Binds(u) /\ job[u].at = at
      BY <3>1 DEF SlotsOwned
    <3>3. u # t
      BY <1>6, <3>2
    <3> QED BY <1>6, <1>7, <3>2, <3>3
  <2>2. ASSUME NEW u \in Markers, Binds(u)'
        PROVE  job'[u].at \in Current' /\ info'[job'[u].at] = EmptyInfo
    <3>1. u # t /\ Binds(u) /\ job'[u] = job[u]
      BY <1>6, <1>7, <2>2
    <3>2. job[u].at \in Current /\ info[job[u].at] = EmptyInfo
      BY <3>1 DEF SlotsOwned
    <3>3. job[u].at # a
      BY <1>2, <1>3, <1>8, <3>2 DEF EmptyInfo
    <3> QED BY <1>4, <1>5, <3>1, <3>2, <3>3 DEF Current
  <2>3. \A u, w \in Markers : u # w /\ Binds(u)' /\ Binds(w)' => job'[u].at # job'[w].at
    BY <1>6, <1>7 DEF SlotsOwned
  <2> QED BY <2>1, <2>2, <2>3 DEF SlotsOwned, EmptyInfo
<1>16. PreviousEmpty' /\ NeverFatal'
  BY <1>1, <1>5, <1>9 DEF PreviousEmpty, NeverFatal
<1>17. GarbageUnbound'
  BY <1>1, <1>4, <1>5 DEF GarbageUnbound, Current, Marking
<1>18. WalkOK'
  BY <1>1, <1>5 DEF WalkOK
<1>19. BindingsCurrent'
  BY <1>1, <1>4 DEF BindingsCurrent
<1>20. MarksKept'
  BY <1>1, <1>4 DEF MarksKept, Marking
<1>21. BitsInZone'
  <2>1. \A w \in written' : w[2] > 0 /\ InBits(w, SpaceOf(w[1]))'
    BY <1>1, <1>9 DEF BitsInZone, InBits
  <2>2. \A u \in Markers : Fills(u)' => SpaceOf(job'[u].at) = tag' /\ InBits(Extent(job[u]), tag)'
    BY <1>1, <1>6, <1>7 DEF BitsInZone, InBits, Extent, SizeOf
  <2> QED BY <2>1, <2>2 DEF BitsInZone, InBits
<1>22. BitsApart'
  <2>1. \A w \in written : Apart(w, <<b, BitmapSize(r)>>) /\ Apart(<<b, BitmapSize(r)>>, w)
    BY <1>1, <1>9 DEF BitsApart, Apart
  <2>2. \A u \in Markers \ {t} : Fills(u) => Apart(<<b, BitmapSize(r)>>, Extent(job[u]))
    BY <1>1, <1>9 DEF BitsApart
  <2>3. \A v, w \in written' : v # w => Apart(v, w)
    BY <1>1, <2>1 DEF BitsApart
  <2>4. \A u \in Markers, w \in written' : Fills(u)' => Apart(w, Extent(job'[u]))
    BY <1>1, <1>6, <1>7, <2>2 DEF BitsApart
  <2>5. \A u, w \in Markers : u # w /\ Fills(u)' /\ Fills(w)' => Apart(Extent(job'[u]), Extent(job'[w]))
    BY <1>6, <1>7 DEF BitsApart
  <2> QED BY <2>3, <2>4, <2>5 DEF BitsApart, Extent, SizeOf
<1>23. BitsCounted'
  <2>1. Taken' = Taken
    <3>1. ASSUME NEW p \in Regions \X Kinds
          PROVE  p \in Taken' <=> p \in Taken
      <4>1. CASE p[1] = r /\ p[2] = k
        <5>1. p \in Taken
          BY <1>1, <4>1 DEF Taken
        <5>2. info'[a].region = r /\ info'[a].bitmap[k] = b
          BY <1>2, <1>3, <1>4
        <5>3. p \in Taken'
          BY <1>2, <1>5, <4>1, <5>2 DEF Taken
        <5> QED BY <5>1, <5>3
      <4>2. CASE ~(p[1] = r /\ p[2] = k)
        <5>1. \A at \in Current : info[at].region = p[1] => info'[at].bitmap[p[2]] = info[at].bitmap[p[2]]
          BY <1>3, <1>4, <4>2 DEF Current
        <5>2. \A at \in Current : info'[at].region = info[at].region
          BY <1>4 DEF Current
        <5>3. (\E u \in Markers : Fills(u)' /\ job'[u].region = p[1] /\ job'[u].kind = p[2])
              <=> (\E u \in Markers : Fills(u) /\ job[u].region = p[1] /\ job[u].kind = p[2])
          BY <1>6, <1>7, <4>2
        <5> QED BY <1>5, <5>1, <5>2, <5>3 DEF Taken
      <4> QED BY <4>1, <4>2
    <3> QED BY <3>1 DEF Taken
  <2> QED BY <1>1, <2>1 DEF BitsCounted, UnitsTaken
<1>24. ZonesHold'
  BY <1>1 DEF ZonesHold
<1> QED
  BY <1>4, <1>10, <1>11, <1>12, <1>13, <1>14, <1>15, <1>16, <1>17, <1>18, <1>19, <1>20, <1>21,
     <1>22, <1>23, <1>24

-----------------------------------------------------------------------------
(* Capacity: no zone overruns its end *)

LEMMA InjectionCardinality ==
  ASSUME NEW S, NEW T, IsFiniteSet(T), NEW f \in [S -> T],
         \A a, b \in S : f[a] = f[b] => a = b
  PROVE  IsFiniteSet(S) /\ Cardinality(S) <= Cardinality(T)
<1>1. f \in Injection(S, T)
  BY DEF Injection, IsInjective
<1> QED BY <1>1, FS_Injection

\* There are at most as many regions as units, and fewer by the units a region
\* has beyond its first: every region has a unit of its own.
LEMMA RegionsFew ==
  /\ IsFiniteSet(Regions) /\ Cardinality(Regions) \in Nat
  /\ Cardinality(Regions) <= UnitCount
  /\ \A r \in Regions : Cardinality(Regions) + Cardinality(UnitsOf[r]) <= UnitCount + 1
<1>1. UnitCount \in Nat
  BY ForwardAssumption
<1>2. IsFiniteSet(1..UnitCount) /\ Cardinality(1..UnitCount) = UnitCount
  BY <1>1, FS_Interval
<1> DEFINE g == [r \in Regions |-> CHOOSE u : u \in UnitsOf[r]]
<1>3. \A r \in Regions : g[r] \in UnitsOf[r] /\ g[r] \in 1..UnitCount
  BY UnitsAssumption
<1>4. \A r, s \in Regions : g[r] = g[s] => r = s
  BY <1>3, UnitsAssumption
<1>5. g \in [Regions -> 1..UnitCount]
  BY <1>3
<1> HIDE DEF g
<1>6. IsFiniteSet(Regions) /\ Cardinality(Regions) <= Cardinality(1..UnitCount)
  BY <1>2, <1>4, <1>5, InjectionCardinality
<1>7. Cardinality(Regions) \in Nat
  BY <1>6, FS_CardinalityType
<1>8. ASSUME NEW r \in Regions
      PROVE  Cardinality(Regions) + Cardinality(UnitsOf[r]) <= UnitCount + 1
  <2> DEFINE Spare == UnitsOf[r] \ {g[r]}
             Rest == (1..UnitCount) \ Spare
  <2>1. /\ UnitsOf[r] \subseteq 1..UnitCount /\ IsFiniteSet(UnitsOf[r])
        /\ Cardinality(UnitsOf[r]) \in Nat
    BY SizeFacts
  <2>2. IsFiniteSet(Spare) /\ Cardinality(Spare) = Cardinality(UnitsOf[r]) - 1
    BY <1>3, <2>1, FS_RemoveElement
  <2>3. IsFiniteSet(Rest) /\ Cardinality(Rest) = UnitCount - Cardinality(Spare)
    <3>1. (1..UnitCount) \cap Spare = Spare
      BY <2>1
    <3> HIDE DEF Spare
    <3>2. /\ IsFiniteSet((1..UnitCount) \ Spare)
          /\ Cardinality((1..UnitCount) \ Spare) = Cardinality(1..UnitCount) - Cardinality(Spare)
      BY <1>2, <3>1, FS_Difference
    <3> QED BY <1>2, <3>2
  <2>4. \A s \in Regions : g[s] \in Rest
    BY <1>3, UnitsAssumption
  <2>5. g \in [Regions -> Rest]
    BY <1>5, <2>4
  <2> HIDE DEF Rest, Spare
  <2>6. Cardinality(Regions) <= Cardinality(Rest)
    BY <1>4, <2>3, <2>5, InjectionCardinality
  <2> QED BY <1>1, <1>7, <2>1, <2>2, <2>3, <2>6
<1> QED
  BY <1>2, <1>6, <1>7, <1>8

\* A live info that is allocated fits: each one of the cycle belongs to a
\* region of its own, and the one to be allocated to another.
LEMMA LiveFits ==
  ASSUME IInv, NEW t \in Markers, job[t].step = "allocate", job[t].kind = Live
  PROVE  position[tag]["live"] + LiveInfoSize <= ZoneEnd(tag, "live")
<1> USE DEF IInv
<1> DEFINE r == job[t].region
           Owner(at) == IF info[at].region # Null THEN info[at].region
                        ELSE job[CHOOSE u \in Markers : Binds(u) /\ job[u].at = at].region
           f == [at \in Current |-> Owner(at)]
<1>1. Busy(t) /\ Marking /\ r \in Regions /\ liveInfo[r] = Claimed /\ tag \in Tags /\ ~Binds(t)
  BY DEF JobsHold, Busy, Binds, TypeOK
<1>2. Claimed \notin Current /\ Null \notin Regions
  BY ForwardAssumption DEF Current, InfoOK
<1>3. ASSUME NEW at \in Current, info[at].region # Null
      PROVE  Owner(at) \in Regions /\ liveInfo[Owner(at)] = at
  BY <1>1, <1>3 DEF MarksKept, Current, InfoOK, InfoRecords
<1>4. ASSUME NEW at \in Current, info[at].region = Null
      PROVE  \E u \in Markers : Binds(u) /\ job[u].at = at /\ Owner(at) = job[u].region
                                  /\ Owner(at) \in Regions /\ liveInfo[Owner(at)] = Claimed
  <2> DEFINE u == CHOOSE u \in Markers : Binds(u) /\ job[u].at = at
  <2>1. \E w \in Markers : Binds(w) /\ job[w].at = at
    BY <1>4 DEF SlotsOwned, Current
  <2>2. u \in Markers /\ Binds(u) /\ job[u].at = at
    BY <2>1
  <2>3. job[u].region \in Regions /\ liveInfo[job[u].region] = Claimed
    BY <2>2 DEF JobsHold, Busy, Binds
  <2> QED BY <1>4, <2>2, <2>3
<1> HIDE DEF Owner
<1>5. \A at \in Current : Owner(at) \in Regions \ {r}
  <2>1. ASSUME NEW at \in Current, info[at].region = Null
        PROVE  Owner(at) # r
    <3>1. PICK u \in Markers : Binds(u) /\ Owner(at) = job[u].region
      BY <1>4, <2>1
    <3> QED BY <1>1, <3>1 DEF JobsDiffer, Binds, Busy
  <2> QED BY <1>1, <1>2, <1>3, <1>4, <2>1
<1>6. ASSUME NEW a \in Current, NEW b \in Current, Owner(a) = Owner(b)
      PROVE  a = b
  <2>1. CASE info[a].region # Null
    BY <1>2, <1>3, <1>4, <1>6, <2>1
  <2>2. CASE info[b].region # Null
    BY <1>2, <1>3, <1>4, <1>6, <2>2
  <2>3. CASE info[a].region = Null /\ info[b].region = Null
    <3>1. PICK u \in Markers : Binds(u) /\ job[u].at = a /\ Owner(a) = job[u].region
      BY <1>4, <2>3
    <3>2. PICK w \in Markers : Binds(w) /\ job[w].at = b /\ Owner(b) = job[w].region
      BY <1>4, <2>3
    <3>3. u = w
      BY <1>6, <3>1, <3>2 DEF JobsDiffer, Binds, Busy
    <3> QED BY <3>1, <3>2, <3>3
  <2> QED BY <2>1, <2>2, <2>3
<1>7. f \in [Current -> Regions \ {r}] /\ \A a, b \in Current : f[a] = f[b] => a = b
  BY <1>5, <1>6
<1> HIDE DEF f
<1>8. /\ IsFiniteSet(Regions \ {r})
      /\ Cardinality(Regions \ {r}) = Cardinality(Regions) - 1
  BY <1>1, RegionsFew, FS_RemoveElement
<1>9. IsFiniteSet(Current) /\ Cardinality(Current) <= Cardinality(Regions) - 1
  BY <1>7, <1>8, InjectionCardinality
<1>10. Cardinality(Current) \in Nat /\ UnitCount \in Nat /\ Cardinality(Current) + 1 <= UnitCount
  BY <1>9, FS_CardinalityType, RegionsFew, ForwardAssumption
<1>11. LiveInfoSize * (Cardinality(Current) + 1) <= LiveInfoSize * UnitCount
  BY <1>10, SizeFacts, MulMono
<1>12. LiveInfoSize * (Cardinality(Current) + 1) = LiveInfoSize * Cardinality(Current) + LiveInfoSize
  BY <1>10, SizeFacts
<1>13. LiveInfoSize * UnitCount = LiveBytes /\ LiveInfoSize * Cardinality(Current) \in Nat
  BY <1>10, SizeFacts, MulNat DEF LiveBytes
<1> QED
  BY <1>1, <1>11, <1>12, <1>13, Zones4, SpaceFacts, SizeFacts DEF SlotsCounted

\* One more bitmap takes the units of its region, all of which are new.
LEMMA UnitsTakenAdd ==
  ASSUME NEW T, T \subseteq Regions \X Kinds, NEW r \in Regions, NEW k \in Kinds, <<r, k>> \notin T
  PROVE  LET U == T \union {<<r, k>>}
         IN  /\ IsFiniteSet(T) /\ IsFiniteSet(UnitsTaken(T))
             /\ Cardinality(U) = Cardinality(T) + 1
             /\ Cardinality(UnitsTaken(U)) = Cardinality(UnitsTaken(T)) + Cardinality(UnitsOf[r])
<1> DEFINE U == T \union {<<r, k>>}
           New == UnitsOf[r] \X {k}
<1>1. IsFiniteSet(T)
  <2>1. IsFiniteSet(Regions \X Kinds)
    BY RegionsFew, ForwardAssumption, FS_Product
  <2> QED BY <2>1, FS_Subset
<1>2. Cardinality(U) = Cardinality(T) + 1
  BY <1>1, FS_AddElement
<1>3. IsFiniteSet(UnitsTaken(T)) /\ Cardinality(UnitsTaken(T)) \in Nat
  <2>1. IsFiniteSet(1..UnitCount)
    BY ForwardAssumption, FS_Interval
  <2>2. IsFiniteSet((1..UnitCount) \X Kinds)
    BY <2>1, ForwardAssumption, FS_Product
  <2>3. UnitsTaken(T) \subseteq (1..UnitCount) \X Kinds
    BY DEF UnitsTaken
  <2> HIDE DEF UnitsTaken
  <2> QED BY <2>2, <2>3, FS_Subset, FS_CardinalityType
<1>4. UnitsTaken(U) = UnitsTaken(T) \union New
  <2>1. UnitsOf[r] \subseteq 1..UnitCount
    BY SizeFacts
  <2>2. ASSUME NEW q \in UnitsTaken(U) PROVE q \in UnitsTaken(T) \union New
    BY <2>2 DEF UnitsTaken
  <2>3. ASSUME NEW q \in UnitsTaken(T) \union New PROVE q \in UnitsTaken(U)
    BY <2>1, <2>3 DEF UnitsTaken
  <2> QED BY <2>2, <2>3
<1>5. UnitsTaken(T) \cap New = {}
  <2>1. SUFFICES ASSUME NEW q \in UnitsTaken(T), q \in New PROVE FALSE
    OBVIOUS
  <2>2. PICK s \in Regions : q[1] \in UnitsOf[s] /\ <<s, q[2]>> \in T
    BY DEF UnitsTaken
  <2>3. q[1] \in UnitsOf[r] /\ q[2] = k
    BY <2>1
  <2>4. s = r
    BY <2>2, <2>3, UnitsAssumption
  <2> QED BY <2>2, <2>3, <2>4
<1>6. IsFiniteSet(New) /\ Cardinality(New) = Cardinality(UnitsOf[r])
  <2>1. IsFiniteSet(UnitsOf[r]) /\ Cardinality(UnitsOf[r]) \in Nat
    BY SizeFacts
  <2>2. IsFiniteSet({k}) /\ Cardinality({k}) = 1
    BY FS_Singleton
  <2>3. IsFiniteSet(New) /\ Cardinality(New) = Cardinality(UnitsOf[r]) * Cardinality({k})
    BY <2>1, <2>2, FS_Product
  <2> QED BY <2>1, <2>2, <2>3
<1> HIDE DEF U, New
<1>7. Cardinality(UnitsTaken(U)) = Cardinality(UnitsTaken(T)) + Cardinality(UnitsOf[r])
  <2>1. Cardinality(UnitsTaken(T) \union New)
          = Cardinality(UnitsTaken(T)) + Cardinality(New) - Cardinality(UnitsTaken(T) \cap New)
    BY <1>3, <1>6, FS_Union
  <2>2. Cardinality(UnitsTaken(T) \cap New) = 0
    BY <1>5, FS_EmptySet
  <2>3. Cardinality(UnitsOf[r]) \in Nat
    BY SizeFacts
  <2>4. Cardinality(UnitsTaken(U)) = Cardinality(UnitsTaken(T) \union New)
    BY <1>4
  <2> HIDE DEF UnitsTaken
  <2> QED BY <1>3, <1>6, <2>1, <2>2, <2>3, <2>4
<1> QED
  BY <1>1, <1>2, <1>3, <1>7 DEF U

\* The headers and words of bitmaps that are all different fit into the zone
\* with one header to spare for every kind and every unit a region has beyond
\* its first.
LEMMA BitmapsFit ==
  ASSUME NEW T, T \subseteq Regions \X Kinds, NEW r \in Regions
  PROVE  HeaderSize * Cardinality(T) + WordsSize * Cardinality(UnitsTaken(T))
           + KindCount * ((Cardinality(UnitsOf[r]) - 1) * HeaderSize) <= BitBytes
<1> DEFINE R == Cardinality(Regions)
           N == Cardinality(UnitsOf[r]) - 1
           K == KindCount
           A == Cardinality(T)
           B == Cardinality(UnitsTaken(T))
<1>1. /\ UnitCount \in Nat /\ K \in Nat /\ R \in Nat /\ N \in Nat
      /\ HeaderSize \in Nat /\ WordsSize \in Nat
      /\ R + N <= UnitCount
  BY RegionsFew, SizeFacts, SpaceFacts, ForwardAssumption
<1>2. A \in Nat /\ A <= R * K
  <2>1. IsFiniteSet(Regions \X Kinds) /\ Cardinality(Regions \X Kinds) = R * K
    BY RegionsFew, ForwardAssumption, FS_Product DEF KindCount
  <2>2. IsFiniteSet(T) /\ Cardinality(T) <= Cardinality(Regions \X Kinds)
    BY <2>1, FS_Subset
  <2> QED BY <2>1, <2>2, FS_CardinalityType
<1>3. B \in Nat /\ B <= UnitCount * K
  <2>1. IsFiniteSet(1..UnitCount) /\ Cardinality(1..UnitCount) = UnitCount
    BY <1>1, FS_Interval
  <2>2. IsFiniteSet((1..UnitCount) \X Kinds) /\ Cardinality((1..UnitCount) \X Kinds) = UnitCount * K
    BY <2>1, ForwardAssumption, FS_Product DEF KindCount
  <2>3. UnitsTaken(T) \subseteq (1..UnitCount) \X Kinds
    BY DEF UnitsTaken
  <2> HIDE DEF UnitsTaken
  <2>4. IsFiniteSet(UnitsTaken(T)) /\ Cardinality(UnitsTaken(T)) <= Cardinality((1..UnitCount) \X Kinds)
    BY <2>2, <2>3, FS_Subset
  <2> QED BY <2>2, <2>4, FS_CardinalityType
<1> HIDE DEF R, N, K, A, B
<1>4. /\ R * K \in Nat /\ UnitCount * K \in Nat /\ N * K \in Nat
      /\ R * K + N * K <= UnitCount * K
  <2>1. R * K \in Nat /\ UnitCount * K \in Nat /\ N * K \in Nat /\ R + N \in Nat
    BY <1>1, MulNat
  <2>2. K * (R + N) <= K * UnitCount
    BY <1>1, <2>1, MulMono
  <2>3. K * (R + N) = R * K + N * K /\ K * UnitCount = UnitCount * K
    BY <1>1
  <2> QED BY <2>1, <2>2, <2>3
<1>5. HeaderSize * A + HeaderSize * (N * K) <= HeaderSize * (UnitCount * K)
  <2>1. A + N * K <= UnitCount * K /\ A + N * K \in Nat
    BY <1>2, <1>4
  <2>2. HeaderSize * (A + N * K) <= HeaderSize * (UnitCount * K)
    BY <1>1, <1>4, <2>1, MulMono
  <2> DEFINE x == N * K
  <2>3. x \in Nat
    BY <1>4
  <2> HIDE DEF x
  <2>4. HeaderSize * (A + x) = HeaderSize * A + HeaderSize * x
    BY <1>1, <1>2, <2>3
  <2> QED BY <2>2, <2>4 DEF x
<1>6. WordsSize * B <= WordsSize * (UnitCount * K)
  BY <1>1, <1>3, <1>4, MulMono
<1>7. /\ HeaderSize * (N * K) = K * (N * HeaderSize)
      /\ HeaderSize * (UnitCount * K) + WordsSize * (UnitCount * K)
           = UnitCount * (K * (HeaderSize + WordsSize))
  BY <1>1
<1>8. /\ HeaderSize * A \in Nat /\ WordsSize * B \in Nat /\ K * (N * HeaderSize) \in Nat
      /\ HeaderSize * (UnitCount * K) \in Nat /\ WordsSize * (UnitCount * K) \in Nat
  BY <1>1, <1>2, <1>3, <1>4, MulNat
<1> QED
  BY <1>5, <1>6, <1>7, <1>8 DEF BitBytes, K, N, A, B

\* A bitmap that is allocated is one the cycle has not allocated before.
LEMMA NotTaken ==
  ASSUME IInv, NEW t \in Markers, job[t].step = "allocate", job[t].kind # Live
  PROVE  /\ job[t].region \in Regions /\ job[t].kind \in Kinds
         /\ Taken \subseteq Regions \X Kinds
         /\ <<job[t].region, job[t].kind>> \notin Taken
<1> USE DEF IInv
<1> DEFINE r == job[t].region
           k == job[t].kind
<1>1. /\ Busy(t) /\ Marking /\ r \in Regions \ garbage /\ k \in Kinds /\ ~Fills(t)
      /\ liveInfo[r] \in Current /\ info[liveInfo[r]].bitmap[k] = Claimed
  BY DEF JobsHold, Busy, Fills, TypeOK
<1>2. ASSUME NEW at \in Current, info[at].region = r
      PROVE  info[at].bitmap[k] \notin Nat
  <2>1. Null \notin Regions /\ Claimed \notin Nat
    BY ForwardAssumption
  <2>2. at = liveInfo[r]
    BY <1>1, <1>2, <2>1 DEF MarksKept, Current
  <2> QED BY <1>1, <2>1, <2>2
<1>3. ASSUME NEW u \in Markers, Fills(u), job[u].region = r, job[u].kind = k
      PROVE  FALSE
  <2>1. u # t /\ Busy(u)
    BY <1>1, <1>3 DEF Fills, Busy
  <2> QED BY <1>1, <1>3, <2>1 DEF JobsDiffer
<1> QED
  BY <1>1, <1>2, <1>3 DEF Taken

\* A bitmap that is allocated fits, with the headers its region does not need
\* to spare.
LEMMA BitsFit ==
  ASSUME IInv, NEW t \in Markers, job[t].step = "allocate", job[t].kind # Live
  PROVE  position[tag]["bits"] + BitmapSize(job[t].region)
           + KindCount * ((Cardinality(UnitsOf[job[t].region]) - 1) * HeaderSize)
         <= ZoneStart(tag, "bits") + BitBytes
<1> DEFINE r == job[t].region
           k == job[t].kind
           U == Taken \union {<<r, k>>}
           n == Cardinality(UnitsOf[r])
<1>1. r \in Regions /\ k \in Kinds /\ Taken \subseteq Regions \X Kinds /\ <<r, k>> \notin Taken
  BY NotTaken
<1>2. tag \in Tags
  BY DEF IInv, TypeOK
<1>3. /\ Cardinality(U) = Cardinality(Taken) + 1
      /\ Cardinality(UnitsTaken(U)) = Cardinality(UnitsTaken(Taken)) + n
      /\ Cardinality(Taken) \in Nat /\ Cardinality(UnitsTaken(Taken)) \in Nat
  BY <1>1, UnitsTakenAdd, FS_CardinalityType
<1>4. HeaderSize * Cardinality(U) + WordsSize * Cardinality(UnitsTaken(U))
        + KindCount * ((n - 1) * HeaderSize) <= BitBytes
  BY <1>1, BitmapsFit
<1>5. n \in Nat \ {0} /\ HeaderSize \in Nat /\ WordsSize \in Nat /\ KindCount \in Nat
      /\ BitBytes \in Nat /\ ZoneStart(tag, "bits") \in Nat
      /\ BitmapSize(r) = HeaderSize + n * WordsSize
  BY <1>1, <1>2, SizeFacts, SpaceFacts, Zones4 DEF BitmapSize
<1> DEFINE A == Cardinality(Taken)
           B == Cardinality(UnitsTaken(Taken))
           X == KindCount * ((n - 1) * HeaderSize)
<1>6. position[tag]["bits"] = ZoneStart(tag, "bits") + HeaderSize * A + WordsSize * B
  BY DEF IInv, BitsCounted
<1>7. A \in Nat /\ B \in Nat
      /\ HeaderSize * (A + 1) + WordsSize * (B + n) + X <= BitBytes
  BY <1>3, <1>4
<1>8. X \in Nat
  BY <1>5, MulNat
<1> HIDE DEF A, B, X, n
<1>9. HeaderSize * (A + 1) = HeaderSize * A + HeaderSize
      /\ WordsSize * (B + n) = WordsSize * B + n * WordsSize
      /\ HeaderSize * A \in Nat /\ WordsSize * B \in Nat /\ n * WordsSize \in Nat
  BY <1>5, <1>7, MulNat
<1>10. position[tag]["bits"] + BitmapSize(r) + X <= ZoneStart(tag, "bits") + BitBytes
  BY <1>5, <1>6, <1>7, <1>8, <1>9
<1> QED
  BY <1>10 DEF X, n

-----------------------------------------------------------------------------
(* Allocation *)

\* What every allocation does: it moves the position of one zone of the space
\* of the tag, and commits.
LEMMA AllocateFacts ==
  ASSUME IInv, NEW t \in Markers, Allocate(t)
  PROVE  LET z == ZoneOf(job[t])
             size == SizeOf(job[t])
         IN
         /\ Busy(t) /\ Marking /\ job[t].space = tag /\ tag \in Tags
         /\ job[t].region \in Regions /\ z \in Zones /\ size \in Nat \ {0}
         /\ position[tag][z] \in Nat
         /\ position'[tag][z] = position[tag][z] + size
         /\ \A s \in Tags, y \in Zones : s # tag \/ y # z => position'[s][y] = position[s][y]
         /\ UNCHANGED <<tag, written, liveInfo, garbage, phase, walk>>
         /\ job'[t].step = "publish" /\ job'[t].at = position[tag][z]
         /\ job'[t].region = job[t].region /\ job'[t].kind = job[t].kind /\ job'[t].space = tag
         /\ \A u \in Markers \ {t} : job'[u] = job[u]
         /\ TypeOK'
<1> USE DEF IInv
<1> DEFINE z == ZoneOf(job[t])
           size == SizeOf(job[t])
           start == position[tag][z]
<1>1. /\ Busy(t) /\ Marking /\ job[t].space = tag /\ tag \in Tags
      /\ job[t].region \in Regions /\ z \in Zones
  BY DEF Allocate, JobsHold, Busy, TypeOK, ZoneOf, Zones
<1>2. size \in Nat \ {0}
  BY <1>1, SizeFacts DEF SizeOf
<1>3. start \in Nat /\ lastCommit[tag][z] \in Nat
  BY <1>1 DEF TypeOK
<1>4. /\ position' = [position EXCEPT ![tag][z] = start + size]
      /\ job' = [job EXCEPT ![t] = [@ EXCEPT !.step = "publish", !.at = start]]
      /\ UNCHANGED <<tag, written, liveInfo, garbage, phase, walk>>
      /\ Commit(tag, z, size) \/ UNCHANGED <<backed, lastCommit>>
  BY <1>1 DEF Allocate
<1>5. /\ position' \in [Tags -> [Zones -> Nat]]
      /\ position'[tag][z] = start + size
      /\ \A s \in Tags, y \in Zones : s # tag \/ y # z => position'[s][y] = position[s][y]
  BY <1>1, <1>2, <1>3, <1>4 DEF TypeOK
<1>6. lastCommit' \in [Tags -> [Zones -> Nat]] /\ backed' \subseteq Mapping
  <2>1. CASE Commit(tag, z, size)
    <3>1. lastCommit[tag][z] + RoundUp(size) \in Nat
      BY <1>2, <1>3, RoundUpFacts
    <3>2. lastCommit' = [lastCommit EXCEPT ![tag][z] = lastCommit[tag][z] + RoundUp(size)]
      BY <2>1 DEF Commit
    <3>3. backed' \subseteq Mapping
      BY <2>1 DEF Commit, TypeOK
    <3> QED BY <1>1, <3>1, <3>2, <3>3 DEF TypeOK
  <2>2. CASE UNCHANGED <<backed, lastCommit>>
    BY <2>2 DEF TypeOK
  <2> QED BY <1>4, <2>1, <2>2
<1>7. /\ job'[t].step = "publish" /\ job'[t].at = start
      /\ job'[t].region = job[t].region /\ job'[t].kind = job[t].kind /\ job'[t].space = tag
      /\ \A u \in Markers \ {t} : job'[u] = job[u]
      /\ job' \in [Markers -> [step : {"idle", "tag", "allocate", "publish"},
                               region : Regions \union {Null}, kind : Kinds \union {Live},
                               space : Tags, at : Nat]]
  <2> DEFINE J == [step : {"idle", "tag", "allocate", "publish"},
                   region : Regions \union {Null}, kind : Kinds \union {Live},
                   space : Tags, at : Nat]
             j == [job[t] EXCEPT !.step = "publish", !.at = start]
  <2>1. job \in [Markers -> J]
    BY DEF TypeOK
  <2>2. j \in J
    <3>1. job[t] \in J
      BY <2>1
    <3> QED BY <1>3, <3>1
  <2>3. job' = [job EXCEPT ![t] = j]
    BY <1>4
  <2>4. /\ j.step = "publish" /\ j.at = start
        /\ j.region = job[t].region /\ j.kind = job[t].kind /\ j.space = tag
    BY <1>1, <2>1
  <2> HIDE DEF J, j
  <2>5. job' \in [Markers -> J] /\ job'[t] = j /\ \A u \in Markers \ {t} : job'[u] = job[u]
    BY <2>1, <2>2, <2>3
  <2> QED BY <2>4, <2>5 DEF J
<1>8. TypeOK'
  BY <1>4, <1>5, <1>6, <1>7 DEF TypeOK
<1> QED
  BY <1>1, <1>2, <1>3, <1>4, <1>5, <1>7, <1>8

LEMMA StepAllocateLive ==
  ASSUME IInv, NEW t \in Markers, Allocate(t), job[t].kind = Live
  PROVE  IInv'
<1> USE DEF IInv
<1> DEFINE start == position[tag]["live"]
           r == job[t].region
<1>1. /\ Busy(t) /\ Marking /\ job[t].space = tag /\ tag \in Tags /\ r \in Regions
      /\ start \in Nat
      /\ position'[tag]["live"] = start + LiveInfoSize
      /\ \A s \in Tags, y \in Zones : s # tag \/ y # "live" => position'[s][y] = position[s][y]
      /\ UNCHANGED <<tag, written, liveInfo, garbage, phase, walk>>
      /\ job'[t].step = "publish" /\ job'[t].at = start
      /\ job'[t].region = r /\ job'[t].kind = job[t].kind /\ job'[t].space = tag
      /\ \A u \in Markers \ {t} : job'[u] = job[u]
      /\ TypeOK'
  <2>1. "live" = ZoneOf(job[t]) /\ LiveInfoSize = SizeOf(job[t])
    BY DEF ZoneOf, SizeOf
  <2> HIDE DEF IInv
  <2> QED BY <2>1, AllocateFacts
<1>2. job[t].step = "allocate" /\ ~Binds(t) /\ ~Fills(t) /\ LiveInfoSize \in Nat \ {0}
  BY SizeFacts DEF Allocate, Binds, Fills
<1>3. start + LiveInfoSize <= ZoneEnd(tag, "live")
  BY <1>2, LiveFits
<1>4. ZoneStart(tag, "live") <= start /\ ZoneStart(tag, "live") \in Nat
  <2>1. Cardinality(Current) \in Nat
    BY FS_CardinalityType DEF SlotsCounted
  <2>2. LiveInfoSize * Cardinality(Current) \in Nat
    BY <1>2, <2>1, MulNat
  <2> QED BY <1>1, <2>2, Zones4 DEF SlotsCounted
<1>5. SpaceOf(start) = tag
  BY <1>1, <1>2, <1>3, <1>4, Zones4, SpaceFacts, SpaceOfFacts
<1>6. start \notin DOMAIN info
  BY <1>1, <1>2, <1>5 DEF SlotsInZone
<1>7. info' = [at \in DOMAIN info \union {start} |->
                 IF at \in DOMAIN info THEN info[at] ELSE EmptyInfo]
  BY <1>1 DEF Allocate, ZoneOf
<1>8. /\ DOMAIN info' = DOMAIN info \union {start} /\ info'[start] = EmptyInfo
      /\ \A at \in DOMAIN info : info'[at] = info[at]
  <2> HIDE DEF EmptyInfo
  <2> QED BY <1>6, <1>7
<1>9. /\ Current' = Current \union {start} /\ Old' = Old /\ Previous' = Previous
      /\ start \notin Current
  BY <1>1, <1>5, <1>6, <1>8, PreviousFacts DEF Current, Old, Previous
<1>10. EmptyInfo \in InfoRecords /\ EmptyInfo.region = Null
       /\ \A k \in Kinds : EmptyInfo.bitmap[k] = Null
  BY DEF EmptyInfo, InfoRecords
<1>11. InfoOK'
  <2>1. \A at \in DOMAIN info' : info'[at] \in InfoRecords /\ at \in Nat
    BY <1>1, <1>8, <1>10 DEF InfoOK
  <2>2. info' = [at \in DOMAIN info' |-> info'[at]]
    BY <1>7, <1>8
  <2> QED BY <2>1, <2>2 DEF InfoOK
<1>12. /\ job'[t].step = "publish" /\ job'[t].at = start /\ job'[t].region = r
       /\ job'[t].kind = Live /\ job'[t].space = tag
  BY <1>1
<1>13. \A u \in Markers \ {t} : /\ Busy(u)' <=> Busy(u)
                                /\ Binds(u)' <=> Binds(u)
                                /\ Fills(u)' <=> Fills(u)
  BY <1>1 DEF Busy, Binds, Fills
<1>14. Binds(t)' /\ ~Fills(t)'
  BY <1>12 DEF Binds, Fills
<1>15. JobsHold'
  <2> SUFFICES ASSUME NEW u \in Markers, Busy(u)'
               PROVE  /\ Marking'
                      /\ job'[u].region \in Regions \ garbage'
                      /\ job'[u].step # "tag" => job'[u].space = tag'
                      /\ job'[u].kind = Live => liveInfo'[job'[u].region] = Claimed
                      /\ job'[u].kind # Live =>
                            /\ liveInfo'[job'[u].region] \in Current'
                            /\ info'[liveInfo'[job'[u].region]].bitmap[job'[u].kind] = Claimed
    BY DEF JobsHold
  <2>1. Marking' /\ garbage' = garbage /\ liveInfo' = liveInfo /\ tag' = tag
    BY <1>1 DEF Marking
  <2>2. Busy(u)
    BY <1>1, <1>13
  <2>3. job'[u].region = job[u].region /\ job'[u].kind = job[u].kind
        /\ (job'[u].step # "tag" => job'[u].space = tag)
    BY <1>1, <1>12, <2>2 DEF JobsHold
  <2>4. job[u].kind # Live => /\ liveInfo[job[u].region] \in Current'
                              /\ info'[liveInfo[job[u].region]] = info[liveInfo[job[u].region]]
    BY <1>8, <1>9, <2>2 DEF JobsHold, Current
  <2> QED BY <2>1, <2>2, <2>3, <2>4 DEF JobsHold
<1>16. JobsDiffer'
  <2>1. \A u \in Markers : /\ Busy(u)' => Busy(u)
                           /\ job'[u].region = job[u].region /\ job'[u].kind = job[u].kind
    BY <1>1, <1>12, <1>13
  <2> QED BY <2>1 DEF JobsDiffer
<1>17. SlotsInZone'
  <2>1. ASSUME NEW at \in DOMAIN info
        PROVE  /\ ZoneStart(SpaceOf(at), "live") <= at
               /\ at + LiveInfoSize <= position'[SpaceOf(at)]["live"]
    <3>1. at \in Nat /\ SpaceOf(at) \in Tags /\ position[SpaceOf(at)]["live"] \in Nat
      BY SpaceOfFacts DEF InfoOK, TypeOK, Zones
    <3>2. position[SpaceOf(at)]["live"] <= position'[SpaceOf(at)]["live"]
      BY <1>1, <1>2, <3>1 DEF Zones
    <3>3. position'[SpaceOf(at)]["live"] \in Nat
      BY <1>1, <3>1 DEF TypeOK, Zones
    <3> QED BY <1>2, <3>1, <3>2, <3>3 DEF SlotsInZone
  <2>2. /\ ZoneStart(SpaceOf(start), "live") <= start
        /\ start + LiveInfoSize <= position'[SpaceOf(start)]["live"]
    BY <1>1, <1>2, <1>4, <1>5
  <2> QED BY <1>8, <2>1, <2>2 DEF SlotsInZone
<1>18. \A at \in DOMAIN info : SpaceOf(at) = tag => at \in Nat /\ at + LiveInfoSize <= start
  BY DEF SlotsInZone, InfoOK
<1>19. SlotsApart'
  <2>1. ASSUME NEW at \in DOMAIN info
        PROVE  at + LiveInfoSize <= start \/ start + LiveInfoSize <= at
    <3>1. CASE SpaceOf(at) = tag
      BY <1>18, <3>1
    <3>2. CASE SpaceOf(at) # tag
      <4>1. SpaceOf(at) = Previous /\ Previous \in Tags /\ Previous # tag
        BY <1>1, <3>2, SpaceOfFacts, PreviousFacts
      <4>2. /\ ZoneStart(Previous, "live") <= at
            /\ at + LiveInfoSize <= position[Previous]["live"]
            /\ position[Previous]["live"] <= ZoneEnd(Previous, "live")
            /\ position[Previous]["live"] \in Nat
        BY <4>1 DEF SlotsInZone, ZonesHold, Zones, TypeOK
      <4>3. at \in Nat
        BY DEF InfoOK
      <4>4. ZoneEnd(Previous, "live") <= ZoneStart(tag, "live")
            \/ ZoneEnd(tag, "live") <= ZoneStart(Previous, "live")
        BY <1>1, <4>1, Layout, SpaceFacts DEF Tags
      <4> QED BY <1>1, <1>2, <1>3, <1>4, <4>1, <4>2, <4>3, <4>4, Zones4
    <3> QED BY <3>1, <3>2
  <2> QED BY <1>8, <2>1 DEF SlotsApart
<1>20. SlotsChained'
  <2>1. ASSUME NEW s \in Tags, s = tag \/ phase \in {"unbind", "release"}
        PROVE  /\ position'[s]["live"] = ZoneStart(s, "live") \/ ZoneStart(s, "live") \in DOMAIN info'
               /\ \A at \in DOMAIN info' : SpaceOf(at) = s =>
                    \/ at + LiveInfoSize \in DOMAIN info' /\ SpaceOf(at + LiveInfoSize) = s
                    \/ at + LiveInfoSize = position'[s]["live"]
    <3>1. CASE s = tag
      BY <1>1, <1>5, <1>8, <3>1 DEF SlotsChained
    <3>2. CASE s # tag
      BY <1>1, <1>5, <1>8, <2>1, <3>2 DEF SlotsChained, Zones
    <3> QED BY <3>1, <3>2
  <2> QED BY <1>1, <2>1 DEF SlotsChained
<1>21. SlotsCounted'
  <2>1. /\ IsFiniteSet(Current) /\ Cardinality(Current) \in Nat
        /\ IsFiniteSet(Current \union {start})
        /\ Cardinality(Current \union {start}) = Cardinality(Current) + 1
    BY <1>9, FS_AddElement, FS_CardinalityType DEF SlotsCounted
  <2>2. LiveInfoSize * (Cardinality(Current) + 1) = LiveInfoSize * Cardinality(Current) + LiveInfoSize
        /\ LiveInfoSize * Cardinality(Current) \in Nat
    BY <1>2, <2>1, MulNat
  <2> QED BY <1>1, <1>2, <1>4, <1>9, <2>1, <2>2 DEF SlotsCounted
<1>22. SlotsOwned'
  <2>1. ASSUME NEW at \in DOMAIN info', info'[at].region = Null
        PROVE  \E u \in Markers : Binds(u)' /\ job'[u].at = at
    <3>1. CASE at = start
      BY <1>12, <1>14, <3>1
    <3>2. CASE at # start
      <4>1. PICK u \in Markers : Binds(u) /\ job[u].at = at
        BY <1>8, <2>1, <3>2 DEF SlotsOwned
      <4>2. u # t
        BY <1>2, <4>1
      <4> QED BY <1>1, <1>13, <4>1, <4>2
    <3> QED BY <3>1, <3>2
  <2>2. ASSUME NEW u \in Markers, Binds(u)'
        PROVE  job'[u].at \in Current' /\ info'[job'[u].at] = EmptyInfo
    <3>1. CASE u = t
      BY <1>8, <1>9, <1>12, <3>1
    <3>2. CASE u # t
      BY <1>1, <1>8, <1>9, <1>13, <2>2, <3>2 DEF SlotsOwned, Current
    <3> QED BY <3>1, <3>2
  <2>3. \A u \in Markers \ {t} : Binds(u) => job[u].at # start
    BY <1>9 DEF SlotsOwned
  <2>4. ASSUME NEW u \in Markers, NEW w \in Markers, u # w, Binds(u)', Binds(w)'
        PROVE  job'[u].at # job'[w].at
    <3>1. CASE u = t
      BY <1>1, <1>12, <1>13, <2>3, <2>4, <3>1
    <3>2. CASE w = t
      BY <1>1, <1>12, <1>13, <2>3, <2>4, <3>2
    <3>3. CASE u # t /\ w # t
      BY <1>1, <1>13, <2>4, <3>3 DEF SlotsOwned
    <3> QED BY <3>1, <3>2, <3>3
  <2> QED BY <2>1, <2>2, <2>4 DEF SlotsOwned, EmptyInfo
<1>23. PreviousEmpty'
  <2>1. phase \in {"mark", "rest"} => phase = "mark"
    BY <1>1 DEF Marking
  <2>2. CASE phase \in {"reset", "mark", "rest"}
    <3>1. Old' = {} /\ \A b \in written' : SpaceOf(b[1]) = tag'
      BY <1>1, <1>9, <2>2 DEF PreviousEmpty
    <3>2. ASSUME phase = "mark", NEW z \in Zones
          PROVE  /\ position'[Previous'][z] = ZoneStart(Previous', z)
                 /\ lastCommit'[Previous'][z] = ZoneStart(Previous', z)
      <4>1. position'[Previous][z] = position[Previous][z]
        BY <1>1, PreviousFacts
      <4>2. lastCommit'[Previous][z] = lastCommit[Previous][z]
        BY <1>1, PreviousFacts DEF Allocate, Commit, TypeOK, ZoneOf
      <4> QED BY <1>9, <3>2, <4>1, <4>2 DEF PreviousEmpty
    <3> QED BY <1>1, <2>1, <3>1, <3>2 DEF PreviousEmpty
  <2>3. CASE phase \notin {"reset", "mark", "rest"}
    BY <1>1, <2>3 DEF PreviousEmpty
  <2> QED BY <2>2, <2>3
<1>24. GarbageUnbound' /\ NeverFatal'
  <2>1. Null \notin garbage
    BY ForwardAssumption DEF TypeOK
  <2> QED BY <1>1, <1>8, <1>9, <1>10, <2>1 DEF GarbageUnbound, NeverFatal, Marking, Current
<1>25. WalkOK'
  BY <1>1, <1>9, PreviousFacts DEF WalkOK, Zones
<1>26. BindingsCurrent'
  <2>1. ASSUME NEW q \in Regions \ garbage, liveInfo[q] \in Nat
        PROVE  liveInfo[q] < position'[SpaceOf(liveInfo[q])]["live"]
    <3>1. SpaceOf(liveInfo[q]) \in Tags /\ position[SpaceOf(liveInfo[q])]["live"] \in Nat
          /\ liveInfo[q] < position[SpaceOf(liveInfo[q])]["live"]
      BY <2>1, SpaceOfFacts DEF BindingsCurrent, TypeOK, Zones
    <3>2. CASE SpaceOf(liveInfo[q]) = tag
      BY <1>1, <1>2, <2>1, <3>1, <3>2
    <3>3. CASE SpaceOf(liveInfo[q]) # tag
      BY <1>1, <3>1, <3>3 DEF Zones
    <3> QED BY <3>2, <3>3
  <2> QED BY <1>1, <1>8, <2>1 DEF BindingsCurrent
<1>27. MarksKept'
  BY <1>1, <1>8, <1>10 DEF MarksKept, Marking
<1>28. BitsInZone' /\ BitsApart'
  <2>1. \A s \in Tags : position'[s]["bits"] = position[s]["bits"]
    BY <1>1 DEF Zones
  <2>2. BitsInZone'
    BY <1>1, <1>2, <1>13, <1>14, <2>1, SpaceOfFacts DEF BitsInZone, InBits, Extent, SizeOf
  <2>3. BitsApart'
    BY <1>1, <1>2, <1>13, <1>14 DEF BitsApart, Extent, SizeOf
  <2> QED BY <2>2, <2>3
<1>29. BitsCounted'
  <2>1. Taken' = Taken
    <3>1. \A p \in Regions \X Kinds :
            (\E at \in Current' : info'[at].region = p[1] /\ info'[at].bitmap[p[2]] \in Nat)
            <=> (\E at \in Current : info[at].region = p[1] /\ info[at].bitmap[p[2]] \in Nat)
      <4>1. Null \notin Nat
        BY ForwardAssumption
      <4> QED BY <1>8, <1>9, <1>10, <4>1 DEF Current
    <3>2. \A p \in Regions \X Kinds :
            (\E u \in Markers : Fills(u)' /\ job'[u].region = p[1] /\ job'[u].kind = p[2])
            <=> (\E u \in Markers : Fills(u) /\ job[u].region = p[1] /\ job[u].kind = p[2])
      BY <1>1, <1>2, <1>13, <1>14
    <3> QED BY <3>1, <3>2 DEF Taken
  <2>2. position'[tag]["bits"] = position[tag]["bits"]
    BY <1>1 DEF Zones
  <2> QED BY <1>1, <2>1, <2>2 DEF BitsCounted, UnitsTaken
<1>30. ZonesHold'
  <2>1. ASSUME NEW s \in Tags, NEW z \in Zones
        PROVE  position'[s][z] <= ZoneEnd(s, z)
    <3>1. CASE s = tag /\ z = "live"
      BY <1>1, <1>3, <3>1
    <3>2. CASE ~(s = tag /\ z = "live")
      BY <1>1, <3>2 DEF ZonesHold
    <3> QED BY <3>1, <3>2
  <2> QED BY <2>1 DEF ZonesHold
<1> QED
  BY <1>1, <1>11, <1>15, <1>16, <1>17, <1>19, <1>20, <1>21, <1>22, <1>23, <1>24, <1>25, <1>26,
     <1>27, <1>28, <1>29, <1>30

LEMMA StepAllocateBits ==
  ASSUME IInv, NEW t \in Markers, Allocate(t), job[t].kind # Live
  PROVE  IInv'
<1> USE DEF IInv
<1> DEFINE start == position[tag]["bits"]
           r == job[t].region
           k == job[t].kind
           size == BitmapSize(r)
<1>1. /\ Busy(t) /\ Marking /\ job[t].space = tag /\ tag \in Tags /\ r \in Regions
      /\ start \in Nat /\ size \in Nat \ {0}
      /\ position'[tag]["bits"] = start + size
      /\ \A s \in Tags, y \in Zones : s # tag \/ y # "bits" => position'[s][y] = position[s][y]
      /\ UNCHANGED <<tag, written, liveInfo, garbage, phase, walk>>
      /\ job'[t].step = "publish" /\ job'[t].at = start
      /\ job'[t].region = r /\ job'[t].kind = k /\ job'[t].space = tag
      /\ \A u \in Markers \ {t} : job'[u] = job[u]
      /\ TypeOK'
  <2>1. "bits" = ZoneOf(job[t]) /\ size = SizeOf(job[t])
    BY DEF ZoneOf, SizeOf
  <2> HIDE DEF IInv, size
  <2> QED BY <2>1, AllocateFacts
<1>2. job[t].step = "allocate" /\ ~Binds(t) /\ ~Fills(t)
  BY DEF Allocate, Binds, Fills
<1>3. /\ k \in Kinds /\ Taken \subseteq Regions \X Kinds /\ <<r, k>> \notin Taken
  BY <1>2, NotTaken
<1>4. start + size <= ZoneEnd(tag, "bits")
  <2> DEFINE X == KindCount * ((Cardinality(UnitsOf[r]) - 1) * HeaderSize)
  <2>1. X \in Nat
    <3>1. /\ Cardinality(UnitsOf[r]) - 1 \in Nat /\ HeaderSize \in Nat /\ KindCount \in Nat
      BY <1>1, SizeFacts, SpaceFacts
    <3>2. (Cardinality(UnitsOf[r]) - 1) * HeaderSize \in Nat
      BY <3>1, MulNat
    <3> QED BY <3>1, <3>2, MulNat
  <2>2. start + size + X <= ZoneStart(tag, "bits") + BitBytes
    BY <1>2, BitsFit
  <2> HIDE DEF X, size, start
  <2> QED BY <1>1, <2>1, <2>2, Zones4, SpaceFacts
<1>5. ZoneStart(tag, "bits") <= start /\ ZoneStart(tag, "bits") \in Nat
  <2>1. Cardinality(Taken) \in Nat /\ Cardinality(UnitsTaken(Taken)) \in Nat
    BY <1>1, <1>3, UnitsTakenAdd, FS_CardinalityType
  <2>2. HeaderSize * Cardinality(Taken) \in Nat /\ WordsSize * Cardinality(UnitsTaken(Taken)) \in Nat
    BY <2>1, SizeFacts, MulNat
  <2> QED BY <1>1, <2>2, Zones4 DEF BitsCounted
<1>6. SpaceOf(start) = tag
  <2> HIDE DEF size, start
  <2> QED BY <1>1, <1>4, <1>5, Zones4, SpaceFacts, SpaceOfFacts
<1>7. info' = info
  BY DEF Allocate
<1>8. Current' = Current /\ Old' = Old /\ Previous' = Previous
  BY <1>1, <1>7 DEF Current, Old, Previous
<1>9. \A s \in Tags : position'[s]["live"] = position[s]["live"]
  BY <1>1 DEF Zones
<1>10. InfoOK' /\ SlotsInZone' /\ SlotsApart' /\ SlotsCounted'
  BY <1>1, <1>7, <1>8, <1>9, SpaceOfFacts DEF InfoOK, SlotsInZone, SlotsApart, SlotsCounted
<1>11. \A u \in Markers \ {t} : /\ Busy(u)' <=> Busy(u)
                                /\ Binds(u)' <=> Binds(u)
                                /\ Fills(u)' <=> Fills(u)
  BY <1>1 DEF Busy, Binds, Fills
<1>12. ~Binds(t)' /\ Fills(t)' /\ Extent(job[t])' = <<start, size>>
  BY <1>1 DEF Binds, Fills, Extent, SizeOf
<1>13. \A u \in Markers \ {t} : Extent(job[u])' = Extent(job[u])
  BY <1>1 DEF Extent, SizeOf
<1>14. JobsHold' /\ JobsDiffer'
  <2>1. \A u \in Markers : /\ Busy(u)' => Busy(u)
                           /\ job'[u].region = job[u].region /\ job'[u].kind = job[u].kind
    BY <1>1, <1>11
  <2>2. \A u \in Markers : Busy(u) /\ job'[u].step # "tag" => job'[u].space = tag
    BY <1>1 DEF JobsHold
  <2>3. Marking'
    BY <1>1 DEF Marking
  <2>4. JobsHold'
    <3> SUFFICES ASSUME NEW u \in Markers, Busy(u)'
                 PROVE  /\ Marking'
                        /\ job'[u].region \in Regions \ garbage'
                        /\ job'[u].step # "tag" => job'[u].space = tag'
                        /\ job'[u].kind = Live => liveInfo'[job'[u].region] = Claimed
                        /\ job'[u].kind # Live =>
                              /\ liveInfo'[job'[u].region] \in Current'
                              /\ info'[liveInfo'[job'[u].region]].bitmap[job'[u].kind] = Claimed
      BY DEF JobsHold
    <3>1. Busy(u) /\ garbage' = garbage /\ liveInfo' = liveInfo /\ tag' = tag
      BY <1>1, <2>1
    <3> QED BY <1>7, <1>8, <2>1, <2>2, <2>3, <3>1 DEF JobsHold
  <2> QED BY <2>1, <2>4 DEF JobsDiffer
<1>15. SlotsChained' /\ SlotsOwned'
  <2>1. SlotsChained'
    BY <1>1, <1>7, <1>9 DEF SlotsChained
  <2>2. SlotsOwned'
    BY <1>1, <1>2, <1>7, <1>8, <1>11, <1>12 DEF SlotsOwned
  <2> QED BY <2>1, <2>2
<1>16. PreviousEmpty'
  <2>1. CASE phase \in {"reset", "mark", "rest"}
    <3>1. phase \in {"mark", "rest"} => phase = "mark"
      BY <1>1 DEF Marking
    <3>2. ASSUME phase = "mark", NEW z \in Zones
          PROVE  /\ position'[Previous'][z] = ZoneStart(Previous', z)
                 /\ lastCommit'[Previous'][z] = ZoneStart(Previous', z)
      <4>1. position'[Previous][z] = position[Previous][z]
        BY <1>1, PreviousFacts
      <4>2. lastCommit'[Previous][z] = lastCommit[Previous][z]
        BY <1>1, PreviousFacts DEF Allocate, Commit, TypeOK, ZoneOf
      <4> QED BY <1>8, <3>2, <4>1, <4>2 DEF PreviousEmpty
    <3> QED BY <1>1, <1>8, <2>1, <3>1, <3>2 DEF PreviousEmpty
  <2>2. CASE phase \notin {"reset", "mark", "rest"}
    BY <1>1, <2>2 DEF PreviousEmpty
  <2> QED BY <2>1, <2>2
<1>17. GarbageUnbound' /\ NeverFatal' /\ MarksKept'
  BY <1>1, <1>7, <1>8 DEF GarbageUnbound, NeverFatal, MarksKept, Marking
<1>18. WalkOK'
  BY <1>1, <1>8, <1>9, PreviousFacts DEF WalkOK
<1>19. BindingsCurrent'
  BY <1>1, <1>7, <1>9, SpaceOfFacts DEF BindingsCurrent
<1>20. \A b \in written : /\ b[1] \in Nat /\ b[2] \in Nat /\ b[2] > 0
                          /\ SpaceOf(b[1]) \in Tags /\ InBits(b, SpaceOf(b[1]))
  BY SpaceOfFacts DEF TypeOK, BitsInZone
<1>21. \A u \in Markers : Fills(u) => /\ Extent(job[u])[1] = job[u].at /\ job[u].at \in Nat
                                      /\ SpaceOf(job[u].at) = tag /\ InBits(Extent(job[u]), tag)
  BY DEF TypeOK, BitsInZone, Extent
<1>22. BitsInZone'
  <2>1. \A s \in Tags : position[s]["bits"] \in Nat /\ position[s]["bits"] <= position'[s]["bits"]
                        /\ position'[s]["bits"] \in Nat
    <3> SUFFICES ASSUME NEW s \in Tags
                 PROVE  /\ position[s]["bits"] \in Nat /\ position[s]["bits"] <= position'[s]["bits"]
                        /\ position'[s]["bits"] \in Nat
      OBVIOUS
    <3>1. position[s]["bits"] \in Nat /\ position'[s]["bits"] \in Nat
      BY <1>1 DEF TypeOK, Zones
    <3>2. s # tag => position'[s]["bits"] = position[s]["bits"]
      BY <1>1 DEF Zones
    <3> HIDE DEF IInv, size
    <3> QED BY <1>1, <3>1, <3>2
  <2>2. ASSUME NEW b, NEW s \in Tags, b[1] + b[2] \in Int, InBits(b, s)
        PROVE  InBits(b, s)'
    BY <2>1, <2>2 DEF InBits
  <2>3. \A b \in written : b[1] + b[2] \in Int
    BY <1>20
  <2>4. \A u \in Markers : Fills(u) => Extent(job[u])[1] + Extent(job[u])[2] \in Int
    BY SizeFacts DEF TypeOK, Extent, Fills, SizeOf, JobsHold, Busy
  <2>5. ASSUME NEW b \in written'
        PROVE  b[2] > 0 /\ InBits(b, SpaceOf(b[1]))'
    BY <1>1, <1>20, <2>2, <2>3, <2>5
  <2>6. ASSUME NEW u \in Markers, Fills(u)'
        PROVE  SpaceOf(job'[u].at) = tag' /\ InBits(Extent(job[u]), tag)'
    <3>1. CASE u = t
      <4>1. job'[u].at = start /\ Extent(job[u])' = <<start, size>>
        BY <1>1, <1>12, <3>1
      <4>2. ZoneStart(tag, "bits") <= start /\ start + size <= position'[tag]["bits"]
        BY <1>1, <1>5
      <4>3. InBits(Extent(job[u]), tag)'
        <5> HIDE DEF IInv, start, size
        <5> QED BY <1>1, <4>1, <4>2 DEF InBits
      <4> QED BY <1>1, <1>6, <4>1, <4>3
    <3>2. CASE u # t
      <4>1. Fills(u) /\ job'[u] = job[u] /\ Extent(job[u])' = Extent(job[u])
        BY <1>1, <1>11, <1>13, <2>6, <3>2
      <4>2. SpaceOf(job[u].at) = tag /\ InBits(Extent(job[u]), tag)
        BY <1>21, <4>1
      <4>3. /\ ZoneStart(tag, "bits") <= Extent(job[u])[1]
            /\ Extent(job[u])[1] + Extent(job[u])[2] <= position'[tag]["bits"]
        BY <1>1, <2>1, <2>4, <4>1, <4>2 DEF InBits
      <4> HIDE DEF IInv
      <4> QED BY <1>1, <4>1, <4>2, <4>3 DEF InBits
    <3> QED BY <3>1, <3>2
  <2> QED BY <2>5, <2>6 DEF BitsInZone
<1>23. \A b \in written : Apart(b, <<start, size>>)
  <2> SUFFICES ASSUME NEW b \in written
               PROVE  Apart(b, <<start, size>>)
    OBVIOUS
  <2>1. CASE SpaceOf(b[1]) = tag
    BY <1>20, <2>1 DEF InBits, Apart
  <2>2. CASE SpaceOf(b[1]) # tag
    <3>1. SpaceOf(b[1]) = Previous /\ Previous \in Tags /\ Previous # tag
      BY <1>1, <1>20, <2>2, PreviousFacts
    <3>2. /\ ZoneStart(Previous, "bits") <= b[1] /\ b[1] + b[2] <= ZoneEnd(Previous, "bits")
      <4>1. InBits(b, Previous) /\ position[Previous]["bits"] \in Nat
            /\ position[Previous]["bits"] <= ZoneEnd(Previous, "bits")
        BY <1>20, <3>1 DEF ZonesHold, Zones, TypeOK
      <4> QED BY <1>20, <3>1, <4>1, Zones4 DEF InBits
    <3>3. ZoneEnd(Previous, "bits") <= ZoneStart(tag, "bits")
          \/ ZoneEnd(tag, "bits") <= ZoneStart(Previous, "bits")
      BY <1>1, <3>1, Layout, SpaceFacts DEF Tags
    <3>4. ZoneEnd(Previous, "bits") \in Nat /\ ZoneStart(Previous, "bits") \in Nat
          /\ ZoneEnd(tag, "bits") \in Nat /\ ZoneStart(tag, "bits") \in Nat
      BY <1>1, <3>1, Zones4
    <3> HIDE DEF IInv, start, size
    <3> QED BY <1>1, <1>4, <1>5, <1>20, <3>2, <3>3, <3>4 DEF Apart
  <2> QED BY <2>1, <2>2
<1>24. \A u \in Markers \ {t} : Fills(u) => /\ Apart(<<start, size>>, Extent(job[u]))
                                            /\ Apart(Extent(job[u]), <<start, size>>)
  BY <1>1, <1>21 DEF InBits, Apart
<1>25. BitsApart'
  <2>1. \A a, b \in written' : a # b => Apart(a, b)
    BY <1>1 DEF BitsApart
  <2>2. ASSUME NEW u \in Markers, NEW b \in written', Fills(u)'
        PROVE  Apart(b, Extent(job[u]))'
    <3>1. CASE u = t
      <4>1. Apart(b, <<start, size>>)
        BY <1>1, <1>23, <2>2
      <4> HIDE DEF IInv, start, size
      <4> QED BY <1>12, <3>1, <4>1 DEF Apart
    <3>2. CASE u # t
      <4>1. Fills(u) /\ Extent(job[u])' = Extent(job[u]) /\ Apart(b, Extent(job[u]))
        BY <1>1, <1>11, <1>13, <2>2, <3>2 DEF BitsApart
      <4> QED BY <4>1 DEF Apart
    <3> QED BY <3>1, <3>2
  <2>3. ASSUME NEW u \in Markers, NEW w \in Markers, u # w, Fills(u)', Fills(w)'
        PROVE  Apart(Extent(job[u]), Extent(job[w]))'
    <3>1. CASE u = t
      <4>1. Apart(<<start, size>>, Extent(job[w])) /\ Extent(job[w])' = Extent(job[w])
        BY <1>11, <1>13, <1>24, <2>3, <3>1
      <4> HIDE DEF IInv, start, size
      <4> QED BY <1>12, <3>1, <4>1 DEF Apart
    <3>2. CASE w = t
      <4>1. Apart(Extent(job[u]), <<start, size>>) /\ Extent(job[u])' = Extent(job[u])
        BY <1>11, <1>13, <1>24, <2>3, <3>2
      <4> HIDE DEF IInv, start, size
      <4> QED BY <1>12, <3>2, <4>1 DEF Apart
    <3>3. CASE u # t /\ w # t
      <4>1. Apart(Extent(job[u]), Extent(job[w]))
            /\ Extent(job[u])' = Extent(job[u]) /\ Extent(job[w])' = Extent(job[w])
        BY <1>11, <1>13, <2>3, <3>3 DEF BitsApart
      <4> QED BY <4>1 DEF Apart
    <3> QED BY <3>1, <3>2, <3>3
  <2> QED BY <2>1, <2>2, <2>3 DEF BitsApart
<1>26. BitsCounted'
  <2>1. Taken' = Taken \union {<<r, k>>}
    <3>1. \A p \in Regions \X Kinds :
            (\E u \in Markers : Fills(u)' /\ job'[u].region = p[1] /\ job'[u].kind = p[2])
            <=> (p = <<r, k>> \/ \E u \in Markers : Fills(u) /\ job[u].region = p[1] /\ job[u].kind = p[2])
      <4> TAKE p \in Regions \X Kinds
      <4>1. ASSUME NEW u \in Markers, Fills(u)', job'[u].region = p[1], job'[u].kind = p[2]
            PROVE  p = <<r, k>> \/ \E w \in Markers : Fills(w) /\ job[w].region = p[1] /\ job[w].kind = p[2]
        <5>1. CASE u = t
          BY <1>1, <4>1, <5>1
        <5>2. CASE u # t
          BY <1>1, <1>11, <4>1, <5>2
        <5> QED BY <5>1, <5>2
      <4>2. p = <<r, k>> => \E u \in Markers : Fills(u)' /\ job'[u].region = p[1] /\ job'[u].kind = p[2]
        BY <1>1, <1>12
      <4>3. ASSUME NEW u \in Markers, Fills(u), job[u].region = p[1], job[u].kind = p[2]
            PROVE  \E w \in Markers : Fills(w)' /\ job'[w].region = p[1] /\ job'[w].kind = p[2]
        BY <1>1, <1>2, <1>11, <4>3
      <4> QED BY <4>1, <4>2, <4>3
    <3>2. <<r, k>> \in Regions \X Kinds
      BY <1>1, <1>3
    <3> HIDE DEF IInv
    <3> QED BY <1>7, <1>8, <3>1, <3>2 DEF Taken
  <2> DEFINE A == Cardinality(Taken)
             B == Cardinality(UnitsTaken(Taken))
             n == Cardinality(UnitsOf[r])
  <2>2. /\ Cardinality(Taken') = A + 1 /\ Cardinality(UnitsTaken(Taken')) = B + n
        /\ A \in Nat /\ B \in Nat
    BY <1>1, <1>3, <2>1, UnitsTakenAdd, FS_CardinalityType
  <2>3. UnitsTaken(Taken)' = UnitsTaken(Taken')
    BY DEF UnitsTaken
  <2>4. start = ZoneStart(tag, "bits") + HeaderSize * A + WordsSize * B
    BY DEF BitsCounted
  <2>5. n \in Nat /\ HeaderSize \in Nat /\ WordsSize \in Nat /\ size = HeaderSize + n * WordsSize
        /\ ZoneStart(tag, "bits") \in Nat
    BY <1>1, SizeFacts, Zones4 DEF BitmapSize
  <2> HIDE DEF A, B, n, start, size
  <2>6. HeaderSize * (A + 1) = HeaderSize * A + HeaderSize
        /\ WordsSize * (B + n) = WordsSize * B + n * WordsSize
        /\ HeaderSize * A \in Nat /\ WordsSize * B \in Nat /\ n * WordsSize \in Nat
    BY <2>2, <2>5, MulNat
  <2>7. position'[tag]["bits"] = ZoneStart(tag, "bits") + HeaderSize * (A + 1) + WordsSize * (B + n)
    BY <1>1, <2>4, <2>5, <2>6
  <2> QED BY <1>1, <2>2, <2>3, <2>7 DEF BitsCounted
<1>27. ZonesHold'
  <2>1. ASSUME NEW s \in Tags, NEW z \in Zones
        PROVE  position'[s][z] <= ZoneEnd(s, z)
    <3>1. CASE s = tag /\ z = "bits"
      BY <1>1, <1>4, <3>1
    <3>2. CASE ~(s = tag /\ z = "bits")
      BY <1>1, <3>2 DEF ZonesHold
    <3> QED BY <3>1, <3>2
  <2> QED BY <2>1 DEF ZonesHold
<1> QED
  BY <1>1, <1>10, <1>14, <1>15, <1>16, <1>17, <1>18, <1>19, <1>22, <1>25, <1>26, <1>27

LEMMA StepAllocate ==
  ASSUME IInv, NEW t \in Markers, Allocate(t)
  PROVE  IInv'
<1>1. CASE job[t].kind = Live
  BY <1>1, StepAllocateLive
<1>2. CASE job[t].kind # Live
  BY <1>2, StepAllocateBits
<1> QED
  BY <1>1, <1>2

-----------------------------------------------------------------------------
(* The invariant *)

LEMMA InitIInv == Init => IInv
<1> SUFFICES ASSUME Init
             PROVE  IInv
  OBVIOUS
<1>1. /\ tag = 0 /\ info = <<>> /\ written = {} /\ garbage = {} /\ phase = "mark"
      /\ liveInfo = [r \in Regions |-> Null] /\ job = [t \in Markers |-> NoJob]
      /\ position = [s \in Tags |-> [z \in Zones |-> ZoneStart(s, z)]] /\ lastCommit = position
      /\ walk = [current |-> 0, position |-> 0]
      /\ backed = (IF CommitsOnDemand THEN {} ELSE Mapping)
  BY DEF Init
<1>2. DOMAIN info = {}
  BY <1>1
<1>3. tag \in Tags /\ Current = {} /\ Old = {}
  BY <1>1, <1>2 DEF Tags, Current, Old
<1>4. \A t \in Markers : job[t] = NoJob
  BY <1>1
<1>5. \A t \in Markers : ~Busy(t) /\ ~Binds(t) /\ ~Fills(t)
  BY <1>4 DEF Busy, Binds, Fills, NoJob
<1>6. \A s \in Tags, z \in Zones : /\ position[s][z] = ZoneStart(s, z)
                                   /\ ZoneStart(s, z) \in Nat /\ ZoneStart(s, z) <= ZoneEnd(s, z)
  BY <1>1, Zones4, SpaceFacts DEF Zones
<1>7. TypeOK
  <2>1. position \in [Tags -> [Zones -> Nat]]
    BY <1>1, <1>6
  <2>2. liveInfo \in [Regions -> Nat \union {Null, Claimed}]
    BY <1>1
  <2>3. NoJob \in [step : {"idle", "tag", "allocate", "publish"},
                   region : Regions \union {Null}, kind : Kinds \union {Live},
                   space : Tags, at : Nat]
    BY DEF NoJob, Tags
  <2>4. walk \in [current : Nat, position : Nat]
    BY <1>1
  <2>5. backed \subseteq Mapping
    BY <1>1
  <2> QED BY <1>1, <1>3, <2>1, <2>2, <2>3, <2>4, <2>5 DEF TypeOK
<1>8. InfoOK
  BY <1>1, <1>2 DEF InfoOK
<1>9. JobsHold /\ JobsDiffer /\ SlotsInZone /\ SlotsApart /\ SlotsOwned /\ GarbageUnbound
  BY <1>1, <1>2, <1>3, <1>5
     DEF JobsHold, JobsDiffer, SlotsInZone, SlotsApart, SlotsOwned, GarbageUnbound
<1>10. SlotsChained
  BY <1>1, <1>2, <1>6 DEF SlotsChained, Zones
<1>11. SlotsCounted
  <2>1. LiveInfoSize * 0 = 0
    BY ForwardAssumption
  <2>2. IsFiniteSet({}) /\ Cardinality({}) = 0
    BY FS_EmptySet
  <2>3. position[tag]["live"] = ZoneStart(tag, "live") /\ ZoneStart(tag, "live") \in Nat
    BY <1>3, <1>6 DEF Zones
  <2> QED BY <1>3, <2>1, <2>2, <2>3 DEF SlotsCounted
<1>12. PreviousEmpty
  BY <1>1, <1>3, <1>6, PreviousFacts DEF PreviousEmpty
<1>13. WalkOK /\ MarksKept /\ NeverFatal
  BY <1>1, <1>2 DEF WalkOK, MarksKept, NeverFatal
<1>14. BindingsCurrent
  BY <1>1, ForwardAssumption DEF BindingsCurrent
<1>15. BitsInZone /\ BitsApart
  BY <1>1, <1>5 DEF BitsInZone, BitsApart
<1>16. BitsCounted
  <2>1. Taken = {}
    BY <1>3, <1>5 DEF Taken
  <2>2. UnitsTaken(Taken) = {}
    BY <2>1 DEF UnitsTaken
  <2>3. Cardinality({}) = 0 /\ HeaderSize * 0 = 0 /\ WordsSize * 0 = 0
    BY FS_EmptySet, ForwardAssumption
  <2>4. position[tag]["bits"] = ZoneStart(tag, "bits") /\ ZoneStart(tag, "bits") \in Nat
    BY <1>3, <1>6 DEF Zones
  <2> QED BY <2>1, <2>2, <2>3, <2>4 DEF BitsCounted
<1>17. ZonesHold
  BY <1>6 DEF ZonesHold
<1> QED
  BY <1>7, <1>8, <1>9, <1>10, <1>11, <1>12, <1>13, <1>14, <1>15, <1>16, <1>17 DEF IInv

\* Every step keeps the invariant.
LEMMA NextIInv == IInv /\ [Next]_vars => IInv'
<1> SUFFICES ASSUME IInv, [Next]_vars
             PROVE  IInv'
  OBVIOUS
<1>1. ASSUME NEW t \in Markers, Mark(t)
      PROVE  IInv'
  BY <1>1, StepClaimLiveInfo, StepClaimBitmap, StepReadTag, StepAllocate, StepPublishLiveInfo,
     StepPublishBitmap DEF Mark
<1>2. CASE Collect
  BY <1>2, StepSetTagID, StepUnbindPrevious, StepUnbindEnd, StepReleaseMemory, StepReset,
     StepEndMarking, StepBecomeGarbage DEF Collect
<1>3. CASE \E r \in Regions : InitRegionInfo(r)
  BY <1>3, StepInitRegionInfo
<1>4. CASE UNCHANGED vars
  <2>1. /\ UNCHANGED <<tag, position, lastCommit, info, written, liveInfo, garbage, phase, walk, job>>
        /\ backed' = backed
    BY <1>4 DEF vars
  <2>2. TypeOK' /\ InfoOK' /\ Current' = Current /\ Old' = Old /\ Previous' = Previous
        /\ Taken' = Taken
    BY <2>1 DEF TypeOK, InfoOK, Current, Old, Previous, Taken, Fills, IInv
  <2>3. JobsHold' /\ JobsDiffer' /\ SlotsInZone' /\ SlotsApart' /\ SlotsChained' /\ SlotsOwned'
        /\ SlotsCounted'
    BY <2>1, <2>2 DEF IInv, JobsHold, JobsDiffer, SlotsInZone, SlotsApart, SlotsChained, SlotsOwned,
         SlotsCounted, Busy, Binds, Marking
  <2>4. PreviousEmpty' /\ GarbageUnbound' /\ WalkOK' /\ BindingsCurrent' /\ MarksKept' /\ NeverFatal'
    BY <2>1, <2>2 DEF IInv, PreviousEmpty, GarbageUnbound, WalkOK, BindingsCurrent, MarksKept,
         NeverFatal, Marking
  <2>5. BitsInZone' /\ BitsApart' /\ BitsCounted' /\ ZonesHold'
    BY <2>1, <2>2 DEF IInv, BitsInZone, BitsApart, BitsCounted, ZonesHold, InBits, Extent, SizeOf,
         Fills, UnitsTaken
  <2> QED BY <2>2, <2>3, <2>4, <2>5 DEF IInv
<1> QED
  BY <1>1, <1>2, <1>3, <1>4 DEF Next

\* The inductive invariant holds in every reachable state.
THEOREM IInvHolds == Spec => []IInv
<1>1. Init => IInv
  BY InitIInv
<1>2. IInv /\ [Next]_vars => IInv'
  BY NextIInv
<1> QED
  BY <1>1, <1>2, PTL DEF Spec

\* A region that is no garbage has a live info that names it, and none of the
\* space that UnbindPrevious and ClearPrevious have dealt with.
THEOREM BindingsStayCurrent == Spec => []BindingsCurrent
<1>1. IInv => BindingsCurrent
  BY DEF IInv
<1> QED
  BY <1>1, IInvHolds, PTL

\* Unbinding the live infos of the last cycle takes none of this one away
\* (CheckAndClearLiveInfo).
THEOREM MarksStayKept == Spec => []MarksKept
<1>1. IInv => MarksKept
  BY DEF IInv
<1> QED
  BY <1>1, IInvHolds, PTL

\* UnbindPrevious never aborts: it meets no live info without a region.
THEOREM UnbindNeverFatal == Spec => []NeverFatal
<1>1. IInv => NeverFatal
  BY DEF IInv
<1> QED
  BY <1>1, IInvHolds, PTL

-----------------------------------------------------------------------------
(* What is allocated lies apart and reads as zero *)

\* A live info lies in the live zone of its space, a bitmap in the other one.
LEMMA AllocationsPlaced ==
  ASSUME IInv, NEW a \in Allocations
  PROVE  LET s == SpaceOf(a[1])
         IN  /\ a[1] \in Nat /\ a[2] \in Nat \ {0} /\ s \in Tags
             /\ \/ /\ a[1] \in DOMAIN info /\ a = <<a[1], LiveInfoSize>>
                   /\ ZoneStart(s, "live") <= a[1] /\ a[1] + a[2] <= position[s]["live"]
                \/ /\ a \in written \/ \E t \in Markers : Fills(t) /\ a = Extent(job[t])
                   /\ ZoneStart(s, "bits") <= a[1] /\ a[1] + a[2] <= position[s]["bits"]
<1> USE DEF IInv
<1>1. CASE \E at \in DOMAIN info : a = <<at, LiveInfoSize>>
  BY <1>1, SizeFacts, SpaceOfFacts DEF InfoOK, SlotsInZone
<1>2. CASE a \in written
  BY <1>2, SpaceOfFacts DEF TypeOK, BitsInZone, InBits
<1>3. CASE \E t \in Markers : Fills(t) /\ a = Extent(job[t])
  <2>1. PICK t \in Markers : Fills(t) /\ a = Extent(job[t])
    BY <1>3
  <2>2. a[1] = job[t].at /\ a[2] = BitmapSize(job[t].region) /\ job[t].region \in Regions
    BY <2>1 DEF Extent, SizeOf, Fills, JobsHold, Busy
  <2>3. a[1] \in Nat /\ a[2] \in Nat \ {0}
    BY <2>2, SizeFacts DEF TypeOK
  <2>4. SpaceOf(a[1]) = tag /\ InBits(a, tag)
    BY <2>1, <2>2 DEF BitsInZone
  <2>5. \E u \in Markers : Fills(u) /\ a = Extent(job[u])
    BY <2>1
  <2> HIDE DEF IInv
  <2> QED BY <2>3, <2>4, <2>5, SpaceOfFacts DEF InBits
<1>4. (\E at \in DOMAIN info : a = <<at, LiveInfoSize>>) \/ a \in written
        \/ \E t \in Markers : Fills(t) /\ a = Extent(job[t])
  BY DEF Allocations, Fills, Extent
<1> HIDE DEF IInv
<1> QED
  BY <1>1, <1>2, <1>3, <1>4

\* Allocations of two zones lie apart, because no zone overruns its end.
LEMMA ZonesApart ==
  ASSUME IInv, NEW a \in Allocations, NEW b \in Allocations,
         NEW y \in Zones, NEW z \in Zones, <<SpaceOf(a[1]), y>> # <<SpaceOf(b[1]), z>>,
         ZoneStart(SpaceOf(a[1]), y) <= a[1], a[1] + a[2] <= position[SpaceOf(a[1])][y],
         ZoneStart(SpaceOf(b[1]), z) <= b[1], b[1] + b[2] <= position[SpaceOf(b[1])][z]
  PROVE  Apart(a, b)
<1> DEFINE s == SpaceOf(a[1])
           u == SpaceOf(b[1])
<1>1. /\ a[1] \in Nat /\ a[2] \in Nat /\ s \in Tags
      /\ b[1] \in Nat /\ b[2] \in Nat /\ u \in Tags
  BY AllocationsPlaced
<1>2. /\ position[s][y] \in Nat /\ position[s][y] <= ZoneEnd(s, y)
      /\ position[u][z] \in Nat /\ position[u][z] <= ZoneEnd(u, z)
  BY <1>1 DEF IInv, TypeOK, ZonesHold
<1>3. /\ ZoneStart(s, y) \in Nat /\ ZoneEnd(s, y) \in Nat
      /\ ZoneStart(u, z) \in Nat /\ ZoneEnd(u, z) \in Nat
  BY <1>1, Zones4 DEF Zones
<1>4. ZoneEnd(s, y) <= ZoneStart(u, z) \/ ZoneEnd(u, z) <= ZoneStart(s, y)
  <2> HIDE DEF s, u
  <2>1. <<s, y>> # <<u, z>>
    BY DEF s, u
  <2> QED BY <1>1, <2>1, Layout, SpaceFacts DEF Tags, Zones
<1>5. a[1] + a[2] <= ZoneEnd(s, y) /\ b[1] + b[2] <= ZoneEnd(u, z)
  BY <1>1, <1>2, <1>3
<1> HIDE DEF s, u
<1>6. ZoneStart(s, y) <= a[1] /\ ZoneStart(u, z) <= b[1]
  BY DEF s, u
<1> QED
  BY <1>1, <1>3, <1>4, <1>5, <1>6 DEF Apart

LEMMA UnsharedHolds == IInv => Unshared
<1> SUFFICES ASSUME IInv, NEW a \in Allocations, NEW b \in Allocations, a # b
             PROVE  Apart(a, b)
  BY DEF Unshared
<1> DEFINE LiveAt(c) == /\ c[1] \in DOMAIN info /\ c = <<c[1], LiveInfoSize>>
                        /\ ZoneStart(SpaceOf(c[1]), "live") <= c[1]
                        /\ c[1] + c[2] <= position[SpaceOf(c[1])]["live"]
           BitsAt(c) == /\ c \in written \/ \E t \in Markers : Fills(t) /\ c = Extent(job[t])
                        /\ ZoneStart(SpaceOf(c[1]), "bits") <= c[1]
                        /\ c[1] + c[2] <= position[SpaceOf(c[1])]["bits"]
<1>1. (LiveAt(a) \/ BitsAt(a)) /\ (LiveAt(b) \/ BitsAt(b))
  BY AllocationsPlaced
<1>2. CASE LiveAt(a) /\ LiveAt(b)
  <2>1. a[1] # b[1] /\ a[2] = LiveInfoSize /\ b[2] = LiveInfoSize
    BY <1>2
  <2> QED BY <1>2, <2>1 DEF IInv, SlotsApart, Apart
<1>3. CASE BitsAt(a) /\ BitsAt(b)
  <2>1. CASE a \in written /\ b \in written
    BY <2>1 DEF IInv, BitsApart
  <2>2. CASE a \in written /\ \E t \in Markers : Fills(t) /\ b = Extent(job[t])
    BY <2>2 DEF IInv, BitsApart
  <2>3. CASE b \in written /\ \E t \in Markers : Fills(t) /\ a = Extent(job[t])
    BY <2>3 DEF IInv, BitsApart, Apart
  <2>4. ASSUME NEW t \in Markers, Fills(t), a = Extent(job[t]),
               NEW u \in Markers, Fills(u), b = Extent(job[u])
        PROVE  Apart(a, b)
    <3>1. t # u
      BY <2>4
    <3> QED BY <2>4, <3>1 DEF IInv, BitsApart
  <2> QED BY <1>3, <2>1, <2>2, <2>3, <2>4
<1>4. CASE LiveAt(a) /\ BitsAt(b)
  BY <1>4, ZonesApart DEF Zones
<1>5. CASE BitsAt(a) /\ LiveAt(b)
  BY <1>5, ZonesApart DEF Zones
<1> HIDE DEF LiveAt, BitsAt
<1> QED
  BY <1>1, <1>2, <1>3, <1>4, <1>5

LEMMA AllZeroHolds == IInv => AllZero
<1> SUFFICES ASSUME IInv, NEW t \in Markers, job[t].step = "publish"
             PROVE  ReadsZero(job[t])
  BY DEF AllZero
<1>1. CASE job[t].kind = Live
  BY <1>1 DEF IInv, SlotsOwned, Binds, ReadsZero
<1>2. CASE job[t].kind # Live
  BY <1>2 DEF IInv, BitsApart, Fills, Extent, ReadsZero
<1> QED
  BY <1>1, <1>2

\* What is handed out overlaps nothing in use, stays in its zone and reads as
\* zero (ForwardDataSpaceAllocate, which looks at no end; ClearPrevious).
THEOREM AllocationsStaySound == Spec => [](Unshared /\ ZonesHold /\ AllZero)
<1>1. IInv => Unshared /\ ZonesHold /\ AllZero
  BY UnsharedHolds, AllZeroHolds DEF IInv
<1> QED
  BY <1>1, IInvHolds, PTL

-----------------------------------------------------------------------------
(* Memory is committed before it is used *)

\* The pages of a space are those from n times its number to the next multiple.
LEMMA PagesOfSpaces ==
  \E n \in Nat \ {0} :
     /\ SpaceSize = PageSize * n
     /\ Mapping = 0 .. (n + n - 1)
     /\ Pages(0 * SpaceSize, SpaceSize) = 0 .. (n - 1)
     /\ Pages(1 * SpaceSize, SpaceSize) = n .. (n + n - 1)
<1>1. PageSize \in Nat \ {0} /\ SpaceSize \in Nat /\ SpaceSize > 0
  BY SpaceFacts, ForwardAssumption
<1>2. PICK n \in Nat : SpaceSize = PageSize * n
  BY SpaceFacts
<1>3. n # 0
  BY <1>1, <1>2
<1>4. /\ PageSize * (n - 1) = SpaceSize - PageSize
      /\ PageSize * (n + n - 1) = SpaceSize + SpaceSize - PageSize
      /\ PageSize * 0 = 0
  BY <1>1, <1>2, <1>3
<1>5. /\ 0 \div PageSize = 0 /\ SpaceSize \div PageSize = n
      /\ (SpaceSize - 1) \div PageSize = n - 1
      /\ (SpaceSize + SpaceSize - 1) \div PageSize = n + n - 1
  <2>1. SpaceSize >= PageSize
    BY <1>1, <1>3, <1>4
  <2>2. SpaceSize - 1 \in Nat /\ SpaceSize + SpaceSize - 1 \in Nat /\ n - 1 \in Nat /\ n + n - 1 \in Nat
    BY <1>1, <1>3
  <2>3. 0 \div PageSize = 0
    BY <1>1, <1>4, DivUnique
  <2>4. SpaceSize \div PageSize = n
    BY <1>1, <1>2, DivUnique
  <2>5. (SpaceSize - 1) \div PageSize = n - 1
    BY <1>1, <1>4, <2>1, <2>2, DivUnique
  <2>6. (SpaceSize + SpaceSize - 1) \div PageSize = n + n - 1
    BY <1>1, <1>4, <2>1, <2>2, DivUnique
  <2> QED BY <2>3, <2>4, <2>5, <2>6
<1>6. /\ 0 * SpaceSize = 0 /\ 1 * SpaceSize = SpaceSize
      /\ 0 + SpaceSize - 1 = SpaceSize - 1
      /\ 0 + 2 * SpaceSize - 1 = SpaceSize + SpaceSize - 1
  BY <1>1
<1>7. /\ Mapping = 0 .. (n + n - 1)
      /\ Pages(0 * SpaceSize, SpaceSize) = 0 .. (n - 1)
      /\ Pages(1 * SpaceSize, SpaceSize) = n .. (n + n - 1)
  BY <1>5, <1>6 DEF Mapping, Pages
<1> QED
  BY <1>2, <1>3, <1>7

\* A byte of a space is on a page of the space.
LEMMA PageOfByte ==
  ASSUME NEW n \in Nat \ {0}, SpaceSize = PageSize * n, NEW s \in Tags, NEW x \in Nat,
         s * SpaceSize <= x, x < (s + 1) * SpaceSize
  PROVE  x \div PageSize \in (IF s = 0 THEN 0 .. (n - 1) ELSE n .. (n + n - 1))
<1>1. PageSize \in Nat \ {0} /\ SpaceSize \in Nat /\ SpaceSize > 0
  BY SpaceFacts, ForwardAssumption
<1> DEFINE q == x \div PageSize
<1>2. q \in Nat /\ PageSize * q <= x /\ x < PageSize * q + PageSize
  BY <1>1, DivFacts
<1> HIDE DEF q
<1>3. /\ PageSize * (n + n) = SpaceSize + SpaceSize /\ PageSize * (q + 1) = PageSize * q + PageSize
  BY <1>1, <1>2
<1>4. q >= n + n => x >= SpaceSize + SpaceSize
  BY <1>1, <1>2, <1>3, MulMono
<1>5. q >= n => x >= SpaceSize
  BY <1>1, <1>2, MulMono
<1>6. q < n => x < SpaceSize
  <2>1. q + 1 <= n => PageSize * (q + 1) <= PageSize * n
    BY <1>1, <1>2, MulMono
  <2> QED BY <1>1, <1>2, <1>3, <2>1
<1>7. CASE s = 0
  BY <1>1, <1>2, <1>5, <1>7 DEF q
<1>8. CASE s = 1
  BY <1>1, <1>2, <1>4, <1>6, <1>8 DEF q
<1> QED
  BY <1>7, <1>8 DEF Tags

\* A refused commit is one that leaves the mapping: what is left of the space
\* is then on the page of the last byte committed.
LEMMA CommitCovers ==
  ASSUME IInv, CommitsCover, CommitsFit, CommitsOnDemand, NEW t \in Markers, Allocate(t),
         NEW x \in Nat,
         LET z == ZoneOf(job[t])
         IN  /\ position[tag][z] + SizeOf(job[t]) > lastCommit[tag][z]
             /\ lastCommit[tag][z] <= x
             /\ x < lastCommit[tag][z] + RoundUp(SizeOf(job[t]))
             /\ x < (tag + 1) * SpaceSize
  PROVE  x \div PageSize \in backed'
<1> DEFINE z == ZoneOf(job[t])
           size == SizeOf(job[t])
           last == lastCommit[tag][z]
           pages == Pages(last, RoundUp(size))
           P == PageSize
           SS == SpaceSize
<1>1. /\ tag \in Tags /\ z \in Zones /\ size \in Nat \ {0} /\ job[t].space = tag
      /\ job[t].region \in Regions /\ position[tag][z] \in Nat
  BY AllocateFacts
<1>2. /\ last \in Nat /\ position[tag][z] <= last /\ backed \subseteq Mapping
  BY <1>1 DEF IInv, TypeOK, CommitsCover
<1>3. /\ P \in Nat \ {0} /\ SS \in Nat /\ SS > 0 /\ RoundUp(size) \in Nat
      /\ size <= RoundUp(size) /\ RoundUp(size) < size + P
  BY <1>1, RoundUpFacts, SpaceFacts, ForwardAssumption
<1>4. backed' = backed \union (IF pages \subseteq Mapping THEN pages ELSE {})
  BY <1>1 DEF Allocate, Commit
<1>5. PICK n \in Nat \ {0} : SS = P * n /\ Mapping = 0 .. (n + n - 1)
  BY PagesOfSpaces
<1>6. x \div P \in pages
  <2>1. last + RoundUp(size) - 1 \in Nat /\ x <= last + RoundUp(size) - 1
    BY <1>1, <1>2, <1>3
  <2>2. /\ x \div P \in Nat /\ last \div P \in Nat /\ (last + RoundUp(size) - 1) \div P \in Nat
    BY <1>2, <1>3, <2>1, DivFacts
  <2>3. last \div P <= x \div P /\ x \div P <= (last + RoundUp(size) - 1) \div P
    BY <1>2, <1>3, <2>1, DivMono
  <2> HIDE DEF last, size
  <2> QED BY <2>2, <2>3 DEF Pages
<1>7. CASE pages \subseteq Mapping
  BY <1>4, <1>6, <1>7
<1>8. CASE ~(pages \subseteq Mapping)
  <2> DEFINE e == last + RoundUp(size) - 1
  <2>1. e \in Nat
    BY <1>1, <1>2, <1>3
  <2>2. e >= SS + SS
    <3>1. SUFFICES ASSUME e < SS + SS
                   PROVE  FALSE
      BY <1>3, <2>1
    <3> DEFINE q == e \div P
    <3>2. q \in Nat /\ P * q <= e
      BY <1>3, <2>1, DivFacts
    <3>3. q < n + n
      <4>1. P * (n + n) = SS + SS
        BY <1>3, <1>5
      <4>2. P * q \in Nat
        BY <1>3, <3>2, MulNat
      <4> HIDE DEF q, e
      <4>3. n + n <= q => P * (n + n) <= P * q
        BY <1>3, <3>2, MulMono
      <4> QED BY <1>3, <2>1, <3>1, <3>2, <4>1, <4>2, <4>3
    <3>4. last \div P \in Nat
      BY <1>2, <1>3, DivFacts
    <3>5. pages = (last \div P) .. q
      BY DEF Pages
    <3> HIDE DEF q, pages
    <3>6. pages \subseteq Mapping
      BY <1>5, <3>2, <3>3, <3>4, <3>5
    <3> QED BY <1>8, <3>6
  <2>3. last < position[tag][z] + size /\ last + RoundUp(size) < position[tag][z] + size + RoundUp(size)
    BY <1>1, <1>2, <1>3
  <2>4. (tag + 1) * SS \in Nat /\ (tag + 1) * SS <= SS + SS /\ tag * SS \in Nat
        /\ (tag + 1) * SS = tag * SS + SS /\ (tag = 0 => (tag + 1) * SS = SS)
    BY <1>1, <1>3 DEF Tags
  <2>5. BitBytes > P
    BY DEF CommitsFit, BitBytes, KindCount
  <2>6. z = "bits" /\ job[t].kind # Live
    <3>1. SUFFICES ASSUME job[t].kind = Live
                   PROVE  FALSE
      BY DEF ZoneOf
    <3>2. z = "live" /\ size = LiveInfoSize
      BY <3>1 DEF ZoneOf, SizeOf
    <3>3. position[tag]["live"] + LiveInfoSize <= ZoneEnd(tag, "live")
      BY <3>1, LiveFits DEF Allocate
    <3>4. RoundUp(LiveInfoSize) = P
      <4>1. LiveInfoSize + P - 1 \in Nat /\ P * 1 = P /\ P <= LiveInfoSize + P - 1
            /\ LiveInfoSize + P - 1 < P + P
        BY <1>3, SizeFacts DEF CommitsFit
      <4>2. (LiveInfoSize + P - 1) \div P = 1
        BY <1>3, <4>1, DivUnique
      <4> QED BY <1>3, <4>2 DEF RoundUp
    <3>5. ZoneEnd(tag, "live") \in Nat /\ ZoneEnd(tag, "live") + BitBytes <= (tag + 1) * SS
          /\ BitBytes \in Nat
      BY <1>1, Zones4, SpaceFacts
    <3>6. last < ZoneEnd(tag, "live")
      BY <1>1, <1>2, <2>3, <3>2, <3>3, <3>5, SizeFacts
    <3>7. e = last + P - 1
      BY <3>2, <3>4
    <3> HIDE DEF e, last
    <3> QED BY <1>2, <1>3, <2>1, <2>2, <2>4, <2>5, <3>5, <3>6, <3>7
  <2> DEFINE r == job[t].region
             X == KindCount * ((Cardinality(UnitsOf[r]) - 1) * HeaderSize)
  <2>7. /\ size = BitmapSize(r) /\ job[t].step = "allocate"
        /\ position[tag]["bits"] + size + X <= ZoneStart(tag, "bits") + BitBytes
    <3>1. size = BitmapSize(r) /\ job[t].step = "allocate"
      BY <2>6 DEF SizeOf, Allocate
    <3> QED BY <2>6, <3>1, BitsFit
  <2>8. X \in Nat
    <3>1. /\ Cardinality(UnitsOf[r]) - 1 \in Nat /\ HeaderSize \in Nat /\ KindCount \in Nat
      BY <1>1, SizeFacts, SpaceFacts
    <3>2. (Cardinality(UnitsOf[r]) - 1) * HeaderSize \in Nat
      BY <3>1, MulNat
    <3> QED BY <3>1, <3>2, MulNat
  <2>9. ZoneStart(tag, "bits") \in Nat /\ ZoneStart(tag, "bits") + BitBytes <= (tag + 1) * SS
        /\ BitBytes \in Nat /\ tag * SS <= ZoneStart(tag, "bits")
    BY <1>1, Zones4, SpaceFacts
  <2>10. size <= P
    <3>1. SUFFICES ASSUME size > P
                   PROVE  FALSE
      BY <1>1, <1>3
    <3>2. RoundUp(size) <= X
      BY <1>1, <2>7, <3>1 DEF CommitsFit, KindCount
    <3> HIDE DEF X, size, last
    <3> QED BY <1>1, <1>2, <1>3, <2>2, <2>3, <2>4, <2>6, <2>7, <2>8, <2>9, <3>2
  <2>11. RoundUp(size) = P
    <3>1. size + P - 1 \in Nat /\ P * 1 = P /\ P <= size + P - 1 /\ size + P - 1 < P + P
      BY <1>1, <1>3, <2>10
    <3>2. (size + P - 1) \div P = 1
      BY <1>3, <3>1, DivUnique
    <3> HIDE DEF size
    <3> QED BY <1>3, <3>2 DEF RoundUp
  <2>12. last + P - 1 >= SS + SS /\ last < (tag + 1) * SS
    <3> HIDE DEF X, size, last
    <3> QED BY <1>1, <1>2, <1>3, <2>2, <2>3, <2>4, <2>6, <2>7, <2>8, <2>9, <2>11 DEF X, size, last
  <2>13. (tag + 1) * SS = SS + SS
    <3>1. SS >= P
      <4>1. P * 1 = P /\ 1 <= n
        BY <1>3, <1>5
      <4> QED BY <1>3, <1>5, <4>1, MulMono
    <3> HIDE DEF last
    <3> QED BY <1>1, <1>2, <1>3, <2>4, <2>12, <3>1 DEF Tags
  <2>14. ZoneStart(tag, "bits") < last
    <3> HIDE DEF last
    <3> QED BY <1>2, <1>3, <2>5, <2>9, <2>12, <2>13
  <2> DEFINE y == last - 1
  <2>15. /\ y \in Nat /\ ZoneStart(tag, "bits") <= y /\ y < lastCommit[tag]["bits"]
         /\ y < (tag + 1) * SS
    <3>1. last = lastCommit[tag]["bits"]
      BY <2>6
    <3> HIDE DEF last
    <3>2. /\ last - 1 \in Nat /\ ZoneStart(tag, "bits") <= last - 1 /\ last - 1 < last
          /\ last - 1 < (tag + 1) * SS
      BY <1>2, <2>4, <2>9, <2>12, <2>14
    <3> QED BY <3>1, <3>2
  <2>16. y \div P \in backed
    BY <2>15 DEF CommitsCover, Zones
  <2>17. x \div P = n + n - 1 /\ y \div P = n + n - 1
    <3>1. P * (n + n - 1) = SS + SS - P /\ n + n - 1 \in Nat
      BY <1>3, <1>5
    <3>2. y >= SS + SS - P /\ y < SS + SS /\ x >= SS + SS - P /\ x < SS + SS
      <4>1. x >= last /\ x < (tag + 1) * SS
        OBVIOUS
      <4> HIDE DEF last
      <4> QED BY <1>2, <1>3, <2>12, <2>13, <4>1 DEF y
    <3>3. PageSize * (n + n - 1) + PageSize = SS + SS
      BY <1>3, <3>1
    <3>4. y \in Nat
      BY <2>15
    <3> DEFINE m == n + n - 1
    <3>5. m \in Nat /\ P * m = SS + SS - P /\ P * m + P = SS + SS
      BY <3>1, <3>3
    <3> HIDE DEF y, m
    <3>6. y \div P = m /\ x \div P = m
      BY <1>3, <3>2, <3>4, <3>5, DivUnique
    <3> QED BY <3>6 DEF m
  <2> QED BY <1>4, <2>16, <2>17
<1> QED
  BY <1>7, <1>8

LEMMA StepCommits ==
  ASSUME IInv, CommitsCover, CommitsFit, [Next]_vars
  PROVE  CommitsCover'
<1>0. tag \in Tags /\ TypeOK /\ TypeOK'
  BY NextIInv DEF IInv, TypeOK
<1>1. CASE \E t \in Markers : Allocate(t)
  <2>1. PICK t \in Markers : Allocate(t)
    BY <1>1
  <2> DEFINE z == ZoneOf(job[t])
             size == SizeOf(job[t])
             last == lastCommit[tag][z]
  <2>2. /\ tag \in Tags /\ tag' = tag /\ z \in Zones /\ size \in Nat \ {0} /\ job[t].space = tag
        /\ position[tag][z] \in Nat /\ position'[tag][z] = position[tag][z] + size
        /\ \A s \in Tags, y \in Zones : s # tag \/ y # z => position'[s][y] = position[s][y]
    BY <2>1, AllocateFacts
  <2>3. CASE CommitsOnDemand /\ position[tag][z] + size > last
    <3>1. Commit(tag, z, size)
      BY <2>1, <2>2, <2>3 DEF Allocate
    <3>2. last \in Nat /\ RoundUp(size) \in Nat /\ size <= RoundUp(size) /\ position[tag][z] <= last
      BY <1>0, <2>2, <2>3, RoundUpFacts DEF TypeOK, CommitsCover
    <3>3. /\ lastCommit'[tag][z] = last + RoundUp(size)
          /\ \A s \in Tags, y \in Zones : s # tag \/ y # z => lastCommit'[s][y] = lastCommit[s][y]
      BY <1>0, <2>2, <3>1 DEF Commit, TypeOK
    <3>4. backed \subseteq backed'
      BY <3>1 DEF Commit
    <3>5. ASSUME NEW s \in Tags, NEW y \in Zones
          PROVE  position'[s][y] <= lastCommit'[s][y]
      <4>1. CASE s = tag /\ y = z
        <5> HIDE DEF last, size
        <5> QED BY <2>2, <3>2, <3>3, <4>1
      <4>2. CASE s # tag \/ y # z
        BY <2>2, <2>3, <3>3, <4>2 DEF CommitsCover
      <4> QED BY <4>1, <4>2
    <3>6. ASSUME NEW y \in Zones, NEW x \in Nat,
                 ZoneStart(tag, y) <= x, x < lastCommit'[tag][y], x < (tag + 1) * SpaceSize
          PROVE  x \div PageSize \in backed'
      <4>1. CASE x < lastCommit[tag][y]
        BY <2>3, <3>4, <3>6, <4>1 DEF CommitsCover
      <4>2. CASE ~(x < lastCommit[tag][y])
        <5>1. y = z
          BY <2>2, <3>3, <3>6, <4>2
        <5>2. last <= x /\ x < last + RoundUp(size)
          BY <3>2, <3>3, <3>6, <4>2, <5>1
        <5> QED BY <2>1, <2>3, <3>6, <5>2, CommitCovers
      <4> QED BY <4>1, <4>2
    <3> QED BY <2>2, <2>3, <3>5, <3>6 DEF CommitsCover
  <2>4. CASE ~(CommitsOnDemand /\ position[tag][z] + size > last)
    <3>1. UNCHANGED <<backed, lastCommit>>
      BY <2>1, <2>2, <2>4 DEF Allocate
    <3>2. ASSUME CommitsOnDemand, NEW s \in Tags, NEW y \in Zones
          PROVE  position'[s][y] <= lastCommit'[s][y]
      <4>1. CASE s = tag /\ y = z
        <5>1. last \in Nat
          BY <1>0, <2>2 DEF TypeOK
        <5> QED BY <2>2, <2>4, <3>1, <3>2, <4>1, <5>1
      <4>2. CASE s # tag \/ y # z
        BY <2>2, <3>1, <3>2, <4>2 DEF CommitsCover
      <4> QED BY <4>1, <4>2
    <3> QED BY <2>2, <3>1, <3>2 DEF CommitsCover
  <2> QED BY <2>3, <2>4
<1>2. CASE SetTagID
  <2>1. /\ tag' = Previous /\ UNCHANGED <<position, lastCommit, backed>> /\ phase = "rest"
    BY <1>2 DEF SetTagID
  <2>2. \A z \in Zones : /\ lastCommit[Previous][z] = ZoneStart(Previous, z)
                         /\ ZoneStart(Previous, z) \in Nat
    BY <1>0, <2>1, PreviousFacts, Zones4 DEF IInv, PreviousEmpty, Zones
  <2> QED BY <2>1, <2>2 DEF CommitsCover
<1>3. CASE ReleaseMemory
  <2>1. /\ UNCHANGED <<tag, position, lastCommit>>
        /\ ~CommitsOnDemand => backed' = backed
        /\ CommitsOnDemand => backed' = backed \ Pages(Previous * SpaceSize, SpaceSize)
    BY <1>3 DEF ReleaseMemory
  <2>2. PICK n \in Nat \ {0} :
          /\ SpaceSize = PageSize * n
          /\ Pages(0 * SpaceSize, SpaceSize) = 0 .. (n - 1)
          /\ Pages(1 * SpaceSize, SpaceSize) = n .. (n + n - 1)
    BY PagesOfSpaces
  <2>3. ASSUME NEW z \in Zones, NEW x \in Nat, ZoneStart(tag, z) <= x, x < (tag + 1) * SpaceSize
        PROVE  x \div PageSize \notin Pages(Previous * SpaceSize, SpaceSize)
    <3>1. tag * SpaceSize <= x
      BY <1>0, <2>3, Zones4, SpaceFacts DEF Zones
    <3>2. x \div PageSize \in (IF tag = 0 THEN 0 .. (n - 1) ELSE n .. (n + n - 1))
      BY <1>0, <2>2, <2>3, <3>1, PageOfByte
    <3>3. CASE tag = 0
      <4>1. Previous = 1
        BY <3>3 DEF Previous
      <4> QED BY <2>2, <3>2, <3>3, <4>1
    <3>4. CASE tag = 1
      <4>1. Previous = 0
        BY <3>4 DEF Previous
      <4> QED BY <2>2, <3>2, <3>4, <4>1
    <3> QED BY <1>0, <3>3, <3>4 DEF Tags
  <2>4. CASE CommitsOnDemand
    BY <2>1, <2>3, <2>4 DEF CommitsCover
  <2>5. CASE ~CommitsOnDemand
    BY <2>1, <2>5 DEF CommitsCover
  <2> QED BY <2>4, <2>5
<1>4. CASE Reset
  <2>1. UNCHANGED <<tag, backed>> /\ Previous \in Tags /\ Previous # tag
    BY <1>0, <1>4, PreviousFacts DEF Reset
  <2>2. \A s \in Tags, z \in Zones :
          IF s = tag THEN position'[s][z] = position[s][z] /\ lastCommit'[s][z] = lastCommit[s][z]
          ELSE position'[s][z] = ZoneStart(s, z) /\ lastCommit'[s][z] = ZoneStart(s, z)
    BY <1>0, <1>4, PreviousFacts DEF Reset, TypeOK
  <2>3. \A s \in Tags, z \in Zones : ZoneStart(s, z) \in Nat
    BY Zones4 DEF Zones
  <2> QED BY <1>0, <2>1, <2>2, <2>3 DEF CommitsCover
<1>5. CASE UNCHANGED <<tag, position, lastCommit, backed>>
  BY <1>5 DEF CommitsCover
<1>6. \/ \E t \in Markers : Allocate(t)
      \/ SetTagID \/ ReleaseMemory \/ Reset
      \/ UNCHANGED <<tag, position, lastCommit, backed>>
  BY DEF Next, Mark, Collect, vars, ClaimLiveInfo, ClaimBitmap, ReadTag, PublishLiveInfo,
     PublishBitmap, UnbindPrevious, UnbindEnd, EndMarking, BecomeGarbage, InitRegionInfo
<1> QED
  BY <1>1, <1>2, <1>3, <1>4, <1>5, <1>6

LEMMA InitCommits == Init => CommitsCover
<1>1. Init => /\ tag \in Tags /\ lastCommit = position
              /\ \A s \in Tags, z \in Zones : position[s][z] = ZoneStart(s, z)
              /\ ~CommitsOnDemand => backed = Mapping
  BY DEF Init, Tags
<1>2. \A s \in Tags, z \in Zones : ZoneStart(s, z) \in Nat
  BY Zones4 DEF Zones
<1> QED
  BY <1>1, <1>2 DEF CommitsCover

\* What is committed includes what is allocated.
LEMMA BackedHolds == IInv /\ CommitsCover => Backed
<1> SUFFICES ASSUME IInv, CommitsCover, NEW a \in Allocations, SpaceOf(a[1]) = tag,
                    NEW p \in Pages(a[1], a[2])
             PROVE  p \in backed
  BY DEF Backed
<1>1. PICK z \in Zones : /\ ZoneStart(tag, z) <= a[1] /\ a[1] + a[2] <= position[tag][z]
  BY AllocationsPlaced DEF Zones
<1>2. a[1] \in Nat /\ a[2] \in Nat \ {0} /\ tag \in Tags
  BY AllocationsPlaced
<1>3. position[tag][z] \in Nat /\ position[tag][z] <= ZoneEnd(tag, z) /\ lastCommit[tag][z] \in Nat
  BY <1>2 DEF IInv, TypeOK, ZonesHold
<1>4. /\ ZoneEnd(tag, z) \in Nat /\ ZoneEnd(tag, z) <= (tag + 1) * SpaceSize
      /\ (tag + 1) * SpaceSize \in Nat /\ tag * SpaceSize \in Nat /\ tag * SpaceSize <= ZoneStart(tag, z)
      /\ ZoneStart(tag, z) \in Nat
  BY <1>2, Zones4, SpaceFacts DEF Zones
<1>5. PageSize \in Nat \ {0}
  BY ForwardAssumption
<1>6. PICK x \in Nat : a[1] <= x /\ x < a[1] + a[2] /\ x \div PageSize = p
  <2> DEFINE e == a[1] + a[2] - 1
  <2>1. e \in Nat
    BY <1>2
  <2>2. /\ a[1] \div PageSize \in Nat /\ e \div PageSize \in Nat
        /\ a[1] < PageSize * (a[1] \div PageSize) + PageSize
        /\ PageSize * (e \div PageSize) <= e
    BY <1>2, <1>5, <2>1, DivFacts
  <2>3. p \in Nat /\ a[1] \div PageSize <= p /\ p <= e \div PageSize
    <3> HIDE DEF e
    <3>1. p \in (a[1] \div PageSize) .. (e \div PageSize)
      BY DEF Pages, e
    <3> QED BY <2>2, <3>1
  <2>4. CASE p = a[1] \div PageSize
    BY <1>2, <2>4
  <2>5. CASE p # a[1] \div PageSize
    <3> DEFINE q == a[1] \div PageSize
    <3>1. q \in Nat /\ q + 1 <= p
      BY <2>2, <2>3, <2>5
    <3>2. PageSize * (q + 1) <= PageSize * p /\ PageSize * p <= PageSize * (e \div PageSize)
          /\ PageSize * p \in Nat /\ PageSize * (e \div PageSize) \in Nat
      BY <1>5, <2>2, <2>3, <3>1, MulMono, MulNat
    <3>3. PageSize * (q + 1) = PageSize * q + PageSize /\ PageSize * q \in Nat
      BY <1>5, <3>1, MulNat
    <3>4. a[1] <= PageSize * p /\ PageSize * p <= e
      <4> HIDE DEF e
      <4> QED BY <1>2, <1>5, <2>1, <2>2, <3>2, <3>3
    <3>5. (PageSize * p) \div PageSize = p
      BY <1>5, <2>3, <3>2, DivUnique
    <3> QED BY <1>2, <3>2, <3>4, <3>5
  <2> QED BY <2>4, <2>5
<1>7. x < (tag + 1) * SpaceSize /\ x < position[tag][z] /\ ZoneStart(tag, z) <= x
      /\ tag * SpaceSize <= x
  BY <1>1, <1>2, <1>3, <1>4, <1>6
<1>8. CASE CommitsOnDemand
  <2>1. x < lastCommit[tag][z]
    BY <1>2, <1>3, <1>7, <1>8 DEF CommitsCover
  <2> QED BY <1>6, <1>7, <1>8, <2>1 DEF CommitsCover
<1>9. CASE ~CommitsOnDemand
  <2>1. PICK n \in Nat \ {0} : SpaceSize = PageSize * n /\ Mapping = 0 .. (n + n - 1)
    BY PagesOfSpaces
  <2>2. x \div PageSize \in (IF tag = 0 THEN 0 .. (n - 1) ELSE n .. (n + n - 1))
    BY <1>2, <1>7, <2>1, PageOfByte
  <2>3. x \div PageSize \in Mapping
    BY <2>1, <2>2
  <2> QED BY <1>6, <1>9, <2>3 DEF CommitsCover
<1> QED
  BY <1>8, <1>9

\* Where the layout grants commits as long as one allocation, every allocation
\* is sound and has memory behind it (ForwardDataSpaceAllocate, ClearPrevious).
THEOREM MemoryStaysSound ==
  ASSUME CommitsFit
  PROVE  Spec => []MemoryIsSound
<1>1. Init => IInv /\ CommitsCover
  BY InitIInv, InitCommits
<1>2. (IInv /\ CommitsCover) /\ [Next]_vars => (IInv /\ CommitsCover)'
  BY NextIInv, StepCommits
<1>3. IInv /\ CommitsCover => MemoryIsSound
  BY UnsharedHolds, AllZeroHolds, BackedHolds DEF IInv, MemoryIsSound
<1> QED
  BY <1>1, <1>2, <1>3, PTL DEF Spec

\* The code's layout grants it: live infos of 32 bytes, three bitmaps with a
\* header of 48 bytes and 64 bytes of words per unit, pages of 4096 bytes
\* (LiveInfo, RegionBitmap, ForwardDataGetLiveInfoDataSize), and a heap of at
\* least 13 units.
THEOREM CodeLayoutFits ==
  ASSUME LiveInfoSize = 32, HeaderSize = 48, WordsSize = 64, PageSize = 4096,
         Cardinality(Kinds) = 3, UnitCount >= 13
  PROVE  CommitsFit
<1>1. PageSize < UnitCount * (Cardinality(Kinds) * (HeaderSize + WordsSize))
  BY ForwardAssumption
<1>2. ASSUME NEW r \in Regions, BitmapSize(r) > PageSize
      PROVE  RoundUp(BitmapSize(r))
               <= Cardinality(Kinds) * ((Cardinality(UnitsOf[r]) - 1) * HeaderSize)
  <2> DEFINE n == Cardinality(UnitsOf[r])
  <2>1. n \in Nat /\ BitmapSize(r) = 48 + n * 64
    BY SizeFacts DEF BitmapSize
  <2>2. RoundUp(BitmapSize(r)) \in Nat /\ RoundUp(BitmapSize(r)) < 48 + n * 64 + 4096
    BY <2>1, SizeFacts, RoundUpFacts
  <2> HIDE DEF n
  <2>3. n >= 64
    BY <1>2, <2>1
  <2>4. RoundUp(BitmapSize(r)) <= 3 * ((n - 1) * 48)
    BY <2>1, <2>2, <2>3
  <2> QED BY <2>4 DEF n
<1> QED
  BY <1>1, <1>2 DEF CommitsFit

=============================================================================
