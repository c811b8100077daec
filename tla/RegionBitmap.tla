---------------------------- MODULE RegionBitmap ----------------------------
(***************************************************************************)
(* The mark bitmap of a region (rt.gc/RegionBitmap.cj).  Collector threads *)
(* mark objects concurrently: the one whose fetch-or sets the head bits    *)
(* wins the object, then counts its bits into the part counter and the     *)
(* live bytes and sets the remaining words.  Each atomic operation is one  *)
(* step.  After marking, GetPreLiveBytes tells how much is live before an  *)
(* offset, from the part counters and the words of the last part.          *)
(*                                                                         *)
(* One bit stands for MARKED_BYTES_PER_BIT bytes, and sizes and offsets    *)
(* are counted in bits.  A mark word is the set of its bit positions.      *)
(***************************************************************************)
EXTENDS Integers, FiniteSets, FiniteSetsExt, Functions

CONSTANTS Words,        \* mark words of the region: regionSize / (8 * 64)
          WordBits,     \* BITS_PER_WORD
          MaxParts,     \* length of partLiveBytes
          PartMod,      \* values of a part counter, a UInt16 in the code
          IndexMod,     \* values of a word index, a UInt64 in the code
          Markers       \* collector threads, finitely many

Bits == Words * WordBits
calFactor == IF Words < MaxParts THEN Words ELSE MaxParts
\* Words of one part: the word count, rounded up to whole parts, over the parts.
step == (Words + calFactor - 1) \div calFactor

ASSUME SizeAssumption ==
    /\ {Words, WordBits, MaxParts, PartMod, IndexMod} \subseteq Nat \ {0}
    /\ step * WordBits < PartMod
    /\ Words < IndexMod
    /\ IsFiniteSet(Markers)

VARIABLES
    starts,         \* where the objects of the region begin: the layout
    markWords,      \* the set bits, as offsets in the region
    partLiveBytes,  \* live bits of every part
    liveBytes,      \* live bits of the region
    pc,             \* of every marker
    object,         \* the object a marker is at
    idx,            \* the tail word a marker is at
    won             \* how often MarkBits answered "was not marked", by object
vars == <<starts, markWords, partLiveBytes, liveBytes, pc, object, idx, won>>

Parts == 0 .. MaxParts - 1
part(w) == w \div step
Size(o) == Min({s \in starts : s > o} \cup {Bits}) - o
AllBits == 0 .. WordBits - 1
MarkWord(w) == {b \in AllBits : w * WordBits + b \in markWords}

\* The words and masks of an object.
headWordIdx(o) == o \div WordBits
headBitCnt(o) == WordBits - (o % WordBits)
tailBitCnt(o) == Max({Size(o) - headBitCnt(o), 0})
headMaskBits(o) ==
    {b \in AllBits : o % WordBits <= b /\ b < (o % WordBits) + Size(o)}
HeadClear(o) == MarkWord(headWordIdx(o)) \cap headMaskBits(o) = {}
tailWordCnt(o) == (tailBitCnt(o) + WordBits - 1) \div WordBits
lastMaskBits(o) == {b \in AllBits : b < tailBitCnt(o) % WordBits}
lastWordIdx(o) == headWordIdx(o) + tailWordCnt(o)
FullWord(o, w) == w < lastWordIdx(o) \/ lastMaskBits(o) = {}
tailMaskBits(o, w) == IF FullWord(o, w) THEN AllBits ELSE lastMaskBits(o)

-----------------------------------------------------------------------------
Init ==
    /\ starts \in {{0} \cup s : s \in SUBSET (1 .. Bits - 1)}
    /\ markWords = {}
    /\ partLiveBytes = [p \in Parts |-> 0]
    /\ liveBytes = 0
    /\ pc = [m \in Markers |-> "idle"]
    /\ object = [m \in Markers |-> 0]
    /\ idx = [m \in Markers |-> 0]
    /\ won = [o \in 0 .. Bits - 1 |-> 0]

Goto(m, label) == pc' = [pc EXCEPT ![m] = label]

\* MarkBits returns, and its locals are gone.
Return(m) ==
    /\ Goto(m, "idle")
    /\ object' = [object EXCEPT ![m] = 0]
    /\ idx' = [idx EXCEPT ![m] = 0]

FetchOr(w, mask) == markWords' = markWords \cup {w * WordBits + b : b \in mask}

AddToPart(w, mask) ==
    partLiveBytes' = [partLiveBytes EXCEPT
        ![part(w)] = (@ + Cardinality(mask)) % PartMod]

\* The marker's MarkBits returns FALSE: it owns the object and will trace it.
Win(m) ==
    /\ won' = [won EXCEPT ![object[m]] = @ + 1]
    /\ Return(m)

\* The loops over the tail words, after word w.
NextTailWord(m, w) ==
    \/ /\ w = lastWordIdx(object[m])
       /\ Win(m)
    \/ /\ w < lastWordIdx(object[m])
       /\ Goto(m, "tail")
       /\ idx' = [idx EXCEPT ![m] = w + 1]
       /\ UNCHANGED <<object, won>>

-----------------------------------------------------------------------------
\* A reference to an object is traced: MarkBits is called.
StartMark(m, o) ==
    /\ pc[m] = "idle"
    /\ object' = [object EXCEPT ![m] = o]
    /\ Goto(m, "load")
    /\ UNCHANGED <<starts, markWords, partLiveBytes, liveBytes, idx, won>>

\* The first look: an object already marked is left at once.
LoadHead(m) ==
    /\ pc[m] = "load"
    /\ IF HeadClear(object[m])
       THEN Goto(m, "head") /\ UNCHANGED <<object, idx>>
       ELSE Return(m)
    /\ UNCHANGED <<starts, markWords, partLiveBytes, liveBytes, won>>

OrHeadUnchecked(m) ==
    /\ pc[m] = "head"
    /\ FetchOr(headWordIdx(object[m]), headMaskBits(object[m]))
    /\ Goto(m, "headPart")
    /\ UNCHANGED <<starts, partLiveBytes, liveBytes, object, idx, won>>

\* The fetch-or decides: whoever finds the head bits clear wins the object.
OrHead(m) ==
    /\ pc[m] = "head"
    /\ FetchOr(headWordIdx(object[m]), headMaskBits(object[m]))
    /\ IF HeadClear(object[m])
       THEN Goto(m, "headPart") /\ UNCHANGED <<object, idx>>
       ELSE Return(m)
    /\ UNCHANGED <<starts, partLiveBytes, liveBytes, won>>

AddHeadPart(m) ==
    /\ pc[m] = "headPart"
    /\ AddToPart(headWordIdx(object[m]), headMaskBits(object[m]))
    /\ Goto(m, "live")
    /\ UNCHANGED <<starts, markWords, liveBytes, object, idx, won>>

AddLiveHeadOnly(m) ==
    /\ pc[m] = "live"
    /\ liveBytes' = liveBytes + Cardinality(headMaskBits(object[m]))
    /\ NextTailWord(m, headWordIdx(object[m]))
    /\ UNCHANGED <<starts, markWords, partLiveBytes>>

AddLive(m) ==
    /\ pc[m] = "live"
    /\ liveBytes' = liveBytes + Size(object[m])
    /\ NextTailWord(m, headWordIdx(object[m]))
    /\ UNCHANGED <<starts, markWords, partLiveBytes>>

OrTail(m) ==
    /\ pc[m] = "tail"
    /\ FetchOr(idx[m], tailMaskBits(object[m], idx[m]))
    /\ Goto(m, "tailPart")
    /\ UNCHANGED <<starts, partLiveBytes, liveBytes, object, idx, won>>

AddTailPart(m) ==
    /\ pc[m] = "tailPart"
    /\ AddToPart(idx[m], tailMaskBits(object[m], idx[m]))
    /\ NextTailWord(m, idx[m])
    /\ UNCHANGED <<starts, markWords, liveBytes>>

Next == \E m \in Markers :
    \/ \E o \in starts : StartMark(m, o)
    \/ LoadHead(m) \/ OrHead(m) \/ AddHeadPart(m) \/ AddLive(m)
    \/ OrTail(m) \/ AddTailPart(m)

Spec == Init /\ [][Next]_vars

-----------------------------------------------------------------------------
(***************************************************************************)
(* GetPreMaskInfo and GetPreLiveBytes.  partIndex is the last whole part   *)
(* before the offset, none when the offset is in the first part.  The word *)
(* index is unsigned: stepping down from the first word wraps around.      *)
(***************************************************************************)
StepDown(i) == (i + IndexMod - 1) % IndexMod
wholePartsThrough(offset) == (offset \div WordBits + 1) \div step
wholeParts(offset) == (offset \div WordBits) \div step
partStartIndex(offset) == step * wholeParts(offset)
NoReturn == -1

\* The marked bits of every word, the population counts the loops sum.
WordCounts == [w \in 0 .. Words - 1 |-> Cardinality(MarkWord(w))]

GetPreLiveBytes(offset) ==
    LET index == offset \div WordBits
        first == partStartIndex(offset)
        mask == {b \in AllBits : b < offset % WordBits}
        partBits == SumFunctionOnSet(partLiveBytes, 0 .. wholeParts(offset) - 1)
        wordBits == Cardinality(MarkWord(index) \cap mask)
    IN  IF index = first THEN partBits + wordBits
        ELSE IF StepDown(first) >= first THEN NoReturn  \* the loop never ends
        ELSE partBits + wordBits
             + SumFunctionOnSet(WordCounts, first .. index - 1)

RecomputeLiveBytes == SumFunctionOnSet(WordCounts, 0 .. Words - 1)

-----------------------------------------------------------------------------
Idle == \A m \in Markers : pc[m] = "idle"

\* Every variable has its type: a part counter never leaves its width, and no
\* mark is set behind the region.
TypeOK ==
    /\ starts \subseteq 0 .. Bits - 1
    /\ markWords \subseteq 0 .. Bits - 1
    /\ partLiveBytes \in [Parts -> 0 .. PartMod - 1]
    /\ liveBytes \in 0 .. Bits
    /\ pc \in [Markers -> {"idle", "load", "head", "headPart", "live", "tail", "tailPart"}]
    /\ object \in [Markers -> 0 .. Bits - 1]
    /\ idx \in [Markers -> 0 .. Words]
    /\ won \in [0 .. Bits - 1 -> 0 .. 1]

Winning(m) == pc[m] \in {"headPart", "live", "tail", "tailPart"}

\* Exactly one marker wins a marked object, however many race for it between
\* the load and the fetch-or of ApplyBitMaskInfo: it is traced once.
OneMarkerWins ==
    \A o \in starts :
        won[o] + Cardinality({m \in Markers : Winning(m) /\ object[m] = o})
          = IF o \in markWords THEN 1 ELSE 0

\* The bits a marker has set and not yet counted.
Uncounted(m, p) ==
    LET o == object[m] IN
    CASE pc[m] = "headPart" /\ part(headWordIdx(o)) = p -> Cardinality(headMaskBits(o))
      [] pc[m] = "tailPart" /\ part(idx[m]) = p -> Cardinality(tailMaskBits(o, idx[m]))
      [] OTHER -> 0

\* At any moment a part counter lags its mark words by exactly what is between
\* a fetch-or and its fetch-add.
CountsFollowWords ==
    \A p \in Parts :
        partLiveBytes[p] + SumFunctionOnSet([m \in Markers |-> Uncounted(m, p)], Markers)
          = Cardinality({b \in markWords : part(b \div WordBits) = p})

\* When marking is over the live bytes counted per object are those recounted
\* from the mark words, and they are the sizes of the objects won.
LiveBytesExact ==
    Idle => /\ liveBytes = RecomputeLiveBytes
            /\ liveBytes = SumFunctionOnSet([o \in starts |-> Size(o)], {o \in starts : won[o] = 1})

\* Both counts are right with any number of markers racing: part by part at
\* any moment, and for the region as soon as they rest.
CountersExact == CountsFollowWords /\ LiveBytesExact

\* The debug build's CheckZero never aborts: nobody else touches the whole tail
\* words of an object that a marker has won.
NeverAborts ==
    \A m \in Markers :
        (pc[m] = "tail" /\ FullWord(object[m], idx[m])) => MarkWord(idx[m]) = {}

BitsBefore(offset) == Cardinality({b \in markWords : b < offset})

\* After marking, the bytes live before an offset are found exactly when the
\* offset begins a region or lies behind its first part.
PreLiveExactPastFirstPart ==
    Idle => \A offset \in 0 .. Bits - 1 :
        (offset < WordBits \/ offset >= step * WordBits)
          => GetPreLiveBytes(offset) = BitsBefore(offset)

\* After marking, GetPreLiveBytes answers the bytes marked before the offset,
\* for every offset of the region.
PreLiveExact ==
    Idle => \A offset \in 0 .. Bits - 1 :
        GetPreLiveBytes(offset) = BitsBefore(offset)
=============================================================================
