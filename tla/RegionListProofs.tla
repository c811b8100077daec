-------------------------- MODULE RegionListProofs --------------------------
(***************************************************************************)
(* The region lists are right for any regions, threads, lists and callers  *)
(* that keep to ListsAssumption and the guards marked caller.              *)
(*                                                                         *)
(* The links say where a region is only to whom follows them.  The proof   *)
(* says it outright: home is the list (or the merging thread) a region is  *)
(* at, and pos its place in the order there.  Both are the proof's own;    *)
(* the inductive invariant says that they exist (IInv).  Links that agree  *)
(* with pos cannot form a cycle, so a walk from a list's head meets        *)
(* exactly the regions that are at home there (ReachedFromHead).           *)
(*                                                                         *)
(* The lists implement RegionSequences: what Walk finds is the one Path    *)
(* from the head (WalkIsPath), each operation on the links is one on paths *)
(* (PathConcat, PathRemove), and so each step one of RegionSequences.      *)
(***************************************************************************)
EXTENDS RegionList, FiniteSetTheorems, SequenceTheorems, TLAPS

-----------------------------------------------------------------------------
(* Linked regions *)

\* The regions of R are linked from h to t by nx and back by pv, and ps counts
\* them up.
Order(R, h, t, nx, pv, ps) ==
    /\ h \in R \cup {Nobody} /\ t \in R \cup {Nobody}
    /\ h = Nobody <=> R = {}
    /\ t = Nobody <=> R = {}
    /\ \A r \in R : ps[h] <= ps[r] /\ ps[r] <= ps[t]
    /\ \A r \in R : pv[r] = Nobody <=> r = h
    /\ \A r \in R : nx[r] = Nobody <=> r = t
    /\ \A r \in R : pv[r] # Nobody =>
          pv[r] \in R /\ nx[pv[r]] = r /\ ps[r] = ps[pv[r]] + 1
    /\ \A r \in R : nx[r] # Nobody =>
          nx[r] \in R /\ pv[nx[r]] = r /\ ps[nx[r]] = ps[r] + 1
    /\ \A r, q \in R : ps[r] = ps[q] => r = q

Links == [Regions -> Regions \cup {Nobody}]
Positions == [Regions -> Int]

\* The counts of a list are those of R.
Counted(R, record) ==
    /\ record.regions = Cardinality(R)
    /\ record.units = Cardinality(UnitsOf(R))

\* A set of numbers has a least one.
LEMMA LeastNatural ==
  ASSUME NEW T \in SUBSET Nat, T # {}
  PROVE  \E x \in T : \A y \in T : x <= y
<1> DEFINE G == {0 .. x : x \in T}
<1>1. G \subseteq FiniteSubsetsOf(Nat) /\ G # {}
  <2>1. \A x \in T : 0 .. x \subseteq Nat /\ IsFiniteSet(0 .. x)
    BY FS_Interval
  <2>2. QED
    BY <2>1 DEF FiniteSubsetsOf
<1>2. PICK u \in G : \A v \in G : ~(<<v, u>> \in StrictSubsetOrdering(Nat))
  <2> HIDE DEF G
  <2>1. QED
    BY <1>1, FS_StrictSubsetOrderingWellFounded, WFMin
<1>3. PICK x \in T : u = 0 .. x
  OBVIOUS
<1>4. ASSUME NEW y \in T, ~(x <= y) PROVE FALSE
  <2>1. 0 .. y \in G /\ 0 .. y \in SUBSET Nat /\ 0 .. x \in SUBSET Nat
    OBVIOUS
  <2>2. x \in 0 .. x /\ x \notin 0 .. y
    BY <1>4
  <2>3. 0 .. y \subseteq 0 .. x /\ 0 .. y # 0 .. x
    BY <1>4, <2>2
  <2>4. QED
    BY <1>2, <1>3, <2>1, <2>3 DEF StrictSubsetOrdering
<1>5. QED
  BY <1>4

\* From a region on, a walk meets the regions behind it and no others.
LEMMA ReachedFrom ==
  ASSUME NEW R \in SUBSET Regions, NEW h, NEW t, NEW ps \in Positions,
         ListsAssumption, Order(R, h, t, next, prev, ps), NEW n \in R
  PROVE  Reach(n) = {r \in R : ps[n] <= ps[r]}
<1> DEFINE B == {r \in R : ps[n] <= ps[r]}
<1>1. Nobody \notin Regions
  BY DEF ListsAssumption
<1>2. ASSUME NEW r \in Reach(n) PROVE r \in B
  <2>1. B \in SUBSET Regions /\ n \in B
    BY DEF Positions
  <2>2. \A x \in B : next[x] \in B \cup {Nobody}
    BY DEF Order, Positions
  <2>3. QED
    BY <1>2, <2>1, <2>2 DEF Reach
<1>3. ASSUME NEW r \in B, NEW S \in SUBSET Regions, n \in S,
             \A x \in S : next[x] \in S \cup {Nobody}
      PROVE  r \in S
  <2> DEFINE T == {k \in Nat : \E x \in B \ S : k = ps[x] - ps[n]}
  <2> SUFFICES ASSUME r \notin S PROVE FALSE
    OBVIOUS
  <2>1. T \in SUBSET Nat /\ ps[r] - ps[n] \in T
    BY DEF Positions
  <2>2. PICK k \in T : \A y \in T : k <= y
    <3> HIDE DEF T
    <3>1. QED
      BY <2>1, LeastNatural
  <2>3. PICK x \in B \ S : k = ps[x] - ps[n]
    OBVIOUS
  <2>4. x # n /\ ps[x] # ps[n] /\ x \in R /\ ps[n] < ps[x]
    BY <1>3, <2>3 DEF Order, Positions
  <2>5. h \in R /\ x # h
    BY <1>1, <2>4 DEF Order, Positions
  <2>6. prev[x] \in R /\ next[prev[x]] = x /\ ps[x] = ps[prev[x]] + 1
    BY <2>4, <2>5 DEF Order
  <2>7. prev[x] \notin S
    BY <1>1, <1>3, <2>3, <2>4, <2>6
  <2>8. prev[x] \in B \ S /\ ps[prev[x]] - ps[n] \in T /\ ps[prev[x]] - ps[n] < k
    BY <2>3, <2>4, <2>6, <2>7 DEF Positions
  <2>9. QED
    BY <2>2, <2>8 DEF Positions
<1>4. \A r \in B : r \in Reach(n)
  BY <1>1, <1>3 DEF Reach
<1>5. QED
  BY <1>2, <1>4

\* Without a region to start from there is no walk.
LEMMA ReachNobody ==
  Reach(Nobody) = {}
<1>1. {} \in SUBSET Regions /\ Nobody \in {} \cup {Nobody}
  OBVIOUS
<1>2. QED
  BY <1>1 DEF Reach

\* A walk from the head meets all regions of the list.
LEMMA ReachedFromHead ==
  ASSUME NEW R \in SUBSET Regions, NEW h, NEW t, NEW ps \in Positions,
         ListsAssumption, Order(R, h, t, next, prev, ps)
  PROVE  Reach(h) = R
<1>1. CASE h = Nobody
  BY <1>1, ReachNobody DEF Order
<1>2. CASE h # Nobody
  <2>1. h \in R /\ \A r \in R : ps[h] <= ps[r]
    BY <1>2 DEF Order
  <2>2. Reach(h) = {r \in R : ps[h] <= ps[r]}
    BY <2>1, ReachedFrom
  <2>3. QED
    BY <2>1, <2>2
<1>3. QED
  BY <1>1, <1>2

\* Links and positions of other regions do not matter.
LEMMA OrderKept ==
  ASSUME NEW R, NEW h, NEW t, NEW nx, NEW pv, NEW ps, NEW nx2, NEW pv2, NEW ps2,
         Order(R, h, t, nx, pv, ps), Nobody \notin R,
         \A r \in R : nx2[r] = nx[r] /\ pv2[r] = pv[r] /\ ps2[r] = ps[r]
  PROVE  Order(R, h, t, nx2, pv2, ps2)
BY DEF Order

\* A region is put before the head (PrependRegionLocked).
Prepending(r, h, t, nx, pv, ps, t2, nx2, pv2, ps2) ==
    /\ t2 = IF h = Nobody THEN r ELSE t
    /\ \A x \in Regions :
          /\ nx2[x] = IF x = r THEN h ELSE nx[x]
          /\ pv2[x] = IF x = r THEN Nobody ELSE IF x = h THEN r ELSE pv[x]
          /\ ps2[x] = IF x # r THEN ps[x] ELSE IF h = Nobody THEN 0 ELSE ps[h] - 1

LEMMA OrderPrepend ==
  ASSUME NEW R \in SUBSET Regions, NEW r \in Regions \ R, NEW h, NEW t,
         NEW nx \in Links, NEW pv \in Links, NEW ps \in Positions,
         Nobody \notin Regions, Order(R, h, t, nx, pv, ps),
         NEW t2, NEW nx2, NEW pv2, NEW ps2,
         Prepending(r, h, t, nx, pv, ps, t2, nx2, pv2, ps2)
  PROVE  Order(R \cup {r}, r, t2, nx2, pv2, ps2)
<1> DEFINE R2 == R \cup {r}
<1>t. t2 = IF h = Nobody THEN r ELSE t
  BY DEF Prepending
<1>1. /\ \A x \in R : nx2[x] = nx[x] /\ pv2[x] = (IF x = h THEN r ELSE pv[x]) /\ ps2[x] = ps[x]
      /\ nx2[r] = h /\ pv2[r] = Nobody
      /\ ps2[r] = IF h = Nobody THEN 0 ELSE ps[h] - 1
  BY DEF Prepending
<1>2. \A x \in R : ps[x] \in Int /\ ps2[x] \in Int /\ ps2[r] \in Int
  BY <1>1 DEF Order, Positions
<1>3. CASE h = Nobody
  <2>1. R = {} /\ R2 = {r} /\ t2 = r
    BY <1>t, <1>3 DEF Order
  <2> HIDE DEF R2
  <2>2. Order(R2, r, t2, nx2, pv2, ps2)
    BY <1>1, <1>3, <2>1 DEF Order
  <2>3. QED
    BY <2>2 DEF R2
<1>4. CASE h # Nobody
  <2>1. h \in R /\ t \in R /\ t2 = t
    BY <1>t, <1>4 DEF Order
  <2>2. \A x \in R : ps[h] <= ps[x] /\ ps[x] <= ps[t]
    BY DEF Order
  <2>3. ps2[r] = ps[h] - 1
    BY <1>1, <1>4
  <2>4. \A x \in R2 : ps2[r] <= ps2[x] /\ ps2[x] <= ps2[t2]
    BY <1>1, <1>2, <2>1, <2>2, <2>3
  <2>5. \A x \in R2 : /\ pv2[x] = Nobody <=> x = r
                      /\ nx2[x] = Nobody <=> x = t2
    BY <1>1, <1>4, <2>1 DEF Order
  <2>6. \A x \in R2 : pv2[x] # Nobody =>
           pv2[x] \in R2 /\ nx2[pv2[x]] = x /\ ps2[x] = ps2[pv2[x]] + 1
    <3> SUFFICES ASSUME NEW x \in R, pv2[x] # Nobody
                 PROVE  pv2[x] \in R2 /\ nx2[pv2[x]] = x /\ ps2[x] = ps2[pv2[x]] + 1
      BY <1>1
    <3>1. CASE x = h
      BY <1>1, <1>2, <2>1, <2>3, <3>1
    <3>2. CASE x # h
      <4>1. pv2[x] = pv[x] /\ pv[x] \in R /\ nx[pv[x]] = x /\ ps[x] = ps[pv[x]] + 1
        BY <1>1, <3>2 DEF Order
      <4>2. QED
        BY <1>1, <4>1
    <3>3. QED
      BY <3>1, <3>2
  <2>7. \A x \in R2 : nx2[x] # Nobody =>
           nx2[x] \in R2 /\ pv2[nx2[x]] = x /\ ps2[nx2[x]] = ps2[x] + 1
    <3>1. ASSUME NEW x \in R, nx2[x] # Nobody
          PROVE  nx2[x] \in R2 /\ pv2[nx2[x]] = x /\ ps2[nx2[x]] = ps2[x] + 1
      <4>1. nx2[x] = nx[x] /\ nx[x] \in R /\ pv[nx[x]] = x /\ ps[nx[x]] = ps[x] + 1
        BY <1>1, <3>1 DEF Order
      <4>2. x # Nobody /\ nx[x] # h
        BY <4>1, <2>1 DEF Order
      <4>3. QED
        BY <1>1, <4>1, <4>2
    <3>2. nx2[r] \in R2 /\ pv2[nx2[r]] = r /\ ps2[nx2[r]] = ps2[r] + 1
      BY <1>1, <1>2, <2>1, <2>3
    <3>3. QED
      BY <3>1, <3>2
  <2>8. \A x, q \in R2 : ps2[x] = ps2[q] => x = q
    <3>1. \A x, q \in R : ps2[x] = ps2[q] => x = q
      BY <1>1 DEF Order
    <3>2. \A x \in R : ps2[x] # ps2[r]
      BY <1>1, <1>2, <2>1, <2>2, <2>3
    <3>3. QED
      BY <3>1, <3>2
  <2>9. Order(R2, r, t2, nx2, pv2, ps2)
    BY <1>4, <2>1, <2>4, <2>5, <2>6, <2>7, <2>8 DEF Order
  <2>10. QED
    BY <2>9
<1>5. QED
  BY <1>3, <1>4

\* A region is taken out of its chain (DeleteRegionLocked).  Those before it
\* move up by one.
Removing(R, d, h, t, nx, pv, ps, h2, t2, nx2, pv2, ps2) ==
    /\ h2 = IF h = d THEN nx[d] ELSE h
    /\ t2 = IF (h = d /\ nx[d] = Nobody) \/ t = d THEN pv[d] ELSE t
    /\ \A x \in Regions \ {d} :
          /\ nx2[x] = IF x = pv[d] THEN nx[d] ELSE nx[x]
          /\ pv2[x] = IF x = nx[d] THEN pv[d] ELSE pv[x]
          /\ ps2[x] = IF x \in R /\ ps[x] < ps[d] THEN ps[x] + 1 ELSE ps[x]

LEMMA OrderRemove ==
  ASSUME NEW R \in SUBSET Regions, NEW d \in R, NEW h, NEW t,
         NEW nx \in Links, NEW pv \in Links, NEW ps \in Positions,
         Nobody \notin Regions, Order(R, h, t, nx, pv, ps),
         NEW h2, NEW t2, NEW nx2, NEW pv2, NEW ps2,
         Removing(R, d, h, t, nx, pv, ps, h2, t2, nx2, pv2, ps2)
  PROVE  Order(R \ {d}, h2, t2, nx2, pv2, ps2)
<1> DEFINE R2 == R \ {d}
<1>1. \A x \in R2 : /\ nx2[x] = IF x = pv[d] THEN nx[d] ELSE nx[x]
                    /\ pv2[x] = IF x = nx[d] THEN pv[d] ELSE pv[x]
                    /\ ps2[x] = IF ps[x] < ps[d] THEN ps[x] + 1 ELSE ps[x]
  BY DEF Removing
<1>h. h2 = IF h = d THEN nx[d] ELSE h
  BY DEF Removing
<1>2. /\ h \in R /\ t \in R
      /\ \A x \in R : ps[h] <= ps[x] /\ ps[x] <= ps[t]
      /\ \A x \in R : ps[x] \in Int
      /\ \A x \in R : x # Nobody
  BY DEF Order, Positions
<1>3. /\ \A r \in R : pv[r] = Nobody <=> r = h
      /\ \A r \in R : nx[r] = Nobody <=> r = t
      /\ \A r \in R : pv[r] # Nobody =>
            pv[r] \in R /\ nx[pv[r]] = r /\ ps[r] = ps[pv[r]] + 1
      /\ \A r \in R : nx[r] # Nobody =>
            nx[r] \in R /\ pv[nx[r]] = r /\ ps[nx[r]] = ps[r] + 1
      /\ \A r, q \in R : ps[r] = ps[q] => r = q
  BY DEF Order
<1>4. t2 = IF t = d THEN pv[d] ELSE t
  BY <1>3 DEF Removing
<1> HIDE DEF R2
<1>5. \A x \in R2 : x \in R /\ x # d
  BY DEF R2
<1>6. h2 \in R2 \cup {Nobody} /\ t2 \in R2 \cup {Nobody}
  <2>1. nx[d] # d /\ pv[d] # d
    BY <1>2, <1>3
  <2>2. QED
    BY <1>h, <1>2, <1>3, <1>4, <2>1 DEF R2
<1>7. (h2 = Nobody <=> R2 = {}) /\ (t2 = Nobody <=> R2 = {})
  <2>1. ASSUME R2 = {} PROVE h2 = Nobody /\ t2 = Nobody
    BY <1>6, <2>1
  <2>2. ASSUME h2 = Nobody \/ t2 = Nobody PROVE R2 = {}
    <3>1. h = d /\ t = d
      BY <1>h, <1>2, <1>3, <1>4, <2>2
    <3>2. QED
      BY <1>2, <1>3, <3>1 DEF R2
  <2>3. QED
    BY <2>1, <2>2
<1>8. \A x \in R2 : ps2[h2] <= ps2[x] /\ ps2[x] <= ps2[t2]
  <2> SUFFICES ASSUME NEW x \in R2
               PROVE  ps2[h2] <= ps2[x] /\ ps2[x] <= ps2[t2]
    OBVIOUS
  <2>1. h2 \in R2 /\ t2 \in R2 /\ x \in R /\ x # d /\ ps[x] # ps[d]
    BY <1>3, <1>5, <1>6, <1>7
  <2>2. ps2[h2] <= ps2[x]
    <3>1. CASE h = d
      <4>1. h2 = nx[d] /\ ps[h2] = ps[d] + 1 /\ ps[d] <= ps[x]
        BY <1>h, <1>2, <1>3, <2>1, <3>1
      <4>2. QED
        BY <1>1, <1>2, <1>5, <2>1, <4>1
    <3>2. CASE h # d
      BY <1>h, <1>1, <1>2, <1>5, <2>1, <3>2
    <3>3. QED
      BY <3>1, <3>2
  <2>3. ps2[x] <= ps2[t2]
    <3>1. CASE t = d
      <4>1. t2 = pv[d] /\ ps[d] = ps[t2] + 1 /\ ps[x] <= ps[d]
        BY <1>2, <1>3, <1>4, <2>1, <3>1
      <4>2. QED
        BY <1>1, <1>2, <1>5, <2>1, <4>1
    <3>2. CASE t # d
      <4>1. t2 = t /\ ps[x] <= ps[t] /\ ps[d] <= ps[t] /\ ps[d] # ps[t]
        BY <1>2, <1>3, <1>4, <2>1, <3>2
      <4>2. QED
        BY <1>1, <1>2, <1>5, <2>1, <4>1
    <3>3. QED
      BY <3>1, <3>2
  <2>4. QED
    BY <2>2, <2>3
<1>9. \A x \in R2 : /\ pv2[x] = Nobody <=> x = h2
                    /\ nx2[x] = Nobody <=> x = t2
  <2> SUFFICES ASSUME NEW x \in R2
               PROVE  (pv2[x] = Nobody <=> x = h2) /\ (nx2[x] = Nobody <=> x = t2)
    OBVIOUS
  <2>1. pv2[x] = Nobody <=> x = h2
    BY <1>h, <1>1, <1>2, <1>3, <1>5
  <2>2. nx2[x] = Nobody <=> x = t2
    BY <1>1, <1>2, <1>3, <1>4, <1>5
  <2>3. QED
    BY <2>1, <2>2
<1>10. \A x \in R2 : pv2[x] # Nobody =>
          pv2[x] \in R2 /\ nx2[pv2[x]] = x /\ ps2[x] = ps2[pv2[x]] + 1
  <2> SUFFICES ASSUME NEW x \in R2, pv2[x] # Nobody
               PROVE  pv2[x] \in R2 /\ nx2[pv2[x]] = x /\ ps2[x] = ps2[pv2[x]] + 1
    OBVIOUS
  <2>1. CASE x = nx[d]
    <3>1. /\ pv2[x] = pv[d] /\ pv[d] \in R /\ nx[pv[d]] = d
          /\ ps[d] = ps[pv[d]] + 1 /\ ps[x] = ps[d] + 1
      BY <1>1, <1>2, <1>3, <1>5, <2>1
    <3>2. pv[d] # d
      BY <1>2, <3>1
    <3>3. pv[d] \in R2
      BY <3>1, <3>2 DEF R2
    <3>4. QED
      BY <1>1, <1>2, <1>5, <2>1, <3>1, <3>3
  <2>2. CASE x # nx[d]
    <3>1. /\ pv2[x] = pv[x] /\ pv[x] \in R /\ nx[pv[x]] = x
          /\ ps[x] = ps[pv[x]] + 1 /\ x \in R /\ x # d
      BY <1>1, <1>3, <1>5, <2>2
    <3>2. pv[x] # d
      BY <2>2, <3>1
    <3>3. pv[x] \in R2 /\ pv[x] # pv[d]
      <4>1. pv[x] # pv[d]
        BY <1>2, <1>3, <3>1
      <4>2. QED
        BY <3>1, <3>2, <4>1 DEF R2
    <3>4. nx2[pv2[x]] = x
      BY <1>1, <3>1, <3>3
    <3>5. ps[pv[x]] # ps[d] /\ ps[x] # ps[d]
      BY <1>3, <3>1, <3>2
    <3>6. ps2[x] = ps2[pv[x]] + 1
      BY <1>1, <1>2, <3>1, <3>3, <3>5
    <3>7. QED
      BY <3>1, <3>3, <3>4, <3>6
  <2>3. QED
    BY <2>1, <2>2
<1>11. \A x \in R2 : nx2[x] # Nobody =>
          nx2[x] \in R2 /\ pv2[nx2[x]] = x /\ ps2[nx2[x]] = ps2[x] + 1
  <2> SUFFICES ASSUME NEW x \in R2, nx2[x] # Nobody
               PROVE  nx2[x] \in R2 /\ pv2[nx2[x]] = x /\ ps2[nx2[x]] = ps2[x] + 1
    OBVIOUS
  <2>1. CASE x = pv[d]
    <3>1. /\ nx2[x] = nx[d] /\ nx[d] \in R /\ pv[nx[d]] = d
          /\ ps[nx[d]] = ps[d] + 1 /\ ps[d] = ps[x] + 1
      BY <1>1, <1>2, <1>3, <1>5, <2>1
    <3>2. nx[d] # d
      BY <1>2, <3>1
    <3>3. nx[d] \in R2
      BY <3>1, <3>2 DEF R2
    <3>4. QED
      BY <1>1, <1>2, <1>5, <2>1, <3>1, <3>3
  <2>2. CASE x # pv[d]
    <3>1. /\ nx2[x] = nx[x] /\ nx[x] \in R /\ pv[nx[x]] = x
          /\ ps[nx[x]] = ps[x] + 1 /\ x \in R /\ x # d
      BY <1>1, <1>3, <1>5, <2>2
    <3>2. nx[x] # d
      BY <2>2, <3>1
    <3>3. nx[x] \in R2 /\ nx[x] # nx[d]
      <4>1. nx[x] # nx[d]
        BY <1>2, <1>3, <3>1
      <4>2. QED
        BY <3>1, <3>2, <4>1 DEF R2
    <3>4. pv2[nx2[x]] = x
      BY <1>1, <3>1, <3>3
    <3>5. ps[nx[x]] # ps[d] /\ ps[x] # ps[d]
      BY <1>3, <3>1, <3>2
    <3>6. ps2[nx[x]] = ps2[x] + 1
      BY <1>1, <1>2, <3>1, <3>3, <3>5
    <3>7. QED
      BY <3>1, <3>3, <3>4, <3>6
  <2>3. QED
    BY <2>1, <2>2
<1>12. \A x, q \in R2 : ps2[x] = ps2[q] => x = q
  <2> SUFFICES ASSUME NEW x \in R2, NEW q \in R2, ps2[x] = ps2[q], x # q PROVE FALSE
    OBVIOUS
  <2>1. ps[x] # ps[d] /\ ps[q] # ps[d] /\ ps[x] # ps[q]
    BY <1>3, <1>5
  <2>2. QED
    BY <1>1, <1>2, <1>5, <2>1
<1>13. Order(R2, h2, t2, nx2, pv2, ps2)
  BY <1>6, <1>7, <1>8, <1>9, <1>10, <1>11, <1>12 DEF Order
<1>14. QED
  BY <1>13 DEF R2

\* All regions of A are put before those of B (MergeRegionList).  The positions
\* of A are moved to end where B begins.
Splicing(A, tA, hB, tB, nx, pv, ps, t2, nx2, pv2, ps2) ==
    /\ t2 = IF hB = Nobody THEN tA ELSE tB
    /\ \A r \in Regions :
          /\ nx2[r] = IF r = tA /\ hB # Nobody THEN hB ELSE nx[r]
          /\ pv2[r] = IF r = hB THEN tA ELSE pv[r]
          /\ ps2[r] = IF r \in A /\ hB # Nobody
                        THEN ps[r] - ps[tA] + ps[hB] - 1 ELSE ps[r]

LEMMA OrderSplice ==
  ASSUME NEW A \in SUBSET Regions, NEW B \in SUBSET Regions, A \cap B = {}, A # {},
         NEW hA, NEW tA, NEW hB, NEW tB,
         NEW nx \in Links, NEW pv \in Links, NEW ps \in Positions, Nobody \notin Regions,
         Order(A, hA, tA, nx, pv, ps), Order(B, hB, tB, nx, pv, ps),
         NEW t2, NEW nx2, NEW pv2, NEW ps2,
         Splicing(A, tA, hB, tB, nx, pv, ps, t2, nx2, pv2, ps2)
  PROVE  Order(A \cup B, hA, t2, nx2, pv2, ps2)
<1> DEFINE R2 == A \cup B
<1>1. CASE hB = Nobody
  <2>1. B = {} /\ R2 = A /\ t2 = tA
    BY <1>1 DEF Order, Splicing
  <2>2. \A r \in A : nx2[r] = nx[r] /\ pv2[r] = pv[r] /\ ps2[r] = ps[r]
    BY <1>1 DEF Order, Splicing
  <2> HIDE DEF R2
  <2>3. Order(A, hA, tA, nx2, pv2, ps2)
    BY <2>2, OrderKept
  <2>4. Order(R2, hA, t2, nx2, pv2, ps2)
    BY <2>1, <2>3
  <2>5. QED
    BY <2>4 DEF R2
<1>2. CASE hB # Nobody
  <2>1. /\ hA \in A /\ tA \in A /\ hB \in B /\ tB \in B /\ t2 = tB
        /\ \A r \in A : ps[hA] <= ps[r] /\ ps[r] <= ps[tA] /\ ps[r] \in Int
        /\ \A r \in B : ps[hB] <= ps[r] /\ ps[r] <= ps[tB] /\ ps[r] \in Int
        /\ \A r \in R2 : r # Nobody
    BY <1>2 DEF Order, Positions, Splicing
  <2>2. /\ \A r \in A : pv[r] = Nobody <=> r = hA
        /\ \A r \in A : nx[r] = Nobody <=> r = tA
        /\ \A r \in A : pv[r] # Nobody =>
              pv[r] \in A /\ nx[pv[r]] = r /\ ps[r] = ps[pv[r]] + 1
        /\ \A r \in A : nx[r] # Nobody =>
              nx[r] \in A /\ pv[nx[r]] = r /\ ps[nx[r]] = ps[r] + 1
        /\ \A r, q \in A : ps[r] = ps[q] => r = q
    BY DEF Order
  <2>3. /\ \A r \in B : pv[r] = Nobody <=> r = hB
        /\ \A r \in B : nx[r] = Nobody <=> r = tB
        /\ \A r \in B : pv[r] # Nobody =>
              pv[r] \in B /\ nx[pv[r]] = r /\ ps[r] = ps[pv[r]] + 1
        /\ \A r \in B : nx[r] # Nobody =>
              nx[r] \in B /\ pv[nx[r]] = r /\ ps[nx[r]] = ps[r] + 1
        /\ \A r, q \in B : ps[r] = ps[q] => r = q
    BY DEF Order
  <2>4. /\ \A r \in A : /\ nx2[r] = IF r = tA THEN hB ELSE nx[r]
                        /\ pv2[r] = pv[r]
                        /\ ps2[r] = ps[r] - ps[tA] + ps[hB] - 1
        /\ \A r \in B : /\ nx2[r] = nx[r]
                        /\ pv2[r] = IF r = hB THEN tA ELSE pv[r]
                        /\ ps2[r] = ps[r]
        /\ \A r \in A : r \notin B
    BY <1>2, <2>1 DEF Splicing
  <2>5. \A r \in A : ps2[hA] <= ps2[r] /\ ps2[r] < ps2[hB] /\ ps2[r] \in Int
    BY <2>1, <2>4
  <2>6. \A r \in B : ps2[hB] <= ps2[r] /\ ps2[r] <= ps2[tB] /\ ps2[r] \in Int
    BY <2>1, <2>4
  <2>7. \A r \in R2 : ps2[hA] <= ps2[r] /\ ps2[r] <= ps2[t2]
    BY <2>1, <2>5, <2>6
  <2>8. \A r \in R2 : /\ pv2[r] = Nobody <=> r = hA
                      /\ nx2[r] = Nobody <=> r = t2
    BY <2>1, <2>2, <2>3, <2>4
  <2>9. ASSUME NEW r \in R2, pv2[r] # Nobody
        PROVE  pv2[r] \in R2 /\ nx2[pv2[r]] = r /\ ps2[r] = ps2[pv2[r]] + 1
    <3>1. CASE r \in A
      <4>1. pv2[r] = pv[r] /\ pv[r] \in A /\ nx[pv[r]] = r /\ ps[r] = ps[pv[r]] + 1
        BY <2>2, <2>4, <2>9, <3>1
      <4>2. pv[r] # tA
        BY <2>1, <2>2, <3>1, <4>1
      <4>3. QED
        BY <2>1, <2>4, <3>1, <4>1, <4>2
    <3>2. CASE r \in B
      <4>1. CASE r = hB
        <5>1. pv2[r] = tA /\ tA \in R2 /\ nx2[tA] = hB
          BY <2>1, <2>4, <4>1
        <5>2. ps2[tA] = ps[tA] - ps[tA] + ps[hB] - 1 /\ ps2[hB] = ps[hB]
          BY <2>1, <2>4
        <5>3. ps[tA] \in Int /\ ps[hB] \in Int
          BY <2>1
        <5>4. QED
          BY <4>1, <5>1, <5>2, <5>3
      <4>2. CASE r # hB
        <5>1. pv2[r] = pv[r] /\ pv[r] \in B /\ nx[pv[r]] = r /\ ps[r] = ps[pv[r]] + 1
          BY <2>3, <2>4, <3>2, <4>2
        <5>2. QED
          BY <2>4, <3>2, <5>1
      <4>3. QED
        BY <4>1, <4>2
    <3>3. QED
      BY <3>1, <3>2
  <2>10. ASSUME NEW r \in R2, nx2[r] # Nobody
         PROVE  nx2[r] \in R2 /\ pv2[nx2[r]] = r /\ ps2[nx2[r]] = ps2[r] + 1
    <3>1. CASE r \in B
      <4>1. nx2[r] = nx[r] /\ nx[r] \in B /\ pv[nx[r]] = r /\ ps[nx[r]] = ps[r] + 1
        BY <2>3, <2>4, <2>10, <3>1
      <4>2. nx[r] # hB
        BY <2>1, <2>3, <3>1, <4>1
      <4>3. QED
        BY <2>4, <3>1, <4>1, <4>2
    <3>2. CASE r \in A
      <4>1. CASE r = tA
        BY <2>1, <2>4, <4>1
      <4>2. CASE r # tA
        <5>1. nx2[r] = nx[r] /\ nx[r] \in A /\ pv[nx[r]] = r /\ ps[nx[r]] = ps[r] + 1
          BY <2>2, <2>4, <3>2, <4>2
        <5>2. QED
          BY <2>1, <2>4, <3>2, <5>1
      <4>3. QED
        BY <4>1, <4>2
    <3>3. QED
      BY <3>1, <3>2
  <2>11. ASSUME NEW x \in R2, NEW q \in R2, ps2[x] = ps2[q] PROVE x = q
    <3>1. x \in A <=> q \in A
      BY <2>5, <2>6, <2>11, <2>1
    <3>2. ps[x] = ps[q]
      <4>1. CASE x \in A
        <5>1. ps[x] - ps[tA] + ps[hB] - 1 = ps[q] - ps[tA] + ps[hB] - 1
          BY <2>4, <2>11, <3>1, <4>1
        <5>2. ps[x] \in Int /\ ps[q] \in Int /\ ps[tA] \in Int /\ ps[hB] \in Int
          BY <2>1, <3>1, <4>1
        <5>3. QED
          BY <5>1, <5>2
      <4>2. CASE x \notin A
        BY <2>4, <2>11, <3>1, <4>2
      <4>3. QED
        BY <4>1, <4>2
    <3>3. QED
      BY <2>2, <2>3, <3>1, <3>2
  <2>12. /\ hA \in R2 \cup {Nobody} /\ t2 \in R2 \cup {Nobody}
         /\ hA # Nobody /\ t2 # Nobody /\ R2 # {}
    BY <2>1
  <2> HIDE DEF R2
  <2>13. Order(R2, hA, t2, nx2, pv2, ps2)
    BY <2>7, <2>8, <2>9, <2>10, <2>11, <2>12 DEF Order
  <2>14. QED
    BY <2>13 DEF R2
<1>3. QED
  BY <1>1, <1>2

-----------------------------------------------------------------------------
(* Counts *)

LEMMA UnitsFinite ==
  ASSUME ListsAssumption, NEW R \in SUBSET Regions
  PROVE  /\ IsFiniteSet(R) /\ Cardinality(R) \in 0 .. Cardinality(Regions)
         /\ IsFiniteSet(UnitsOf(R)) /\ Cardinality(UnitsOf(R)) \in Nat
<1>1. /\ IsFiniteSet(R) /\ Cardinality(R) <= Cardinality(Regions)
      /\ Cardinality(R) \in Nat /\ Cardinality(Regions) \in Nat
  BY FS_Subset, FS_CardinalityType DEF ListsAssumption
<1> DEFINE f == [r \in R |-> {r} \X (1 .. UnitCount[r])]
           T == {{r} \X (1 .. UnitCount[r]) : r \in R}
<1>2. IsFiniteSet(T)
  <2>1. f \in Surjection(R, T)
    BY DEF Surjection
  <2> HIDE DEF f, T
  <2>2. QED
    BY <1>1, <2>1, FS_Surjection
<1>3. \A r \in R : IsFiniteSet({r} \X (1 .. UnitCount[r]))
  <2> TAKE r \in R
  <2>1. UnitCount[r] \in Int
    BY DEF ListsAssumption
  <2>2. IsFiniteSet(1 .. UnitCount[r])
    <3>1. \A n \in Int : IsFiniteSet(1 .. n)
      BY FS_Interval
    <3>2. QED
      BY <2>1, <3>1
  <2>3. IsFiniteSet({r})
    BY FS_Singleton
  <2>4. QED
    BY <2>2, <2>3, FS_Product
<1>4. IsFiniteSet(UnitsOf(R))
  <2>1. \A S \in T : IsFiniteSet(S)
    BY <1>3
  <2>2. IsFiniteSet(UNION T)
    <3> HIDE DEF T
    <3>1. QED
      BY <1>2, <2>1, FS_UNION
  <2>3. QED
    BY <2>2 DEF UnitsOf
<1>5. QED
  BY <1>1, <1>4, FS_CardinalityType

\* The counts of two lists with no region in common add up.
LEMMA CountUnion ==
  ASSUME ListsAssumption, NEW A \in SUBSET Regions, NEW B \in SUBSET Regions, A \cap B = {}
  PROVE  /\ Cardinality(A \cup B) = Cardinality(A) + Cardinality(B)
         /\ Cardinality(UnitsOf(A \cup B)) = Cardinality(UnitsOf(A)) + Cardinality(UnitsOf(B))
<1>1. /\ IsFiniteSet(A) /\ IsFiniteSet(UnitsOf(A)) /\ IsFiniteSet(B) /\ IsFiniteSet(UnitsOf(B))
      /\ Cardinality(A) \in Nat /\ Cardinality(UnitsOf(A)) \in Nat
      /\ Cardinality(B) \in Nat /\ Cardinality(UnitsOf(B)) \in Nat
  BY UnitsFinite
<1>2. /\ UnitsOf(A \cup B) = UnitsOf(A) \cup UnitsOf(B)
      /\ UnitsOf(A) \cap UnitsOf(B) = {}
  BY DEF UnitsOf
<1>3. /\ Cardinality(A \cup B) = Cardinality(A) + Cardinality(B) - Cardinality(A \cap B)
      /\ Cardinality(UnitsOf(A) \cup UnitsOf(B))
           = Cardinality(UnitsOf(A)) + Cardinality(UnitsOf(B))
             - Cardinality(UnitsOf(A) \cap UnitsOf(B))
  BY <1>1, FS_Union
<1>4. Cardinality(A \cap B) = 0 /\ Cardinality(UnitsOf(A) \cap UnitsOf(B)) = 0
  BY <1>2, FS_EmptySet
<1>5. \A a, b, c \in Nat : c = 0 => a + b - c = a + b
  OBVIOUS
<1>6. Cardinality(A \cup B) = Cardinality(A) + Cardinality(B)
  BY <1>1, <1>3, <1>4, <1>5
<1>7. Cardinality(UnitsOf(A) \cup UnitsOf(B)) = Cardinality(UnitsOf(A)) + Cardinality(UnitsOf(B))
  BY <1>1, <1>3, <1>4, <1>5
<1>8. QED
  BY <1>2, <1>6, <1>7

\* One region counts one, and its units.
LEMMA CountOne ==
  ASSUME ListsAssumption, NEW r \in Regions
  PROVE  /\ Cardinality({r}) = 1 /\ Cardinality(UnitsOf({r})) = UnitCount[r]
         /\ UnitCount[r] \in Nat \ {0} /\ {r} \in SUBSET Regions
<1>1. UnitCount[r] \in Nat \ {0} /\ UnitsOf({r}) = {r} \X (1 .. UnitCount[r])
  BY DEF UnitsOf, ListsAssumption
<1>2. IsFiniteSet({r}) /\ Cardinality({r}) = 1
  BY FS_Singleton
<1>3. IsFiniteSet(1 .. UnitCount[r]) /\ Cardinality(1 .. UnitCount[r]) = UnitCount[r]
  <2>1. UnitCount[r] \in Int /\ ~(1 > UnitCount[r]) /\ UnitCount[r] - 1 + 1 = UnitCount[r]
    BY <1>1
  <2>2. QED
    BY <2>1, FS_Interval
<1>4. Cardinality({r} \X (1 .. UnitCount[r])) = Cardinality({r}) * Cardinality(1 .. UnitCount[r])
  BY <1>2, <1>3, FS_Product
<1>5. 1 * UnitCount[r] = UnitCount[r]
  BY <1>1
<1>6. QED
  BY <1>1, <1>2, <1>3, <1>4, <1>5

LEMMA CountPrepend ==
  ASSUME ListsAssumption, NEW R \in SUBSET Regions, NEW r \in Regions \ R
  PROVE  /\ Cardinality(R \cup {r}) = Cardinality(R) + 1
         /\ Cardinality(UnitsOf(R \cup {r})) = Cardinality(UnitsOf(R)) + UnitCount[r]
<1> DEFINE S == {r}
<1>1. S \in SUBSET Regions /\ R \cap S = {}
  OBVIOUS
<1>2. Cardinality(S) = 1 /\ Cardinality(UnitsOf(S)) = UnitCount[r]
  BY CountOne
<1> HIDE DEF S
<1>3. /\ Cardinality(R \cup S) = Cardinality(R) + Cardinality(S)
      /\ Cardinality(UnitsOf(R \cup S)) = Cardinality(UnitsOf(R)) + Cardinality(UnitsOf(S))
  BY <1>1, CountUnion
<1>4. QED
  BY <1>2, <1>3 DEF S

\* DecCounts cannot run short.
LEMMA CountRemove ==
  ASSUME ListsAssumption, NEW R \in SUBSET Regions, NEW d \in R,
         NEW record, Counted(R, record)
  PROVE  /\ record.regions \in Nat /\ record.units \in Nat
         /\ record.regions >= 1 /\ record.units >= UnitCount[d]
         /\ record.regions - 1 = Cardinality(R \ {d})
         /\ record.units - UnitCount[d] = Cardinality(UnitsOf(R \ {d}))
<1> DEFINE S == R \ {d}
<1>1. S \in SUBSET Regions /\ d \in Regions \ S /\ R = S \cup {d}
  OBVIOUS
<1> HIDE DEF S
<1>2. /\ Cardinality(R) = Cardinality(S) + 1
      /\ Cardinality(UnitsOf(R)) = Cardinality(UnitsOf(S)) + UnitCount[d]
  BY <1>1, CountPrepend
<1>3. Cardinality(S) \in Nat /\ Cardinality(UnitsOf(S)) \in Nat
  <2>1. Cardinality(S) \in 0 .. Cardinality(Regions) /\ Cardinality(UnitsOf(S)) \in Nat
    BY <1>1, UnitsFinite
  <2>2. Cardinality(Regions) \in Nat
    BY FS_CardinalityType DEF ListsAssumption
  <2>3. QED
    BY <2>1, <2>2
<1>4. UnitCount[d] \in Nat
  BY <1>1 DEF ListsAssumption
<1>5. record.regions = Cardinality(R) /\ record.units = Cardinality(UnitsOf(R))
  BY DEF Counted
<1>6. QED
  BY <1>2, <1>3, <1>4, <1>5 DEF S
-----------------------------------------------------------------------------
(* The inductive invariant *)

Places == Lists \cup Threads
At(home, l) == {r \in Regions : home[r] = l}

Operations ==
    [pc : {"idle", "merge", "assign", "clear", "visit"}, src : Lists \cup {Nobody},
     dst : Lists \cup {Nobody}, node : Regions \cup {Nobody}]
MovesTo(t) == op[t].pc \in {"assign", "clear"}
Holds(t) == op[t].pc \in {"assign", "clear", "visit"}

\* Threads are in the middle of what ListsAssumption lets them call, and no two
\* move to the same list.
Control ==
    /\ op \in [Threads -> Operations] /\ unvisited \in [Threads -> SUBSET Regions]
    /\ \A t \in Threads : op[t].pc = "merge" => <<op[t].src, op[t].dst>> \in Merges
    /\ \A t \in Threads : MovesTo(t) => <<op[t].src, op[t].dst>> \in Moves
    /\ \A t \in Threads : op[t].pc = "visit" => op[t].src \in Lists
    /\ \A t, u \in Threads : MovesTo(t) /\ MovesTo(u) /\ op[t].dst = op[u].dst => t = u

Homes(home, pos) ==
    /\ home \in [Regions -> Places \cup {Nobody}] /\ pos \in Positions
    /\ \A r \in Regions : home[r] = Nobody <=> holder[r] # Nobody

\* The links and counts of a list are those of the regions at home there.
Chain(home, pos, l) ==
    /\ Order(At(home, l), list[l].head, list[l].tail, next, prev, pos)
    /\ Counted(At(home, l), list[l])
Chains(home, pos) ==
    /\ \A l \in Places : Cleared(l) => Chain(home, pos, l)
    /\ \A l \in Places : ~Cleared(l) => At(home, l) = {}
    /\ \A t \in Threads : op[t].pc = "merge" <=> At(home, t) # {}
    /\ \A t \in Threads : op[t].pc = "assign" => At(home, op[t].dst) = {}

Visits(home, pos) ==
    \A t \in Threads : op[t].pc = "visit" =>
       /\ op[t].node \in At(home, op[t].src) \cup {Nobody}
       /\ unvisited[t] = {r \in At(home, op[t].src) :
             op[t].node # Nobody /\ pos[op[t].node] <= pos[r]}

\* Only while a merge carries it does a region have the type of another list.
Carried(home, l, r) ==
    \E t \in Threads : op[t].pc = "merge" /\ op[t].src = l /\ home[r] = t
Types(home) ==
    \A l \in Deletable, r \in Regions :
       type[r] = l <=> home[r] = l \/ Carried(home, l, r)

Traces(home) == \A l \in Caches \ active : At(home, l) \cap traced = {}

Placed(home, pos) ==
    /\ Homes(home, pos)
    /\ Chains(home, pos)
    /\ Visits(home, pos)
    /\ Types(home)
    /\ Traces(home)

IInv == TypeOK /\ ~fatal /\ Control /\ \E home, pos : Placed(home, pos)

-----------------------------------------------------------------------------
(* What the invariant says of a list *)

\* Nobody is in the middle of anything at a list whose mutex is free.
LEMMA FreeList ==
  ASSUME ListsAssumption, TypeOK, NEW l \in Lists, Free(l)
  PROVE  Cleared(l) /\ \A t \in Threads : Holds(t) => op[t].src # l
<1>1. \A t \in Threads : mutex[l] # t
  BY DEF ListsAssumption, Free
<1>2. \A t \in Threads : Holds(t) => op[t].src # l
  BY <1>1 DEF TypeOK, Holds
<1>3. QED
  BY <1>2 DEF Cleared, Holds

\* Nobody else is at the list whose mutex a thread holds.
LEMMA HeldList ==
  ASSUME ListsAssumption, TypeOK, NEW t \in Threads, Holds(t), op[t].src \in Lists
  PROVE  /\ \A u \in Threads : Holds(u) /\ op[u].src = op[t].src => u = t
         /\ op[t].pc # "clear" => Cleared(op[t].src)
<1>1. \A u \in Threads : Holds(u) /\ op[u].src = op[t].src => u = t
  <2> TAKE u \in Threads
  <2>1. mutex[op[t].src] = t
    BY DEF TypeOK, Holds
  <2>2. Holds(u) /\ op[u].src = op[t].src => mutex[op[t].src] = u
    BY DEF TypeOK, Holds
  <2>3. QED
    BY <2>1, <2>2
<1>2. op[t].pc # "clear" => Cleared(op[t].src)
  BY <1>1 DEF Cleared, Holds
<1>3. QED
  BY <1>1, <1>2

\* A walk through a list meets the regions at home there.
LEMMA MembersAtHome ==
  ASSUME ListsAssumption, NEW home, NEW pos, Homes(home, pos), Chains(home, pos),
         NEW l \in Places, Cleared(l)
  PROVE  Members(l) = At(home, l)
<1>1. Order(At(home, l), list[l].head, list[l].tail, next, prev, pos)
  BY DEF Chains, Chain
<1>2. At(home, l) \in SUBSET Regions /\ pos \in Positions
  BY DEF At, Homes
<1>3. QED
  BY <1>1, <1>2, ReachedFromHead DEF Members

\* The merging threads are no lists, and no list of theirs is half moved.
LEMMA ThreadCleared ==
  ASSUME ListsAssumption, Control, NEW t \in Threads
  PROVE  Cleared(t) /\ t \notin Lists
<1>1. t \notin Lists
  BY DEF ListsAssumption
<1>2. \A u \in Threads : op[u].pc = "clear" => op[u].src \in Lists
  BY DEF Control, ListsAssumption, MovesTo
<1>3. QED
  BY <1>1, <1>2 DEF Cleared

\* What a thread is in the middle of, its caller may call.
LEMMA MoveArguments ==
  ASSUME ListsAssumption, Control, NEW t \in Threads, MovesTo(t)
  PROVE  /\ op[t].src \in Lists /\ op[t].dst \in Lists /\ op[t].dst # op[t].src
         /\ op[t].src \notin Deletable /\ op[t].dst \in Spaces
         /\ op[t].dst \notin Deletable \cup Caches
<1> DEFINE m == <<op[t].src, op[t].dst>>
<1>1. m \in Moves /\ m[1] = op[t].src /\ m[2] = op[t].dst
  BY DEF Control
<1> HIDE DEF m
<1>2. m[1] \in Lists /\ m[2] \in Lists /\ m[2] # m[1]
  BY <1>1 DEF ListsAssumption
<1>3. m[1] \notin Deletable /\ m[2] \in Spaces
  BY <1>1 DEF ListsAssumption, Spaces
<1>4. m[2] \notin Deletable \cup Caches
  BY <1>3 DEF ListsAssumption
<1>5. QED
  BY <1>1, <1>2, <1>3, <1>4

LEMMA MergeArguments ==
  ASSUME ListsAssumption, Control, NEW t \in Threads, op[t].pc = "merge"
  PROVE  /\ op[t].src \in Lists /\ op[t].dst \in Lists /\ op[t].dst # op[t].src
         /\ op[t].dst \notin Spaces \cup Caches
<1> DEFINE m == <<op[t].src, op[t].dst>>
<1>1. m \in Merges /\ m[1] = op[t].src /\ m[2] = op[t].dst
  BY DEF Control
<1> HIDE DEF m
<1>2. m[1] \in Lists /\ m[2] \in Lists /\ m[2] # m[1]
  BY <1>1 DEF ListsAssumption
<1>3. m[2] \in {k[2] : k \in Merges}
  BY <1>1
<1>4. m[2] \notin Spaces \cup Caches
  BY <1>3 DEF ListsAssumption
<1>5. QED
  BY <1>1, <1>2, <1>4

\* Outside X no region moves, and no list changes.
Elsewhere(home, pos, home2, pos2, X) ==
    \A l \in Places \ X :
       /\ list'[l] = list[l]
       /\ At(home2, l) = At(home, l)
       /\ \A r \in At(home, l) :
             next'[r] = next[r] /\ prev'[r] = prev[r] /\ pos2[r] = pos[r]

LEMMA ChainElsewhere ==
  ASSUME ListsAssumption, NEW home, NEW pos, NEW home2, NEW pos2, NEW X,
         Elsewhere(home, pos, home2, pos2, X), NEW l \in Places \ X, Chain(home, pos, l)
  PROVE  Chain(home2, pos2, l)'
<1>1. Nobody \notin At(home, l)
  BY DEF At, ListsAssumption
<1>2. /\ list'[l] = list[l] /\ At(home2, l) = At(home, l)
      /\ \A r \in At(home, l) :
            next'[r] = next[r] /\ prev'[r] = prev[r] /\ pos2[r] = pos[r]
  BY DEF Elsewhere
<1>3. Order(At(home, l), list[l].head, list[l].tail, next', prev', pos2)
  BY <1>1, <1>2, OrderKept DEF Chain
<1>4. QED
  BY <1>2, <1>3 DEF Chain, At

LEMMA VisitElsewhere ==
  ASSUME NEW home, NEW pos, NEW home2, NEW pos2, NEW X,
         Elsewhere(home, pos, home2, pos2, X), Visits(home, pos), Control,
         NEW t \in Threads, op'[t] = op[t], unvisited'[t] = unvisited[t],
         op[t].pc = "visit", op[t].src \notin X
  PROVE  /\ op'[t].node \in At(home2, op'[t].src) \cup {Nobody}
         /\ unvisited'[t] = {r \in At(home2, op'[t].src) :
               op'[t].node # Nobody /\ pos2[op'[t].node] <= pos2[r]}
<1>1. op[t].src \in Places \ X
  BY DEF Control, Places
<1>2. /\ At(home2, op[t].src) = At(home, op[t].src)
      /\ \A r \in At(home, op[t].src) : pos2[r] = pos[r]
  BY <1>1 DEF Elsewhere
<1>3. /\ op[t].node \in At(home, op[t].src) \cup {Nobody}
      /\ unvisited[t] = {r \in At(home, op[t].src) :
            op[t].node # Nobody /\ pos[op[t].node] <= pos[r]}
  BY DEF Visits
<1>4. {r \in At(home, op[t].src) : op[t].node # Nobody /\ pos[op[t].node] <= pos[r]}
        = {r \in At(home2, op[t].src) : op[t].node # Nobody /\ pos2[op[t].node] <= pos2[r]}
  BY <1>2, <1>3
<1>5. QED
  BY <1>2, <1>3, <1>4
LEMMA ChainsElsewhere ==
  ASSUME ListsAssumption, NEW home, NEW pos, NEW home2, NEW pos2, NEW X,
         Elsewhere(home, pos, home2, pos2, X), Chains(home, pos),
         \A l \in Places \ X : Cleared(l)' <=> Cleared(l),
         \A l \in Places : l \in X =>
            (Cleared(l)' => Chain(home2, pos2, l)') /\ (~Cleared(l)' => At(home2, l) = {})
  PROVE  /\ \A l \in Places : Cleared(l)' => Chain(home2, pos2, l)'
         /\ \A l \in Places : ~Cleared(l)' => At(home2, l) = {}
<1>1. ASSUME NEW l \in Places \ X, Cleared(l)' PROVE Chain(home2, pos2, l)'
  BY <1>1, ChainElsewhere DEF Chains
<1>2. ASSUME NEW l \in Places \ X, ~Cleared(l)' PROVE At(home2, l) = {}
  BY <1>2 DEF Chains, Elsewhere
<1>3. QED
  BY <1>1, <1>2

\* What the counts of a list can be.
LEMMA CountedType ==
  ASSUME ListsAssumption, NEW R \in SUBSET Regions, NEW record, Counted(R, record)
  PROVE  record.regions \in 0 .. Cardinality(Regions) /\ record.units \in Nat
BY UnitsFinite DEF Counted

-----------------------------------------------------------------------------
(* Prepend and delete *)

LEMMA PrependPlaced ==
  ASSUME ListsAssumption, TypeOK, Control, NEW home, NEW pos, Placed(home, pos),
         NEW l \in Lists \ Spaces, NEW r \in Regions, Free(l), holder[r] # Nobody,
         l \in Caches => l \in active,
         PrependRegionLocked(l, r), holder' = [holder EXCEPT ![r] = Nobody],
         UNCHANGED <<traced, active, mutex, op, unvisited, fatal>>
  PROVE  TypeOK' /\ \E home2, pos2 : Placed(home2, pos2)'
<1> DEFINE h == list[l].head
<1>1. PICK home2 : home2 = [home EXCEPT ![r] = l]
  OBVIOUS
<1>2. PICK pos2 : pos2 = [pos EXCEPT ![r] = IF h = Nobody THEN 0 ELSE pos[h] - 1]
  OBVIOUS
<1>3. /\ Homes(home, pos) /\ Chains(home, pos) /\ Visits(home, pos)
      /\ Types(home) /\ Traces(home)
  BY DEF Placed
<1>4. /\ home \in [Regions -> Places \cup {Nobody}] /\ pos \in Positions
      /\ home[r] = Nobody /\ Nobody \notin Regions \cup Places /\ l \in Places
      /\ next \in Links /\ prev \in Links
  BY <1>3 DEF Homes, ListsAssumption, Places, TypeOK, Links
<1>5. Cleared(l) /\ \A t \in Threads : Holds(t) => op[t].src # l
  BY FreeList
<1>6. Chain(home, pos, l)
  BY <1>3, <1>4, <1>5 DEF Chains
<1>7. /\ At(home2, l) = At(home, l) \cup {r} /\ r \notin At(home, l)
      /\ \A k \in Places : k # l => At(home2, k) = At(home, k)
      /\ \A x \in Regions : x # r => home2[x] = home[x] /\ pos2[x] = pos[x]
  BY <1>1, <1>2, <1>4 DEF At, Positions
<1>8. h \in At(home, l) \cup {Nobody}
  BY <1>6 DEF Chain, Order
<1>9. Homes(home2, pos2)'
  <2>1. pos2 \in Positions
    BY <1>2, <1>4, <1>8 DEF Positions, At
  <2>2. home2 \in [Regions -> Places \cup {Nobody}]
    BY <1>1, <1>4
  <2>3. \A x \in Regions : home2[x] = Nobody <=> holder'[x] # Nobody
    BY <1>1, <1>3, <1>4 DEF Homes, TypeOK
  <2>4. QED
    BY <2>1, <2>2, <2>3 DEF Homes
<1>10. /\ next' = [next EXCEPT ![r] = h]
       /\ prev' = [x \in Regions |-> IF x = r THEN Nobody ELSE IF x = h THEN r ELSE prev[x]]
       /\ list' = [list EXCEPT ![l] =
             [head |-> r, tail |-> IF h = Nobody THEN r ELSE list[l].tail,
              regions |-> list[l].regions + 1, units |-> list[l].units + UnitCount[r]]]
       /\ type' = [x \in Regions |-> IF x = r THEN l ELSE type[x]]
  BY DEF PrependRegionLocked, Retype
<1>11. Elsewhere(home, pos, home2, pos2, {l})
  <2> SUFFICES ASSUME NEW k \in Places, k # l
               PROVE  /\ list'[k] = list[k] /\ At(home2, k) = At(home, k)
                      /\ \A x \in At(home, k) :
                            next'[x] = next[x] /\ prev'[x] = prev[x] /\ pos2[x] = pos[x]
    BY DEF Elsewhere
  <2>1. \A x \in At(home, k) : x \in Regions /\ x # r /\ x # h
    BY <1>4, <1>8 DEF At
  <2>2. QED
    BY <1>7, <1>10, <2>1 DEF Places, TypeOK, Links
<1>12. list'[l] = [head |-> r, tail |-> IF h = Nobody THEN r ELSE list[l].tail,
                   regions |-> list[l].regions + 1, units |-> list[l].units + UnitCount[r]]
  BY <1>4, <1>10 DEF TypeOK, Places
<1>13. Chain(home2, pos2, l)'
  <2>1. Order(At(home, l), h, list[l].tail, next, prev, pos)
    BY <1>6 DEF Chain
  <2>2. At(home, l) \in SUBSET Regions /\ r \in Regions \ At(home, l)
    BY <1>7 DEF At
  <2>3. Order(At(home, l) \cup {r}, r, list'[l].tail, next', prev', pos2)
    <3>1. Prepending(r, h, list[l].tail, next, prev, pos, list'[l].tail, next', prev', pos2)
      BY <1>2, <1>4, <1>10, <1>12 DEF Links, Positions, Prepending
    <3> HIDE DEF h
    <3>2. QED
      BY <1>4, <2>1, <2>2, <3>1, OrderPrepend
  <2>4. Counted(At(home, l) \cup {r}, list'[l])
    <3>1. /\ Cardinality(At(home, l) \cup {r}) = Cardinality(At(home, l)) + 1
          /\ Cardinality(UnitsOf(At(home, l) \cup {r}))
               = Cardinality(UnitsOf(At(home, l))) + UnitCount[r]
      BY <2>2, CountPrepend
    <3>2. QED
      BY <1>6, <1>12, <3>1 DEF Counted, Chain
  <2>5. /\ Order(At(home2, l), list'[l].head, list'[l].tail, next', prev', pos2)
        /\ Counted(At(home2, l), list'[l])
    BY <1>7, <1>12, <2>3, <2>4
  <2>6. QED
    BY <2>5 DEF Chain, At
<1>14. Chains(home2, pos2)'
  <2>1. \A k \in Places : Cleared(k)' <=> Cleared(k)
    BY DEF Cleared
  <2>2. /\ \A k \in Places : Cleared(k)' => Chain(home2, pos2, k)'
        /\ \A k \in Places : ~Cleared(k)' => At(home2, k) = {}
    BY <1>3, <1>5, <1>11, <1>13, <2>1, ChainsElsewhere
  <2>3. \A t \in Threads : op'[t].pc = "merge" <=> At(home2, t) # {}
    BY <1>3, <1>7, ThreadCleared DEF Chains, Places
  <2>4. \A t \in Threads : op'[t].pc = "assign" => At(home2, op'[t].dst) = {}
    <3> SUFFICES ASSUME NEW t \in Threads, op[t].pc = "assign"
                 PROVE  At(home2, op[t].dst) = {}
      OBVIOUS
    <3>1. op[t].dst \in Spaces /\ op[t].dst \in Lists /\ At(home, op[t].dst) = {}
      BY <1>3, MoveArguments DEF MovesTo, Chains
    <3>2. QED
      BY <1>7, <3>1 DEF Places
  <2>5. QED
    BY <2>2, <2>3, <2>4 DEF Chains, At
<1>15. Visits(home2, pos2)'
  <2> SUFFICES ASSUME NEW t \in Threads, op[t].pc = "visit"
               PROVE  /\ op'[t].node \in At(home2, op'[t].src) \cup {Nobody}
                      /\ unvisited'[t] = {x \in At(home2, op'[t].src) :
                            op'[t].node # Nobody /\ pos2[op'[t].node] <= pos2[x]}
    BY DEF Visits, At
  <2>1. op[t].src \notin {l}
    BY <1>5 DEF Holds
  <2>2. QED
    BY <1>3, <1>11, <2>1, VisitElsewhere
<1>16. Types(home2)'
  BY <1>1, <1>3, <1>4, <1>7, <1>10 DEF Types, Carried, ListsAssumption, Places
<1>17. Traces(home2)'
  BY <1>3, <1>7 DEF Traces, At, ListsAssumption, Places
<1>18. TypeOK'
  <2>1. r \in Regions /\ list[l].tail \in Regions \cup {Nobody}
    BY <1>4 DEF TypeOK, Places
  <2>2. /\ list'[l].regions \in 0 .. Cardinality(Regions) /\ list'[l].units \in Nat
    <3>1. Counted(At(home2, l), list'[l]) /\ At(home2, l) \in SUBSET Regions
      BY <1>13 DEF Chain, At
    <3>2. QED
      BY <3>1, CountedType
  <2>3. list' \in [Places -> [head : Regions \cup {Nobody}, tail : Regions \cup {Nobody},
                              regions : 0 .. Cardinality(Regions), units : Nat]]
    BY <1>10, <1>12, <2>1, <2>2 DEF TypeOK, Places
  <2>4. next' \in Links /\ prev' \in Links
    BY <1>4, <1>8, <1>10 DEF Links, At
  <2>5. type' \in [Regions -> Lists \cup {Nobody}]
    BY <1>10 DEF TypeOK
  <2>6. holder' \in [Regions -> Threads \cup {Nobody}]
    BY DEF TypeOK
  <2>7. QED
    BY <2>3, <2>4, <2>5, <2>6 DEF TypeOK, Places, Links
<1>19. QED
  BY <1>9, <1>14, <1>15, <1>16, <1>17, <1>18 DEF Placed
\* No assertion fails and no count runs short on a region that is in the list.
LEMMA DeleteSafe ==
  ASSUME ListsAssumption, NEW home, NEW pos, NEW l, Chain(home, pos, l), NEW d \in At(home, l)
  PROVE  ~CannotDelete(l, d)
<1>1. /\ At(home, l) \in SUBSET Regions /\ Nobody \notin Regions
      /\ Order(At(home, l), list[l].head, list[l].tail, next, prev, pos)
      /\ Counted(At(home, l), list[l])
  BY DEF At, Chain, ListsAssumption
<1>2. /\ list[l].regions \in Nat /\ list[l].units \in Nat /\ UnitCount[d] \in Nat
      /\ list[l].regions >= 1 /\ list[l].units >= UnitCount[d]
  BY <1>1, CountRemove DEF ListsAssumption
<1>3. ~(list[l].regions < 1) /\ ~(list[l].units < UnitCount[d])
  BY <1>2
<1>4. list[l].head # Nobody /\ list[l].tail # Nobody
  BY <1>1 DEF Order
<1>5. (prev[d] = Nobody <=> d = list[l].head) /\ (next[d] = Nobody <=> d = list[l].tail)
  BY <1>1 DEF Order
<1>6. QED
  BY <1>3, <1>4, <1>5 DEF CannotDelete, IsHead, IsTail

\* Those before a deleted region are one place further on.
MovedUp(R, d, pos, pos2) ==
    \A r \in R : pos2[r] = IF pos[r] < pos[d] THEN pos[r] + 1 ELSE pos[r]

LEMMA DeletePlaced ==
  ASSUME ListsAssumption, TypeOK, ~fatal, Control, NEW home, NEW pos,
         Homes(home, pos), Chains(home, pos), Types(home), Traces(home),
         NEW l \in Lists, Cleared(l), NEW d \in At(home, l),
         NEW t \in Threads, NEW newType \in Lists \cup {Nobody}, newType \notin Deletable,
         DeleteRegionLocked(t, l, d, newType), UNCHANGED <<traced, active, mutex>>,
         \A u \in Threads :
            op'[u].pc = op[u].pc /\ op'[u].src = op[u].src /\ op'[u].dst = op[u].dst
  PROVE  /\ TypeOK' /\ ~fatal'
         /\ next' = [x \in Regions |->
               IF x = d THEN Nobody ELSE IF x = prev[d] THEN next[d] ELSE next[x]]
         /\ \E home2, pos2 :
               /\ Homes(home2, pos2)' /\ Chains(home2, pos2)'
               /\ Types(home2)' /\ Traces(home2)'
               /\ Elsewhere(home, pos, home2, pos2, {l})
               /\ At(home2, l) = At(home, l) \ {d}
               /\ MovedUp(At(home, l), d, pos, pos2)
<1> DEFINE R == At(home, l)
<1>1. PICK home2 : home2 = [home EXCEPT ![d] = Nobody]
  OBVIOUS
<1>2. PICK pos2 :
         pos2 = [x \in Regions |-> IF x \in R /\ pos[x] < pos[d] THEN pos[x] + 1 ELSE pos[x]]
  OBVIOUS
<1>3. /\ home \in [Regions -> Places \cup {Nobody}] /\ pos \in Positions
      /\ d \in Regions /\ home[d] = l /\ l # Nobody
      /\ Nobody \notin Regions \cup Places /\ Nobody \notin Threads /\ l \in Places
      /\ next \in Links /\ prev \in Links /\ R \in SUBSET Regions
  BY DEF Homes, ListsAssumption, Places, TypeOK, Links, At
<1>4. Chain(home, pos, l)
  BY <1>3 DEF Chains
<1>5. /\ Order(R, list[l].head, list[l].tail, next, prev, pos) /\ Counted(R, list[l])
  BY <1>4 DEF Chain
<1>6. Unlink(l, d) /\ Retype({d}, newType) /\ holder' = [holder EXCEPT ![d] = t] /\ fatal' = fatal
  BY <1>4, DeleteSafe DEF DeleteRegionLocked
<1>7. /\ next' = [x \in Regions |->
            IF x = d THEN Nobody ELSE IF x = prev[d] THEN next[d] ELSE next[x]]
      /\ prev' = [x \in Regions |->
            IF x = d THEN Nobody ELSE IF x = next[d] THEN prev[d] ELSE prev[x]]
      /\ list' = [list EXCEPT ![l] =
            [head |-> IF IsHead(l, d) THEN next[d] ELSE list[l].head,
             tail |-> IF OnlyOne(l, d) \/ IsTail(l, d) THEN prev[d] ELSE list[l].tail,
             regions |-> list[l].regions - 1, units |-> list[l].units - UnitCount[d]]]
      /\ type' = [x \in Regions |-> IF x = d THEN newType ELSE type[x]]
  BY <1>6 DEF Unlink, Retype
<1>8. list'[l] = [head |-> IF IsHead(l, d) THEN next[d] ELSE list[l].head,
                  tail |-> IF OnlyOne(l, d) \/ IsTail(l, d) THEN prev[d] ELSE list[l].tail,
                  regions |-> list[l].regions - 1, units |-> list[l].units - UnitCount[d]]
  BY <1>3, <1>7 DEF TypeOK, Places
<1>9. /\ At(home2, l) = R \ {d}
      /\ \A k \in Places : k # l => At(home2, k) = At(home, k)
      /\ \A x \in Regions : x # d => home2[x] = home[x]
      /\ home2[d] = Nobody
  BY <1>1, <1>3 DEF At
<1>10. /\ \A x \in R : next[x] \in R \cup {Nobody} /\ prev[x] \in R \cup {Nobody}
       /\ d \in R
  BY <1>5 DEF Order
<1>11. Homes(home2, pos2)'
  <2>1. pos2 \in Positions
    BY <1>2, <1>3 DEF Positions
  <2>2. home2 \in [Regions -> Places \cup {Nobody}]
    BY <1>1, <1>3
  <2>3. \A x \in Regions : home2[x] = Nobody <=> holder'[x] # Nobody
    BY <1>3, <1>6, <1>9 DEF Homes, TypeOK
  <2>4. QED
    BY <2>1, <2>2, <2>3 DEF Homes
<1>12. Elsewhere(home, pos, home2, pos2, {l})
  <2> SUFFICES ASSUME NEW k \in Places, k # l
               PROVE  /\ list'[k] = list[k] /\ At(home2, k) = At(home, k)
                      /\ \A x \in At(home, k) :
                            next'[x] = next[x] /\ prev'[x] = prev[x] /\ pos2[x] = pos[x]
    BY DEF Elsewhere
  <2>1. \A x \in At(home, k) : x \in Regions /\ x \notin R
    BY DEF At
  <2>2. \A x \in At(home, k) : x # d /\ x # next[d] /\ x # prev[d]
    BY <1>3, <1>10, <2>1
  <2>3. \A x \in At(home, k) : next'[x] = next[x] /\ prev'[x] = prev[x] /\ pos2[x] = pos[x]
    BY <1>2, <1>7, <2>1, <2>2
  <2>4. QED
    BY <1>7, <1>9, <2>3 DEF Places, TypeOK
<1>13. Chain(home2, pos2, l)'
  <2>1. Removing(R, d, list[l].head, list[l].tail, next, prev, pos,
                 list'[l].head, list'[l].tail, next', prev', pos2)
    <3>1. list'[l].head = IF list[l].head = d THEN next[d] ELSE list[l].head
      BY <1>8 DEF IsHead
    <3>2. list'[l].tail = IF (list[l].head = d /\ next[d] = Nobody) \/ list[l].tail = d
                            THEN prev[d] ELSE list[l].tail
      BY <1>8 DEF IsHead, IsTail, OnlyOne
    <3>3. \A x \in Regions \ {d} :
             /\ next'[x] = IF x = prev[d] THEN next[d] ELSE next[x]
             /\ prev'[x] = IF x = next[d] THEN prev[d] ELSE prev[x]
             /\ pos2[x] = IF x \in R /\ pos[x] < pos[d] THEN pos[x] + 1 ELSE pos[x]
      BY <1>2, <1>7
    <3>4. QED
      BY <3>1, <3>2, <3>3 DEF Removing
  <2>2. Order(R \ {d}, list'[l].head, list'[l].tail, next', prev', pos2)
    <3> HIDE DEF R
    <3>1. QED
      BY <1>3, <1>5, <1>10, <2>1, OrderRemove
  <2>3. Counted(R \ {d}, list'[l])
    <3>1. /\ list[l].regions - 1 = Cardinality(R \ {d})
          /\ list[l].units - UnitCount[d] = Cardinality(UnitsOf(R \ {d}))
      <4> HIDE DEF R
      <4>1. QED
        BY <1>3, <1>5, <1>10, CountRemove
    <3>2. QED
      BY <1>8, <3>1 DEF Counted
  <2>4. /\ Order(At(home2, l), list'[l].head, list'[l].tail, next', prev', pos2)
        /\ Counted(At(home2, l), list'[l])
    BY <1>9, <2>2, <2>3
  <2>5. QED
    BY <2>4 DEF Chain, At
<1>14. Chains(home2, pos2)'
  <2>1. \A k \in Places : Cleared(k)' <=> Cleared(k)
    BY DEF Cleared
  <2>2. /\ \A k \in Places : Cleared(k)' => Chain(home2, pos2, k)'
        /\ \A k \in Places : ~Cleared(k)' => At(home2, k) = {}
    BY <1>12, <1>13, <2>1, ChainsElsewhere
  <2>3. \A u \in Threads : op'[u].pc = "merge" <=> At(home2, u) # {}
    BY <1>9, ThreadCleared DEF Chains, Places
  <2>4. \A u \in Threads : op'[u].pc = "assign" => At(home2, op'[u].dst) = {}
    <3> SUFFICES ASSUME NEW u \in Threads, op[u].pc = "assign"
                 PROVE  At(home2, op[u].dst) = {}
      OBVIOUS
    <3>1. op[u].dst \in Lists /\ At(home, op[u].dst) = {}
      BY MoveArguments DEF MovesTo, Chains
    <3>2. QED
      BY <1>9, <3>1 DEF Places
  <2>5. QED
    BY <2>2, <2>3, <2>4 DEF Chains, At
<1>15. Types(home2)'
  <2> SUFFICES ASSUME NEW k \in Deletable, NEW r \in Regions
               PROVE  type'[r] = k <=> home2[r] = k \/ Carried(home2, k, r)'
    BY DEF Types
  <2>1. Carried(home2, k, r)' <=> r # d /\ Carried(home, k, r)
    BY <1>3, <1>9 DEF Carried
  <2>2. CASE r = d
    BY <1>3, <1>7, <1>9, <2>1, <2>2 DEF ListsAssumption
  <2>3. CASE r # d
    BY <1>7, <1>9, <2>1, <2>3 DEF Types
  <2>4. QED
    BY <2>2, <2>3
<1>16. Traces(home2)'
  <2>1. \A k \in Caches : At(home2, k) \subseteq At(home, k)
    BY <1>9 DEF ListsAssumption, Places
  <2>2. QED
    BY <2>1 DEF Traces, At
<1>17. TypeOK'
  <2>1. list[l].head \in Regions \cup {Nobody} /\ list[l].tail \in Regions \cup {Nobody}
    BY <1>3 DEF TypeOK, Places
  <2>2. /\ list'[l].regions \in 0 .. Cardinality(Regions) /\ list'[l].units \in Nat
    <3>1. Counted(At(home2, l), list'[l]) /\ At(home2, l) \in SUBSET Regions
      BY <1>13 DEF Chain, At
    <3>2. QED
      BY <3>1, CountedType
  <2>3. next[d] \in Regions \cup {Nobody} /\ prev[d] \in Regions \cup {Nobody}
    BY <1>3 DEF Links
  <2>4. list' \in [Places -> [head : Regions \cup {Nobody}, tail : Regions \cup {Nobody},
                              regions : 0 .. Cardinality(Regions), units : Nat]]
    BY <1>7, <1>8, <2>1, <2>2, <2>3 DEF TypeOK, Places
  <2>5. next' \in Links /\ prev' \in Links
    BY <1>3, <1>7, <2>3 DEF Links
  <2>6. type' \in [Regions -> Lists \cup {Nobody}] /\ holder' \in [Regions -> Threads \cup {Nobody}]
    <3>1. type' \in [Regions -> Lists \cup {Nobody}]
      BY <1>7 DEF TypeOK
    <3>2. holder' \in [Regions -> Threads \cup {Nobody}]
      BY <1>6 DEF TypeOK
    <3>3. QED
      BY <3>1, <3>2
  <2>7. \A k \in Lists, u \in Threads :
           mutex'[k] = u <=> op'[u].pc \in {"assign", "clear", "visit"} /\ op'[u].src = k
    BY DEF TypeOK
  <2>8. QED
    BY <1>6, <2>4, <2>5, <2>6, <2>7 DEF TypeOK, Places, Links
<1>18. MovedUp(R, d, pos, pos2)
  BY <1>2, <1>3 DEF MovedUp
<1>19. QED
  BY <1>6, <1>7, <1>9, <1>11, <1>12, <1>14, <1>15, <1>16, <1>17, <1>18
-----------------------------------------------------------------------------
(* One critical section *)

LEMMA PrependStep ==
  ASSUME ListsAssumption, IInv, NEW t \in Threads, NEW l \in Lists, NEW r \in Regions,
         PrependRegion(t, l, r) \/ (l \in Caches /\ TryPrependRegion(t, l, r))
  PROVE  IInv'
<1>1. PICK home, pos : Placed(home, pos)
  BY DEF IInv
<1>2. /\ Free(l) /\ holder[r] # Nobody /\ PrependRegionLocked(l, r)
      /\ holder' = [holder EXCEPT ![r] = Nobody]
      /\ UNCHANGED <<traced, active, mutex, op, unvisited, fatal>>
  BY DEF PrependRegion, TryPrependRegion, ListsAssumption
<1>3. l \notin Spaces /\ (l \in Caches => l \in active)
  BY DEF PrependRegion, TryPrependRegion, ListsAssumption
<1>4. TypeOK' /\ \E home2, pos2 : Placed(home2, pos2)'
  BY <1>1, <1>2, <1>3, PrependPlaced DEF IInv
<1>5. Control'
  BY <1>2 DEF IInv, Control, MovesTo
<1>6. QED
  BY <1>2, <1>4, <1>5 DEF IInv

\* Only the flags change.
LEMMA FlagStep ==
  ASSUME IInv, NEW home, NEW pos, Placed(home, pos),
         UNCHANGED <<list, next, prev, type, mutex, holder, op, unvisited, fatal>>,
         traced' \subseteq Regions, active' \subseteq Caches, Traces(home)'
  PROVE  IInv'
<1>1. TypeOK' /\ ~fatal'
  BY DEF IInv, TypeOK
<1>2. Control'
  BY DEF IInv, Control, MovesTo
<1>3. Homes(home, pos)'
  BY DEF Placed, Homes
<1>4. Chains(home, pos)'
  BY DEF Placed, Chains, Chain, Cleared, At
<1>5. Visits(home, pos)'
  BY DEF Placed, Visits, At
<1>6. Types(home)'
  BY DEF Placed, Types, Carried
<1>7. Placed(home, pos)'
  BY <1>3, <1>4, <1>5, <1>6 DEF Placed
<1>8. QED
  BY <1>1, <1>2, <1>7 DEF IInv

LEMMA ActivateStep ==
  ASSUME ListsAssumption, IInv, NEW t \in Threads, NEW l \in Caches,
         ActivateRegionCache(t, l)
  PROVE  IInv'
<1>1. PICK home, pos : Placed(home, pos)
  BY DEF IInv
<1>2. Traces(home)'
  BY <1>1 DEF Placed, Traces, At, ActivateRegionCache
<1>3. traced' \subseteq Regions /\ active' \subseteq Caches
  BY DEF IInv, TypeOK, ActivateRegionCache
<1>4. QED
  BY <1>1, <1>2, <1>3, FlagStep DEF ActivateRegionCache

LEMMA ClearFlagsStep ==
  ASSUME ListsAssumption, IInv, NEW t \in Threads, NEW l \in Lists,
         ClearTraceRegionFlag(t, l) \/ DeactivateRegionCache(t, l)
  PROVE  IInv'
<1>1. PICK home, pos : Placed(home, pos)
  BY DEF IInv
<1>2. /\ Free(l) /\ traced' = traced \ Members(l)
      /\ active \ {l} \subseteq active' /\ active' \subseteq active
      /\ UNCHANGED <<list, next, prev, type, mutex, holder, op, unvisited, fatal>>
  BY DEF ClearTraceRegionFlag, DeactivateRegionCache
<1>3. Members(l) = At(home, l)
  <2>1. Cleared(l) /\ l \in Places
    BY <1>2, FreeList DEF IInv, Places
  <2>2. QED
    BY <1>1, <2>1, MembersAtHome DEF Placed
<1>4. traced' \subseteq Regions /\ active' \subseteq Caches
  BY <1>2 DEF IInv, TypeOK
<1>5. Traces(home)'
  <2> SUFFICES ASSUME NEW k \in Caches \ active' PROVE At(home, k) \cap traced' = {}
    BY DEF Traces, At
  <2>1. CASE k = l
    BY <1>2, <1>3, <2>1
  <2>2. CASE k # l
    BY <1>1, <1>2, <2>2 DEF Placed, Traces
  <2>3. QED
    BY <2>1, <2>2
<1>6. QED
  BY <1>1, <1>2, <1>4, <1>5, FlagStep

LEMMA SetFlagStep ==
  ASSUME ListsAssumption, IInv, NEW t \in Threads, NEW r \in Regions,
         SetTraceRegionFlag(t, r)
  PROVE  IInv'
<1>1. PICK home, pos : Placed(home, pos)
  BY DEF IInv
<1>2. /\ holder[r] # Nobody /\ traced' = traced \cup {r} /\ active' = active
      /\ UNCHANGED <<list, next, prev, type, mutex, holder, op, unvisited, fatal>>
  BY DEF SetTraceRegionFlag, ListsAssumption
<1>3. home[r] = Nobody
  BY <1>1, <1>2 DEF Placed, Homes
<1>4. \A l \in Caches : r \notin At(home, l)
  BY <1>3 DEF At, ListsAssumption
<1>5. Traces(home)'
  BY <1>1, <1>2, <1>4 DEF Placed, Traces, At
<1>6. traced' \subseteq Regions /\ active' \subseteq Caches
  BY <1>2 DEF IInv, TypeOK
<1>7. QED
  BY <1>1, <1>2, <1>5, <1>6, FlagStep

\* A region is deleted from a list whose mutex was free.
LEMMA DeleteStep ==
  ASSUME ListsAssumption, IInv, NEW home, NEW pos, Placed(home, pos),
         NEW l \in Lists, Free(l), NEW d \in At(home, l),
         NEW t \in Threads, NEW newType \in Lists \cup {Nobody}, newType \notin Deletable,
         DeleteRegionLocked(t, l, d, newType),
         UNCHANGED <<traced, active, mutex, op, unvisited>>
  PROVE  IInv'
<1>1. Cleared(l) /\ \A u \in Threads : Holds(u) => op[u].src # l
  BY FreeList DEF IInv
<1>2. /\ TypeOK' /\ ~fatal'
      /\ \E home2, pos2 :
            /\ Homes(home2, pos2)' /\ Chains(home2, pos2)'
            /\ Types(home2)' /\ Traces(home2)'
            /\ Elsewhere(home, pos, home2, pos2, {l})
  BY <1>1, DeletePlaced DEF IInv, Placed
<1>3. PICK home2, pos2 :
            /\ Homes(home2, pos2)' /\ Chains(home2, pos2)'
            /\ Types(home2)' /\ Traces(home2)'
            /\ Elsewhere(home, pos, home2, pos2, {l})
  BY <1>2
<1>4. Visits(home2, pos2)'
  <2> SUFFICES ASSUME NEW u \in Threads, op[u].pc = "visit"
               PROVE  /\ op'[u].node \in At(home2, op'[u].src) \cup {Nobody}
                      /\ unvisited'[u] = {x \in At(home2, op'[u].src) :
                            op'[u].node # Nobody /\ pos2[op'[u].node] <= pos2[x]}
    BY DEF Visits, At
  <2>1. op[u].src \notin {l}
    BY <1>1 DEF Holds
  <2>2. QED
    BY <1>3, <2>1, VisitElsewhere DEF IInv, Placed
<1>5. Control'
  BY DEF IInv, Control, MovesTo
<1>6. Placed(home2, pos2)'
  BY <1>3, <1>4 DEF Placed
<1>7. QED
  BY <1>2, <1>5, <1>6 DEF IInv

\* Outside the Deletable lists a region's type says nothing of them.
LEMMA OtherType ==
  ASSUME ListsAssumption, NEW home, Types(home), NEW l \in Lists \ Deletable,
         NEW r \in At(home, l)
  PROVE  type[r] \notin Deletable
<1>1. r \in Regions /\ home[r] = l /\ l \notin Threads
  BY DEF At, ListsAssumption
<1>2. ASSUME NEW k \in Deletable, type[r] = k PROVE FALSE
  BY <1>1, <1>2 DEF Types, Carried
<1>3. QED
  BY <1>2

LEMMA TakeHeadStep ==
  ASSUME ListsAssumption, IInv, NEW t \in Threads, NEW l \in Lists,
         NEW newType \in Lists \cup {Nobody}, TakeHeadRegion(t, l, newType)
  PROVE  IInv'
<1> DEFINE d == list[l].head
<1>1. PICK home, pos : Placed(home, pos)
  BY DEF IInv
<1>2. /\ Free(l) /\ d # Nobody
      /\ newType \in {Nobody} \cup (IF l \in Deletable THEN {} ELSE {type[d]})
      /\ DeleteRegionLocked(t, l, d, newType)
      /\ UNCHANGED <<traced, active, mutex, op, unvisited>>
  BY DEF TakeHeadRegion
<1>3. Cleared(l) /\ l \in Places
  BY <1>2, FreeList DEF IInv, Places
<1>4. d \in At(home, l)
  BY <1>1, <1>2, <1>3 DEF Placed, Chains, Chain, Order
<1>5. newType \notin Deletable
  <2>1. CASE newType = Nobody
    BY <2>1 DEF ListsAssumption
  <2>2. CASE newType # Nobody
    BY <1>1, <1>2, <1>4, <2>2, OtherType DEF Placed
  <2>3. QED
    BY <2>1, <2>2
<1> HIDE DEF d
<1>6. QED
  BY <1>1, <1>2, <1>4, <1>5, DeleteStep

LEMMA DeleteRegionStep ==
  ASSUME ListsAssumption, IInv, NEW t \in Threads, NEW l \in Lists, NEW r \in Regions,
         DeleteRegion(t, l, r)
  PROVE  IInv'
<1>1. PICK home, pos : Placed(home, pos)
  BY DEF IInv
<1>2. /\ Free(l) /\ l \notin Deletable /\ r \in Members(l)
      /\ DeleteRegionLocked(t, l, r, type[r])
      /\ UNCHANGED <<traced, active, mutex, op, unvisited>>
  BY DEF DeleteRegion
<1>3. Cleared(l) /\ l \in Places
  BY <1>2, FreeList DEF IInv, Places
<1>4. r \in At(home, l)
  BY <1>1, <1>2, <1>3, MembersAtHome DEF Placed
<1>5. type[r] \notin Deletable /\ type[r] \in Lists \cup {Nobody}
  BY <1>1, <1>2, <1>4, OtherType DEF Placed, IInv, TypeOK
<1>6. QED
  BY <1>1, <1>2, <1>4, <1>5, DeleteStep

LEMMA TryDeleteStep ==
  ASSUME ListsAssumption, IInv, NEW t \in Threads, NEW l \in Deletable, NEW r \in Regions,
         TryDeleteRegion(t, l, r)
  PROVE  IInv'
<1>1. PICK home, pos : Placed(home, pos)
  BY DEF IInv
<1>2. /\ Free(l) /\ type[r] = l /\ l \in Lists
      /\ \A u \in Threads : op[u].pc = "merge" => op[u].src # l
      /\ DeleteRegionLocked(t, l, r, Nobody)
      /\ UNCHANGED <<traced, active, mutex, op, unvisited>>
  BY DEF TryDeleteRegion, ListsAssumption
<1>3. r \in At(home, l)
  BY <1>1, <1>2 DEF Placed, Types, Carried, At
<1>4. Nobody \notin Deletable
  BY DEF ListsAssumption
<1>5. QED
  BY <1>1, <1>2, <1>3, <1>4, DeleteStep
-----------------------------------------------------------------------------
(* Operations of several steps *)

LEMMA BeginOp ==
  ASSUME Control, NEW t \in Threads, NEW what \in Operations, Begin(t, what)
  PROVE  /\ op'[t] = what /\ \A u \in Threads : u # t => op'[u] = op[u]
         /\ op' \in [Threads -> Operations]
BY DEF Control, Begin

LEMMA MutexTaken ==
  ASSUME ListsAssumption, TypeOK, Control, NEW t \in Threads, NEW l \in Lists, Free(l),
         op[t] = Idle, NEW what \in Operations, Begin(t, what),
         what.pc \in {"assign", "visit"}, what.src = l, mutex' = [mutex EXCEPT ![l] = t]
  PROVE  /\ mutex' \in [Lists -> Threads \cup {Nobody}]
         /\ \A k \in Lists, u \in Threads :
               mutex'[k] = u <=> op'[u].pc \in {"assign", "clear", "visit"} /\ op'[u].src = k
<1>1. op'[t] = what /\ \A u \in Threads : u # t => op'[u] = op[u]
  BY BeginOp
<1>2. mutex' \in [Lists -> Threads \cup {Nobody}]
  BY DEF TypeOK
<1>3. ASSUME NEW k \in Lists, NEW u \in Threads
      PROVE  mutex'[k] = u <=> op'[u].pc \in {"assign", "clear", "visit"} /\ op'[u].src = k
  <2>1. mutex[k] = u <=> Holds(u) /\ op[u].src = k
    BY DEF TypeOK, Holds
  <2>2. mutex'[k] = IF k = l THEN t ELSE mutex[k]
    BY DEF TypeOK
  <2>3. CASE u = t
    <3>1. ~Holds(t)
      BY DEF Holds, Idle
    <3>2. QED
      BY <1>1, <2>1, <2>2, <2>3, <3>1
  <2>4. CASE u # t
    <3>1. k = l => ~(Holds(u) /\ op[u].src = k)
      BY FreeList
    <3>2. QED
      BY <1>1, <2>1, <2>2, <2>4, <3>1 DEF Holds
  <2>5. QED
    BY <2>3, <2>4
<1>4. QED
  BY <1>2, <1>3

LEMMA IdleOperation == Idle \in Operations
BY DEF Idle, Operations

LEMMA MutexReleased ==
  ASSUME ListsAssumption, TypeOK, Control, NEW t \in Threads, Holds(t), op[t].src \in Lists,
         Begin(t, Idle), mutex' = [mutex EXCEPT ![op[t].src] = Nobody]
  PROVE  /\ mutex' \in [Lists -> Threads \cup {Nobody}]
         /\ \A k \in Lists, u \in Threads :
               mutex'[k] = u <=> op'[u].pc \in {"assign", "clear", "visit"} /\ op'[u].src = k
<1>1. op'[t] = Idle /\ \A u \in Threads : u # t => op'[u] = op[u]
  BY BeginOp, IdleOperation
<1>2. mutex' \in [Lists -> Threads \cup {Nobody}]
  BY DEF TypeOK
<1>3. ASSUME NEW k \in Lists, NEW u \in Threads
      PROVE  mutex'[k] = u <=> op'[u].pc \in {"assign", "clear", "visit"} /\ op'[u].src = k
  <2>1. mutex[k] = u <=> Holds(u) /\ op[u].src = k
    BY DEF TypeOK, Holds
  <2>2. mutex'[k] = IF k = op[t].src THEN Nobody ELSE mutex[k]
    BY DEF TypeOK
  <2>3. u # Nobody
    BY DEF ListsAssumption
  <2>4. CASE u = t
    <3>1. op'[t].pc = "idle"
      BY <1>1 DEF Idle
    <3>2. k # op[t].src => mutex[k] # t
      BY <2>1, <2>4
    <3>3. QED
      BY <2>2, <2>3, <2>4, <3>1, <3>2
  <2>5. CASE u # t
    <3>1. k = op[t].src => ~(Holds(u) /\ op[u].src = k)
      BY <2>5, HeldList
    <3>2. QED
      BY <1>1, <2>1, <2>2, <2>3, <2>5, <3>1 DEF Holds
  <2>6. QED
    BY <2>4, <2>5
<1>4. QED
  BY <1>2, <1>3

\* Only what a thread is in the middle of changes.
LEMMA SamePlaces ==
  ASSUME NEW home, NEW pos, Placed(home, pos), NEW t \in Threads,
         UNCHANGED <<list, next, prev, type, traced, active, holder>>,
         op[t].pc \in {"idle", "assign", "visit"}, op'[t].pc \in {"idle", "assign", "visit"},
         \A u \in Threads : u # t => op'[u] = op[u] /\ unvisited'[u] = unvisited[u],
         op'[t].pc = "assign" => At(home, op'[t].dst) = {},
         op'[t].pc = "visit" =>
            /\ op'[t].node \in At(home, op'[t].src) \cup {Nobody}
            /\ unvisited'[t] = {r \in At(home, op'[t].src) :
                  op'[t].node # Nobody /\ pos[op'[t].node] <= pos[r]}
  PROVE  Placed(home, pos)'
<1>1. /\ Homes(home, pos) /\ Chains(home, pos) /\ Visits(home, pos)
      /\ Types(home) /\ Traces(home)
  BY DEF Placed
<1>2. Homes(home, pos)'
  BY <1>1 DEF Homes
<1>3. Chains(home, pos)'
  <2>1. \A l \in Places : Cleared(l)' <=> Cleared(l)
    BY DEF Cleared
  <2>2. \A l \in Places : Chain(home, pos, l)' <=> Chain(home, pos, l)
    BY DEF Chain, At
  <2>3. \A u \in Threads : op'[u].pc = "merge" <=> op[u].pc = "merge"
    OBVIOUS
  <2>4. \A u \in Threads : op'[u].pc = "assign" => At(home, op'[u].dst) = {}
    BY <1>1 DEF Chains
  <2>5. QED
    BY <1>1, <2>1, <2>2, <2>3, <2>4 DEF Chains, At
<1>4. Visits(home, pos)'
  <2> SUFFICES ASSUME NEW u \in Threads, op'[u].pc = "visit"
               PROVE  /\ op'[u].node \in At(home, op'[u].src) \cup {Nobody}
                      /\ unvisited'[u] = {r \in At(home, op'[u].src) :
                            op'[u].node # Nobody /\ pos[op'[u].node] <= pos[r]}
    BY DEF Visits, At
  <2>1. CASE u = t
    BY <2>1
  <2>2. CASE u # t
    BY <1>1, <2>2 DEF Visits
  <2>3. QED
    BY <2>1, <2>2
<1>5. Types(home)'
  <2>1. \A l \in Deletable, r \in Regions : Carried(home, l, r)' <=> Carried(home, l, r)
    BY DEF Carried
  <2>2. QED
    BY <1>1, <2>1 DEF Types
<1>6. Traces(home)'
  BY <1>1 DEF Traces, At
<1>7. QED
  BY <1>2, <1>3, <1>4, <1>5, <1>6 DEF Placed

LEMMA MoveLockStep ==
  ASSUME ListsAssumption, IInv, NEW t \in Threads, NEW m \in Moves, MoveLock(t, m[1], m[2])
  PROVE  IInv'
<1> DEFINE src == m[1]
           dst == m[2]
           what == [Idle EXCEPT !.pc = "assign", !.src = src, !.dst = dst]
<1>1. PICK home, pos : Placed(home, pos)
  BY DEF IInv
<1>2. src \in Lists /\ dst \in Lists /\ <<src, dst>> = m
  BY DEF ListsAssumption
<1>3. /\ op[t] = Idle /\ Free(src) /\ list[dst].head = Nobody
      /\ \A u \in Threads : MovesTo(u) => op[u].dst # dst
      /\ mutex' = [mutex EXCEPT ![src] = t] /\ Begin(t, what)
      /\ UNCHANGED <<list, next, prev, type, traced, active, holder, unvisited, fatal>>
  BY DEF MoveLock, CanStart, MovesTo
<1>4. what \in Operations
  BY <1>2 DEF Operations, Idle
<1>5. what.pc = "assign" /\ what.src = src /\ what.dst = dst
  BY DEF Idle
<1> HIDE DEF what
<1>6. /\ op'[t] = what /\ \A u \in Threads : u # t => op'[u] = op[u]
      /\ op' \in [Threads -> Operations]
  BY <1>3, <1>4, BeginOp DEF IInv
<1>7. Control'
  <2>1. \A u \in Threads : op'[u].pc = "merge" => <<op'[u].src, op'[u].dst>> \in Merges
    BY <1>5, <1>6 DEF IInv, Control
  <2>2. \A u \in Threads : MovesTo(u)' => <<op'[u].src, op'[u].dst>> \in Moves
    BY <1>2, <1>5, <1>6 DEF IInv, Control, MovesTo
  <2>3. \A u \in Threads : op'[u].pc = "visit" => op'[u].src \in Lists
    BY <1>5, <1>6 DEF IInv, Control
  <2>4. \A u, v \in Threads : MovesTo(u)' /\ MovesTo(v)' /\ op'[u].dst = op'[v].dst => u = v
    BY <1>3, <1>5, <1>6 DEF IInv, Control, MovesTo
  <2>5. QED
    BY <1>3, <1>6, <2>1, <2>2, <2>3, <2>4 DEF IInv, Control, MovesTo
<1>8. TypeOK'
  <2>1. /\ mutex' \in [Lists -> Threads \cup {Nobody}]
        /\ \A k \in Lists, u \in Threads :
              mutex'[k] = u <=> op'[u].pc \in {"assign", "clear", "visit"} /\ op'[u].src = k
    BY <1>2, <1>3, <1>4, <1>5, MutexTaken DEF IInv
  <2>2. QED
    BY <1>3, <2>1 DEF IInv, TypeOK
<1>9. At(home, dst) = {}
  BY <1>1, <1>2, <1>3 DEF Placed, Chains, Chain, Order, Places
<1>10. Placed(home, pos)'
  <2>1. op[t].pc = "idle"
    BY <1>3 DEF Idle
  <2>2. QED
    BY <1>1, <1>3, <1>5, <1>6, <1>9, <2>1, SamePlaces
<1>11. QED
  BY <1>3, <1>7, <1>8, <1>10 DEF IInv
LEMMA VisitStartStep ==
  ASSUME ListsAssumption, IInv, NEW t \in Threads, NEW l \in Lists, VisitStart(t, l)
  PROVE  IInv'
<1> DEFINE h == list[l].head
           what == [Idle EXCEPT !.pc = "visit", !.src = l, !.node = h]
<1>1. PICK home, pos : Placed(home, pos)
  BY DEF IInv
<1>2. /\ op[t] = Idle /\ Free(l) /\ mutex' = [mutex EXCEPT ![l] = t] /\ Begin(t, what)
      /\ unvisited' = [unvisited EXCEPT ![t] = Members(l)]
      /\ UNCHANGED <<list, next, prev, type, traced, active, holder, fatal>>
  BY DEF VisitStart, CanStart
<1>3. Cleared(l) /\ l \in Places
  BY <1>2, FreeList DEF IInv, Places
<1>4. Order(At(home, l), h, list[l].tail, next, prev, pos)
  BY <1>1, <1>3 DEF Placed, Chains, Chain
<1>5. Members(l) = At(home, l)
  BY <1>1, <1>3, MembersAtHome DEF Placed
<1>6. h \in At(home, l) \cup {Nobody} /\ h \in Regions \cup {Nobody}
  BY <1>3, <1>4 DEF Order, At
<1>7. what \in Operations
  BY <1>6 DEF Operations, Idle
<1>8. what.pc = "visit" /\ what.src = l /\ what.node = h
  BY DEF Idle
<1> HIDE DEF h, what
<1>9. /\ op'[t] = what /\ \A u \in Threads : u # t => op'[u] = op[u]
      /\ op' \in [Threads -> Operations]
  BY <1>2, <1>7, BeginOp DEF IInv
<1>10. Control'
  BY <1>2, <1>5, <1>8, <1>9 DEF IInv, Control, MovesTo, At
<1>11. TypeOK'
  <2>1. /\ mutex' \in [Lists -> Threads \cup {Nobody}]
        /\ \A k \in Lists, u \in Threads :
              mutex'[k] = u <=> op'[u].pc \in {"assign", "clear", "visit"} /\ op'[u].src = k
    BY <1>2, <1>7, <1>8, MutexTaken DEF IInv
  <2>2. QED
    BY <1>2, <2>1 DEF IInv, TypeOK
<1>12. \A u \in Threads : u # t => unvisited'[u] = unvisited[u]
  BY <1>2
<1>13. Placed(home, pos)'
  <2>1. op[t].pc = "idle"
    BY <1>2 DEF Idle
  <2>2. unvisited'[t] = {r \in At(home, l) : h # Nobody /\ pos[h] <= pos[r]}
    <3>1. unvisited'[t] = At(home, l)
      BY <1>2, <1>5 DEF IInv, Control
    <3>2. \A r \in At(home, l) : h # Nobody /\ pos[h] <= pos[r]
      BY <1>4 DEF Order
    <3>3. QED
      BY <3>1, <3>2
  <2>3. QED
    BY <1>1, <1>2, <1>6, <1>8, <1>9, <1>12, <2>1, <2>2, SamePlaces
<1>14. QED
  BY <1>2, <1>10, <1>11, <1>13 DEF IInv

LEMMA VisitEndStep ==
  ASSUME ListsAssumption, IInv, NEW t \in Threads, VisitEnd(t)
  PROVE  IInv'
<1>1. PICK home, pos : Placed(home, pos)
  BY DEF IInv
<1>2. /\ op[t].pc = "visit" /\ mutex' = [mutex EXCEPT ![op[t].src] = Nobody] /\ Begin(t, Idle)
      /\ UNCHANGED <<list, next, prev, type, traced, active, holder, unvisited, fatal>>
  BY DEF VisitEnd
<1>3. /\ op'[t] = Idle /\ \A u \in Threads : u # t => op'[u] = op[u]
      /\ op' \in [Threads -> Operations]
  BY <1>2, BeginOp, IdleOperation DEF IInv
<1>4. op'[t].pc = "idle"
  BY <1>3 DEF Idle
<1>5. Control'
  BY <1>2, <1>3, <1>4 DEF IInv, Control, MovesTo
<1>6. TypeOK'
  <2>1. Holds(t) /\ op[t].src \in Lists
    BY <1>2 DEF IInv, Control, Holds
  <2>2. /\ mutex' \in [Lists -> Threads \cup {Nobody}]
        /\ \A k \in Lists, u \in Threads :
              mutex'[k] = u <=> op'[u].pc \in {"assign", "clear", "visit"} /\ op'[u].src = k
    BY <1>2, <2>1, MutexReleased DEF IInv
  <2>3. QED
    BY <1>2, <2>2 DEF IInv, TypeOK
<1>7. Placed(home, pos)'
  BY <1>1, <1>2, <1>3, <1>4, SamePlaces
<1>8. QED
  BY <1>2, <1>5, <1>6, <1>7 DEF IInv

\* The regions behind the one the visitor was at.
LEMMA NextToVisit ==
  ASSUME NEW R, NEW h, NEW t, NEW pos \in Positions, R \in SUBSET Regions,
         Order(R, h, t, next, prev, pos), NEW node \in R
  PROVE  {r \in R : pos[node] <= pos[r]} \ {node}
           = {r \in R : next[node] # Nobody /\ pos[next[node]] <= pos[r]}
<1>1. /\ \A r \in R : pos[r] \in Int /\ pos[r] <= pos[t]
      /\ next[node] = Nobody <=> node = t
      /\ next[node] # Nobody => next[node] \in R /\ pos[next[node]] = pos[node] + 1
      /\ \A r, q \in R : pos[r] = pos[q] => r = q
  BY DEF Order, Positions
<1>2. ASSUME NEW r \in R
      PROVE  pos[node] <= pos[r] /\ r # node
               <=> next[node] # Nobody /\ pos[next[node]] <= pos[r]
  <2>1. CASE next[node] = Nobody
    BY <1>1, <2>1
  <2>2. CASE next[node] # Nobody
    BY <1>1, <2>2
  <2>3. QED
    BY <2>1, <2>2
<1>3. QED
  BY <1>2
LEMMA VisitNodeStep ==
  ASSUME ListsAssumption, IInv, NEW t \in Threads, VisitNode(t)
  PROVE  IInv'
<1> DEFINE l == op[t].src
           node == op[t].node
           what == [op[t] EXCEPT !.node = next[node]]
<1>1. PICK home, pos : Placed(home, pos)
  BY DEF IInv
<1>2. /\ op[t].pc = "visit" /\ node # Nobody /\ Begin(t, what)
      /\ unvisited' = [unvisited EXCEPT ![t] = @ \ {node}]
      /\ UNCHANGED <<traced, active, mutex>>
  BY DEF VisitNode
<1>3. \/ UNCHANGED <<list, next, prev, type, holder, fatal>>
      \/ DeleteRegionLocked(t, l, node, Nobody)
  BY DEF VisitNode
<1>4. op[t] \in Operations /\ l \in Lists /\ Holds(t) /\ l \in Places
  BY <1>2 DEF IInv, Control, Holds, Places
<1>5. Cleared(l) /\ \A u \in Threads : Holds(u) /\ op[u].src = l => u = t
  BY <1>2, <1>4, HeldList DEF IInv
<1>6. Order(At(home, l), list[l].head, list[l].tail, next, prev, pos)
  BY <1>1, <1>4, <1>5 DEF Placed, Chains, Chain
<1>7. node \in At(home, l)
  BY <1>1, <1>2 DEF Placed, Visits
<1>8. At(home, l) \in SUBSET Regions /\ pos \in Positions /\ Nobody \notin Regions
  BY <1>1 DEF At, Placed, Homes, ListsAssumption
<1>9. next[node] \in At(home, l) \cup {Nobody} /\ next[node] # node
  BY <1>6, <1>7, <1>8 DEF Order, Positions
<1>10. unvisited'[t] = {r \in At(home, l) : next[node] # Nobody /\ pos[next[node]] <= pos[r]}
  <2>1. unvisited[t] = {r \in At(home, l) : pos[node] <= pos[r]}
    BY <1>1, <1>2 DEF Placed, Visits
  <2>2. unvisited'[t] = unvisited[t] \ {node}
    BY <1>2 DEF IInv, Control
  <2>3. {r \in At(home, l) : pos[node] <= pos[r]} \ {node}
          = {r \in At(home, l) : next[node] # Nobody /\ pos[next[node]] <= pos[r]}
    BY <1>6, <1>7, <1>8, NextToVisit
  <2>4. QED
    BY <2>1, <2>2, <2>3
<1>11. what \in Operations
  BY <1>4, <1>8, <1>9 DEF Operations
<1>12. /\ what.pc = "visit" /\ what.src = l /\ what.dst = op[t].dst /\ what.node = next[node]
  BY <1>2, <1>4 DEF Operations
<1> HIDE DEF l, node, what
<1>13. /\ op'[t] = what /\ \A u \in Threads : u # t => op'[u] = op[u]
       /\ op' \in [Threads -> Operations]
  BY <1>2, <1>11, BeginOp DEF IInv
<1>14. \A u \in Threads : u # t => unvisited'[u] = unvisited[u]
  BY <1>2 DEF IInv, Control
<1>15. \A u \in Threads :
          op'[u].pc = op[u].pc /\ op'[u].src = op[u].src /\ op'[u].dst = op[u].dst
  BY <1>2, <1>12, <1>13 DEF l
<1>16. Control'
  <2>1. unvisited' \in [Threads -> SUBSET Regions]
    BY <1>2 DEF IInv, Control
  <2>2. QED
    BY <1>13, <1>15, <2>1 DEF IInv, Control, MovesTo
<1>17. CASE UNCHANGED <<list, next, prev, type, holder, fatal>>
  <2>1. TypeOK' /\ ~fatal'
    BY <1>2, <1>15, <1>17 DEF IInv, TypeOK
  <2>2. Placed(home, pos)'
    BY <1>1, <1>2, <1>9, <1>10, <1>12, <1>13, <1>14, <1>17, SamePlaces
  <2>3. QED
    BY <1>16, <2>1, <2>2 DEF IInv
<1>18. CASE DeleteRegionLocked(t, l, node, Nobody)
  <2>1. Nobody \notin Deletable
    BY DEF ListsAssumption
  <2>c. /\ ListsAssumption /\ TypeOK /\ ~fatal /\ Control
        /\ Homes(home, pos) /\ Chains(home, pos) /\ Types(home) /\ Traces(home)
        /\ l \in Lists /\ Cleared(l) /\ node \in At(home, l) /\ Nobody \in Lists \cup {Nobody}
        /\ UNCHANGED <<traced, active, mutex>>
    BY <1>1, <1>2, <1>4, <1>5, <1>7 DEF IInv, Placed
  <2>2. /\ TypeOK' /\ ~fatal'
        /\ \E home2, pos2 :
              /\ Homes(home2, pos2)' /\ Chains(home2, pos2)'
              /\ Types(home2)' /\ Traces(home2)'
              /\ Elsewhere(home, pos, home2, pos2, {l})
              /\ At(home2, l) = At(home, l) \ {node}
              /\ MovedUp(At(home, l), node, pos, pos2)
    BY <1>15, <1>18, <2>1, <2>c, DeletePlaced
  <2>3. PICK home2, pos2 :
              /\ Homes(home2, pos2)' /\ Chains(home2, pos2)'
              /\ Types(home2)' /\ Traces(home2)'
              /\ Elsewhere(home, pos, home2, pos2, {l})
              /\ At(home2, l) = At(home, l) \ {node}
              /\ MovedUp(At(home, l), node, pos, pos2)
    BY <2>2
  <2>4. next[node] \in At(home2, l) \cup {Nobody}
    BY <1>9, <2>3
  <2>5. unvisited'[t] = {r \in At(home2, l) : next[node] # Nobody /\ pos2[next[node]] <= pos2[r]}
    <3>1. \A r \in At(home, l) : pos[r] \in Int /\ (pos[r] = pos[node] => r = node)
      BY <1>6, <1>7, <1>8 DEF Order, Positions
    <3>2. next[node] # Nobody => pos[next[node]] = pos[node] + 1
      BY <1>6, <1>7 DEF Order
    <3>3. ASSUME NEW r \in At(home, l), next[node] # Nobody
          PROVE  pos[next[node]] <= pos[r] <=> r # node /\ pos2[next[node]] <= pos2[r]
      <4>1. /\ pos[r] \in Int /\ pos[node] \in Int /\ pos[next[node]] = pos[node] + 1
            /\ next[node] \in At(home, l)
        BY <1>7, <1>9, <3>1, <3>2, <3>3
      <4>2. /\ pos2[r] = IF pos[r] < pos[node] THEN pos[r] + 1 ELSE pos[r]
            /\ pos2[next[node]] = pos[node] + 1
        BY <2>3, <4>1 DEF MovedUp
      <4>3. QED
        BY <3>1, <4>1, <4>2
    <3>4. QED
      BY <1>10, <2>3, <3>3
  <2>6. Visits(home2, pos2)'
    <3> SUFFICES ASSUME NEW u \in Threads, op'[u].pc = "visit"
                 PROVE  /\ op'[u].node \in At(home2, op'[u].src) \cup {Nobody}
                        /\ unvisited'[u] = {x \in At(home2, op'[u].src) :
                              op'[u].node # Nobody /\ pos2[op'[u].node] <= pos2[x]}
      BY DEF Visits, At
    <3>1. CASE u = t
      BY <1>12, <1>13, <2>4, <2>5, <3>1
    <3>2. CASE u # t
      <4>1. op[u].pc = "visit" /\ op[u].src \notin {l}
        BY <1>5, <1>15, <3>2 DEF Holds
      <4>2. op'[u] = op[u] /\ unvisited'[u] = unvisited[u]
        BY <1>13, <1>14, <3>2
      <4>3. QED
        BY <1>1, <2>3, <4>1, <4>2, VisitElsewhere DEF IInv, Placed
    <3>3. QED
      BY <3>1, <3>2
  <2>7. Placed(home2, pos2)'
    BY <2>3, <2>6 DEF Placed
  <2>8. QED
    BY <1>16, <2>2, <2>7 DEF IInv
<1>19. QED
  BY <1>3, <1>17, <1>18
\* Nothing is at home in an empty list.
LEMMA EmptyChain ==
  ASSUME NEW home, NEW pos, NEW l, At(home, l) = {}, list'[l] = Empty
  PROVE  Chain(home, pos, l)'
<1>1. Order({}, Nobody, Nobody, next', prev', pos)
  BY DEF Order
<1>2. Cardinality({}) = 0 /\ UnitsOf({}) = {}
  BY FS_EmptySet DEF UnitsOf
<1>3. /\ Order(At(home, l), list'[l].head, list'[l].tail, next', prev', pos)
      /\ Counted(At(home, l), list'[l])
  BY <1>1, <1>2 DEF Empty, Counted
<1>4. QED
  BY <1>3 DEF Chain, At

\* No visitor is at the lists of X.
LEMMA VisitsElsewhere ==
  ASSUME NEW home, NEW pos, NEW home2, NEW pos2, NEW X,
         Elsewhere(home, pos, home2, pos2, X), Visits(home, pos), Control,
         NEW t \in Threads, op'[t].pc # "visit", unvisited' = unvisited,
         \A u \in Threads : u # t => op'[u] = op[u],
         \A u \in Threads : u # t /\ op[u].pc = "visit" => op[u].src \notin X
  PROVE  Visits(home2, pos2)'
<1> SUFFICES ASSUME NEW u \in Threads, op'[u].pc = "visit"
             PROVE  /\ op'[u].node \in At(home2, op'[u].src) \cup {Nobody}
                    /\ unvisited'[u] = {x \in At(home2, op'[u].src) :
                          op'[u].node # Nobody /\ pos2[op'[u].node] <= pos2[x]}
  BY DEF Visits, At
<1>1. u # t /\ op'[u] = op[u] /\ op[u].pc = "visit" /\ op[u].src \notin X
  OBVIOUS
<1>2. QED
  BY <1>1, VisitElsewhere

LEMMA AssignStep ==
  ASSUME ListsAssumption, IInv, NEW t \in Threads, AssignWith(t)
  PROVE  IInv'
<1> DEFINE what == [op[t] EXCEPT !.pc = "clear"]
<1>a. PICK src : src = op[t].src
  OBVIOUS
<1>b. PICK dst : dst = op[t].dst
  OBVIOUS
<1>1. PICK home, pos : Placed(home, pos)
  BY DEF IInv
<1>2. /\ op[t].pc = "assign" /\ Free(dst) /\ Begin(t, what)
      /\ list' = [list EXCEPT ![dst] = list[src]]
      /\ UNCHANGED <<next, prev, type, traced, active, mutex, holder, unvisited, fatal>>
  BY <1>a, <1>b DEF AssignWith
<1>3. MovesTo(t) /\ Holds(t)
  BY <1>2 DEF MovesTo, Holds
<1>4. /\ src \in Lists /\ dst \in Lists /\ dst # src /\ src \notin Deletable
      /\ dst \notin Deletable \cup Caches
  BY <1>3, <1>a, <1>b, MoveArguments DEF IInv
<1>5. op[t] \in Operations /\ what \in Operations
  BY DEF IInv, Control, Operations
<1>6. what.pc = "clear" /\ what.src = src /\ what.dst = dst
  BY <1>5, <1>a, <1>b DEF Operations
<1>7. /\ Cleared(src) /\ Cleared(dst)
      /\ \A u \in Threads : Holds(u) => op[u].src # dst /\ (op[u].src = src => u = t)
  BY <1>2, <1>3, <1>4, <1>a, <1>b, FreeList, HeldList DEF IInv
<1> HIDE DEF what
<1>8. /\ op'[t] = what /\ \A u \in Threads : u # t => op'[u] = op[u]
      /\ op' \in [Threads -> Operations]
  BY <1>2, <1>5, BeginOp DEF IInv
<1>9. Control'
  BY <1>2, <1>6, <1>8, <1>a, <1>b DEF IInv, Control, MovesTo
<1>10. TypeOK'
  <2>1. \A k \in Lists, u \in Threads :
           mutex'[k] = u <=> op'[u].pc \in {"assign", "clear", "visit"} /\ op'[u].src = k
    BY <1>2, <1>6, <1>8, <1>a DEF IInv, TypeOK
  <2>2. list' \in [Places -> [head : Regions \cup {Nobody}, tail : Regions \cup {Nobody},
                              regions : 0 .. Cardinality(Regions), units : Nat]]
    BY <1>2, <1>4 DEF IInv, TypeOK, Places
  <2>3. QED
    BY <1>2, <2>1, <2>2 DEF IInv, TypeOK, Places
<1>11. PICK home2 : home2 = [r \in Regions |-> IF home[r] = src THEN dst ELSE home[r]]
  OBVIOUS
<1>12. /\ Homes(home, pos) /\ Chains(home, pos) /\ Visits(home, pos)
       /\ Types(home) /\ Traces(home) /\ home \in [Regions -> Places \cup {Nobody}]
       /\ src \in Places /\ dst \in Places
  BY <1>1, <1>4 DEF Placed, Homes, Places
<1>13. At(home, dst) = {}
  BY <1>2, <1>12, <1>b DEF Chains
<1>14. /\ At(home2, dst) = At(home, src) /\ At(home2, src) = {}
       /\ \A k \in Places : k # src /\ k # dst => At(home2, k) = At(home, k)
  BY <1>4, <1>11, <1>13 DEF At
<1>15. Homes(home2, pos)'
  <2>1. home2 \in [Regions -> Places \cup {Nobody}]
    BY <1>11, <1>12
  <2>2. \A r \in Regions : home2[r] = Nobody <=> home[r] = Nobody
    BY <1>4, <1>11 DEF ListsAssumption
  <2>3. QED
    BY <1>2, <1>12, <2>1, <2>2 DEF Homes
<1>16. Elsewhere(home, pos, home2, pos, {src, dst})
  BY <1>2, <1>14 DEF Elsewhere, IInv, TypeOK, Places
<1>17. Chain(home2, pos, dst)'
  <2>1. list'[dst] = list[src]
    BY <1>2, <1>4 DEF IInv, TypeOK
  <2>2. /\ Order(At(home, src), list[src].head, list[src].tail, next, prev, pos)
        /\ Counted(At(home, src), list[src])
    BY <1>7, <1>12 DEF Chains, Chain
  <2>3. /\ Order(At(home2, dst), list'[dst].head, list'[dst].tail, next', prev', pos)
        /\ Counted(At(home2, dst), list'[dst])
    BY <1>2, <1>14, <2>1, <2>2
  <2>4. QED
    BY <2>3 DEF Chain, At
<1>18. Chains(home2, pos)'
  <2>1. /\ \A k \in Places \ {src, dst} : Cleared(k)' <=> Cleared(k)
        /\ ~Cleared(src)' /\ Cleared(dst)'
    BY <1>2, <1>4, <1>6, <1>7, <1>8, <1>a, <1>b DEF Cleared, Holds
  <2>2. /\ \A k \in Places : Cleared(k)' => Chain(home2, pos, k)'
        /\ \A k \in Places : ~Cleared(k)' => At(home2, k) = {}
    BY <1>12, <1>14, <1>16, <1>17, <2>1, ChainsElsewhere
  <2>3. \A u \in Threads : op'[u].pc = "merge" <=> At(home2, u) # {}
    <3>1. \A u \in Threads : u # src /\ u # dst /\ u \in Places
      BY <1>4 DEF ListsAssumption, Places
    <3>2. \A u \in Threads : op'[u].pc = "merge" <=> op[u].pc = "merge"
      BY <1>2, <1>6, <1>8
    <3>3. QED
      BY <1>12, <1>14, <3>1, <3>2 DEF Chains
  <2>4. \A u \in Threads : op'[u].pc = "assign" => At(home2, op'[u].dst) = {}
    <3> SUFFICES ASSUME NEW u \in Threads, op'[u].pc = "assign"
                 PROVE  At(home2, op'[u].dst) = {}
      OBVIOUS
    <3>1. u # t /\ op'[u] = op[u] /\ op[u].pc = "assign"
      BY <1>6, <1>8
    <3>2. op[u].dst # dst /\ op[u].dst \in Lists /\ At(home, op[u].dst) = {}
      BY <1>3, <1>12, <1>b, <3>1, MoveArguments DEF IInv, Control, MovesTo, Chains
    <3>3. QED
      BY <1>14, <3>1, <3>2 DEF Places
  <2>5. QED
    BY <2>2, <2>3, <2>4 DEF Chains, At
<1>19. Visits(home2, pos)'
  <2>1. \A u \in Threads : u # t /\ op[u].pc = "visit" => op[u].src \notin {src, dst}
    BY <1>7 DEF Holds
  <2>2. QED
    BY <1>2, <1>6, <1>8, <1>12, <1>16, <2>1, VisitsElsewhere DEF IInv
<1>20. Types(home2)'
  <2> SUFFICES ASSUME NEW k \in Deletable, NEW r \in Regions
               PROVE  type'[r] = k <=> home2[r] = k \/ Carried(home2, k, r)'
    BY DEF Types
  <2>1. home2[r] = k <=> home[r] = k
    BY <1>4, <1>11
  <2>2. \A u \in Threads : home2[r] = u <=> home[r] = u
    BY <1>4, <1>11 DEF ListsAssumption
  <2>3. Carried(home2, k, r)' <=> Carried(home, k, r)
    BY <1>2, <1>6, <1>8, <2>2 DEF Carried
  <2>4. QED
    BY <1>2, <1>12, <2>1, <2>3 DEF Types
<1>21. Traces(home2)'
  <2>1. \A k \in Caches : At(home2, k) \subseteq At(home, k)
    BY <1>4, <1>14 DEF ListsAssumption, Places
  <2>2. QED
    BY <1>2, <1>12, <2>1 DEF Traces, At
<1>22. Placed(home2, pos)'
  BY <1>15, <1>18, <1>19, <1>20, <1>21 DEF Placed
<1>23. QED
  BY <1>2, <1>9, <1>10, <1>22 DEF IInv

LEMMA ClearStep ==
  ASSUME ListsAssumption, IInv, NEW t \in Threads, ClearList(t)
  PROVE  IInv'
<1>a. PICK src : src = op[t].src
  OBVIOUS
<1>1. PICK home, pos : Placed(home, pos)
  BY DEF IInv
<1>2. /\ op[t].pc = "clear" /\ Begin(t, Idle)
      /\ list' = [list EXCEPT ![src] = Empty] /\ mutex' = [mutex EXCEPT ![src] = Nobody]
      /\ UNCHANGED <<next, prev, type, traced, active, holder, unvisited, fatal>>
  BY <1>a DEF ClearList
<1>3. MovesTo(t) /\ Holds(t)
  BY <1>2 DEF MovesTo, Holds
<1>4. src \in Lists /\ src \in Places
  BY <1>3, <1>a, MoveArguments DEF IInv, Places
<1>5. \A u \in Threads : Holds(u) /\ op[u].src = src => u = t
  BY <1>3, <1>4, <1>a, HeldList DEF IInv
<1>6. /\ op'[t] = Idle /\ \A u \in Threads : u # t => op'[u] = op[u]
      /\ op' \in [Threads -> Operations]
  BY <1>2, BeginOp, IdleOperation DEF IInv
<1>7. op'[t].pc = "idle"
  BY <1>6 DEF Idle
<1>8. Control'
  BY <1>2, <1>6, <1>7 DEF IInv, Control, MovesTo
<1>9. TypeOK'
  <2>1. /\ mutex' \in [Lists -> Threads \cup {Nobody}]
        /\ \A k \in Lists, u \in Threads :
              mutex'[k] = u <=> op'[u].pc \in {"assign", "clear", "visit"} /\ op'[u].src = k
    BY <1>2, <1>3, <1>4, <1>a, MutexReleased DEF IInv
  <2>2. Empty \in [head : Regions \cup {Nobody}, tail : Regions \cup {Nobody},
                   regions : 0 .. Cardinality(Regions), units : Nat]
    <3>1. Cardinality(Regions) \in Nat
      BY FS_CardinalityType DEF ListsAssumption
    <3>2. QED
      BY <3>1 DEF Empty
  <2>3. list' \in [Places -> [head : Regions \cup {Nobody}, tail : Regions \cup {Nobody},
                              regions : 0 .. Cardinality(Regions), units : Nat]]
    BY <1>2, <2>2 DEF IInv, TypeOK, Places
  <2>4. QED
    BY <1>2, <2>1, <2>3 DEF IInv, TypeOK, Places
<1>10. /\ Homes(home, pos) /\ Chains(home, pos) /\ Visits(home, pos)
       /\ Types(home) /\ Traces(home)
  BY <1>1 DEF Placed
<1>11. At(home, src) = {}
  BY <1>2, <1>4, <1>10, <1>a DEF Chains, Cleared
<1>12. Elsewhere(home, pos, home, pos, {src})
  BY <1>2 DEF Elsewhere, IInv, TypeOK, Places
<1>13. Chain(home, pos, src)'
  <2>1. list'[src] = Empty
    BY <1>2, <1>4 DEF IInv, TypeOK
  <2>2. QED
    BY <1>11, <2>1, EmptyChain
<1>14. Chains(home, pos)'
  <2>1. /\ \A k \in Places \ {src} : Cleared(k)' <=> Cleared(k)
        /\ Cleared(src)'
    BY <1>5, <1>6, <1>7, <1>a DEF Cleared, Holds
  <2>2. /\ \A k \in Places : Cleared(k)' => Chain(home, pos, k)'
        /\ \A k \in Places : ~Cleared(k)' => At(home, k) = {}
    BY <1>10, <1>12, <1>13, <2>1, ChainsElsewhere
  <2>3. /\ \A u \in Threads : op'[u].pc = "merge" <=> At(home, u) # {}
        /\ \A u \in Threads : op'[u].pc = "assign" => At(home, op'[u].dst) = {}
    BY <1>2, <1>6, <1>7, <1>10 DEF Chains
  <2>4. QED
    BY <2>2, <2>3 DEF Chains, At
<1>15. Visits(home, pos)'
  <2>1. \A u \in Threads : u # t /\ op[u].pc = "visit" => op[u].src \notin {src}
    BY <1>5 DEF Holds
  <2>2. QED
    BY <1>2, <1>6, <1>7, <1>10, <1>12, <2>1, VisitsElsewhere DEF IInv
<1>16. Types(home)'
  <2>1. \A k \in Deletable, r \in Regions : Carried(home, k, r)' <=> Carried(home, k, r)
    BY <1>2, <1>6, <1>7 DEF Carried
  <2>2. QED
    BY <1>2, <1>10, <2>1 DEF Types
<1>17. Homes(home, pos)' /\ Traces(home)'
  BY <1>2, <1>10 DEF Homes, Traces, At
<1>18. Placed(home, pos)'
  BY <1>14, <1>15, <1>16, <1>17 DEF Placed
<1>19. QED
  BY <1>2, <1>8, <1>9, <1>18 DEF IInv
LEMMA MergeTakeStep ==
  ASSUME ListsAssumption, IInv, NEW t \in Threads, NEW m \in Merges, MergeTake(t, m[1], m[2])
  PROVE  IInv'
<1> DEFINE src == m[1]
           dst == m[2]
           what == [Idle EXCEPT !.pc = "merge", !.src = src, !.dst = dst]
<1>1. PICK home, pos : Placed(home, pos)
  BY DEF IInv
<1>2. /\ src \in Lists /\ dst \in Lists /\ <<src, dst>> \in Merges
      /\ src \in Places /\ t \in Places /\ src # t
  BY DEF ListsAssumption, Places
<1>3. /\ op[t] = Idle /\ Free(src) /\ list[src].head # Nobody
      /\ list' = [list EXCEPT ![t] = list[src], ![src] = Empty] /\ Begin(t, what)
      /\ UNCHANGED <<next, prev, type, traced, active, mutex, holder, unvisited, fatal>>
  BY DEF MergeTake, CanStart
<1>4. what \in Operations
  BY <1>2 DEF Operations, Idle
<1>5. what.pc = "merge" /\ what.src = src /\ what.dst = dst
  BY DEF Idle
<1> HIDE DEF src, dst, what
<1>6. op[t].pc = "idle"
  BY <1>3 DEF Idle
<1>7. /\ op'[t] = what /\ \A u \in Threads : u # t => op'[u] = op[u]
      /\ op' \in [Threads -> Operations]
  BY <1>3, <1>4, BeginOp DEF IInv
<1>8. Cleared(src) /\ Cleared(t) /\ \A u \in Threads : Holds(u) => op[u].src # src
  BY <1>2, <1>3, FreeList, ThreadCleared DEF IInv
<1>9. /\ Homes(home, pos) /\ Chains(home, pos) /\ Visits(home, pos)
      /\ Types(home) /\ Traces(home) /\ home \in [Regions -> Places \cup {Nobody}]
  BY <1>1 DEF Placed, Homes
<1>10. At(home, t) = {}
  BY <1>6, <1>9 DEF Chains
<1>11. PICK home2 : home2 = [r \in Regions |-> IF home[r] = src THEN t ELSE home[r]]
  OBVIOUS
<1>12. /\ At(home2, t) = At(home, src) /\ At(home2, src) = {}
       /\ \A k \in Places : k # src /\ k # t => At(home2, k) = At(home, k)
  BY <1>2, <1>10, <1>11 DEF At
<1>13. list'[t] = list[src] /\ list'[src] = Empty /\ list \in [Places ->
          [head : Regions \cup {Nobody}, tail : Regions \cup {Nobody},
           regions : 0 .. Cardinality(Regions), units : Nat]]
  BY <1>2, <1>3 DEF IInv, TypeOK, Places
<1>14. Control'
  BY <1>2, <1>3, <1>5, <1>7 DEF IInv, Control, MovesTo
<1>15. TypeOK'
  <2>1. \A k \in Lists, u \in Threads :
           mutex'[k] = u <=> op'[u].pc \in {"assign", "clear", "visit"} /\ op'[u].src = k
    BY <1>3, <1>5, <1>6, <1>7 DEF IInv, TypeOK
  <2>2. Empty \in [head : Regions \cup {Nobody}, tail : Regions \cup {Nobody},
                   regions : 0 .. Cardinality(Regions), units : Nat]
    <3>1. Cardinality(Regions) \in Nat
      BY FS_CardinalityType DEF ListsAssumption
    <3>2. QED
      BY <3>1 DEF Empty
  <2>3. list' \in [Places -> [head : Regions \cup {Nobody}, tail : Regions \cup {Nobody},
                              regions : 0 .. Cardinality(Regions), units : Nat]]
    BY <1>2, <1>3, <1>13, <2>2
  <2>4. QED
    BY <1>3, <2>1, <2>3 DEF IInv, TypeOK, Places
<1>16. Homes(home2, pos)'
  <2>1. home2 \in [Regions -> Places \cup {Nobody}]
    BY <1>2, <1>9, <1>11
  <2>2. \A r \in Regions : home2[r] = Nobody <=> home[r] = Nobody
    BY <1>2, <1>11 DEF ListsAssumption
  <2>3. QED
    BY <1>3, <1>9, <2>1, <2>2 DEF Homes
<1>17. Elsewhere(home, pos, home2, pos, {src, t})
  BY <1>3, <1>12, <1>13 DEF Elsewhere
<1>18. Chain(home2, pos, t)'
  <2>1. /\ Order(At(home, src), list[src].head, list[src].tail, next, prev, pos)
        /\ Counted(At(home, src), list[src])
    BY <1>2, <1>8, <1>9 DEF Chains, Chain
  <2>2. /\ Order(At(home2, t), list'[t].head, list'[t].tail, next', prev', pos)
        /\ Counted(At(home2, t), list'[t])
    BY <1>3, <1>12, <1>13, <2>1
  <2>3. QED
    BY <2>2 DEF Chain, At
<1>19. Chain(home2, pos, src)'
  BY <1>12, <1>13, EmptyChain DEF src
<1>20. At(home, src) # {}
  BY <1>2, <1>3, <1>8, <1>9 DEF Chains, Chain, Order
<1>21. Chains(home2, pos)'
  <2>1. \A k \in Places : Cleared(k)' <=> Cleared(k)
    BY <1>5, <1>6, <1>7 DEF Cleared
  <2>2. Cleared(src)' /\ Cleared(t)'
    BY <1>2, <1>8, <2>1 DEF src
  <2>3. /\ \A k \in Places : Cleared(k)' => Chain(home2, pos, k)'
        /\ \A k \in Places : ~Cleared(k)' => At(home2, k) = {}
    <3>1. \A k \in Places : k \in {src, t} =>
             (Cleared(k)' => Chain(home2, pos, k)') /\ (~Cleared(k)' => At(home2, k) = {})
      BY <1>18, <1>19, <2>2 DEF src
    <3>2. QED
      BY <1>9, <1>17, <2>1, <3>1, ChainsElsewhere
  <2>4. \A u \in Threads : op'[u].pc = "merge" <=> At(home2, u) # {}
    <3>1. \A u \in Threads : u # src /\ u \in Places
      BY <1>2 DEF ListsAssumption, Places
    <3>2. QED
      BY <1>5, <1>7, <1>9, <1>12, <1>20, <3>1 DEF Chains
  <2>5. \A u \in Threads : op'[u].pc = "assign" => At(home2, op'[u].dst) = {}
    <3> SUFFICES ASSUME NEW u \in Threads, op'[u].pc = "assign"
                 PROVE  At(home2, op'[u].dst) = {}
      OBVIOUS
    <3>1. u # t /\ op'[u] = op[u] /\ op[u].pc = "assign"
      BY <1>5, <1>7
    <3>2. op[u].dst \in Lists /\ At(home, op[u].dst) = {} /\ op[u].dst # t
      BY <1>9, <3>1, MoveArguments DEF IInv, MovesTo, Chains, ListsAssumption
    <3>3. QED
      BY <1>12, <3>1, <3>2 DEF Places
  <2>6. QED
    BY <2>3, <2>4, <2>5 DEF Chains, At
<1>22. Visits(home2, pos)'
  <2>1. \A u \in Threads : u # t /\ op[u].pc = "visit" => op[u].src \notin {src, t}
    BY <1>8 DEF Holds, IInv, Control, ListsAssumption
  <2>2. QED
    BY <1>3, <1>5, <1>7, <1>9, <1>17, <2>1, VisitsElsewhere DEF IInv
<1>23. Types(home2)'
  <2> SUFFICES ASSUME NEW k \in Deletable, NEW r \in Regions
               PROVE  type'[r] = k <=> home2[r] = k \/ Carried(home2, k, r)'
    BY DEF Types
  <2>1. k # t /\ t \in Threads
    BY DEF ListsAssumption
  <2>2. type[r] = k <=> home[r] = k \/ Carried(home, k, r)
    BY <1>9 DEF Types
  <2>3. CASE home[r] = src
    <3>1. home2[r] = t /\ ~Carried(home, k, r)
      BY <1>2, <1>11, <2>3 DEF Carried, ListsAssumption
    <3>2. Carried(home2, k, r)' <=> src = k
      BY <1>5, <1>7, <3>1 DEF Carried
    <3>3. QED
      BY <1>3, <2>1, <2>2, <2>3, <3>1, <3>2
  <2>4. CASE home[r] # src
    <3>1. home2[r] = home[r] /\ home[r] # t
      BY <1>10, <1>11, <2>4 DEF At
    <3>2. Carried(home2, k, r)' <=> Carried(home, k, r)
      BY <1>7, <3>1 DEF Carried
    <3>3. QED
      BY <1>3, <2>2, <3>1, <3>2
  <2>5. QED
    BY <2>3, <2>4
<1>24. Traces(home2)'
  <2>1. \A k \in Caches : At(home2, k) \subseteq At(home, k)
    BY <1>12 DEF ListsAssumption, Places
  <2>2. QED
    BY <1>3, <1>9, <2>1 DEF Traces, At
<1>25. Placed(home2, pos)'
  BY <1>16, <1>21, <1>22, <1>23, <1>24 DEF Placed
<1>26. QED
  BY <1>3, <1>14, <1>15, <1>25 DEF IInv

LEMMA MergeSpliceStep ==
  ASSUME ListsAssumption, IInv, NEW t \in Threads, MergeSplice(t)
  PROVE  IInv'
<1>a. PICK dst : dst = op[t].dst
  OBVIOUS
<1> DEFINE hB == list[dst].head
           tA == list[t].tail
<1>1. PICK home, pos : Placed(home, pos)
  BY DEF IInv
<1>2. /\ op[t].pc = "merge" /\ Free(dst) /\ Begin(t, Idle)
      /\ Retype(Members(t), dst)
      /\ list' = [list EXCEPT ![t] = Empty, ![dst] =
            [head |-> list[t].head, tail |-> IF hB = Nobody THEN tA ELSE list[dst].tail,
             regions |-> list[dst].regions + list[t].regions,
             units |-> list[dst].units + list[t].units]]
      /\ next' = [r \in Regions |-> IF r = tA /\ hB # Nobody THEN hB ELSE next[r]]
      /\ prev' = [r \in Regions |-> IF r = hB THEN tA ELSE prev[r]]
      /\ UNCHANGED <<traced, active, mutex, holder, unvisited, fatal>>
  BY <1>a DEF MergeSplice
<1>3. /\ dst \in Lists /\ dst \notin Spaces \cup Caches /\ dst \in Places
      /\ t \in Places /\ dst # t /\ Nobody \notin Regions \cup Places
  BY <1>2, <1>a, MergeArguments DEF IInv, Places, ListsAssumption
<1>4. Cleared(dst) /\ Cleared(t) /\ \A u \in Threads : Holds(u) => op[u].src # dst
  BY <1>2, <1>3, FreeList, ThreadCleared DEF IInv
<1>5. /\ Homes(home, pos) /\ Chains(home, pos) /\ Visits(home, pos)
      /\ Types(home) /\ Traces(home) /\ home \in [Regions -> Places \cup {Nobody}]
      /\ pos \in Positions /\ next \in Links /\ prev \in Links
  BY <1>1 DEF Placed, Homes, IInv, TypeOK, Links
<1>6. PICK X : X = At(home, t)
  OBVIOUS
<1>7. PICK Y : Y = At(home, dst)
  OBVIOUS
<1>8. /\ X \in SUBSET Regions /\ Y \in SUBSET Regions /\ X \cap Y = {} /\ X # {}
      /\ Order(X, list[t].head, tA, next, prev, pos) /\ Counted(X, list[t])
      /\ Order(Y, hB, list[dst].tail, next, prev, pos) /\ Counted(Y, list[dst])
      /\ Members(t) = X
  <2>1. Chain(home, pos, t) /\ Chain(home, pos, dst) /\ At(home, t) # {}
    BY <1>2, <1>3, <1>4, <1>5 DEF Chains
  <2>2. Members(t) = At(home, t)
    BY <1>3, <1>4, <1>5, MembersAtHome
  <2>3. X \in SUBSET Regions /\ Y \in SUBSET Regions /\ X \cap Y = {}
    BY <1>3, <1>6, <1>7 DEF At
  <2>4. QED
    BY <1>6, <1>7, <2>1, <2>2, <2>3 DEF Chain
<1>9. tA \in X /\ hB \in Y \cup {Nobody}
  BY <1>8 DEF Order
<1>10. PICK home2 : home2 = [r \in Regions |-> IF home[r] = t THEN dst ELSE home[r]]
  OBVIOUS
<1>11. PICK pos2 : pos2 = [r \in Regions |->
          IF r \in X /\ hB # Nobody THEN pos[r] - pos[tA] + pos[hB] - 1 ELSE pos[r]]
  OBVIOUS
<1>12. /\ At(home2, dst) = X \cup Y /\ At(home2, t) = {}
       /\ \A k \in Places : k # dst /\ k # t => At(home2, k) = At(home, k)
  BY <1>3, <1>6, <1>7, <1>10 DEF At
<1>13. /\ list \in [Places -> [head : Regions \cup {Nobody}, tail : Regions \cup {Nobody},
                               regions : 0 .. Cardinality(Regions), units : Nat]]
       /\ list'[t] = Empty
       /\ list'[dst] =
            [head |-> list[t].head, tail |-> IF hB = Nobody THEN tA ELSE list[dst].tail,
             regions |-> list[dst].regions + list[t].regions,
             units |-> list[dst].units + list[t].units]
       /\ \A k \in Places : k # dst /\ k # t => list'[k] = list[k]
  BY <1>2, <1>3 DEF IInv, TypeOK, Places
<1>14. /\ op'[t] = Idle /\ op'[t].pc = "idle" /\ \A u \in Threads : u # t => op'[u] = op[u]
       /\ op' \in [Threads -> Operations]
  BY <1>2, BeginOp, IdleOperation DEF IInv, Idle
<1>15. \A r \in Regions : type'[r] = IF r \in X THEN dst ELSE type[r]
  BY <1>2, <1>8 DEF Retype
<1>16. Control'
  BY <1>2, <1>14 DEF IInv, Control, MovesTo
<1>17. Homes(home2, pos2)'
  <2>1. home2 \in [Regions -> Places \cup {Nobody}]
    BY <1>3, <1>5, <1>10
  <2>2. \A r \in Regions : home2[r] = Nobody <=> home[r] = Nobody
    BY <1>3, <1>10
  <2>3. pos2 \in Positions
    BY <1>5, <1>8, <1>9, <1>11 DEF Positions
  <2>4. QED
    BY <1>2, <1>5, <2>1, <2>2, <2>3 DEF Homes
<1>18. Elsewhere(home, pos, home2, pos2, {dst, t})
  <2> SUFFICES ASSUME NEW k \in Places, k # dst, k # t
               PROVE  \A x \in At(home, k) :
                         next'[x] = next[x] /\ prev'[x] = prev[x] /\ pos2[x] = pos[x]
    BY <1>12, <1>13 DEF Elsewhere
  <2>1. \A x \in At(home, k) : x \in Regions /\ x \notin X /\ x \notin Y
    BY <1>6, <1>7 DEF At
  <2>2. \A x \in At(home, k) : x # tA /\ x # hB
    BY <1>3, <1>9, <2>1
  <2>3. QED
    BY <1>2, <1>11, <2>1, <2>2
<1>19. Chain(home2, pos2, dst)'
  <2>1. Splicing(X, tA, hB, list[dst].tail, next, prev, pos,
                 list'[dst].tail, next', prev', pos2)
    <3>1. list'[dst].tail = IF hB = Nobody THEN tA ELSE list[dst].tail
      BY <1>13
    <3>2. QED
      BY <1>2, <1>11, <3>1 DEF Splicing
  <2>2. Order(X \cup Y, list[t].head, list'[dst].tail, next', prev', pos2)
    <3> HIDE DEF tA, hB
    <3>1. QED
      BY <1>3, <1>5, <1>8, <2>1, OrderSplice
  <2>3. Counted(X \cup Y, list'[dst])
    <3>1. /\ Cardinality(X \cup Y) = Cardinality(X) + Cardinality(Y)
          /\ Cardinality(UnitsOf(X \cup Y)) = Cardinality(UnitsOf(X)) + Cardinality(UnitsOf(Y))
      BY <1>8, CountUnion
    <3>2. /\ list[t].regions \in Int /\ list[dst].regions \in Int
          /\ list[t].units \in Int /\ list[dst].units \in Int
      <4>1. /\ list[t].regions \in 0 .. Cardinality(Regions) /\ list[t].units \in Nat
            /\ list[dst].regions \in 0 .. Cardinality(Regions) /\ list[dst].units \in Nat
        BY <1>3, <1>13
      <4>2. QED
        BY <4>1
    <3>3. QED
      BY <1>8, <1>13, <3>1, <3>2 DEF Counted
  <2>4. list'[dst].head = list[t].head
    BY <1>13
  <2>5. /\ Order(At(home2, dst), list'[dst].head, list'[dst].tail, next', prev', pos2)
        /\ Counted(At(home2, dst), list'[dst])
    BY <1>12, <2>2, <2>3, <2>4
  <2>6. QED
    BY <2>5 DEF Chain, At
<1>20. Chain(home2, pos2, t)'
  BY <1>12, <1>13, EmptyChain
<1>21. Chains(home2, pos2)'
  <2>1. \A k \in Places : Cleared(k)' <=> Cleared(k)
    BY <1>2, <1>14 DEF Cleared
  <2>2. Cleared(dst)' /\ Cleared(t)'
    BY <1>3, <1>4, <2>1
  <2>3. /\ \A k \in Places : Cleared(k)' => Chain(home2, pos2, k)'
        /\ \A k \in Places : ~Cleared(k)' => At(home2, k) = {}
    <3>1. \A k \in Places : k \in {dst, t} =>
             (Cleared(k)' => Chain(home2, pos2, k)') /\ (~Cleared(k)' => At(home2, k) = {})
      BY <1>19, <1>20, <2>2
    <3>2. QED
      BY <1>5, <1>18, <2>1, <3>1, ChainsElsewhere
  <2>4. \A u \in Threads : op'[u].pc = "merge" <=> At(home2, u) # {}
    <3>1. \A u \in Threads : u # dst /\ u \in Places
      BY <1>3 DEF ListsAssumption, Places
    <3>2. QED
      BY <1>5, <1>12, <1>14, <3>1 DEF Chains
  <2>5. \A u \in Threads : op'[u].pc = "assign" => At(home2, op'[u].dst) = {}
    <3> SUFFICES ASSUME NEW u \in Threads, op'[u].pc = "assign"
                 PROVE  At(home2, op'[u].dst) = {}
      OBVIOUS
    <3>1. u # t /\ op'[u] = op[u] /\ op[u].pc = "assign"
      BY <1>14
    <3>2. /\ op[u].dst \in Lists /\ op[u].dst \in Spaces /\ At(home, op[u].dst) = {}
          /\ op[u].dst # t
      BY <1>5, <3>1, MoveArguments DEF IInv, MovesTo, Chains, ListsAssumption
    <3>3. QED
      BY <1>3, <1>12, <3>1, <3>2 DEF Places
  <2>6. QED
    BY <2>3, <2>4, <2>5 DEF Chains, At
<1>22. Visits(home2, pos2)'
  <2>1. \A u \in Threads : u # t /\ op[u].pc = "visit" => op[u].src \notin {dst, t}
    BY <1>4 DEF Holds, IInv, Control, ListsAssumption
  <2>2. QED
    BY <1>2, <1>5, <1>14, <1>18, <2>1, VisitsElsewhere DEF IInv
<1>23. Types(home2)'
  <2> SUFFICES ASSUME NEW k \in Deletable, NEW r \in Regions
               PROVE  type'[r] = k <=> home2[r] = k \/ Carried(home2, k, r)'
    BY DEF Types
  <2>1. type[r] = k <=> home[r] = k \/ Carried(home, k, r)
    BY <1>5 DEF Types
  <2>2. CASE r \in X
    <3>1. home2[r] = dst /\ type'[r] = dst
      BY <1>6, <1>10, <1>15, <2>2 DEF At
    <3>2. ~Carried(home2, k, r)'
      BY <1>3, <3>1 DEF Carried, ListsAssumption
    <3>3. QED
      BY <3>1, <3>2
  <2>3. CASE r \notin X
    <3>1. home2[r] = home[r] /\ home[r] # t /\ type'[r] = type[r]
      BY <1>6, <1>10, <1>15, <2>3 DEF At
    <3>2. Carried(home2, k, r)' <=> Carried(home, k, r)
      BY <1>14, <3>1 DEF Carried
    <3>3. QED
      BY <2>1, <3>1, <3>2
  <2>4. QED
    BY <2>2, <2>3
<1>24. Traces(home2)'
  <2>1. \A k \in Caches : At(home2, k) \subseteq At(home, k)
    BY <1>3, <1>12 DEF ListsAssumption, Places
  <2>2. QED
    BY <1>2, <1>5, <2>1 DEF Traces, At
<1>25. TypeOK'
  <2>1. \A k \in Lists, u \in Threads :
           mutex'[k] = u <=> op'[u].pc \in {"assign", "clear", "visit"} /\ op'[u].src = k
    BY <1>2, <1>14 DEF IInv, TypeOK
  <2>2. /\ list'[t] \in [head : Regions \cup {Nobody}, tail : Regions \cup {Nobody},
                         regions : 0 .. Cardinality(Regions), units : Nat]
    <3>1. Cardinality(Regions) \in Nat
      BY FS_CardinalityType DEF ListsAssumption
    <3>2. QED
      BY <1>13, <3>1 DEF Empty
  <2>3. list'[dst] \in [head : Regions \cup {Nobody}, tail : Regions \cup {Nobody},
                        regions : 0 .. Cardinality(Regions), units : Nat]
    <3>1. Counted(At(home2, dst), list'[dst]) /\ At(home2, dst) \in SUBSET Regions
      BY <1>19 DEF Chain, At
    <3>2. list'[dst].regions \in 0 .. Cardinality(Regions) /\ list'[dst].units \in Nat
      BY <3>1, CountedType
    <3>3. /\ list[t].head \in Regions \cup {Nobody} /\ tA \in Regions \cup {Nobody}
          /\ list[dst].tail \in Regions \cup {Nobody}
      BY <1>3, <1>13
    <3>4. QED
      BY <1>13, <3>2, <3>3
  <2>4. list' \in [Places -> [head : Regions \cup {Nobody}, tail : Regions \cup {Nobody},
                              regions : 0 .. Cardinality(Regions), units : Nat]]
    BY <1>2, <1>3, <1>13, <2>2, <2>3
  <2>5. next' \in Links /\ prev' \in Links
    BY <1>2, <1>5, <1>8, <1>9 DEF Links
  <2>6. type' \in [Regions -> Lists \cup {Nobody}]
    BY <1>2, <1>3 DEF Retype, IInv, TypeOK
  <2>7. QED
    BY <1>2, <2>1, <2>4, <2>5, <2>6 DEF IInv, TypeOK, Places, Links
<1>26. Placed(home2, pos2)'
  BY <1>17, <1>21, <1>22, <1>23, <1>24 DEF Placed
<1>27. QED
  BY <1>2, <1>16, <1>25, <1>26 DEF IInv
-----------------------------------------------------------------------------
(* The theorems *)

LEMMA InitIInv == ASSUME ListsAssumption, Init PROVE IInv
<1>1. PICK home : home = [r \in Regions |-> Nobody]
  OBVIOUS
<1>2. PICK pos : pos = [r \in Regions |-> 0]
  OBVIOUS
<1>3. Nobody \notin Regions \cup Places
  BY DEF ListsAssumption, Places
<1>4. /\ \A l \in Places : At(home, l) = {} /\ list[l] = Empty
      /\ \A t \in Threads : t \in Places /\ op[t] = Idle
  BY <1>1, <1>3 DEF At, Init, Places
<1>5. \A t \in Threads : op[t].pc = "idle"
  BY <1>4 DEF Idle
<1>6. TypeOK
  <2>1. Cardinality(Regions) \in Nat
    BY FS_CardinalityType DEF ListsAssumption
  <2>2. list \in [Places -> [head : Regions \cup {Nobody}, tail : Regions \cup {Nobody},
                             regions : 0 .. Cardinality(Regions), units : Nat]]
    BY <2>1 DEF Init, Empty, Places
  <2>3. \A l \in Lists, t \in Threads :
           mutex[l] = t <=> op[t].pc \in {"assign", "clear", "visit"} /\ op[t].src = l
    BY <1>5 DEF Init, ListsAssumption
  <2>4. QED
    BY <2>2, <2>3 DEF Init, TypeOK, Places
<1>7. Control
  BY <1>5, IdleOperation DEF Control, Init, MovesTo
<1>8. Homes(home, pos)
  BY <1>1, <1>2 DEF Homes, Positions, Init, ListsAssumption
<1>9. Chains(home, pos)
  <2>1. ASSUME NEW l \in Places PROVE Chain(home, pos, l)
    <3>1. Order({}, Nobody, Nobody, next, prev, pos)
      BY DEF Order
    <3>2. Cardinality({}) = 0 /\ UnitsOf({}) = {}
      BY FS_EmptySet DEF UnitsOf
    <3>3. /\ Order(At(home, l), list[l].head, list[l].tail, next, prev, pos)
          /\ Counted(At(home, l), list[l])
      <4>1. At(home, l) = {} /\ list[l] = Empty
        BY <1>4
      <4>2. /\ Empty.head = Nobody /\ Empty.tail = Nobody
            /\ Empty.regions = 0 /\ Empty.units = 0
        BY DEF Empty
      <4>3. QED
        BY <3>1, <3>2, <4>1, <4>2 DEF Counted
    <3>4. QED
      BY <3>3 DEF Chain
  <2>2. \A l \in Places : At(home, l) = {}
    BY <1>4
  <2>3. QED
    BY <1>4, <1>5, <2>1, <2>2 DEF Chains
<1>10. Visits(home, pos)
  BY <1>5 DEF Visits
<1>11. Types(home)
  <2>1. \A l \in Deletable : l # Nobody
    BY DEF ListsAssumption
  <2>2. QED
    BY <1>1, <1>5, <2>1 DEF Types, Carried, Init
<1>12. Traces(home)
  BY DEF Traces, Init
<1>13. Placed(home, pos)
  BY <1>8, <1>9, <1>10, <1>11, <1>12 DEF Placed
<1>14. QED
  BY <1>6, <1>7, <1>13 DEF IInv, Init

LEMMA NextIInv == ASSUME ListsAssumption, IInv, [Next]_vars PROVE IInv'
<1>1. CASE UNCHANGED vars
  <2>1. PICK home, pos : Placed(home, pos)
    BY DEF IInv
  <2>2. /\ UNCHANGED <<list, next, prev, type, mutex, holder, op, unvisited, fatal>>
        /\ traced' = traced /\ active' = active
    BY <1>1 DEF vars
  <2>3. traced' \subseteq Regions /\ active' \subseteq Caches
    BY <2>2 DEF IInv, TypeOK
  <2>4. Traces(home)'
    BY <2>1, <2>2 DEF Placed, Traces, At
  <2>5. QED
    BY <2>1, <2>2, <2>3, <2>4, FlagStep
<1>2. CASE Next
  <2>1. PICK t \in Threads :
          \/ \E l \in Lists, r \in Regions : PrependRegion(t, l, r) \/ DeleteRegion(t, l, r)
          \/ \E l \in Lists : VisitStart(t, l) \/ ClearTraceRegionFlag(t, l)
          \/ \E l \in Lists, newType \in Lists \cup {Nobody} : TakeHeadRegion(t, l, newType)
          \/ \E l \in Deletable, r \in Regions : TryDeleteRegion(t, l, r)
          \/ \E l \in Caches : ActivateRegionCache(t, l) \/ DeactivateRegionCache(t, l)
          \/ \E l \in Caches, r \in Regions : TryPrependRegion(t, l, r)
          \/ \E r \in Regions : SetTraceRegionFlag(t, r)
          \/ \E m \in Merges : MergeTake(t, m[1], m[2])
          \/ \E m \in Moves : MoveLock(t, m[1], m[2])
          \/ MergeSplice(t) \/ AssignWith(t) \/ ClearList(t)
          \/ VisitNode(t) \/ VisitEnd(t)
    BY <1>2 DEF Next
  <2>2. \A l \in Caches : l \in Lists
    BY DEF ListsAssumption
  <2>3. ASSUME NEW l \in Lists, NEW r \in Regions, PrependRegion(t, l, r) PROVE IInv'
    BY <2>3, PrependStep
  <2>4. ASSUME NEW l \in Lists, NEW r \in Regions, DeleteRegion(t, l, r) PROVE IInv'
    BY <2>4, DeleteRegionStep
  <2>5. ASSUME NEW l \in Lists, VisitStart(t, l) PROVE IInv'
    BY <2>5, VisitStartStep
  <2>6. ASSUME NEW l \in Lists, ClearTraceRegionFlag(t, l) PROVE IInv'
    BY <2>6, ClearFlagsStep
  <2>7. ASSUME NEW l \in Lists, NEW newType \in Lists \cup {Nobody},
               TakeHeadRegion(t, l, newType)
        PROVE  IInv'
    BY <2>7, TakeHeadStep
  <2>8. ASSUME NEW l \in Deletable, NEW r \in Regions, TryDeleteRegion(t, l, r) PROVE IInv'
    BY <2>8, TryDeleteStep
  <2>9. ASSUME NEW l \in Caches, ActivateRegionCache(t, l) PROVE IInv'
    BY <2>9, ActivateStep
  <2>10. ASSUME NEW l \in Caches, DeactivateRegionCache(t, l) PROVE IInv'
    BY <2>2, <2>10, ClearFlagsStep
  <2>11. ASSUME NEW l \in Caches, NEW r \in Regions, TryPrependRegion(t, l, r) PROVE IInv'
    BY <2>2, <2>11, PrependStep
  <2>12. ASSUME NEW r \in Regions, SetTraceRegionFlag(t, r) PROVE IInv'
    BY <2>12, SetFlagStep
  <2>13. ASSUME NEW m \in Merges, MergeTake(t, m[1], m[2]) PROVE IInv'
    BY <2>13, MergeTakeStep
  <2>14. ASSUME NEW m \in Moves, MoveLock(t, m[1], m[2]) PROVE IInv'
    BY <2>14, MoveLockStep
  <2>15. CASE MergeSplice(t)
    BY <2>15, MergeSpliceStep
  <2>16. CASE AssignWith(t)
    BY <2>16, AssignStep
  <2>17. CASE ClearList(t)
    BY <2>17, ClearStep
  <2>18. CASE VisitNode(t)
    BY <2>18, VisitNodeStep
  <2>19. CASE VisitEnd(t)
    BY <2>19, VisitEndStep
  <2>20. QED
    BY <2>1, <2>3, <2>4, <2>5, <2>6, <2>7, <2>8, <2>9, <2>10, <2>11, <2>12, <2>13, <2>14,
       <2>15, <2>16, <2>17, <2>18, <2>19
<1>3. QED
  BY <1>1, <1>2

\* In every behaviour the regions have homes and places that their links,
\* counts, types and flags agree with.
THEOREM Invariant == Spec => []IInv
<1>1. Init => IInv
  BY InitIInv, ListsAssumption
<1>2. IInv /\ [Next]_vars => IInv'
  BY NextIInv, ListsAssumption
<1>3. QED
  BY <1>1, <1>2, PTL DEF Spec

\* No operation ends the process: the counts never run short, and no region is
\* deleted from a list it is not in, however threads race for the same regions
\* (RegionList.cj:356-470, the assertions and DecCounts).
THEOREM SpecNeverFatal == Spec => []NeverFatal
<1>1. IInv => NeverFatal
  BY DEF IInv, NeverFatal
<1>2. QED
  BY <1>1, Invariant, PTL
\* A visitor that deletes regions on its way sees all the list had when it took
\* the mutex: nobody else links a region in or out, and what it deletes is
\* behind it (VisitAllRegions, RegionList.cj:500-504).
THEOREM SpecVisitorSeesAll == Spec => []VisitorSeesAll
<1>1. ASSUME ListsAssumption, IInv, NEW t \in Threads, op[t].pc = "visit"
      PROVE  unvisited[t] = Reach(op[t].node)
  <2>1. PICK home, pos : Placed(home, pos)
    BY <1>1 DEF IInv
  <2>2. PICK l : l = op[t].src
    OBVIOUS
  <2>3. PICK node : node = op[t].node
    OBVIOUS
  <2>4. l \in Lists /\ l \in Places /\ Holds(t)
    BY <1>1, <2>2 DEF IInv, Control, Holds, Places
  <2>5. Cleared(l)
    BY <1>1, <2>2, <2>4, HeldList DEF IInv
  <2>6. PICK R : R = At(home, l)
    OBVIOUS
  <2>7. /\ Order(R, list[l].head, list[l].tail, next, prev, pos)
        /\ R \in SUBSET Regions /\ pos \in Positions
    BY <2>1, <2>4, <2>5, <2>6 DEF Placed, Homes, Chains, Chain, At
  <2>8. /\ node \in R \cup {Nobody}
        /\ unvisited[t] = {r \in R : node # Nobody /\ pos[node] <= pos[r]}
    BY <1>1, <2>1, <2>2, <2>3, <2>6 DEF Placed, Visits
  <2>9. CASE node = Nobody
    BY <2>3, <2>8, <2>9, ReachNobody
  <2>10. CASE node # Nobody
    <3>1. Reach(node) = {r \in R : pos[node] <= pos[r]}
      BY <1>1, <2>7, <2>8, <2>10, ReachedFrom
    <3>2. QED
      BY <2>3, <2>8, <2>10, <3>1
  <2>11. QED
    BY <2>9, <2>10
<1>2. IInv => VisitorSeesAll
  BY <1>1, ListsAssumption DEF VisitorSeesAll
<1>3. QED
  BY <1>2, Invariant, PTL

LEMMA IInvWellLinked == ASSUME ListsAssumption, IInv PROVE WellLinked
<1>1. PICK home, pos : Placed(home, pos)
  BY DEF IInv
<1> SUFFICES ASSUME NEW l \in Lists \cup Threads, Cleared(l)
             PROVE  /\ list[l].head = Nobody <=> list[l].tail = Nobody
                    /\ list[l].tail \in Members(l) \cup {Nobody}
                    /\ \A r \in Members(l) :
                          /\ prev[r] = Nobody <=> r = list[l].head
                          /\ next[r] = Nobody <=> r = list[l].tail
                          /\ prev[r] # Nobody => prev[r] \in Members(l) /\ next[prev[r]] = r
                          /\ next[r] # Nobody => prev[next[r]] = r
                    /\ list[l].regions = Cardinality(Members(l))
                    /\ list[l].units = Cardinality(UnitsOf(Members(l)))
  BY DEF WellLinked
<1>2. Members(l) = At(home, l) /\ Chain(home, pos, l)
  BY <1>1, MembersAtHome DEF Placed, Places, Chains
<1>3. PICK R : R = Members(l)
  OBVIOUS
<1>4. Order(R, list[l].head, list[l].tail, next, prev, pos) /\ Counted(R, list[l])
  BY <1>2, <1>3 DEF Chain
<1>5. /\ list[l].head = Nobody <=> list[l].tail = Nobody
      /\ list[l].tail \in R \cup {Nobody}
  BY <1>4 DEF Order
<1>6. \A r \in R :
         /\ prev[r] = Nobody <=> r = list[l].head
         /\ next[r] = Nobody <=> r = list[l].tail
         /\ prev[r] # Nobody => prev[r] \in R /\ next[prev[r]] = r
         /\ next[r] # Nobody => prev[next[r]] = r
  BY <1>4 DEF Order
<1>7. list[l].regions = Cardinality(R) /\ list[l].units = Cardinality(UnitsOf(R))
  BY <1>4 DEF Counted
<1>8. QED
  BY <1>3, <1>5, <1>6, <1>7

LEMMA IInvOneHome == ASSUME ListsAssumption, IInv PROVE OneHome
<1>1. PICK home, pos : Placed(home, pos)
  BY DEF IInv
<1> SUFFICES ASSUME NEW r \in Regions
             PROVE  Cardinality({l \in Lists \cup Threads : Cleared(l) /\ r \in Members(l)})
                       = IF holder[r] = Nobody THEN 1 ELSE 0
  BY DEF OneHome
<1>2. \A l \in Places : Cleared(l) /\ r \in Members(l) <=> home[r] = l
  <2> TAKE l \in Places
  <2>1. CASE Cleared(l)
    BY <1>1, <2>1, MembersAtHome DEF Placed, At
  <2>2. CASE ~Cleared(l)
    BY <1>1, <2>2 DEF Placed, Chains, At
  <2>3. QED
    BY <2>1, <2>2
<1>3. home[r] \in Places \cup {Nobody} /\ Nobody \notin Places
      /\ (home[r] = Nobody <=> holder[r] # Nobody)
  BY <1>1 DEF Placed, Homes, ListsAssumption, Places
<1>4. CASE holder[r] = Nobody
  <2>1. {l \in Lists \cup Threads : Cleared(l) /\ r \in Members(l)} = {home[r]}
    BY <1>2, <1>3, <1>4 DEF Places
  <2>2. Cardinality({home[r]}) = 1
    BY FS_Singleton
  <2>3. QED
    BY <1>4, <2>1, <2>2
<1>5. CASE holder[r] # Nobody
  <2>1. {l \in Lists \cup Threads : Cleared(l) /\ r \in Members(l)} = {}
    BY <1>2, <1>3, <1>5 DEF Places
  <2>2. QED
    BY <1>5, <2>1, FS_EmptySet
<1>6. QED
  BY <1>4, <1>5

LEMMA IInvTypeTellsList == ASSUME ListsAssumption, IInv PROVE TypeTellsList
<1>1. PICK home, pos : Placed(home, pos)
  BY DEF IInv
<1> SUFFICES ASSUME NEW l \in Deletable, NEW r \in Regions,
                    \A t \in Threads : op[t].pc = "merge" => op[t].src # l
             PROVE  type[r] = l <=> r \in Members(l)
  BY DEF TypeTellsList
<1>2. l \in Places /\ Cleared(l)
  <2>1. \A t \in Threads : op[t].pc = "clear" => op[t].src \notin Deletable
    BY MoveArguments DEF IInv, MovesTo
  <2>2. QED
    BY <2>1 DEF Cleared, ListsAssumption, Places
<1>3. Members(l) = At(home, l)
  BY <1>1, <1>2, MembersAtHome DEF Placed
<1>4. type[r] = l <=> home[r] = l
  BY <1>1 DEF Placed, Types, Carried
<1>5. QED
  BY <1>3, <1>4 DEF At

LEMMA IInvUntraced == ASSUME ListsAssumption, IInv PROVE InactiveCacheUntraced
<1>1. PICK home, pos : Placed(home, pos)
  BY DEF IInv
<1> SUFFICES ASSUME NEW l \in Caches \ active, Cleared(l) PROVE Members(l) \cap traced = {}
  BY DEF InactiveCacheUntraced
<1>2. Members(l) = At(home, l)
  BY <1>1, MembersAtHome DEF Placed, ListsAssumption, Places
<1>3. QED
  BY <1>1, <1>2 DEF Placed, Traces

\* The links of every list run both ways from its head to its tail and its
\* counts are exact, a region is in one list or with one thread, its type tells
\* TryDeleteRegion the list, and an inactive cache has no traced region
\* (RegionList.cj:356-670).
THEOREM SpecListsConsistent == Spec => []ListsConsistent
<1>1. IInv => ListsConsistent
  BY ListsAssumption, IInvWellLinked, IInvOneHome, IInvTypeTellsList, IInvUntraced
     DEF IInv, ListsConsistent
<1>2. QED
  BY <1>1, Invariant, PTL

-----------------------------------------------------------------------------
(* Walks *)

\* s are the regions a walk along nx meets from h on.
Path(s, nx, h) ==
    /\ s \in Seq(Regions)
    /\ s = <<>> <=> h = Nobody
    /\ s # <<>> => s[1] = h /\ nx[s[Len(s)]] = Nobody
    /\ \A i \in 1 .. Len(s) - 1 : nx[s[i]] = s[i + 1]

\* The recursive function behind Walk.
IsFrom(from, nx, N) ==
    from = [k \in 0 .. N |->
               [n \in Regions \cup {Nobody} |->
                   IF k = 0 \/ n = Nobody THEN <<>> ELSE <<n>> \o from[k - 1][nx[n]]]]
From(nx, N) == CHOOSE from : IsFrom(from, nx, N)
WalkOf(nx, h) == From(nx, Cardinality(Regions))[Cardinality(Regions)][h]

\* The recursion defines a function, for any bound: a least bound for which it
\* did not could take the function of the bound before.
LEMMA FromExists ==
  ASSUME NEW nx, NEW N \in Nat
  PROVE  IsFrom(From(nx, N), nx, N)
<1> SUFFICES \E f : IsFrom(f, nx, N)
  BY DEF From
<1> DEFINE B == {k \in Nat : ~ \E f : IsFrom(f, nx, k)}
<1> SUFFICES ASSUME B # {} PROVE FALSE
  BY DEF B
<1>1. PICK m \in B : \A k \in B : m <= k
  <2>1. B \in SUBSET Nat
    OBVIOUS
  <2> HIDE DEF B
  <2> QED BY <2>1, LeastNatural
<1>2. m \in Nat /\ ~ \E f : IsFrom(f, nx, m)
  OBVIOUS
<1>3. CASE m = 0
  <2> DEFINE f == [k \in 0 .. 0 |-> [n \in Regions \cup {Nobody} |-> <<>>]]
  <2>1. IsFrom(f, nx, 0)
    <3>1. \A k \in 0 .. 0 : k = 0
      OBVIOUS
    <3> QED BY <3>1 DEF IsFrom
  <2> QED BY <1>2, <1>3, <2>1
<1>4. CASE m # 0
  <2>1. m - 1 \in Nat /\ m - 1 \notin B
    BY <1>1, <1>2, <1>4
  <2>2. PICK f : IsFrom(f, nx, m - 1)
    BY <2>1
  <2> HIDE DEF B
  <2> DEFINE row(k) == [n \in Regions \cup {Nobody} |->
                          IF k = 0 \/ n = Nobody THEN <<>> ELSE <<n>> \o f[k - 1][nx[n]]]
             g == [k \in 0 .. m |-> row(k)]
  <2>3. f = [k \in 0 .. m - 1 |-> row(k)]
    BY <2>2 DEF IsFrom
  <2>4. \A k \in 1 .. m : g[k - 1] = f[k - 1]
    <3> TAKE k \in 1 .. m
    <3>1. k - 1 \in 0 .. m - 1 /\ k - 1 \in 0 .. m
      BY <1>2
    <3> HIDE DEF row
    <3>2. f[k - 1] = row(k - 1)
      BY <2>3, <3>1
    <3>3. g[k - 1] = row(k - 1)
      BY <3>1
    <3> QED BY <3>2, <3>3
  <2>5. \A k \in 0 .. m :
           row(k) = [n \in Regions \cup {Nobody} |->
                       IF k = 0 \/ n = Nobody THEN <<>> ELSE <<n>> \o g[k - 1][nx[n]]]
    <3> TAKE k \in 0 .. m
    <3>1. CASE k = 0
      BY <3>1
    <3>2. CASE k # 0
      <4>1. k \in 1 .. m
        BY <1>2, <3>2
      <4>2. g[k - 1] = f[k - 1]
        BY <2>4, <4>1
      <4> HIDE DEF g
      <4> QED BY <4>2
    <3> QED BY <3>1, <3>2
  <2>6. IsFrom(g, nx, m)
    <3>1. g = [k \in 0 .. m |-> row(k)]
      OBVIOUS
    <3> HIDE DEF g, row
    <3>2. [k \in 0 .. m |-> row(k)] = [k \in 0 .. m |-> [n \in Regions \cup {Nobody} |->
                       IF k = 0 \/ n = Nobody THEN <<>> ELSE <<n>> \o g[k - 1][nx[n]]]]
      BY <2>5
    <3> QED BY <3>1, <3>2 DEF IsFrom
  <2> QED BY <1>2, <2>6
<1> QED BY <1>3, <1>4

\* What is left of a path after its first region is a path.
LEMMA PathTail ==
  ASSUME NEW nx, NEW h, NEW s, Path(s, nx, h), h # Nobody
  PROVE  /\ Tail(s) \in Seq(Regions) /\ Len(Tail(s)) = Len(s) - 1 /\ Len(s) \in Nat \ {0}
         /\ h \in Regions /\ s = <<h>> \o Tail(s) /\ Path(Tail(s), nx, nx[h])
<1>1. /\ s \in Seq(Regions) /\ s # <<>> /\ s[1] = h /\ nx[s[Len(s)]] = Nobody
      /\ \A i \in 1 .. Len(s) - 1 : nx[s[i]] = s[i + 1]
  BY DEF Path
<1>2. /\ Tail(s) \in Seq(Regions) /\ Len(Tail(s)) = Len(s) - 1
      /\ \A i \in 1 .. Len(s) - 1 : Tail(s)[i] = s[i + 1]
      /\ Len(s) \in Nat \ {0} /\ Len(Tail(s)) \in Nat
  BY <1>1, HeadTailProperties, EmptySeq, LenProperties
<1>3. h \in Regions
  BY <1>1, <1>2, ElementOfSeq
<1>4. PICK u : u = Tail(s)
  OBVIOUS
<1>5. s = <<h>> \o u
  <2>1. <<h>> \in Seq(Regions) /\ Len(<<h>>) = 1 /\ <<h>>[1] = h
    BY <1>3
  <2>2. /\ <<h>> \o u \in Seq(Regions) /\ Len(<<h>> \o u) = Len(s)
        /\ \A i \in 1 .. 1 + Len(u) :
              (<<h>> \o u)[i] = IF i <= 1 THEN <<h>>[i] ELSE u[i - 1]
    BY <1>2, <1>4, <2>1, ConcatProperties
  <2>3. \A i \in 1 .. Len(s) : s[i] = (<<h>> \o u)[i]
    <3> TAKE i \in 1 .. Len(s)
    <3>1. i \in 1 .. 1 + Len(u)
      BY <1>2, <1>4
    <3>2. CASE i = 1
      BY <1>1, <2>1, <2>2, <3>1, <3>2
    <3>3. CASE i # 1
      <4>1. i - 1 \in 1 .. Len(s) - 1 /\ i - 1 + 1 = i /\ ~(i <= 1)
        BY <1>2, <3>3
      <4>2. u[i - 1] = s[i]
        BY <1>2, <1>4, <4>1
      <4> QED BY <2>2, <3>1, <4>1, <4>2
    <3> QED BY <3>2, <3>3
  <2> QED BY <1>1, <2>2, <2>3, SeqEqual
<1>6. Path(u, nx, nx[h])
  <2>1. CASE Len(s) = 1
    <3>1. Len(u) = 0 /\ u = <<>> /\ nx[h] = Nobody
      BY <1>1, <1>2, <1>4, <2>1, EmptySeq
    <3>2. \A i \in 1 .. Len(u) - 1 : FALSE
      BY <3>1
    <3> QED BY <1>2, <1>4, <3>1, <3>2 DEF Path
  <2>2. CASE Len(s) # 1
    <3>1. Len(u) \in Nat \ {0} /\ u # <<>> /\ 1 \in 1 .. Len(s) - 1 /\ 1 + 1 = 2
      BY <1>2, <1>4, <2>2, EmptySeq
    <3>2. nx[h] = s[2] /\ u[1] = s[2]
      BY <1>1, <1>2, <1>4, <3>1
    <3>3. s[2] \in Regions
      BY <1>1, <1>2, <3>1, ElementOfSeq
    <3>4. u[Len(u)] = s[Len(s)]
      BY <1>2, <1>4, <3>1
    <3>5. \A i \in 1 .. Len(u) - 1 : nx[u[i]] = u[i + 1]
      <4> TAKE i \in 1 .. Len(u) - 1
      <4>1. i \in 1 .. Len(s) - 1 /\ i + 1 \in 1 .. Len(s) - 1
        BY <1>2, <1>4
      <4> QED BY <1>1, <1>2, <1>4, <4>1
    <3>6. nx[h] # Nobody
      <4>1. h \in Regions /\ u[1] = nx[h] /\ Len(u) \in Nat
        BY <1>3, <3>1, <3>2
      <4> QED BY <3>2, <3>3, ListsAssumption DEF ListsAssumption
    <3> QED BY <1>1, <1>2, <1>4, <3>1, <3>2, <3>4, <3>5, <3>6 DEF Path
  <2> QED BY <2>1, <2>2
<1> QED BY <1>2, <1>3, <1>4, <1>5, <1>6

\* The recursion finds a path that is no longer than its bound.
LEMMA FromIsPath ==
  ASSUME NEW nx, NEW N \in Nat, NEW k \in 0 .. N,
         NEW s, NEW h \in Regions \cup {Nobody}, Path(s, nx, h), Len(s) <= k
  PROVE  From(nx, N)[k][h] = s
<1> DEFINE f == From(nx, N)
           B == {j \in 0 .. N : \E u, g : g \in Regions \cup {Nobody} /\ Path(u, nx, g)
                                          /\ Len(u) <= j /\ f[j][g] # u}
<1> SUFFICES ASSUME B # {} PROVE FALSE
  OBVIOUS
<1>1. PICK m \in B : \A j \in B : m <= j
  <2>1. B \in SUBSET Nat
    OBVIOUS
  <2> HIDE DEF B
  <2> QED BY <2>1, LeastNatural
<1>2. PICK u, g : m \in 0 .. N /\ g \in Regions \cup {Nobody} /\ Path(u, nx, g)
                  /\ Len(u) <= m /\ f[m][g] # u
  OBVIOUS
<1>3. m - 1 \in 0 .. N => m - 1 \notin B
  <2> HIDE DEF B
  <2> QED BY <1>1, <1>2
<1> HIDE DEF f
<1>4. f[m][g] = IF m = 0 \/ g = Nobody THEN <<>> ELSE <<g>> \o f[m - 1][nx[g]]
  <2>1. f = [j \in 0 .. N |-> [n \in Regions \cup {Nobody} |->
                   IF j = 0 \/ n = Nobody THEN <<>> ELSE <<n>> \o f[j - 1][nx[n]]]]
    BY FromExists DEF IsFrom, f
  <2>2. f[m] = [n \in Regions \cup {Nobody} |->
                   IF m = 0 \/ n = Nobody THEN <<>> ELSE <<n>> \o f[m - 1][nx[n]]]
    BY <1>2, <2>1
  <2> QED BY <1>2, <2>2
<1>5. CASE g = Nobody
  BY <1>2, <1>4, <1>5 DEF Path
<1>6. CASE g # Nobody
  <2>1. /\ Len(Tail(u)) = Len(u) - 1 /\ Len(u) \in Nat \ {0}
        /\ u = <<g>> \o Tail(u) /\ Path(Tail(u), nx, nx[g])
    BY <1>2, <1>6, PathTail
  <2>2. m # 0 /\ m - 1 \in 0 .. N /\ Len(Tail(u)) <= m - 1
    BY <1>2, <2>1
  <2>3. nx[g] \in Regions \cup {Nobody}
    <3>1. Tail(u) # <<>> => Tail(u)[1] = nx[g] /\ Tail(u) \in Seq(Regions)
      BY <2>1 DEF Path
    <3>2. Tail(u) # <<>> => Tail(u)[1] \in Regions
      BY <3>1, EmptySeq, ElementOfSeq
    <3> QED BY <2>1, <3>1, <3>2 DEF Path
  <2>4. f[m - 1][nx[g]] = Tail(u)
    BY <1>3, <2>1, <2>2, <2>3
  <2> QED BY <1>2, <1>4, <1>6, <2>1, <2>2, <2>4
<1> QED BY <1>5, <1>6

\* A path meets no region twice: from there on it would never end.
LEMMA PathInjective ==
  ASSUME NEW nx, NEW h, NEW s, Path(s, nx, h)
  PROVE  \A i, j \in 1 .. Len(s) : s[i] = s[j] => i = j
<1> DEFINE B == {d \in Nat : \E i, j \in 1 .. Len(s) : i < j /\ s[i] = s[j] /\ d = Len(s) - j}
<1>1. /\ s \in Seq(Regions) /\ Len(s) \in Nat
      /\ s # <<>> => nx[s[Len(s)]] = Nobody
      /\ \A i \in 1 .. Len(s) - 1 : nx[s[i]] = s[i + 1]
  BY LenProperties DEF Path
<1> SUFFICES ASSUME B # {} PROVE FALSE
  <2> SUFFICES ASSUME NEW i \in 1 .. Len(s), NEW j \in 1 .. Len(s), s[i] = s[j], i < j
               PROVE  FALSE
    <3> HIDE DEF B
    <3>1. \A i, j \in 1 .. Len(s) : i < j \/ j < i \/ i = j
      BY <1>1
    <3> QED BY <3>1
  <2>1. Len(s) - j \in B
    BY <1>1
  <2> QED BY <2>1
<1>2. PICK m \in B : \A d \in B : m <= d
  <2>1. B \in SUBSET Nat
    OBVIOUS
  <2> HIDE DEF B
  <2> QED BY <2>1, LeastNatural
<1>3. PICK i \in 1 .. Len(s), j \in 1 .. Len(s) : i < j /\ s[i] = s[j] /\ m = Len(s) - j
  OBVIOUS
<1>4. i \in 1 .. Len(s) - 1 /\ i + 1 \in 1 .. Len(s)
  BY <1>1, <1>3
<1>5. CASE j = Len(s)
  <2>1. s # <<>>
    <3>1. Len(s) # 0
      BY <1>1, <1>3
    <3> QED BY <3>1, EmptySeq
  <2>2. s[i + 1] = Nobody
    BY <1>1, <1>3, <1>4, <1>5, <2>1
  <2>3. s[i + 1] \in Regions
    BY <1>1, <1>4, ElementOfSeq
  <2> QED BY <2>2, <2>3, ListsAssumption DEF ListsAssumption
<1>6. CASE j # Len(s)
  <2>1. j \in 1 .. Len(s) - 1 /\ j + 1 \in 1 .. Len(s) /\ i + 1 < j + 1
    BY <1>1, <1>3, <1>6
  <2>2. s[i + 1] = s[j + 1]
    BY <1>1, <1>3, <1>4, <2>1
  <2>3. PICK d : d = Len(s) - (j + 1)
    OBVIOUS
  <2>4. d \in Nat /\ d < m /\ m \in Nat
    BY <1>1, <1>3, <2>1, <2>3
  <2>5. d \in B
    BY <1>4, <2>1, <2>2, <2>3, <2>4
  <2> HIDE DEF B
  <2> QED BY <1>2, <2>4, <2>5
<1> QED BY <1>5, <1>6

\* So Walk's bound is never reached before the end, and Walk finds the path.
LEMMA WalkIsPath ==
  ASSUME NEW nx, NEW h, NEW s, Path(s, nx, h)
  PROVE  WalkOf(nx, h) = s
<1>1. s \in Seq(Regions) /\ Len(s) \in Nat /\ DOMAIN s = 1 .. Len(s) /\ s \in [1 .. Len(s) -> Regions]
  BY LenProperties DEF Path
<1>2. s \in Injection(1 .. Len(s), Regions)
  BY <1>1, PathInjective DEF Injection, IsInjective
<1>3. IsFiniteSet(Regions) /\ Cardinality(Regions) \in Nat
  BY ListsAssumption, FS_CardinalityType DEF ListsAssumption
<1>4. Cardinality(1 .. Len(s)) <= Cardinality(Regions)
  BY <1>2, <1>3, FS_Injection
<1>5. Cardinality(1 .. Len(s)) = Len(s)
  <2>1. Cardinality(1 .. Len(s)) = IF 1 > Len(s) THEN 0 ELSE Len(s) - 1 + 1
    BY <1>1, FS_Interval
  <2> QED BY <1>1, <2>1
<1>6. h \in Regions \cup {Nobody}
  <2>1. s # <<>> => 1 \in 1 .. Len(s)
    BY <1>1, EmptySeq
  <2>2. s # <<>> => s[1] \in Regions /\ h = s[1]
    BY <1>1, <2>1 DEF Path
  <2> QED BY <2>2 DEF Path
<1>7. Cardinality(Regions) \in 0 .. Cardinality(Regions) /\ Len(s) <= Cardinality(Regions)
  BY <1>3, <1>4, <1>5
<1>8. From(nx, Cardinality(Regions))[Cardinality(Regions)][h] = s
  BY <1>3, <1>6, <1>7, FromIsPath
<1> QED BY <1>8 DEF WalkOf

\* Walk, before and after a step, is any path one can name.
LEMMA WalkIs ==
  ASSUME NEW l
  PROVE  /\ \A s : Path(s, next, list[l].head) => Walk(l) = s
         /\ \A s : Path(s, next', list'[l].head) => Walk(l)' = s
<1>1. Walk(l) = WalkOf(next, list[l].head)
  BY DEF Walk, WalkOf, From, IsFrom
<1>2. Walk(l)' = WalkOf(next', list'[l].head)
  BY DEF Walk, WalkOf, From, IsFrom
<1> QED BY <1>1, <1>2, WalkIsPath

\* Linked regions make a path.
LEMMA OrderPath ==
  ASSUME NEW R \in SUBSET Regions, NEW h, NEW t, NEW nx, NEW pv, NEW ps \in Positions,
         Order(R, h, t, nx, pv, ps)
  PROVE  \E s : Path(s, nx, h) /\ \A r : r \in R <=> \E i \in 1 .. Len(s) : s[i] = r
<1>1. CASE h = Nobody
  <2>1. R = {} /\ <<>> \in Seq(Regions) /\ Len(<<>>) = 0
    BY <1>1, EmptySeq DEF Order
  <2>2. \A i \in 1 .. 0 : FALSE
    OBVIOUS
  <2>3. Path(<<>>, nx, h)
    BY <1>1, <2>1 DEF Path
  <2> QED BY <2>1, <2>2, <2>3
<1>2. CASE h # Nobody
  <2> DEFINE n == ps[t] - ps[h] + 1
  <2>1. /\ h \in R /\ t \in R /\ R # {}
        /\ \A r \in R : ps[r] \in Int /\ ps[h] <= ps[r] /\ ps[r] <= ps[t]
        /\ \A r \in R : nx[r] = Nobody <=> r = t
        /\ \A r \in R : nx[r] # Nobody => nx[r] \in R /\ ps[nx[r]] = ps[r] + 1
        /\ \A r, q \in R : ps[r] = ps[q] => r = q
    BY <1>2 DEF Order, Positions
  <2>2. ps[t] \in Int /\ ps[h] \in Int /\ n \in Nat \ {0}
    BY <2>1
  <2>3. PICK N : N = n
    OBVIOUS
  <2> HIDE DEF n
  <2>4. ASSUME NEW k \in 1 .. N PROVE \E r \in R : ps[r] = ps[h] + k - 1
    <3> DEFINE B == {j \in 1 .. N : \A r \in R : ps[r] # ps[h] + j - 1}
    <3> SUFFICES ASSUME B # {} PROVE FALSE
      OBVIOUS
    <3>1. PICK m \in B : \A j \in B : m <= j
      <4>1. B \in SUBSET Nat
        OBVIOUS
      <4> HIDE DEF B
      <4> QED BY <4>1, LeastNatural
    <3>2. m \in 1 .. N /\ \A r \in R : ps[r] # ps[h] + m - 1
      OBVIOUS
    <3>3. m # 1
      BY <2>1, <2>2, <3>2
    <3>4. m - 1 \in 1 .. N /\ m - 1 \notin B
      <4>1. m - 1 \in 1 .. N /\ m - 1 < m
        BY <2>2, <2>3, <3>2, <3>3
      <4> HIDE DEF B
      <4> QED BY <3>1, <3>2, <4>1
    <3>5. PICK r \in R : ps[r] = ps[h] + (m - 1) - 1
      BY <3>4
    <3> HIDE DEF B
    <3>6. r # t
      BY <2>2, <2>3, <3>2, <3>5 DEF n
    <3>7. nx[r] \in R /\ ps[nx[r]] = ps[h] + m - 1
      BY <2>1, <2>2, <3>2, <3>5, <3>6
    <3> QED BY <3>2, <3>7
  <2> DEFINE at(k) == CHOOSE r \in R : ps[r] = ps[h] + k - 1
             s == [k \in 1 .. N |-> at(k)]
  <2>5. \A k \in 1 .. N : at(k) \in R /\ ps[at(k)] = ps[h] + k - 1
    BY <2>4
  <2> HIDE DEF at
  <2>6. N \in Nat \ {0} /\ N = ps[t] - ps[h] + 1
    BY <2>2, <2>3 DEF n
  <2>7. s \in [1 .. N -> Regions] /\ s \in Seq(Regions) /\ Len(s) = N
    BY <2>5, <2>6
  <2>8. \A k \in 1 .. N : s[k] \in R /\ ps[s[k]] = ps[h] + k - 1
    BY <2>5
  <2> HIDE DEF s
  <2>9. \A r \in R : ps[r] - ps[h] + 1 \in 1 .. N /\ s[ps[r] - ps[h] + 1] = r
    <3> TAKE r \in R
    <3>1. ps[r] - ps[h] + 1 \in 1 .. N /\ ps[h] + (ps[r] - ps[h] + 1) - 1 = ps[r]
      BY <2>1, <2>2, <2>6
    <3>2. s[ps[r] - ps[h] + 1] \in R /\ ps[s[ps[r] - ps[h] + 1]] = ps[r]
      BY <2>8, <3>1
    <3> QED BY <2>1, <3>1, <3>2
  <2>10. s # <<>> /\ s[1] = h /\ nx[s[Len(s)]] = Nobody
    <3>1. ps[h] - ps[h] + 1 = 1 /\ ps[t] - ps[h] + 1 = Len(s)
      BY <2>2, <2>6, <2>7
    <3>2. s[1] = h /\ s[Len(s)] = t
      BY <2>1, <2>9, <3>1
    <3> QED BY <2>1, <2>6, <2>7, <3>2, EmptySeq
  <2>11. \A k \in 1 .. Len(s) - 1 : nx[s[k]] = s[k + 1]
    <3> TAKE k \in 1 .. Len(s) - 1
    <3>1. k \in 1 .. N /\ k + 1 \in 1 .. N /\ k # N
      BY <2>6, <2>7
    <3>2. s[k] \in R /\ ps[s[k]] = ps[h] + k - 1 /\ s[k + 1] \in R /\ ps[s[k + 1]] = ps[h] + (k + 1) - 1
      BY <2>8, <3>1
    <3>3. s[k] # t
      BY <2>2, <2>6, <3>1, <3>2
    <3>4. nx[s[k]] \in R /\ ps[nx[s[k]]] = ps[s[k]] + 1
      BY <2>1, <3>2, <3>3
    <3>5. ps[nx[s[k]]] = ps[s[k + 1]]
      BY <2>2, <3>1, <3>2, <3>4
    <3> QED BY <2>1, <3>2, <3>4, <3>5
  <2>12. Path(s, nx, h)
    BY <1>2, <2>7, <2>10, <2>11 DEF Path
  <2>13. \A r : r \in R <=> \E i \in 1 .. Len(s) : s[i] = r
    BY <2>7, <2>8, <2>9
  <2> QED BY <2>12, <2>13
<1> QED BY <1>1, <1>2

\* Links of other regions do not matter.
LEMMA PathKept ==
  ASSUME NEW nx, NEW nx2, NEW h, NEW s, Path(s, nx, h),
         \A i \in 1 .. Len(s) : nx2[s[i]] = nx[s[i]]
  PROVE  Path(s, nx2, h)
<1>1. s \in Seq(Regions) /\ Len(s) \in Nat /\ (s # <<>> => Len(s) \in 1 .. Len(s))
  BY EmptySeq, LenProperties DEF Path
<1> QED BY <1>1 DEF Path

\* A path is put behind linked regions the last of which leads to it.
LEMMA PathConcat ==
  ASSUME NEW nx, NEW a \in Seq(Regions), a # <<>>, NEW b, NEW h, Path(b, nx, h),
         \A i \in 1 .. Len(a) - 1 : nx[a[i]] = a[i + 1], nx[a[Len(a)]] = h
  PROVE  Path(a \o b, nx, a[1])
<1>1. /\ b \in Seq(Regions) /\ Len(a) \in Nat \ {0} /\ Len(b) \in Nat /\ a[1] \in Regions
      /\ (b = <<>> <=> Len(b) = 0)
  BY EmptySeq, LenProperties, ElementOfSeq DEF Path
<1>2. PICK c : c = a \o b
  OBVIOUS
<1>3. /\ c \in Seq(Regions) /\ Len(c) = Len(a) + Len(b)
      /\ \A i \in 1 .. Len(a) + Len(b) : c[i] = IF i <= Len(a) THEN a[i] ELSE b[i - Len(a)]
  BY <1>1, <1>2, ConcatProperties
<1>4. c # <<>> /\ c[1] = a[1] /\ a[1] # Nobody
  <2>1. Len(c) # 0
    BY <1>1, <1>3
  <2> QED BY <1>1, <1>3, <2>1, EmptySeq, ListsAssumption DEF ListsAssumption
<1>5. nx[c[Len(c)]] = Nobody
  <2>1. CASE b = <<>>
    <3>1. Len(c) = Len(a) /\ c[Len(c)] = a[Len(a)]
      BY <1>1, <1>3, <2>1
    <3> QED BY <2>1, <3>1 DEF Path
  <2>2. CASE b # <<>>
    <3>1. Len(c) \in 1 .. Len(a) + Len(b) /\ ~(Len(c) <= Len(a)) /\ Len(c) - Len(a) = Len(b)
      BY <1>1, <1>3, <2>2
    <3>2. c[Len(c)] = b[Len(b)]
      BY <1>3, <3>1
    <3> QED BY <2>2, <3>2 DEF Path
  <2> QED BY <2>1, <2>2
<1>6. ASSUME NEW i \in 1 .. Len(c) - 1 PROVE nx[c[i]] = c[i + 1]
  <2>1. i \in 1 .. Len(a) + Len(b) /\ i + 1 \in 1 .. Len(a) + Len(b)
    BY <1>1, <1>3
  <2>2. CASE i < Len(a)
    BY <1>1, <1>3, <2>1, <2>2
  <2>3. CASE i = Len(a)
    <3>1. Len(b) # 0 /\ b # <<>> /\ ~(i + 1 <= Len(a)) /\ i + 1 - Len(a) = 1
      BY <1>1, <1>3, <2>1, <2>3
    <3>2. c[i] = a[Len(a)] /\ c[i + 1] = b[1]
      BY <1>1, <1>3, <2>1, <2>3, <3>1
    <3> QED BY <3>1, <3>2 DEF Path
  <2>4. CASE i > Len(a)
    <3>1. i - Len(a) \in 1 .. Len(b) - 1 /\ i + 1 - Len(a) = (i - Len(a)) + 1
      BY <1>1, <1>3, <2>1, <2>4
    <3>2. c[i] = b[i - Len(a)] /\ c[i + 1] = b[(i - Len(a)) + 1]
      BY <1>1, <1>3, <2>1, <2>4, <3>1
    <3> QED BY <3>1, <3>2 DEF Path
  <2> QED BY <1>1, <2>1, <2>2, <2>3, <2>4
<1>7. Path(c, nx, a[1])
  BY <1>3, <1>4, <1>5, <1>6 DEF Path
<1> QED BY <1>2, <1>7

\* The elements behind the i-th.
LEMMA Behind ==
  ASSUME NEW s \in Seq(Regions), NEW i \in 1 .. Len(s)
  PROVE  /\ SubSeq(s, i + 1, Len(s)) \in Seq(Regions)
         /\ Len(SubSeq(s, i + 1, Len(s))) = Len(s) - i
         /\ \A j \in 1 .. Len(s) - i : SubSeq(s, i + 1, Len(s))[j] = s[i + j]
<1>1. Len(s) \in Nat /\ \A j \in 1 .. Len(s) : s[j] \in Regions
  BY LenProperties, ElementOfSeq
<1>2. PICK q : q = SubSeq(s, i + 1, Len(s))
  OBVIOUS
<1>3. i + 1 \in Int /\ Len(s) \in Int /\ \A j \in i + 1 .. Len(s) : s[j] \in Regions
  BY <1>1
<1>4. /\ q \in Seq(Regions)
      /\ Len(q) = IF i + 1 <= Len(s) THEN Len(s) - (i + 1) + 1 ELSE 0
      /\ \A j \in 1 .. Len(s) - (i + 1) + 1 : q[j] = s[i + 1 + j - 1]
  BY <1>2, <1>3, SubSeqProperties
<1>5. Len(q) = Len(s) - i
  <2>1. (IF i + 1 <= Len(s) THEN Len(s) - (i + 1) + 1 ELSE 0) = Len(s) - i
    BY <1>1
  <2> QED BY <1>4, <2>1
<1>6. ASSUME NEW j \in 1 .. Len(s) - i PROVE q[j] = s[i + j]
  <2>1. j \in 1 .. Len(s) - (i + 1) + 1 /\ i + 1 + j - 1 = i + j
    BY <1>1
  <2>2. q[j] = s[i + 1 + j - 1]
    BY <1>4, <2>1
  <2> QED BY <2>1, <2>2
<1> QED BY <1>2, <1>4, <1>5, <1>6

\* A path from one of its regions on.
LEMMA PathSuffix ==
  ASSUME NEW nx, NEW h, NEW s, Path(s, nx, h), NEW i \in 1 .. Len(s)
  PROVE  Path(SubSeq(s, i + 1, Len(s)), nx, nx[s[i]])
<1>1. /\ s \in Seq(Regions) /\ Len(s) \in Nat \ {0} /\ s # <<>>
      /\ \A j \in 1 .. Len(s) : s[j] \in Regions
  <2>1. s \in Seq(Regions) /\ Len(s) \in Nat
    BY LenProperties DEF Path
  <2> QED BY <2>1, EmptySeq, ElementOfSeq
<1>2. PICK q : q = SubSeq(s, i + 1, Len(s))
  OBVIOUS
<1>4. q \in Seq(Regions) /\ Len(q) = Len(s) - i /\ \A j \in 1 .. Len(s) - i : q[j] = s[i + j]
  BY <1>1, <1>2, Behind
<1>5. CASE i = Len(s)
  <2>1. Len(q) = 0 /\ nx[s[i]] = Nobody
    BY <1>1, <1>4, <1>5 DEF Path
  <2>2. q = <<>> /\ \A j \in 1 .. Len(q) - 1 : FALSE
    BY <1>4, <2>1, EmptySeq
  <2>3. Path(q, nx, nx[s[i]])
    BY <1>4, <2>1, <2>2 DEF Path
  <2> QED BY <1>2, <2>3
<1>6. CASE i # Len(s)
  <2>1. Len(q) \in Nat \ {0} /\ i \in 1 .. Len(s) - 1 /\ i + 1 \in 1 .. Len(s)
    BY <1>1, <1>4, <1>6
  <2>2. q # <<>> /\ nx[s[i]] = s[i + 1] /\ nx[s[i]] # Nobody
    BY <1>1, <2>1, EmptySeq, ListsAssumption DEF Path, ListsAssumption
  <2>3. q[1] = s[i + 1] /\ q[Len(q)] = s[Len(s)]
    <3>1. 1 \in 1 .. Len(s) - i /\ Len(q) \in 1 .. Len(s) - i /\ i + Len(q) = Len(s)
      BY <1>1, <1>4, <2>1
    <3> QED BY <1>4, <3>1
  <2>4. \A j \in 1 .. Len(q) - 1 : nx[q[j]] = q[j + 1]
    <3> TAKE j \in 1 .. Len(q) - 1
    <3>1. j \in 1 .. Len(s) - i /\ j + 1 \in 1 .. Len(s) - i /\ i + j \in 1 .. Len(s) - 1
          /\ (i + j) + 1 = i + (j + 1)
      BY <1>1, <1>4
    <3> QED BY <1>4, <3>1 DEF Path
  <2>5. Path(q, nx, nx[s[i]])
    BY <1>1, <1>4, <2>2, <2>3, <2>4 DEF Path
  <2> QED BY <1>2, <2>5
<1> QED BY <1>5, <1>6

\* A region is taken out, and the one before it leads to the one after it.
LEMMA PathRemove ==
  ASSUME NEW nx, NEW nx2, NEW h, NEW s, Path(s, nx, h), NEW i \in 1 .. Len(s),
         \A j \in 1 .. Len(s) : j # i =>
            nx2[s[j]] = IF j = i - 1 THEN nx[s[i]] ELSE nx[s[j]]
  PROVE  Path(RemoveAt(s, i), nx2, IF i = 1 THEN nx[s[i]] ELSE h)
<1>1. /\ s \in Seq(Regions) /\ Len(s) \in Nat \ {0} /\ s # <<>> /\ s[1] = h
      /\ \A j \in 1 .. Len(s) : s[j] \in Regions
  <2>1. s \in Seq(Regions) /\ Len(s) \in Nat
    BY LenProperties DEF Path
  <2> QED BY <2>1, EmptySeq, ElementOfSeq DEF Path
<1>2. PICK q : q = SubSeq(s, i + 1, Len(s))
  OBVIOUS
<1>3. PICK p : p = SubSeq(s, 1, i - 1)
  OBVIOUS
<1>4. q \in Seq(Regions) /\ Len(q) = Len(s) - i /\ \A j \in 1 .. Len(s) - i : q[j] = s[i + j]
  BY <1>1, <1>2, Behind
<1>5. p \in Seq(Regions) /\ Len(p) = i - 1 /\ \A j \in 1 .. i - 1 : p[j] = s[j]
  <2>1. 1 \in Int /\ i - 1 \in Int /\ \A j \in 1 .. i - 1 : s[j] \in Regions
    BY <1>1
  <2>2. /\ p \in Seq(Regions)
        /\ Len(p) = IF 1 <= i - 1 THEN i - 1 - 1 + 1 ELSE 0
        /\ \A j \in 1 .. i - 1 - 1 + 1 : p[j] = s[1 + j - 1]
    BY <1>3, <2>1, SubSeqProperties
  <2>3. i - 1 - 1 + 1 = i - 1 /\ \A j \in Int : 1 + j - 1 = j
    BY <1>1
  <2> QED BY <1>1, <2>2, <2>3
<1>6. Path(q, nx2, nx[s[i]])
  <2>1. Path(q, nx, nx[s[i]])
    BY <1>2, PathSuffix
  <2>2. \A j \in 1 .. Len(q) : nx2[q[j]] = nx[q[j]]
    <3> TAKE j \in 1 .. Len(q)
    <3>1. j \in 1 .. Len(s) - i /\ i + j \in 1 .. Len(s) /\ i + j # i /\ i + j # i - 1
      BY <1>1, <1>4
    <3> QED BY <1>4, <3>1
  <2> QED BY <2>1, <2>2, PathKept
<1>7. RemoveAt(s, i) = p \o q
  BY <1>2, <1>3 DEF RemoveAt
<1>8. CASE i = 1
  <2>1. p = <<>>
    BY <1>5, <1>8, EmptySeq
  <2>2. p \o q = q
    BY <1>4, <2>1, ConcatEmptySeq
  <2> QED BY <1>6, <1>7, <1>8, <2>2
<1>9. CASE i # 1
  <2>1. p # <<>> /\ Len(p) \in Nat \ {0} /\ i - 1 \in 1 .. Len(s)
    BY <1>1, <1>5, <1>9, EmptySeq
  <2>2. p[1] = h
    BY <1>1, <1>5, <2>1
  <2>3. nx2[p[Len(p)]] = nx[s[i]]
    <3>1. p[Len(p)] = s[i - 1] /\ i - 1 # i
      BY <1>5, <2>1
    <3> QED BY <2>1, <3>1
  <2>4. \A j \in 1 .. Len(p) - 1 : nx2[p[j]] = p[j + 1]
    <3> TAKE j \in 1 .. Len(p) - 1
    <3>1. j \in 1 .. i - 1 /\ j + 1 \in 1 .. i - 1 /\ j \in 1 .. Len(s) - 1 /\ j \in 1 .. Len(s)
          /\ j # i /\ j # i - 1
      BY <1>1, <1>5
    <3>2. nx2[s[j]] = nx[s[j]] /\ nx[s[j]] = s[j + 1]
      BY <3>1 DEF Path
    <3> QED BY <1>5, <3>1, <3>2
  <2>5. Path(p \o q, nx2, p[1])
    BY <1>5, <1>6, <2>1, <2>3, <2>4, PathConcat
  <2> QED BY <1>7, <1>9, <2>2, <2>5
<1> QED BY <1>8, <1>9

-----------------------------------------------------------------------------
(* Every step is one of RegionSequences, or none *)

\* What RegionSequences is shown.
Contents == [l \in Lists |-> IF Cleared(l) THEN Walk(l) ELSE <<>>]
InTransit == [t \in Threads |-> Walk(t)]

\* Walk finds the regions at home in a list.
LEMMA ListPath ==
  ASSUME ListsAssumption, NEW home, NEW pos, Homes(home, pos), Chains(home, pos),
         NEW l \in Places, Cleared(l)
  PROVE  /\ Path(Walk(l), next, list[l].head)
         /\ \A r : r \in At(home, l) <=> \E i \in 1 .. Len(Walk(l)) : Walk(l)[i] = r
         /\ Walk(l) \in Seq(Regions) /\ Len(Walk(l)) \in Nat /\ DOMAIN Walk(l) = 1 .. Len(Walk(l))
<1>1. Order(At(home, l), list[l].head, list[l].tail, next, prev, pos)
  BY DEF Chains, Chain
<1>2. At(home, l) \in SUBSET Regions /\ pos \in Positions
  BY DEF At, Homes
<1>3. PICK s : /\ Path(s, next, list[l].head)
               /\ \A r : r \in At(home, l) <=> \E i \in 1 .. Len(s) : s[i] = r
  BY <1>1, <1>2, OrderPath
<1>4. Walk(l) = s
  BY <1>3, WalkIs
<1>5. s \in Seq(Regions) /\ Len(s) \in Nat /\ DOMAIN s = 1 .. Len(s)
  BY <1>3, LenProperties DEF Path
<1> QED BY <1>3, <1>4, <1>5

\* Without a head there is nothing to walk.
LEMMA NothingToWalk ==
  ASSUME NEW l
  PROVE  /\ list[l].head = Nobody => Walk(l) = <<>>
         /\ list'[l].head = Nobody => Walk(l)' = <<>>
<1>1. \A nx : Path(<<>>, nx, Nobody)
  <2>1. <<>> \in Seq(Regions) /\ Len(<<>>) = 0 /\ \A i \in 1 .. 0 - 1 : FALSE
    BY EmptySeq
  <2> QED BY <2>1 DEF Path
<1> QED BY <1>1, WalkIs

\* A list is walked as before if its head and the links of its regions are kept.
LEMMA WalksKept ==
  ASSUME ListsAssumption, NEW home, NEW pos, Homes(home, pos), Chains(home, pos),
         NEW l \in Places, Cleared(l), list'[l].head = list[l].head,
         \A r \in At(home, l) : next'[r] = next[r]
  PROVE  Walk(l)' = Walk(l)
<1>1. PICK s : s = Walk(l)
  OBVIOUS
<1>2. /\ Path(s, next, list[l].head)
      /\ \A r : r \in At(home, l) <=> \E i \in 1 .. Len(s) : s[i] = r
  BY <1>1, ListPath
<1>3. \A i \in 1 .. Len(s) : next'[s[i]] = next[s[i]]
  BY <1>2
<1>4. Path(s, next', list'[l].head)
  BY <1>2, <1>3, PathKept
<1> QED BY <1>1, <1>4, WalkIs

\* Nothing RegionSequences sees is changed.
LEMMA Unseen ==
  ASSUME UNCHANGED <<list, next, holder>>,
         \A t \in Threads : op'[t].pc = "clear" \/ op[t].pc = "clear" => op'[t] = op[t]
  PROVE  UNCHANGED Abstract!vars
<1>1. \A l : Walk(l)' = Walk(l)
  <2> TAKE l
  <2>1. Walk(l) = WalkOf(next, list[l].head)
    BY DEF Walk, WalkOf, From, IsFrom
  <2>2. Walk(l)' = WalkOf(next', list'[l].head)
    BY DEF Walk, WalkOf, From, IsFrom
  <2> QED BY <2>1, <2>2
<1>2. \A l : Cleared(l)' <=> Cleared(l)
  BY DEF Cleared
<1>3. Contents' = Contents /\ InTransit' = InTransit
  BY <1>1, <1>2 DEF Contents, InTransit
<1> QED BY <1>3 DEF Abstract!vars, Contents, InTransit

\* Prepend and TryPrepend put the region before the others.
LEMMA PrependIsPut ==
  ASSUME ListsAssumption, IInv, NEW t \in Threads, NEW l \in Lists, NEW r \in Regions,
         PrependRegion(t, l, r) \/ (l \in Caches /\ TryPrependRegion(t, l, r))
  PROVE  Abstract!Put(t, l, r)
<1>1. PICK home, pos : Placed(home, pos)
  BY DEF IInv
<1>2. /\ Free(l) /\ holder[r] = t /\ PrependRegionLocked(l, r) /\ op' = op
      /\ holder' = [holder EXCEPT ![r] = Nobody]
  BY DEF PrependRegion, TryPrependRegion
<1>3. /\ Homes(home, pos) /\ Chains(home, pos) /\ l \in Places /\ Cleared(l)
      /\ home[r] = Nobody /\ Nobody \notin Places /\ Nobody \notin Regions
  BY <1>1, <1>2, FreeList DEF IInv, Placed, Homes, ListsAssumption, Places
<1>4. /\ next' = [next EXCEPT ![r] = list[l].head] /\ next \in Links
      /\ list'[l].head = r /\ \A k \in Places : k # l => list'[k] = list[k]
  BY <1>2, <1>3 DEF PrependRegionLocked, IInv, TypeOK, Links, Places
<1>5. \A k \in Places : \A x \in At(home, k) : next'[x] = next[x]
  BY <1>3, <1>4 DEF At, Links
<1>6. \A k : Cleared(k)' <=> Cleared(k)
  BY <1>2 DEF Cleared
<1>7. \A k \in Places : k # l /\ Cleared(k) => Walk(k)' = Walk(k)
  BY <1>3, <1>4, <1>5, WalksKept
<1>8. PICK s : s = Walk(l)
  OBVIOUS
<1>9. Walk(l)' = <<r>> \o s
  <2>1. /\ Path(s, next, list[l].head)
        /\ \A x : x \in At(home, l) <=> \E i \in 1 .. Len(s) : s[i] = x
    BY <1>3, <1>8, ListPath
  <2>2. Path(s, next', list[l].head)
    <3>1. \A i \in 1 .. Len(s) : next'[s[i]] = next[s[i]]
      BY <1>3, <1>5, <2>1
    <3> QED BY <2>1, <3>1, PathKept
  <2>3. /\ <<r>> \in Seq(Regions) /\ <<r>> # <<>> /\ Len(<<r>>) = 1 /\ <<r>>[1] = r
        /\ \A i \in 1 .. 1 - 1 : FALSE
    OBVIOUS
  <2>4. next'[r] = list[l].head
    BY <1>4 DEF Links
  <2>5. Path(<<r>> \o s, next', r)
    <3> HIDE DEF Path
    <3>1. PICK a : a = <<r>>
      OBVIOUS
    <3>2. Path(a \o s, next', a[1])
      BY <2>2, <2>3, <2>4, <3>1, PathConcat
    <3> QED BY <2>3, <3>1, <3>2
  <2> QED BY <1>4, <2>5, WalkIs
<1>10. Contents' = [Contents EXCEPT ![l] = <<r>> \o @]
  <2>1. Contents' = [k \in Lists |-> IF Cleared(k) THEN Walk(k)' ELSE <<>>]
    BY <1>6 DEF Contents
  <2>2. \A k \in Lists : (IF Cleared(k) THEN Walk(k)' ELSE <<>>)
                            = IF k = l THEN <<r>> \o Contents[k] ELSE Contents[k]
    BY <1>3, <1>7, <1>8, <1>9 DEF Contents, Places
  <2> QED BY <2>1, <2>2 DEF Contents
<1>11. InTransit' = InTransit
  BY <1>3, <1>7, ThreadCleared DEF InTransit, IInv, Places
<1> QED BY <1>2, <1>10, <1>11 DEF Abstract!Put, Contents, InTransit

\* A region is deleted from a list nobody else is at.
LEMMA DeleteIsWithdraw ==
  ASSUME ListsAssumption, IInv, NEW home, NEW pos, Placed(home, pos),
         NEW l \in Lists, Cleared(l), NEW d \in At(home, l),
         NEW t \in Threads, NEW newType, DeleteRegionLocked(t, l, d, newType),
         \A k : Cleared(k)' <=> Cleared(k)
  PROVE  Abstract!Withdraw(t, l, d)
<1>1. /\ Homes(home, pos) /\ Chains(home, pos) /\ l \in Places /\ Chain(home, pos, l)
      /\ home[d] = l /\ d \in Regions /\ Nobody \notin Places /\ Nobody \notin Regions
  BY DEF IInv, Placed, Homes, ListsAssumption, Places, Chains, At
<1>2. Unlink(l, d) /\ holder' = [holder EXCEPT ![d] = t]
  BY <1>1, DeleteSafe DEF DeleteRegionLocked
<1>3. /\ next' = [x \in Regions |->
            IF x = d THEN Nobody ELSE IF x = prev[d] THEN next[d] ELSE next[x]]
      /\ list'[l].head = (IF list[l].head = d THEN next[d] ELSE list[l].head)
      /\ \A k \in Places : k # l => list'[k] = list[k]
  BY <1>1, <1>2 DEF Unlink, IsHead, IInv, TypeOK, Places
<1>4. Order(At(home, l), list[l].head, list[l].tail, next, prev, pos)
  BY <1>1 DEF Chain
<1>5. prev[d] \in At(home, l) \cup {Nobody}
  BY <1>4 DEF Order
<1>6. \A k \in Places : k # l => \A x \in At(home, k) : next'[x] = next[x]
  BY <1>1, <1>3, <1>5 DEF At
<1>7. \A k \in Places : k # l /\ Cleared(k) => Walk(k)' = Walk(k)
  BY <1>1, <1>3, <1>6, WalksKept
<1>8. PICK s : s = Walk(l)
  OBVIOUS
<1>9. /\ Path(s, next, list[l].head) /\ DOMAIN s = 1 .. Len(s) /\ Len(s) \in Nat
      /\ \A x : x \in At(home, l) <=> \E i \in 1 .. Len(s) : s[i] = x
  BY <1>1, <1>8, ListPath
<1>10. PICK i \in 1 .. Len(s) : s[i] = d
  BY <1>9
<1>11. \A j \in 1 .. Len(s) : s[j] \in At(home, l) /\ s[j] \in Regions /\ (s[j] = d => j = i)
  BY <1>9, <1>10, PathInjective DEF At
<1>12. ASSUME NEW j \in 1 .. Len(s), j # i
       PROVE  next'[s[j]] = IF j = i - 1 THEN next[s[i]] ELSE next[s[j]]
  <2>1. s[j] # d /\ s[j] \in Regions /\ s[j] \in At(home, l) /\ s[j] # Nobody
    BY <1>1, <1>11, <1>12
  <2>2. next'[s[j]] = IF s[j] = prev[d] THEN next[d] ELSE next[s[j]]
    BY <1>3, <2>1
  <2>3. CASE j = i - 1
    <3>1. j \in 1 .. Len(s) - 1 /\ j + 1 = i
      BY <1>9, <2>3
    <3>2. next[s[j]] = d
      BY <1>9, <1>10, <3>1 DEF Path
    <3>3. prev[d] = s[j]
      BY <1>1, <1>4, <2>1, <3>2 DEF Order
    <3> QED BY <1>10, <2>2, <2>3, <3>3
  <2>4. CASE j # i - 1
    <3>1. s[j] # prev[d]
      <4> SUFFICES ASSUME s[j] = prev[d] PROVE FALSE
        OBVIOUS
      <4>1. next[s[j]] = d
        BY <1>1, <1>4, <2>1 DEF Order
      <4>2. CASE j = Len(s)
        <5>1. s # <<>>
          <6>1. Len(s) # 0
            BY <1>9
          <6> QED BY <6>1, EmptySeq
        <5>2. next[s[j]] = Nobody
          BY <1>9, <4>2, <5>1 DEF Path
        <5> QED BY <1>1, <4>1, <5>2
      <4>3. CASE j # Len(s)
        <5>1. j \in 1 .. Len(s) - 1 /\ j + 1 \in 1 .. Len(s) /\ j + 1 # i
          BY <1>9, <2>4, <4>3
        <5>2. s[j + 1] = d
          BY <1>9, <4>1, <5>1 DEF Path
        <5> QED BY <1>11, <5>1, <5>2
      <4> QED BY <4>2, <4>3
    <3> QED BY <2>2, <2>4, <3>1
  <2> QED BY <2>3, <2>4
<1>13. list'[l].head = IF i = 1 THEN next[s[i]] ELSE list[l].head
  <2>1. s # <<>>
    <3>1. Len(s) # 0
      BY <1>9
    <3> QED BY <3>1, EmptySeq
  <2>2. s[1] = list[l].head /\ 1 \in 1 .. Len(s)
    BY <1>9, <2>1 DEF Path
  <2>3. list[l].head = d <=> i = 1
    BY <1>10, <1>11, <2>2
  <2> QED BY <1>3, <1>10, <2>3
<1>14. Walk(l)' = RemoveAt(s, i)
  <2>1. PICK n : n = next
    OBVIOUS
  <2>2. PICK n2 : n2 = next'
    OBVIOUS
  <2>3. PICK h : h = list[l].head
    OBVIOUS
  <2>4. Path(s, n, h) /\ \A j \in 1 .. Len(s) : j # i =>
           n2[s[j]] = IF j = i - 1 THEN n[s[i]] ELSE n[s[j]]
    BY <1>9, <1>12, <2>1, <2>2, <2>3
  <2>5. Path(RemoveAt(s, i), n2, IF i = 1 THEN n[s[i]] ELSE h)
    BY <2>4, PathRemove
  <2>6. Path(RemoveAt(s, i), next', list'[l].head)
    BY <1>13, <2>1, <2>2, <2>3, <2>5
  <2> QED BY <2>6, WalkIs
<1>15. Contents' = [Contents EXCEPT ![l] = RemoveAt(@, i)]
  <2>1. Contents' = [k \in Lists |-> IF Cleared(k) THEN Walk(k)' ELSE <<>>]
    BY DEF Contents
  <2>2. \A k \in Lists : (IF Cleared(k) THEN Walk(k)' ELSE <<>>)
                            = IF k = l THEN RemoveAt(Contents[k], i) ELSE Contents[k]
    BY <1>7, <1>8, <1>14 DEF Contents, Places
  <2> QED BY <2>1, <2>2 DEF Contents
<1>16. InTransit' = InTransit
  BY <1>1, <1>7, ThreadCleared DEF InTransit, IInv, Places
<1>17. i \in DOMAIN Contents[l] /\ Contents[l][i] = d
  BY <1>8, <1>9, <1>10 DEF Contents
<1>18. holder[d] = Nobody
  BY <1>1 DEF Homes
<1>19. \E j \in DOMAIN Contents[l] :
          Contents[l][j] = d /\ Contents' = [Contents EXCEPT ![l] = RemoveAt(@, j)]
  BY <1>15, <1>17
<1>20. \A u, j : Abstract!RemoveAt(u, j) = RemoveAt(u, j)
  BY DEF RemoveAt, Abstract!RemoveAt
<1>21. \E j \in DOMAIN Contents[l] :
          Contents[l][j] = d /\ Contents' = [Contents EXCEPT ![l] = Abstract!RemoveAt(@, j)]
  BY <1>19, <1>20
<1> QED BY <1>2, <1>16, <1>18, <1>21 DEF Abstract!Withdraw, Contents, InTransit

\* The head, if there is one, is in the list.
LEMMA TakeHeadIsWithdraw ==
  ASSUME ListsAssumption, IInv, NEW t \in Threads, NEW l \in Lists,
         NEW newType, TakeHeadRegion(t, l, newType)
  PROVE  \E r \in Regions : Abstract!Withdraw(t, l, r)
<1>1. PICK home, pos : Placed(home, pos)
  BY DEF IInv
<1>2. PICK d : d = list[l].head
  OBVIOUS
<1>3. Free(l) /\ d # Nobody /\ DeleteRegionLocked(t, l, d, newType) /\ op' = op
  BY <1>2 DEF TakeHeadRegion
<1>4. Cleared(l) /\ l \in Places
  BY <1>3, FreeList DEF IInv, Places
<1>5. d \in At(home, l) /\ d \in Regions
  BY <1>1, <1>2, <1>3, <1>4 DEF Placed, Chains, Chain, Order, At
<1>6. \A k : Cleared(k)' <=> Cleared(k)
  BY <1>3 DEF Cleared
<1>7. Abstract!Withdraw(t, l, d)
  BY <1>1, <1>3, <1>4, <1>5, <1>6, DeleteIsWithdraw
<1> QED BY <1>5, <1>7

\* Whom the type told the list, or the caller, finds the region in it.
LEMMA DeleteRegionIsWithdraw ==
  ASSUME ListsAssumption, IInv, NEW t \in Threads, NEW l \in Lists, NEW r \in Regions,
         DeleteRegion(t, l, r) \/ (l \in Deletable /\ TryDeleteRegion(t, l, r))
  PROVE  Abstract!Withdraw(t, l, r)
<1>1. PICK home, pos : Placed(home, pos)
  BY DEF IInv
<1>2. Free(l) /\ op' = op /\ \E newType : DeleteRegionLocked(t, l, r, newType)
  BY DEF DeleteRegion, TryDeleteRegion
<1>3. Cleared(l) /\ l \in Places
  BY <1>2, FreeList DEF IInv, Places
<1>4. r \in At(home, l)
  <2>1. CASE DeleteRegion(t, l, r)
    <3>1. r \in Members(l)
      BY <2>1 DEF DeleteRegion
    <3> QED BY <1>1, <1>3, <3>1, MembersAtHome DEF Placed
  <2>2. CASE l \in Deletable /\ TryDeleteRegion(t, l, r)
    <3>1. type[r] = l /\ \A u \in Threads : op[u].pc = "merge" => op[u].src # l
      BY <2>2 DEF TryDeleteRegion
    <3> QED BY <1>1, <2>2, <3>1 DEF Placed, Types, Carried, At
  <2> QED BY <2>1, <2>2
<1>5. \A k : Cleared(k)' <=> Cleared(k)
  BY <1>2 DEF Cleared
<1> QED BY <1>1, <1>2, <1>3, <1>4, <1>5, DeleteIsWithdraw

\* A visitor takes the region it is at or leaves it.
LEMMA VisitIsWithdraw ==
  ASSUME ListsAssumption, IInv, NEW t \in Threads, VisitNode(t)
  PROVE  \/ \E l \in Lists, r \in Regions : Abstract!Withdraw(t, l, r)
         \/ UNCHANGED Abstract!vars
<1>1. PICK home, pos : Placed(home, pos)
  BY DEF IInv
<1>2. PICK l : l = op[t].src
  OBVIOUS
<1>3. PICK d : d = op[t].node
  OBVIOUS
<1>4. /\ op[t].pc = "visit" /\ d # Nobody
      /\ op' = [op EXCEPT ![t] = [op[t] EXCEPT !.node = next[d]]]
  BY <1>3 DEF VisitNode, Begin
<1>5. \/ UNCHANGED <<list, next, prev, type, holder, fatal>>
      \/ DeleteRegionLocked(t, l, d, Nobody)
  BY <1>2, <1>3 DEF VisitNode
<1>6. l \in Lists /\ Holds(t) /\ op \in [Threads -> Operations]
  BY <1>2, <1>4 DEF IInv, Control, Holds
<1>7. Cleared(l)
  BY <1>2, <1>4, <1>6, HeldList DEF IInv
<1>8. d \in At(home, l) /\ d \in Regions
  BY <1>1, <1>2, <1>3, <1>4 DEF Placed, Visits, At
<1>9. op'[t].pc = "visit" /\ \A u \in Threads : u # t => op'[u] = op[u]
  BY <1>4, <1>6 DEF Operations
<1>10. CASE UNCHANGED <<list, next, prev, type, holder, fatal>>
  BY <1>4, <1>9, <1>10, Unseen
<1>11. CASE DeleteRegionLocked(t, l, d, Nobody)
  <2>1. \A k : Cleared(k)' <=> Cleared(k)
    BY <1>4, <1>9 DEF Cleared
  <2>2. Abstract!Withdraw(t, l, d)
    BY <1>1, <1>6, <1>7, <1>8, <1>11, <2>1, DeleteIsWithdraw
  <2> QED BY <1>6, <1>8, <2>2
<1> QED BY <1>5, <1>10, <1>11

\* An empty list has no head.
LEMMA NobodyAtHead ==
  ASSUME ListsAssumption, NEW home, NEW pos, Homes(home, pos), Chains(home, pos),
         NEW l \in Places, Cleared(l), At(home, l) = {}
  PROVE  list[l].head = Nobody /\ Walk(l) = <<>>
<1>1. list[l].head = Nobody
  BY DEF Chains, Chain, Order
<1> QED BY <1>1, NothingToWalk

\* From when the target is assigned, the source is shown empty.
LEMMA AssignIsMove ==
  ASSUME ListsAssumption, IInv, NEW t \in Threads, AssignWith(t)
  PROVE  \E src, dst \in Lists : Abstract!Move(src, dst)
<1>1. PICK home, pos : Placed(home, pos)
  BY DEF IInv
<1>2. PICK src : src = op[t].src
  OBVIOUS
<1>3. PICK dst : dst = op[t].dst
  OBVIOUS
<1>4. /\ op[t].pc = "assign" /\ Free(dst) /\ list' = [list EXCEPT ![dst] = list[src]]
      /\ op' = [op EXCEPT ![t] = [op[t] EXCEPT !.pc = "clear"]]
      /\ next' = next /\ holder' = holder
  BY <1>2, <1>3 DEF AssignWith, Begin
<1>5. /\ src \in Lists /\ dst \in Lists /\ dst # src /\ Holds(t) /\ src \in Places /\ dst \in Places
      /\ op \in [Threads -> Operations]
  BY <1>2, <1>3, <1>4, MoveArguments DEF IInv, Control, MovesTo, Holds, Places
<1>6. Cleared(src) /\ Cleared(dst) /\ Homes(home, pos) /\ Chains(home, pos)
  BY <1>1, <1>2, <1>4, <1>5, HeldList, FreeList DEF IInv, Placed
<1>7. op'[t].pc = "clear" /\ op'[t].src = src /\ \A u \in Threads : u # t => op'[u] = op[u]
  BY <1>2, <1>4, <1>5 DEF Operations
<1>8. \A k : Cleared(k)' <=> Cleared(k) /\ k # src
  BY <1>4, <1>7 DEF Cleared
<1>9. list'[dst] = list[src] /\ \A k \in Places : k # dst => list'[k] = list[k]
  BY <1>4, <1>5 DEF IInv, TypeOK, Places
<1>10. \A k \in Places : k # dst /\ Cleared(k) => Walk(k)' = Walk(k)
  BY <1>4, <1>6, <1>9, WalksKept
<1>11. Walk(dst)' = Walk(src)
  <2>1. PICK s : s = Walk(src)
    OBVIOUS
  <2>2. Path(s, next', list'[dst].head)
    BY <1>4, <1>5, <1>6, <1>9, <2>1, ListPath
  <2> QED BY <2>1, <2>2, WalkIs
<1>12. Contents[dst] = <<>>
  BY <1>3, <1>4, <1>5, <1>6, NobodyAtHead DEF Contents, Chains
<1>13. Contents' = [Contents EXCEPT ![dst] = Contents[src], ![src] = <<>>]
  <2>1. Contents' = [k \in Lists |-> IF Cleared(k) /\ k # src THEN Walk(k)' ELSE <<>>]
    BY <1>8 DEF Contents
  <2>2. \A k \in Lists : (IF Cleared(k) /\ k # src THEN Walk(k)' ELSE <<>>)
            = IF k = src THEN <<>> ELSE IF k = dst THEN Contents[src] ELSE Contents[k]
    BY <1>5, <1>6, <1>10, <1>11 DEF Contents, Places
  <2> QED BY <1>5, <2>1, <2>2 DEF Contents
<1>14. InTransit' = InTransit
  BY <1>5, <1>10, ThreadCleared DEF InTransit, IInv, Places
<1>15. Abstract!Move(src, dst)
  BY <1>4, <1>12, <1>13, <1>14 DEF Abstract!Move, Contents, InTransit
<1> QED BY <1>5, <1>15

\* The list that was moved is shown empty before it is cleared.
LEMMA ClearIsUnseen ==
  ASSUME ListsAssumption, IInv, NEW t \in Threads, ClearList(t)
  PROVE  UNCHANGED Abstract!vars
<1>1. PICK home, pos : Placed(home, pos)
  BY DEF IInv
<1>2. PICK src : src = op[t].src
  OBVIOUS
<1>3. /\ op[t].pc = "clear" /\ list' = [list EXCEPT ![src] = Empty]
      /\ op' = [op EXCEPT ![t] = Idle] /\ next' = next /\ holder' = holder
  BY <1>2 DEF ClearList, Begin
<1>4. /\ src \in Lists /\ Holds(t) /\ src \in Places /\ op \in [Threads -> Operations]
  BY <1>2, <1>3, MoveArguments DEF IInv, Control, MovesTo, Holds, Places
<1>5. \A u \in Threads : Holds(u) /\ op[u].src = src => u = t
  BY <1>2, <1>4, HeldList DEF IInv
<1>6. op'[t].pc = "idle" /\ \A u \in Threads : u # t => op'[u] = op[u]
  BY <1>3, <1>4 DEF Idle
<1>7. Cleared(src)' /\ ~Cleared(src)
  BY <1>2, <1>3, <1>5, <1>6 DEF Cleared, Holds
<1>8. \A k : k # src => (Cleared(k)' <=> Cleared(k))
  BY <1>2, <1>3, <1>6 DEF Cleared
<1>9. list'[src].head = Nobody /\ \A k \in Places : k # src => list'[k] = list[k]
  BY <1>3, <1>4 DEF IInv, TypeOK, Places, Empty
<1>10. Walk(src)' = <<>>
  BY <1>9, NothingToWalk
<1>11. \A k \in Places : k # src /\ Cleared(k) => Walk(k)' = Walk(k)
  BY <1>1, <1>3, <1>9, WalksKept DEF Placed
<1>12. Contents' = Contents
  <2>1. \A k \in Lists : (IF Cleared(k)' THEN Walk(k)' ELSE <<>>) = (IF Cleared(k) THEN Walk(k) ELSE <<>>)
    BY <1>7, <1>8, <1>10, <1>11 DEF Places
  <2> QED BY <2>1 DEF Contents
<1>13. InTransit' = InTransit
  BY <1>4, <1>11, ThreadCleared DEF InTransit, IInv, Places
<1> QED BY <1>3, <1>12, <1>13 DEF Abstract!vars, Contents, InTransit

\* The first half of a merge.
LEMMA TakeIsCarry ==
  ASSUME ListsAssumption, IInv, NEW t \in Threads, NEW m \in Merges, MergeTake(t, m[1], m[2])
  PROVE  \E src \in Lists : Abstract!Carry(t, src)
<1>1. PICK home, pos : Placed(home, pos)
  BY DEF IInv
<1>2. PICK src : src = m[1]
  OBVIOUS
<1>3. /\ op[t] = Idle /\ Free(src) /\ list' = [list EXCEPT ![t] = list[src], ![src] = Empty]
      /\ op' = [op EXCEPT ![t] = [Idle EXCEPT !.pc = "merge", !.src = m[1], !.dst = m[2]]]
      /\ next' = next /\ holder' = holder
  BY <1>2 DEF MergeTake, CanStart, Begin
<1>4. /\ src \in Lists /\ src \in Places /\ t \in Places /\ src # t
      /\ op \in [Threads -> Operations]
  BY <1>2 DEF ListsAssumption, Places, IInv, Control
<1>5. /\ Cleared(src) /\ Cleared(t) /\ Homes(home, pos) /\ Chains(home, pos)
  BY <1>1, <1>3, <1>4, FreeList, ThreadCleared DEF IInv, Placed
<1>6. op[t].pc = "idle" /\ op'[t].pc = "merge" /\ \A u \in Threads : u # t => op'[u] = op[u]
  BY <1>3, <1>4 DEF Idle
<1>7. \A k : Cleared(k)' <=> Cleared(k)
  BY <1>6 DEF Cleared
<1>8. /\ list'[t] = list[src] /\ list'[src].head = Nobody
      /\ \A k \in Places : k # src /\ k # t => list'[k] = list[k]
  BY <1>3, <1>4 DEF IInv, TypeOK, Places, Empty
<1>9. Walk(t)' = Walk(src)
  <2>1. PICK s : s = Walk(src)
    OBVIOUS
  <2>2. Path(s, next', list'[t].head)
    BY <1>3, <1>4, <1>5, <1>8, <2>1, ListPath
  <2> QED BY <2>1, <2>2, WalkIs
<1>10. Walk(src)' = <<>>
  BY <1>8, NothingToWalk
<1>11. \A k \in Places : k # src /\ k # t /\ Cleared(k) => Walk(k)' = Walk(k)
  BY <1>3, <1>5, <1>8, WalksKept
<1>12. InTransit[t] = <<>>
  <2>1. At(home, t) = {}
    BY <1>5, <1>6 DEF Chains
  <2> QED BY <1>4, <1>5, <2>1, NobodyAtHead DEF InTransit
<1>13. Contents' = [Contents EXCEPT ![src] = <<>>]
  <2>1. Contents' = [k \in Lists |-> IF Cleared(k) THEN Walk(k)' ELSE <<>>]
    BY <1>7 DEF Contents
  <2>2. \A k \in Lists : k # t
    BY ListsAssumption DEF ListsAssumption
  <2>3. \A k \in Lists : (IF Cleared(k) THEN Walk(k)' ELSE <<>>)
            = IF k = src THEN <<>> ELSE Contents[k]
    BY <1>10, <1>11, <2>2 DEF Contents, Places
  <2> QED BY <2>1, <2>3 DEF Contents
<1>14. InTransit' = [InTransit EXCEPT ![t] = Contents[src]]
  <2>1. \A u \in Threads : u # src /\ u \in Places /\ Cleared(u)
    BY <1>4, ThreadCleared DEF IInv, Places, ListsAssumption
  <2>2. \A u \in Threads : Walk(u)' = IF u = t THEN Contents[src] ELSE InTransit[u]
    BY <1>4, <1>5, <1>9, <1>11, <2>1 DEF Contents, InTransit
  <2> QED BY <2>2 DEF InTransit
<1>15. Abstract!Carry(t, src)
  BY <1>3, <1>12, <1>13, <1>14 DEF Abstract!Carry, Contents, InTransit
<1> QED BY <1>4, <1>15

\* The second half: the last region carried leads to the target's first.
LEMMA SpliceIsSplice ==
  ASSUME ListsAssumption, IInv, NEW t \in Threads, MergeSplice(t)
  PROVE  \E dst \in Lists : Abstract!Splice(t, dst)
<1>1. PICK home, pos : Placed(home, pos)
  BY DEF IInv
<1>2. PICK dst : dst = op[t].dst
  OBVIOUS
<1>3. PICK hB : hB = list[dst].head
  OBVIOUS
<1>4. PICK tA : tA = list[t].tail
  OBVIOUS
<1>5. /\ op[t].pc = "merge" /\ Free(dst) /\ op' = [op EXCEPT ![t] = Idle]
      /\ list' = [list EXCEPT ![t] = Empty, ![dst] =
            [head |-> list[t].head, tail |-> IF hB = Nobody THEN tA ELSE list[dst].tail,
             regions |-> list[dst].regions + list[t].regions,
             units |-> list[dst].units + list[t].units]]
      /\ next' = [r \in Regions |-> IF r = tA /\ hB # Nobody THEN hB ELSE next[r]]
      /\ holder' = holder
  BY <1>2, <1>3, <1>4 DEF MergeSplice, Begin
<1>6. /\ dst \in Lists /\ dst \in Places /\ t \in Places /\ dst # t /\ Nobody \notin Regions
      /\ op \in [Threads -> Operations]
  BY <1>2, <1>5, MergeArguments DEF IInv, Places, ListsAssumption, Control
<1>7. /\ Cleared(dst) /\ Cleared(t) /\ Homes(home, pos) /\ Chains(home, pos)
  BY <1>1, <1>5, <1>6, FreeList, ThreadCleared DEF IInv, Placed
<1>8. op'[t].pc = "idle" /\ \A u \in Threads : u # t => op'[u] = op[u]
  BY <1>5, <1>6 DEF Idle
<1>9. \A k : Cleared(k)' <=> Cleared(k)
  BY <1>5, <1>8 DEF Cleared
<1>10. /\ list'[dst].head = list[t].head /\ list'[t].head = Nobody
       /\ \A k \in Places : k # dst /\ k # t => list'[k] = list[k]
  BY <1>5, <1>6 DEF IInv, TypeOK, Places, Empty
<1>11. /\ Order(At(home, t), list[t].head, tA, next, prev, pos) /\ At(home, t) # {}
  BY <1>4, <1>5, <1>6, <1>7 DEF Chains, Chain
<1>12. tA \in At(home, t) /\ next[tA] = Nobody
       /\ \A r \in At(home, t) : next[r] = Nobody => r = tA
  BY <1>11 DEF Order
<1>13. \A k \in Places : k # t => \A x \in At(home, k) : next'[x] = next[x]
  BY <1>5, <1>6, <1>12 DEF At
<1>14. \A k \in Places : k # dst /\ k # t /\ Cleared(k) => Walk(k)' = Walk(k)
  BY <1>7, <1>10, <1>13, WalksKept
<1>15. PICK a : a = Walk(t)
  OBVIOUS
<1>16. PICK b : b = Walk(dst)
  OBVIOUS
<1>17. /\ Path(a, next, list[t].head) /\ a \in Seq(Regions) /\ Len(a) \in Nat
       /\ \A r : r \in At(home, t) <=> \E i \in 1 .. Len(a) : a[i] = r
  BY <1>6, <1>7, <1>15, ListPath
<1>18. /\ Path(b, next, hB)
       /\ \A r : r \in At(home, dst) <=> \E i \in 1 .. Len(b) : b[i] = r
  BY <1>3, <1>6, <1>7, <1>16, ListPath
<1>19. Path(b, next', hB)
  <2>1. \A i \in 1 .. Len(b) : next'[b[i]] = next[b[i]]
    BY <1>6, <1>13, <1>18
  <2> QED BY <1>18, <2>1, PathKept
<1>20. a # <<>> /\ a[1] = list[t].head /\ next[a[Len(a)]] = Nobody
       /\ \A i \in 1 .. Len(a) - 1 : next[a[i]] = a[i + 1]
  <2>1. Len(a) # 0
    BY <1>12, <1>17
  <2>2. a # <<>>
    BY <2>1, EmptySeq
  <2> QED BY <1>17, <2>2 DEF Path
<1>21. Len(a) \in 1 .. Len(a) /\ \A i \in 1 .. Len(a) : a[i] \in At(home, t) /\ a[i] \in Regions
  <2>1. Len(a) # 0
    BY <1>12, <1>17
  <2> QED BY <1>17, <2>1 DEF At
<1>22. a[Len(a)] = tA
  BY <1>12, <1>20, <1>21
<1>23. next'[a[Len(a)]] = hB
  BY <1>5, <1>12, <1>21, <1>22
<1>24. ASSUME NEW i \in 1 .. Len(a) - 1 PROVE next'[a[i]] = a[i + 1]
  <2>1. i \in 1 .. Len(a) /\ i + 1 \in 1 .. Len(a)
    BY <1>17
  <2>2. next[a[i]] = a[i + 1] /\ a[i + 1] # Nobody /\ a[i] \in Regions
    BY <1>6, <1>20, <1>21, <2>1
  <2>3. a[i] # tA
    BY <1>12, <2>2
  <2> QED BY <1>5, <2>2, <2>3
<1>25. Walk(dst)' = a \o b
  <2>1. Path(a \o b, next', a[1])
    <3>1. PICK n : n = next'
      OBVIOUS
    <3>2. /\ Path(b, n, hB) /\ n[a[Len(a)]] = hB
          /\ \A i \in 1 .. Len(a) - 1 : n[a[i]] = a[i + 1]
      BY <1>19, <1>23, <1>24, <3>1
    <3>3. Path(a \o b, n, a[1])
      BY <1>17, <1>20, <3>2, PathConcat
    <3> QED BY <3>1, <3>3
  <2> QED BY <1>10, <1>20, <2>1, WalkIs
<1>26. Walk(t)' = <<>>
  BY <1>10, NothingToWalk
<1>27. Contents' = [Contents EXCEPT ![dst] = InTransit[t] \o @]
  <2>1. Contents' = [k \in Lists |-> IF Cleared(k) THEN Walk(k)' ELSE <<>>]
    BY <1>9 DEF Contents
  <2>2. \A k \in Lists : k # t
    BY ListsAssumption DEF ListsAssumption
  <2>3. \A k \in Lists : (IF Cleared(k) THEN Walk(k)' ELSE <<>>)
            = IF k = dst THEN InTransit[t] \o Contents[k] ELSE Contents[k]
    BY <1>7, <1>14, <1>15, <1>16, <1>25, <2>2 DEF Contents, InTransit, Places
  <2> QED BY <2>1, <2>3 DEF Contents
<1>28. InTransit' = [InTransit EXCEPT ![t] = <<>>]
  <2>1. \A u \in Threads : u # dst /\ u \in Places /\ Cleared(u)
    BY <1>6, ThreadCleared DEF IInv, Places, ListsAssumption
  <2>2. \A u \in Threads : Walk(u)' = IF u = t THEN <<>> ELSE InTransit[u]
    BY <1>14, <1>26, <2>1 DEF InTransit
  <2> QED BY <2>2 DEF InTransit
<1>29. Abstract!Splice(t, dst)
  BY <1>5, <1>27, <1>28 DEF Abstract!Splice, Contents, InTransit
<1> QED BY <1>6, <1>29

\* All lists are empty, and every region is with a thread.
LEMMA InitIsInit ==
  ASSUME ListsAssumption, Init
  PROVE  Abstract!Init
<1>1. \A l \in Lists \cup Threads : list[l].head = Nobody
  BY DEF Init, Empty
<1>2. \A l \in Lists \cup Threads : Walk(l) = <<>>
  BY <1>1, NothingToWalk
<1>3. Contents = [l \in Lists |-> <<>>] /\ InTransit = [t \in Threads |-> <<>>]
  BY <1>2 DEF Contents, InTransit
<1>4. holder \in [Regions -> Threads]
  BY DEF Init
<1> QED BY <1>3, <1>4 DEF Abstract!Init, Contents, InTransit

\* The operations that change neither a list nor who has taken a region.
LEMMA OthersUnseen ==
  ASSUME NEW t \in Threads, NEW l, NEW dst, NEW r, Control,
         \/ VisitStart(t, l) \/ VisitEnd(t) \/ MoveLock(t, l, dst)
         \/ ClearTraceRegionFlag(t, l) \/ SetTraceRegionFlag(t, r)
         \/ ActivateRegionCache(t, l) \/ DeactivateRegionCache(t, l)
  PROVE  UNCHANGED Abstract!vars
<1>1. UNCHANGED <<list, next, holder>>
  BY DEF VisitStart, VisitEnd, MoveLock, ClearTraceRegionFlag, SetTraceRegionFlag,
         ActivateRegionCache, DeactivateRegionCache
<1>2. op' = op \/ \E what : op' = [op EXCEPT ![t] = what] /\ what.pc # "clear" /\ op[t].pc # "clear"
  <2>1. CASE VisitEnd(t)
    <3>1. op' = [op EXCEPT ![t] = Idle] /\ Idle.pc # "clear" /\ op[t].pc # "clear"
      BY <2>1 DEF VisitEnd, Begin, Idle
    <3> QED BY <3>1
  <2>2. CASE VisitStart(t, l)
    <3>1. PICK what : what = [Idle EXCEPT !.pc = "visit", !.src = l, !.node = list[l].head]
      OBVIOUS
    <3>2. op' = [op EXCEPT ![t] = what] /\ what.pc # "clear" /\ op[t].pc # "clear"
      BY <2>2, <3>1 DEF VisitStart, CanStart, Begin, Idle
    <3> QED BY <3>2
  <2>3. CASE MoveLock(t, l, dst)
    <3>1. PICK what : what = [Idle EXCEPT !.pc = "assign", !.src = l, !.dst = dst]
      OBVIOUS
    <3>2. op' = [op EXCEPT ![t] = what] /\ what.pc # "clear" /\ op[t].pc # "clear"
      BY <2>3, <3>1 DEF MoveLock, CanStart, Begin, Idle
    <3> QED BY <3>2
  <2>4. CASE \/ ClearTraceRegionFlag(t, l) \/ SetTraceRegionFlag(t, r)
             \/ ActivateRegionCache(t, l) \/ DeactivateRegionCache(t, l)
    BY <2>4 DEF ClearTraceRegionFlag, SetTraceRegionFlag, ActivateRegionCache, DeactivateRegionCache
  <2> QED BY <2>1, <2>2, <2>3, <2>4
<1>3. op \in [Threads -> Operations]
  BY DEF Control
<1>4. \A u \in Threads : op'[u].pc = "clear" \/ op[u].pc = "clear" => op'[u] = op[u]
  BY <1>2, <1>3
<1> QED BY <1>1, <1>4, Unseen

\* With the inductive invariant every step maps to a step or to none.
LEMMA NextIsNext ==
  ASSUME ListsAssumption, IInv, [Next]_vars
  PROVE  [Abstract!Next]_Abstract!vars
<1>1. CASE UNCHANGED vars
  BY <1>1, Unseen DEF vars
<1>2. CASE Next
  <2>1. PICK t \in Threads :
          \/ \E l \in Lists, r \in Regions : PrependRegion(t, l, r) \/ DeleteRegion(t, l, r)
          \/ \E l \in Lists : VisitStart(t, l) \/ ClearTraceRegionFlag(t, l)
          \/ \E l \in Lists, newType \in Lists \cup {Nobody} : TakeHeadRegion(t, l, newType)
          \/ \E l \in Deletable, r \in Regions : TryDeleteRegion(t, l, r)
          \/ \E l \in Caches : ActivateRegionCache(t, l) \/ DeactivateRegionCache(t, l)
          \/ \E l \in Caches, r \in Regions : TryPrependRegion(t, l, r)
          \/ \E r \in Regions : SetTraceRegionFlag(t, r)
          \/ \E m \in Merges : MergeTake(t, m[1], m[2])
          \/ \E m \in Moves : MoveLock(t, m[1], m[2])
          \/ MergeSplice(t) \/ AssignWith(t) \/ ClearList(t)
          \/ VisitNode(t) \/ VisitEnd(t)
    BY <1>2 DEF Next
  <2>2. (\A l \in Caches : l \in Lists) /\ (\A l \in Deletable : l \in Lists) /\ Control
    BY DEF ListsAssumption, IInv
  <2>3. ASSUME NEW l \in Lists, NEW r \in Regions, Abstract!Put(t, l, r) PROVE Abstract!Next
    BY <2>3 DEF Abstract!Next
  <2>4. ASSUME NEW l \in Lists, NEW r \in Regions, Abstract!Withdraw(t, l, r) PROVE Abstract!Next
    BY <2>4 DEF Abstract!Next
  <2>5. ASSUME NEW l \in Lists, Abstract!Carry(t, l) \/ Abstract!Splice(t, l) PROVE Abstract!Next
    BY <2>5 DEF Abstract!Next
  <2>6. ASSUME NEW src \in Lists, NEW dst \in Lists, Abstract!Move(src, dst) PROVE Abstract!Next
    BY <2>6 DEF Abstract!Next
  <2>7. ASSUME NEW l \in Lists, NEW r \in Regions,
               PrependRegion(t, l, r) \/ (l \in Caches /\ TryPrependRegion(t, l, r))
        PROVE  Abstract!Next
    BY <2>3, <2>7, PrependIsPut
  <2>8. ASSUME NEW l \in Lists, NEW r \in Regions,
               DeleteRegion(t, l, r) \/ (l \in Deletable /\ TryDeleteRegion(t, l, r))
        PROVE  Abstract!Next
    BY <2>4, <2>8, DeleteRegionIsWithdraw
  <2>9. ASSUME NEW l \in Lists, NEW newType, TakeHeadRegion(t, l, newType) PROVE Abstract!Next
    BY <2>4, <2>9, TakeHeadIsWithdraw
  <2>10. ASSUME NEW m \in Merges, MergeTake(t, m[1], m[2]) PROVE Abstract!Next
    BY <2>5, <2>10, TakeIsCarry
  <2>11. CASE MergeSplice(t)
    BY <2>5, <2>11, SpliceIsSplice
  <2>12. CASE AssignWith(t)
    BY <2>6, <2>12, AssignIsMove
  <2>13. CASE ClearList(t)
    BY <2>13, ClearIsUnseen
  <2>14. CASE VisitNode(t)
    BY <2>4, <2>14, VisitIsWithdraw
  <2>15. CASE \/ VisitEnd(t)
              \/ \E l \in Lists : VisitStart(t, l) \/ ClearTraceRegionFlag(t, l)
              \/ \E l \in Caches : ActivateRegionCache(t, l) \/ DeactivateRegionCache(t, l)
              \/ \E r \in Regions : SetTraceRegionFlag(t, r)
              \/ \E m \in Moves : MoveLock(t, m[1], m[2])
    BY <2>2, <2>15, OthersUnseen
  <2> QED
    BY <2>1, <2>2, <2>7, <2>8, <2>9, <2>10, <2>11, <2>12, <2>13, <2>14, <2>15
<1> QED BY <1>1, <1>2

\* The linked lists are sequences, for any regions, threads and lists: a region
\* prepended, taken or deleted under a mutex changes its list by that region
\* and keeps the order of the others; a merge carries a whole list away and puts
\* it before the target's regions, and a move hands it over in one step, though
\* the copied list is cleared later (RegionList.cj:356-670).
THEOREM SequencesImplemented == Spec => ImplementsSequences
<1>1. Init => Abstract!Init
  BY InitIsInit, ListsAssumption
<1>2. IInv /\ [Next]_vars => [Abstract!Next]_Abstract!vars
  BY NextIsNext, ListsAssumption
<1> QED
  BY <1>1, <1>2, Invariant, PTL DEF Spec, ImplementsSequences, Abstract!Spec
=============================================================================
