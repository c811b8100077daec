-------------------------- MODULE UnwindWinProofs --------------------------
(***************************************************************************)
(* Proofs about UnwindWin and the modules it extends: what an address is   *)
(* said to belong to while images come and go (Loader), that a lookup      *)
(* finds the record and the function of a pc unless an image was unloaded  *)
(* (WinModuleManager), that the constructor finds the sections (Section),  *)
(* and that a walk gets the address of every frame right.                  *)
(***************************************************************************)
EXTENDS UnwindWin, FiniteSetTheorems, SequenceTheorems, TLAPS

-----------------------------------------------------------------------------
(* Loops over tables *)

\* A set of natural numbers has a least one.
LEMMA LeastNatural ==
  ASSUME NEW T \in SUBSET Nat, T # {}
  PROVE  \E x \in T : \A y \in T : x <= y
<1> DEFINE G == {0..x : x \in T}
<1>1. G \subseteq FiniteSubsetsOf(Nat) /\ G # {}
  <2>1. \A x \in T : 0..x \subseteq Nat /\ IsFiniteSet(0..x)
    BY FS_Interval
  <2>2. QED
    BY <2>1 DEF FiniteSubsetsOf
<1>2. PICK u \in G : \A v \in G : ~(<<v, u>> \in StrictSubsetOrdering(Nat))
  <2> HIDE DEF G
  <2>1. QED
    BY <1>1, FS_StrictSubsetOrderingWellFounded, WFMin
<1>3. PICK x \in T : u = 0..x
  OBVIOUS
<1>4. ASSUME NEW y \in T, ~(x <= y) PROVE FALSE
  <2>1. 0..y \in G /\ 0..y \in SUBSET Nat /\ 0..x \in SUBSET Nat
    OBVIOUS
  <2>2. x \in 0..x /\ x \notin 0..y
    BY <1>4
  <2>3. 0..y \subseteq 0..x /\ 0..y # 0..x
    BY <1>4, <2>2
  <2>4. QED
    BY <1>2, <1>3, <2>1, <2>3 DEF StrictSubsetOrdering
<1>5. QED
  BY <1>4

\* Min(T) of a set of natural numbers is its least one.
LEMMA MinOfNaturals ==
  ASSUME NEW T \in SUBSET Nat, T # {}
  PROVE  Min(T) \in T /\ \A y \in T : Min(T) <= y
BY LeastNatural DEF Min

\* The recursive function behind CandidateIndex, over a table of n exports.
IsBest(best, n, e, x) ==
  best = [o \in 0..n |->
            IF o = 0 THEN 0
            ELSE IF e[o] > x \/ (best[o - 1] # 0 /\ e[best[o - 1]] >= e[o])
              THEN best[o - 1] ELSE o]
Best(n, e, x) == CHOOSE best : IsBest(best, n, e, x)

\* The recursion defines a function for every length of the table.
LEMMA BestExists ==
  ASSUME NEW n \in Nat, NEW e, NEW x
  PROVE  IsBest(Best(n, e, x), n, e, x)
<1> SUFFICES \E f : IsBest(f, n, e, x)
  BY DEF Best
<1> DEFINE B == {k \in Nat : ~ \E f : IsBest(f, k, e, x)}
<1> SUFFICES ASSUME B # {} PROVE FALSE
  BY DEF B
<1>1. PICK m \in B : \A k \in B : m <= k
  <2>1. B \in SUBSET Nat
    OBVIOUS
  <2> HIDE DEF B
  <2> QED BY <2>1, LeastNatural
<1>2. m \in Nat /\ ~ \E f : IsBest(f, m, e, x)
  OBVIOUS
<1>3. CASE m = 0
  <2> DEFINE f == [o \in 0..0 |-> 0]
  <2>1. IsBest(f, 0, e, x)
    <3>1. \A o \in 0..0 : o = 0
      OBVIOUS
    <3> QED BY <3>1 DEF IsBest
  <2> QED BY <1>2, <1>3, <2>1
<1>4. CASE m # 0
  <2>1. m - 1 \in Nat /\ m - 1 \notin B
    BY <1>1, <1>2, <1>4
  <2>2. PICK f : IsBest(f, m - 1, e, x)
    BY <2>1
  <2> HIDE DEF B
  <2> DEFINE val(h, o) == IF o = 0 THEN 0
                          ELSE IF e[o] > x \/ (h[o - 1] # 0 /\ e[h[o - 1]] >= e[o])
                            THEN h[o - 1] ELSE o
             g == [o \in 0..m |-> val(f, o)]
  <2>3. f = [o \in 0..(m - 1) |-> val(f, o)]
    BY <2>2 DEF IsBest
  <2>4. \A o \in 0..m : o # 0 => g[o - 1] = f[o - 1]
    <3> TAKE o \in 0..m
    <3> HAVE o # 0
    <3>1. o - 1 \in 0..(m - 1) /\ o - 1 \in 0..m
      BY <1>2
    <3> HIDE DEF val
    <3>2. f[o - 1] = val(f, o - 1)
      BY <2>3, <3>1
    <3>3. g[o - 1] = val(f, o - 1)
      BY <3>1
    <3> QED BY <3>2, <3>3
  <2>5. \A o \in 0..m : val(f, o) = val(g, o)
    <3> TAKE o \in 0..m
    <3>1. o # 0 => g[o - 1] = f[o - 1]
      BY <2>4
    <3> HIDE DEF g
    <3> QED BY <3>1
  <2>6. IsBest(g, m, e, x)
    <3>1. g = [o \in 0..m |-> val(g, o)]
      <4> HIDE DEF val
      <4> QED BY <2>5
    <3> HIDE DEF g
    <3> QED BY <3>1 DEF IsBest
  <2> QED BY <1>2, <2>6
<1> QED BY <1>3, <1>4

\* The candidate is an export that is not above the offset, and none of those
\* is above it; there is none when all are above.
Nearest(c, n, e, x) ==
  /\ c \in 0..n
  /\ c = 0 => \A o \in 1..n : e[o] > x
  /\ c # 0 => e[c] <= x /\ \A o \in 1..n : e[o] <= x => e[o] <= e[c]

LEMMA CandidateNearest ==
  ASSUME NEW e \in Seq(Int), NEW x \in Int
  PROVE  Nearest(CandidateIndex(e, x), Len(e), e, x)
<1>1. Len(e) \in Nat /\ \A o \in 1..Len(e) : e[o] \in Int
  BY LenProperties, ElementOfSeq
<1> DEFINE N == Len(e)
           f == Best(N, e, x)
<1> HIDE DEF N, f
<1>2. CandidateIndex(e, x) = f[N]
  BY DEF CandidateIndex, Best, IsBest, f, N
<1>3. N \in Nat /\ \A o \in 1..N : e[o] \in Int
  BY <1>1 DEF N
<1>4. IsBest(f, N, e, x)
  BY <1>3, BestExists DEF f
<1>5. \A o \in 0..N : f[o] = IF o = 0 THEN 0
            ELSE IF e[o] > x \/ (f[o - 1] # 0 /\ e[f[o - 1]] >= e[o])
              THEN f[o - 1] ELSE o
  BY <1>4 DEF IsBest
<1> DEFINE B == {k \in 0..N : ~Nearest(f[k], k, e, x)}
<1>6. B = {}
  <2> SUFFICES ASSUME B # {} PROVE FALSE
    OBVIOUS
  <2>1. PICK m \in B : \A k \in B : m <= k
    <3>1. B \in SUBSET Nat
      BY <1>3
    <3> HIDE DEF B
    <3> QED BY <3>1, LeastNatural
  <2>2. m \in 0..N /\ m \in Nat /\ ~Nearest(f[m], m, e, x)
    BY <1>3
  <2>3. m # 0
    <3>1. f[0] = 0
      BY <1>3, <1>5
    <3> QED BY <2>2, <3>1 DEF Nearest
  <2>4. m - 1 \in 0..N /\ m - 1 \notin B
    BY <2>1, <2>2, <2>3, <1>3
  <2>5. Nearest(f[m - 1], m - 1, e, x)
    BY <2>4
  <2> HIDE DEF B
  <2> DEFINE p == f[m - 1]
             c == f[m]
  <2>6. c = IF e[m] > x \/ (p # 0 /\ e[p] >= e[m]) THEN p ELSE m
    BY <1>5, <2>2, <2>3
  <2> HIDE DEF p, c
  <2>7. /\ p \in 0..(m - 1)
        /\ p = 0 => \A o \in 1..(m - 1) : e[o] > x
        /\ p # 0 => e[p] <= x /\ \A o \in 1..(m - 1) : e[o] <= x => e[o] <= e[p]
    BY <2>5 DEF Nearest, p
  <2>8. /\ m \in 1..N /\ e[m] \in Int /\ (p # 0 => e[p] \in Int)
        /\ \A o \in 1..m : (o = m \/ o \in 1..(m - 1)) /\ e[o] \in Int
    BY <1>3, <2>2, <2>3, <2>7
  <2>9. Nearest(c, m, e, x)
    <3>1. CASE e[m] > x \/ (p # 0 /\ e[p] >= e[m])
      BY <2>2, <2>6, <2>7, <2>8, <3>1 DEF Nearest
    <3>2. CASE ~(e[m] > x \/ (p # 0 /\ e[p] >= e[m]))
      BY <2>2, <2>6, <2>7, <2>8, <3>2 DEF Nearest
    <3> QED BY <3>1, <3>2
  <2> QED BY <2>2, <2>9 DEF c
<1>7. Nearest(f[N], N, e, x)
  BY <1>3, <1>6
<1> QED BY <1>2, <1>7 DEF N

-----------------------------------------------------------------------------
(* The binary search *)

\* One turn of the search in a table for the relative address x; f is what the
\* turns after it answer.
Turn(f, s, e, table, x) ==
  LET mid == (s + e) \div 2
      function == table[mid + 1] IN
    IF s > e THEN 0
    ELSE IF mid >= Len(table) THEN -1
    ELSE IF IsInRuntimeFunc(function, x) THEN mid + 1
    ELSE IF x > function.end THEN f[<<mid + 1, e>>]
    ELSE f[<<s, (mid - 1) % Word>>]
IsSearch(f, table, x) ==
  f = [b \in (0..Word) \X (0..Word) |-> Turn(f, b[1], b[2], table, x)]
SearchOf(table, x) == CHOOSE f : IsSearch(f, table, x)

\* How many turns there may be from bounds s and e on.
Rank(s, e, table) ==
  IF s > e \/ (s + e) \div 2 >= Len(table) THEN 0 ELSE e - s + 1

\* f is right where there are at most n turns.
Upto(f, n, table, x) ==
  /\ f = [b \in (0..Word) \X (0..Word) |-> f[b]]
  /\ \A s, e \in 0..Word : Rank(s, e, table) <= n => f[<<s, e>>] = Turn(f, s, e, table, x)

\* Remainders the search meets.
LEMMA BelowWord ==
  ASSUME Word \in Nat \ {0}, NEW k \in Int, k < Word, -1 <= k
  PROVE  k % Word = IF k = -1 THEN Word - 1 ELSE k
<1>1. CASE k = -1
  BY <1>1
<1>2. CASE k # -1
  BY <1>2
<1> QED BY <1>1, <1>2

\* Another turn leaves fewer turns.
LEMMA RankFalls ==
  ASSUME NEW table, Word \in Nat, Len(table) \in Nat, 2 * Len(table) < Word,
         NEW s \in 0..Word, NEW e \in 0..Word, s <= e,
         NEW mid, mid = (s + e) \div 2, mid < Len(table)
  PROVE  /\ mid \in s..e /\ mid + 1 \in 0..Word /\ (mid - 1) % Word \in 0..Word
         /\ Rank(s, e, table) = e - s + 1
         /\ Rank(mid + 1, e, table) < e - s + 1
         /\ Rank(s, (mid - 1) % Word, table) < e - s + 1
<1>1. mid \in s..e /\ mid \in Nat
  OBVIOUS
<1>2. (mid - 1) % Word = IF mid = 0 THEN Word - 1 ELSE mid - 1
  <2> DEFINE k == mid - 1
  <2>1. k \in Int /\ k < Word /\ -1 <= k /\ Word \in Nat \ {0}
    BY <1>1
  <2>2. mid = 0 <=> k = -1
    BY <1>1
  <2> HIDE DEF k
  <2>3. k % Word = IF k = -1 THEN Word - 1 ELSE k
    BY <2>1, BelowWord
  <2> QED BY <2>2, <2>3 DEF k
<1>3. mid = 0 => Rank(s, Word - 1, table) = 0
  BY <1>1 DEF Rank
<1>4. mid # 0 => Rank(s, mid - 1, table) < e - s + 1
  BY <1>1 DEF Rank
<1>5. Rank(s, e, table) = e - s + 1 /\ Rank(mid + 1, e, table) < e - s + 1
  BY <1>1 DEF Rank
<1> QED BY <1>1, <1>2, <1>3, <1>4, <1>5

\* Functions that agree where fewer turns are left give a turn the same answer.
LEMMA TurnLocal ==
  ASSUME NEW table, NEW x, NEW f, NEW g, Word \in Nat, Len(table) \in Nat,
         2 * Len(table) < Word, NEW s \in 0..Word, NEW e \in 0..Word,
         \A u, v \in 0..Word : Rank(u, v, table) < Rank(s, e, table) => f[<<u, v>>] = g[<<u, v>>]
  PROVE  Turn(f, s, e, table, x) = Turn(g, s, e, table, x)
<1>1. CASE s > e \/ (s + e) \div 2 >= Len(table)
  BY <1>1 DEF Turn
<1>2. CASE s <= e /\ (s + e) \div 2 < Len(table)
  <2> DEFINE mid == (s + e) \div 2
  <2> HIDE DEF mid
  <2>1. /\ mid \in s..e /\ mid + 1 \in 0..Word /\ (mid - 1) % Word \in 0..Word
        /\ Rank(s, e, table) = e - s + 1
        /\ Rank(mid + 1, e, table) < e - s + 1
        /\ Rank(s, (mid - 1) % Word, table) < e - s + 1
    BY <1>2, RankFalls DEF mid
  <2>2. f[<<mid + 1, e>>] = g[<<mid + 1, e>>] /\ f[<<s, (mid - 1) % Word>>] = g[<<s, (mid - 1) % Word>>]
    BY <2>1
  <2> QED BY <2>2 DEF Turn, mid
<1> QED BY <1>1, <1>2

\* The recursion defines a function: there are at most Word + 1 turns.
LEMMA SearchExists ==
  ASSUME NEW table, NEW x, Word \in Nat, Len(table) \in Nat, 2 * Len(table) < Word
  PROVE  IsSearch(SearchOf(table, x), table, x)
<1> SUFFICES \E f : IsSearch(f, table, x)
  BY DEF SearchOf
<1>1. \A s, e \in 0..Word : Rank(s, e, table) \in 0..(Word + 1)
  BY DEF Rank
<1> DEFINE B == {n \in Nat : ~ \E f : Upto(f, n, table, x)}
<1>2. B = {}
  <2> SUFFICES ASSUME B # {} PROVE FALSE
    OBVIOUS
  <2>1. PICK m \in B : \A k \in B : m <= k
    <3>1. B \in SUBSET Nat
      OBVIOUS
    <3> HIDE DEF B
    <3> QED BY <3>1, LeastNatural
  <2>2. m \in Nat /\ ~ \E f : Upto(f, m, table, x)
    OBVIOUS
  <2>3. CASE m = 0
    <3> DEFINE f == [b \in (0..Word) \X (0..Word) |-> IF b[1] > b[2] THEN 0 ELSE -1]
    <3>1. f = [b \in (0..Word) \X (0..Word) |-> f[b]]
      OBVIOUS
    <3>2. ASSUME NEW s \in 0..Word, NEW e \in 0..Word, Rank(s, e, table) <= 0
          PROVE  f[<<s, e>>] = Turn(f, s, e, table, x)
      <4>1. s > e \/ (s + e) \div 2 >= Len(table)
        BY <3>2 DEF Rank
      <4>2. f[<<s, e>>] = IF s > e THEN 0 ELSE -1
        OBVIOUS
      <4> HIDE DEF f
      <4> QED BY <4>1, <4>2 DEF Turn
    <3> HIDE DEF f
    <3>3. Upto(f, 0, table, x)
      BY <3>1, <3>2 DEF Upto
    <3> QED BY <2>2, <2>3, <3>3
  <2>4. CASE m # 0
    <3>1. m - 1 \in Nat /\ m - 1 \notin B
      BY <2>1, <2>2, <2>4
    <3>2. PICK f : Upto(f, m - 1, table, x)
      BY <3>1
    <3> HIDE DEF B
    <3> DEFINE g == [b \in (0..Word) \X (0..Word) |-> Turn(f, b[1], b[2], table, x)]
    <3>3. \A s, e \in 0..Word : g[<<s, e>>] = Turn(f, s, e, table, x)
      OBVIOUS
    <3>4. g = [b \in (0..Word) \X (0..Word) |-> g[b]]
      OBVIOUS
    <3> HIDE DEF g
    <3>5. \A s, e \in 0..Word : Rank(s, e, table) <= m - 1 => g[<<s, e>>] = f[<<s, e>>]
      BY <3>2, <3>3 DEF Upto
    <3>6. ASSUME NEW s \in 0..Word, NEW e \in 0..Word, Rank(s, e, table) <= m
          PROVE  g[<<s, e>>] = Turn(g, s, e, table, x)
      <4>1. \A u, v \in 0..Word : Rank(u, v, table) < Rank(s, e, table) => f[<<u, v>>] = g[<<u, v>>]
        <5> TAKE u, v \in 0..Word
        <5>1. Rank(u, v, table) \in 0..(Word + 1) /\ Rank(s, e, table) \in 0..(Word + 1)
          BY <1>1
        <5>2. Rank(u, v, table) < Rank(s, e, table) => Rank(u, v, table) <= m - 1
          <6>1. Rank(s, e, table) <= m /\ m \in Int
            BY <2>2, <3>6
          <6> QED BY <5>1, <6>1
        <5> QED BY <3>5, <5>2
      <4>2. Turn(f, s, e, table, x) = Turn(g, s, e, table, x)
        BY <4>1, TurnLocal
      <4> QED BY <3>3, <4>2
    <3>7. Upto(g, m, table, x)
      BY <3>4, <3>6 DEF Upto
    <3> QED BY <2>2, <3>7
  <2> QED BY <2>3, <2>4
<1>3. PICK f : Upto(f, Word + 1, table, x)
  <2>1. Word + 1 \in Nat
    OBVIOUS
  <2>2. Word + 1 \notin B
    <3> HIDE DEF B
    <3> QED BY <1>2
  <2> QED BY <2>1, <2>2
<1>4. IsSearch(f, table, x)
  <2>1. \A s, e \in 0..Word : f[<<s, e>>] = Turn(f, s, e, table, x)
    <3> TAKE s, e \in 0..Word
    <3>1. Rank(s, e, table) <= Word + 1
      BY <1>1
    <3> QED BY <1>3, <3>1 DEF Upto
  <2>2. \A b \in (0..Word) \X (0..Word) : f[b] = Turn(f, b[1], b[2], table, x)
    <3> TAKE b \in (0..Word) \X (0..Word)
    <3>1. b = <<b[1], b[2]>> /\ b[1] \in 0..Word /\ b[2] \in 0..Word
      OBVIOUS
    <3>2. f[<<b[1], b[2]>>] = Turn(f, b[1], b[2], table, x)
      BY <2>1, <3>1
    <3> QED BY <3>1, <3>2
  <2>3. f = [b \in (0..Word) \X (0..Word) |-> f[b]]
    BY <1>3 DEF Upto
  <2> QED BY <2>2, <2>3 DEF IsSearch
<1> QED BY <1>4

\* The bounds after a turn to the left.
LEMMA LeftBounds ==
  ASSUME Word \in Nat \ {0}, NEW len \in Nat, len < Word, NEW n \in 1..len,
         NEW s \in 0..(n - 1), NEW e \in (n - 1)..(len - 1), NEW mid \in s..e, n < mid + 1
  PROVE  /\ (mid - 1) % Word = mid - 1 /\ mid - 1 \in (n - 1)..(len - 1)
         /\ (mid - 1) - s < e - s /\ mid - 1 \in 0..Word
<1> DEFINE k == mid - 1
<1>1. k \in Int /\ k < Word /\ -1 <= k /\ k # -1
  OBVIOUS
<1> HIDE DEF k
<1>2. k % Word = k
  BY <1>1, BelowWord
<1>3. /\ k \in (n - 1)..(len - 1) /\ k - s < e - s /\ k \in 0..Word
  BY DEF k
<1> QED BY <1>2, <1>3 DEF k

\* In a sorted table the search finds the function n an address is inside of.
LEMMA SearchFinds ==
  ASSUME NEW table, NEW x \in Int, Word \in Nat, Len(table) \in Nat, 2 * Len(table) < Word,
         NEW n \in 1..Len(table),
         \A k \in 1..Len(table) : table[k].start \in Nat /\ table[k].end \in Nat
                                  /\ table[k].start < table[k].end,
         \A k \in 1..Len(table) : \A j \in 1..(k - 1) : table[j].end <= table[k].start,
         table[n].start < x, x < table[n].end
  PROVE  SearchOf(table, x)[<<0, (Len(table) - 1) % Word>>] = n
<1> DEFINE f == SearchOf(table, x)
<1> HIDE DEF f
<1>1. \A s, e \in 0..Word : f[<<s, e>>] = Turn(f, s, e, table, x)
  <2>1. IsSearch(f, table, x)
    BY SearchExists DEF f
  <2> QED BY <2>1 DEF IsSearch
<1>2. ASSUME NEW k \in 1..Len(table), k < n PROVE ~IsInRuntimeFunc(table[k], x) /\ x > table[k].end
  <2>1. k \in 1..(n - 1)
    BY <1>2
  <2>2. table[k].end <= table[n].start /\ table[k].end \in Nat /\ table[n].start \in Nat
    BY <2>1
  <2> QED BY <2>2 DEF IsInRuntimeFunc
<1>3. ASSUME NEW k \in 1..Len(table), n < k PROVE ~IsInRuntimeFunc(table[k], x) /\ ~(x > table[k].end)
  <2>1. n \in 1..(k - 1)
    BY <1>3
  <2>2. /\ table[n].end <= table[k].start /\ table[n].end \in Nat
        /\ table[k].start \in Nat /\ table[k].end \in Nat /\ table[k].start < table[k].end
    BY <2>1
  <2> QED BY <2>2 DEF IsInRuntimeFunc
<1>4. IsInRuntimeFunc(table[n], x)
  <2>1. table[n].start \in Nat /\ table[n].end \in Nat
    OBVIOUS
  <2> QED BY <2>1 DEF IsInRuntimeFunc
<1> DEFINE Between(s, e) == s \in 0..(n - 1) /\ e \in (n - 1)..(Len(table) - 1)
           B == {d \in Nat : \E s, e \in 0..Word : Between(s, e) /\ d = e - s /\ f[<<s, e>>] # n}
<1>5. B = {}
  <2> SUFFICES ASSUME B # {} PROVE FALSE
    OBVIOUS
  <2>1. PICK m \in B : \A k \in B : m <= k
    <3>1. B \in SUBSET Nat
      OBVIOUS
    <3> HIDE DEF B
    <3> QED BY <3>1, LeastNatural
  <2>2. PICK s \in 0..Word, e \in 0..Word : Between(s, e) /\ m = e - s /\ f[<<s, e>>] # n
    OBVIOUS
  <2>3. ASSUME NEW u \in 0..Word, NEW v \in 0..Word, Between(u, v), v - u < e - s
        PROVE  f[<<u, v>>] = n
    <3> SUFFICES ASSUME f[<<u, v>>] # n PROVE FALSE
      OBVIOUS
    <3>1. v - u \in Nat
      BY <2>3
    <3>2. v - u \in B
      BY <2>3, <3>1
    <3> HIDE DEF B
    <3> QED BY <2>1, <2>2, <2>3, <3>2
  <2> HIDE DEF B
  <2>4. PICK mid : mid = (s + e) \div 2
    OBVIOUS
  <2>5. mid \in s..e /\ mid + 1 \in 1..Len(table) /\ mid + 1 \in 0..Word /\ s <= e /\ mid < Len(table)
        /\ s \in Int /\ e \in Int /\ mid \in Int /\ n \in Int
    BY <2>2, <2>4
  <2>6. f[<<s, e>>] = IF IsInRuntimeFunc(table[mid + 1], x) THEN mid + 1
                     ELSE IF x > table[mid + 1].end THEN f[<<mid + 1, e>>]
                     ELSE f[<<s, (mid - 1) % Word>>]
    <3>1. ~(s > e) /\ ~(mid >= Len(table))
      BY <2>5
    <3> QED BY <1>1, <2>4, <3>1 DEF Turn
  <2>7. CASE mid + 1 = n
    BY <1>4, <2>2, <2>6, <2>7
  <2>8. CASE mid + 1 < n
    <3>1. Between(mid + 1, e) /\ e - (mid + 1) < e - s
      BY <2>2, <2>5, <2>8
    <3>2. f[<<mid + 1, e>>] = n
      BY <2>3, <2>5, <3>1
    <3> QED BY <1>2, <2>2, <2>5, <2>6, <2>8, <3>2
  <2>9. CASE n < mid + 1
    <3>1. s \in 0..(n - 1) /\ e \in (n - 1)..(Len(table) - 1)
      BY <2>2
    <3>2. /\ (mid - 1) % Word = mid - 1 /\ Between(s, mid - 1)
          /\ (mid - 1) - s < e - s /\ mid - 1 \in 0..Word
      <4>1. Len(table) < Word /\ Word \in Nat \ {0} /\ Len(table) \in Nat /\ n \in 1..Len(table)
        OBVIOUS
      <4>2. mid \in s..e
        BY <2>5
      <4> HIDE DEF Between
      <4>3. /\ (mid - 1) % Word = mid - 1 /\ mid - 1 \in (n - 1)..(Len(table) - 1)
            /\ (mid - 1) - s < e - s /\ mid - 1 \in 0..Word
        BY ONLY <2>9, <3>1, <4>1, <4>2, LeftBounds
      <4> QED BY <3>1, <4>3 DEF Between
    <3>3. f[<<s, mid - 1>>] = n
      <4> DEFINE k == mid - 1
      <4>1. Between(s, k) /\ k - s < e - s /\ k \in 0..Word /\ s \in 0..Word
        BY <3>2
      <4> HIDE DEF k, Between
      <4>2. f[<<s, k>>] = n
        BY <2>3, <4>1
      <4> QED BY <4>2 DEF k
    <3> QED BY <1>3, <2>2, <2>5, <2>6, <2>9, <3>2, <3>3
  <2> QED BY <2>5, <2>7, <2>8, <2>9
<1>6. (Len(table) - 1) % Word = Len(table) - 1
  <2> DEFINE k == Len(table) - 1
  <2>1. k \in Int /\ k < Word /\ -1 <= k /\ k # -1 /\ Word \in Nat \ {0}
    OBVIOUS
  <2> HIDE DEF k
  <2>2. k % Word = k
    BY <2>1, BelowWord
  <2> QED BY <2>2 DEF k
<1>7. f[<<0, Len(table) - 1>>] = n
  <2> SUFFICES ASSUME f[<<0, Len(table) - 1>>] # n PROVE FALSE
    OBVIOUS
  <2>1. 0 \in 0..Word /\ Len(table) - 1 \in 0..Word /\ Between(0, Len(table) - 1)
    OBVIOUS
  <2>2. Len(table) - 1 \in Nat /\ Len(table) - 1 = (Len(table) - 1) - 0
    BY <2>1
  <2>3. Len(table) - 1 \in B
    BY <2>1, <2>2
  <2> HIDE DEF B
  <2> QED BY <1>5, <2>3
<1> QED BY <1>6, <1>7 DEF f

\* A record of an image finds the function a pc is inside of.
LEMMA FunctionFound ==
  ASSUME NEW r, NEW pc, r.file \in Files, r.base \in Int, FunctionsOK,
         NEW n \in 1..Len(Image[r.file].functions),
         pc = r.base + Image[r.file].functions[n].start + 1
  PROVE  GetRuntimeFunction(r, pc) = n
<1> DEFINE table == Image[r.file].functions
           x == pc - r.base
<1>1. /\ Word \in Nat /\ Len(table) \in Nat /\ 2 * Len(table) < Word
      /\ \A k \in 1..Len(table) :
           /\ table[k].start \in Nat /\ table[k].end \in Nat
           /\ table[k].start + 1 < table[k].end
           /\ \A j \in 1..(k - 1) : table[j].end <= table[k].start
  BY DEF FunctionsOK, TableOK
<1>2. x \in Int /\ table[n].start < x /\ x < table[n].end
  <2>1. table[n].start \in Nat /\ table[n].start + 1 < table[n].end /\ table[n].end \in Nat
    BY <1>1
  <2> QED BY <2>1
<1>3. n \in 1..Len(table)
  OBVIOUS
<1>4. GetRuntimeFunction(r, pc) = SearchOf(table, x)[<<0, (Len(table) - 1) % Word>>]
  BY DEF GetRuntimeFunction, SearchOf, IsSearch, Turn
<1> HIDE DEF table, x
<1>5. \A k \in 1..Len(table) : table[k].start < table[k].end
  <2> TAKE k \in 1..Len(table)
  <2>1. table[k].start \in Nat /\ table[k].end \in Nat /\ table[k].start + 1 < table[k].end
    BY <1>1
  <2> QED BY <2>1
<1>6. SearchOf(table, x)[<<0, (Len(table) - 1) % Word>>] = n
  BY <1>1, <1>2, <1>3, <1>5, SearchFinds
<1> QED BY <1>4, <1>6

-----------------------------------------------------------------------------
(* Images *)

ImageRecords == [file : Files, base : Bases]
Mapped(s) == {s[n] : n \in DOMAIN s}

\* Images of different files at different places.
Apart(s) ==
  /\ s \in Seq(ImageRecords)
  /\ \A m, n \in DOMAIN s : s[m].file = s[n].file \/ s[m].base = s[n].base => m = n

\* The image of a list an address is in.
AtIn(s, a) ==
  LET found == {image \in Mapped(s) : Covers(image, a)} IN
    IF found = {} THEN [file |-> None, base |-> 0] ELSE CHOOSE image \in found : TRUE

LEMMA ApartFacts ==
  ASSUME NEW s, Apart(s)
  PROVE  /\ Len(s) \in Nat /\ DOMAIN s = 1..Len(s)
         /\ \A n \in 1..Len(s) : s[n] \in ImageRecords /\ s[n].file \in Files /\ s[n].base \in Bases
         /\ \A image \in Mapped(s) : image \in ImageRecords /\ image.file \in Files /\ image.base \in Bases
         /\ \A i, j \in Mapped(s) : i.file = j.file \/ i.base = j.base => i = j
<1>1. Len(s) \in Nat /\ DOMAIN s = 1..Len(s) /\ \A n \in 1..Len(s) : s[n] \in ImageRecords
  BY LenProperties, ElementOfSeq DEF Apart
<1>2. \A r \in ImageRecords : r.file \in Files /\ r.base \in Bases
  BY DEF ImageRecords
<1> QED BY <1>1, <1>2 DEF Apart, Mapped

\* No address is in two images.
LEMMA CoversOnce ==
  ASSUME ImagesOK, NEW a \in Int, NEW i \in ImageRecords, NEW j \in ImageRecords,
         Covers(i, a), Covers(j, a)
  PROVE  i.base = j.base
<1>1. /\ i.file \in Files /\ i.base \in Bases /\ i.base \in Int
      /\ j.file \in Files /\ j.base \in Bases /\ j.base \in Int
  BY DEF ImageRecords, ImagesOK
<1>2. Image[i.file].size \in Nat /\ Image[j.file].size \in Nat
  BY <1>1 DEF ImagesOK, TablesOK
<1>3. /\ i.base < j.base => i.base + Image[i.file].size <= j.base
      /\ j.base < i.base => j.base + Image[j.file].size <= i.base
  BY <1>1 DEF ImagesOK
<1> QED BY <1>1, <1>2, <1>3 DEF Covers

LEMMA AtInFound ==
  ASSUME ImagesOK, NEW s, Apart(s), NEW a \in Int
  PROVE  /\ \A image \in Mapped(s) : Covers(image, a) => AtIn(s, a) = image
         /\ AtIn(s, a).file # None => AtIn(s, a) \in Mapped(s) /\ Covers(AtIn(s, a), a)
<1> DEFINE found == {image \in Mapped(s) : Covers(image, a)}
<1>1. \A i, j \in found : i = j
  BY ApartFacts, CoversOnce
<1>2. CASE found = {}
  <2>1. AtIn(s, a) = [file |-> None, base |-> 0]
    BY <1>2 DEF AtIn
  <2> QED BY <1>2, <2>1
<1>3. CASE found # {}
  <2>1. AtIn(s, a) \in found
    BY <1>3 DEF AtIn
  <2> QED BY <1>1, <2>1
<1> QED BY <1>2, <1>3

\* An address stays in its image as long as that is mapped.
LEMMA AtInKept ==
  ASSUME ImagesOK, NEW s, Apart(s), NEW u, Apart(u), NEW a \in Int,
         AtIn(s, a).file # None, AtIn(s, a) \in Mapped(u)
  PROVE  AtIn(u, a) = AtIn(s, a)
BY AtInFound

\* The image at its own base.
LEMMA AtBase ==
  ASSUME ImagesOK, NEW s, Apart(s), NEW a \in Int, AtIn(s, a).file # None
  PROVE  AtIn(s, AtIn(s, a).base) = AtIn(s, a) /\ AtIn(s, a).base \in Int
<1> DEFINE i == AtIn(s, a)
<1> HIDE DEF i
<1>1. i \in Mapped(s) /\ Covers(i, a)
  BY AtInFound DEF i
<1>2. i.file \in Files /\ i.base \in Int
  BY <1>1, ApartFacts DEF ImagesOK
<1>3. Image[i.file].size \in Nat
  BY <1>2 DEF ImagesOK, TablesOK
<1>4. Covers(i, i.base)
  BY <1>1, <1>2, <1>3 DEF Covers
<1>5. AtIn(s, i.base) = i
  BY <1>1, <1>2, <1>4, AtInFound
<1> QED BY <1>2, <1>5 DEF i

LEMMA AppendApart ==
  ASSUME NEW s, Apart(s), NEW r \in ImageRecords,
         \A i \in Mapped(s) : i.file # r.file /\ i.base # r.base
  PROVE  /\ Apart(Append(s, r)) /\ Mapped(Append(s, r)) = Mapped(s) \union {r}
         /\ Len(Append(s, r)) = Len(s) + 1
         /\ \A n \in 1..Len(s) : Append(s, r)[n] = s[n]
<1> DEFINE u == Append(s, r)
<1>1. s \in Seq(ImageRecords) /\ Len(s) \in Nat /\ DOMAIN s = 1..Len(s)
  BY ApartFacts DEF Apart
<1>2. /\ u \in Seq(ImageRecords) /\ Len(u) = Len(s) + 1 /\ DOMAIN u = 1..(Len(s) + 1)
      /\ u[Len(s) + 1] = r /\ \A n \in 1..Len(s) : u[n] = s[n]
  BY <1>1, AppendProperties, LenProperties
<1> HIDE DEF u
<1>3. \A n \in 1..(Len(s) + 1) : n = Len(s) + 1 \/ n \in 1..Len(s)
  BY <1>1
<1>4. Mapped(u) = Mapped(s) \union {r}
  <2>1. Len(s) + 1 \in 1..(Len(s) + 1) /\ \A n \in 1..Len(s) : n \in 1..(Len(s) + 1)
    BY <1>1
  <2> QED BY <1>1, <1>2, <1>3, <2>1 DEF Mapped
<1>5. ASSUME NEW m \in DOMAIN u, NEW n \in DOMAIN u, u[m].file = u[n].file \/ u[m].base = u[n].base
      PROVE  m = n
  <2>1. CASE m \in 1..Len(s) /\ n \in 1..Len(s)
    BY <1>1, <1>2, <1>5, <2>1 DEF Apart
  <2>2. \A k \in 1..Len(s) : u[k] \in Mapped(s)
    BY <1>1, <1>2 DEF Mapped
  <2>3. CASE m = Len(s) + 1 /\ n = Len(s) + 1
    BY <2>3
  <2>4. CASE ~(m \in 1..Len(s) <=> n \in 1..Len(s))
    BY <1>2, <1>3, <1>5, <2>2, <2>4
  <2> QED BY <1>2, <1>3, <2>1, <2>3, <2>4
<1>6. Apart(u)
  BY <1>2, <1>5 DEF Apart
<1> QED BY <1>2, <1>4, <1>6 DEF u

\* What is left when the image at n goes; those behind it move up.
LEMMA RemoveApart ==
  ASSUME NEW s, Apart(s), NEW n \in DOMAIN s
  PROVE  /\ Apart(RemoveAt(s, n)) /\ Mapped(RemoveAt(s, n)) = Mapped(s) \ {s[n]}
         /\ Len(RemoveAt(s, n)) = Len(s) - 1
         /\ \A m \in 1..(Len(s) - 1) : RemoveAt(s, n)[m] = s[IF m < n THEN m ELSE m + 1]
<1> DEFINE p == SubSeq(s, 1, n - 1)
           q == SubSeq(s, n + 1, Len(s))
           u == RemoveAt(s, n)
<1>1. s \in Seq(ImageRecords) /\ Len(s) \in Nat /\ DOMAIN s = 1..Len(s) /\ n \in 1..Len(s)
  BY ApartFacts DEF Apart
<1>2. /\ p \in Seq(ImageRecords) /\ Len(p) = n - 1 /\ \A m \in 1..(n - 1) : p[m] = s[m]
  <2>1. /\ 1 \in 1..(Len(s) + 1) /\ n - 1 \in 0..Len(s) /\ n - 1 \in (1 - 1)..Len(s)
        /\ \A k \in 1..(n - 1) : k \in 1..Len(s)
    BY <1>1
  <2> QED BY <1>1, <2>1, SubSeqProperties
<1>3. /\ q \in Seq(ImageRecords) /\ Len(q) = Len(s) - n
      /\ \A m \in 1..(Len(s) - n) : q[m] = s[n + m]
  <2>1. /\ n + 1 \in 1..(Len(s) + 1) /\ Len(s) \in n..Len(s)
        /\ \A k \in (n + 1)..Len(s) : k \in 1..Len(s)
    BY <1>1
  <2> QED BY <1>1, <2>1, SubSeqProperties
<1>4. u = p \o q
  BY DEF RemoveAt
<1> HIDE DEF p, q, u
<1>5. u \in Seq(ImageRecords) /\ Len(u) = Len(s) - 1 /\ DOMAIN u = 1..(Len(s) - 1)
  <2>1. u \in Seq(ImageRecords) /\ Len(u) = Len(p) + Len(q)
    BY <1>2, <1>3, <1>4, ConcatProperties
  <2>2. Len(p) + Len(q) = Len(s) - 1
    BY <1>1, <1>2, <1>3
  <2>3. DOMAIN u = 1..Len(u)
    BY <2>1, LenProperties
  <2> QED BY <2>1, <2>2, <2>3
<1>6. \A m \in 1..(Len(s) - 1) : u[m] = s[IF m < n THEN m ELSE m + 1]
  <2> TAKE m \in 1..(Len(s) - 1)
  <2>1. u[m] = IF m <= Len(p) THEN p[m] ELSE q[m - Len(p)]
    BY <1>1, <1>2, <1>3, <1>4, ConcatProperties
  <2>2. CASE m < n
    BY <1>1, <1>2, <2>1, <2>2
  <2>3. CASE ~(m < n)
    <3>1. m - (n - 1) \in 1..(Len(s) - n) /\ n + (m - (n - 1)) = m + 1 /\ ~(m <= n - 1)
      BY <1>1, <2>3
    <3> QED BY <1>2, <1>3, <2>1, <2>3, <3>1
  <2> QED BY <2>2, <2>3
<1> DEFINE old(m) == IF m < n THEN m ELSE m + 1
<1>7. /\ \A m \in 1..(Len(s) - 1) : old(m) \in 1..Len(s) /\ old(m) # n
      /\ \A m, k \in 1..(Len(s) - 1) : old(m) = old(k) => m = k
      /\ \A k \in 1..Len(s) : k # n => \E m \in 1..(Len(s) - 1) : old(m) = k
  <2>1. \A k \in 1..Len(s) : k # n => \E m \in 1..(Len(s) - 1) : old(m) = k
    <3> TAKE k \in 1..Len(s)
    <3> HAVE k # n
    <3>1. CASE k < n
      <4> WITNESS k \in 1..(Len(s) - 1)
      <4> QED BY <3>1
    <3>2. CASE n < k
      <4> WITNESS k - 1 \in 1..(Len(s) - 1)
      <4> QED BY <1>1, <3>2
    <3> QED BY <1>1, <3>1, <3>2
  <2>2. \A m \in 1..(Len(s) - 1) : old(m) \in 1..Len(s) /\ old(m) # n
    BY <1>1
  <2>3. \A m, k \in 1..(Len(s) - 1) : old(m) = old(k) => m = k
    BY <1>1
  <2> QED BY <2>1, <2>2, <2>3
<1>8. \A m \in 1..(Len(s) - 1) : u[m] = s[old(m)]
  BY <1>6
<1> HIDE DEF old
<1>9. Apart(u)
  <2> SUFFICES ASSUME NEW m \in 1..(Len(s) - 1), NEW k \in 1..(Len(s) - 1),
                      u[m].file = u[k].file \/ u[m].base = u[k].base
               PROVE  m = k
    BY <1>5 DEF Apart
  <2>1. old(m) = old(k)
    <3>1. s[old(m)].file = s[old(k)].file \/ s[old(m)].base = s[old(k)].base
      BY <1>8
    <3>2. old(m) \in DOMAIN s /\ old(k) \in DOMAIN s
      BY <1>1, <1>7
    <3> QED BY <3>1, <3>2 DEF Apart
  <2> QED BY <1>7, <2>1
<1>10. Mapped(u) = Mapped(s) \ {s[n]}
  <2>1. ASSUME NEW i \in Mapped(u) PROVE i \in Mapped(s) \ {s[n]}
    <3>1. PICK m \in 1..(Len(s) - 1) : i = u[m]
      BY <1>5 DEF Mapped
    <3>2. old(m) \in DOMAIN s /\ old(m) # n /\ i = s[old(m)]
      BY <1>1, <1>7, <1>8, <3>1
    <3>3. s[old(m)].file # s[n].file
      BY <3>2 DEF Apart
    <3> QED BY <3>2, <3>3 DEF Mapped
  <2>2. ASSUME NEW i \in Mapped(s) \ {s[n]} PROVE i \in Mapped(u)
    <3>1. PICK k \in 1..Len(s) : i = s[k] /\ k # n
      BY <1>1 DEF Mapped
    <3>2. PICK m \in 1..(Len(s) - 1) : old(m) = k
      BY <1>7, <3>1
    <3>3. i = u[m] /\ m \in DOMAIN u
      BY <1>5, <1>8, <3>1, <3>2
    <3> QED BY <3>3 DEF Mapped
  <2> QED BY <2>1, <2>2
<1> QED BY <1>5, <1>6, <1>9, <1>10 DEF u

-----------------------------------------------------------------------------
(* The loader *)

\* What is mapped is what somebody loaded.
ImagesHold ==
  /\ platform \in {"windows", "linux", "macos"}
  /\ Apart(images)
  /\ refs \in [Files -> Nat]
  /\ \A f \in Files : refs[f] > 0 <=> \E n \in DOMAIN images : images[n].file = f

SymbolOf(image, a) ==
  NameOfOrdinal(Image[image.file].names, CandidateIndex(Image[image.file].exports, a - image.base))

\* A record with the fields of a question.
Question(q) ==
  q = [step |-> q.step, address |-> q.address, handler |-> q.handler, ret |-> q.ret,
       file |-> q.file, answer |-> [path |-> q.answer.path, symbol |-> q.answer.symbol]]

\* The updates a question sees.
WithStep(q, s) == [q EXCEPT !.step = s]
WithHandler(q, s, v) == [q EXCEPT !.step = s, !.handler = v]
WithRet(q, s, v) == [q EXCEPT !.step = s, !.ret = v]
WithPath(q, s, v) == [q EXCEPT !.step = s, !.answer.path = v]
WithSymbol(q, s, v) == [q EXCEPT !.step = s, !.answer.symbol = v]
WithoutFile(q) == [q EXCEPT !.file = None]

\* The same field by field.
SetHandler(q, v) == [q EXCEPT !.handler = v]
SetRet(q, v) == [q EXCEPT !.ret = v]
SetAnswer(q, v) == [q EXCEPT !.answer = v]
SetPath(a, v) == [a EXCEPT !.path = v]
SetSymbol(a, v) == [a EXCEPT !.symbol = v]
Asked(a, b, c, d, e, f) ==
  [step |-> a, address |-> b, handler |-> c, ret |-> d, file |-> e, answer |-> f]
AnswerOf(g, h) == [path |-> g, symbol |-> h]

LEMMA AskedExcept ==
  ASSUME NEW a, NEW b, NEW c, NEW d, NEW e, NEW f, NEW g
  PROVE  /\ WithStep(Asked(a, b, c, d, e, f), g) = Asked(g, b, c, d, e, f)
         /\ SetHandler(Asked(a, b, c, d, e, f), g) = Asked(a, b, g, d, e, f)
         /\ SetRet(Asked(a, b, c, d, e, f), g) = Asked(a, b, c, g, e, f)
         /\ SetAnswer(Asked(a, b, c, d, e, f), g) = Asked(a, b, c, d, e, g)
         /\ WithoutFile(Asked(a, b, c, d, e, f)) = Asked(a, b, c, d, None, f)
         /\ Asked(a, b, c, d, e, f).answer = f
BY DEF Asked, WithStep, SetHandler, SetRet, SetAnswer, WithoutFile

LEMMA AnswerOfExcept ==
  ASSUME NEW g, NEW h, NEW v
  PROVE  /\ SetPath(AnswerOf(g, h), v) = AnswerOf(v, h)
         /\ SetSymbol(AnswerOf(g, h), v) = AnswerOf(g, v)
BY DEF AnswerOf, SetPath, SetSymbol

LEMMA UpdatesInSteps ==
  ASSUME NEW q, NEW s, NEW v
  PROVE  /\ WithHandler(q, s, v) = SetHandler(WithStep(q, s), v)
         /\ WithRet(q, s, v) = SetRet(WithStep(q, s), v)
         /\ WithPath(q, s, v) = SetAnswer(WithStep(q, s), SetPath(WithStep(q, s).answer, v))
         /\ WithSymbol(q, s, v) = SetAnswer(WithStep(q, s), SetSymbol(WithStep(q, s).answer, v))
BY DEF WithHandler, WithRet, WithPath, WithSymbol, WithStep, SetHandler, SetRet, SetAnswer, SetPath, SetSymbol

LEMMA QuestionUpdates ==
  ASSUME NEW q, Question(q), NEW s, NEW v
  PROVE  /\ WithStep(q, s) =
                [step |-> s, address |-> q.address, handler |-> q.handler, ret |-> q.ret,
                 file |-> q.file, answer |-> [path |-> q.answer.path, symbol |-> q.answer.symbol]]
         /\ WithoutFile(q) =
                [step |-> q.step, address |-> q.address, handler |-> q.handler, ret |-> q.ret,
                 file |-> None, answer |-> [path |-> q.answer.path, symbol |-> q.answer.symbol]]
         /\ WithHandler(q, s, v) =
                [step |-> s, address |-> q.address, handler |-> v, ret |-> q.ret,
                 file |-> q.file, answer |-> [path |-> q.answer.path, symbol |-> q.answer.symbol]]
         /\ WithRet(q, s, v) =
                [step |-> s, address |-> q.address, handler |-> q.handler, ret |-> v,
                 file |-> q.file, answer |-> [path |-> q.answer.path, symbol |-> q.answer.symbol]]
         /\ WithPath(q, s, v) =
                [step |-> s, address |-> q.address, handler |-> q.handler, ret |-> q.ret,
                 file |-> q.file, answer |-> [path |-> v, symbol |-> q.answer.symbol]]
         /\ WithSymbol(q, s, v) =
                [step |-> s, address |-> q.address, handler |-> q.handler, ret |-> q.ret,
                 file |-> q.file, answer |-> [path |-> q.answer.path, symbol |-> v]]
<1>1. q = Asked(q.step, q.address, q.handler, q.ret, q.file, AnswerOf(q.answer.path, q.answer.symbol))
  BY DEF Question, Asked, AnswerOf
<1>2. /\ WithStep(q, s) = Asked(s, q.address, q.handler, q.ret, q.file, AnswerOf(q.answer.path, q.answer.symbol))
      /\ WithoutFile(q) = Asked(q.step, q.address, q.handler, q.ret, None, AnswerOf(q.answer.path, q.answer.symbol))
  BY <1>1, AskedExcept
<1>3. /\ WithHandler(q, s, v) = Asked(s, q.address, v, q.ret, q.file, AnswerOf(q.answer.path, q.answer.symbol))
      /\ WithRet(q, s, v) = Asked(s, q.address, q.handler, v, q.file, AnswerOf(q.answer.path, q.answer.symbol))
      /\ WithStep(q, s).answer = AnswerOf(q.answer.path, q.answer.symbol)
  BY <1>2, AskedExcept, UpdatesInSteps
<1>4. /\ WithPath(q, s, v) = Asked(s, q.address, q.handler, q.ret, q.file, AnswerOf(v, q.answer.symbol))
      /\ WithSymbol(q, s, v) = Asked(s, q.address, q.handler, q.ret, q.file, AnswerOf(q.answer.path, v))
  BY <1>2, <1>3, AskedExcept, AnswerOfExcept, UpdatesInSteps
<1> QED BY <1>2, <1>3, <1>4 DEF Asked, AnswerOf

\* A question whose image was mapped all the time has seen that image alone.
Follows(q, s) ==
  /\ q.address \in Int /\ q.file \in Files \union {None} /\ Question(q)
  /\ q.file # None =>
       LET image == AtIn(s, q.address) IN
       /\ image.file = q.file /\ q.step \notin {"idle", "never"}
       /\ q.step \in {"filename", "exports"} => q.handler = image.base
       /\ q.step \in {"symbol", "exports", "done", "answered"} => q.answer.path = image.file
       /\ q.step \in {"done", "answered"} => q.answer.symbol = SymbolOf(image, q.address)
       /\ q.step = "answered" => q.ret = 1

\* Memory of no image is read last of all, and by a question about none.
CrashHolds == crashed => query.step = "exports" /\ query.file = None

LoaderInv == ImagesHold /\ Follows(query, images) /\ CrashHolds

\* The first name of an ordinal.
LEMMA NameFound ==
  ASSUME NEW f \in Files, ImagesOK, NEW c
  PROVE  LET names == Image[f].names IN
         /\ NameOfOrdinal(names, c) = None => \A n \in DOMAIN names : names[n].ordinal # c
         /\ NameOfOrdinal(names, c) # None =>
              \E n \in DOMAIN names : names[n].ordinal = c /\ NameOfOrdinal(names, c) = names[n].name
<1> DEFINE names == Image[f].names
           named == {n \in DOMAIN names : names[n].ordinal = c}
<1>1. \A n \in DOMAIN names : names[n].name # None
  BY DEF ImagesOK, TablesOK
<1>2. DOMAIN names \subseteq Nat
  BY DEF ImagesOK, TablesOK
<1>3. CASE named = {}
  BY <1>3 DEF NameOfOrdinal
<1>4. CASE named # {}
  <2>1. Min(named) \in named
    BY <1>2, <1>4, MinOfNaturals
  <2>2. NameOfOrdinal(names, c) = names[Min(named)].name
    BY <1>4 DEF NameOfOrdinal
  <2> QED BY <1>1, <2>1, <2>2
<1> QED BY <1>3, <1>4

\* GetProcAddress finds a name at the export of its ordinal.
LEMMA SymbolFound ==
  ASSUME ImagesOK, NEW image \in ImageRecords, NEW n \in DOMAIN Image[image.file].names
  PROVE  FindSymbol(image, Image[image.file].names[n].name)
           = image.base + Image[image.file].exports[Image[image.file].names[n].ordinal]
<1> DEFINE names == Image[image.file].names
           named == {m \in DOMAIN names : names[m].name = names[n].name}
<1>1. image.file \in Files
  BY DEF ImageRecords
<1>2. \A m \in DOMAIN names : names[m].name = names[n].name => m = n
  BY <1>1 DEF ImagesOK, TablesOK
<1>3. DOMAIN names \subseteq Nat
  BY <1>1 DEF ImagesOK, TablesOK
<1>4. Min(named) \in named
  BY <1>3, MinOfNaturals
<1>5. Min(named) = n
  BY <1>2, <1>4
<1>6. FindSymbol(image, names[n].name) = image.base + Image[image.file].exports[names[Min(named)].ordinal]
  BY DEF FindSymbol
<1> QED BY <1>5, <1>6

\* The answer about an address of an image: the property AnswerIsOneImage has.
LEMMA SymbolIsNearest ==
  ASSUME ImagesOK, NEW image \in ImageRecords, NEW a \in Int
  PROVE  LET exports == Image[image.file].exports
             below == {o \in DOMAIN exports : image.base + exports[o] <= a}
             nearest == {o \in below : \A p \in below : exports[p] <= exports[o]}
             names == {n \in ToSet(Image[image.file].names) : n.ordinal \in nearest}
             symbol == SymbolOf(image, a) IN
         IF symbol = None THEN {n.ordinal : n \in names} # nearest \/ nearest = {}
         ELSE \E o \in nearest : FindSymbol(image, symbol) = image.base + exports[o]
<1> DEFINE exports == Image[image.file].exports
           below == {o \in DOMAIN exports : image.base + exports[o] <= a}
           nearest == {o \in below : \A p \in below : exports[p] <= exports[o]}
           table == Image[image.file].names
           names == {n \in ToSet(table) : n.ordinal \in nearest}
           symbol == SymbolOf(image, a)
           x == a - image.base
           c == CandidateIndex(exports, x)
<1>1. image.file \in Files /\ image.base \in Int
  BY DEF ImageRecords, ImagesOK
<1>2. exports \in Seq(0..(Image[image.file].size - 1)) /\ Image[image.file].size \in Nat
  BY <1>1 DEF ImagesOK, TablesOK
<1>3. /\ exports \in Seq(Int) /\ Len(exports) \in Nat /\ DOMAIN exports = 1..Len(exports)
      /\ \A o \in 1..Len(exports) : exports[o] \in Int
  <2>1. /\ Len(exports) \in Nat /\ DOMAIN exports = 1..Len(exports)
        /\ exports \in [1..Len(exports) -> 0..(Image[image.file].size - 1)]
    BY <1>2, LenProperties
  <2>2. \A o \in 1..Len(exports) : exports[o] \in Int
    BY <1>2, <2>1
  <2>3. exports \in [1..Len(exports) -> Int]
    BY <2>1, <2>2
  <2> HIDE DEF exports
  <2> QED BY <2>1, <2>2, <2>3, SeqDef
<1>4. x \in Int
  BY <1>1
<1>5. Nearest(c, Len(exports), exports, x)
  BY <1>3, <1>4, CandidateNearest
<1>6. symbol = NameOfOrdinal(table, c)
  BY DEF SymbolOf
<1>7. /\ symbol = None => \A n \in DOMAIN table : table[n].ordinal # c
      /\ symbol # None => \E n \in DOMAIN table : table[n].ordinal = c /\ symbol = table[n].name
  BY <1>1, <1>6, NameFound
<1>8. \A n \in DOMAIN table : table[n].ordinal \in DOMAIN exports
  BY <1>1 DEF ImagesOK, TablesOK
<1>9. ToSet(table) = {table[n] : n \in DOMAIN table}
  BY DEF ToSet
<1>10. \A n \in DOMAIN table :
          FindSymbol(image, table[n].name) = image.base + exports[table[n].ordinal]
  BY SymbolFound
<1>11. \A o \in DOMAIN exports : image.base + exports[o] <= a <=> exports[o] <= x
  <2> TAKE o \in DOMAIN exports
  <2>1. exports[o] \in Int
    BY <1>3
  <2> HIDE DEF exports
  <2> QED BY <1>1, <2>1
<1> HIDE DEF exports, table, symbol, x, c
<1>12. CASE c = 0
  <2>1. nearest = {}
    BY <1>3, <1>4, <1>5, <1>11, <1>12 DEF Nearest
  <2>2. symbol = None
    BY <1>3, <1>7, <1>8, <1>12
  <2> QED BY <2>1, <2>2 DEF exports, symbol
<1>13. CASE c # 0
  <2>1. c \in nearest
    BY <1>3, <1>4, <1>5, <1>11, <1>13 DEF Nearest
  <2>2. CASE symbol = None
    <3>1. c \notin {n.ordinal : n \in names}
      BY <1>7, <1>9, <2>2
    <3>2. {n.ordinal : n \in names} # nearest
      BY <2>1, <3>1
    <3> QED BY <2>2, <3>2 DEF exports, symbol, table
  <2>3. CASE symbol # None
    <3>1. PICK n \in DOMAIN table : table[n].ordinal = c /\ symbol = table[n].name
      BY <1>7, <2>3
    <3>2. FindSymbol(image, symbol) = image.base + exports[c]
      BY <1>10, <3>1
    <3>3. \E o \in nearest : FindSymbol(image, symbol) = image.base + exports[o]
      BY <2>1, <3>2
    <3> QED BY <2>3, <3>3 DEF exports, symbol
  <2> QED BY <2>2, <2>3
<1> QED BY <1>12, <1>13

LEMMA LoadKeeps ==
  ASSUME ImagesOK, ImagesHold, NEW f \in Files, LoadImage(f), platform' = platform
  PROVE  /\ ImagesHold' /\ Mapped(images) \subseteq Mapped(images') /\ Len(images) <= Len(images')
         /\ \A n \in DOMAIN images : n \in DOMAIN images' /\ images'[n] = images[n]
         /\ \A g \in Files : refs[g] > 0 => refs'[g] > 0
<1>1. /\ platform \in {"windows", "linux", "macos"} /\ Apart(images) /\ refs \in [Files -> Nat]
      /\ \A g \in Files : refs[g] > 0 <=> \E n \in DOMAIN images : images[n].file = g
  BY DEF ImagesHold
<1>2. /\ Len(images) \in Nat /\ DOMAIN images = 1..Len(images)
      /\ \A i \in Mapped(images) : i.file \in Files
  BY <1>1, ApartFacts
<1>3. refs' \in [Files -> Nat] /\ \A g \in Files : refs'[g] = IF g = f THEN refs[f] + 1 ELSE refs[g]
  BY <1>1 DEF LoadImage
<1>4. \A g \in Files : refs[g] \in Nat
  BY <1>1
<1>5. \A g \in Files : (refs'[g] > 0 <=> g = f \/ refs[g] > 0) /\ (refs[g] > 0 => refs'[g] > 0)
  BY <1>3, <1>4
<1>6. CASE refs[f] > 0
  <2>1. images' = images
    BY <1>6 DEF LoadImage
  <2>2. \A g \in Files : refs'[g] > 0 <=> \E n \in DOMAIN images : images[n].file = g
    BY <1>1, <1>5, <1>6
  <2> QED BY <1>1, <1>2, <1>3, <1>5, <2>1, <2>2 DEF ImagesHold
<1>7. CASE ~(refs[f] > 0)
  <2>1. PICK b \in Bases \ {image.base : image \in Loaded} :
          images' = Append(images, [file |-> f, base |-> b])
    BY <1>7 DEF LoadImage
  <2> DEFINE r == [file |-> f, base |-> b]
  <2>2. r \in ImageRecords /\ r.file = f /\ r.base = b
    BY DEF ImageRecords
  <2>3. \A i \in Mapped(images) : i.file # r.file /\ i.base # r.base
    <3>1. b \notin {image.base : image \in Mapped(images)}
      BY <2>1 DEF Mapped, Loaded
    <3>2. \A n \in DOMAIN images : images[n].file # f
      BY <1>1, <1>7
    <3>3. \A i \in Mapped(images) : i.file # f
      BY <3>2 DEF Mapped
    <3> HIDE DEF r
    <3> QED BY <2>2, <3>1, <3>3
  <2>4. images' = Append(images, r)
    BY <2>1
  <2> HIDE DEF r
  <2>5. /\ Apart(images') /\ Mapped(images') = Mapped(images) \union {r}
        /\ Len(images') = Len(images) + 1
        /\ \A n \in 1..Len(images) : images'[n] = images[n]
    <3>1. Apart(images)
      BY <1>1
    <3>2. r \in ImageRecords
      BY <2>2
    <3> QED BY ONLY <2>3, <2>4, <3>1, <3>2, AppendApart
  <2>6. DOMAIN images' = 1..(Len(images) + 1)
    BY <2>5, ApartFacts
  <2>7. \A n \in DOMAIN images : n \in DOMAIN images' /\ images'[n] = images[n]
    BY <1>2, <2>5, <2>6
  <2>8. \A g \in Files : refs'[g] > 0 <=> \E n \in DOMAIN images' : images'[n].file = g
    <3>1. \A g \in Files : (\E n \in DOMAIN images' : images'[n].file = g)
                         <=> (\E i \in Mapped(images') : i.file = g)
      BY DEF Mapped
    <3>2. \A g \in Files : (\E n \in DOMAIN images : images[n].file = g)
                         <=> (\E i \in Mapped(images) : i.file = g)
      BY DEF Mapped
    <3> QED BY <1>1, <1>5, <2>2, <2>5, <3>1, <3>2
  <2>9. Len(images) <= Len(images')
    BY <1>2, <2>5
  <2> QED BY <1>1, <1>3, <1>5, <2>5, <2>7, <2>8, <2>9 DEF ImagesHold
<1> QED BY <1>6, <1>7

\* The last reference takes the one image of the file out of the list.
LEMMA FreeKeeps ==
  ASSUME ImagesOK, ImagesHold, NEW f \in Files, refs[f] > 0, FreeImage(f), platform' = platform
  PROVE  /\ ImagesHold'
         /\ \A i \in Mapped(images') : i \in Mapped(images)
         /\ \A i \in Mapped(images) : i.file # f => i \in Mapped(images')
         /\ gone \subseteq gone'
         /\ \/ images' = images /\ gone' = gone /\ query' = query
            \/ /\ f \in gone'
               /\ query' = IF query.file = f THEN [query EXCEPT !.file = None] ELSE query
               /\ \A n \in DOMAIN images : images[n].file # f =>
                    \E m \in DOMAIN images' : m <= n /\ images'[m] = images[n]
         /\ \A g \in Files : g # f => refs'[g] = refs[g]
<1>1. /\ platform \in {"windows", "linux", "macos"} /\ Apart(images) /\ refs \in [Files -> Nat]
      /\ \A g \in Files : refs[g] > 0 <=> \E n \in DOMAIN images : images[n].file = g
  BY DEF ImagesHold
<1>2. /\ Len(images) \in Nat /\ DOMAIN images = 1..Len(images)
  BY <1>1, ApartFacts
<1>3. \A g \in Files : refs[g] \in Nat
  BY <1>1
<1>4. refs' \in [Files -> Nat] /\ \A g \in Files : refs'[g] = IF g = f THEN refs[f] - 1 ELSE refs[g]
  BY <1>1, <1>3 DEF FreeImage
<1>5. CASE refs[f] > 1
  <2>1. images' = images /\ gone' = gone /\ query' = query
    BY <1>5 DEF FreeImage
  <2>2. \A g \in Files : refs'[g] > 0 <=> refs[g] > 0
    BY <1>3, <1>4, <1>5
  <2>3. \A g \in Files : refs'[g] > 0 <=> \E n \in DOMAIN images : images[n].file = g
    BY <1>1, <2>2
  <2> QED BY <1>1, <1>4, <2>1, <2>3 DEF ImagesHold
<1>6. CASE ~(refs[f] > 1)
  <2>1. /\ \E n \in DOMAIN images : images[n].file = f /\ images' = RemoveAt(images, n)
        /\ gone' = gone \union {f}
        /\ query' = IF query.file = f THEN [query EXCEPT !.file = None] ELSE query
    BY <1>6 DEF FreeImage
  <2>2. PICK n \in DOMAIN images : images[n].file = f /\ images' = RemoveAt(images, n)
    BY <2>1
  <2>3. /\ Apart(images') /\ Mapped(images') = Mapped(images) \ {images[n]}
        /\ Len(images') = Len(images) - 1
        /\ \A m \in 1..(Len(images) - 1) : images'[m] = images[IF m < n THEN m ELSE m + 1]
    BY <1>1, <2>2, RemoveApart
  <2>4. DOMAIN images' = 1..(Len(images) - 1)
    BY <2>3, ApartFacts
  <2>5. \A i \in Mapped(images) : i.file = f <=> i = images[n]
    <3>1. images[n] \in Mapped(images)
      BY DEF Mapped
    <3> QED BY <1>1, <2>2, <3>1, ApartFacts
  <2>6. \A g \in Files : refs'[g] > 0 <=> \E m \in DOMAIN images' : images'[m].file = g
    <3>1. \A g \in Files : (\E m \in DOMAIN images' : images'[m].file = g)
                         <=> (\E i \in Mapped(images') : i.file = g)
      BY DEF Mapped
    <3>2. \A g \in Files : (\E m \in DOMAIN images : images[m].file = g)
                         <=> (\E i \in Mapped(images) : i.file = g)
      BY DEF Mapped
    <3>3. \A g \in Files : refs'[g] > 0 <=> g # f /\ refs[g] > 0
      BY <1>3, <1>4, <1>6
    <3>4. ASSUME NEW g \in Files PROVE refs'[g] > 0 <=> \E i \in Mapped(images') : i.file = g
      <4>1. (\E i \in Mapped(images') : i.file = g)
              <=> (\E i \in Mapped(images) : i.file = g /\ i # images[n])
        BY <2>3
      <4>2. \A i \in Mapped(images) : i.file = g /\ i # images[n] <=> i.file = g /\ g # f
        BY <2>5
      <4>3. refs[g] > 0 <=> \E i \in Mapped(images) : i.file = g
        BY <1>1, <3>2
      <4> QED BY <3>3, <4>1, <4>2, <4>3
    <3> QED BY <3>1, <3>4
  <2>7. ASSUME NEW k \in DOMAIN images, images[k].file # f
        PROVE  \E m \in DOMAIN images' : m <= k /\ images'[m] = images[k]
    <3>1. n \in 1..Len(images) /\ k \in 1..Len(images) /\ k # n
      BY <1>2, <2>2, <2>7
    <3>2. CASE k < n
      <4>1. k \in 1..(Len(images) - 1)
        BY <1>2, <3>1, <3>2
      <4>2. images'[k] = images[k]
        BY <2>3, <3>2, <4>1
      <4> QED BY <2>4, <4>1, <4>2
    <3>3. CASE n < k
      <4>1. k - 1 \in 1..(Len(images) - 1) /\ ~(k - 1 < n) /\ (k - 1) + 1 = k /\ k - 1 <= k
        BY <1>2, <3>1, <3>3
      <4>2. images'[k - 1] = images[k]
        BY <2>3, <4>1
      <4> QED BY <2>4, <4>1, <4>2
    <3> QED BY <3>1, <3>2, <3>3
  <2>8. ImagesHold'
    BY <1>1, <1>4, <2>3, <2>6 DEF ImagesHold
  <2> QED BY <1>4, <2>1, <2>3, <2>5, <2>7, <2>8
<1> QED BY <1>5, <1>6

\* The files of a process at its start are apart; no question is asked yet.
LEMMA LoaderStarts == ASSUME ImagesOK, LoaderInit PROVE LoaderInv
<1>1. /\ platform \in {"windows", "linux", "macos"}
      /\ images = [n \in DOMAIN Fixed |-> [file |-> Fixed[n], base |-> FixedBase[Fixed[n]]]]
      /\ refs = [f \in Files |-> IF f \in ToSet(Fixed) THEN 1 ELSE 0]
      /\ query \in {Idle, [Idle EXCEPT !.step = "never"]} /\ crashed = FALSE
  BY DEF LoaderInit
<1>2. Len(Fixed) \in Nat /\ DOMAIN Fixed = 1..Len(Fixed) /\ \A n \in 1..Len(Fixed) : Fixed[n] \in Files
  BY LenProperties, ElementOfSeq DEF ImagesOK
<1>3. \A n \in DOMAIN Fixed : FixedBase[Fixed[n]] \in Bases
  BY DEF ImagesOK
<1>4. images \in [1..Len(Fixed) -> ImageRecords] /\ DOMAIN images = DOMAIN Fixed
  <2>1. \A n \in 1..Len(Fixed) : [file |-> Fixed[n], base |-> FixedBase[Fixed[n]]] \in ImageRecords
    BY <1>2, <1>3 DEF ImageRecords
  <2> QED BY <1>1, <1>2, <2>1
<1>5. images \in Seq(ImageRecords)
  BY <1>2, <1>4, SeqDef
<1>6. \A n \in DOMAIN images : images[n].file = Fixed[n] /\ images[n].base = FixedBase[Fixed[n]]
  BY <1>1
<1>7. ASSUME NEW m \in DOMAIN images, NEW n \in DOMAIN images,
             images[m].file = images[n].file \/ images[m].base = images[n].base
      PROVE  m = n
  <2>1. Fixed[m] = Fixed[n] => m = n
    BY <1>4 DEF ImagesOK, IsInjective
  <2>2. FixedBase[Fixed[m]] = FixedBase[Fixed[n]] => m = n
    BY <1>4 DEF ImagesOK
  <2> QED BY <1>6, <1>7, <2>1, <2>2
<1>8. Apart(images)
  BY <1>5, <1>7 DEF Apart
<1>9. \A f \in Files : refs[f] > 0 <=> \E n \in DOMAIN images : images[n].file = f
  <2> TAKE f \in Files
  <2>1. f \in ToSet(Fixed) <=> \E n \in DOMAIN Fixed : Fixed[n] = f
    BY DEF ToSet
  <2>2. refs[f] = IF f \in ToSet(Fixed) THEN 1 ELSE 0
    BY <1>1
  <2> QED BY <1>4, <1>6, <2>1, <2>2
<1>10. ImagesHold
  BY <1>1, <1>8, <1>9 DEF ImagesHold
<1>11. Follows(query, images)
  BY <1>1 DEF Follows, Idle, NoAnswer, Question
<1>12. CrashHolds
  BY <1>1 DEF CrashHolds
<1> QED BY <1>10, <1>11, <1>12 DEF LoaderInv

\* A question goes on about its image while others come and go.
LEMMA FollowsKept ==
  ASSUME ImagesOK, NEW q, NEW s, NEW u, Apart(s), Apart(u), Follows(q, s),
         \A i \in Mapped(s) : i.file = q.file => i \in Mapped(u)
  PROVE  Follows(q, u)
<1>1. q.address \in Int
  BY DEF Follows
<1>2. CASE q.file = None
  BY <1>2 DEF Follows
<1>3. CASE q.file # None
  <2>1. AtIn(s, q.address).file = q.file /\ q.file # None
    BY <1>3 DEF Follows
  <2>2. AtIn(s, q.address) \in Mapped(s)
    BY <1>1, <2>1, AtInFound
  <2>3. AtIn(s, q.address) \in Mapped(u)
    BY <2>1, <2>2
  <2>4. AtIn(u, q.address) = AtIn(s, q.address)
    BY <1>1, <2>1, <2>3, AtInKept
  <2> QED BY <2>4 DEF Follows
<1> QED BY <1>2, <1>3

\* A question whose image went makes no claim any more.
LEMMA FollowsNothing ==
  ASSUME NEW q, NEW s, NEW u, Follows(q, s)
  PROVE  Follows([q EXCEPT !.file = None], u)
<1>1. q.address \in Int /\ Question(q)
  BY DEF Follows
<1>2. WithoutFile(q) =
         [step |-> q.step, address |-> q.address, handler |-> q.handler, ret |-> q.ret,
          file |-> None, answer |-> [path |-> q.answer.path, symbol |-> q.answer.symbol]]
  BY <1>1, QuestionUpdates
<1>3. Follows(WithoutFile(q), u)
  BY <1>1, <1>2 DEF Follows, Question
<1> QED BY <1>3 DEF WithoutFile

LEMMA LoadFollows ==
  ASSUME ImagesOK, LoaderInv, NEW f \in Files, LoadImage(f),
         UNCHANGED <<platform, query, crashed>>
  PROVE  LoaderInv'
<1>1. ImagesHold' /\ Mapped(images) \subseteq Mapped(images')
  BY LoadKeeps DEF LoaderInv
<1>2. Follows(query, images')
  <2>1. Follows(query, images) /\ Apart(images) /\ Apart(images')
    BY <1>1 DEF LoaderInv, ImagesHold
  <2> QED BY <1>1, <2>1, FollowsKept
<1> QED BY <1>1, <1>2 DEF LoaderInv, CrashHolds

LEMMA FreeFollows ==
  ASSUME ImagesOK, LoaderInv, NEW f \in Files, refs[f] > 0, FreeImage(f),
         UNCHANGED <<platform, crashed>>
  PROVE  LoaderInv'
<1>1. /\ ImagesHold' /\ \A i \in Mapped(images) : i.file # f => i \in Mapped(images')
      /\ \/ images' = images /\ query' = query
         \/ query' = IF query.file = f THEN [query EXCEPT !.file = None] ELSE query
  BY FreeKeeps DEF LoaderInv
<1>2. Follows(query, images) /\ Apart(images) /\ Apart(images')
  BY <1>1 DEF LoaderInv, ImagesHold
<1>3. CASE images' = images /\ query' = query
  BY <1>1, <1>3 DEF LoaderInv, CrashHolds
<1>4. CASE query.file # f /\ query' = query
  <2>1. Follows(query, images')
    <3>1. \A i \in Mapped(images) : i.file = query.file => i \in Mapped(images')
      BY <1>1, <1>4
    <3> QED BY <1>2, <3>1, FollowsKept
  <2> QED BY <1>1, <1>4, <2>1 DEF LoaderInv, CrashHolds
<1>5. CASE query.file = f /\ query' = [query EXCEPT !.file = None]
  <2>1. Follows(query', images')
    BY <1>2, <1>5, FollowsNothing
  <2>2. CrashHolds'
    <3>1. crashed => query.step = "exports" /\ query.file = None
      BY DEF LoaderInv, CrashHolds
    <3>2. f # None
      BY DEF ImagesOK
    <3> QED BY <1>5, <3>1, <3>2 DEF CrashHolds
  <2> QED BY <1>1, <2>1, <2>2 DEF LoaderInv
<1> QED BY <1>1, <1>3, <1>4, <1>5

LEMMA AtIsAtIn == \A a : At(a) = AtIn(images, a)
BY DEF At, AtIn, Loaded, Mapped

\* A step of a question that changes nothing else.
LEMMA QueryStep ==
  ASSUME LoaderInv, OnlyQuery, Follows(query', images), CrashHolds'
  PROVE  LoaderInv'
BY DEF OnlyQuery, LoaderInv, ImagesHold

LEMMA AskFollows ==
  ASSUME ImagesOK, LoaderInv, NEW a \in Addresses, Ask(a)
  PROVE  LoaderInv'
<1>1. /\ query.step = "idle" /\ UNCHANGED <<platform, images, refs, crashed, gone>>
      /\ query' = [Idle EXCEPT !.step = "valid", !.address = a, !.file = At(a).file]
  BY DEF Ask
<1>2. query' = [step |-> "valid", address |-> a, handler |-> 0, answer |-> NoAnswer,
                ret |-> 0, file |-> AtIn(images, a).file]
  BY <1>1, AtIsAtIn DEF Idle
<1>3. Apart(images) /\ a \in Int
  BY DEF LoaderInv, ImagesHold, ImagesOK
<1>4. AtIn(images, a).file \in Files \union {None}
  BY <1>3, AtInFound, ApartFacts
<1>5. Follows(query', images)
  BY <1>2, <1>3, <1>4 DEF Follows, NoAnswer, Question
<1>6. CrashHolds'
  BY <1>1 DEF LoaderInv, CrashHolds
<1>7. ImagesHold'
  BY <1>1 DEF LoaderInv, ImagesHold
<1> QED BY <1>1, <1>5, <1>6, <1>7 DEF LoaderInv

LEMMA ValidFollows == ASSUME ImagesOK, LoaderInv, IsValidAddress PROVE LoaderInv'
<1>1. PICK valid \in IF At(query.address).file = None THEN BOOLEAN ELSE {TRUE} :
        query' = [query EXCEPT !.step = IF valid THEN "path" ELSE "done"]
  BY DEF IsValidAddress
<1>2. query.step = "valid" /\ ~crashed /\ OnlyQuery /\ crashed' = crashed
  BY DEF IsValidAddress, Step
<1>3. Follows(query, images)
  BY DEF LoaderInv
<1>4. query.file # None => valid
  BY <1>1, <1>3, AtIsAtIn DEF Follows
<1>5. query' = [step |-> IF valid THEN "path" ELSE "done", address |-> query.address,
                handler |-> query.handler, ret |-> query.ret, file |-> query.file,
                answer |-> [path |-> query.answer.path, symbol |-> query.answer.symbol]]
  <2>1. query' = WithStep(query, IF valid THEN "path" ELSE "done")
    BY <1>1 DEF WithStep
  <2> QED BY <1>3, <2>1, QuestionUpdates DEF Follows
<1>6. Follows(query', images)
  BY <1>2, <1>3, <1>4, <1>5 DEF Follows, Question
<1>7. CrashHolds'
  BY <1>2 DEF CrashHolds
<1> QED BY <1>2, <1>6, <1>7, QueryStep

LEMMA HandlerFollows ==
  ASSUME ImagesOK, LoaderInv, NEW from, NEW to, NEW otherwise,
         GetModuleHandler(from, to, otherwise), UNCHANGED crashed,
         \/ from = "path" /\ to = "filename" /\ otherwise = "symbol"
         \/ from = "symbol" /\ to = "exports" /\ otherwise = "done"
  PROVE  LoaderInv'
<1> DEFINE image == AtIn(images, query.address)
<1>1. /\ query.step = from /\ ~crashed /\ OnlyQuery /\ crashed' = crashed
      /\ query' = IF image.file = None THEN [query EXCEPT !.step = otherwise]
                  ELSE [query EXCEPT !.step = to, !.handler = image.base]
  BY AtIsAtIn DEF GetModuleHandler, Step
<1>2. Follows(query, images)
  BY DEF LoaderInv
<1>3. CrashHolds'
  BY <1>1 DEF CrashHolds
<1> HIDE DEF image
<1>4. CASE image.file = None
  <2>1. query.file = None
    BY <1>2, <1>4 DEF Follows, image
  <2>2. query' = [step |-> otherwise, address |-> query.address,
                  handler |-> query.handler, ret |-> query.ret, file |-> query.file,
                  answer |-> [path |-> query.answer.path, symbol |-> query.answer.symbol]]
    <3>1. query' = WithStep(query, otherwise)
      BY <1>1, <1>4 DEF WithStep
    <3> QED BY <1>2, <3>1, QuestionUpdates DEF Follows
  <2>3. Follows(query', images)
    BY <1>2, <2>1, <2>2 DEF Follows, Question
  <2> QED BY <1>1, <1>3, <2>3, QueryStep
<1>5. CASE image.file # None
  <2>1. query' = [step |-> to, address |-> query.address,
                  handler |-> image.base, ret |-> query.ret, file |-> query.file,
                  answer |-> [path |-> query.answer.path, symbol |-> query.answer.symbol]]
    <3>1. Question(query)
      BY <1>2 DEF Follows
    <3>2. query' = WithHandler(query, to, image.base)
      BY <1>1, <1>5 DEF WithHandler
    <3> QED BY ONLY <3>1, <3>2, QuestionUpdates
  <2>2. Follows(query', images)
    BY <1>1, <1>2, <2>1 DEF Follows, Question, image
  <2> QED BY <1>1, <1>3, <2>2, QueryStep
<1> QED BY <1>4, <1>5

LEMMA FileNameFollows ==
  ASSUME ImagesOK, LoaderInv, Step("filename"), OnlyQuery, UNCHANGED crashed,
         query' = [query EXCEPT !.step = "symbol", !.answer.path = At(query.handler).file]
  PROVE  LoaderInv'
<1>1. query.step = "filename" /\ ~crashed /\ crashed' = crashed
  BY DEF Step
<1>2. Follows(query, images) /\ Apart(images)
  BY DEF LoaderInv, ImagesHold
<1>3. query' = [step |-> "symbol", address |-> query.address, handler |-> query.handler,
                ret |-> query.ret, file |-> query.file,
                answer |-> [path |-> AtIn(images, query.handler).file, symbol |-> query.answer.symbol]]
  <2>1. Question(query)
    BY <1>2 DEF Follows
  <2>2. query' = WithPath(query, "symbol", AtIn(images, query.handler).file)
    <3>1. At(query.handler).file = AtIn(images, query.handler).file
      BY AtIsAtIn
    <3>2. query' = WithPath(query, "symbol", At(query.handler).file)
      BY DEF WithPath
    <3> QED BY <3>1, <3>2
  <2> QED BY ONLY <2>1, <2>2, QuestionUpdates
<1>4. query.file # None => AtIn(images, query.handler).file = AtIn(images, query.address).file
  BY <1>1, <1>2, AtBase DEF Follows
<1> DEFINE p == AtIn(images, query.handler).file
<1> HIDE DEF p
<1>5. Follows(query', images)
  <2>1. query' = [step |-> "symbol", address |-> query.address, handler |-> query.handler,
                  ret |-> query.ret, file |-> query.file,
                  answer |-> [path |-> p, symbol |-> query.answer.symbol]]
    BY <1>3 DEF p
  <2>2. query.file # None => p = AtIn(images, query.address).file
    BY <1>4 DEF p
  <2> QED BY ONLY <1>1, <1>2, <2>1, <2>2 DEF Follows, Question
<1>6. CrashHolds'
  BY <1>1 DEF CrashHolds
<1> QED BY <1>5, <1>6, QueryStep

LEMMA ExportsFollow ==
  ASSUME ImagesOK, LoaderInv, Step("exports"), OnlyQuery,
         LET f == At(query.handler).file IN
           IF f = None THEN crashed' = TRUE /\ UNCHANGED query
           ELSE /\ query' = [query EXCEPT !.step = "done",
                     !.answer.symbol = NameOfOrdinal(Image[f].names,
                        CandidateIndex(Image[f].exports, query.address - query.handler))]
                /\ UNCHANGED crashed
  PROVE  LoaderInv'
<1>1. query.step = "exports" /\ ~crashed
  BY DEF Step
<1>2. Follows(query, images) /\ Apart(images)
  BY DEF LoaderInv, ImagesHold
<1>3. query.file # None =>
        /\ AtIn(images, query.handler) = AtIn(images, query.address)
        /\ query.handler = AtIn(images, query.address).base
        /\ AtIn(images, query.address).file = query.file
  BY <1>1, <1>2, AtBase DEF Follows
<1>4. CASE At(query.handler).file = None
  <2>1. crashed' = TRUE /\ query' = query
    BY <1>4
  <2>2. query.file = None
    BY <1>3, <1>4, AtIsAtIn
  <2>3. CrashHolds'
    BY <1>1, <2>1, <2>2 DEF CrashHolds
  <2> QED BY <1>2, <2>1, <2>3, QueryStep
<1>5. CASE At(query.handler).file # None
  <2> DEFINE f == At(query.handler).file
             symbol == NameOfOrdinal(Image[f].names,
                        CandidateIndex(Image[f].exports, query.address - query.handler))
  <2>1. query' = [query EXCEPT !.step = "done", !.answer.symbol = symbol] /\ crashed' = crashed
    BY <1>5
  <2>2. query.file # None => symbol = SymbolOf(AtIn(images, query.address), query.address)
    BY <1>3, AtIsAtIn DEF SymbolOf
  <2> HIDE DEF symbol
  <2>3. query' = [step |-> "done", address |-> query.address, handler |-> query.handler,
                  ret |-> query.ret, file |-> query.file,
                  answer |-> [path |-> query.answer.path, symbol |-> symbol]]
    <3>1. Question(query)
      BY <1>2 DEF Follows
    <3>2. query' = WithSymbol(query, "done", symbol)
      BY <2>1 DEF WithSymbol
    <3> QED BY ONLY <3>1, <3>2, QuestionUpdates
  <2>4. Follows(query', images)
    BY <1>1, <1>2, <2>2, <2>3 DEF Follows, Question
  <2>5. CrashHolds'
    BY <1>1, <2>1 DEF CrashHolds
  <2> QED BY <2>4, <2>5, QueryStep
<1> QED BY <1>4, <1>5

LEMMA AnswerFollows == ASSUME ImagesOK, LoaderInv, GetBinaryInfoFromAddress PROVE LoaderInv'
<1>1. /\ query.step = "done" /\ ~crashed /\ OnlyQuery /\ crashed' = crashed
      /\ query' = WithRet(query, "answered", IF query.answer.path = None THEN 0 ELSE 1)
  BY DEF GetBinaryInfoFromAddress, Step, WithRet
<1>2. Follows(query, images) /\ None \notin Files
  BY DEF LoaderInv, ImagesOK
<1>3. query' = [step |-> "answered", address |-> query.address, handler |-> query.handler,
                ret |-> IF query.answer.path = None THEN 0 ELSE 1, file |-> query.file,
                answer |-> [path |-> query.answer.path, symbol |-> query.answer.symbol]]
  <2>1. Question(query)
    BY <1>2 DEF Follows
  <2> QED BY ONLY <1>1, <2>1, QuestionUpdates
<1>4. Follows(query', images)
  BY <1>1, <1>2, <1>3 DEF Follows, Question
<1>5. CrashHolds'
  BY <1>1 DEF CrashHolds
<1> QED BY <1>1, <1>4, <1>5, QueryStep

\* dladdr's answer is about one image by itself.
WithAnswer(q, p, y) ==
  [q EXCEPT !.step = "answered", !.ret = 1, !.answer = [path |-> p, symbol |-> y]]

LEMMA WholeAnswer ==
  ASSUME NEW q, Question(q), NEW p, NEW y
  PROVE  WithAnswer(q, p, y) =
           [step |-> "answered", address |-> q.address, handler |-> q.handler, ret |-> 1,
            file |-> q.file, answer |-> [path |-> p, symbol |-> y]]
<1>1. WithAnswer(q, p, y) = SetAnswer(WithRet(q, "answered", 1), AnswerOf(p, y))
  BY DEF WithAnswer, SetAnswer, WithRet, AnswerOf
<1>2. WithRet(q, "answered", 1)
        = Asked("answered", q.address, q.handler, 1, q.file, AnswerOf(q.answer.path, q.answer.symbol))
  <2>1. WithRet(q, "answered", 1) =
          [step |-> "answered", address |-> q.address, handler |-> q.handler, ret |-> 1,
           file |-> q.file, answer |-> [path |-> q.answer.path, symbol |-> q.answer.symbol]]
    BY QuestionUpdates
  <2> QED BY <2>1 DEF Asked, AnswerOf
<1>3. WithAnswer(q, p, y) = Asked("answered", q.address, q.handler, 1, q.file, AnswerOf(p, y))
  BY <1>1, <1>2, AskedExcept
<1> QED BY <1>3 DEF Asked, AnswerOf

LEMMA LinuxFollows == ASSUME ImagesOK, LoaderInv, GetBinaryInfoFromAddressLinux PROVE LoaderInv'
<1> DEFINE image == AtIn(images, query.address)
           symbol == SymbolOf(image, query.address)
<1>1. /\ query.step = "valid" /\ OnlyQuery /\ crashed' = crashed
      /\ query' = IF image.file = None THEN WithStep(query, "answered")
                  ELSE WithAnswer(query, image.file, symbol)
  <2>1. At(query.address) = image
    BY AtIsAtIn
  <2> HIDE DEF image
  <2> QED BY <2>1 DEF GetBinaryInfoFromAddressLinux, WithStep, WithAnswer, SymbolOf
<1>2. Follows(query, images) /\ Question(query)
  BY DEF LoaderInv, Follows
<1>3. CrashHolds'
  BY <1>1 DEF CrashHolds, LoaderInv
<1>4. CASE image.file = None
  <2>1. query' = [step |-> "answered", address |-> query.address, handler |-> query.handler,
                  ret |-> query.ret, file |-> query.file,
                  answer |-> [path |-> query.answer.path, symbol |-> query.answer.symbol]]
    BY <1>1, <1>2, <1>4, QuestionUpdates
  <2>2. query.file = None
    BY <1>2, <1>4 DEF Follows
  <2>3. Follows(query', images)
    BY <1>2, <2>1, <2>2 DEF Follows, Question
  <2> QED BY <1>1, <1>3, <2>3, QueryStep
<1>5. CASE image.file # None
  <2>1. query' = [step |-> "answered", address |-> query.address, handler |-> query.handler, ret |-> 1,
                  file |-> query.file, answer |-> [path |-> image.file, symbol |-> symbol]]
    <3> HIDE DEF image, symbol
    <3> QED BY <1>1, <1>2, <1>5, WholeAnswer
  <2>2. Follows(query', images)
    BY <1>2, <2>1 DEF Follows, Question
  <2> QED BY <1>1, <1>3, <2>2, QueryStep
<1> QED BY <1>4, <1>5

LEMMA TakenFollows == ASSUME ImagesOK, LoaderInv, AnswerTaken PROVE LoaderInv'
<1>1. query.step = "answered" /\ query' = Idle /\ OnlyQuery /\ crashed' = crashed
  BY DEF AnswerTaken
<1>2. Follows(query', images)
  BY <1>1 DEF Follows, Question, Idle, NoAnswer
<1>3. CrashHolds'
  BY <1>1 DEF CrashHolds, LoaderInv
<1> QED BY <1>1, <1>2, <1>3, QueryStep

\* Every step of the loader, one at a time.
LEMMA BinariesFollow == ASSUME ImagesOK, LoaderInv, Binaries PROVE LoaderInv'
<1>1. CASE \E f \in Files : LoadBinaryFile(f) \/ LoadBinaryFileLinux(f)
  <2>1. PICK f \in Files : LoadImage(f) /\ UNCHANGED <<platform, query, crashed>>
    BY <1>1 DEF LoadBinaryFile, LoadBinaryFileLinux
  <2> QED BY <2>1, LoadFollows
<1>2. CASE \E f \in Files : UnloadBinaryFileLinux(f)
  <2>1. PICK f \in Files : refs[f] > 0 /\ FreeImage(f) /\ UNCHANGED <<platform, crashed>>
    BY <1>2 DEF UnloadBinaryFileLinux
  <2> QED BY <2>1, FreeFollows
<1>3. CASE \E address \in Addresses : Ask(address)
  BY <1>3, AskFollows
<1>4. CASE IsValidAddress
  BY <1>4, ValidFollows
<1>5. CASE GetBinaryFilePath
  <2>1. CASE GetModuleHandler("path", "filename", "symbol")
    <3>1. crashed' = crashed
      BY <2>1 DEF GetModuleHandler
    <3> QED BY <2>1, <3>1, HandlerFollows
  <2>2. CASE /\ Step("filename")
             /\ query' = [query EXCEPT !.step = "symbol", !.answer.path = At(query.handler).file]
             /\ OnlyQuery /\ UNCHANGED crashed
    BY <2>2, FileNameFollows
  <2> QED BY <1>5, <2>1, <2>2 DEF GetBinaryFilePath
<1>6. CASE GetSymbolName
  <2>1. CASE GetModuleHandler("symbol", "exports", "done")
    <3>1. crashed' = crashed
      BY <2>1 DEF GetModuleHandler
    <3> QED BY <2>1, <3>1, HandlerFollows
  <2>2. CASE ~GetModuleHandler("symbol", "exports", "done")
    BY <1>6, <2>2, ExportsFollow DEF GetSymbolName
  <2> QED BY <2>1, <2>2
<1>7. CASE GetBinaryInfoFromAddress
  BY <1>7, AnswerFollows
<1>8. CASE GetBinaryInfoFromAddressLinux
  BY <1>8, LinuxFollows
<1>9. CASE AnswerTaken
  BY <1>9, TakenFollows
<1> QED BY <1>1, <1>2, <1>3, <1>4, <1>5, <1>6, <1>7, <1>8, <1>9 DEF Binaries

\* The constructor of the sections leaves the loader alone.
LEMMA SectionsKeepPlatform == ASSUME FindSections PROVE UNCHANGED loaderVars
<1>1. /\ Sections!Next
      /\ UNCHANGED <<images, refs, query, crashed, gone, calls>>
  BY DEF FindSections
<1>2. platform' = platform
  BY <1>1 DEF Sections!Next, Sections!FindOwnModule, Sections!ScanSection,
              Sections!ComputeSizeWindows, Sections!FindOwnImage,
              Sections!InitSectionInformation, Sections!ComputeSizeMacos
<1> QED BY <1>1, <1>2 DEF loaderVars

\* Walking a stack leaves the loader alone.
LEMMA WalkingKeepsLoader == ASSUME NEW t \in Walkers, Walking(t) PROVE UNCHANGED loaderVars
<1>1. ASSUME NEW stack, StartWalk(t, stack) PROVE UNCHANGED loaderVars
  BY <1>1 DEF StartWalk
<1>2. ASSUME StopWalk(t) PROVE UNCHANGED loaderVars
  BY <1>2 DEF StopWalk
<1>3. ASSUME NotFound(t) PROVE UNCHANGED loaderVars
  BY <1>3 DEF NotFound
<1>4. ASSUME WrongRecord(t) PROVE UNCHANGED loaderVars
  BY <1>4 DEF WrongRecord
<1>5. ASSUME Refresh(t) PROVE UNCHANGED loaderVars
  BY <1>5 DEF Refresh
<1>6. ASSUME Found(t) PROVE UNCHANGED loaderVars
  BY <1>6 DEF Found
<1>7. GetCurFrameInfo(t) \/ GetCallerFrameInfo(t) \/ GetCallerRsp(t) => Found(t)
  BY DEF GetCurFrameInfo, GetCallerFrameInfo, GetCallerRsp
<1>8. ASSUME MarkThrow(t) PROVE UNCHANGED loaderVars
  BY <1>8 DEF MarkThrow
<1> QED BY <1>1, <1>2, <1>3, <1>4, <1>5, <1>6, <1>7, <1>8 DEF Walking

LEMMA LoaderUnchanged == ASSUME LoaderInv, UNCHANGED loaderVars PROVE LoaderInv'
<1>1. UNCHANGED <<platform, images, refs, query, crashed>>
  BY DEF loaderVars
<1> QED BY <1>1 DEF LoaderInv, ImagesHold, CrashHolds

LEMMA LoaderStep == ASSUME LoaderInv, [Next]_vars PROVE LoaderInv'
<1> USE ImagesOK
<1>1. CASE FindSections
  BY <1>1, SectionsKeepPlatform, LoaderUnchanged
<1>2. CASE Images
  <2>1. CASE Binaries
    BY <2>1, BinariesFollow
  <2>2. CASE \E f \in Files : ~OnStack(f) /\ UnloadBinaryFile(f)
    <3>1. PICK f \in Files : refs[f] > 0 /\ FreeImage(f) /\ UNCHANGED <<platform, crashed>>
      BY <2>2 DEF UnloadBinaryFile
    <3> QED BY <3>1, FreeFollows
  <2> QED BY <1>2, <2>1, <2>2 DEF Images
<1>3. CASE \E t \in Walkers : Walking(t)
  BY <1>3, WalkingKeepsLoader, LoaderUnchanged
<1>4. CASE UNCHANGED vars
  <2>1. UNCHANGED loaderVars
    BY <1>4 DEF vars
  <2> QED BY <2>1, LoaderUnchanged
<1> QED BY <1>1, <1>2, <1>3, <1>4 DEF Next

\* Images are apart, and a question whose image is mapped all the time has
\* only seen that image (Windows/Loader.cpp:58-152, Linux/Loader.cpp:43-56).
THEOREM LoaderHolds == Spec => []LoaderInv
<1>1. Init => LoaderInv
  BY ImagesOK, LoaderStarts DEF Init
<1>2. LoaderInv /\ [Next]_vars => LoaderInv'
  BY LoaderStep
<1> QED BY <1>1, <1>2, PTL DEF Spec

\* An answer is about one image, the one somebody kept loaded, and names the
\* nearest export; no memory of an unloaded image is read
\* (Windows/Loader.cpp:58-152, Linux/Loader.cpp:43-56).
THEOREM AnswersAreOneImage == Spec => []AnswerIsOneImage
<1>1. LoaderInv => AnswerIsOneImage
  <2> SUFFICES ASSUME LoaderInv, query.file # None PROVE AnswerIsOneImage
    BY DEF AnswerIsOneImage
  <2> DEFINE image == AtIn(images, query.address)
  <2>1. ~crashed
    BY DEF LoaderInv, CrashHolds
  <2>2. CASE query.step # "answered"
    BY <2>1, <2>2 DEF AnswerIsOneImage
  <2>3. CASE query.step = "answered"
    <3>1. /\ query.address \in Int /\ Apart(images) /\ image.file = query.file
          /\ query.answer.path = image.file /\ query.ret = 1
          /\ query.answer.symbol = SymbolOf(image, query.address)
      BY <2>3 DEF LoaderInv, Follows, ImagesHold
    <3>2. image \in Mapped(images)
      BY <3>1, ImagesOK, AtInFound
    <3>3. image \in ImageRecords
      BY <3>1, <3>2, ApartFacts
    <3>4. At(query.address) = image
      BY AtIsAtIn
    <3> HIDE DEF image
    <3>5. LET exports == Image[image.file].exports
              below == {o \in DOMAIN exports : image.base + exports[o] <= query.address}
              nearest == {o \in below : \A p \in below : exports[p] <= exports[o]}
              names == {n \in ToSet(Image[image.file].names) : n.ordinal \in nearest}
              symbol == SymbolOf(image, query.address) IN
          IF symbol = None THEN {n.ordinal : n \in names} # nearest \/ nearest = {}
          ELSE \E o \in nearest : FindSymbol(image, symbol) = image.base + exports[o]
      BY <3>1, <3>3, ImagesOK, SymbolIsNearest
    <3> QED BY <2>1, <3>1, <3>4, <3>5 DEF AnswerIsOneImage
  <2> QED BY <2>2, <2>3
<1> QED BY <1>1, LoaderHolds, PTL

-----------------------------------------------------------------------------
(* Lookups *)

Fields == {"pc", "stack", "i", "fa", "rsp", "status", "bad"}

\* A record that is not of this moment is of a file that went.
RecordsHold ==
  /\ gone = {} => ~garbage
  /\ \A r \in winModules :
       /\ r.file \in Files /\ r.base \in Int
       /\ r.name \in {<<"base name", r.file>>, <<"path", r.file>>}
       /\ r.file \notin gone =>
            \E i \in Mapped(images) : i.file = r.file /\ i.base = r.base

\* Somebody keeps what is on a walked stack loaded; the frame index is in it.
WalkHolds(t) ==
  LET w == walk[t] IN
  /\ DOMAIN w = Fields /\ w.i \in Nat
  /\ w.stack # <<>> =>
       /\ w.stack \in Stacks /\ platform = "windows"
       /\ \A n \in DOMAIN w.stack : refs[w.stack[n].file] > 0
  /\ w.pc # "idle" => w.stack # <<>>
  /\ w.pc \notin {"idle", "cur", "lost"} => w.i \in 1..Len(w.stack)
  /\ w.bad # None => w.bad \in gone

\* A step that looks a frame up.
Seeking(t) ==
  walk[t].pc \in {"cur", "fa", "rsp"} /\ (walk[t].pc # "cur" => walk[t].i < Len(walk[t].stack))

\* A refresh that is on its way will see the image that is sought.
RefreshHolds(t) ==
  LET r == refresh[t] IN
  /\ r.step \in {"no", "begin", "again", "read", "done"}
  /\ r.step # "no" => Seeking(t) \/ (walk[t].pc = "lost" /\ r.step = "done")
  /\ r.step = "again" =>
       /\ r.num \in Nat /\ (gone = {} => r.num <= Len(images))
       /\ \E n \in DOMAIN images : n <= r.num /\ images[n].file = Sought(t).file
  /\ r.step = "read" =>
       /\ \A h \in Mapped(r.handles) : h \in Mapped(images) \/ h.file \in gone
       /\ \E h \in Mapped(r.handles) : h \in Mapped(images) /\ h.file = Sought(t).file
  /\ r.step = "done" /\ walk[t].pc # "lost" =>
       \E record \in winModules : record.name = <<"path", Sought(t).file>>

Tables == walk = [t \in Walkers |-> walk[t]] /\ refresh = [t \in Walkers |-> refresh[t]]

LookupInv == Tables /\ RecordsHold /\ \A t \in Walkers : WalkHolds(t) /\ RefreshHolds(t)

\* The frame a step looks up, and the image it is in.
LEMMA SoughtFacts ==
  ASSUME LoaderInv, NEW t \in Walkers, WalkHolds(t), Seeking(t)
  PROVE  /\ Sought(t).file \in Files /\ Sought(t).fn \in 1..Len(Image[Sought(t).file].functions)
         /\ ~Excluded(Sought(t).file) /\ platform = "windows" /\ OnStack(Sought(t).file)
         /\ \E n \in DOMAIN images : images[n].file = Sought(t).file
         /\ \E j \in Mapped(images) : j.file = Sought(t).file /\ BaseOf(Sought(t).file) = j.base
<1> DEFINE stack == walk[t].stack
           n == IF walk[t].pc = "cur" THEN 1 ELSE walk[t].i + 1
<1>1. /\ stack \in Stacks /\ platform = "windows"
      /\ \A k \in DOMAIN stack : refs[stack[k].file] > 0
      /\ walk[t].pc # "cur" => walk[t].i \in 1..Len(stack) /\ walk[t].i < Len(stack)
  BY DEF WalkHolds, Seeking
<1>2. /\ stack \in Seq([file : Files, fn : Nat]) /\ stack # <<>>
      /\ \A k \in DOMAIN stack :
           ~Excluded(stack[k].file) /\ stack[k].fn \in 1..Len(Image[stack[k].file].functions)
  BY <1>1, StacksOK
<1> HIDE DEF stack
<1>3. Len(stack) \in Nat /\ DOMAIN stack = 1..Len(stack) /\ Len(stack) # 0
  BY <1>2, LenProperties, EmptySeq
<1>4. n \in DOMAIN stack
  BY <1>1, <1>3
<1>5. Sought(t) = stack[n]
  BY DEF Sought, stack
<1>6. stack[n] \in [file : Files, fn : Nat]
  BY <1>2, <1>4, ElementOfSeq, <1>3
<1> HIDE DEF n
<1>7. Sought(t).file \in Files /\ refs[Sought(t).file] > 0
  BY <1>1, <1>4, <1>5, <1>6
<1>8. PICK k \in DOMAIN images : images[k].file = Sought(t).file
  BY <1>7 DEF LoaderInv, ImagesHold
<1>9. Apart(images) /\ images[k] \in Mapped(images)
  BY DEF LoaderInv, ImagesHold, Mapped
<1>10. BaseOf(Sought(t).file) = images[k].base
  <2>1. \A i \in Mapped(images) : i.file = Sought(t).file => i = images[k]
    BY <1>8, <1>9, ApartFacts
  <2>2. Mapped(images) = Loaded
    BY DEF Mapped, Loaded
  <2> QED BY <1>8, <1>9, <2>1, <2>2 DEF BaseOf
<1>11. OnStack(Sought(t).file)
  BY <1>4, <1>5 DEF OnStack, stack
<1> QED BY <1>1, <1>2, <1>4, <1>5, <1>7, <1>8, <1>9, <1>10, <1>11

\* Nothing a lookup relies on is disturbed by images that come and go as long
\* as those of the walked stacks stay.
LEMMA ImagesKeepLookup ==
  ASSUME LoaderInv, LookupInv, UNCHANGED <<managerVars, walk, platform>>,
         gone \subseteq gone',
         gone' = {} => Len(images) <= Len(images'),
         Len(images) \in Nat, Len(images') \in Nat,
         \A i \in Mapped(images) : i \in Mapped(images') \/ i.file \in gone',
         \A g \in Files : OnStack(g) /\ refs[g] > 0 => refs'[g] > 0,
         \A n \in DOMAIN images : OnStack(images[n].file) =>
           \E m \in DOMAIN images' : m <= n /\ m \in Int /\ n \in Int /\ images'[m] = images[n]
  PROVE  LookupInv'
<1>1. UNCHANGED <<winModules, refresh, garbage, walk, platform>>
  BY DEF managerVars
<1>2. Tables'
  BY <1>1 DEF LookupInv, Tables
<1>3. RecordsHold'
  <2>1. gone' = {} => ~garbage
    BY DEF LookupInv, RecordsHold
  <2>2. ASSUME NEW r \in winModules, r.file \notin gone'
        PROVE  \E i \in Mapped(images') : i.file = r.file /\ i.base = r.base
    <3>1. PICK i \in Mapped(images) : i.file = r.file /\ i.base = r.base
      BY <2>2 DEF LookupInv, RecordsHold
    <3> QED BY <2>2, <3>1
  <2> QED BY <1>1, <2>1, <2>2 DEF LookupInv, RecordsHold
<1>4. ASSUME NEW t \in Walkers PROVE WalkHolds(t)' /\ RefreshHolds(t)'
  <2> DEFINE stack == walk[t].stack
  <2>1. WalkHolds(t) /\ RefreshHolds(t)
    BY DEF LookupInv
  <2>2. ASSUME stack # <<>>, NEW n \in DOMAIN stack PROVE refs'[stack[n].file] > 0
    <3>1. refs[stack[n].file] > 0 /\ stack \in Stacks
      BY <2>1, <2>2 DEF WalkHolds
    <3>2. stack \in Seq([file : Files, fn : Nat])
      BY <3>1, StacksOK
    <3>3. OnStack(stack[n].file)
      BY <2>2 DEF OnStack
    <3> HIDE DEF stack
    <3>4. stack[n] \in [file : Files, fn : Nat]
      BY <2>2, <3>2, LenProperties, ElementOfSeq
    <3> QED BY <3>1, <3>3, <3>4
  <2>3. WalkHolds(t)'
    BY <1>1, <2>1, <2>2 DEF WalkHolds
  <2>4. /\ UNCHANGED <<refresh[t], walk[t], Sought(t)>> /\ (Seeking(t) <=> Seeking(t)')
    BY <1>1 DEF Sought, Seeking
  <2>5. refresh[t].step = "again" =>
          /\ refresh[t].num \in Nat /\ (gone' = {} => refresh[t].num <= Len(images'))
          /\ \E n \in DOMAIN images' : n <= refresh[t].num /\ images'[n].file = Sought(t).file
    <3> SUFFICES ASSUME refresh[t].step = "again"
                 PROVE  /\ refresh[t].num \in Nat /\ (gone' = {} => refresh[t].num <= Len(images'))
                        /\ \E n \in DOMAIN images' : n <= refresh[t].num /\ images'[n].file = Sought(t).file
      OBVIOUS
    <3>1. /\ refresh[t].num \in Nat /\ (gone = {} => refresh[t].num <= Len(images)) /\ Seeking(t)
          /\ \E n \in DOMAIN images : n <= refresh[t].num /\ images[n].file = Sought(t).file
      BY <2>1 DEF RefreshHolds
    <3>2. gone' = {} => refresh[t].num <= Len(images')
      BY <3>1
    <3>3. PICK n \in DOMAIN images : n <= refresh[t].num /\ images[n].file = Sought(t).file
      BY <3>1
    <3>4. OnStack(images[n].file)
      BY <2>1, <3>1, <3>3, SoughtFacts
    <3>5. PICK m \in DOMAIN images' : m <= n /\ m \in Int /\ n \in Int /\ images'[m] = images[n]
      BY <3>4
    <3> QED BY <3>1, <3>2, <3>3, <3>5
  <2>6. refresh[t].step = "read" =>
          /\ \A h \in Mapped(refresh[t].handles) : h \in Mapped(images') \/ h.file \in gone'
          /\ \E h \in Mapped(refresh[t].handles) : h \in Mapped(images') /\ h.file = Sought(t).file
    <3> SUFFICES ASSUME refresh[t].step = "read"
                 PROVE  /\ \A h \in Mapped(refresh[t].handles) : h \in Mapped(images') \/ h.file \in gone'
                        /\ \E h \in Mapped(refresh[t].handles) : h \in Mapped(images') /\ h.file = Sought(t).file
      OBVIOUS
    <3>1. /\ \A h \in Mapped(refresh[t].handles) : h \in Mapped(images) \/ h.file \in gone
          /\ \E h \in Mapped(refresh[t].handles) : h \in Mapped(images) /\ h.file = Sought(t).file
          /\ Seeking(t)
      BY <2>1 DEF RefreshHolds
    <3>2. \A h \in Mapped(refresh[t].handles) : h \in Mapped(images') \/ h.file \in gone'
      BY <3>1
    <3>3. PICK h \in Mapped(refresh[t].handles) : h \in Mapped(images) /\ h.file = Sought(t).file
      BY <3>1
    <3>4. PICK n \in DOMAIN images : h = images[n]
      BY <3>3 DEF Mapped
    <3>5. OnStack(h.file)
      BY <2>1, <3>1, <3>3, SoughtFacts
    <3>6. h \in Mapped(images')
      BY <3>4, <3>5 DEF Mapped
    <3> QED BY <3>2, <3>3, <3>6
  <2>7. RefreshHolds(t)'
    BY <1>1, <2>1, <2>4, <2>5, <2>6 DEF RefreshHolds
  <2> QED BY <2>3, <2>7
<1> QED BY <1>2, <1>3, <1>4 DEF LookupInv

LEMMA LoadKeepsLookup ==
  ASSUME LoaderInv, LookupInv, NEW f \in Files, LoadImage(f),
         UNCHANGED <<managerVars, walk, platform, gone>>
  PROVE  LookupInv'
<1>1. /\ ImagesHold' /\ Mapped(images) \subseteq Mapped(images') /\ Len(images) <= Len(images')
      /\ \A n \in DOMAIN images : n \in DOMAIN images' /\ images'[n] = images[n]
      /\ \A g \in Files : refs[g] > 0 => refs'[g] > 0
  BY ImagesOK, LoadKeeps DEF LoaderInv
<1>2. Apart(images) /\ Apart(images')
  BY <1>1 DEF LoaderInv, ImagesHold
<1>3. Len(images) \in Nat /\ Len(images') \in Nat /\ DOMAIN images = 1..Len(images)
  BY <1>2, ApartFacts
<1>4. \A n \in DOMAIN images : n <= n /\ n \in Int
  BY <1>3
<1> QED BY <1>1, <1>3, <1>4, ImagesKeepLookup

LEMMA FreeKeepsLookup ==
  ASSUME LoaderInv, LookupInv, NEW f \in Files, refs[f] > 0, ~OnStack(f), FreeImage(f),
         UNCHANGED <<managerVars, walk, platform>>
  PROVE  LookupInv'
<1>1. /\ ImagesHold'
      /\ \A i \in Mapped(images) : i.file # f => i \in Mapped(images')
      /\ gone \subseteq gone'
      /\ \/ images' = images /\ gone' = gone
         \/ /\ f \in gone'
            /\ \A n \in DOMAIN images : images[n].file # f =>
                 \E m \in DOMAIN images' : m <= n /\ images'[m] = images[n]
      /\ \A g \in Files : g # f => refs'[g] = refs[g]
  BY ImagesOK, FreeKeeps DEF LoaderInv
<1>2. Apart(images) /\ Apart(images')
  BY <1>1 DEF LoaderInv, ImagesHold
<1>3. /\ Len(images) \in Nat /\ DOMAIN images = 1..Len(images)
      /\ Len(images') \in Nat /\ DOMAIN images' = 1..Len(images')
  BY <1>2, ApartFacts
<1>4. gone' = {} => Len(images) <= Len(images')
  BY <1>1, <1>3
<1>5. \A i \in Mapped(images) : i \in Mapped(images') \/ i.file \in gone'
  BY <1>1
<1>6. \A g \in Files : OnStack(g) /\ refs[g] > 0 => refs'[g] > 0
  BY <1>1
<1>7. ASSUME NEW n \in DOMAIN images, OnStack(images[n].file)
      PROVE  \E m \in DOMAIN images' : m <= n /\ m \in Int /\ n \in Int /\ images'[m] = images[n]
  <2>1. images[n].file # f
    BY <1>7
  <2>2. PICK m \in DOMAIN images' : m <= n /\ images'[m] = images[n]
    BY <1>1, <1>3, <2>1
  <2> QED BY <1>3, <2>2
<1> QED BY <1>1, <1>3, <1>4, <1>5, <1>6, <1>7, ImagesKeepLookup

\* A pc is behind the start of its image and before its end.
LEMMA PcInside ==
  ASSUME LoaderInv, NEW t \in Walkers, WalkHolds(t), Seeking(t)
  PROVE  \E j \in Mapped(images) :
           /\ j.file = Sought(t).file /\ j.file \in Files /\ j.base \in Bases /\ j.base \in Int
           /\ BaseOf(Sought(t).file) = j.base
           /\ Pc(Sought(t)) = j.base + Image[j.file].functions[Sought(t).fn].start + 1
           /\ Sought(t).fn \in 1..Len(Image[j.file].functions)
           /\ Pc(Sought(t)) \in Int /\ Image[j.file].size \in Nat
           /\ j.base < Pc(Sought(t)) /\ Pc(Sought(t)) < j.base + Image[j.file].size
<1>1. PICK j \in Mapped(images) : j.file = Sought(t).file /\ BaseOf(Sought(t).file) = j.base
  BY SoughtFacts
<1>2. Apart(images)
  BY DEF LoaderInv, ImagesHold
<1>3. j.file \in Files /\ j.base \in Bases /\ j.base \in Int
  BY <1>2, ApartFacts, ImagesOK
<1>4. Sought(t).fn \in 1..Len(Image[j.file].functions)
  BY <1>1, SoughtFacts
<1> DEFINE table == Image[j.file].functions
           fn == Sought(t).fn
<1>5. /\ table[fn].start \in Nat /\ table[fn].end \in Nat
      /\ table[fn].start + 1 < table[fn].end /\ table[fn].end <= Image[j.file].size
  BY <1>3, <1>4, FunctionsOK DEF TableOK
<1>6. Image[j.file].size \in Nat
  BY <1>3, ImagesOK DEF TablesOK
<1>7. Pc(Sought(t)) = j.base + table[fn].start + 1
  BY <1>1 DEF Pc, FunctionOf
<1> DEFINE start == table[fn].start
           end == table[fn].end
           size == Image[j.file].size
           pc == Pc(Sought(t))
<1>8. pc \in Int /\ j.base < pc /\ pc < j.base + size
  <2>1. start \in Nat /\ end \in Nat /\ start + 1 < end /\ end <= size /\ size \in Nat
    BY <1>5, <1>6
  <2>2. pc = j.base + start + 1
    BY <1>7
  <2> HIDE DEF start, end, size, pc
  <2> QED BY <1>3, <2>1, <2>2
<1> QED BY <1>1, <1>3, <1>4, <1>6, <1>7, <1>8

\* A record of the image, as it is mapped now, has the pc.
LEMMA RecordHasPc ==
  ASSUME LoaderInv, RecordsHold, NEW t \in Walkers, WalkHolds(t), Seeking(t),
         NEW r \in winModules, r.file = Sought(t).file, r.file \notin gone
  PROVE  r \in GetWinModuleByPc(Pc(Sought(t)))
<1>1. PICK j \in Mapped(images) :
        /\ j.file = Sought(t).file /\ j.base \in Int /\ Pc(Sought(t)) \in Int
        /\ Image[j.file].size \in Nat
        /\ j.base < Pc(Sought(t)) /\ Pc(Sought(t)) < j.base + Image[j.file].size
  BY PcInside
<1>2. PICK i \in Mapped(images) : i.file = r.file /\ i.base = r.base
  BY DEF RecordsHold
<1>3. r.base = j.base
  BY <1>1, <1>2, ApartFacts DEF LoaderInv, ImagesHold
<1>4. IsInModule(r, Pc(Sought(t)))
  <2> DEFINE pc == Pc(Sought(t))
             size == Image[j.file].size
  <2>1. j.base \in Int /\ pc \in Int /\ size \in Nat /\ j.base < pc /\ pc < j.base + size
    BY <1>1
  <2>2. r.file = j.file
    BY <1>1
  <2> HIDE DEF pc
  <2>3. IsInModule(r, pc)
    BY <1>3, <2>1, <2>2 DEF IsInModule
  <2> QED BY <2>3 DEF pc
<1> QED BY <1>4 DEF GetWinModuleByPc

\* A record with the pc is right, unless its file was unloaded once.
LEMMA RecordFits ==
  ASSUME LoaderInv, RecordsHold, NEW t \in Walkers, WalkHolds(t), Seeking(t),
         NEW r \in GetWinModuleByPc(Pc(Sought(t))), r.file \notin gone
  PROVE  Fits(r, Sought(t))
<1> DEFINE pc == Pc(Sought(t))
<1>1. PICK j \in Mapped(images) :
        /\ j.file = Sought(t).file /\ j.file \in Files /\ j.base \in Bases /\ j.base \in Int
        /\ BaseOf(Sought(t).file) = j.base
        /\ pc = j.base + Image[j.file].functions[Sought(t).fn].start + 1
        /\ Sought(t).fn \in 1..Len(Image[j.file].functions)
        /\ pc \in Int /\ Image[j.file].size \in Nat
        /\ j.base < pc /\ pc < j.base + Image[j.file].size
  BY PcInside
<1>2. r \in winModules /\ IsInModule(r, pc)
  BY DEF GetWinModuleByPc
<1>3. PICK i \in Mapped(images) : i.file = r.file /\ i.base = r.base
  BY <1>2 DEF RecordsHold
<1>4. Apart(images) /\ i.file \in Files /\ i.base \in Bases /\ i.base \in Int
  BY ApartFacts, ImagesOK DEF LoaderInv, ImagesHold
<1>5. Image[i.file].size \in Nat
  BY <1>4, ImagesOK DEF TablesOK
<1>6. i.base <= pc /\ pc <= i.base + Image[i.file].size
  BY <1>2, <1>3 DEF IsInModule
<1>7. /\ i.base < j.base => i.base + Image[i.file].size <= j.base
      /\ j.base < i.base => j.base + Image[j.file].size <= i.base
  BY <1>1, <1>4, ImagesOK
<1> HIDE DEF pc
<1>8. i.base = j.base
  <2> DEFINE m == Image[i.file].size
             n == Image[j.file].size
  <2>1. /\ i.base \in Int /\ j.base \in Int /\ m \in Nat /\ n \in Nat /\ pc \in Int
        /\ i.base <= pc /\ pc <= i.base + m /\ j.base < pc /\ pc < j.base + n
        /\ (i.base < j.base => i.base + m <= j.base) /\ (j.base < i.base => j.base + n <= i.base)
    BY <1>1, <1>4, <1>5, <1>6, <1>7
  <2> HIDE DEF m, n
  <2> QED BY <2>1
<1>9. i = j
  BY <1>4, <1>8, ApartFacts
<1>10. GetRuntimeFunction(r, pc) = Sought(t).fn
  <2>1. r.file = j.file /\ r.base = j.base
    BY <1>3, <1>9
  <2> DEFINE n == Sought(t).fn
  <2>2. /\ r.file \in Files /\ r.base \in Int /\ n \in 1..Len(Image[r.file].functions)
        /\ pc = r.base + Image[r.file].functions[n].start + 1
    BY <1>1, <2>1
  <2> HIDE DEF n
  <2>3. GetRuntimeFunction(r, pc) = n
    BY <2>2, FunctionsOK, FunctionFound
  <2> QED BY <2>3 DEF n
<1> QED BY <1>1, <1>3, <1>9, <1>10 DEF Fits, pc

\* What a step of one thread has to keep.
LEMMA OneWalks ==
  ASSUME LookupInv, NEW t \in Walkers, UNCHANGED loaderVars, winModules \subseteq winModules',
         walk' = [s \in Walkers |-> walk'[s]], refresh' = [s \in Walkers |-> refresh'[s]],
         \A s \in Walkers : s # t => walk'[s] = walk[s] /\ refresh'[s] = refresh[s],
         RecordsHold', WalkHolds(t)', RefreshHolds(t)'
  PROVE  LookupInv'
<1>1. UNCHANGED <<platform, images, refs, gone>>
  BY DEF loaderVars
<1>2. ASSUME NEW s \in Walkers, s # t PROVE WalkHolds(s)' /\ RefreshHolds(s)'
  <2>1. WalkHolds(s) /\ RefreshHolds(s) /\ walk'[s] = walk[s] /\ refresh'[s] = refresh[s]
    BY <1>2 DEF LookupInv
  <2>2. WalkHolds(s)'
    BY <1>1, <2>1 DEF WalkHolds
  <2>3. Sought(s)' = Sought(s) /\ (Seeking(s) <=> Seeking(s)')
    BY <2>1 DEF Sought, Seeking
  <2>4. RefreshHolds(s)'
    BY <1>1, <2>1, <2>3 DEF RefreshHolds
  <2> QED BY <2>2, <2>4
<1>3. Tables'
  BY DEF Tables
<1>4. \A s \in Walkers : WalkHolds(s)' /\ RefreshHolds(s)'
  BY <1>2
<1> QED BY <1>3, <1>4 DEF LookupInv

LEMMA SetWalkFacts ==
  ASSUME Tables, NEW t \in Walkers, NEW w, SetWalk(t, w)
  PROVE  /\ walk' = [s \in Walkers |-> walk'[s]] /\ walk'[t] = w
         /\ \A s \in Walkers : s # t => walk'[s] = walk[s]
BY DEF Tables, SetWalk

LEMMA SetRefreshFacts ==
  ASSUME Tables, NEW t \in Walkers, NEW r, SetRefresh(t, r)
  PROVE  /\ refresh' = [s \in Walkers |-> refresh'[s]] /\ refresh'[t] = r
         /\ \A s \in Walkers : s # t => refresh'[s] = refresh[s]
BY DEF Tables, SetRefresh

\* The updates a walk sees.
WalkOf(stack) == [NoWalk EXCEPT !.pc = "cur", !.stack = stack]
LostAt(w, b) == [w EXCEPT !.pc = "lost", !.bad = b]
FirstFrame(w, fa) == [w EXCEPT !.pc = "rsp", !.i = 1, !.fa = fa]
CallerSp(w, rsp, pc) == [w EXCEPT !.rsp = rsp, !.pc = pc]
CallerFrame(w, fa, status, pc) == [w EXCEPT !.i = w.i + 1, !.fa = fa, !.status = status, !.pc = pc]
Marked(w, pc) == [w EXCEPT !.pc = pc]

LEMMA LostUpdate ==
  ASSUME NEW w, DOMAIN w = Fields, NEW b
  PROVE  /\ DOMAIN LostAt(w, b) = Fields /\ LostAt(w, b).pc = "lost" /\ LostAt(w, b).bad = b
         /\ LostAt(w, b).stack = w.stack /\ LostAt(w, b).i = w.i
BY DEF LostAt, Fields

LEMMA FirstUpdate ==
  ASSUME NEW w, DOMAIN w = Fields, NEW a
  PROVE  /\ DOMAIN FirstFrame(w, a) = Fields /\ FirstFrame(w, a).pc = "rsp" /\ FirstFrame(w, a).bad = w.bad
         /\ FirstFrame(w, a).stack = w.stack /\ FirstFrame(w, a).i = 1
         /\ FirstFrame(w, a).fa = a /\ FirstFrame(w, a).status = w.status
BY DEF FirstFrame, Fields

LEMMA SpUpdate ==
  ASSUME NEW w, DOMAIN w = Fields, NEW a, NEW p
  PROVE  /\ DOMAIN CallerSp(w, a, p) = Fields /\ CallerSp(w, a, p).pc = p /\ CallerSp(w, a, p).bad = w.bad
         /\ CallerSp(w, a, p).stack = w.stack /\ CallerSp(w, a, p).i = w.i
         /\ CallerSp(w, a, p).fa = w.fa /\ CallerSp(w, a, p).status = w.status
BY DEF CallerSp, Fields

LEMMA FrameUpdate ==
  ASSUME NEW w, DOMAIN w = Fields, NEW a, NEW b, NEW p
  PROVE  /\ DOMAIN CallerFrame(w, a, b, p) = Fields /\ CallerFrame(w, a, b, p).pc = p /\ CallerFrame(w, a, b, p).bad = w.bad
         /\ CallerFrame(w, a, b, p).stack = w.stack /\ CallerFrame(w, a, b, p).i = w.i + 1
         /\ CallerFrame(w, a, b, p).fa = a /\ CallerFrame(w, a, b, p).status = b
BY DEF CallerFrame, Fields

LEMMA MarkUpdate ==
  ASSUME NEW w, DOMAIN w = Fields, NEW p
  PROVE  /\ DOMAIN Marked(w, p) = Fields /\ Marked(w, p).pc = p /\ Marked(w, p).bad = w.bad
         /\ Marked(w, p).stack = w.stack /\ Marked(w, p).i = w.i
         /\ Marked(w, p).fa = w.fa /\ Marked(w, p).status = w.status
BY DEF Marked, Fields

LEMMA StartKeepsLookup ==
  ASSUME LoaderInv, LookupInv, NEW t \in Walkers, NEW stack \in Stacks, StartWalk(t, stack)
  PROVE  LookupInv'
<1>1. /\ platform = "windows" /\ walk[t].pc = "idle"
      /\ \A i \in DOMAIN stack : refs[stack[i].file] > 0
      /\ SetWalk(t, [NoWalk EXCEPT !.pc = "cur", !.stack = stack])
      /\ UNCHANGED <<loaderVars, managerVars>>
  BY DEF StartWalk
<1>2. /\ Tables /\ RecordsHold /\ WalkHolds(t) /\ RefreshHolds(t)
  BY DEF LookupInv
<1> DEFINE w == WalkOf(stack)
<1>3. SetWalk(t, w) /\ DOMAIN w = Fields /\ w.pc = "cur" /\ w.stack = stack /\ w.i = 0 /\ w.bad = None
  <2>1. SetWalk(t, w)
    BY <1>1 DEF WalkOf
  <2>2. DOMAIN NoWalk = Fields /\ NoWalk.i = 0 /\ NoWalk.bad = None
    BY DEF NoWalk, Fields
  <2>3. DOMAIN w = Fields /\ w.pc = "cur" /\ w.stack = stack /\ w.i = 0 /\ w.bad = None
    BY <2>2 DEF WalkOf, Fields
  <2> QED BY <2>1, <2>3
<1> HIDE DEF w
<1>4. /\ walk' = [s \in Walkers |-> walk'[s]] /\ walk'[t] = w
      /\ \A s \in Walkers : s # t => walk'[s] = walk[s]
  BY <1>2, <1>3, SetWalkFacts
<1>5. UNCHANGED <<winModules, refresh, garbage, platform, images, refs, gone>>
  BY <1>1 DEF loaderVars, managerVars
<1>6. refresh[t].step = "no"
  BY <1>1, <1>2 DEF RefreshHolds, Seeking
<1>7. RecordsHold'
  BY <1>2, <1>5 DEF RecordsHold
<1>8. WalkHolds(t)'
  <2>1. stack # <<>>
    BY StacksOK
  <2> QED BY <1>1, <1>3, <1>4, <1>5, <2>1 DEF WalkHolds
<1>9. RefreshHolds(t)'
  BY <1>5, <1>6 DEF RefreshHolds
<1>10. refresh' = [s \in Walkers |-> refresh'[s]] /\ \A s \in Walkers : refresh'[s] = refresh[s]
  BY <1>2, <1>5 DEF Tables
<1> QED BY <1>1, <1>4, <1>5, <1>7, <1>8, <1>9, <1>10, OneWalks

LEMMA StopKeepsLookup ==
  ASSUME LoaderInv, LookupInv, NEW t \in Walkers, StopWalk(t)
  PROVE  LookupInv'
<1>1. /\ refresh[t].step = "no" /\ SetWalk(t, NoWalk) /\ UNCHANGED <<loaderVars, managerVars>>
  BY DEF StopWalk
<1>2. /\ Tables /\ RecordsHold /\ WalkHolds(t) /\ RefreshHolds(t)
  BY DEF LookupInv
<1>3. /\ walk' = [s \in Walkers |-> walk'[s]] /\ walk'[t] = NoWalk
      /\ \A s \in Walkers : s # t => walk'[s] = walk[s]
  BY <1>1, <1>2, SetWalkFacts
<1>4. UNCHANGED <<winModules, refresh, garbage, platform, images, refs, gone>>
  BY <1>1 DEF loaderVars, managerVars
<1>5. RecordsHold'
  BY <1>2, <1>4 DEF RecordsHold
<1>6. WalkHolds(t)'
  BY <1>3 DEF WalkHolds, NoWalk, Fields
<1>7. RefreshHolds(t)'
  BY <1>1, <1>4 DEF RefreshHolds
<1>8. refresh' = [s \in Walkers |-> refresh'[s]] /\ \A s \in Walkers : refresh'[s] = refresh[s]
  BY <1>2, <1>4 DEF Tables
<1> QED BY <1>1, <1>3, <1>4, <1>5, <1>6, <1>7, <1>8, OneWalks

\* A walk that ends over a record or for want of one.
LEMMA LostKeepsLookup ==
  ASSUME LoaderInv, LookupInv, NEW t \in Walkers, Seeking(t), refresh[t].step \in {"no", "done"},
         NEW b \in gone, SetWalk(t, [walk[t] EXCEPT !.pc = "lost", !.bad = b]),
         UNCHANGED <<loaderVars, managerVars>>
  PROVE  LookupInv'
<1> DEFINE w == LostAt(walk[t], b)
<1>1. SetWalk(t, w)
  BY DEF LostAt
<1>2. /\ Tables /\ RecordsHold /\ WalkHolds(t) /\ RefreshHolds(t)
  BY DEF LookupInv
<1>3. DOMAIN w = Fields /\ w.pc = "lost" /\ w.bad = b /\ w.stack = walk[t].stack /\ w.i = walk[t].i
  BY <1>2, LostUpdate DEF WalkHolds
<1> HIDE DEF w
<1>4. /\ walk' = [s \in Walkers |-> walk'[s]] /\ walk'[t] = w
      /\ \A s \in Walkers : s # t => walk'[s] = walk[s]
  BY <1>1, <1>2, SetWalkFacts
<1>5. UNCHANGED <<winModules, refresh, garbage, platform, images, refs, gone>>
  BY DEF loaderVars, managerVars
<1>6. RecordsHold'
  BY <1>2, <1>5 DEF RecordsHold
<1>7. WalkHolds(t)'
  BY ONLY <1>2, <1>3, <1>4, <1>5, b \in gone, Seeking(t) DEF WalkHolds, Seeking
<1>8. RefreshHolds(t)'
  BY <1>3, <1>4, <1>5 DEF RefreshHolds
<1>9. refresh' = [s \in Walkers |-> refresh'[s]] /\ \A s \in Walkers : refresh'[s] = refresh[s]
  BY <1>2, <1>5 DEF Tables
<1> QED BY <1>4, <1>5, <1>6, <1>7, <1>8, <1>9, OneWalks

\* A thread begins or ends a refresh.
RefreshAt(s) == [NoRefresh EXCEPT !.step = s]

LEMMA RefreshUpdate == ASSUME NEW s PROVE RefreshAt(s).step = s
BY DEF RefreshAt, NoRefresh

\* A refresh goes a step on.
LEMMA RefreshKeepsLookup ==
  ASSUME LookupInv, NEW t \in Walkers, NEW r, SetRefresh(t, r),
         UNCHANGED <<loaderVars, walk>>, winModules \subseteq winModules',
         RecordsHold', Seeking(t),
         r.step \in {"no", "begin", "again", "read", "done"},
         r.step = "again" =>
           /\ r.num \in Nat /\ (gone = {} => r.num <= Len(images))
           /\ \E n \in DOMAIN images : n <= r.num /\ images[n].file = Sought(t).file,
         r.step = "read" =>
           /\ \A h \in Mapped(r.handles) : h \in Mapped(images) \/ h.file \in gone
           /\ \E h \in Mapped(r.handles) : h \in Mapped(images) /\ h.file = Sought(t).file,
         r.step = "done" => \E record \in winModules' : record.name = <<"path", Sought(t).file>>
  PROVE  LookupInv'
<1>1. Tables /\ WalkHolds(t)
  BY DEF LookupInv
<1>2. /\ refresh' = [s \in Walkers |-> refresh'[s]] /\ refresh'[t] = r
      /\ \A s \in Walkers : s # t => refresh'[s] = refresh[s]
  BY <1>1, SetRefreshFacts
<1>3. walk' = [s \in Walkers |-> walk'[s]] /\ \A s \in Walkers : walk'[s] = walk[s]
  BY <1>1 DEF Tables
<1>4. UNCHANGED <<platform, images, refs, gone>>
  BY DEF loaderVars
<1>5. WalkHolds(t)'
  BY <1>1, <1>4 DEF WalkHolds
<1>6. Sought(t)' = Sought(t) /\ Seeking(t)'
  BY DEF Sought, Seeking
<1>7. RefreshHolds(t)'
  BY <1>2, <1>4, <1>6 DEF RefreshHolds
<1> QED BY <1>2, <1>3, <1>5, <1>7, OneWalks

LEMMA NotFoundKeepsLookup ==
  ASSUME LoaderInv, LookupInv, NEW t \in Walkers, NotFound(t)
  PROVE  LookupInv'
<1>1. /\ Seeking(t) /\ GetWinModuleByPc(Pc(Sought(t))) = {}
      /\ UNCHANGED <<loaderVars, winModules, garbage>>
      /\ \/ refresh[t].step = "no" /\ SetRefresh(t, RefreshAt("begin")) /\ walk' = walk
         \/ /\ refresh[t].step = "done" /\ refresh' = refresh
            /\ SetWalk(t, [walk[t] EXCEPT !.pc = "lost", !.bad = Sought(t).file])
  BY DEF NotFound, AtStep, Seeking, RefreshAt
<1>2. /\ RecordsHold /\ WalkHolds(t) /\ RefreshHolds(t)
  BY DEF LookupInv
<1>3. RecordsHold'
  BY <1>1, <1>2 DEF RecordsHold, loaderVars
<1>4. CASE SetRefresh(t, RefreshAt("begin")) /\ walk' = walk
  BY <1>1, <1>3, <1>4, RefreshUpdate, RefreshKeepsLookup
<1>5. CASE /\ refresh[t].step = "done" /\ refresh' = refresh
           /\ SetWalk(t, [walk[t] EXCEPT !.pc = "lost", !.bad = Sought(t).file])
  <2> DEFINE f == Sought(t).file
  <2>1. PICK r \in winModules : r.name = <<"path", f>>
    BY <1>1, <1>2, <1>5 DEF RefreshHolds, Seeking
  <2>2. r.file = f
    <3>1. r.name \in {<<"base name", r.file>>, <<"path", r.file>>}
      BY <1>2 DEF RecordsHold
    <3> HIDE DEF f
    <3> QED BY <2>1, <3>1
  <2>3. f \in gone
    BY <1>1, <1>2, <2>2, RecordHasPc
  <2>4. SetWalk(t, [walk[t] EXCEPT !.pc = "lost", !.bad = f])
    BY <1>5
  <2>5. UNCHANGED <<loaderVars, managerVars>>
    BY <1>1, <1>5 DEF managerVars
  <2> HIDE DEF f
  <2> QED BY <1>1, <1>5, <2>3, <2>4, <2>5, LostKeepsLookup
<1> QED BY <1>1, <1>4, <1>5

LEMMA WrongRecordKeepsLookup ==
  ASSUME LoaderInv, LookupInv, NEW t \in Walkers, WrongRecord(t)
  PROVE  LookupInv'
<1>1. /\ Seeking(t) /\ refresh[t].step \in {"no", "done"} /\ UNCHANGED <<loaderVars, managerVars>>
      /\ \E record \in GetWinModuleByPc(Pc(Sought(t))) :
           /\ ~Fits(record, Sought(t))
           /\ SetWalk(t, [walk[t] EXCEPT !.pc = "lost", !.bad = record.file])
  BY DEF WrongRecord, AtStep, Seeking
<1>2. PICK record \in GetWinModuleByPc(Pc(Sought(t))) :
        /\ ~Fits(record, Sought(t))
        /\ SetWalk(t, [walk[t] EXCEPT !.pc = "lost", !.bad = record.file])
  BY <1>1
<1>3. record.file \in gone
  BY <1>1, <1>2, RecordFits DEF LookupInv
<1> DEFINE f == record.file
<1>4. f \in gone /\ SetWalk(t, [walk[t] EXCEPT !.pc = "lost", !.bad = f])
  BY <1>2, <1>3
<1> HIDE DEF f
<1> QED BY <1>1, <1>4, LostKeepsLookup

LEMMA EnumKeepsLookup ==
  ASSUME LoaderInv, LookupInv, NEW t \in Walkers, EnumProcessModules(t),
         UNCHANGED <<loaderVars, walkVars>>
  PROVE  LookupInv'
<1>1. /\ refresh[t].step = "begin" /\ UNCHANGED <<winModules, garbage, walk>>
      /\ SetRefresh(t, IF Len(images) <= Capacity
                         THEN [step |-> "read", handles |-> images, num |-> Len(images)]
                         ELSE [step |-> "again", handles |-> <<>>, num |-> Len(images)])
  BY DEF EnumProcessModules, walkVars
<1>2. /\ RecordsHold /\ WalkHolds(t) /\ RefreshHolds(t)
  BY DEF LookupInv
<1>3. Seeking(t)
  BY <1>1, <1>2 DEF RefreshHolds
<1>4. PICK n \in DOMAIN images : images[n].file = Sought(t).file
  BY <1>2, <1>3, SoughtFacts
<1>5. Len(images) \in Nat /\ n <= Len(images)
  BY <1>4, ApartFacts DEF LoaderInv, ImagesHold
<1>6. images[n] \in Mapped(images)
  BY DEF Mapped
<1>7. RecordsHold'
  BY <1>1, <1>2 DEF RecordsHold, loaderVars
<1>8. CASE SetRefresh(t, [step |-> "read", handles |-> images, num |-> Len(images)])
  BY <1>1, <1>3, <1>4, <1>6, <1>7, <1>8, RefreshKeepsLookup
<1>9. CASE SetRefresh(t, [step |-> "again", handles |-> <<>>, num |-> Len(images)])
  BY <1>1, <1>3, <1>4, <1>5, <1>7, <1>9, RefreshKeepsLookup
<1> QED BY <1>1, <1>8, <1>9

LEMMA ExpandedKeepsLookup ==
  ASSUME LoaderInv, LookupInv, NEW t \in Walkers, EnumExpanded(t),
         UNCHANGED <<loaderVars, walkVars>>
  PROVE  LookupInv'
<1> DEFINE num == refresh[t].num
           handles == IF Len(images) > num THEN SubSeq(images, 1, num) ELSE images
<1>1. /\ refresh[t].step = "again" /\ UNCHANGED <<winModules, walk>>
      /\ SetRefresh(t, [step |-> "read", num |-> num, handles |-> handles])
      /\ garbage' = (garbage \/ Len(images) < num)
  BY DEF EnumExpanded, walkVars
<1>2. /\ RecordsHold /\ WalkHolds(t) /\ RefreshHolds(t)
  BY DEF LookupInv
<1>3. Seeking(t)
  BY <1>1, <1>2 DEF RefreshHolds
<1>4. num \in Nat /\ (gone = {} => num <= Len(images))
  BY <1>1, <1>2 DEF RefreshHolds
<1>5. PICK n \in DOMAIN images : n <= num /\ images[n].file = Sought(t).file
  BY <1>1, <1>2 DEF RefreshHolds
<1>6. Len(images) \in Nat /\ DOMAIN images = 1..Len(images) /\ images \in Seq(ImageRecords)
  BY ApartFacts DEF LoaderInv, ImagesHold, Apart
<1> HIDE DEF num
<1>7. images[n] \in Mapped(handles) /\ Mapped(handles) \subseteq Mapped(images)
  <2>1. CASE Len(images) > num
    <3>1. Len(SubSeq(images, 1, num)) = num /\ \A k \in 1..num : SubSeq(images, 1, num)[k] = images[k]
      BY <1>4, <1>6, <2>1, SubSeqProperties
    <3>2. SubSeq(images, 1, num) \in Seq(ImageRecords)
      BY <1>4, <1>6, <2>1, SubSeqProperties
    <3>3. DOMAIN SubSeq(images, 1, num) = 1..num
      BY <3>1, <3>2, LenProperties
    <3>4. n \in 1..num /\ 1..num \subseteq DOMAIN images
      BY <1>4, <1>5, <1>6, <2>1
    <3> QED BY <2>1, <3>1, <3>3, <3>4 DEF Mapped
  <2>2. CASE ~(Len(images) > num)
    BY <2>2 DEF Mapped
  <2> QED BY <2>1, <2>2
<1> HIDE DEF handles
<1>8. gone = {} => ~(Len(images) < num)
  BY <1>4, <1>6
<1>9. RecordsHold'
  BY <1>1, <1>2, <1>8 DEF RecordsHold, loaderVars
<1>10. images[n] \in Mapped(images)
  BY DEF Mapped
<1> QED BY <1>1, <1>3, <1>5, <1>7, <1>9, <1>10, RefreshKeepsLookup

LEMMA ReadKeepsLookup ==
  ASSUME LoaderInv, LookupInv, NEW t \in Walkers, ReadModuleInfo(t),
         UNCHANGED <<loaderVars, walkVars>>
  PROVE  LookupInv'
<1> DEFINE handles == ToSet(refresh[t].handles)
           present == handles \intersect Loaded
           f == Sought(t).file
<1>1. /\ refresh[t].step = "read" /\ UNCHANGED walk
      /\ winModules' = ReadModules(winModules, present, "path")
      /\ garbage' = (garbage \/ ~(handles \subseteq Loaded))
      /\ SetRefresh(t, RefreshAt("done"))
  BY DEF ReadModuleInfo, walkVars, RefreshAt
<1>2. /\ RecordsHold /\ WalkHolds(t) /\ RefreshHolds(t)
  BY DEF LookupInv
<1>3. Seeking(t)
  BY <1>1, <1>2 DEF RefreshHolds
<1>4. handles = Mapped(refresh[t].handles) /\ Loaded = Mapped(images)
  BY DEF ToSet, Mapped, Loaded
<1>5. /\ \A h \in handles : h \in Loaded \/ h.file \in gone
      /\ \E h \in handles : h \in Loaded /\ h.file = f
  BY <1>1, <1>2, <1>4 DEF RefreshHolds
<1> HIDE DEF handles, f
<1>6. gone = {} => ~garbage'
  BY <1>1, <1>2, <1>5 DEF RecordsHold
<1>7. winModules' = winModules \union
        {record \in {Record(image, "path") : image \in present} :
           ~Excluded(record.file) /\ Emplaces(winModules, record)}
  BY <1>1 DEF ReadModules
<1>8. \A i \in present : i \in Mapped(images) /\ i.file \in Files /\ i.base \in Int
  BY <1>4, ApartFacts, ImagesOK DEF LoaderInv, ImagesHold
<1>9. \A i : /\ Record(i, "path").file = i.file /\ Record(i, "path").base = i.base
             /\ Record(i, "path").name = <<"path", i.file>>
  BY DEF Record
<1> HIDE DEF present
<1>10. ASSUME NEW r \in winModules'
       PROVE  /\ r.file \in Files /\ r.base \in Int
              /\ r.name \in {<<"base name", r.file>>, <<"path", r.file>>}
              /\ r.file \notin gone => \E i \in Mapped(images) : i.file = r.file /\ i.base = r.base
  <2>1. CASE r \in winModules
    BY <1>2, <2>1 DEF RecordsHold
  <2>2. CASE \E i \in present : r = Record(i, "path")
    BY <1>8, <1>9, <2>2
  <2> QED BY <1>7, <2>1, <2>2
<1>11. RecordsHold'
  <2>1. UNCHANGED <<gone, images>>
    BY DEF loaderVars
  <2> QED BY <1>6, <1>10, <2>1 DEF RecordsHold
<1>12. \E record \in winModules' : record.name = <<"path", f>>
  <2>1. PICK i \in present : i.file = f
    BY <1>5 DEF present
  <2> DEFINE r == Record(i, "path")
  <2>2. r.name = <<"path", f>> /\ r.file = f
    BY <1>9, <2>1
  <2>3. ~Excluded(f)
    BY <1>2, <1>3, SoughtFacts DEF f
  <2> HIDE DEF r
  <2>4. CASE \E q \in winModules : q.name = r.name
    BY <1>7, <2>2, <2>4
  <2>5. CASE ~(\E q \in winModules : q.name = r.name)
    <3>1. Emplaces(winModules, r)
      BY <2>5 DEF Emplaces
    <3>2. r \in winModules'
      BY <1>7, <2>2, <2>3, <3>1 DEF r
    <3> QED BY <2>2, <3>2
  <2> QED BY <2>4, <2>5
<1>13. winModules \subseteq winModules'
  BY <1>7
<1>14. RefreshAt("done").step = "done"
  BY RefreshUpdate
<1> DEFINE r == RefreshAt("done")
<1> HIDE DEF r
<1>15. SetRefresh(t, r) /\ r.step = "done" /\ \E record \in winModules' : record.name = <<"path", Sought(t).file>>
  BY <1>1, <1>12, <1>14 DEF r, f
<1> QED BY <1>1, <1>3, <1>11, <1>13, <1>15, RefreshKeepsLookup

\* The lookup answered the right record.
LEMMA FoundKeepsLookup ==
  ASSUME LoaderInv, LookupInv, NEW t \in Walkers, Seeking(t), Found(t), NEW w, SetWalk(t, w),
         DOMAIN w = Fields, w.stack = walk[t].stack, w.bad = walk[t].bad,
         w.i \in Nat, w.i \in 1..Len(w.stack), w.pc \notin {"idle", "cur"}
  PROVE  LookupInv'
<1>1. /\ SetRefresh(t, NoRefresh) /\ UNCHANGED <<loaderVars, winModules, garbage>>
  BY DEF Found, SetRefresh
<1>2. /\ Tables /\ RecordsHold /\ WalkHolds(t) /\ RefreshHolds(t)
  BY DEF LookupInv
<1>3. /\ walk' = [s \in Walkers |-> walk'[s]] /\ walk'[t] = w
      /\ \A s \in Walkers : s # t => walk'[s] = walk[s]
  BY <1>2, SetWalkFacts
<1>4. /\ refresh' = [s \in Walkers |-> refresh'[s]] /\ refresh'[t] = NoRefresh
      /\ \A s \in Walkers : s # t => refresh'[s] = refresh[s]
  BY <1>1, <1>2, SetRefreshFacts
<1>5. UNCHANGED <<winModules, garbage, platform, images, refs, gone>>
  BY <1>1 DEF loaderVars
<1>6. RecordsHold'
  BY <1>2, <1>5 DEF RecordsHold
<1>7. WalkHolds(t)'
  BY <1>2, <1>3, <1>5 DEF WalkHolds, Seeking
<1>8. RefreshHolds(t)'
  BY <1>4 DEF RefreshHolds, NoRefresh
<1> QED BY <1>1, <1>3, <1>4, <1>5, <1>6, <1>7, <1>8, OneWalks

LEMMA CurFrameKeepsLookup ==
  ASSUME LoaderInv, LookupInv, NEW t \in Walkers, GetCurFrameInfo(t)
  PROVE  LookupInv'
<1> DEFINE stack == walk[t].stack
           first == FunctionOf(stack[1])
           fa == IF IsRuntimeFrame(stack[1])
                   THEN SP(stack, 1) + GetStackOffset(first.codes) - 8
                   ELSE Rbp(stack, 1) + first.off
           w == FirstFrame(walk[t], fa)
<1>1. AtStep(t, "cur") /\ Found(t) /\ SetWalk(t, w)
  BY DEF GetCurFrameInfo, FirstFrame
<1>2. WalkHolds(t) /\ DOMAIN walk[t] = Fields
  BY DEF LookupInv, WalkHolds
<1> HIDE DEF fa
<1>3. DOMAIN w = Fields /\ w.pc = "rsp" /\ w.bad = walk[t].bad /\ w.stack = walk[t].stack /\ w.i = 1
  BY <1>2, FirstUpdate
<1> HIDE DEF w
<1>4. Seeking(t)
  BY <1>1 DEF AtStep, Seeking
<1>5. Len(stack) \in Nat /\ 1 <= Len(stack)
  <2>1. stack \in Stacks
    BY <1>2, <1>4 DEF WalkHolds, Seeking
  <2>2. stack \in Seq([file : Files, fn : Nat]) /\ stack # <<>>
    BY <2>1, StacksOK
  <2> HIDE DEF stack
  <2>3. Len(stack) \in Nat /\ Len(stack) # 0
    BY <2>2, LenProperties, EmptySeq
  <2> QED BY <2>3
<1>6. w.i \in Nat /\ w.i \in 1..Len(w.stack)
  BY <1>3, <1>5
<1> QED BY <1>1, <1>3, <1>4, <1>6, FoundKeepsLookup

LEMMA CallerRspKeepsLookup ==
  ASSUME LoaderInv, LookupInv, NEW t \in Walkers, GetCallerRsp(t)
  PROVE  LookupInv'
<1> DEFINE v == walk[t]
           callee == Kind(v.stack, v.i)
           caller == Kind(v.stack, v.i + 1)
           flag == ByFlag("rsp", caller, callee)
           rsp == IF caller \in Stubs \/ callee = "Grow" \/ flag
                    THEN v.fa + 16 ELSE v.fa + SpOffset(callee)
           pc == IF rsp # SP(v.stack, v.i + 1) THEN "lost"
                 ELSE IF caller = "Throw" THEN "mark rsp" ELSE "fa"
           w == CallerSp(v, rsp, pc)
<1>1. AtStep(t, "rsp") /\ Found(t) /\ SetWalk(t, w)
  BY DEF GetCallerRsp, CallerSp
<1>2. WalkHolds(t) /\ DOMAIN walk[t] = Fields
  BY DEF LookupInv, WalkHolds
<1>3. pc \in {"lost", "mark rsp", "fa"}
  OBVIOUS
<1> HIDE DEF callee, caller, flag, rsp, pc
<1>4. DOMAIN w = Fields /\ w.pc = pc /\ w.bad = v.bad /\ w.stack = v.stack /\ w.i = v.i
  BY <1>2, SpUpdate
<1> HIDE DEF w
<1>5. Seeking(t) /\ walk[t].pc = "rsp"
  BY <1>1 DEF AtStep, Seeking
<1>6. w.i \in Nat /\ w.i \in 1..Len(w.stack)
  BY <1>2, <1>4, <1>5 DEF WalkHolds
<1> QED BY <1>1, <1>3, <1>4, <1>5, <1>6, FoundKeepsLookup

LEMMA CallerFrameKeepsLookup ==
  ASSUME LoaderInv, LookupInv, NEW t \in Walkers, GetCallerFrameInfo(t)
  PROVE  LookupInv'
<1> DEFINE v == walk[t]
           callee == Kind(v.stack, v.i)
           function == FunctionOf(v.stack[v.i + 1])
           caller == function.kind
           flag == ByFlag("fa", caller, callee)
           status == CASE caller = "C2N" -> "RELIABLE" [] caller = "N2C" -> "RISKY"
                       [] OTHER -> v.status
           fa == CASE caller \in Stubs -> CallerFrameAddress(v.stack, v.i)
                   [] flag -> v.fa + 16
                   [] caller \notin Stubs /\ ~flag /\ callee = "Grow" -> v.fa + GrowSize
                   [] caller \notin Stubs /\ ~flag /\ callee # "Grow" ->
                        IF status # "RISKY" /\ ~IsRuntimeFrame(v.stack[v.i + 1])
                          THEN CallerFrameAddress(v.stack, v.i) + function.off
                          ELSE v.fa + SpOffset(callee) + GetStackOffset(function.codes) - 8
           pc == IF fa # FA(v.stack, v.i + 1) THEN "lost"
                 ELSE IF caller = "Throw" THEN "mark fa" ELSE "rsp"
           w == CallerFrame(v, fa, status, pc)
<1>1. AtStep(t, "fa") /\ Found(t) /\ SetWalk(t, w)
  BY DEF GetCallerFrameInfo, CallerFrame
<1>2. WalkHolds(t) /\ DOMAIN walk[t] = Fields
  BY DEF LookupInv, WalkHolds
<1>3. pc \in {"lost", "mark fa", "rsp"}
  OBVIOUS
<1> HIDE DEF callee, function, caller, flag, status, fa, pc
<1>4. DOMAIN w = Fields /\ w.pc = pc /\ w.bad = v.bad /\ w.stack = v.stack /\ w.i = v.i + 1
  BY <1>2, FrameUpdate
<1> HIDE DEF w
<1>5. Seeking(t) /\ walk[t].pc = "fa" /\ v.i < Len(v.stack)
  BY <1>1 DEF AtStep, Seeking
<1>6. w.i \in Nat /\ w.i \in 1..Len(w.stack)
  BY <1>2, <1>4, <1>5 DEF WalkHolds
<1> QED BY <1>1, <1>3, <1>4, <1>5, <1>6, FoundKeepsLookup

LEMMA MarkKeepsLookup ==
  ASSUME LoaderInv, LookupInv, NEW t \in Walkers, MarkThrow(t)
  PROVE  LookupInv'
<1>1. PICK flag \in Flags :
        /\ walk[t].pc = IF flag = "fa" THEN "mark fa" ELSE "mark rsp"
        /\ SetWalk(t, [walk[t] EXCEPT !.pc = IF flag = "fa" THEN "rsp" ELSE "fa"])
        /\ UNCHANGED <<loaderVars, managerVars>>
  BY DEF MarkThrow
<1> DEFINE pc == IF flag = "fa" THEN "rsp" ELSE "fa"
           w == Marked(walk[t], pc)
<1>2. SetWalk(t, w) /\ pc \in {"rsp", "fa"}
  BY <1>1 DEF Marked
<1>3. /\ Tables /\ RecordsHold /\ WalkHolds(t) /\ RefreshHolds(t) /\ DOMAIN walk[t] = Fields
  BY DEF LookupInv, WalkHolds
<1> HIDE DEF pc
<1>4. DOMAIN w = Fields /\ w.pc = pc /\ w.bad = walk[t].bad /\ w.stack = walk[t].stack /\ w.i = walk[t].i
  BY <1>3, MarkUpdate
<1> HIDE DEF w
<1>5. /\ walk' = [s \in Walkers |-> walk'[s]] /\ walk'[t] = w
      /\ \A s \in Walkers : s # t => walk'[s] = walk[s]
  BY <1>2, <1>3, SetWalkFacts
<1>6. UNCHANGED <<winModules, refresh, garbage, platform, images, refs, gone>>
  BY <1>1 DEF loaderVars, managerVars
<1>7. RecordsHold'
  BY <1>3, <1>6 DEF RecordsHold
<1>8. walk[t].pc \in {"mark fa", "mark rsp"}
  BY <1>1
<1>9. WalkHolds(t)'
  BY <1>2, <1>3, <1>4, <1>5, <1>6, <1>8 DEF WalkHolds
<1>10. refresh[t].step = "no"
  BY <1>3, <1>8 DEF RefreshHolds, Seeking
<1>11. RefreshHolds(t)'
  BY <1>6, <1>10 DEF RefreshHolds
<1>12. refresh' = [s \in Walkers |-> refresh'[s]] /\ \A s \in Walkers : refresh'[s] = refresh[s]
  BY <1>3, <1>6 DEF Tables
<1> QED BY <1>1, <1>5, <1>6, <1>7, <1>9, <1>11, <1>12, OneWalks

LEMMA LookupUnchanged ==
  ASSUME LookupInv, UNCHANGED <<platform, images, refs, gone, managerVars, walk>>
  PROVE  LookupInv'
<1>1. UNCHANGED <<winModules, refresh, garbage>>
  BY DEF managerVars
<1>2. Tables' /\ RecordsHold'
  BY <1>1 DEF LookupInv, Tables, RecordsHold
<1>3. ASSUME NEW t \in Walkers PROVE WalkHolds(t)' /\ RefreshHolds(t)'
  <2>1. WalkHolds(t) /\ RefreshHolds(t)
    BY DEF LookupInv
  <2>2. WalkHolds(t)'
    BY <2>1 DEF WalkHolds
  <2>3. Sought(t)' = Sought(t) /\ (Seeking(t) <=> Seeking(t)')
    BY DEF Sought, Seeking
  <2>4. RefreshHolds(t)'
    BY <1>1, <2>1, <2>3 DEF RefreshHolds
  <2> QED BY <2>2, <2>4
<1> QED BY <1>2, <1>3 DEF LookupInv

\* At the start every record is of a loaded image, and no walk is under way.
LEMMA LookupStarts == ASSUME Init PROVE LookupInv
<1>1. /\ LoaderInit /\ winModules = ReadModules({}, Loaded, "base name")
      /\ refresh = [t \in Walkers |-> NoRefresh] /\ garbage = FALSE
      /\ walk = [t \in Walkers |-> NoWalk]
  BY DEF Init, ManagerInit
<1>2. Apart(images) /\ gone = {}
  <2>1. LoaderInv
    BY <1>1, ImagesOK, LoaderStarts
  <2> QED BY <1>1, <2>1 DEF LoaderInv, ImagesHold, LoaderInit
<1>3. Loaded = Mapped(images)
  BY DEF Loaded, Mapped
<1>4. \A i : /\ Record(i, "base name").file = i.file /\ Record(i, "base name").base = i.base
             /\ Record(i, "base name").name = <<"base name", i.file>>
  BY DEF Record
<1>5. \A r \in winModules : \E i \in Mapped(images) : r = Record(i, "base name")
  BY <1>1, <1>3 DEF ReadModules
<1>6. \A i \in Mapped(images) : i.file \in Files /\ i.base \in Int
  BY <1>2, ApartFacts, ImagesOK
<1>7. RecordsHold
  <2>1. ASSUME NEW r \in winModules
        PROVE  /\ r.file \in Files /\ r.base \in Int /\ r.name = <<"base name", r.file>>
               /\ \E i \in Mapped(images) : i.file = r.file /\ i.base = r.base
    <3>1. PICK i \in Mapped(images) : r = Record(i, "base name")
      BY <1>5
    <3> QED BY <1>4, <1>6, <3>1
  <2> QED BY <1>1, <2>1 DEF RecordsHold
<1>8. ASSUME NEW t \in Walkers PROVE WalkHolds(t) /\ RefreshHolds(t)
  <2>1. walk[t] = NoWalk /\ refresh[t] = NoRefresh
    BY <1>1
  <2>2. WalkHolds(t)
    BY <2>1 DEF WalkHolds, NoWalk, Fields
  <2>3. RefreshHolds(t)
    BY <2>1 DEF RefreshHolds, NoRefresh
  <2> QED BY <2>2, <2>3
<1>9. Tables
  BY <1>1 DEF Tables
<1> QED BY <1>7, <1>8, <1>9 DEF LookupInv

LEMMA WalkingKeepsLookup ==
  ASSUME LoaderInv, LookupInv, NEW t \in Walkers, Walking(t)
  PROVE  LookupInv'
<1>1. CASE \E stack \in Stacks : StartWalk(t, stack)
  BY <1>1, StartKeepsLookup
<1>2. CASE StopWalk(t)
  BY <1>2, StopKeepsLookup
<1>3. CASE NotFound(t)
  BY <1>3, NotFoundKeepsLookup
<1>4. CASE WrongRecord(t)
  BY <1>4, WrongRecordKeepsLookup
<1>5. CASE Refresh(t)
  <2>1. /\ EnumProcessModules(t) \/ EnumExpanded(t) \/ ReadModuleInfo(t)
        /\ UNCHANGED <<loaderVars, walkVars>>
    BY <1>5 DEF Refresh
  <2> QED BY <2>1, EnumKeepsLookup, ExpandedKeepsLookup, ReadKeepsLookup
<1>6. CASE GetCurFrameInfo(t)
  BY <1>6, CurFrameKeepsLookup
<1>7. CASE GetCallerFrameInfo(t)
  BY <1>7, CallerFrameKeepsLookup
<1>8. CASE GetCallerRsp(t)
  BY <1>8, CallerRspKeepsLookup
<1>9. CASE MarkThrow(t)
  BY <1>9, MarkKeepsLookup
<1> QED BY <1>1, <1>2, <1>3, <1>4, <1>5, <1>6, <1>7, <1>8, <1>9 DEF Walking

\* A question changes nothing a lookup reads.
LEMMA QuestionsKeepLookup ==
  ASSUME LookupInv, UNCHANGED <<managerVars, walkVars>>,
         \/ \E address \in Addresses : Ask(address)
         \/ IsValidAddress \/ GetBinaryFilePath \/ GetSymbolName
         \/ GetBinaryInfoFromAddress \/ GetBinaryInfoFromAddressLinux \/ AnswerTaken
  PROVE  LookupInv'
<1>1. \A address : Ask(address) => UNCHANGED <<platform, images, refs, gone>>
  BY DEF Ask
<1>2. OnlyQuery => UNCHANGED <<platform, images, refs, gone>>
  BY DEF OnlyQuery
<1>3. ASSUME IsValidAddress \/ GetBinaryInfoFromAddress \/ GetBinaryInfoFromAddressLinux \/ AnswerTaken
      PROVE  OnlyQuery
  BY <1>3 DEF IsValidAddress, GetBinaryInfoFromAddress, GetBinaryInfoFromAddressLinux, AnswerTaken
<1>4. ASSUME GetBinaryFilePath \/ GetSymbolName PROVE OnlyQuery
  BY <1>4 DEF GetBinaryFilePath, GetSymbolName, GetModuleHandler
<1>5. UNCHANGED <<platform, images, refs, gone>>
  BY <1>1, <1>2, <1>3, <1>4
<1>6. walk' = walk
  BY DEF walkVars
<1> QED BY <1>5, <1>6, LookupUnchanged

LEMMA ImagesKeepLookups == ASSUME LoaderInv, LookupInv, Images PROVE LookupInv'
<1>1. /\ UNCHANGED <<managerVars, walkVars>> /\ walk' = walk
      /\ Binaries \/ \E f \in Files : ~OnStack(f) /\ UnloadBinaryFile(f)
  BY DEF Images, walkVars
<1>2. CASE \E f \in Files : LoadBinaryFile(f) \/ LoadBinaryFileLinux(f)
  <2>1. PICK f \in Files : LoadImage(f) /\ UNCHANGED <<platform, gone>>
    BY <1>2 DEF LoadBinaryFile, LoadBinaryFileLinux
  <2> QED BY <1>1, <2>1, LoadKeepsLookup
<1>3. CASE \E f \in Files : UnloadBinaryFileLinux(f)
  <2>1. PICK f \in Files : platform # "windows" /\ refs[f] > 0 /\ FreeImage(f) /\ platform' = platform
    BY <1>3 DEF UnloadBinaryFileLinux
  <2>2. ~OnStack(f)
    <3>1. \A t \in Walkers : walk[t].stack = <<>>
      BY <2>1 DEF LookupInv, WalkHolds
    <3>2. DOMAIN <<>> = {}
      OBVIOUS
    <3> QED BY <3>1, <3>2 DEF OnStack
  <2> QED BY <1>1, <2>1, <2>2, FreeKeepsLookup
<1>4. CASE \E f \in Files : ~OnStack(f) /\ UnloadBinaryFile(f)
  <2>1. PICK f \in Files : ~OnStack(f) /\ refs[f] > 0 /\ FreeImage(f) /\ platform' = platform
    BY <1>4 DEF UnloadBinaryFile
  <2> QED BY <1>1, <2>1, FreeKeepsLookup
<1> QED BY <1>1, <1>2, <1>3, <1>4, QuestionsKeepLookup DEF Binaries

LEMMA LookupStep == ASSUME LoaderInv, LookupInv, [Next]_vars PROVE LookupInv'
<1>1. CASE FindSections
  <2>1. UNCHANGED loaderVars
    BY <1>1, SectionsKeepPlatform
  <2>2. UNCHANGED <<managerVars, walkVars>>
    BY <1>1 DEF FindSections
  <2> QED BY <2>1, <2>2, LookupUnchanged DEF loaderVars, walkVars
<1>2. CASE Images
  BY <1>2, ImagesKeepLookups
<1>3. CASE \E t \in Walkers : Walking(t)
  BY <1>3, WalkingKeepsLookup
<1>4. CASE UNCHANGED vars
  BY <1>4, LookupUnchanged DEF vars, loaderVars, walkVars
<1> QED BY <1>1, <1>2, <1>3, <1>4 DEF Next

\* A lookup goes wrong only over a file that was unloaded before: every other
\* record is of the image as it is mapped now, has its pcs and no others, and
\* the search in its table ends at the function of the pc
\* (WinModuleManager.cpp:38-64, 153-170, UnwindWin.cpp:120-127).
THEOREM LookupsFindImages == Spec => []LookupFindsImage
<1>1. Init => LookupInv
  BY LookupStarts
<1>2. LoaderInv /\ LookupInv /\ [Next]_vars => LookupInv'
  BY LookupStep
<1>3. LookupInv => LookupFindsImage
  BY DEF LookupInv, LookupFindsImage, RecordsHold, WalkHolds
<1> QED BY <1>1, <1>2, <1>3, LoaderHolds, PTL DEF Spec

-----------------------------------------------------------------------------
(* Sections *)

\* The image of the constructor in a list, the sections of a name among the
\* first n of it, and what is kept of them once they were looked at.
OwnOf(list) == CHOOSE m \in {list[n] : n \in DOMAIN list} : m.name = Own
NamedAmong(own, name, n) == {s \in 1..n : own.sections[s].name = name}
Filled(own, loc, name, kind, n) ==
  IF NamedAmong(own, name, n) = {} THEN loc[kind] = Sections!Nowhere
  ELSE \E s \in NamedAmong(own, name, n) : loc[kind] = Sections!Placed(own, own.sections[s])

\* The tables of names after n sections, and after the lookups by name.
ScanHolds(own, loc, n) ==
  /\ DOMAIN loc = Sections!Kinds
  /\ \A p \in DOMAIN Sections!SectionNames :
       Filled(own, loc, Sections!SectionNames[p][1], Sections!SectionNames[p][2], n)
LookupHolds(own, loc) ==
  /\ DOMAIN loc = Sections!Kinds
  /\ \A p \in DOMAIN Sections!SectionDataNames :
       Filled(own, loc, Sections!SectionDataNames[p][1], Sections!SectionDataNames[p][2],
              Len(own.sections))

\* ListOK, for the image alone.
OwnOK(own) ==
  /\ own.base \in Nat /\ Len(own.sections) \in Nat
  /\ DOMAIN own.sections = 1..Len(own.sections)
  /\ \A s \in DOMAIN own.sections :
       LET section == own.sections[s] IN
         /\ section.va \in Nat /\ section.size \in Nat
         /\ 2 * (section.va + section.size) < Word /\ Sections!IsWhole(section.name)

\* The updates of the table.
WithPlace(loc, kind, place) == [loc EXCEPT ![kind] = place]
WithSize(loc, n) == [loc EXCEPT !["Metadata"].size = n]

LEMMA OwnFacts ==
  ASSUME SectionsOK, NEW list \in ImageLists
  PROVE  /\ OwnOK(OwnOf(list)) /\ DOMAIN list \subseteq Nat
         /\ \E n \in DOMAIN list : list[n].name = Own
         /\ \A n \in DOMAIN list : list[n].name = Own => list[n] = OwnOf(list)
<1>1. Sections!ListOK(list)
  BY SectionsOK
<1>2. PICK n \in DOMAIN list : list[n].name = Own
  BY <1>1 DEF Sections!ListOK
<1>3. \A m \in DOMAIN list : list[m].name = Own => m = n
  BY <1>1, <1>2 DEF Sections!ListOK
<1>4. OwnOf(list) = list[n]
  BY <1>2, <1>3 DEF OwnOf
<1>5. OwnOK(list[n])
  BY <1>1, <1>2 DEF Sections!ListOK, OwnOK
<1>6. DOMAIN list \subseteq Nat
  BY <1>1 DEF Sections!ListOK
<1> QED BY <1>2, <1>3, <1>4, <1>5, <1>6

\* The tables of names.
LEMMA NamesFacts ==
  /\ DOMAIN Sections!SectionNames = 1..23 /\ DOMAIN Sections!SectionDataNames = 1..22
  /\ \A p \in 1..22 : Sections!SectionDataNames[p][2] = Sections!SectionNames[p][2]
  /\ Sections!SectionNames[1][2] = "Metadata"
  /\ Sections!SectionNames[22] = <<".text_rt", "RuntimeText">>
  /\ Sections!SectionNames[23] = <<".text_th", "ThreadText">>
  /\ Sections!SectionNames[2][2] = "SDKVersion"
BY DEF Sections!SectionNames, Sections!SectionDataNames

\* A full name is taken by its own comparison.
LEMMA FirstMatchWhole ==
  ASSUME SectionsOK, NEW p \in DOMAIN Sections!SectionNames
  PROVE  LET name == Sections!SectionNames[p][1] IN
           Sections!Matches(name) # {} /\ Sections!FirstMatch(name) = p
<1> DEFINE name == Sections!SectionNames[p][1]
           T == Sections!Matches(name)
<1>1. Sections!NamesDiffer
  BY SectionsOK
<1>2. p \in T /\ \A q \in T : p <= q
  BY <1>1 DEF Sections!NamesDiffer, Sections!Matches
<1>3. T \subseteq 1..23
  BY NamesFacts DEF Sections!Matches
<1> HIDE DEF T
<1>4. Sections!Min(T) = p
  BY <1>2, <1>3 DEF Sections!Min
<1> QED BY <1>2, <1>4 DEF Sections!FirstMatch, T

\* One section more: only the kind whose full name it has changes.
LEMMA ScanExtends ==
  ASSUME SectionsOK, NEW own, OwnOK(own), NEW n \in 1..Len(own.sections),
         NEW loc, ScanHolds(own, loc, n - 1), NEW next,
         LET section == own.sections[n] IN
           next = IF Sections!Matches(section.name) = {} THEN loc
                  ELSE WithPlace(loc, Sections!SectionNames[Sections!FirstMatch(section.name)][2],
                                 Sections!Placed(own, section))
  PROVE  ScanHolds(own, next, n)
<1> DEFINE section == own.sections[n]
           SN == Sections!SectionNames
           place == Sections!Placed(own, section)
<1>1. n \in Nat /\ n \in 1..n /\ \A s : s \in 1..n <=> s \in 1..(n - 1) \/ s = n
  BY DEF OwnOK
<1>2. ASSUME NEW p \in DOMAIN SN, SN[p][1] # section.name
      PROVE  NamedAmong(own, SN[p][1], n) = NamedAmong(own, SN[p][1], n - 1)
  BY <1>1, <1>2 DEF NamedAmong
<1>3. CASE Sections!Matches(section.name) = {}
  <2>1. \A p \in DOMAIN SN : SN[p][1] # section.name
    BY <1>3, FirstMatchWhole
  <2> QED BY <1>2, <1>3, <2>1 DEF ScanHolds, Filled
<1>4. CASE Sections!Matches(section.name) # {}
  <2>1. PICK q \in DOMAIN SN : SN[q][1] = section.name
    BY <1>4 DEF OwnOK, Sections!IsWhole, Sections!Matches
  <2>2. Sections!FirstMatch(section.name) = q
    BY <2>1, FirstMatchWhole
  <2>3. next = WithPlace(loc, SN[q][2], place)
    BY <1>4, <2>2
  <2>4. SN[q][2] \in DOMAIN loc /\ DOMAIN loc = Sections!Kinds
    BY DEF ScanHolds, Sections!Kinds
  <2>5. /\ DOMAIN next = Sections!Kinds /\ next[SN[q][2]] = place
        /\ \A k \in Sections!Kinds : k # SN[q][2] => next[k] = loc[k]
    BY <2>3, <2>4 DEF WithPlace
  <2>6. Filled(own, next, SN[q][1], SN[q][2], n)
    <3>1. n \in NamedAmong(own, SN[q][1], n)
      BY <1>1, <2>1 DEF NamedAmong
    <3> QED BY <2>5, <3>1 DEF Filled
  <2>7. ASSUME NEW p \in DOMAIN SN, p # q PROVE Filled(own, next, SN[p][1], SN[p][2], n)
    <3>1. SN[p][2] # SN[q][2]
      BY <2>7, SectionsOK DEF Sections!NamesDiffer
    <3>2. SN[p][1] # section.name
      BY <2>2, <2>7, FirstMatchWhole
    <3>3. next[SN[p][2]] = loc[SN[p][2]]
      BY <2>5, <3>1 DEF Sections!Kinds
    <3>4. Filled(own, loc, SN[p][1], SN[p][2], n - 1)
      BY DEF ScanHolds
    <3> QED BY <1>2, <3>2, <3>3, <3>4 DEF Filled
  <2> QED BY <2>5, <2>6, <2>7 DEF ScanHolds
<1> QED BY <1>3, <1>4

\* Every kind is somewhere, and those of sections are in reach of each other.
PlacesOK(own, loc) ==
  \A k \in Sections!Kinds :
    \/ loc[k] = Sections!Nowhere
    \/ \E s \in DOMAIN own.sections : loc[k] = Sections!Placed(own, own.sections[s])

LEMMA ScanPlaces ==
  ASSUME NEW own, OwnOK(own), NEW loc, ScanHolds(own, loc, Len(own.sections))
  PROVE  PlacesOK(own, loc)
<1>1. ASSUME NEW p \in DOMAIN Sections!SectionNames
      PROVE  LET k == Sections!SectionNames[p][2] IN
               \/ loc[k] = Sections!Nowhere
               \/ \E s \in DOMAIN own.sections : loc[k] = Sections!Placed(own, own.sections[s])
  <2>1. Filled(own, loc, Sections!SectionNames[p][1], Sections!SectionNames[p][2], Len(own.sections))
    BY DEF ScanHolds
  <2> QED BY <2>1 DEF Filled, NamedAmong, OwnOK
<1> QED BY <1>1 DEF PlacesOK, Sections!Kinds

\* The size of the metadata gives way to nothing but itself.
LEMMA WithSizeFacts ==
  ASSUME NEW own, OwnOK(own), NEW loc, DOMAIN loc = Sections!Kinds, PlacesOK(own, loc), NEW n
  PROVE  /\ DOMAIN WithSize(loc, n) = Sections!Kinds
         /\ \A k \in Sections!Kinds :
              /\ WithSize(loc, n)[k].start = loc[k].start
              /\ k # "Metadata" => WithSize(loc, n)[k] = loc[k]
<1>1. \A k \in Sections!Kinds : "start" \in DOMAIN loc[k]
  BY DEF PlacesOK, Sections!Nowhere, Sections!Placed
<1> QED BY <1>1 DEF WithSize

\* A bounded set of natural numbers has a greatest one.
LEMMA GreatestNatural ==
  ASSUME NEW T \in SUBSET Nat, T # {}, NEW b \in Nat, \A x \in T : x <= b
  PROVE  \E x \in T : \A y \in T : y <= x
<1> DEFINE U == {u \in Nat : \A x \in T : x <= u}
<1>1. b \in U /\ U \subseteq Nat
  OBVIOUS
<1>2. PICK u \in U : \A v \in U : u <= v
  <2> HIDE DEF U
  <2> QED BY <1>1, LeastNatural
<1>3. ASSUME u \notin T PROVE FALSE
  <2>1. \A x \in T : x < u
    BY <1>2, <1>3
  <2>2. u # 0
    <3>1. PICK x \in T : x \in Nat /\ x < u
      BY <2>1
    <3> QED BY <3>1
  <2>3. u - 1 \in U
    BY <1>2, <2>1, <2>2
  <2> QED BY <1>2, <2>3
<1> QED BY <1>2, <1>3

\* With all of the metadata present, its reach is between two kinds of it and
\* less than half of the address space.
LEMMA ReachFacts ==
  ASSUME NEW own, OwnOK(own), NEW loc, Word \in Nat,
         \A k \in Sections!MetadataKinds :
           \E s \in DOMAIN own.sections : loc[k] = Sections!Placed(own, own.sections[s])
  PROVE  /\ Sections!Reach(loc) \in Nat /\ 2 * Sections!Reach(loc) < Word
         /\ \E first, last \in Sections!MetadataKinds :
              /\ \A k \in Sections!MetadataKinds :
                   /\ loc[first].start <= loc[k].start
                   /\ loc[k].start + loc[k].size <= loc[last].start + loc[last].size
              /\ loc[first].start + Sections!Reach(loc) = loc[last].start + loc[last].size
<1> DEFINE M == Sections!MetadataKinds
           E == Sections!Ends(loc)
           reach == Sections!Reach(loc)
<1>1. \A k \in M : /\ loc[k].start \in Nat /\ loc[k].size \in Nat /\ own.base <= loc[k].start
                   /\ 2 * (loc[k].start + loc[k].size) < 2 * own.base + Word
  <2> SUFFICES ASSUME NEW k \in M
               PROVE  /\ loc[k].start \in Nat /\ loc[k].size \in Nat /\ own.base <= loc[k].start
                      /\ 2 * (loc[k].start + loc[k].size) < 2 * own.base + Word
    OBVIOUS
  <2>1. PICK s \in DOMAIN own.sections : loc[k] = Sections!Placed(own, own.sections[s])
    OBVIOUS
  <2> DEFINE va == own.sections[s].va
             size == own.sections[s].size
  <2>2. va \in Nat /\ size \in Nat /\ 2 * (va + size) < Word /\ own.base \in Nat
    BY DEF OwnOK
  <2>3. loc[k].start = own.base + va /\ loc[k].size = size
    BY <2>1 DEF Sections!Placed
  <2> HIDE DEF va, size
  <2> QED BY <2>2, <2>3
<1>2. M # {}
  <2>1. Sections!SectionNames[2][2] \in Sections!Kinds
    BY NamesFacts DEF Sections!Kinds
  <2> QED BY <2>1, NamesFacts DEF Sections!MetadataKinds
<1>3. own.base \in Nat
  BY DEF OwnOK
<1>4. /\ E \subseteq Nat
      /\ \A k \in M : loc[k].start \in E /\ loc[k].start + loc[k].size \in E
      /\ \A x \in E : \E k \in M : x = loc[k].start \/ x = loc[k].start + loc[k].size
  BY <1>1 DEF Sections!Ends
<1> HIDE DEF M, E, reach
<1>5. \A x \in E : own.base <= x /\ 2 * x < 2 * own.base + Word /\ x <= own.base + Word
  <2> SUFFICES ASSUME NEW x \in E
               PROVE  own.base <= x /\ 2 * x < 2 * own.base + Word /\ x <= own.base + Word
    OBVIOUS
  <2>1. PICK k \in M : x = loc[k].start \/ x = loc[k].start + loc[k].size
    BY <1>4
  <2> DEFINE a == loc[k].start
             b == loc[k].size
  <2>2. a \in Nat /\ b \in Nat /\ own.base <= a /\ 2 * (a + b) < 2 * own.base + Word /\ (x = a \/ x = a + b)
    BY <1>1, <2>1
  <2> HIDE DEF a, b
  <2> QED BY <1>3, <2>2
<1>6. E # {}
  BY <1>2, <1>4
<1>7. \E x \in E : \A y \in E : x >= y
  <2>1. own.base + Word \in Nat
    BY <1>3
  <2>2. PICK x \in E : \A y \in E : y <= x
    BY <1>4, <1>5, <1>6, <2>1, GreatestNatural
  <2> QED BY <1>4, <2>2
<1>8. \E x \in E : \A y \in E : x <= y
  BY <1>4, <1>6, LeastNatural
<1> DEFINE high == Sections!Max(E)
           low == Sections!Min(E)
<1>9. /\ high \in E /\ \A y \in E : high >= y
      /\ low \in E /\ \A y \in E : low <= y
  BY <1>7, <1>8 DEF Sections!Max, Sections!Min
<1>10. reach = high - low
  BY DEF Sections!Reach, E, reach
<1> HIDE DEF high, low
<1>11. high \in Nat /\ low \in Nat /\ low <= high
  BY <1>4, <1>9
<1>12. reach \in Nat /\ 2 * reach < Word
  BY <1>3, <1>5, <1>9, <1>10, <1>11
<1>13. PICK last \in M : high = loc[last].start + loc[last].size
  <2>1. PICK k \in M : high = loc[k].start \/ high = loc[k].start + loc[k].size
    BY <1>4, <1>9
  <2> DEFINE a == loc[k].start
             b == loc[k].size
  <2>2. a \in Nat /\ b \in Nat /\ high >= a + b /\ (high = a \/ high = a + b)
    BY <1>1, <1>4, <1>9, <2>1
  <2> HIDE DEF a, b
  <2>3. high = a + b
    BY <1>11, <2>2
  <2> QED BY <2>3 DEF a, b
<1>14. PICK first \in M : low = loc[first].start
  <2>1. PICK k \in M : low = loc[k].start \/ low = loc[k].start + loc[k].size
    BY <1>4, <1>9
  <2> DEFINE a == loc[k].start
             b == loc[k].size
  <2>2. a \in Nat /\ b \in Nat /\ low <= a /\ (low = a \/ low = a + b)
    BY <1>1, <1>4, <1>9, <2>1
  <2> HIDE DEF a, b
  <2>3. low = a
    BY <1>11, <2>2
  <2> QED BY <2>3 DEF a
<1>15. ASSUME NEW k \in M
       PROVE  /\ loc[first].start <= loc[k].start
              /\ loc[k].start + loc[k].size <= loc[last].start + loc[last].size
  <2>1. high >= loc[k].start + loc[k].size /\ low <= loc[k].start /\ loc[k].start \in Nat /\ loc[k].size \in Nat
    BY <1>1, <1>4, <1>9
  <2> DEFINE a == loc[k].start
             b == loc[k].size
  <2>2. high >= a + b /\ low <= a /\ a \in Nat /\ b \in Nat
    BY <2>1
  <2> HIDE DEF a, b
  <2>3. low <= a /\ a + b <= high
    BY <1>11, <2>2
  <2> QED BY <1>13, <1>14, <2>3 DEF a, b
<1>16. loc[first].start + reach = loc[last].start + loc[last].size
  <2>1. low + reach = high
    BY <1>10, <1>11
  <2> QED BY <1>13, <1>14, <2>1
<1>17. reach \in Nat /\ 2 * reach < Word /\ \E f, l \in M :
              /\ \A k \in M :
                   /\ loc[f].start <= loc[k].start
                   /\ loc[k].start + loc[k].size <= loc[l].start + loc[l].size
              /\ loc[f].start + reach = loc[l].start + loc[l].size
  BY <1>12, <1>15, <1>16
<1> QED BY <1>17 DEF M, reach

\* Neither the cut to unsigned long nor that to int does anything.
LEMMA ShortReach ==
  ASSUME NEW r \in Nat, Word \in Nat, 2 * r < Word
  PROVE  r % Word = r /\ Sections!AsInt(r) = r
<1> DEFINE h == Word \div 2
<1>1. h \in Nat /\ 2 * h <= Word
  OBVIOUS
<1>2. r % Word = r
  OBVIOUS
<1>3. (r + h) % Word = r + h
  <2> HIDE DEF h
  <2>1. r + h \in Nat /\ r + h < Word
    BY <1>1
  <2> DEFINE x == r + h
  <2>2. x \in Nat /\ x < Word
    BY <2>1
  <2> HIDE DEF x
  <2>3. x % Word = x
    BY <2>2
  <2> QED BY <2>3 DEF x
<1>4. (r + h) - h = r
  BY <1>1
<1> QED BY <1>2, <1>3, <1>4 DEF Sections!AsInt

\* What the constructor has found out at each of its steps.
SectionInv ==
  LET own == OwnOf(sectionImages) IN
  /\ sectionImages \in ImageLists
  /\ platform = "windows" =>
       /\ step = "start" => header = 1 /\ located = [k \in Sections!Kinds |-> Sections!Nowhere]
       /\ step = "scan" => header \in 1..(Len(own.sections) + 1) /\ ScanHolds(own, located, header - 1)
       /\ step = "done" =>
            \E loc : /\ ScanHolds(own, loc, Len(own.sections))
                     /\ total = Sections!Reach(loc) % Word
                     /\ located = WithSize(loc, total)
  /\ platform = "macos" =>
       /\ step = "sections" => header \in DOMAIN sectionImages /\ sectionImages[header] = own
       /\ step \in {"size", "done"} => LookupHolds(own, located)
       /\ step = "done" => total = Sections!AsInt(Sections!Reach(located))

LEMMA OwnImageIsOwnOf == Sections!OwnImage = OwnOf(sectionImages)
BY DEF Sections!OwnImage, OwnOf

LEMMA SectionsStart == ASSUME SectionsOK, Init PROVE SectionInv
<1>1. SectionsInit
  BY DEF Init
<1>2. CASE Sections!Init
  BY <1>2 DEF Sections!Init, SectionInv
<1>3. CASE platform = "linux" /\ sectionImages = Process
  BY <1>3, SectionsOK DEF SectionInv
<1> QED BY <1>1, <1>2, <1>3 DEF SectionsInit

LEMMA ScanStarts ==
  ASSUME SectionsOK, SectionInv, UNCHANGED platform, Sections!FindOwnModule
  PROVE  SectionInv'
<1> DEFINE own == OwnOf(sectionImages)
<1>1. /\ platform = "windows" /\ step = "start" /\ step' \in {"scan", "failed"}
      /\ UNCHANGED <<sectionImages, header, located, total>>
  BY DEF Sections!FindOwnModule
<1>2. header = 1 /\ located = [k \in Sections!Kinds |-> Sections!Nowhere] /\ sectionImages \in ImageLists
  BY <1>1 DEF SectionInv
<1>3. OwnOK(own)
  BY <1>2, OwnFacts
<1>4. ScanHolds(own, located, 0)
  <2>1. \A name : NamedAmong(own, name, 0) = {}
    BY DEF NamedAmong
  <2> HIDE DEF own
  <2> QED BY <1>2, <2>1 DEF ScanHolds, Filled, Sections!Kinds
<1>5. 1 \in 1..(Len(own.sections) + 1)
  BY <1>3 DEF OwnOK
<1> QED BY <1>1, <1>2, <1>4, <1>5 DEF SectionInv

LEMMA ScanGoesOn ==
  ASSUME SectionsOK, SectionInv, UNCHANGED platform, Sections!ScanSection
  PROVE  SectionInv'
<1> DEFINE own == OwnOf(sectionImages)
           section == own.sections[header]
<1>1. /\ platform = "windows" /\ step = "scan" /\ header <= Len(own.sections)
      /\ located' = IF Sections!Matches(section.name) = {} THEN located
                    ELSE WithPlace(located, Sections!SectionNames[Sections!FirstMatch(section.name)][2],
                                   Sections!Placed(own, section))
      /\ header' = header + 1 /\ UNCHANGED <<sectionImages, step, total>>
  BY OwnImageIsOwnOf DEF Sections!ScanSection, WithPlace
<1>2. header \in 1..(Len(own.sections) + 1) /\ ScanHolds(own, located, header - 1) /\ sectionImages \in ImageLists
  BY <1>1 DEF SectionInv
<1>3. OwnOK(own)
  BY <1>2, OwnFacts
<1>4. Len(own.sections) \in Nat
  BY <1>3 DEF OwnOK
<1> HIDE DEF own
<1>5. header \in 1..Len(own.sections) /\ header' \in 1..(Len(own.sections) + 1) /\ header' - 1 = header
  BY <1>1, <1>2, <1>4
<1>6. ScanHolds(own, located', header)
  BY <1>1, <1>2, <1>3, <1>5, ScanExtends
<1> QED BY <1>1, <1>2, <1>5, <1>6 DEF SectionInv, own

LEMMA ScanEnds ==
  ASSUME SectionsOK, SectionInv, UNCHANGED platform, Sections!ComputeSizeWindows
  PROVE  SectionInv'
<1> DEFINE own == OwnOf(sectionImages)
<1>1. /\ platform = "windows" /\ step = "scan" /\ header > Len(own.sections)
      /\ total' = Sections!Reach(located) % Word /\ located' = WithSize(located, total')
      /\ step' = "done" /\ UNCHANGED <<sectionImages, header>>
  BY OwnImageIsOwnOf DEF Sections!ComputeSizeWindows, WithSize
<1>2. header \in 1..(Len(own.sections) + 1) /\ ScanHolds(own, located, header - 1) /\ sectionImages \in ImageLists
  BY <1>1 DEF SectionInv
<1>3. Len(own.sections) \in Nat
  BY <1>2, OwnFacts DEF OwnOK
<1> HIDE DEF own
<1>4. header - 1 = Len(own.sections)
  BY <1>1, <1>2, <1>3
<1>5. ScanHolds(own, located, Len(own.sections))
  BY <1>2, <1>4
<1> QED BY <1>1, <1>2, <1>5 DEF SectionInv, own

LEMMA OwnImageFound ==
  ASSUME SectionsOK, SectionInv, UNCHANGED platform, Sections!FindOwnImage
  PROVE  SectionInv'
<1> DEFINE same == {n \in DOMAIN sectionImages : sectionImages[n].name = Own}
<1>1. /\ platform = "macos" /\ header' = Sections!Min(same) /\ step' = "sections"
      /\ UNCHANGED <<sectionImages, located, total>>
  BY DEF Sections!FindOwnImage
<1>2. sectionImages \in ImageLists
  BY DEF SectionInv
<1>3. same \subseteq Nat /\ same # {}
  BY <1>2, OwnFacts
<1> HIDE DEF same
<1>4. Sections!Min(same) \in same
  BY <1>3, LeastNatural DEF Sections!Min
<1>5. header' \in DOMAIN sectionImages /\ sectionImages[header'] = OwnOf(sectionImages)
  BY <1>1, <1>2, <1>4, OwnFacts DEF same
<1> QED BY <1>1, <1>2, <1>5 DEF SectionInv

LEMMA SectionsLookedUp ==
  ASSUME SectionsOK, SectionInv, UNCHANGED platform, Sections!InitSectionInformation
  PROVE  SectionInv'
<1> DEFINE own == OwnOf(sectionImages)
           SDN == Sections!SectionDataNames
           asked(k) == {p \in DOMAIN SDN : SDN[p][2] = k}
<1>1. /\ platform = "macos" /\ step = "sections" /\ step' = "size"
      /\ located' = [k \in Sections!Kinds |->
           IF asked(k) = {} THEN Sections!Nowhere
           ELSE Sections!SectionData(sectionImages[header], SDN[Sections!Min(asked(k))][1])]
      /\ UNCHANGED <<sectionImages, header, total>>
  BY DEF Sections!InitSectionInformation
<1>2. sectionImages[header] = own /\ sectionImages \in ImageLists
  BY <1>1 DEF SectionInv
<1>3. OwnOK(own)
  BY <1>2, OwnFacts
<1> HIDE DEF own
<1>4. ASSUME NEW p \in DOMAIN SDN
      PROVE  SDN[p][2] \in Sections!Kinds /\ located'[SDN[p][2]] = Sections!SectionData(own, SDN[p][1])
  <2>1. asked(SDN[p][2]) = {p}
    BY SectionsOK DEF Sections!NamesDiffer
  <2>2. Sections!Min({p}) = p
    BY NamesFacts DEF Sections!Min
  <2>3. SDN[p][2] \in Sections!Kinds
    <3>1. p \in 1..22 /\ p \in 1..23
      BY NamesFacts
    <3> QED BY <3>1, NamesFacts DEF Sections!Kinds
  <2> HIDE DEF asked, SDN
  <2> QED BY <1>1, <1>2, <2>1, <2>2, <2>3
<1>5. ASSUME NEW name, NEW kind, located'[kind] = Sections!SectionData(own, name)
      PROVE  Filled(own, located', name, kind, Len(own.sections))
  <2> DEFINE same == {n \in DOMAIN own.sections : own.sections[n].name = name}
  <2>1. same = NamedAmong(own, name, Len(own.sections)) /\ same \subseteq Nat
    BY <1>3 DEF NamedAmong, OwnOK
  <2>2. CASE same = {}
    BY <1>5, <2>1, <2>2 DEF Filled, Sections!SectionData
  <2>3. CASE same # {}
    <3> HIDE DEF same
    <3>1. Sections!Min(same) \in same
      BY <2>1, <2>3, LeastNatural DEF Sections!Min
    <3>2. located'[kind] = Sections!Placed(own, own.sections[Sections!Min(same)])
      BY <1>5, <2>3 DEF Sections!SectionData, same
    <3> QED BY <2>1, <3>1, <3>2 DEF Filled
  <2> QED BY <2>2, <2>3
<1>6. DOMAIN located' = Sections!Kinds
  BY <1>1
<1>7. LookupHolds(own, located')
  BY <1>4, <1>5, <1>6 DEF LookupHolds
<1> QED BY <1>1, <1>2, <1>7 DEF SectionInv, own

LEMMA LookupEnds ==
  ASSUME SectionsOK, SectionInv, UNCHANGED platform, Sections!ComputeSizeMacos
  PROVE  SectionInv'
BY DEF SectionInv, Sections!ComputeSizeMacos

\* Which platform it is never changes.
LEMMA PlatformKept == ASSUME [Next]_vars PROVE UNCHANGED platform
<1>1. CASE FindSections
  BY <1>1, SectionsKeepPlatform DEF loaderVars
<1>2. CASE Images
  BY <1>2 DEF Images, Binaries, LoadBinaryFile, LoadBinaryFileLinux, UnloadBinaryFile,
       UnloadBinaryFileLinux, Ask, IsValidAddress, GetBinaryFilePath, GetModuleHandler, GetSymbolName,
       GetBinaryInfoFromAddress, GetBinaryInfoFromAddressLinux, AnswerTaken, OnlyQuery
<1>3. CASE \E t \in Walkers : Walking(t)
  BY <1>3, WalkingKeepsLoader DEF loaderVars
<1>4. CASE UNCHANGED vars
  BY <1>4 DEF vars, loaderVars
<1> QED BY <1>1, <1>2, <1>3, <1>4 DEF Next

LEMMA SectionsStep == ASSUME SectionsOK, SectionInv, [Next]_vars PROVE SectionInv'
<1>1. UNCHANGED platform
  BY PlatformKept
<1>2. CASE FindSections
  <2>1. Sections!Next
    BY <1>2 DEF FindSections
  <2> QED BY <1>1, <2>1, ScanStarts, ScanGoesOn, ScanEnds, OwnImageFound, SectionsLookedUp, LookupEnds
          DEF Sections!Next
<1>3. CASE UNCHANGED sectionVars
  BY <1>1, <1>3 DEF sectionVars, SectionInv
<1> QED BY <1>2, <1>3 DEF Next, vars

\* What the constructor has located after any number of headers or names is what
\* its own image says of those (Windows/Section.cpp:99-250,
\* Macos/Section.cpp:104-196).
THEOREM SectionsHold == Spec => []SectionInv
<1>1. Init => SectionInv
  BY SectionsStart, SectionsOK
<1>2. SectionInv /\ [Next]_vars => SectionInv'
  BY SectionsStep, SectionsOK
<1> QED BY <1>1, <1>2, PTL DEF Spec

\* A kind is where the section of its name is, whichever way it was found.
LEMMA FilledIsFound ==
  ASSUME SectionInv, SectionsOK, NEW loc, NEW name, NEW kind,
         Filled(OwnOf(sectionImages), loc, name, kind, Len(OwnOf(sectionImages).sections))
  PROVE  IF Sections!Having(name) = {} THEN loc[kind] = Sections!Nowhere
         ELSE \E n \in Sections!Having(name) :
                loc[kind] = Sections!Placed(Sections!OwnImage, Sections!OwnImage.sections[n])
<1>1. OwnOK(OwnOf(sectionImages))
  BY OwnFacts DEF SectionInv
<1>2. Sections!Having(name) = NamedAmong(OwnOf(sectionImages), name, Len(OwnOf(sectionImages).sections))
  BY <1>1, OwnImageIsOwnOf DEF Sections!Having, NamedAmong, OwnOK
<1> QED BY <1>2, OwnImageIsOwnOf DEF Filled

\* What the run checks of the sections, from such a table.
LEMMA FoundInTable ==
  ASSUME SectionInv, SectionsOK, Word \in Nat, NEW loc,
         \A asked \in Sections!Asked :
           IF Sections!Having(asked[1]) = {} THEN loc[asked[2]] = Sections!Nowhere
           ELSE \E n \in Sections!Having(asked[1]) :
                  loc[asked[2]] = Sections!Placed(Sections!OwnImage, Sections!OwnImage.sections[n]),
         \A k \in Sections!MetadataKinds : \E asked \in Sections!Asked : asked[2] = k,
         \A asked \in Sections!Asked :
           /\ located[asked[2]].start = loc[asked[2]].start
           /\ (asked[2] = "Metadata" /\ platform = "windows") \/ located[asked[2]] = loc[asked[2]],
         total = Sections!Reach(loc) % Word \/ total = Sections!AsInt(Sections!Reach(loc))
  PROVE  Sections!SectionsFound
<1>1. Sections!EverySectionFound
  BY DEF Sections!EverySectionFound, Sections!Nowhere
<1>2. ASSUME \A asked \in Sections!Asked :
               asked[2] \in Sections!MetadataKinds => Sections!Having(asked[1]) # {}
      PROVE  \E first, last \in Sections!MetadataKinds :
               /\ \A k \in Sections!MetadataKinds :
                    /\ located[first].start <= located[k].start
                    /\ located[k].start + located[k].size <= located[last].start + located[last].size
               /\ located[first].start + total = located[last].start + located[last].size
  <2> DEFINE own == OwnOf(sectionImages)
  <2>1. OwnOK(own) /\ Sections!OwnImage = own
    BY OwnFacts, OwnImageIsOwnOf DEF SectionInv
  <2>2. \A k \in Sections!MetadataKinds :
          /\ \E s \in DOMAIN own.sections : loc[k] = Sections!Placed(own, own.sections[s])
          /\ located[k] = loc[k]
    <3> SUFFICES ASSUME NEW k \in Sections!MetadataKinds
                 PROVE  /\ \E s \in DOMAIN own.sections : loc[k] = Sections!Placed(own, own.sections[s])
                        /\ located[k] = loc[k]
      OBVIOUS
    <3>1. PICK asked \in Sections!Asked : asked[2] = k
      OBVIOUS
    <3>2. k # "Metadata"
      BY DEF Sections!MetadataKinds
    <3> HIDE DEF own
    <3> QED BY <1>2, <2>1, <3>1, <3>2 DEF Sections!Having
  <2> HIDE DEF own
  <2>3. /\ Sections!Reach(loc) \in Nat /\ 2 * Sections!Reach(loc) < Word
        /\ \E first, last \in Sections!MetadataKinds :
              /\ \A k \in Sections!MetadataKinds :
                   /\ loc[first].start <= loc[k].start
                   /\ loc[k].start + loc[k].size <= loc[last].start + loc[last].size
              /\ loc[first].start + Sections!Reach(loc) = loc[last].start + loc[last].size
    BY <2>1, <2>2, ReachFacts
  <2>4. total = Sections!Reach(loc)
    BY <2>3, ShortReach
  <2> QED BY <2>2, <2>3, <2>4
<1>3. Sections!SizeSpansMetadata
  BY <1>2 DEF Sections!SizeSpansMetadata
<1> QED BY <1>1, <1>3 DEF Sections!SectionsFound

\* Each kind of metadata is where the section of its full name is, and their
\* size reaches over all of them and no further, by prefixes on Windows and by
\* names on macOS (Windows/Section.cpp:123-250, Macos/Section.cpp:104-196).
THEOREM SectionsAreFound == Spec => []SectionsFound
<1> DEFINE Known == platform \in {"windows", "macos", "linux"}
<1>1. ASSUME SectionInv, Known PROVE SectionsFound
  <2> DEFINE own == OwnOf(sectionImages)
  <2>1. CASE platform = "windows" /\ step = "done"
    <3>1. PICK loc : /\ ScanHolds(own, loc, Len(own.sections))
                     /\ total = Sections!Reach(loc) % Word /\ located = WithSize(loc, total)
      BY <1>1, <2>1 DEF SectionInv
    <3>2. Sections!Asked = {Sections!SectionNames[p] : p \in DOMAIN Sections!SectionNames}
      BY <2>1 DEF Sections!Asked, Sections!Range
    <3>3. \A asked \in Sections!Asked :
            IF Sections!Having(asked[1]) = {} THEN loc[asked[2]] = Sections!Nowhere
            ELSE \E n \in Sections!Having(asked[1]) :
                   loc[asked[2]] = Sections!Placed(Sections!OwnImage, Sections!OwnImage.sections[n])
      <4> SUFFICES ASSUME NEW asked \in Sections!Asked
                   PROVE  IF Sections!Having(asked[1]) = {} THEN loc[asked[2]] = Sections!Nowhere
                          ELSE \E n \in Sections!Having(asked[1]) :
                            loc[asked[2]] = Sections!Placed(Sections!OwnImage, Sections!OwnImage.sections[n])
        OBVIOUS
      <4>1. PICK p \in DOMAIN Sections!SectionNames : asked = Sections!SectionNames[p]
        BY <3>2
      <4>2. Filled(own, loc, asked[1], asked[2], Len(own.sections))
        BY <3>1, <4>1 DEF ScanHolds
      <4> QED BY <1>1, <4>2, SectionsOK, FilledIsFound
    <3>4. \A k \in Sections!MetadataKinds : \E asked \in Sections!Asked : asked[2] = k
      BY <3>2 DEF Sections!MetadataKinds, Sections!Kinds
    <3>5. \A k \in Sections!Kinds :
            /\ located[k].start = loc[k].start
            /\ k # "Metadata" => located[k] = loc[k]
      <4>1. OwnOK(own)
        BY <1>1, SectionsOK, OwnFacts DEF SectionInv
      <4>2. DOMAIN loc = Sections!Kinds /\ PlacesOK(own, loc)
        BY <3>1, <4>1, ScanPlaces DEF ScanHolds
      <4> HIDE DEF own
      <4> QED BY <3>1, <4>1, <4>2, WithSizeFacts
    <3>6. \A asked \in Sections!Asked : asked[2] \in Sections!Kinds
      BY <3>2 DEF Sections!Kinds
    <3>7. Word \in Nat
      BY FunctionsOK
    <3>8. Sections!SectionsFound
      BY <1>1, <2>1, <3>1, <3>3, <3>4, <3>5, <3>6, <3>7, SectionsOK, FoundInTable
    <3> QED BY <3>8 DEF SectionsFound
  <2>2. CASE platform = "macos" /\ step = "done"
    <3>1. /\ LookupHolds(own, located) /\ total = Sections!AsInt(Sections!Reach(located))
      BY <1>1, <2>2 DEF SectionInv
    <3>2. Sections!Asked = {Sections!SectionDataNames[p] : p \in DOMAIN Sections!SectionDataNames}
      BY <2>2 DEF Sections!Asked, Sections!Range
    <3>3. \A asked \in Sections!Asked :
            IF Sections!Having(asked[1]) = {} THEN located[asked[2]] = Sections!Nowhere
            ELSE \E n \in Sections!Having(asked[1]) :
                   located[asked[2]] = Sections!Placed(Sections!OwnImage, Sections!OwnImage.sections[n])
      <4> SUFFICES ASSUME NEW asked \in Sections!Asked
                   PROVE  IF Sections!Having(asked[1]) = {} THEN located[asked[2]] = Sections!Nowhere
                          ELSE \E n \in Sections!Having(asked[1]) :
                            located[asked[2]] = Sections!Placed(Sections!OwnImage, Sections!OwnImage.sections[n])
        OBVIOUS
      <4>1. PICK p \in DOMAIN Sections!SectionDataNames : asked = Sections!SectionDataNames[p]
        BY <3>2
      <4>2. Filled(own, located, asked[1], asked[2], Len(own.sections))
        BY <3>1, <4>1 DEF LookupHolds
      <4> QED BY <1>1, <4>2, SectionsOK, FilledIsFound
    <3>4. ASSUME NEW k \in Sections!MetadataKinds PROVE \E asked \in Sections!Asked : asked[2] = k
      <4>1. PICK p \in 1..23 : k = Sections!SectionNames[p][2]
        BY NamesFacts DEF Sections!MetadataKinds, Sections!Kinds
      <4>2. p # 23
        BY <4>1, NamesFacts DEF Sections!MetadataKinds
      <4>3. p \in DOMAIN Sections!SectionDataNames /\ Sections!SectionDataNames[p][2] = k
        BY <4>1, <4>2, NamesFacts
      <4> QED BY <3>2, <4>3
    <3>5. Word \in Nat
      BY FunctionsOK
    <3>6. Sections!SectionsFound
      BY <1>1, <3>1, <3>3, <3>4, <3>5, SectionsOK, FoundInTable
    <3> QED BY <3>6 DEF SectionsFound
  <2>3. CASE step # "done"
    BY <2>3 DEF SectionsFound, Sections!SectionsFound, Sections!EverySectionFound, Sections!SizeSpansMetadata
  <2>4. CASE platform = "linux"
    BY <2>4 DEF SectionsFound
  <2> QED BY <1>1, <2>1, <2>2, <2>3, <2>4
<1>2. Init => Known
  BY DEF Init, LoaderInit
<1>3. Known /\ [Next]_vars => Known'
  BY PlatformKept
<1> HIDE DEF Known
<1> QED BY <1>1, <1>2, <1>3, SectionsHold, PTL DEF Spec

-----------------------------------------------------------------------------
(* Frames *)

\* The recursive function behind GetStackOffset, as far as turn n.
FirstTurn == [i |-> 1, push |-> 0, alloc |-> 0]
NextTurn(codes, w) ==
  IF w.i > Len(codes) THEN w
  ELSE [i |-> w.i + GetSlotsNum(codes[w.i]),
        push |-> IF GetUnwindOp(codes[w.i]) = PUSH_NON_VOL THEN w.push + 8 ELSE w.push,
        alloc |-> Allocated(codes, w.i, w.alloc)]
IsLoop(after, codes, n) ==
  after = [k \in 0..n |-> IF k = 0 THEN FirstTurn ELSE NextTurn(codes, after[k - 1])]
Loop(codes) == CHOOSE after : IsLoop(after, codes, Len(codes))

LEMMA LoopExists ==
  ASSUME NEW codes, NEW n \in Nat
  PROVE  \E after : IsLoop(after, codes, n)
<1> DEFINE B == {k \in Nat : ~ \E f : IsLoop(f, codes, k)}
<1> SUFFICES ASSUME B # {} PROVE FALSE
  BY DEF B
<1>1. PICK m \in B : \A k \in B : m <= k
  <2>1. B \in SUBSET Nat
    OBVIOUS
  <2> HIDE DEF B
  <2> QED BY <2>1, LeastNatural
<1>2. m \in Nat /\ ~ \E f : IsLoop(f, codes, m)
  OBVIOUS
<1>3. CASE m = 0
  <2> DEFINE f == [k \in 0..0 |-> FirstTurn]
  <2>1. \A k \in 0..0 : k = 0
    OBVIOUS
  <2>2. IsLoop(f, codes, 0)
    BY <2>1 DEF IsLoop
  <2> QED BY <1>2, <1>3, <2>2
<1>4. CASE m # 0
  <2>1. m - 1 \in Nat /\ m - 1 \notin B
    BY <1>1, <1>2, <1>4
  <2>2. PICK f : IsLoop(f, codes, m - 1)
    BY <2>1
  <2> HIDE DEF B
  <2> DEFINE val(h, k) == IF k = 0 THEN FirstTurn ELSE NextTurn(codes, h[k - 1])
             g == [k \in 0..m |-> val(f, k)]
  <2>3. f = [k \in 0..(m - 1) |-> val(f, k)]
    BY <2>2 DEF IsLoop
  <2>4. \A k \in 0..m : k # 0 => g[k - 1] = f[k - 1]
    <3> TAKE k \in 0..m
    <3> HAVE k # 0
    <3>1. k - 1 \in 0..(m - 1) /\ k - 1 \in 0..m
      BY <1>2
    <3> HIDE DEF val
    <3> QED BY <2>3, <3>1
  <2>5. \A k \in 0..m : val(f, k) = val(g, k)
    <3> TAKE k \in 0..m
    <3>1. k # 0 => g[k - 1] = f[k - 1]
      BY <2>4
    <3> HIDE DEF g
    <3> QED BY <3>1
  <2>6. IsLoop(g, codes, m)
    <3>1. g = [k \in 0..m |-> val(g, k)]
      <4> HIDE DEF val
      <4> QED BY <2>5
    <3> HIDE DEF g
    <3> QED BY <3>1 DEF IsLoop
  <2> QED BY <1>2, <2>6
<1> QED BY <1>3, <1>4

LEMMA LoopFacts ==
  ASSUME NEW codes, Len(codes) \in Nat
  PROVE  /\ Loop(codes)[0] = FirstTurn
         /\ \A k \in 1..Len(codes) : Loop(codes)[k] = NextTurn(codes, Loop(codes)[k - 1])
         /\ GetStackOffset(codes) = Loop(codes)[Len(codes)].alloc + Loop(codes)[Len(codes)].push
<1>1. IsLoop(Loop(codes), codes, Len(codes))
  BY LoopExists DEF Loop
<1>2. /\ Loop(codes)[0] = FirstTurn
      /\ \A k \in 1..Len(codes) : Loop(codes)[k] = NextTurn(codes, Loop(codes)[k - 1])
  <2> DEFINE f == Loop(codes)
             n == Len(codes)
  <2>1. f = [k \in 0..n |-> IF k = 0 THEN FirstTurn ELSE NextTurn(codes, f[k - 1])]
    BY <1>1 DEF IsLoop
  <2> HIDE DEF f
  <2>2. 0 \in 0..n /\ \A k \in 1..n : k \in 0..n /\ k # 0
    OBVIOUS
  <2> HIDE DEF n
  <2> QED BY <2>1, <2>2 DEF f, n
<1>3. GetStackOffset(codes) = Loop(codes)[Len(codes)].alloc + Loop(codes)[Len(codes)].push
  BY DEF GetStackOffset, Loop, IsLoop, NextTurn, FirstTurn
<1> QED BY <1>2, <1>3

\* Operations the references know are as long as the code takes them to be.
LEMMA SlotsAreOperands ==
  ASSUME NEW code, GetUnwindOp(code) \in 0..5 \union {SAVE_XMM128, SAVE_XMM128_FAR}
  PROVE  GetSlotsNum(code) = 1 + Operands(code) /\ GetSlotsNum(code) \in 1..3
<1> DEFINE op == GetUnwindOp(code)
<1>1. op \in {0, 1, 2, 3, 4, 5, 8, 9}
  BY DEF SAVE_XMM128, SAVE_XMM128_FAR
<1> HIDE DEF op
<1> DEFINE inf == GetOpInfo(code)
<1> HIDE DEF inf
<1>2. /\ GetSlotsNum(code) =
            CASE op \in {PUSH_NON_VOL, ALLOC_SMALL, SET_FP_REG, PUSH_MACH_FRAME} -> 1
              [] op \in {SAVE_NON_VOL, SAVE_XMM128} -> 2
              [] op \in {SAVE_NON_VOL_FAR, SAVE_XMM128_FAR} -> 3
              [] op = ALLOC_LARGE -> IF inf = 0 THEN 2 ELSE 3
      /\ Operands(code) =
            CASE op \in {SAVE_NON_VOL, SAVE_XMM128} -> 1
              [] op \in {SAVE_NON_VOL_FAR, SAVE_XMM128_FAR} -> 2
              [] op = ALLOC_LARGE -> IF inf = 0 THEN 1 ELSE 2
              [] op \in {PUSH_NON_VOL, ALLOC_SMALL, SET_FP_REG} -> 0
  BY DEF GetSlotsNum, Operands, op, inf
<1> QED BY <1>1, <1>2 DEF PUSH_NON_VOL, ALLOC_LARGE, ALLOC_SMALL, SET_FP_REG, SAVE_NON_VOL,
              SAVE_NON_VOL_FAR, SAVE_XMM128, SAVE_XMM128_FAR, PUSH_MACH_FRAME

\* What the turns have added up, before operation i of those at starts.
Pushes(codes, starts, i) == {p \in starts : p < i /\ GetUnwindOp(codes[p]) = PUSH_NON_VOL}
Allocs(codes, starts, i) ==
  {p \in starts : p < i /\ GetUnwindOp(codes[p]) \in {ALLOC_SMALL, ALLOC_LARGE}}
LoopHolds(codes, n, starts, w, k) ==
  /\ w.i \in starts \union {n + 1}
  /\ w.i > k \/ w.i = n + 1
  /\ w.push = 8 * Cardinality(Pushes(codes, starts, w.i))
  /\ Allocs(codes, starts, w.i) = {} => w.alloc = 0
  /\ \A p \in Allocs(codes, starts, w.i) : w.alloc = Allocated(codes, p, 0)

\* What an operation does to the allocation.
LEMMA AllocatedFacts ==
  ASSUME NEW codes, NEW p, GetUnwindOp(codes[p]) \in 0..5 \union {SAVE_XMM128, SAVE_XMM128_FAR},
         NEW before
  PROVE  IF GetUnwindOp(codes[p]) \in {ALLOC_SMALL, ALLOC_LARGE}
           THEN Allocated(codes, p, before) = Allocated(codes, p, 0)
           ELSE Allocated(codes, p, before) = before
<1> DEFINE op == GetUnwindOp(codes[p])
           inf == GetOpInfo(codes[p])
<1>1. \A b : Allocated(codes, p, b) =
         CASE op = ALLOC_SMALL -> (inf + 1) * 8
           [] op = ALLOC_LARGE /\ inf = 0 -> codes[p + 1] * 8
           [] op = ALLOC_LARGE /\ inf # 0 -> codes[p + 1] + codes[p + 2] * 65536
           [] OTHER -> b
  BY DEF Allocated
<1> HIDE DEF op, inf
<1> DEFINE a == (inf + 1) * 8
           b == codes[p + 1] * 8
           c == codes[p + 1] + codes[p + 2] * 65536
<1>2. \A x : Allocated(codes, p, x) =
         CASE op = ALLOC_SMALL -> a
           [] op = ALLOC_LARGE /\ inf = 0 -> b
           [] op = ALLOC_LARGE /\ inf # 0 -> c
           [] OTHER -> x
  BY <1>1
<1> HIDE DEF a, b, c
<1>3. ALLOC_SMALL # ALLOC_LARGE
  BY DEF ALLOC_SMALL, ALLOC_LARGE
<1>4. CASE op \in {ALLOC_SMALL, ALLOC_LARGE}
  <2>1. CASE op = ALLOC_SMALL
    BY <1>2, <1>3, <2>1 DEF op
  <2>2. CASE op = ALLOC_LARGE /\ inf = 0
    BY <1>2, <1>3, <2>2 DEF op
  <2>3. CASE op = ALLOC_LARGE /\ inf # 0
    BY <1>2, <1>3, <2>3 DEF op
  <2> QED BY <1>4, <2>1, <2>2, <2>3
<1>5. CASE op \notin {ALLOC_SMALL, ALLOC_LARGE}
  BY <1>2, <1>5 DEF op
<1> QED BY <1>4, <1>5 DEF op

\* Where a turn begins.
LEMMA PositionIn ==
  ASSUME NEW n \in Nat, NEW starts \in SUBSET (1..n), NEW i \in starts \union {n + 1}, NEW k \in Int,
         i > k \/ i = n + 1
  PROVE  i \in 1..(n + 1) /\ (i = n + 1 \/ (i \in starts /\ i > k))
<1>1. i \in starts => i \in 1..n
  OBVIOUS
<1>2. i \in starts \/ i = n + 1
  OBVIOUS
<1> QED BY <1>1, <1>2

\* One turn keeps the sums.
LEMMA TurnKeepsLoop ==
  ASSUME NEW codes, NEW n \in Nat, n = Len(codes), NEW starts \in SUBSET (1..n),
         Prologue(codes, starts), OneAlloc(codes, starts),
         NEW k \in 0..(n - 1), NEW w, LoopHolds(codes, n, starts, w, k)
  PROVE  LoopHolds(codes, n, starts, NextTurn(codes, w), k + 1)
<1>1. n \in Nat /\ k \in Nat /\ k < n /\ \A p \in starts : p \in 1..n
  OBVIOUS
<1>0. w.i \in 1..(n + 1) /\ (w.i = n + 1 \/ (w.i \in starts /\ w.i > k))
  <2>1. w.i \in starts \union {n + 1} /\ (w.i > k \/ w.i = n + 1)
    BY DEF LoopHolds
  <2> DEFINE j == w.i
  <2>2. j \in starts \union {n + 1} /\ (j > k \/ j = n + 1) /\ k \in Int
    BY <1>1, <2>1
  <2> HIDE DEF j
  <2>3. j \in 1..(n + 1) /\ (j = n + 1 \/ (j \in starts /\ j > k))
    BY <2>2, PositionIn
  <2> QED BY <2>3 DEF j
<1>2. CASE w.i > n
  <2>1. NextTurn(codes, w) = w
    BY <1>2 DEF NextTurn
  <2>2. w.i = n + 1
    BY <1>0, <1>1, <1>2
  <2> QED BY <2>1, <2>2 DEF LoopHolds
<1>3. CASE ~(w.i > n)
  <2> DEFINE p == w.i
             op == GetUnwindOp(codes[p])
             next == p + GetSlotsNum(codes[p])
             v == NextTurn(codes, w)
  <2>1. p \in starts /\ p \in 1..n /\ p > k
    BY <1>0, <1>1, <1>3
  <2>2. /\ op \in 0..5 \union {SAVE_XMM128, SAVE_XMM128_FAR}
        /\ p + 1 + Operands(codes[p]) \in starts \union {n + 1}
        /\ \A q \in starts : q <= p \/ p + 1 + Operands(codes[p]) <= q
    BY <2>1 DEF Prologue
  <2>3. next = p + 1 + Operands(codes[p]) /\ next \in Nat /\ next > p
    <3> DEFINE a == GetSlotsNum(codes[p])
               b == Operands(codes[p])
    <3>1. a = 1 + b /\ a \in 1..3
      BY <2>2, SlotsAreOperands
    <3>2. b \in Int
      BY <2>2 DEF Operands, SAVE_XMM128, SAVE_XMM128_FAR, SAVE_NON_VOL, SAVE_NON_VOL_FAR, PUSH_NON_VOL,
           ALLOC_LARGE, ALLOC_SMALL, SET_FP_REG
    <3> HIDE DEF a, b
    <3>3. p + a = p + 1 + b /\ p + a \in Nat /\ p + a > p
      BY <2>1, <3>1, <3>2
    <3> QED BY <3>3 DEF a, b
  <2>4. next \in starts \union {n + 1} /\ \A q \in starts : q <= p \/ next <= q
    BY <2>2, <2>3
  <2>5. /\ v.i = next /\ v.alloc = Allocated(codes, p, w.alloc)
        /\ v.push = IF op = PUSH_NON_VOL THEN w.push + 8 ELSE w.push
    BY <1>3 DEF NextTurn
  <2> HIDE DEF v, next, p
  <2>6. \A q \in starts : q < next <=> q < p \/ q = p
    BY <1>1, <2>1, <2>3, <2>4
  <2>7. v.i > k + 1 \/ v.i = n + 1
    BY <1>1, <2>1, <2>3, <2>5
  <2>8. v.push = 8 * Cardinality(Pushes(codes, starts, next))
    <3> DEFINE before == Pushes(codes, starts, p)
    <3>1. w.push = 8 * Cardinality(before)
      BY DEF LoopHolds, p
    <3>2. IsFiniteSet(before) /\ p \notin before
      <4>0. before \subseteq 1..n
        BY <1>1 DEF Pushes
      <4>1. before \subseteq 1..n /\ IsFiniteSet(1..n)
        BY <1>1, <4>0, FS_Interval
      <4>2. p \notin before
        BY <2>1 DEF Pushes
      <4> QED BY <4>1, <4>2, FS_Subset
    <3>3. Cardinality(before) \in Nat /\ Cardinality(before \union {p}) = Cardinality(before) + 1
      BY <3>2, FS_CardinalityType, FS_AddElement
    <3>4. Pushes(codes, starts, next) = IF op = PUSH_NON_VOL THEN before \union {p} ELSE before
      <4>1. CASE op = PUSH_NON_VOL
        BY <2>1, <2>6, <4>1 DEF Pushes
      <4>2. CASE op # PUSH_NON_VOL
        BY <2>1, <2>6, <4>2 DEF Pushes
      <4> QED BY <4>1, <4>2
    <3> HIDE DEF before, op
    <3>5. CASE op = PUSH_NON_VOL
      BY <2>5, <3>1, <3>3, <3>4, <3>5
    <3>6. CASE op # PUSH_NON_VOL
      BY <2>5, <3>1, <3>4, <3>6
    <3> QED BY <3>5, <3>6
  <2>9. /\ Allocs(codes, starts, next) = {} => v.alloc = 0
        /\ \A q \in Allocs(codes, starts, next) : v.alloc = Allocated(codes, q, 0)
    <3>1. CASE op \in {ALLOC_SMALL, ALLOC_LARGE}
      <4>1. v.alloc = Allocated(codes, p, 0)
        BY <2>2, <2>5, <3>1, AllocatedFacts
      <4>2. p \in Allocs(codes, starts, next)
        BY <2>1, <2>3, <3>1 DEF Allocs
      <4>3. \A q \in Allocs(codes, starts, next) : q = p
        BY <2>1, <3>1 DEF Allocs, OneAlloc
      <4> QED BY <4>1, <4>2, <4>3
    <3>2. CASE op \notin {ALLOC_SMALL, ALLOC_LARGE}
      <4>1. v.alloc = w.alloc
        BY <2>2, <2>5, <3>2, AllocatedFacts
      <4>2. Allocs(codes, starts, next) = Allocs(codes, starts, p)
        BY <2>1, <2>6, <3>2 DEF Allocs
      <4>3. /\ Allocs(codes, starts, p) = {} => w.alloc = 0
            /\ \A q \in Allocs(codes, starts, p) : w.alloc = Allocated(codes, q, 0)
        BY DEF LoopHolds, p
      <4> QED BY <4>1, <4>2, <4>3
    <3> QED BY <3>1, <3>2
  <2>10. LoopHolds(codes, n, starts, v, k + 1)
    BY <2>4, <2>5, <2>7, <2>8, <2>9 DEF LoopHolds
  <2> QED BY <2>10 DEF v
<1> QED BY <1>2, <1>3

\* The loop takes for an allocation what the format says.
LEMMA AllocatedRoom ==
  ASSUME NEW codes, NEW p, GetUnwindOp(codes[p]) \in {ALLOC_SMALL, ALLOC_LARGE}
  PROVE  Allocated(codes, p, 0) = Room(codes, p)
<1> DEFINE op == GetUnwindOp(codes[p])
           inf == GetOpInfo(codes[p])
           a == (inf + 1) * 8
           b == codes[p + 1] * 8
           c == codes[p + 1] + codes[p + 2] * 65536
<1>1. Allocated(codes, p, 0) =
         CASE op = ALLOC_SMALL -> a
           [] op = ALLOC_LARGE /\ inf = 0 -> b
           [] op = ALLOC_LARGE /\ inf # 0 -> c
           [] OTHER -> 0
  BY DEF Allocated
<1>2. Room(codes, p) = IF op = ALLOC_SMALL THEN a ELSE IF inf = 0 THEN b ELSE c
  BY DEF Room
<1>3. ALLOC_SMALL # ALLOC_LARGE
  BY DEF ALLOC_SMALL, ALLOC_LARGE
<1> HIDE DEF a, b, c, inf
<1>4. op \in {ALLOC_SMALL, ALLOC_LARGE}
  OBVIOUS
<1> HIDE DEF op
<1>5. CASE op = ALLOC_SMALL
  BY <1>1, <1>2, <1>3, <1>5
<1>6. CASE op = ALLOC_LARGE /\ inf = 0
  BY <1>1, <1>2, <1>3, <1>6
<1>7. CASE op = ALLOC_LARGE /\ inf # 0
  BY <1>1, <1>2, <1>3, <1>7
<1> QED BY <1>4, <1>5, <1>6, <1>7

\* The places of the operations a frame is described by.
LEMMA DescribedStarts ==
  ASSUME NEW codes, NEW size, Described(codes, size)
  PROVE  /\ codes \in Seq(UnwindCode)
         /\ \E starts \in SUBSET (DOMAIN codes) :
              Prologue(codes, starts) /\ OneAlloc(codes, starts) /\ size = PrologueSize(codes, starts)
BY DEF Described

\* The loop finds the size of the frame its codes describe.
LEMMA StackOffsetIsSize ==
  ASSUME NEW codes, NEW size, Described(codes, size)
  PROVE  GetStackOffset(codes) = size
<1> DEFINE n == Len(codes)
           loop == Loop(codes)
<1>1. n \in Nat /\ DOMAIN codes = 1..n /\ (codes = <<>> => n = 0)
  <2>1. codes \in Seq(UnwindCode)
    BY DescribedStarts
  <2>2. n \in Nat /\ DOMAIN codes = 1..n
    <3>1. Len(codes) \in Nat /\ DOMAIN codes = 1..Len(codes)
      BY <2>1, LenProperties
    <3> QED BY <3>1
  <2>3. Len(<<>>) = 0
    BY EmptySeq
  <2> QED BY <2>2, <2>3
<1>2. PICK starts \in SUBSET (1..n) :
        Prologue(codes, starts) /\ size = PrologueSize(codes, starts) /\ OneAlloc(codes, starts)
  <2>1. \E starts \in SUBSET (DOMAIN codes) :
          Prologue(codes, starts) /\ OneAlloc(codes, starts) /\ size = PrologueSize(codes, starts)
    BY DescribedStarts
  <2> QED BY <1>1, <2>1
<1>3. /\ loop[0] = FirstTurn
      /\ \A k \in 1..n : loop[k] = NextTurn(codes, loop[k - 1])
      /\ GetStackOffset(codes) = loop[n].alloc + loop[n].push
  BY <1>1, LoopFacts
<1>0. n = Len(codes)
  OBVIOUS
<1> HIDE DEF n
<1> HIDE DEF loop
<1>4. n \in Nat /\ \A p \in starts : p \in 1..n
  BY <1>1
<1>5. LoopHolds(codes, n, starts, loop[0], 0)
  <2>1. loop[0].i = 1 /\ loop[0].push = 0 /\ loop[0].alloc = 0
    BY <1>3 DEF FirstTurn
  <2>2. 1 \in starts \union {n + 1}
    <3>1. codes # <<>> => 1 \in starts
      BY <1>2 DEF Prologue
    <3> QED BY <1>1, <3>1
  <2>3. Pushes(codes, starts, 1) = {} /\ Allocs(codes, starts, 1) = {}
    <3>1. \A p \in starts : ~(p < 1)
      BY <1>4
    <3> QED BY <3>1 DEF Pushes, Allocs
  <2>4. Cardinality({}) = 0
    BY FS_EmptySet
  <2> QED BY <2>1, <2>2, <2>3, <2>4 DEF LoopHolds
<1> DEFINE B == {k \in 0..n : ~LoopHolds(codes, n, starts, loop[k], k)}
<1>6. B = {}
  <2> SUFFICES ASSUME B # {} PROVE FALSE
    OBVIOUS
  <2>1. PICK m \in B : \A k \in B : m <= k
    <3>1. B \in SUBSET Nat
      BY <1>4
    <3> HIDE DEF B
    <3> QED BY <3>1, LeastNatural
  <2>2. m \in 0..n /\ ~LoopHolds(codes, n, starts, loop[m], m)
    OBVIOUS
  <2>3. m # 0
    BY <1>5, <2>2
  <2>4. m \in 1..n /\ m - 1 \in 0..(n - 1) /\ m - 1 \in 0..n /\ (m - 1) + 1 = m /\ m - 1 < m
    BY <1>4, <2>2, <2>3
  <2>5. LoopHolds(codes, n, starts, loop[m - 1], m - 1)
    BY <2>1, <2>4
  <2> HIDE DEF B
  <2>6. LoopHolds(codes, n, starts, NextTurn(codes, loop[m - 1]), (m - 1) + 1)
    BY <1>0, <1>1, <1>2, <2>4, <2>5, TurnKeepsLoop
  <2> QED BY <1>3, <2>2, <2>4, <2>6
<1> DEFINE w == loop[n]
<1>7. LoopHolds(codes, n, starts, w, n)
  <2>1. n \in 0..n
    BY <1>4
  <2> QED BY <1>6, <2>1
<1> HIDE DEF B, w
<1>8. w.i = n + 1
  <2>1. w.i \in starts \union {n + 1} /\ (w.i > n \/ w.i = n + 1)
    BY <1>7 DEF LoopHolds
  <2>2. w.i = n + 1 \/ (w.i \in starts /\ w.i > n)
    BY <1>4, <2>1, PositionIn
  <2>3. \A p \in starts : ~(p > n)
    BY <1>4
  <2> QED BY <2>2, <2>3
<1> DEFINE pushes == {p \in starts : GetUnwindOp(codes[p]) = PUSH_NON_VOL}
           allocs == {p \in starts : GetUnwindOp(codes[p]) \in {ALLOC_SMALL, ALLOC_LARGE}}
<1>9. Pushes(codes, starts, n + 1) = pushes /\ Allocs(codes, starts, n + 1) = allocs
  <2>1. \A p \in starts : p < n + 1
    BY <1>4
  <2> QED BY <2>1 DEF Pushes, Allocs
<1>10. w.push = 8 * Cardinality(pushes) /\ (allocs = {} => w.alloc = 0)
       /\ \A p \in allocs : w.alloc = Room(codes, p)
  <2>1. \A p \in allocs : w.alloc = Allocated(codes, p, 0)
    BY <1>7, <1>8, <1>9 DEF LoopHolds
  <2>2. \A p \in allocs : Allocated(codes, p, 0) = Room(codes, p)
    BY AllocatedRoom
  <2>3. w.push = 8 * Cardinality(pushes) /\ (allocs = {} => w.alloc = 0)
    BY <1>7, <1>8, <1>9 DEF LoopHolds
  <2> HIDE DEF pushes, allocs
  <2> QED BY <2>1, <2>2, <2>3
<1>11. size = (IF allocs = {} THEN 0 ELSE Room(codes, CHOOSE p \in allocs : TRUE))
              + 8 * Cardinality(pushes)
  BY <1>2 DEF PrologueSize
<1> HIDE DEF pushes, allocs
<1>12. w.alloc = IF allocs = {} THEN 0 ELSE Room(codes, CHOOSE p \in allocs : TRUE)
  BY <1>10
<1> QED BY <1>3, <1>10, <1>11, <1>12 DEF w

-----------------------------------------------------------------------------
(* Where the frames of a stack are *)

\* The recursive function behind ReturnSlot, from frame b on.
SlotOf(stack, at, i) ==
  IF i = Len(stack) THEN Bottom
  ELSE at[i + 1] - Size(stack, i + 1) - 8 - (IF TakesHead(Kind(stack, i)) THEN 16 ELSE 0)
AreSlots(at, stack, b) == at = [i \in b..Len(stack) |-> SlotOf(stack, at, i)]
Slots(stack) == CHOOSE at : AreSlots(at, stack, 0)

LEMMA SlotsExist ==
  ASSUME NEW stack, NEW n \in Nat, n = Len(stack), NEW k \in 0..n
  PROVE  \E at : AreSlots(at, stack, n - k)
<1> DEFINE B == {j \in 0..n : ~ \E f : AreSlots(f, stack, n - j)}
<1> SUFFICES ASSUME B # {} PROVE FALSE
  BY DEF B
<1>1. PICK m \in B : \A j \in B : m <= j
  <2>1. B \in SUBSET Nat
    OBVIOUS
  <2> HIDE DEF B
  <2> QED BY <2>1, LeastNatural
<1>2. m \in 0..n /\ ~ \E f : AreSlots(f, stack, n - m)
  OBVIOUS
<1>3. CASE m = 0
  <2> DEFINE f == [i \in n..n |-> Bottom]
  <2>1. \A i \in n..n : i = n
    OBVIOUS
  <2>2. f = [i \in n..n |-> SlotOf(stack, f, i)]
    BY <2>1 DEF SlotOf
  <2>3. AreSlots(f, stack, n) /\ n - m = n
    <3> HIDE DEF f
    <3> QED BY <1>3, <2>2 DEF AreSlots
  <2> QED BY <1>2, <2>3
<1>4. CASE m # 0
  <2>1. m - 1 \in 0..n /\ m - 1 \notin B
    BY <1>1, <1>2, <1>4
  <2> DEFINE b == n - m
  <2>2. b \in 0..n /\ b + 1 \in 0..n /\ n - (m - 1) = b + 1 /\ b < n
    BY <1>2, <1>4
  <2>3. PICK f : AreSlots(f, stack, b + 1)
    BY <2>1, <2>2
  <2> HIDE DEF B, b
  <2> DEFINE g == [i \in b..n |-> SlotOf(stack, f, i)]
  <2>4. f = [i \in (b + 1)..n |-> SlotOf(stack, f, i)]
    BY <2>3 DEF AreSlots
  <2>5. \A i \in b..n : i # n => g[i + 1] = f[i + 1]
    <3> TAKE i \in b..n
    <3> HAVE i # n
    <3>1. i + 1 \in (b + 1)..n /\ i + 1 \in b..n
      BY <2>2
    <3> QED BY <2>4, <3>1
  <2>6. \A i \in b..n : SlotOf(stack, f, i) = SlotOf(stack, g, i)
    <3> TAKE i \in b..n
    <3>1. i # n => g[i + 1] = f[i + 1]
      BY <2>5
    <3> HIDE DEF g
    <3> QED BY <3>1 DEF SlotOf
  <2>7. AreSlots(g, stack, b)
    <3>1. g = [i \in b..n |-> SlotOf(stack, g, i)]
      BY <2>6
    <3> HIDE DEF g
    <3> QED BY <3>1 DEF AreSlots
  <2> QED BY <1>2, <2>7 DEF b
<1> QED BY <1>3, <1>4

\* The sizes of frames are numbers.
LEMMA StackFacts ==
  ASSUME StacksOK, FramesOK, NEW stack \in Stacks
  PROVE  /\ Len(stack) \in Nat /\ Len(stack) # 0 /\ DOMAIN stack = 1..Len(stack)
         /\ \A i \in 1..Len(stack) :
              /\ FunctionOK(FunctionOf(stack[i])) /\ Size(stack, i) \in Int
              /\ Kind(stack, i) = FunctionOf(stack[i]).kind
<1>1. stack \in Seq([file : Files, fn : Nat]) /\ stack # <<>>
      /\ \A i \in DOMAIN stack : stack[i].fn \in 1..Len(Image[stack[i].file].functions)
  BY StacksOK
<1>2. Len(stack) \in Nat /\ DOMAIN stack = 1..Len(stack) /\ Len(stack) # 0
  BY <1>1, LenProperties, EmptySeq
<1>3. ASSUME NEW i \in 1..Len(stack)
      PROVE  /\ FunctionOK(FunctionOf(stack[i])) /\ Size(stack, i) \in Int
             /\ Kind(stack, i) = FunctionOf(stack[i]).kind
  <2>1. stack[i] \in [file : Files, fn : Nat]
    BY <1>1, <1>2, ElementOfSeq
  <2> DEFINE table == Image[stack[i].file].functions
             f == FunctionOf(stack[i])
  <2>2. stack[i].file \in Files /\ stack[i].fn \in 1..Len(table)
    BY <1>1, <1>2, <2>1
  <2>3. FunctionOK(f)
    BY <2>2, FramesOK DEF FunctionOf
  <2>4. f.size \in Nat /\ GrowSize \in Int
    BY <2>3, FramesOK DEF FunctionOK
  <2>5. Size(stack, i) \in {8, GrowSize - 8, f.size}
    BY DEF Size
  <2>6. Size(stack, i) \in Int
    BY <2>4, <2>5
  <2>7. Kind(stack, i) = f.kind
    BY DEF Kind
  <2> QED BY <2>3, <2>6, <2>7
<1> QED BY <1>2, <1>3

\* Where stack pointer and frame address are, from one frame to its caller.
LEMMA FrameLayout ==
  ASSUME StacksOK, FramesOK, NEW stack \in Stacks
  PROVE  /\ \A i \in 0..Len(stack) : FA(stack, i) \in Int
         /\ \A i \in 1..Len(stack) : SP(stack, i) \in Int /\ FA(stack, i) = SP(stack, i) + Size(stack, i) - 8
         /\ \A i \in 0..(Len(stack) - 1) : SP(stack, i + 1) = FA(stack, i) + SpOffset(Kind(stack, i))
<1> DEFINE n == Len(stack)
           at == Slots(stack)
           sz(i) == Size(stack, i)
           head(i) == IF TakesHead(Kind(stack, i)) THEN 16 ELSE 0
<1>1. n \in Nat /\ \A i \in 1..n : sz(i) \in Int
  BY StackFacts
<1>2. ReturnSlot(stack) = at
  BY DEF ReturnSlot, Slots, AreSlots, SlotOf
<1>3. AreSlots(at, stack, 0)
  <2>1. n \in 0..n /\ n - n = 0
    BY <1>1
  <2>2. \E f : AreSlots(f, stack, n - n)
    BY <1>1, <2>1, SlotsExist
  <2> QED BY <2>1, <2>2 DEF Slots
<1> HIDE DEF at
<1>4. \A i \in 0..n : at[i] = SlotOf(stack, at, i)
  <2>1. at = [i \in 0..n |-> SlotOf(stack, at, i)]
    BY <1>3 DEF AreSlots
  <2> QED BY <2>1
<1>5. at[n] = Bottom /\ \A i \in 0..(n - 1) : at[i] = at[i + 1] - sz(i + 1) - 8 - head(i)
  <2>1. n \in 0..n /\ \A i \in 0..(n - 1) : i \in 0..n /\ i # n
    BY <1>1
  <2> HIDE DEF n
  <2> QED BY <1>4, <2>1 DEF SlotOf, n
<1>6. \A i : FA(stack, i) = at[i] - 8 /\ SP(stack, i) = at[i] - sz(i) /\ SpOffset(Kind(stack, i)) = 16 + head(i)
               /\ head(i) \in {0, 16}
  BY <1>2 DEF FA, SP, SpOffset
<1> HIDE DEF n, sz, head
<1> DEFINE B == {k \in 0..n : at[n - k] \notin Int}
<1>7. B = {}
  <2> SUFFICES ASSUME B # {} PROVE FALSE
    OBVIOUS
  <2>1. PICK m \in B : \A k \in B : m <= k
    <3>1. B \in SUBSET Nat
      BY <1>1
    <3> HIDE DEF B
    <3> QED BY <3>1, LeastNatural
  <2>2. m \in 0..n /\ at[n - m] \notin Int
    OBVIOUS
  <2>3. m # 0
    <3>1. n - 0 = n
      BY <1>1
    <3> QED BY <1>5, <2>2, <3>1 DEF Bottom
  <2>4. /\ m - 1 \in 0..n /\ ~(m <= m - 1) /\ n - m \in 0..(n - 1) /\ n - m + 1 \in 1..n
        /\ n - (m - 1) = n - m + 1
    BY <1>1, <2>2, <2>3
  <2>5. at[n - m + 1] \in Int
    BY <2>1, <2>4
  <2> HIDE DEF B
  <2> DEFINE j == n - m
  <2>6. /\ at[j] = at[j + 1] - sz(j + 1) - 8 - head(j) /\ at[j + 1] \in Int
        /\ sz(j + 1) \in Int /\ head(j) \in {0, 16} /\ at[j] \notin Int
    BY <1>1, <1>5, <1>6, <2>2, <2>4, <2>5
  <2> HIDE DEF j
  <2> DEFINE x == at[j + 1]
             y == sz(j + 1)
             h == head(j)
  <2>7. at[j] = x - y - 8 - h /\ x \in Int /\ y \in Int /\ h \in {0, 16} /\ at[j] \notin Int
    BY <2>6
  <2> HIDE DEF x, y, h
  <2> QED BY <2>7
<1>8. \A i \in 0..n : at[i] \in Int
  <2> TAKE i \in 0..n
  <2>1. n - i \in 0..n /\ n - (n - i) = i
    BY <1>1
  <2> QED BY <1>7, <2>1
<1> HIDE DEF B
<1>9. ASSUME NEW i \in 1..n
      PROVE  SP(stack, i) \in Int /\ FA(stack, i) = SP(stack, i) + sz(i) - 8
  <2> DEFINE x == at[i]
             y == sz(i)
  <2>1. x \in Int /\ y \in Int /\ FA(stack, i) = x - 8 /\ SP(stack, i) = x - y
    BY <1>1, <1>6, <1>8
  <2> HIDE DEF x, y
  <2>2. SP(stack, i) \in Int /\ FA(stack, i) = SP(stack, i) + y - 8
    BY <2>1
  <2> QED BY <2>2 DEF y
<1>10. ASSUME NEW i \in 0..(n - 1)
       PROVE  SP(stack, i + 1) = FA(stack, i) + SpOffset(Kind(stack, i))
  <2> DEFINE x == at[i + 1]
             y == sz(i + 1)
             h == head(i)
  <2>1. i + 1 \in 0..n /\ i + 1 \in 1..n
    BY <1>1
  <2>2. /\ x \in Int /\ y \in Int /\ h \in {0, 16} /\ SpOffset(Kind(stack, i)) = 16 + h
        /\ FA(stack, i) = at[i] - 8 /\ SP(stack, i + 1) = x - y /\ at[i] = x - y - 8 - h
    BY <1>1, <1>5, <1>6, <1>8, <2>1
  <2> HIDE DEF x, y, h
  <2> QED BY <2>2
<1>11. \A i \in 0..n : FA(stack, i) \in Int
  <2> TAKE i \in 0..n
  <2> DEFINE x == at[i]
  <2>1. x \in Int /\ FA(stack, i) = x - 8
    BY <1>6, <1>8
  <2> HIDE DEF x
  <2> QED BY <2>1
<1> QED BY <1>9, <1>10, <1>11 DEF n, sz

\* The rules of the stacks, whichever image is the runtime's.
Laid(stack) ==
  /\ Kind(stack, 1) \in {"managed", "runtime"}
  /\ \A i \in 1..Len(stack) :
       /\ Kind(stack, i) \in Stubs \union {"managed", "c", "runtime", "Throw", "Grow", "TPE"}
       /\ Kind(stack, i) = "managed" => ~InC(stack, i)
       /\ Kind(stack, i) = "c" => InC(stack, i)
       /\ InPrologue(stack, i) => Kind(stack, i) = "managed"
       /\ Kind(stack, i) \in Stubs => ~TakesHead(Kind(stack, i - 1))

LEMMA StacksAreLaid == ASSUME StacksOK, FramesOK, NEW stack \in Stacks PROVE Laid(stack)
<1>1. PICK rt : Layered(stack, rt)
  BY FramesOK
<1>2. DOMAIN stack = 1..Len(stack)
  BY StackFacts
<1> QED BY <1>1, <1>2 DEF Layered, Laid

\* Frame k in the body of its function: what leads from its registers to its FA.
LEMMA BodyFrames ==
  ASSUME StacksOK, FramesOK, NEW stack \in Stacks, NEW k \in 1..Len(stack)
  PROVE  LET kind == Kind(stack, k)  f == FunctionOf(stack[k]) IN
           /\ kind \in Stubs => Rbp(stack, k) = FA(stack, k)
           /\ kind = "managed" /\ ~InPrologue(stack, k) => Rbp(stack, k) + f.off = FA(stack, k)
           /\ kind \notin Stubs \union {"managed"} => SP(stack, k) + GetStackOffset(f.codes) - 8 = FA(stack, k)
<1> DEFINE kind == Kind(stack, k)
           f == FunctionOf(stack[k])
           fa == FA(stack, k)
           sp == SP(stack, k)
           sz == Size(stack, k)
<1>1. /\ Len(stack) \in Nat /\ k \in 0..Len(stack) /\ ~(k > Len(stack)) /\ k <= Len(stack)
      /\ FunctionOK(f) /\ sz \in Int
  <2>1. Len(stack) \in Nat /\ FunctionOK(f) /\ sz \in Int
    BY StackFacts
  <2>2. k \in 0..Len(stack) /\ ~(k > Len(stack)) /\ k <= Len(stack)
    BY <2>1
  <2> QED BY <2>1, <2>2
<1>2. fa \in Int /\ sp \in Int /\ fa = sp + sz - 8
  BY <1>1, FrameLayout
<1>3. InPrologue(stack, k) => kind = "managed"
  BY StacksAreLaid DEF Laid
<1>4. "managed" \notin Stubs
  BY DEF Stubs
<1>5. ~InPrologue(stack, k) =>
        /\ kind \in Stubs => Rbp(stack, k) = fa
        /\ kind = "managed" => Rbp(stack, k) = fa - f.off
  <2> SUFFICES ASSUME ~InPrologue(stack, k)
               PROVE  /\ kind \in Stubs => Rbp(stack, k) = fa
                      /\ kind = "managed" => Rbp(stack, k) = fa - f.off
    OBVIOUS
  <2>1. Rbp(stack, k) = CASE kind \in Stubs -> fa [] kind = "managed" -> fa - f.off [] OTHER -> 1
    BY <1>1 DEF Rbp
  <2> HIDE DEF kind, fa, f
  <2> QED BY <1>4, <2>1
<1>6. f.off \in Int
  BY <1>1 DEF FunctionOK
<1>7. kind \notin Stubs \union {"managed"} => GetStackOffset(f.codes) = sz
  <2> SUFFICES ASSUME kind \notin Stubs \union {"managed"} PROVE GetStackOffset(f.codes) = sz
    OBVIOUS
  <2>1. f.kind = kind
    BY StackFacts
  <2>2. Described(f.codes, f.size)
    BY <1>1, <2>1 DEF FunctionOK
  <2>3. GetStackOffset(f.codes) = f.size
    BY <2>2, StackOffsetIsSize
  <2>4. ~InPrologue(stack, k)
    BY <1>3
  <2>5. sz = f.size
    BY <2>4 DEF InPrologue, Size
  <2> QED BY <2>3, <2>5
<1> HIDE DEF kind, f, fa, sp, sz
<1>8. kind = "managed" /\ ~InPrologue(stack, k) => Rbp(stack, k) + f.off = fa
  <2> DEFINE o == f.off
  <2>1. kind = "managed" /\ ~InPrologue(stack, k) => Rbp(stack, k) = fa - o
    BY <1>5
  <2>2. o \in Int /\ fa \in Int
    BY <1>2, <1>6
  <2> HIDE DEF o
  <2>3. (fa - o) + o = fa
    BY <2>2
  <2>4. kind = "managed" /\ ~InPrologue(stack, k) => Rbp(stack, k) + o = fa
    BY <2>1, <2>3
  <2> QED BY <2>4 DEF o
<1>9. kind \notin Stubs \union {"managed"} => sp + GetStackOffset(f.codes) - 8 = fa
  BY <1>2, <1>7
<1>10. kind \in Stubs => Rbp(stack, k) = fa
  BY <1>3, <1>4, <1>5
<1> QED BY <1>8, <1>9, <1>10 DEF kind, f, fa, sp

\* From a frame to its caller.
LEMMA CallerFrames ==
  ASSUME StacksOK, FramesOK, NEW stack \in Stacks, NEW i \in 1..(Len(stack) - 1)
  PROVE  LET callee == Kind(stack, i)  caller == Kind(stack, i + 1) IN
           /\ FA(stack, i) \in Int /\ SP(stack, i + 1) = FA(stack, i) + SpOffset(callee)
           /\ caller \in Stubs \/ callee \in {"Grow", "Throw"} => SP(stack, i + 1) = FA(stack, i) + 16
           /\ callee = "Throw" => FA(stack, i + 1) = FA(stack, i) + 16
           /\ callee = "Grow" => FA(stack, i + 1) = FA(stack, i) + GrowSize
           /\ callee \in {"Grow", "Throw"} => caller = "managed"
<1> DEFINE callee == Kind(stack, i)
           caller == Kind(stack, i + 1)
           fa == FA(stack, i)
           sp == SP(stack, i + 1)
<1>1. /\ Len(stack) \in Nat /\ i \in 0..Len(stack) /\ i \in 0..(Len(stack) - 1)
      /\ i + 1 \in 1..Len(stack) /\ (i + 1) - 1 = i
  BY StackFacts
<1>2. fa \in Int /\ sp \in Int /\ sp = fa + SpOffset(callee)
  BY <1>1, FrameLayout
<1>3. FA(stack, i + 1) = sp + Size(stack, i + 1) - 8 /\ GrowSize \in Int
  BY <1>1, FrameLayout, FramesOK
<1>4. ~TakesHead(callee) => sp = fa + 16
  BY <1>2 DEF SpOffset
<1>5. callee \in {"Grow", "Throw"} => ~TakesHead(callee)
  BY DEF TakesHead
<1>6. caller \in Stubs => ~TakesHead(callee)
  BY <1>1, StacksAreLaid DEF Laid
<1>7. callee \in {"Grow", "Throw"} => caller = "managed"
  BY <1>1, StacksAreLaid DEF Laid, InPrologue
<1>8. /\ callee = "Throw" => Size(stack, i + 1) = 8
      /\ callee = "Grow" => Size(stack, i + 1) = GrowSize - 8
  <2>1. Size(stack, i + 1) = CASE callee = "Throw" -> 8 [] callee = "Grow" -> GrowSize - 8
                               [] OTHER -> FunctionOf(stack[i + 1]).size
    BY <1>1 DEF Size
  <2> HIDE DEF callee
  <2> QED BY <2>1
<1> HIDE DEF callee, caller, fa, sp
<1>9. callee = "Throw" => FA(stack, i + 1) = fa + 16
  BY <1>2, <1>3, <1>4, <1>5, <1>8
<1>10. callee = "Grow" => FA(stack, i + 1) = fa + GrowSize
  BY <1>2, <1>3, <1>4, <1>5, <1>8
<1>11. caller \in Stubs \/ callee \in {"Grow", "Throw"} => sp = fa + 16
  BY <1>4, <1>5, <1>6
<1> QED BY <1>2, <1>7, <1>9, <1>10, <1>11 DEF callee, caller, fa, sp

\* Where the thread runs in C, one frame further.
LEMMA InCStep ==
  ASSUME NEW stack, NEW i \in Nat
  PROVE  InC(stack, i + 1) <=> \/ Kind(stack, i + 1) = "N2C"
                               \/ Kind(stack, i + 1) # "C2N" /\ InC(stack, i)
<1>1. ASSUME Kind(stack, i + 1) = "N2C" PROVE InC(stack, i + 1)
  <2>1. i + 1 \in 1..(i + 1) /\ \A k : k \notin ((i + 1) + 1)..(i + 1)
    OBVIOUS
  <2> QED BY <1>1, <2>1 DEF InC
<1>2. ASSUME Kind(stack, i + 1) # "C2N", InC(stack, i) PROVE InC(stack, i + 1)
  <2>1. PICK j \in 1..i : Kind(stack, j) = "N2C" /\ \A k \in (j + 1)..i : Kind(stack, k) # "C2N"
    BY <1>2 DEF InC
  <2>2. j \in 1..(i + 1) /\ \A k \in (j + 1)..(i + 1) : k \in (j + 1)..i \/ k = i + 1
    OBVIOUS
  <2> QED BY <1>2, <2>1, <2>2 DEF InC
<1>3. ASSUME InC(stack, i + 1), Kind(stack, i + 1) # "N2C"
      PROVE  Kind(stack, i + 1) # "C2N" /\ InC(stack, i)
  <2>1. PICK j \in 1..(i + 1) : Kind(stack, j) = "N2C" /\ \A k \in (j + 1)..(i + 1) : Kind(stack, k) # "C2N"
    BY <1>3 DEF InC
  <2>2. j # i + 1
    BY <1>3, <2>1
  <2>3. j \in 1..i /\ i + 1 \in (j + 1)..(i + 1) /\ \A k \in (j + 1)..i : k \in (j + 1)..(i + 1)
    BY <2>2
  <2> QED BY <2>1, <2>3 DEF InC
<1> QED BY <1>1, <1>2, <1>3

LEMMA InCFirst ==
  ASSUME NEW stack, Kind(stack, 1) # "N2C"
  PROVE  ~InC(stack, 1)
BY DEF InC

-----------------------------------------------------------------------------
(* The code of the runtime *)

\* The images that stay are where they were mapped at the start.
FixedHold == \A n \in DOMAIN Fixed : [file |-> Fixed[n], base |-> FixedBase[Fixed[n]]] \in Mapped(images)

\* Where the constructor has found the code of the runtime.
LEMMA RuntimeText ==
  ASSUME SectionsOK, SectionInv, Started, platform = "windows",
         NEW m \in DOMAIN Process, Process[m].name = Own,
         \E k \in DOMAIN Process[m].sections : Process[m].sections[k].name = ".text_rt"
  PROVE  \E k \in DOMAIN Process[m].sections :
           LET section == Process[m].sections[k] IN
             /\ section.name = ".text_rt" /\ section.va \in Nat /\ section.size \in Nat
             /\ located["RuntimeText"].start = Process[m].base + section.va
             /\ located["RuntimeText"].size = section.size
<1> DEFINE own == OwnOf(Process)
<1>1. step = "done" /\ sectionImages = Process /\ Process \in ImageLists
  BY SectionsOK DEF Started
<1>2. OwnOK(own) /\ Process[m] = own
  BY <1>1, OwnFacts
<1>3. PICK loc : ScanHolds(own, loc, Len(own.sections)) /\ located = WithSize(loc, total)
  BY <1>1 DEF SectionInv
<1> HIDE DEF own
<1>4. Filled(own, loc, ".text_rt", "RuntimeText", Len(own.sections)) /\ DOMAIN loc = Sections!Kinds
      /\ "RuntimeText" \in Sections!Kinds
  <2>1. 22 \in DOMAIN Sections!SectionNames
    BY NamesFacts
  <2>2. Sections!SectionNames[22][1] = ".text_rt" /\ Sections!SectionNames[22][2] = "RuntimeText"
    BY NamesFacts
  <2> QED BY <1>3, <2>1, <2>2 DEF ScanHolds, Sections!Kinds
<1>5. DOMAIN own.sections = 1..Len(own.sections)
  BY <1>2 DEF OwnOK
<1>6. NamedAmong(own, ".text_rt", Len(own.sections)) # {}
  BY <1>2, <1>5 DEF NamedAmong
<1>7. PICK s \in NamedAmong(own, ".text_rt", Len(own.sections)) :
        loc["RuntimeText"] = Sections!Placed(own, own.sections[s])
  BY <1>4, <1>6 DEF Filled
<1>8. s \in DOMAIN own.sections /\ own.sections[s].name = ".text_rt"
  BY <1>5, <1>7 DEF NamedAmong
<1>9. own.sections[s].va \in Nat /\ own.sections[s].size \in Nat
  BY <1>2, <1>8 DEF OwnOK
<1>10. located["RuntimeText"] = loc["RuntimeText"]
  <2>1. PlacesOK(own, loc)
    BY <1>2, <1>3, ScanPlaces
  <2>2. "RuntimeText" # "Metadata"
    OBVIOUS
  <2> QED BY <1>2, <1>3, <1>4, <2>1, <2>2, WithSizeFacts
<1>11. /\ located["RuntimeText"].start = own.base + own.sections[s].va
       /\ located["RuntimeText"].size = own.sections[s].size
  BY <1>7, <1>10 DEF Sections!Placed
<1> QED BY <1>2, <1>8, <1>9, <1>11

\* An address in a section, and one of another image.
LEMMA InText ==
  ASSUME NEW b \in Int, NEW va \in Nat, NEW size \in Nat, NEW start \in Nat,
         va <= start + 1, start + 1 < va + size
  PROVE  b + va <= b + start + 1 /\ b + start + 1 < b + va + size
OBVIOUS

LEMMA OutsideText ==
  ASSUME NEW b \in Int, NEW va \in Nat, NEW size \in Nat, NEW whole \in Nat, va + size <= whole,
         NEW c \in Int, NEW other \in Nat, NEW pc \in Int, c < pc, pc < c + other, b # c,
         c < b => c + other <= b, b < c => b + whole <= c
  PROVE  ~(b + va <= pc /\ pc < b + va + size)
OBVIOUS

\* The ip is in the code of the runtime for the runtime's functions only.
LEMMA RuntimeFrames ==
  ASSUME ImagesOK, FunctionsOK, StacksOK, FramesOK, SectionsOK, LoaderInv, SectionInv, FixedHold, Started,
         NEW t \in Walkers, WalkHolds(t), Seeking(t),
         NEW k, k = IF walk[t].pc = "cur" THEN 1 ELSE walk[t].i + 1
  PROVE  /\ walk[t].stack \in Stacks /\ k \in 1..Len(walk[t].stack) /\ Sought(t) = walk[t].stack[k]
         /\ IsRuntimeFrame(walk[t].stack[k]) <=> Kind(walk[t].stack, k) \notin {"managed", "c"}
<1> DEFINE stack == walk[t].stack
           frame == Sought(t)
<1>1. /\ stack \in Stacks /\ platform = "windows"
      /\ walk[t].pc # "cur" => walk[t].i \in 1..Len(stack) /\ walk[t].i < Len(stack)
  BY DEF WalkHolds, Seeking
<1> HIDE DEF stack
<1>2. Len(stack) \in Nat /\ Len(stack) # 0 /\ DOMAIN stack = 1..Len(stack)
  BY <1>1, StackFacts
<1>3. k \in 1..Len(stack)
  BY <1>1, <1>2
<1>4. frame = stack[k]
  BY DEF Sought, stack
<1>5. PICK n \in DOMAIN Fixed, m \in DOMAIN Process :
        /\ Process[m].name = Own /\ Process[m].base = FixedBase[Fixed[n]]
        /\ \E s \in DOMAIN Process[m].sections : Process[m].sections[s].name = ".text_rt"
        /\ \A s \in DOMAIN Process[m].sections :
             Process[m].sections[s].name = ".text_rt" => HoldsCode(Process[m].sections[s], Fixed[n])
        /\ \A q \in Stacks : Layered(q, Fixed[n])
  BY FramesOK
<1> DEFINE r == [file |-> Fixed[n], base |-> FixedBase[Fixed[n]]]
<1>6. r \in Mapped(images) /\ r.file = Fixed[n] /\ r.base = Process[m].base
  BY <1>5 DEF FixedHold
<1> HIDE DEF r
<1>7. Kind(stack, k) \in {"managed", "c"} <=> frame.file # r.file
  BY <1>1, <1>2, <1>3, <1>4, <1>5, <1>6 DEF Layered
<1>8. PICK s \in DOMAIN Process[m].sections :
        /\ Process[m].sections[s].name = ".text_rt"
        /\ Process[m].sections[s].va \in Nat /\ Process[m].sections[s].size \in Nat
        /\ located["RuntimeText"].start = Process[m].base + Process[m].sections[s].va
        /\ located["RuntimeText"].size = Process[m].sections[s].size
  BY <1>1, <1>5, RuntimeText
<1> DEFINE section == Process[m].sections[s]
<1>9. HoldsCode(section, Fixed[n])
  BY <1>5, <1>8
<1>10. PICK j \in Mapped(images) :
         /\ j.file = frame.file /\ j.file \in Files /\ j.base \in Bases /\ j.base \in Int
         /\ Pc(frame) = j.base + Image[j.file].functions[frame.fn].start + 1
         /\ frame.fn \in 1..Len(Image[j.file].functions)
         /\ Pc(frame) \in Int /\ Image[j.file].size \in Nat
         /\ j.base < Pc(frame) /\ Pc(frame) < j.base + Image[j.file].size
  BY PcInside
<1>11. Apart(images)
  BY DEF LoaderInv, ImagesHold
<1>12. r.file \in Files /\ r.base \in Bases /\ r.base \in Int /\ Image[r.file].size \in Nat
  <2>1. r.file \in Files /\ r.base \in Bases /\ r.base \in Int
    BY <1>6, <1>11, ApartFacts, ImagesOK
  <2> QED BY <2>1, ImagesOK DEF TablesOK
<1> DEFINE pc == Pc(frame)
           va == section.va
           size == section.size
           text == located["RuntimeText"]
           whole == Image[r.file].size
<1>13. /\ va \in Nat /\ size \in Nat /\ text.start = r.base + va /\ text.size = size
       /\ va + size <= whole /\ whole \in Nat
  BY <1>6, <1>8, <1>9, <1>12 DEF HoldsCode
<1>14. IsRuntimeFrame(frame) <=> (text.start <= pc /\ pc < text.start + text.size)
  BY DEF IsRuntimeFrame
<1>15. CASE frame.file = r.file
  <2>1. j = r
    BY <1>6, <1>10, <1>11, <1>15, ApartFacts
  <2> DEFINE start == Image[r.file].functions[frame.fn].start
  <2>2. pc = r.base + start + 1 /\ va <= start + 1 /\ start + 1 < va + size
    BY <1>6, <1>9, <1>10, <2>1 DEF HoldsCode
  <2>3. start \in Nat
    BY <1>10, <1>12, <2>1, FunctionsOK DEF TableOK
  <2> HIDE DEF pc, va, size, start, text, whole
  <2>4. text.start <= pc /\ pc < text.start + text.size
    <3>1. r.base + va <= pc /\ pc < r.base + va + size
      BY <1>12, <1>13, <2>2, <2>3, InText
    <3> QED BY <1>13, <3>1
  <2> QED BY <1>1, <1>3, <1>4, <1>7, <1>14, <1>15, <2>4 DEF pc, text, stack
<1>16. CASE frame.file # r.file
  <2>1. j.base # r.base
    BY <1>6, <1>10, <1>11, <1>16, ApartFacts
  <2>2. /\ j.base < r.base => j.base + Image[j.file].size <= r.base
        /\ r.base < j.base => r.base + whole <= j.base
    BY <1>10, <1>12, ImagesOK
  <2> DEFINE other == Image[j.file].size
  <2>3. /\ other \in Nat /\ pc \in Int /\ j.base < pc /\ pc < j.base + other /\ j.base \in Int
        /\ (j.base < r.base => j.base + other <= r.base) /\ (r.base < j.base => r.base + whole <= j.base)
    BY <1>10, <2>2
  <2> HIDE DEF pc, va, size, other, text, whole
  <2>4. ~(text.start <= pc /\ pc < text.start + text.size)
    <3>1. ~(r.base + va <= pc /\ pc < r.base + va + size)
      BY <1>12, <1>13, <2>1, <2>3, OutsideText
    <3> QED BY <1>13, <3>1
  <2> QED BY <1>1, <1>3, <1>4, <1>7, <1>14, <1>16, <2>4 DEF pc, text, stack
<1> QED BY <1>15, <1>16

-----------------------------------------------------------------------------
(* Walks: the frame address, the status and the flags *)

\* A flag somebody set is up.
FlagsHold ==
  /\ setBy = [m \in Flags |-> setBy[m]] /\ calleeThrows = [m \in Flags |-> calleeThrows[m]]
  /\ \A m \in Flags : setBy[m] # {} => calleeThrows[m]

\* A walk is at the frame it has the address of, knows whether the thread runs
\* in C there, and has set each flag when the frame it is about to leave, or
\* has just found, throws StackOverflowError.
Throws(stack, i) == Kind(stack, i) = "Throw"
OnTrack(w, t, by) ==
  /\ w.fa = FA(w.stack, w.i)
  /\ w.status = "RISKY" <=> InC(w.stack, w.i)
  /\ w.pc \in {"fa", "mark rsp"} => w.i < Len(w.stack)
  /\ w.pc = "mark fa" => Throws(w.stack, w.i)
  /\ w.pc = "mark rsp" => Throws(w.stack, w.i + 1)
  /\ t \in by["fa"] <=> w.pc # "mark fa" /\ Throws(w.stack, w.i)
  /\ t \in by["rsp"] <=> IF w.pc = "fa" THEN Throws(w.stack, w.i + 1)
                         ELSE w.pc # "mark rsp" /\ Throws(w.stack, w.i)

\* That holds of every walk that met no other's flag and no wrong record.
Unmet(t, others) == t \notin others
TrackHolds(t) ==
  LET w == walk[t] IN
  /\ w.pc \in {"idle", "cur", "rsp", "mark rsp", "fa", "mark fa", "lost"}
  /\ w.pc # "idle" => Started
  /\ w.bad # None => w.pc = "lost"
  /\ w.pc = "cur" => w.status = "RELIABLE" /\ (Unmet(t, mixed) => \A m \in Flags : t \notin setBy[m])
  /\ Unmet(t, mixed) /\ w.bad = None /\ w.pc \notin {"idle", "cur"} =>
       w.pc # "lost" /\ OnTrack(w, t, setBy)

TrackInv == FlagsHold /\ \A t \in Walkers : TrackHolds(t)

\* What a step of t has to keep of the flags.
OthersKept(t) ==
  \A s \in Walkers : s # t /\ Unmet(s, mixed') =>
    Unmet(s, mixed) /\ \A m \in Flags : s \in setBy'[m] <=> s \in setBy[m]

\* The constructor is done for good.
LEMMA StartedStays == ASSUME Started, [Next]_vars PROVE Started'
<1>1. step = "done" /\ sectionImages = Process
  BY DEF Started
<1>2. CASE FindSections
  <2>1. Sections!Next
    BY <1>2 DEF FindSections
  <2> QED BY <1>1, <2>1 DEF Sections!Next, Sections!FindOwnModule, Sections!ScanSection,
              Sections!ComputeSizeWindows, Sections!FindOwnImage,
              Sections!InitSectionInformation, Sections!ComputeSizeMacos
<1>3. CASE UNCHANGED sectionVars
  BY <1>1, <1>3 DEF sectionVars, Started
<1> QED BY <1>2, <1>3 DEF Next, vars

\* A step of one thread leaves the others on track.
LEMMA OneTracks ==
  ASSUME TrackInv, NEW t \in Walkers, FlagsHold', OthersKept(t), Started => Started',
         \A s \in Walkers : s # t => walk'[s] = walk[s], TrackHolds(t)'
  PROVE  TrackInv'
<1>1. ASSUME NEW s \in Walkers, s # t PROVE TrackHolds(s)'
  <2>1. TrackHolds(s) /\ walk'[s] = walk[s]
    BY <1>1 DEF TrackInv
  <2>2. Unmet(s, mixed') => Unmet(s, mixed) /\ \A m \in Flags : s \in setBy'[m] <=> s \in setBy[m]
    BY <1>1 DEF OthersKept
  <2> DEFINE w == walk[s]
  <2>3. Unmet(s, mixed') /\ OnTrack(w, s, setBy) => OnTrack(w, s, setBy')
    BY <2>2 DEF OnTrack, Flags
  <2>4. /\ w.pc \in {"idle", "cur", "rsp", "mark rsp", "fa", "mark fa", "lost"}
        /\ w.pc # "idle" => Started'
        /\ w.bad # None => w.pc = "lost"
        /\ w.pc = "cur" => w.status = "RELIABLE" /\ (Unmet(s, mixed') => \A m \in Flags : s \notin setBy'[m])
        /\ Unmet(s, mixed') /\ w.bad = None /\ w.pc \notin {"idle", "cur"} =>
             w.pc # "lost" /\ OnTrack(w, s, setBy')
    BY <2>1, <2>2, <2>3 DEF TrackHolds
  <2> QED BY <2>1, <2>4 DEF TrackHolds
<1> QED BY <1>1 DEF TrackInv

\* Without a change of flags there is nothing to keep.
LEMMA FlagsUnchanged ==
  ASSUME FlagsHold, NEW t \in Walkers, UNCHANGED flagVars
  PROVE  FlagsHold' /\ OthersKept(t) /\ UNCHANGED <<setBy, mixed>>
<1>1. UNCHANGED <<calleeThrows, setBy, mixed>>
  BY DEF flagVars
<1> QED BY <1>1 DEF FlagsHold, OthersKept

\* A walk that takes a flag and is not mixed by it had set it.
LEMMA FlagTaken ==
  ASSUME FlagsHold, NEW t \in Walkers, NEW flag \in Flags, TakeFlag(t, flag)
  PROVE  /\ FlagsHold' /\ OthersKept(t)
         /\ Unmet(t, mixed') => Unmet(t, mixed) /\ t \in setBy[flag]
         /\ t \notin setBy'[flag] /\ \A m \in Flags : m # flag => setBy'[m] = setBy[m]
<1>1. /\ calleeThrows' = [calleeThrows EXCEPT ![flag] = FALSE]
      /\ setBy' = [setBy EXCEPT ![flag] = {}]
      /\ mixed' = mixed \union (setBy[flag] \ {t}) \union ({t} \ setBy[flag])
  BY DEF TakeFlag
<1>2. DOMAIN setBy = Flags /\ DOMAIN calleeThrows = Flags
  BY DEF FlagsHold
<1>3. setBy'[flag] = {} /\ \A m \in Flags : m # flag => setBy'[m] = setBy[m] /\ calleeThrows'[m] = calleeThrows[m]
  BY <1>1, <1>2
<1>4. FlagsHold'
  <2>1. setBy' = [m \in Flags |-> setBy'[m]] /\ calleeThrows' = [m \in Flags |-> calleeThrows'[m]]
    BY <1>1, <1>2
  <2>2. \A m \in Flags : setBy'[m] # {} => calleeThrows'[m]
    BY <1>3 DEF FlagsHold
  <2> QED BY <2>1, <2>2 DEF FlagsHold
<1>5. OthersKept(t)
  BY <1>1, <1>3 DEF OthersKept, Unmet
<1> QED BY <1>1, <1>3, <1>4, <1>5 DEF Unmet

\* A walk that raises a flag has set it.
LEMMA FlagMarked ==
  ASSUME FlagsHold, NEW t \in Walkers, NEW flag \in Flags,
         calleeThrows' = [calleeThrows EXCEPT ![flag] = TRUE],
         setBy' = [setBy EXCEPT ![flag] = @ \union {t}], mixed' = mixed
  PROVE  /\ FlagsHold' /\ OthersKept(t)
         /\ t \in setBy'[flag] /\ \A m \in Flags : m # flag => setBy'[m] = setBy[m]
<1>2. DOMAIN setBy = Flags /\ DOMAIN calleeThrows = Flags
  BY DEF FlagsHold
<1>3. /\ setBy'[flag] = setBy[flag] \union {t} /\ calleeThrows'[flag]
      /\ \A m \in Flags : m # flag => setBy'[m] = setBy[m] /\ calleeThrows'[m] = calleeThrows[m]
  BY <1>2
<1>4. FlagsHold'
  <2>1. setBy' = [m \in Flags |-> setBy'[m]] /\ calleeThrows' = [m \in Flags |-> calleeThrows'[m]]
    BY <1>2
  <2>2. \A m \in Flags : setBy'[m] # {} => calleeThrows'[m]
    BY <1>3 DEF FlagsHold
  <2> QED BY <2>1, <2>2 DEF FlagsHold
<1>5. OthersKept(t)
  BY <1>3 DEF OthersKept
<1> QED BY <1>3, <1>4, <1>5

\* A walk that goes nowhere, or somewhere it knows.
LEMMA WalkMoves ==
  ASSUME TrackInv, LookupInv, NEW t \in Walkers, NEW w, SetWalk(t, w),
         FlagsHold', OthersKept(t), Started',
         w.pc \in {"idle", "cur", "rsp", "mark rsp", "fa", "mark fa", "lost"},
         w.bad # None => w.pc = "lost",
         w.pc = "cur" => w.status = "RELIABLE" /\ \A m \in Flags : t \notin setBy'[m],
         Unmet(t, mixed') /\ w.bad = None /\ w.pc \notin {"idle", "cur"} =>
           w.pc # "lost" /\ OnTrack(w, t, setBy')
  PROVE  TrackInv'
<1>1. walk'[t] = w /\ \A s \in Walkers : s # t => walk'[s] = walk[s]
  BY SetWalkFacts DEF LookupInv
<1>2. TrackHolds(t)'
  BY <1>1 DEF TrackHolds
<1> QED BY <1>1, <1>2, OneTracks

\* A walk that starts has set no flag.
LEMMA StartTracks ==
  ASSUME TrackInv, LookupInv, NEW t \in Walkers, NEW stack \in Stacks, StartWalk(t, stack), Started'
  PROVE  TrackInv'
<1> DEFINE w == WalkOf(stack)
<1>1. /\ SetWalk(t, w) /\ setBy' = [m \in Flags |-> setBy[m] \ {t}]
      /\ mixed' = mixed \ {t} /\ calleeThrows' = calleeThrows
  BY DEF StartWalk, WalkOf
<1>2. w.pc = "cur" /\ w.bad = None /\ w.status = "RELIABLE"
  <2>1. DOMAIN NoWalk = Fields /\ NoWalk.bad = None /\ NoWalk.status = "RELIABLE"
    BY DEF NoWalk, Fields
  <2> QED BY <2>1 DEF WalkOf, Fields
<1> HIDE DEF w
<1>3. FlagsHold
  BY DEF TrackInv
<1>4. \A m \in Flags : setBy'[m] = setBy[m] \ {t} /\ calleeThrows'[m] = calleeThrows[m]
  BY <1>1
<1>5. FlagsHold'
  <2>1. setBy' = [m \in Flags |-> setBy'[m]] /\ calleeThrows' = [m \in Flags |-> calleeThrows'[m]]
    BY <1>1, <1>3 DEF FlagsHold
  <2>2. \A m \in Flags : setBy'[m] # {} => calleeThrows'[m]
    BY <1>3, <1>4 DEF FlagsHold
  <2> QED BY <2>1, <2>2 DEF FlagsHold
<1>6. OthersKept(t)
  BY <1>1, <1>4 DEF OthersKept, Unmet
<1>7. \A m \in Flags : t \notin setBy'[m]
  BY <1>4
<1> QED BY <1>1, <1>2, <1>5, <1>6, <1>7, WalkMoves

\* One that stops has nothing to be right about.
LEMMA StopTracks ==
  ASSUME TrackInv, LookupInv, NEW t \in Walkers, StopWalk(t), Started'
  PROVE  TrackInv'
<1>1. SetWalk(t, NoWalk) /\ UNCHANGED flagVars
  BY DEF StopWalk
<1>2. NoWalk.pc = "idle" /\ NoWalk.bad = None
  BY DEF NoWalk
<1>3. FlagsHold' /\ OthersKept(t)
  BY <1>1, FlagsUnchanged DEF TrackInv
<1> QED BY <1>1, <1>2, <1>3, WalkMoves

\* A walk that gets lost over a file.
LEMMA LossTracks ==
  ASSUME TrackInv, LookupInv, NEW t \in Walkers, NEW f, f # None, Started',
         SetWalk(t, LostAt(walk[t], f)), UNCHANGED flagVars
  PROVE  TrackInv'
<1> DEFINE w == LostAt(walk[t], f)
<1>1. DOMAIN walk[t] = Fields
  BY DEF LookupInv, WalkHolds
<1>2. w.pc = "lost" /\ w.bad = f
  BY <1>1, LostUpdate
<1> HIDE DEF w
<1>3. FlagsHold' /\ OthersKept(t)
  BY FlagsUnchanged DEF TrackInv
<1>4. SetWalk(t, w)
  BY DEF w
<1> QED BY <1>2, <1>3, <1>4, WalkMoves

\* The walks stay as they are.
LEMMA WalksUnchanged ==
  ASSUME TrackInv, UNCHANGED <<walk, flagVars>>, Started => Started'
  PROVE  TrackInv'
<1>1. UNCHANGED <<walk, calleeThrows, setBy, mixed>>
  BY DEF flagVars
<1>2. FlagsHold'
  BY <1>1 DEF TrackInv, FlagsHold
<1>3. ASSUME NEW t \in Walkers PROVE TrackHolds(t)'
  <2>1. TrackHolds(t)
    BY DEF TrackInv
  <2> QED BY <1>1, <2>1 DEF TrackHolds
<1> QED BY <1>2, <1>3 DEF TrackInv

\* A lookup that finds no record, or the wrong one, is told of.
LEMMA NotFoundTracks ==
  ASSUME ImagesOK, StacksOK, LoaderInv, TrackInv, LookupInv, NEW t \in Walkers, NotFound(t), Started => Started'
  PROVE  TrackInv'
<1>1. /\ walk[t].pc \in {"cur", "fa", "rsp"} /\ AtStep(t, walk[t].pc) /\ UNCHANGED flagVars
      /\ walk' = walk \/ SetWalk(t, LostAt(walk[t], Sought(t).file))
  BY DEF NotFound, LostAt
<1>2. TrackHolds(t) /\ WalkHolds(t)
  BY DEF TrackInv, LookupInv
<1>3. Started /\ Seeking(t)
  BY <1>1, <1>2 DEF TrackHolds, Seeking, AtStep
<1>4. Sought(t).file # None
  BY <1>2, <1>3, SoughtFacts, ImagesOK
<1> QED BY <1>1, <1>3, <1>4, LossTracks, WalksUnchanged

LEMMA WrongRecordTracks ==
  ASSUME ImagesOK, TrackInv, LookupInv, NEW t \in Walkers, WrongRecord(t), Started => Started'
  PROVE  TrackInv'
<1>1. walk[t].pc \in {"cur", "fa", "rsp"} /\ UNCHANGED flagVars
  BY DEF WrongRecord
<1>2. PICK record \in GetWinModuleByPc(Pc(Sought(t))) : SetWalk(t, LostAt(walk[t], record.file))
  BY DEF WrongRecord, LostAt
<1>3. record.file # None
  <2>1. record \in winModules
    BY DEF GetWinModuleByPc
  <2> QED BY <2>1, ImagesOK DEF LookupInv, RecordsHold
<1>4. Started
  BY <1>1 DEF TrackInv, TrackHolds
<1> QED BY <1>1, <1>2, <1>3, <1>4, LossTracks

\* What a step that looks a frame up may rely on.
WalkInv == LoaderInv /\ LookupInv /\ SectionInv /\ FixedHold /\ TrackInv

\* The first frame is in the body of managed or runtime code.
LEMMA CurFrameTracks ==
  ASSUME ImagesOK, FunctionsOK, StacksOK, FramesOK, SectionsOK, WalkInv,
         NEW t \in Walkers, GetCurFrameInfo(t), Started => Started'
  PROVE  TrackInv'
<1> DEFINE v == walk[t]
           stack == v.stack
           first == FunctionOf(stack[1])
           fa == IF IsRuntimeFrame(stack[1]) THEN SP(stack, 1) + GetStackOffset(first.codes) - 8
                 ELSE Rbp(stack, 1) + first.off
           w == FirstFrame(v, fa)
<1>1. AtStep(t, "cur") /\ SetWalk(t, w) /\ UNCHANGED flagVars
  BY DEF GetCurFrameInfo, FirstFrame
<1>2. v.pc = "cur" /\ Seeking(t)
  BY <1>1 DEF AtStep, Seeking
<1>3. TrackHolds(t) /\ WalkHolds(t) /\ DOMAIN v = Fields
  BY DEF WalkInv, TrackInv, LookupInv, WalkHolds
<1>4. Started /\ v.status = "RELIABLE" /\ v.bad = None
      /\ (Unmet(t, mixed) => \A m \in Flags : t \notin setBy[m])
  BY <1>2, <1>3 DEF TrackHolds
<1>5. /\ stack \in Stacks /\ 1 \in 1..Len(stack)
      /\ IsRuntimeFrame(stack[1]) <=> Kind(stack, 1) \notin {"managed", "c"}
  <2>1. \A k : k = 1 => k = IF v.pc = "cur" THEN 1 ELSE v.i + 1
    BY <1>2
  <2> QED BY <1>2, <1>3, <1>4, <2>1, RuntimeFrames DEF WalkInv
<1> HIDE DEF fa
<1>6. w.pc = "rsp" /\ w.bad = None /\ w.stack = stack /\ w.i = 1 /\ w.fa = fa /\ w.status = "RELIABLE"
  BY <1>3, <1>4, FirstUpdate
<1> HIDE DEF w, v, stack
<1>7. Kind(stack, 1) \in {"managed", "runtime"}
  BY <1>5, StacksAreLaid DEF Laid
<1>8. ~InPrologue(stack, 1)
  <2>1. 1 - 1 = 0
    OBVIOUS
  <2> QED BY <2>1 DEF InPrologue, Kind
<1>9. fa = FA(stack, 1)
  <2>1. CASE Kind(stack, 1) = "managed"
    BY <1>5, <1>8, <2>1, BodyFrames DEF fa
  <2>2. CASE Kind(stack, 1) = "runtime"
    <3>1. "runtime" \notin Stubs \union {"managed"}
      BY DEF Stubs
    <3> QED BY <1>5, <2>2, <3>1, BodyFrames DEF fa
  <2> QED BY <1>7, <2>1, <2>2
<1>10. ~Throws(stack, 1) /\ ~InC(stack, 1)
  BY <1>7, InCFirst DEF Throws
<1>11. FlagsHold' /\ OthersKept(t) /\ UNCHANGED <<setBy, mixed>>
  BY <1>1, FlagsUnchanged DEF WalkInv, TrackInv
<1>12. Unmet(t, mixed') => OnTrack(w, t, setBy')
  BY <1>4, <1>6, <1>9, <1>10, <1>11 DEF OnTrack, Flags
<1> QED BY <1>1, <1>4, <1>6, <1>11, <1>12, WalkMoves DEF WalkInv

\* The flag is up when the callee throws, and then it is taken.
LEMMA FlagWhenThrown ==
  ASSUME StacksOK, FramesOK, FlagsHold, NEW t \in Walkers, NEW flag \in Flags, t \in setBy[flag],
         NEW stack \in Stacks, NEW i \in 1..(Len(stack) - 1), Throws(stack, i)
  PROVE  ByFlag(flag, Kind(stack, i + 1), Kind(stack, i))
<1>1. Kind(stack, i + 1) = "managed" /\ Kind(stack, i) = "Throw"
  BY CallerFrames DEF Throws
<1>2. calleeThrows[flag]
  BY DEF FlagsHold
<1>3. "managed" \notin Stubs
  BY DEF Stubs
<1> QED BY <1>1, <1>2, <1>3 DEF ByFlag

\* The stack pointer of the caller: the flag decides for code that throws.
LEMMA CallerRspTracks ==
  ASSUME ImagesOK, FunctionsOK, StacksOK, FramesOK, SectionsOK, WalkInv,
         NEW t \in Walkers, GetCallerRsp(t), Started => Started'
  PROVE  TrackInv'
<1> DEFINE v == walk[t]
           callee == Kind(v.stack, v.i)
           caller == Kind(v.stack, v.i + 1)
           flag == ByFlag("rsp", caller, callee)
           rsp == IF caller \in Stubs \/ callee = "Grow" \/ flag THEN v.fa + 16 ELSE v.fa + SpOffset(callee)
           pc == IF rsp # SP(v.stack, v.i + 1) THEN "lost" ELSE IF caller = "Throw" THEN "mark rsp" ELSE "fa"
           w == CallerSp(v, rsp, pc)
<1>1. /\ AtStep(t, "rsp") /\ SetWalk(t, w)
      /\ IF flag THEN TakeFlag(t, "rsp") ELSE UNCHANGED flagVars
  BY DEF GetCallerRsp, CallerSp
<1>2. v.pc = "rsp" /\ v.i < Len(v.stack)
  BY <1>1 DEF AtStep
<1>3. TrackHolds(t) /\ WalkHolds(t) /\ DOMAIN v = Fields /\ FlagsHold
  BY DEF WalkInv, TrackInv, LookupInv, WalkHolds
<1>4. /\ Started /\ v.bad = None
      /\ Unmet(t, mixed) => OnTrack(v, t, setBy)
  BY <1>2, <1>3 DEF TrackHolds
<1>5. v.stack \in Stacks /\ v.i \in 1..Len(v.stack)
  BY <1>2, <1>3 DEF WalkHolds
<1>6. v.i \in 1..(Len(v.stack) - 1)
  <2>1. Len(v.stack) \in Nat
    BY <1>5, StackFacts
  <2> QED BY <1>2, <1>5, <2>1
<1>7. pc \in {"lost", "mark rsp", "fa"}
  OBVIOUS
<1> HIDE DEF rsp, pc
<1>8. w.pc = pc /\ w.bad = None /\ w.stack = v.stack /\ w.i = v.i /\ w.fa = v.fa /\ w.status = v.status
  BY <1>3, <1>4, SpUpdate
<1> HIDE DEF w
<1>9. /\ FlagsHold' /\ OthersKept(t)
      /\ Unmet(t, mixed') => Unmet(t, mixed)
      /\ t \in setBy'["fa"] <=> t \in setBy["fa"]
      /\ flag /\ Unmet(t, mixed') => t \in setBy["rsp"]
      /\ IF flag THEN t \notin setBy'["rsp"] ELSE setBy' = setBy
  <2>0. "rsp" \in Flags /\ "fa" \in Flags
    BY DEF Flags
  <2>1. CASE flag
    BY <1>1, <1>3, <2>0, <2>1, FlagTaken
  <2>2. CASE ~flag
    BY <1>1, <1>3, <2>2, FlagsUnchanged
  <2> QED BY <2>1, <2>2
<1>10. ASSUME Unmet(t, mixed') PROVE pc # "lost" /\ OnTrack(w, t, setBy')
  <2>1. OnTrack(v, t, setBy)
    BY <1>4, <1>9, <1>10
  <2>2. /\ v.fa = FA(v.stack, v.i)
        /\ t \in setBy["rsp"] <=> Throws(v.stack, v.i)
        /\ v.status = "RISKY" <=> InC(v.stack, v.i)
        /\ t \in setBy["fa"] <=> Throws(v.stack, v.i)
    BY <1>2, <2>1 DEF OnTrack
  <2> HIDE DEF callee, caller, flag
  <2>3. flag => callee = "Throw"
    BY <1>9, <1>10, <2>2 DEF Throws, callee
  <2>4. rsp = SP(v.stack, v.i + 1)
    <3>1. /\ SP(v.stack, v.i + 1) = FA(v.stack, v.i) + SpOffset(callee)
          /\ caller \in Stubs \/ callee \in {"Grow", "Throw"} => SP(v.stack, v.i + 1) = FA(v.stack, v.i) + 16
      BY <1>5, <1>6, CallerFrames DEF callee, caller
    <3>2. caller \in Stubs \/ callee = "Grow" \/ flag => SP(v.stack, v.i + 1) = FA(v.stack, v.i) + 16
      BY <2>3, <3>1
    <3>3. v.fa = FA(v.stack, v.i)
      BY <2>2
    <3>4. rsp = IF caller \in Stubs \/ callee = "Grow" \/ flag THEN v.fa + 16 ELSE v.fa + SpOffset(callee)
      BY DEF rsp
    <3> HIDE DEF v
    <3> QED BY <3>1, <3>2, <3>3, <3>4
  <2>5. pc = IF caller = "Throw" THEN "mark rsp" ELSE "fa"
    BY <2>4 DEF pc
  <2>6. t \notin setBy'["rsp"]
    <3>1. CASE flag
      BY <1>9, <3>1
    <3>2. CASE ~flag
      <4>1. "rsp" \in Flags
        BY DEF Flags
      <4>2. ~(t \in setBy["rsp"])
        BY <1>3, <1>5, <1>6, <2>2, <3>2, <4>1, FlagWhenThrown DEF flag, callee, caller
      <4> QED BY <1>9, <3>2, <4>2
    <3> QED BY <3>1, <3>2
  <2>7. caller = "Throw" <=> Throws(v.stack, v.i + 1)
    BY DEF caller, Throws
  <2>8. OnTrack(w, t, setBy')
    BY <1>2, <1>8, <1>9, <2>2, <2>5, <2>6, <2>7 DEF OnTrack
  <2> QED BY <2>5, <2>8
<1> HIDE DEF v, flag
<1> QED BY <1>1, <1>4, <1>7, <1>8, <1>9, <1>10, WalkMoves DEF WalkInv

\* Each branch of GetCallerFrameInfo, where it applies.
LEMMA NextFrame ==
  ASSUME StacksOK, FramesOK, NEW stack \in Stacks, NEW i \in 1..(Len(stack) - 1)
  PROVE  LET callee == Kind(stack, i)  caller == Kind(stack, i + 1)
             f == FunctionOf(stack[i + 1])  fa == FA(stack, i)  next == FA(stack, i + 1) IN
           /\ f.kind = caller
           /\ caller \in Stubs => CallerFrameAddress(stack, i) = next
           /\ callee = "Throw" => fa + 16 = next
           /\ callee = "Grow" => fa + GrowSize = next
           /\ caller = "managed" /\ callee \notin {"Throw", "Grow"} => CallerFrameAddress(stack, i) + f.off = next
           /\ caller \notin Stubs \union {"managed"} => fa + SpOffset(callee) + GetStackOffset(f.codes) - 8 = next
<1> DEFINE k == i + 1
<1>1. k \in 1..Len(stack) /\ k - 1 = i
  BY StackFacts
<1>2. /\ Kind(stack, k) \in Stubs => Rbp(stack, k) = FA(stack, k)
      /\ Kind(stack, k) = "managed" /\ ~InPrologue(stack, k) => Rbp(stack, k) + FunctionOf(stack[k]).off = FA(stack, k)
      /\ Kind(stack, k) \notin Stubs \union {"managed"} =>
           SP(stack, k) + GetStackOffset(FunctionOf(stack[k]).codes) - 8 = FA(stack, k)
  BY <1>1, BodyFrames
<1>3. FunctionOf(stack[k]).kind = Kind(stack, k)
  BY <1>1, StackFacts
<1>4. InPrologue(stack, k) <=> Kind(stack, i) \in {"Throw", "Grow"}
  BY <1>1 DEF InPrologue
<1>5. /\ SP(stack, k) = FA(stack, i) + SpOffset(Kind(stack, i))
      /\ Kind(stack, i) = "Throw" => FA(stack, k) = FA(stack, i) + 16
      /\ Kind(stack, i) = "Grow" => FA(stack, k) = FA(stack, i) + GrowSize
  BY CallerFrames
<1>6. CallerFrameAddress(stack, i) = Rbp(stack, k)
  BY DEF CallerFrameAddress
<1> QED BY <1>2, <1>3, <1>4, <1>5, <1>6

\* The frame address of the caller, by the branch that fits both functions.
LEMMA CallerFrameTracks ==
  ASSUME ImagesOK, FunctionsOK, StacksOK, FramesOK, SectionsOK, WalkInv,
         NEW t \in Walkers, GetCallerFrameInfo(t), Started => Started'
  PROVE  TrackInv'
<1> DEFINE v == walk[t]
           callee == Kind(v.stack, v.i)
           function == FunctionOf(v.stack[v.i + 1])
           caller == function.kind
           flag == ByFlag("fa", caller, callee)
           status == CASE caller = "C2N" -> "RELIABLE" [] caller = "N2C" -> "RISKY" [] OTHER -> v.status
           runtime == IsRuntimeFrame(v.stack[v.i + 1])
           fa == CASE caller \in Stubs -> CallerFrameAddress(v.stack, v.i)
                   [] flag -> v.fa + 16
                   [] caller \notin Stubs /\ ~flag /\ callee = "Grow" -> v.fa + GrowSize
                   [] caller \notin Stubs /\ ~flag /\ callee # "Grow" ->
                        IF status # "RISKY" /\ ~runtime
                          THEN CallerFrameAddress(v.stack, v.i) + function.off
                          ELSE v.fa + SpOffset(callee) + GetStackOffset(function.codes) - 8
           pc == IF fa # FA(v.stack, v.i + 1) THEN "lost" ELSE IF caller = "Throw" THEN "mark fa" ELSE "rsp"
           w == CallerFrame(v, fa, status, pc)
<1>1. /\ AtStep(t, "fa") /\ SetWalk(t, w)
      /\ IF flag THEN TakeFlag(t, "fa") ELSE UNCHANGED flagVars
  BY DEF GetCallerFrameInfo, CallerFrame
<1>2. v.pc = "fa" /\ v.i < Len(v.stack) /\ Seeking(t)
  BY <1>1 DEF AtStep, Seeking
<1>3. TrackHolds(t) /\ WalkHolds(t) /\ DOMAIN v = Fields /\ FlagsHold
  BY DEF WalkInv, TrackInv, LookupInv, WalkHolds
<1>4. /\ Started /\ v.bad = None
      /\ Unmet(t, mixed) => OnTrack(v, t, setBy)
  BY <1>2, <1>3 DEF TrackHolds
<1>5. v.stack \in Stacks /\ v.i \in 1..Len(v.stack)
  BY <1>2, <1>3 DEF WalkHolds
<1>6. v.i \in 1..(Len(v.stack) - 1) /\ v.i \in Nat /\ v.i + 1 \in 1..Len(v.stack)
  <2>1. Len(v.stack) \in Nat
    BY <1>5, StackFacts
  <2> QED BY <1>2, <1>5, <2>1
<1>7. pc \in {"lost", "mark fa", "rsp"}
  OBVIOUS
<1>a. runtime <=> Kind(v.stack, v.i + 1) \notin {"managed", "c"}
  <2>1. \A k : k = v.i + 1 => k = IF v.pc = "cur" THEN 1 ELSE v.i + 1
    BY <1>2
  <2> QED BY <1>2, <1>3, <1>4, <2>1, RuntimeFrames DEF WalkInv
<1> HIDE DEF fa, status, pc, runtime
<1>8. w.pc = pc /\ w.bad = None /\ w.stack = v.stack /\ w.i = v.i + 1 /\ w.fa = fa /\ w.status = status
  BY <1>3, <1>4, FrameUpdate
<1> HIDE DEF w
<1>9. /\ FlagsHold' /\ OthersKept(t)
      /\ Unmet(t, mixed') => Unmet(t, mixed)
      /\ t \in setBy'["rsp"] <=> t \in setBy["rsp"]
      /\ flag /\ Unmet(t, mixed') => t \in setBy["fa"]
      /\ IF flag THEN t \notin setBy'["fa"] ELSE setBy' = setBy
  <2>0. "rsp" \in Flags /\ "fa" \in Flags
    BY DEF Flags
  <2>1. CASE flag
    BY <1>1, <1>3, <2>0, <2>1, FlagTaken
  <2>2. CASE ~flag
    BY <1>1, <1>3, <2>2, FlagsUnchanged
  <2> QED BY <2>1, <2>2
<1>10. ASSUME Unmet(t, mixed') PROVE pc # "lost" /\ OnTrack(w, t, setBy')
  <2>1. OnTrack(v, t, setBy)
    BY <1>4, <1>9, <1>10
  <2>2. /\ v.fa = FA(v.stack, v.i)
        /\ t \in setBy["rsp"] <=> Throws(v.stack, v.i + 1)
        /\ v.status = "RISKY" <=> InC(v.stack, v.i)
        /\ t \in setBy["fa"] <=> Throws(v.stack, v.i)
    BY <1>2, <2>1 DEF OnTrack
  <2>3. /\ caller = Kind(v.stack, v.i + 1)
        /\ caller \in Stubs => CallerFrameAddress(v.stack, v.i) = FA(v.stack, v.i + 1)
        /\ callee = "Throw" => v.fa + 16 = FA(v.stack, v.i + 1)
        /\ callee = "Grow" => v.fa + GrowSize = FA(v.stack, v.i + 1)
        /\ caller = "managed" /\ callee \notin {"Throw", "Grow"} =>
             CallerFrameAddress(v.stack, v.i) + function.off = FA(v.stack, v.i + 1)
        /\ caller \notin Stubs \union {"managed"} =>
             v.fa + SpOffset(callee) + GetStackOffset(function.codes) - 8 = FA(v.stack, v.i + 1)
    <3> DEFINE here == FA(v.stack, v.i)
               next == FA(v.stack, v.i + 1)
               offset == GetStackOffset(function.codes)
    <3>1. /\ caller = Kind(v.stack, v.i + 1)
          /\ caller \in Stubs => CallerFrameAddress(v.stack, v.i) = next
          /\ callee = "Throw" => here + 16 = next
          /\ callee = "Grow" => here + GrowSize = next
          /\ caller = "managed" /\ callee \notin {"Throw", "Grow"} =>
               CallerFrameAddress(v.stack, v.i) + function.off = next
          /\ caller \notin Stubs \union {"managed"} => here + SpOffset(callee) + offset - 8 = next
      <4> DEFINE stack == v.stack
                 i == v.i
      <4>1. stack \in Stacks /\ i \in 1..(Len(stack) - 1)
        BY <1>5, <1>6
      <4> HIDE DEF stack, i
      <4>2. LET f == FunctionOf(stack[i + 1]) IN
              /\ f.kind = Kind(stack, i + 1)
              /\ f.kind \in Stubs => CallerFrameAddress(stack, i) = FA(stack, i + 1)
              /\ Kind(stack, i) = "Throw" => FA(stack, i) + 16 = FA(stack, i + 1)
              /\ Kind(stack, i) = "Grow" => FA(stack, i) + GrowSize = FA(stack, i + 1)
              /\ f.kind = "managed" /\ Kind(stack, i) \notin {"Throw", "Grow"} =>
                   CallerFrameAddress(stack, i) + f.off = FA(stack, i + 1)
              /\ f.kind \notin Stubs \union {"managed"} =>
                   FA(stack, i) + SpOffset(Kind(stack, i)) + GetStackOffset(f.codes) - 8 = FA(stack, i + 1)
        BY <4>1, NextFrame
      <4> QED BY <4>2 DEF stack, i
    <3>2. v.fa = here
      BY <2>2
    <3> HIDE DEF here, v, callee, caller, function
    <3> QED BY <3>1, <3>2
  <2>4. flag => callee = "Throw"
    <3> HIDE DEF v, flag
    <3> QED BY <1>9, <1>10, <2>2 DEF Throws, callee
  <2>5. t \notin setBy'["fa"] /\ (callee = "Throw" => flag)
    <3> HIDE DEF flag
    <3>1. "fa" \in Flags
      BY DEF Flags
    <3>2. callee = "Throw" => flag
      <4> SUFFICES ASSUME callee = "Throw" PROVE flag
        OBVIOUS
      <4>1. Throws(v.stack, v.i) /\ t \in setBy["fa"]
        BY <2>2 DEF Throws
      <4>2. ByFlag("fa", Kind(v.stack, v.i + 1), Kind(v.stack, v.i))
        BY <1>3, <1>5, <1>6, <3>1, <4>1, FlagWhenThrown
      <4>3. caller = Kind(v.stack, v.i + 1)
        BY <2>3
      <4> HIDE DEF caller
      <4> QED BY <4>2, <4>3 DEF flag
    <3>3. callee = "Throw" <=> t \in setBy["fa"]
      BY <2>2 DEF Throws
    <3> QED BY <1>9, <3>2, <3>3
  <2>6. status = "RISKY" <=> InC(v.stack, v.i + 1)
    <3>1. InC(v.stack, v.i + 1) <=> \/ caller = "N2C"
                                    \/ caller # "C2N" /\ InC(v.stack, v.i)
      BY <1>6, <2>3, InCStep
    <3>2. v.status = "RISKY" <=> InC(v.stack, v.i)
      BY <2>2
    <3> HIDE DEF v, caller
    <3> QED BY <3>1, <3>2 DEF status
  <2>7. /\ caller = "managed" => ~InC(v.stack, v.i + 1)
        /\ caller = "c" => InC(v.stack, v.i + 1)
        /\ callee \in {"Throw", "Grow"} => caller = "managed"
    <3>1. Laid(v.stack) /\ (callee \in {"Throw", "Grow"} => Kind(v.stack, v.i + 1) = "managed")
      BY <1>5, <1>6, StacksAreLaid, CallerFrames
    <3> QED BY <1>6, <2>3, <3>1 DEF Laid
  <2>8. "managed" \notin Stubs
    BY DEF Stubs
  <2> DEFINE viaRbp == status # "RISKY" /\ ~runtime
  <2>9. caller \notin Stubs => (viaRbp <=> caller = "managed")
    <3> HIDE DEF v, caller
    <3> QED BY <1>a, <2>3, <2>6, <2>7
  <2>10. fa = FA(v.stack, v.i + 1)
    <3> DEFINE a == CallerFrameAddress(v.stack, v.i)
               next == FA(v.stack, v.i + 1)
               b == v.fa + 16
               c == v.fa + GrowSize
               d == a + function.off
               e == v.fa + SpOffset(callee) + GetStackOffset(function.codes) - 8
    <3>1. fa = CASE caller \in Stubs -> a
                 [] flag -> b
                 [] caller \notin Stubs /\ ~flag /\ callee = "Grow" -> c
                 [] caller \notin Stubs /\ ~flag /\ callee # "Grow" -> IF viaRbp THEN d ELSE e
      BY DEF fa
    <3>2. flag => caller \notin Stubs
      BY DEF ByFlag
    <3>3. /\ caller \in Stubs => a = next
          /\ callee = "Throw" => b = next
          /\ callee = "Grow" => c = next
          /\ caller = "managed" /\ callee \notin {"Throw", "Grow"} => d = next
          /\ caller \notin Stubs \union {"managed"} => e = next
      BY <2>3
    <3> HIDE DEF a, b, c, d, e, next, v, callee, caller, flag, viaRbp
    <3>4. CASE caller \in Stubs
      BY <3>1, <3>2, <3>3, <3>4 DEF next
    <3>5. CASE flag
      BY <2>4, <3>1, <3>2, <3>3, <3>5 DEF next
    <3>6. CASE caller \notin Stubs /\ ~flag /\ callee = "Grow"
      BY <3>1, <3>3, <3>6 DEF next
    <3>7. CASE caller \notin Stubs /\ ~flag /\ callee # "Grow"
      <4>1. callee # "Throw"
        BY <2>5, <3>7
      <4>2. fa = IF viaRbp THEN d ELSE e
        BY <3>1, <3>7
      <4>3. viaRbp <=> caller = "managed"
        BY <2>9, <3>7
      <4> QED BY <3>3, <3>7, <4>1, <4>2, <4>3 DEF next
    <3> QED BY <3>4, <3>5, <3>6, <3>7
  <2>11. pc = IF caller = "Throw" THEN "mark fa" ELSE "rsp"
    BY <2>10 DEF pc
  <2>12. caller = "Throw" <=> Throws(v.stack, v.i + 1)
    BY <2>3 DEF Throws
  <2>13. OnTrack(w, t, setBy')
    <3> HIDE DEF v, caller, callee, flag
    <3> QED BY <1>2, <1>8, <1>9, <2>2, <2>5, <2>6, <2>10, <2>11, <2>12 DEF OnTrack
  <2> QED BY <2>11, <2>13
<1> HIDE DEF v, flag
<1> QED BY <1>1, <1>4, <1>7, <1>8, <1>9, <1>10, WalkMoves DEF WalkInv

\* The caller that was found throws: its own callee is told by the flag.
LEMMA MarkTracks ==
  ASSUME TrackInv, LookupInv, NEW t \in Walkers, MarkThrow(t), Started => Started'
  PROVE  TrackInv'
<1>1. PICK flag \in Flags :
        /\ walk[t].pc = IF flag = "fa" THEN "mark fa" ELSE "mark rsp"
        /\ calleeThrows' = [calleeThrows EXCEPT ![flag] = TRUE]
        /\ setBy' = [setBy EXCEPT ![flag] = @ \union {t}]
        /\ SetWalk(t, Marked(walk[t], IF flag = "fa" THEN "rsp" ELSE "fa"))
        /\ mixed' = mixed
  BY DEF MarkThrow, Marked
<1> DEFINE v == walk[t]
           pc == IF flag = "fa" THEN "rsp" ELSE "fa"
           w == Marked(v, pc)
<1>2. flag \in {"rsp", "fa"}
  BY DEF Flags
<1>3. TrackHolds(t) /\ WalkHolds(t) /\ DOMAIN v = Fields /\ FlagsHold
  BY DEF TrackInv, LookupInv, WalkHolds
<1>4. /\ Started /\ v.bad = None
      /\ Unmet(t, mixed) => OnTrack(v, t, setBy)
  BY <1>1, <1>3 DEF TrackHolds
<1>5. w.pc = pc /\ w.bad = None /\ w.stack = v.stack /\ w.i = v.i /\ w.fa = v.fa /\ w.status = v.status
  BY <1>3, <1>4, MarkUpdate
<1>6. /\ FlagsHold' /\ OthersKept(t)
      /\ t \in setBy'[flag] /\ \A m \in Flags : m # flag => setBy'[m] = setBy[m]
  BY <1>1, <1>3, FlagMarked
<1> HIDE DEF w
<1>7. ASSUME Unmet(t, mixed') PROVE OnTrack(w, t, setBy')
  <2>1. OnTrack(v, t, setBy)
    BY <1>1, <1>4, <1>7
  <2> HIDE DEF v
  <2>2. CASE flag = "fa"
    <3>1. setBy'["rsp"] = setBy["rsp"] /\ t \in setBy'["fa"] /\ v.pc = "mark fa" /\ w.pc = "rsp"
      BY <1>1, <1>5, <1>6, <2>2 DEF Flags, v
    <3> QED BY <1>5, <2>1, <3>1 DEF OnTrack
  <2>3. CASE flag = "rsp"
    <3>1. setBy'["fa"] = setBy["fa"] /\ t \in setBy'["rsp"] /\ v.pc = "mark rsp" /\ w.pc = "fa"
      BY <1>1, <1>5, <1>6, <2>3 DEF Flags, v
    <3> QED BY <1>5, <2>1, <3>1 DEF OnTrack
  <2> QED BY <1>2, <2>2, <2>3
<1>8. SetWalk(t, w) /\ pc \in {"rsp", "fa"}
  BY <1>1 DEF w
<1> QED BY <1>4, <1>5, <1>6, <1>7, <1>8, WalkMoves

\* The images of the start stay.
LEMMA FixedStep ==
  ASSUME ImagesOK, LoaderInv, FixedHold, [Next]_vars
  PROVE  FixedHold'
<1>1. ImagesHold
  BY DEF LoaderInv
<1>2. \A n \in DOMAIN Fixed : Fixed[n] \in ToSet(Fixed)
  BY DEF ToSet
<1>3. CASE UNCHANGED images
  BY <1>3 DEF FixedHold, Mapped
<1>4. ASSUME NEW f \in Files, f \notin ToSet(Fixed), refs[f] > 0, FreeImage(f), platform' = platform
      PROVE  FixedHold'
  <2>1. \A i \in Mapped(images) : i.file # f => i \in Mapped(images')
    BY <1>1, <1>4, FreeKeeps
  <2>2. \A n \in DOMAIN Fixed : [file |-> Fixed[n], base |-> FixedBase[Fixed[n]]].file # f
    BY <1>2, <1>4
  <2> QED BY <2>1, <2>2 DEF FixedHold
<1>5. ASSUME NEW f \in Files, LoadImage(f), platform' = platform PROVE FixedHold'
  <2>1. Mapped(images) \subseteq Mapped(images')
    BY <1>1, <1>5, LoadKeeps
  <2> QED BY <2>1 DEF FixedHold
<1>6. CASE FindSections
  BY <1>3, <1>6, SectionsKeepPlatform DEF loaderVars
<1>7. CASE Images
  <2>1. ASSUME NEW f \in Files, UnloadBinaryFile(f) PROVE FixedHold'
    BY <1>4, <2>1 DEF UnloadBinaryFile
  <2>2. CASE Binaries
    <3>1. ASSUME NEW f \in Files, LoadBinaryFile(f) \/ LoadBinaryFileLinux(f) PROVE FixedHold'
      BY <1>5, <3>1 DEF LoadBinaryFile, LoadBinaryFileLinux
    <3>2. ASSUME NEW f \in Files, UnloadBinaryFileLinux(f) PROVE FixedHold'
      BY <1>4, <3>2 DEF UnloadBinaryFileLinux
    <3>3. ASSUME NEW a \in Addresses, Ask(a) PROVE UNCHANGED images
      BY <3>3 DEF Ask
    <3>4. IsValidAddress \/ GetBinaryInfoFromAddress \/ GetBinaryInfoFromAddressLinux \/ AnswerTaken
          => UNCHANGED images
      BY DEF IsValidAddress, GetBinaryInfoFromAddress, GetBinaryInfoFromAddressLinux, AnswerTaken, OnlyQuery
    <3>5. GetBinaryFilePath \/ GetSymbolName => UNCHANGED images
      BY DEF GetBinaryFilePath, GetSymbolName, GetModuleHandler, OnlyQuery
    <3> QED BY <1>3, <2>2, <3>1, <3>2, <3>3, <3>4, <3>5 DEF Binaries
  <2> QED BY <1>7, <2>1, <2>2 DEF Images
<1>8. ASSUME NEW t \in Walkers, Walking(t) PROVE FixedHold'
  BY <1>3, <1>8, WalkingKeepsLoader DEF loaderVars
<1>9. CASE UNCHANGED vars
  BY <1>3, <1>9 DEF vars, loaderVars
<1> QED BY <1>6, <1>7, <1>8, <1>9 DEF Next

\* One step of anybody.
LEMMA TrackStep ==
  ASSUME ImagesOK, FunctionsOK, StacksOK, FramesOK, SectionsOK, WalkInv, [Next]_vars
  PROVE  TrackInv'
<1>1. Started => Started'
  BY StartedStays
<1>2. LoaderInv /\ LookupInv /\ TrackInv
  BY DEF WalkInv
<1>3. CASE UNCHANGED walkVars
  BY <1>1, <1>2, <1>3, WalksUnchanged DEF walkVars
<1>4. FindSections \/ Images \/ UNCHANGED vars => UNCHANGED walkVars
  BY DEF FindSections, Images, vars
<1>5. ASSUME NEW t \in Walkers, Walking(t) PROVE TrackInv'
  <2>1. ASSUME NEW stack \in Stacks, StartWalk(t, stack) PROVE TrackInv'
    <3>1. Started
      BY <2>1 DEF StartWalk
    <3> QED BY <1>1, <1>2, <2>1, <3>1, StartTracks
  <2>2. CASE StopWalk(t)
    <3>1. walk[t].pc = "rsp"
      BY <2>2 DEF StopWalk
    <3>2. Started
      BY <1>2, <3>1 DEF TrackInv, TrackHolds
    <3> QED BY <1>1, <1>2, <2>2, <3>2, StopTracks
  <2>3. CASE NotFound(t)
    BY <1>1, <1>2, <2>3, NotFoundTracks
  <2>4. CASE WrongRecord(t)
    BY <1>1, <1>2, <2>4, WrongRecordTracks
  <2>5. CASE Refresh(t)
    BY <1>3, <2>5 DEF Refresh
  <2>6. CASE GetCurFrameInfo(t)
    BY <1>1, <2>6, CurFrameTracks
  <2>7. CASE GetCallerFrameInfo(t)
    BY <1>1, <2>7, CallerFrameTracks
  <2>8. CASE GetCallerRsp(t)
    BY <1>1, <2>8, CallerRspTracks
  <2>9. CASE MarkThrow(t)
    BY <1>1, <1>2, <2>9, MarkTracks
  <2> QED BY <1>5, <2>1, <2>2, <2>3, <2>4, <2>5, <2>6, <2>7, <2>8, <2>9 DEF Walking
<1> QED BY <1>3, <1>4, <1>5 DEF Next

LEMMA TrackStarts == ASSUME Init PROVE TrackInv /\ FixedHold
<1>1. /\ walk = [t \in Walkers |-> NoWalk] /\ calleeThrows = [m \in Flags |-> FALSE]
      /\ setBy = [m \in Flags |-> {}]
      /\ images = [n \in DOMAIN Fixed |-> [file |-> Fixed[n], base |-> FixedBase[Fixed[n]]]]
  BY DEF Init, LoaderInit
<1>2. NoWalk.pc = "idle" /\ NoWalk.bad = None
  BY DEF NoWalk
<1>3. FlagsHold
  BY <1>1 DEF FlagsHold
<1>4. \A t \in Walkers : TrackHolds(t)
  BY <1>1, <1>2 DEF TrackHolds
<1>5. FixedHold
  BY <1>1 DEF FixedHold, Mapped
<1> QED BY <1>3, <1>4, <1>5 DEF TrackInv

\* Every walk that met only its own flag and right records is on track: its
\* frame address is the one compiled code left, it knows whether the thread
\* runs in C, and the flags it set are those of the frames that throw
\* (UnwindWin.cpp:76-240).
THEOREM WalksHold == Spec => [](FixedHold /\ TrackInv)
<1>1. Init => FixedHold /\ TrackInv
  BY TrackStarts
<1>2. LoaderInv /\ LookupInv /\ SectionInv /\ FixedHold /\ TrackInv /\ [Next]_vars => FixedHold' /\ TrackInv'
  BY TrackStep, FixedStep, ImagesOK, FunctionsOK, StacksOK, FramesOK, SectionsOK DEF WalkInv
<1>3. Init => LookupInv
  BY LookupStarts
<1>4. LoaderInv /\ LookupInv /\ [Next]_vars => LookupInv'
  BY LookupStep
<1> QED BY <1>1, <1>2, <1>3, <1>4, LoaderHolds, SectionsHold, PTL DEF Spec

\* A walk whose every lookup found the right record gets each frame address
\* and stack pointer right, through stubs, stack overflow and growth, whatever
\* the stacks, the images and the prologues (UnwindWin.cpp:76-240).
THEOREM WalksAreExact == Spec => []WalkIsExact
<1>1. TrackInv => WalkIsExact
  BY DEF TrackInv, TrackHolds, Unmet, OnTrack, WalkIsExact, Exact
<1> QED BY <1>1, WalksHold, PTL

=============================================================================
