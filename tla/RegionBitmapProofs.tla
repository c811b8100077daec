------------------------- MODULE RegionBitmapProofs -------------------------
(***************************************************************************)
(* Marking is right for any region, any layout of objects and any number   *)
(* of markers: one marker wins each object, the debug build's CheckZero    *)
(* finds the words it expects to be clear, the counters are exact, and     *)
(* GetPreLiveBytes is right behind the first part.                         *)
(*                                                                         *)
(* The argument: objects do not overlap, and MarkBits sets bits of its own *)
(* object only, whatever words they share.  So the first bit of an object  *)
(* tells whether it is marked, the bits of a word below tell how far its   *)
(* winner has come, and a fetch-or for one object is nothing to another.   *)
(* Every bit is therefore set by one fetch-or, which its marker counts     *)
(* once: the counters, sums over the markers, words and objects, follow.   *)
(***************************************************************************)
EXTENDS RegionBitmap, FiniteSetTheorems, WellFoundedInduction, TLAPS

\* Where an object ends, and what it covers, in a layout S.
EndIn(S, o) == Min({s \in S : s > o} \cup {Bits})
Extent(S, o) == o .. EndIn(S, o) - 1

HeadBits(o) == {headWordIdx(o) * WordBits + b : b \in headMaskBits(o)}
TailBits(o, w) == {w * WordBits + b : b \in tailMaskBits(o, w)}

LastWordIn(S, o) ==
    headWordIdx(o)
      + (Max({EndIn(S, o) - o - headBitCnt(o), 0}) + WordBits - 1) \div WordBits

-----------------------------------------------------------------------------
(* Arithmetic *)

\* Quotient and remainder by a variable number.
LEMMA DivMod ==
  ASSUME NEW a \in Nat, NEW b \in Nat \ {0}
  PROVE  /\ a \div b \in Nat
         /\ a % b \in 0 .. b - 1
         /\ a = (a \div b) * b + (a % b)
OBVIOUS

\* A multiple is a whole step above every smaller one.
LEMMA Multiples ==
  ASSUME NEW a \in Nat, NEW c \in Nat, NEW b \in Nat \ {0}, a < c
  PROVE  /\ a * b \in Nat
         /\ c * b \in Nat
         /\ a * b + b <= c * b
OBVIOUS

\* A set of natural numbers has a least element.
LEMMA LeastElement ==
  ASSUME NEW S \in SUBSET Nat, S # {}
  PROVE  \E x \in S : \A y \in S : x <= y
<1> DEFINE R == OpToRel(<, Nat)
<1>1. IsWellFoundedOn(R, Nat)
  BY NatLessThanWellFounded
<1>2. PICK x \in S : \A y \in S : ~ (<<y, x>> \in R)
  <2> HIDE DEF R
  <2> QED
    BY <1>1, WFMin
<1>3. \A y \in S : y < x => <<y, x>> \in R
  BY DEF OpToRel
<1> HIDE DEF R
<1>4. \A y \in S : ~ (y < x)
  BY <1>2, <1>3
<1> QED
  BY <1>4

\* The sizes of the region are positive.
LEMMA Sizes == WordBits \in Nat \ {0} /\ Words \in Nat \ {0} /\ Bits \in Nat \ {0}
<1>1. WordBits \in Nat \ {0} /\ Words \in Nat \ {0}
  BY SizeAssumption
<1>2. Words * WordBits \in Nat /\ 0 * WordBits + WordBits <= Words * WordBits
  BY <1>1, Multiples
<1> QED
  BY <1>1, <1>2 DEF Bits

-----------------------------------------------------------------------------
(***************************************************************************)
(* Sums over finite sets.  The fold SumFunctionOnSet stands for is the     *)
(* value at S of a function defined by recursion over the subsets of S.    *)
(* That this function exists, and that the order of summation does not     *)
(* matter, is shown by looking at a least counterexample.                  *)
(***************************************************************************)
One(s) == CHOOSE x \in s : TRUE

\* The recursive function behind the sum of f over S.
IsIter(it, f, S) ==
    it = [s \in SUBSET S |-> IF s = {} THEN 0 ELSE f[One(s)] + it[s \ {One(s)}]]
Iter(f, S) == CHOOSE it : IsIter(it, f, S)

LEMMA SumIsIter ==
  ASSUME NEW f, NEW S
  PROVE  SumFunctionOnSet(f, S) = Iter(f, S)[S]
BY DEF SumFunctionOnSet, FoldFunctionOnSet, MapThenFoldSet, Iter, IsIter, One

\* A nonempty finite set is one larger than without its chosen element.
LEMMA OneLess ==
  ASSUME NEW S, IsFiniteSet(S), NEW x \in S
  PROVE  /\ IsFiniteSet(S \ {x}) /\ Cardinality(S) \in Nat
         /\ Cardinality(S \ {x}) \in Nat
         /\ Cardinality(S) = Cardinality(S \ {x}) + 1
BY FS_RemoveElement, FS_CardinalityType

LEMMA OneIn ==
  ASSUME NEW S, S # {}
  PROVE  One(S) \in S
BY DEF One

\* Among finite sets with a property there is one of least cardinality.
\* The family is given as a set of sets.
LEMMA LeastSet ==
  ASSUME NEW F, F # {}, \A s \in F : IsFiniteSet(s)
  PROVE  \E s \in F : \A t \in F : Cardinality(s) <= Cardinality(t)
<1> DEFINE N == {Cardinality(s) : s \in F}
<1>1. N \in SUBSET Nat /\ N # {}
  BY FS_CardinalityType
<1>2. PICK n \in N : \A k \in N : n <= k
  <2> HIDE DEF N
  <2> QED BY <1>1, LeastElement
<1> QED
  BY <1>2

\* Two such functions agree where both are defined.
LEMMA IterUnique ==
  ASSUME NEW f, NEW S, NEW T, IsFiniteSet(T), T \subseteq S,
         NEW a, IsIter(a, f, S), NEW b, IsIter(b, f, T)
  PROVE  \A s \in SUBSET T : a[s] = b[s]
<1> DEFINE F == {s \in SUBSET T : a[s] # b[s]}
<1> SUFFICES ASSUME F # {}
             PROVE  FALSE
  OBVIOUS
<1>1. \A s \in F : IsFiniteSet(s)
  BY FS_Subset
<1>2. PICK s \in F : \A t \in F : Cardinality(s) <= Cardinality(t)
  <2> HIDE DEF F
  <2> QED BY <1>1, LeastSet
<1>3. s \subseteq T /\ s \subseteq S /\ a[s] # b[s]
  OBVIOUS
<1>4. /\ a[s] = IF s = {} THEN 0 ELSE f[One(s)] + a[s \ {One(s)}]
      /\ b[s] = IF s = {} THEN 0 ELSE f[One(s)] + b[s \ {One(s)}]
  BY <1>3 DEF IsIter
<1>5. s # {}
  BY <1>3, <1>4
<1> DEFINE t == s \ {One(s)}
<1>6. t \subseteq T /\ Cardinality(s) = Cardinality(t) + 1 /\ Cardinality(t) \in Nat
  BY <1>1, <1>3, <1>5, OneIn, OneLess
<1>7. t \notin F
  <2> HIDE DEF F, t
  <2> QED BY <1>2, <1>6
<1>8. a[t] = b[t]
  BY <1>6, <1>7
<1> QED
  BY <1>3, <1>4, <1>5, <1>8

\* And there is one for every finite set.
LEMMA IterExists ==
  ASSUME NEW f, NEW S, IsFiniteSet(S)
  PROVE  IsIter(Iter(f, S), f, S)
<1> SUFFICES \E it : IsIter(it, f, S)
  BY DEF Iter
<1> DEFINE F == {s \in SUBSET S : ~ \E it : IsIter(it, f, s)}
<1>1. \A s \in SUBSET S : IsFiniteSet(s)
  BY FS_Subset
<1> SUFFICES ASSUME F # {}
             PROVE  FALSE
  OBVIOUS
<1>2. PICK s \in F : \A t \in F : Cardinality(s) <= Cardinality(t)
  <2> HIDE DEF F
  <2>1. \A t \in F : IsFiniteSet(t)
    BY <1>1 DEF F
  <2> QED BY <2>1, LeastSet
<1>3. s \subseteq S /\ ~ \E it : IsIter(it, f, s)
  OBVIOUS
<1> HIDE DEF F
<1>4. ASSUME NEW t \in SUBSET s, t # s
      PROVE  IsFiniteSet(t) /\ IsIter(Iter(f, t), f, t)
  <2>1. PICK x \in s : x \notin t
    BY <1>4
  <2>2. t \subseteq s \ {x} /\ IsFiniteSet(s \ {x})
    BY <1>1, <1>3, <1>4, <2>1
  <2>3. Cardinality(t) <= Cardinality(s \ {x}) /\ IsFiniteSet(t) /\ Cardinality(t) \in Nat
    BY <2>2, FS_Subset, FS_CardinalityType
  <2>4. Cardinality(s) = Cardinality(s \ {x}) + 1 /\ Cardinality(s \ {x}) \in Nat
    BY <1>1, <1>3, <2>1, OneLess
  <2>5. t \notin F
    BY <1>2, <2>3, <2>4
  <2>6. \E it : IsIter(it, f, t)
    BY <1>3, <1>4, <2>5 DEF F
  <2> QED BY <2>3, <2>6 DEF Iter
<1> DEFINE less(t) == t \ {One(t)}
           it == [t \in SUBSET s |-> IF t = {} THEN 0 ELSE f[One(t)] + Iter(f, less(t))[less(t)]]
<1>5. ASSUME NEW t \in SUBSET s, t # {}
      PROVE  it[less(t)] = Iter(f, less(t))[less(t)]
  <2> DEFINE u == less(t)
  <2>1. u \in SUBSET s /\ u # s
    BY <1>5, OneIn
  <2>2. IsFiniteSet(u) /\ IsIter(Iter(f, u), f, u)
    <3> HIDE DEF u
    <3> QED BY <1>4, <2>1
  <2>3. Iter(f, u)[u] = IF u = {} THEN 0 ELSE f[One(u)] + Iter(f, u)[less(u)]
    <3> HIDE DEF u
    <3> QED BY <2>2 DEF IsIter
  <2>4. it[u] = IF u = {} THEN 0 ELSE f[One(u)] + Iter(f, less(u))[less(u)]
    <3> HIDE DEF u, less
    <3> QED BY <2>1
  <2>5. u # {} => Iter(f, u)[less(u)] = Iter(f, less(u))[less(u)]
    <3> SUFFICES ASSUME u # {}
                 PROVE  Iter(f, u)[less(u)] = Iter(f, less(u))[less(u)]
      OBVIOUS
    <3> HIDE DEF u
    <3>1. less(u) \subseteq u /\ less(u) \in SUBSET s /\ less(u) # s
      BY <2>1, OneIn
    <3> HIDE DEF less
    <3>2. IsFiniteSet(less(u)) /\ IsIter(Iter(f, less(u)), f, less(u))
      BY <1>4, <3>1
    <3> QED BY <2>2, <3>1, <3>2, IterUnique
  <2> QED BY <2>3, <2>4, <2>5
<1>6. IsIter(it, f, s)
  <2> HIDE DEF it
  <2>1. it = [t \in SUBSET s |-> IF t = {} THEN 0 ELSE f[One(t)] + it[less(t)]]
    <3>1. \A t \in SUBSET s : (IF t = {} THEN 0 ELSE f[One(t)] + Iter(f, less(t))[less(t)])
                              = (IF t = {} THEN 0 ELSE f[One(t)] + it[less(t)])
      BY <1>5
    <3> HIDE DEF less
    <3> QED BY <3>1 DEF it
  <2> QED BY <2>1 DEF IsIter
<1> QED
  BY <1>3, <1>6

\* The sum over a finite set is that of one element and of the others.
LEMMA SumOne ==
  ASSUME NEW f, NEW S, IsFiniteSet(S)
  PROVE  SumFunctionOnSet(f, S) =
           IF S = {} THEN 0 ELSE f[One(S)] + SumFunctionOnSet(f, S \ {One(S)})
<1>1. IsIter(Iter(f, S), f, S)
  BY IterExists
<1>2. Iter(f, S)[S] = IF S = {} THEN 0 ELSE f[One(S)] + Iter(f, S)[S \ {One(S)}]
  BY <1>1 DEF IsIter
<1>3. ASSUME S # {}
      PROVE  Iter(f, S)[S \ {One(S)}] = Iter(f, S \ {One(S)})[S \ {One(S)}]
  <2> DEFINE T == S \ {One(S)}
  <2>1. T \subseteq S /\ IsFiniteSet(T)
    BY FS_Subset
  <2>2. IsIter(Iter(f, T), f, T)
    <3> HIDE DEF T
    <3> QED BY <2>1, IterExists
  <2> HIDE DEF T
  <2>3. Iter(f, S)[T] = Iter(f, T)[T]
    BY <1>1, <2>1, <2>2, IterUnique
  <2> QED BY <2>3 DEF T
<1> QED
  BY <1>2, <1>3, SumIsIter

\* A sum of natural numbers is one.
LEMMA SumNat ==
  ASSUME NEW f, NEW S, IsFiniteSet(S), \A x \in S : f[x] \in Nat
  PROVE  SumFunctionOnSet(f, S) \in Nat
<1> DEFINE F == {s \in SUBSET S : SumFunctionOnSet(f, s) \notin Nat}
<1> SUFFICES ASSUME F # {}
             PROVE  FALSE
  OBVIOUS
<1>1. \A s \in SUBSET S : IsFiniteSet(s)
  BY FS_Subset
<1>2. PICK s \in F : \A t \in F : Cardinality(s) <= Cardinality(t)
  <2> HIDE DEF F
  <2>1. \A t \in F : IsFiniteSet(t)
    BY <1>1 DEF F
  <2> QED BY <2>1, LeastSet
<1>3. s \subseteq S /\ IsFiniteSet(s)
  BY <1>1
<1>4. s # {}
  <2>1. s = {} => SumFunctionOnSet(f, s) = 0
    BY <1>3, SumOne
  <2> QED BY <2>1
<1> DEFINE t == s \ {One(s)}
<1>5. t \subseteq S /\ Cardinality(s) = Cardinality(t) + 1 /\ Cardinality(t) \in Nat /\ One(s) \in S
  BY <1>3, <1>4, OneIn, OneLess
<1>6. SumFunctionOnSet(f, t) \in Nat
  <2>1. t \notin F
    <3> HIDE DEF F, t
    <3> QED BY <1>2, <1>5
  <2> QED BY <1>5, <2>1
<1>7. SumFunctionOnSet(f, s) = f[One(s)] + SumFunctionOnSet(f, t)
  BY <1>3, <1>4, SumOne
<1> HIDE DEF t
<1> QED
  BY <1>5, <1>6, <1>7

\* Whichever element is taken out, it is what the sum loses.
LEMMA SumRemove ==
  ASSUME NEW f, NEW S, IsFiniteSet(S), \A x \in S : f[x] \in Nat, NEW x \in S
  PROVE  SumFunctionOnSet(f, S) = f[x] + SumFunctionOnSet(f, S \ {x})
<1> DEFINE F == {s \in SUBSET S : \E y \in s :
                   SumFunctionOnSet(f, s) # f[y] + SumFunctionOnSet(f, s \ {y})}
<1> SUFFICES ASSUME F # {}
             PROVE  FALSE
  OBVIOUS
<1>1. \A s \in SUBSET S : IsFiniteSet(s)
  BY FS_Subset
<1>2. PICK s \in F : \A t \in F : Cardinality(s) <= Cardinality(t)
  <2> HIDE DEF F
  <2>1. \A t \in F : IsFiniteSet(t)
    BY <1>1 DEF F
  <2> QED BY <2>1, LeastSet
<1>3. s \subseteq S /\ IsFiniteSet(s)
  BY <1>1
<1>4. PICK y \in s : SumFunctionOnSet(f, s) # f[y] + SumFunctionOnSet(f, s \ {y})
  OBVIOUS
<1> DEFINE z == One(s)
<1>5. z \in s /\ s # {} /\ SumFunctionOnSet(f, s) = f[z] + SumFunctionOnSet(f, s \ {z})
  BY <1>3, <1>4, SumOne, OneIn
<1> HIDE DEF z
<1>6. y # z
  BY <1>4, <1>5
<1>7. ASSUME NEW v \in s, NEW w \in s, v # w
      PROVE  SumFunctionOnSet(f, s \ {v}) = f[w] + SumFunctionOnSet(f, s \ {v, w})
  <2>1. Cardinality(s) = Cardinality(s \ {v}) + 1 /\ Cardinality(s \ {v}) \in Nat
    BY <1>3, OneLess
  <2>2. s \ {v} \notin F
    <3> HIDE DEF F
    <3> QED BY <1>2, <2>1
  <2>3. w \in s \ {v} /\ s \ {v} \in SUBSET S /\ (s \ {v}) \ {w} = s \ {v, w}
    BY <1>3, <1>7
  <2> QED BY <2>2, <2>3
<1>8. /\ SumFunctionOnSet(f, s \ {y}) = f[z] + SumFunctionOnSet(f, s \ {y, z})
      /\ SumFunctionOnSet(f, s \ {z}) = f[y] + SumFunctionOnSet(f, s \ {y, z})
  <2>1. s \ {z, y} = s \ {y, z}
    OBVIOUS
  <2> HIDE DEF F
  <2> QED BY <1>5, <1>6, <1>7, <2>1
<1>9. SumFunctionOnSet(f, s \ {y, z}) \in Nat /\ f[y] \in Nat /\ f[z] \in Nat
  <2>1. s \ {y, z} \in SUBSET S
    BY <1>3
  <2> HIDE DEF F
  <2> QED BY <1>1, <1>3, <1>5, <2>1, SumNat
<1> QED
  BY <1>4, <1>5, <1>8, <1>9

\* A new element is added.
LEMMA SumAdd ==
  ASSUME NEW f, NEW S, IsFiniteSet(S), \A y \in S : f[y] \in Nat, NEW x, x \notin S, f[x] \in Nat
  PROVE  SumFunctionOnSet(f, S \cup {x}) = f[x] + SumFunctionOnSet(f, S)
<1> DEFINE T == S \cup {x}
<1>1. IsFiniteSet(T) /\ x \in T /\ T \ {x} = S /\ \A y \in T : f[y] \in Nat
  BY FS_AddElement
<1> HIDE DEF T
<1>2. SumFunctionOnSet(f, T) = f[x] + SumFunctionOnSet(f, T \ {x})
  BY <1>1, SumRemove
<1> QED
  BY <1>1, <1>2 DEF T

\* The sum depends on the values at the summands only.
LEMMA SumAgree ==
  ASSUME NEW f, NEW g, NEW S, IsFiniteSet(S), \A x \in S : f[x] = g[x]
  PROVE  SumFunctionOnSet(f, S) = SumFunctionOnSet(g, S)
<1> DEFINE F == {s \in SUBSET S : SumFunctionOnSet(f, s) # SumFunctionOnSet(g, s)}
<1> SUFFICES ASSUME F # {}
             PROVE  FALSE
  OBVIOUS
<1>1. \A s \in SUBSET S : IsFiniteSet(s)
  BY FS_Subset
<1>2. PICK s \in F : \A t \in F : Cardinality(s) <= Cardinality(t)
  <2> HIDE DEF F
  <2>1. \A t \in F : IsFiniteSet(t)
    BY <1>1 DEF F
  <2> QED BY <2>1, LeastSet
<1>3. s \subseteq S /\ IsFiniteSet(s) /\ SumFunctionOnSet(f, s) # SumFunctionOnSet(g, s)
  BY <1>1
<1>4. s # {}
  BY <1>3, SumOne
<1> DEFINE t == s \ {One(s)}
<1>5. t \subseteq S /\ Cardinality(s) = Cardinality(t) + 1 /\ Cardinality(t) \in Nat /\ One(s) \in S
  BY <1>3, <1>4, OneIn, OneLess
<1>6. SumFunctionOnSet(f, t) = SumFunctionOnSet(g, t)
  <2>1. t \notin F
    <3> HIDE DEF F, t
    <3> QED BY <1>2, <1>5
  <2> QED BY <1>5, <2>1
<1>7. SumFunctionOnSet(f, s) = f[One(s)] + SumFunctionOnSet(f, t)
      /\ SumFunctionOnSet(g, s) = g[One(s)] + SumFunctionOnSet(g, t)
  BY <1>3, <1>4, SumOne
<1> HIDE DEF t
<1> QED
  BY <1>3, <1>5, <1>6, <1>7

\* One summand changes.
LEMMA SumChange ==
  ASSUME NEW f, NEW g, NEW S, IsFiniteSet(S), \A y \in S : f[y] \in Nat, NEW x \in S,
         g[x] \in Nat, \A y \in S \ {x} : g[y] = f[y]
  PROVE  SumFunctionOnSet(g, S) + f[x] = SumFunctionOnSet(f, S) + g[x]
<1> DEFINE T == S \ {x}
           a == SumFunctionOnSet(f, T)
<1>1. IsFiniteSet(T) /\ \A y \in S : g[y] \in Nat
  BY FS_Subset
<1>2. SumFunctionOnSet(f, S) = f[x] + a /\ SumFunctionOnSet(g, S) = g[x] + SumFunctionOnSet(g, T)
  BY <1>1, SumRemove
<1>3. SumFunctionOnSet(g, T) = a
  BY <1>1, SumAgree
<1>4. a \in Nat
  BY <1>1, SumNat
<1> HIDE DEF a, T
<1> QED
  BY <1>2, <1>3, <1>4

\* No summand is more than the sum.
LEMMA SumAtLeast ==
  ASSUME NEW f, NEW S, IsFiniteSet(S), \A y \in S : f[y] \in Nat, NEW x \in S
  PROVE  f[x] <= SumFunctionOnSet(f, S)
<1> DEFINE a == SumFunctionOnSet(f, S \ {x})
<1>1. a \in Nat
  BY SumNat, FS_Subset
<1>2. SumFunctionOnSet(f, S) = f[x] + a
  BY SumRemove
<1> HIDE DEF a
<1> QED
  BY <1>1, <1>2

\* A disjoint union has as many elements as its parts together.
LEMMA SumOfParts ==
  ASSUME NEW S, IsFiniteSet(S), NEW P, NEW c,
         \A x \in S : IsFiniteSet(P[x]) /\ c[x] = Cardinality(P[x]),
         \A x, y \in S : x # y => P[x] \cap P[y] = {}
  PROVE  /\ IsFiniteSet(UNION {P[x] : x \in S})
         /\ Cardinality(UNION {P[x] : x \in S}) = SumFunctionOnSet(c, S)
<1> DEFINE Together(s) == UNION {P[x] : x \in s}
           F == {s \in SUBSET S : ~ (/\ IsFiniteSet(Together(s))
                                     /\ Cardinality(Together(s)) = SumFunctionOnSet(c, s))}
<1> SUFFICES ASSUME F # {}
             PROVE  FALSE
  OBVIOUS
<1>1. \A s \in SUBSET S : IsFiniteSet(s)
  BY FS_Subset
<1>2. PICK s \in F : \A t \in F : Cardinality(s) <= Cardinality(t)
  <2> HIDE DEF F
  <2>1. \A t \in F : IsFiniteSet(t)
    BY <1>1 DEF F
  <2> QED BY <2>1, LeastSet
<1>3. s \subseteq S /\ IsFiniteSet(s)
      /\ ~ (/\ IsFiniteSet(Together(s)) /\ Cardinality(Together(s)) = SumFunctionOnSet(c, s))
  BY <1>1
<1>4. s # {}
  <2>1. ASSUME s = {}
        PROVE  IsFiniteSet(Together(s)) /\ Cardinality(Together(s)) = SumFunctionOnSet(c, s)
    <3>1. Together(s) = {}
      BY <2>1
    <3>2. SumFunctionOnSet(c, s) = 0
      BY <1>3, <2>1, SumOne
    <3> HIDE DEF Together
    <3> QED BY <3>1, <3>2, FS_EmptySet
  <2> QED BY <1>3, <2>1
<1> DEFINE x == One(s)
           t == s \ {x}
<1>5. t \subseteq S /\ Cardinality(s) = Cardinality(t) + 1 /\ Cardinality(t) \in Nat
      /\ x \in S /\ x \in s
  BY <1>3, <1>4, OneIn, OneLess
<1>6. IsFiniteSet(Together(t)) /\ Cardinality(Together(t)) = SumFunctionOnSet(c, t)
  <2>1. t \notin F
    <3> HIDE DEF F, t
    <3> QED BY <1>2, <1>5
  <2> HIDE DEF Together
  <2> QED BY <1>5, <2>1
<1>7. SumFunctionOnSet(c, s) = c[x] + SumFunctionOnSet(c, t)
  BY <1>3, <1>4, SumOne
<1>8. Together(s) = Together(t) \cup P[x] /\ Together(t) \cap P[x] = {}
  <2>1. s = t \cup {x} /\ x \notin t
    BY <1>5
  <2> HIDE DEF t, x
  <2>2. Together(s) = Together(t) \cup P[x]
    BY <2>1
  <2>3. \A y \in t : P[y] \cap P[x] = {}
    BY <1>5, <2>1
  <2> QED BY <2>2, <2>3
<1>9. IsFiniteSet(P[x]) /\ c[x] = Cardinality(P[x])
  BY <1>5
<1> HIDE DEF Together, F, t, x
<1>10. /\ IsFiniteSet(Together(s))
       /\ Cardinality(Together(s)) = Cardinality(Together(t)) + Cardinality(P[x]) - Cardinality({})
  BY <1>6, <1>8, <1>9, FS_Union
<1>11. Cardinality({}) = 0 /\ Cardinality(Together(t)) \in Nat /\ Cardinality(P[x]) \in Nat
  BY <1>6, <1>9, FS_EmptySet, FS_CardinalityType
<1> QED
  BY <1>3, <1>6, <1>7, <1>9, <1>10, <1>11

\* A sum of nothing is nothing.
LEMMA SumZero ==
  ASSUME NEW f, NEW S, IsFiniteSet(S), \A x \in S : f[x] = 0
  PROVE  SumFunctionOnSet(f, S) = 0
<1> DEFINE P == [x \in S |-> {}]
<1>1. \A x \in S : IsFiniteSet(P[x]) /\ f[x] = Cardinality(P[x])
  BY FS_EmptySet
<1>2. \A x, y \in S : x # y => P[x] \cap P[y] = {}
  OBVIOUS
<1>3. UNION {P[x] : x \in S} = {}
  OBVIOUS
<1> HIDE DEF P
<1>4. Cardinality(UNION {P[x] : x \in S}) = SumFunctionOnSet(f, S)
  BY <1>1, <1>2, SumOfParts
<1> QED
  BY <1>3, <1>4, FS_EmptySet

-----------------------------------------------------------------------------
(* Objects *)

\* An object is not empty, and ends in the region and before the next one.
LEMMA ObjectEnds ==
  ASSUME NEW S \in SUBSET (0 .. Bits - 1), NEW o \in S
  PROVE  /\ EndIn(S, o) \in Nat
         /\ o < EndIn(S, o) /\ EndIn(S, o) <= Bits
         /\ \A p \in S : p > o => EndIn(S, o) <= p
<1> DEFINE T == {s \in S : s > o} \cup {Bits}
<1>1. T \in SUBSET Nat /\ Bits \in T /\ \A t \in T : t > o
  <2>1. Bits \in Nat \ {0} /\ o \in 0 .. Bits - 1
    BY Sizes
  <2>2. \A t \in T : t = Bits \/ (t \in 0 .. Bits - 1 /\ t > o)
    OBVIOUS
  <2>3. \A t \in T : t \in Nat /\ t > o
    BY <2>1, <2>2
  <2> QED
    BY <2>3
<1> HIDE DEF T
<1>2. \E x \in T : \A y \in T : x <= y
  BY <1>1, LeastElement
<1>3. Min(T) \in T /\ \A y \in T : Min(T) <= y
  BY <1>2 DEF Min
<1>4. EndIn(S, o) = Min(T) /\ \A p \in S : p > o => p \in T
  BY DEF EndIn, T
<1> QED
  BY <1>1, <1>3, <1>4

\* Two objects have no bit in common.
LEMMA Disjoint ==
  ASSUME NEW S \in SUBSET (0 .. Bits - 1), NEW o \in S, NEW p \in S,
         NEW b \in Extent(S, o), b \in Extent(S, p)
  PROVE  o = p
<1>1. /\ EndIn(S, o) \in Nat /\ EndIn(S, p) \in Nat
      /\ p > o => EndIn(S, o) <= p
      /\ o > p => EndIn(S, p) <= o
  BY ObjectEnds
<1>2. o \in Nat /\ p \in Nat
  BY Sizes
<1> QED
  BY <1>1, <1>2 DEF Extent

\* The first bit of an object is its own.
LEMMA FirstBit ==
  ASSUME NEW S \in SUBSET (0 .. Bits - 1), NEW o \in S
  PROVE  o \in Extent(S, o)
BY ObjectEnds, Sizes DEF Extent

\* What the model calls the size and the last word of an object.
LEMMA SizeIs ==
  ASSUME NEW o
  PROVE  Size(o) = EndIn(starts, o) - o /\ lastWordIdx(o) = LastWordIn(starts, o)
BY DEF Size, EndIn, lastWordIdx, tailWordCnt, tailBitCnt, LastWordIn

\* The head bits of an object are bits of its own, the first one among them, and
\* end with the head word.
LEMMA HeadCovers ==
  ASSUME starts \subseteq 0 .. Bits - 1, NEW o \in starts
  PROVE  /\ headWordIdx(o) \in Nat
         /\ o \in HeadBits(o)
         /\ HeadBits(o) \subseteq Extent(starts, o)
         /\ \A b \in HeadBits(o) : b < headWordIdx(o) * WordBits + WordBits
<1> DEFINE h == headWordIdx(o)
           d == o % WordBits
<1>1. o \in Nat /\ h \in Nat /\ d \in 0 .. WordBits - 1 /\ o = h * WordBits + d
  <2>1. o \in Nat /\ WordBits \in Nat \ {0}
    BY Sizes
  <2>2. /\ o \div WordBits \in Nat
        /\ o % WordBits \in 0 .. WordBits - 1
        /\ o = (o \div WordBits) * WordBits + (o % WordBits)
    BY <2>1, DivMod
  <2> QED
    BY <2>1, <2>2, Zenon DEF headWordIdx
<1>2. EndIn(starts, o) \in Nat /\ o < EndIn(starts, o)
  BY ObjectEnds
<1>3. h * WordBits \in Nat
  BY <1>1, Sizes
<1>4. headMaskBits(o) = {b \in 0 .. WordBits - 1 : d <= b /\ b < d + (EndIn(starts, o) - o)}
  BY SizeIs DEF headMaskBits, AllBits
<1>5. HeadBits(o) = {h * WordBits + b : b \in headMaskBits(o)}
  BY DEF HeadBits
<1> HIDE DEF h, d
<1>6. o \in HeadBits(o)
  <2>1. d \in headMaskBits(o)
    BY <1>1, <1>2, <1>4, Sizes
  <2> QED
    BY <2>1, <1>1, <1>5
<1>7. ASSUME NEW x \in HeadBits(o)
      PROVE  x \in Extent(starts, o) /\ x < h * WordBits + WordBits
  <2>1. PICK b \in 0 .. WordBits - 1 :
          x = h * WordBits + b /\ d <= b /\ b < d + (EndIn(starts, o) - o)
    BY <1>4, <1>5
  <2> QED
    BY <2>1, <1>1, <1>2, <1>3, Sizes DEF Extent
<1> QED
  BY <1>1, <1>6, <1>7 DEF h

\* How many tail words there are: rounding up does not reach a whole word too far.
LEMMA RoundUp ==
  ASSUME NEW n \in Nat, NEW b \in Nat \ {0}, NEW c, c = (n + b - 1) \div b
  PROVE  /\ c \in Nat
         /\ n = 0 => c = 0
         /\ n > 0 => c > 0 /\ c * b < n + b
         /\ n % b = 0 => c * b <= n
         /\ n % b # 0 => c * b + (n % b) <= n + b
<1>1. c \in Nat /\ (n + b - 1) % b \in 0 .. b - 1
        /\ n + b - 1 = c * b + ((n + b - 1) % b)
  BY DivMod
<1>2. c * b \in Nat
  BY <1>1
<1> DEFINE k == n \div b
           r == n % b
<1>3. k \in Nat /\ r \in 0 .. b - 1 /\ n = k * b + r /\ k * b \in Nat
  <2>1. k \in Nat /\ r \in 0 .. b - 1 /\ n = k * b + r
    BY DivMod
  <2> HIDE DEF k, r
  <2> QED
    BY <2>1
<1> HIDE DEF k, r
<1>4. n = 0 => c = 0
  <2>1. c > 0 => 0 * b + b <= c * b
    BY <1>1, Multiples
  <2> QED
    BY <2>1, <1>1, <1>2
<1>5. n > 0 => c > 0
  <2>1. c = 0 => c * b = 0
    OBVIOUS
  <2> QED
    BY <2>1, <1>1, <1>2
<1>6. r = 0 => c <= k
  <2>1. k < c => k * b + b <= c * b
    BY <1>1, <1>3, Multiples
  <2> QED
    BY <2>1, <1>1, <1>2, <1>3
<1>7. c <= k + 1
  <2>1. (k + 1) * b = k * b + b
    BY <1>3
  <2>2. k + 1 < c => (k + 1) * b + b <= c * b
    BY <1>1, <1>3, Multiples
  <2> QED
    BY <2>1, <2>2, <1>1, <1>2, <1>3
<1>8. (c <= k => c * b <= k * b) /\ (c <= k + 1 => c * b <= k * b + b)
  <2>1. c < k => c * b + b <= k * b
    BY <1>1, <1>3, Multiples
  <2>2. c = k + 1 => c * b = k * b + b
    BY <1>3
  <2> QED
    BY <2>1, <2>2, <1>1, <1>2, <1>3
<1>9. r = 0 => c * b <= n
  BY <1>3, <1>6, <1>8
<1>10. r # 0 => c * b + r <= n + b
  BY <1>2, <1>3, <1>7, <1>8
<1> QED
  BY <1>1, <1>2, <1>4, <1>5, <1>9, <1>10 DEF r

\* The tail bits of an object are bits of its own, in the word they are set in,
\* and fill it where the code expects a clear word.
LEMMA TailCovers ==
  ASSUME starts \subseteq 0 .. Bits - 1, NEW o \in starts,
         NEW w \in Nat, headWordIdx(o) < w, w <= LastWordIn(starts, o)
  PROVE  /\ TailBits(o, w) \subseteq Extent(starts, o)
         /\ \A b \in TailBits(o, w) :
               w * WordBits <= b /\ b < w * WordBits + WordBits
         /\ FullWord(o, w) =>
               \A b \in AllBits : w * WordBits + b \in Extent(starts, o)
<1> DEFINE h == headWordIdx(o)
           d == o % WordBits
           size == EndIn(starts, o) - o
           n == tailBitCnt(o)
           c == (n + WordBits - 1) \div WordBits
<1>1. o \in Nat /\ h \in Nat /\ d \in 0 .. WordBits - 1 /\ o = h * WordBits + d
  <2>1. o \in Nat /\ WordBits \in Nat \ {0}
    BY Sizes
  <2>2. /\ o \div WordBits \in Nat
        /\ o % WordBits \in 0 .. WordBits - 1
        /\ o = (o \div WordBits) * WordBits + (o % WordBits)
    BY <2>1, DivMod
  <2> QED
    BY <2>1, <2>2, Zenon DEF headWordIdx
<1>2. EndIn(starts, o) \in Nat /\ o < EndIn(starts, o)
  BY ObjectEnds
<1>3. h * WordBits \in Nat /\ WordBits \in Nat \ {0} /\ w * WordBits \in Nat
  BY <1>1, Sizes
<1>4. n = IF size > WordBits - d THEN size - (WordBits - d) ELSE 0
  <2>1. n = Max({size - (WordBits - d), 0})
    BY SizeIs DEF tailBitCnt, headBitCnt
  <2>2. size \in Int /\ d \in Int
    BY <1>1, <1>2
  <2> HIDE DEF size, d, n
  <2>3. PICK x : x = size - (WordBits - d) /\ x \in Int
    BY <2>2, <1>3
  <2>4. Max({x, 0}) = IF x > 0 THEN x ELSE 0
    BY <2>3 DEF Max
  <2> QED
    BY <2>1, <2>2, <2>3, <2>4, <1>3
<1>5. LastWordIn(starts, o) = h + c
  BY SizeIs DEF LastWordIn, lastWordIdx, tailWordCnt
<1>6. lastMaskBits(o) = {b \in 0 .. WordBits - 1 : b < n % WordBits}
  BY DEF lastMaskBits, AllBits
<1>7. n \in Nat
  <2> HIDE DEF n, d
  <2> QED
    BY <1>1, <1>2, <1>3, <1>4
<1> HIDE DEF h, d, n
<1>8. /\ c \in Nat
      /\ n = 0 => c = 0
      /\ n > 0 => c > 0 /\ c * WordBits < n + WordBits
      /\ n % WordBits = 0 => c * WordBits <= n
      /\ n % WordBits # 0 => c * WordBits + (n % WordBits) <= n + WordBits
  BY <1>3, <1>7, RoundUp
<1>9. n % WordBits \in 0 .. WordBits - 1
  BY <1>3, <1>7, DivMod
<1>10. (h + c) * WordBits = h * WordBits + c * WordBits /\ c * WordBits \in Nat
  <2> HIDE DEF c
  <2> QED
    BY <1>1, <1>3, <1>8
<1> DEFINE m == n % WordBits
           top == c * WordBits
<1>11. h < w /\ w <= h + c
  BY <1>5 DEF h
<1>12. h * WordBits + WordBits <= w * WordBits
  BY <1>1, <1>3, <1>11, Multiples
<1>13. n > 0 /\ EndIn(starts, o) = h * WordBits + WordBits + n
  <2>1. c # 0
    BY <1>1, <1>8, <1>11
  <2>2. n # 0
    BY <2>1, <1>8
  <2> HIDE DEF c
  <2> QED
    BY <2>2, <1>1, <1>2, <1>3, <1>4, <1>7
<1>14. w < h + c => w * WordBits + WordBits <= h * WordBits + top
  <2> HIDE DEF c
  <2> QED
    BY <1>1, <1>3, <1>8, <1>10, Multiples
<1>15. w = h + c => w * WordBits = h * WordBits + top
  BY <1>10
<1> HIDE DEF m, top, c, size
<1>16. /\ top \in Nat /\ m \in 0 .. WordBits - 1 /\ top < n + WordBits
       /\ m = 0 => top <= n
       /\ m # 0 => top + m <= n + WordBits
  BY <1>8, <1>9, <1>10, <1>13 DEF m, top
<1>17. FullWord(o, w) <=> (w < h + c \/ m = 0)
  <2>1. lastMaskBits(o) = {} <=> m = 0
    <3>1. lastMaskBits(o) = {b \in 0 .. WordBits - 1 : b < m}
      BY <1>6 DEF m
    <3>2. m # 0 => 0 \in lastMaskBits(o)
      BY <3>1, <1>16, <1>3
    <3>3. m = 0 => \A b \in 0 .. WordBits - 1 : ~ (b < m)
      BY <1>3
    <3> QED
      BY <3>1, <3>2, <3>3
  <2> QED
    BY <2>1, <1>5, SizeIs DEF FullWord
<1>18. FullWord(o, w) => w * WordBits + WordBits <= EndIn(starts, o)
  BY <1>3, <1>7, <1>11, <1>13, <1>14, <1>15, <1>16, <1>17, <1>1, <1>8
<1>19. ~FullWord(o, w) => w * WordBits + m <= EndIn(starts, o)
  BY <1>3, <1>7, <1>11, <1>13, <1>15, <1>16, <1>17, <1>1, <1>8
<1>20. o <= w * WordBits
  BY <1>1, <1>3, <1>12
<1>21. FullWord(o, w) => \A b \in AllBits : w * WordBits + b \in Extent(starts, o)
  BY <1>1, <1>2, <1>3, <1>18, <1>20 DEF AllBits, Extent
<1>22. ~FullWord(o, w) =>
         \A b \in lastMaskBits(o) : w * WordBits + b \in Extent(starts, o)
  <2>1. lastMaskBits(o) = {b \in 0 .. WordBits - 1 : b < m}
    BY <1>6 DEF m
  <2> QED
    BY <2>1, <1>1, <1>2, <1>3, <1>16, <1>19, <1>20 DEF Extent
<1>23. TailBits(o, w) = {w * WordBits + b : b \in tailMaskBits(o, w)}
  BY DEF TailBits
<1>24. tailMaskBits(o, w) = IF FullWord(o, w) THEN AllBits ELSE lastMaskBits(o)
  BY DEF tailMaskBits
<1>25. tailMaskBits(o, w) \subseteq 0 .. WordBits - 1
  BY <1>6, <1>24 DEF AllBits
<1> QED
  BY <1>3, <1>21, <1>22, <1>23, <1>24, <1>25

-----------------------------------------------------------------------------
(* The invariant *)

PCs == {"idle", "load", "head", "headPart", "live", "tail", "tailPart"}

Types ==
    /\ starts \subseteq 0 .. Bits - 1
    /\ pc \in [Markers -> PCs]
    /\ object \in [Markers -> Nat]
    /\ idx \in [Markers -> Nat]
    /\ won \in [0 .. Bits - 1 -> Nat]

\* A marked bit belongs to an object whose first bit is marked.
MarksOwned ==
    \A b \in markWords : \E o \in starts : b \in Extent(starts, o) /\ o \in markWords

\* A marker that sets tail bits sets those of a tail word of its object.
AtObject ==
    \A m \in Markers :
       /\ pc[m] # "idle" => object[m] \in starts
       /\ pc[m] \in {"tail", "tailPart"} =>
             /\ headWordIdx(object[m]) < idx[m]
             /\ idx[m] <= LastWordIn(starts, object[m])

Wins(m, o) == Winning(m) /\ object[m] = o

\* An object is unmarked, in the hands of one winner, or finished.
OneWinner ==
    \A o \in starts :
       \/ o \notin markWords /\ won[o] = 0 /\ \A m \in Markers : ~Wins(m, o)
       \/ /\ o \in markWords /\ won[o] = 0
          /\ \E m \in Markers : Wins(m, o) /\ \A n \in Markers : Wins(n, o) => n = m
       \/ o \in markWords /\ won[o] = 1 /\ \A m \in Markers : ~Wins(m, o)

\* The end of the last word a winner has set.
Reached(m) ==
    IF pc[m] = "tail" THEN idx[m] * WordBits
    ELSE IF pc[m] = "tailPart" THEN idx[m] * WordBits + WordBits
    ELSE headWordIdx(object[m]) * WordBits + WordBits

\* Nobody is ahead of an object's winner in its bits.
NobodyAhead ==
    \A m \in Markers : Winning(m) =>
       \A b \in markWords : b \in Extent(starts, object[m]) => b < Reached(m)

IInv == Types /\ MarksOwned /\ AtObject /\ OneWinner /\ NobodyAhead

-----------------------------------------------------------------------------
\* The head bits of an object are clear exactly while it is not marked.
LEMMA ClearIsUnmarked ==
  ASSUME Types, MarksOwned, NEW o \in starts
  PROVE  HeadClear(o) <=> o \notin markWords
<1>1. HeadClear(o) <=> HeadBits(o) \cap markWords = {}
  BY DEF HeadClear, MarkWord, HeadBits, headMaskBits
<1>2. o \in HeadBits(o) /\ HeadBits(o) \subseteq Extent(starts, o)
  BY HeadCovers DEF Types
<1>3. ASSUME NEW b \in HeadBits(o), b \in markWords
      PROVE  o \in markWords
  <2>1. PICK p \in starts : b \in Extent(starts, p) /\ p \in markWords
    BY <1>3 DEF MarksOwned
  <2>2. o = p
    BY <2>1, <1>2, Disjoint DEF Types
  <2> QED
    BY <2>1, <2>2
<1> QED
  BY <1>1, <1>2, <1>3

\* Marks set for object o, in its own bits, leave the marks of others alone.
LEMMA MarksStayOwned ==
  ASSUME Types, MarksOwned, NEW o \in starts, NEW B \in SUBSET Extent(starts, o),
         starts' = starts, markWords' = markWords \cup B,
         o \in markWords'
  PROVE  /\ MarksOwned'
         /\ \A p \in starts : p # o => (p \in markWords' <=> p \in markWords)
<1>1. MarksOwned'
  BY DEF MarksOwned
<1>2. ASSUME NEW p \in starts, p # o, p \in markWords'
      PROVE  p \in markWords
  <2>1. p \in Extent(starts, p)
    BY FirstBit DEF Types
  <2>2. p \notin B
    BY <2>1, <1>2, Disjoint DEF Types
  <2> QED
    BY <2>2, <1>2
<1> QED
  BY <1>1, <1>2

\* One entry of a function of natural numbers is replaced.
LEMMA Update ==
  ASSUME NEW f \in [Markers -> Nat], NEW m \in Markers, NEW x \in Nat
  PROVE  [f EXCEPT ![m] = x] \in [Markers -> Nat]
OBVIOUS

LEMMA InitIInv == Init => IInv
<1> SUFFICES ASSUME Init PROVE IInv
  OBVIOUS
<1>1. starts \subseteq 0 .. Bits - 1
  <2>1. PICK s \in SUBSET (1 .. Bits - 1) : starts = {0} \cup s
    BY DEF Init
  <2>2. 0 \in 0 .. Bits - 1 /\ 1 .. Bits - 1 \subseteq 0 .. Bits - 1
    BY Sizes
  <2> QED
    BY <2>1, <2>2
<1>2. Types /\ MarksOwned
  BY <1>1 DEF Init, Types, MarksOwned, PCs
<1>3. \A m \in Markers : pc[m] = "idle" /\ ~Winning(m)
  BY DEF Init, Winning
<1> QED
  BY <1>1, <1>2, <1>3 DEF Init, IInv, AtObject, OneWinner, NobodyAhead, Wins

\* StartMark, and a LoadHead that finds the object marked or clear: no marker
\* wins or sets anything.
LEMMA StartKeepsIInv ==
  ASSUME IInv, NEW m \in Markers,
         (\E o \in starts : StartMark(m, o)) \/ LoadHead(m)
  PROVE  IInv'
<1> USE DEF IInv
<1>1. /\ UNCHANGED <<starts, markWords, won>>
      /\ pc' = [pc EXCEPT ![m] = pc'[m]] /\ object' = [object EXCEPT ![m] = object'[m]]
      /\ idx' = [idx EXCEPT ![m] = idx'[m]]
      /\ pc[m] \in {"idle", "load"} /\ pc'[m] \in {"idle", "load", "head"}
      /\ object'[m] \in Nat /\ idx'[m] \in Nat
      /\ pc'[m] # "idle" => object'[m] \in starts
  BY Sizes DEF Types, AtObject, StartMark, LoadHead, Goto, Return, PCs
<1>2. Types'
  BY <1>1 DEF Types, PCs
<1>3. MarksOwned'
  BY <1>1 DEF MarksOwned
<1>4. AtObject'
  BY <1>1 DEF AtObject, Types
<1>5. \A n \in Markers : /\ Winning(n)' <=> Winning(n)
                         /\ Winning(n) => object'[n] = object[n]
  BY <1>1 DEF Winning, Types
<1>6. OneWinner'
  BY <1>1, <1>5 DEF OneWinner, Wins
<1>7. NobodyAhead'
  <2>1. \A n \in Markers : Winning(n) => Reached(n)' = Reached(n)
    BY <1>1, <1>5 DEF Reached, Types, Winning, headWordIdx
  <2> QED
    BY <2>1, <1>1, <1>5 DEF NobodyAhead
<1> QED
  BY <1>2, <1>3, <1>4, <1>6, <1>7

\* A fetch-or that finds the head bits clear makes its marker the winner; one
\* that does not sets no bit the winner has not set.
LEMMA OrHeadKeepsIInv ==
  ASSUME IInv, NEW m \in Markers, OrHead(m)
  PROVE  IInv'
<1> DEFINE o == object[m]
<1> USE DEF IInv
<1>1. o \in starts /\ o \in Nat /\ pc[m] = "head" /\ ~Winning(m)
  BY DEF AtObject, Types, OrHead, Winning
<1>2. /\ o \in HeadBits(o) /\ HeadBits(o) \subseteq Extent(starts, o)
      /\ \A b \in HeadBits(o) : b < headWordIdx(o) * WordBits + WordBits
  BY <1>1, HeadCovers DEF Types
<1>3. UNCHANGED <<starts, won>> /\ markWords' = markWords \cup HeadBits(o)
  BY DEF OrHead, FetchOr, HeadBits
<1>4. \/ /\ o \notin markWords /\ pc' = [pc EXCEPT ![m] = "headPart"]
         /\ UNCHANGED <<object, idx>>
      \/ /\ o \in markWords /\ pc' = [pc EXCEPT ![m] = "idle"]
         /\ object' = [object EXCEPT ![m] = 0] /\ idx' = [idx EXCEPT ![m] = 0]
  BY <1>1, ClearIsUnmarked DEF OrHead, Goto, Return
<1>5. MarksOwned' /\ \A p \in starts : p # o => (p \in markWords' <=> p \in markWords)
  BY <1>1, <1>2, <1>3, MarksStayOwned
<1>6. Types'
  <2>1. starts' = starts /\ won' = won
    BY <1>3
  <2>2. pc' \in [Markers -> PCs]
    BY <1>4 DEF Types, PCs
  <2>3. object' \in [Markers -> Nat] /\ idx' \in [Markers -> Nat]
    <3>1. object \in [Markers -> Nat] /\ idx \in [Markers -> Nat] /\ 0 \in Nat
      BY DEF Types
    <3>2. /\ object' = object \/ object' = [object EXCEPT ![m] = 0]
          /\ idx' = idx \/ idx' = [idx EXCEPT ![m] = 0]
      BY <1>4
    <3> QED
      BY <3>1, <3>2, Update
  <2> QED
    BY <2>1, <2>2, <2>3 DEF Types
<1>12. AtObject'
  <2>1. starts' = starts
    BY <1>3
  <2>2. \A n \in Markers :
          \/ pc'[n] = pc[n] /\ object'[n] = object[n] /\ idx'[n] = idx[n]
          \/ pc'[n] = "idle"
          \/ n = m /\ pc'[n] = "headPart" /\ object'[n] = o
    BY <1>4 DEF Types
  <2> HIDE DEF o
  <2> QED
    BY <2>1, <2>2, <1>1 DEF AtObject
<1>7. \A n \in Markers :
        /\ n # m => (Winning(n)' <=> Winning(n)) /\ object'[n] = object[n]
        /\ n # m => pc'[n] = pc[n] /\ idx'[n] = idx[n]
  BY <1>4 DEF Winning, Types
<1>8. /\ o \notin markWords => Winning(m)' /\ object'[m] = o /\ pc'[m] = "headPart"
      /\ o \in markWords => ~Winning(m)'
  BY <1>4 DEF Winning, Types
<1>9. o \in markWords'
  BY <1>2, <1>3
<1> HIDE DEF o
<1>10. OneWinner'
  <2> SUFFICES ASSUME NEW p \in starts
               PROVE  \/ p \notin markWords' /\ won'[p] = 0 /\ \A n \in Markers : ~Wins(n, p)'
                      \/ /\ p \in markWords' /\ won'[p] = 0
                         /\ \E n \in Markers : Wins(n, p)' /\ \A k \in Markers : Wins(k, p)' => k = n
                      \/ p \in markWords' /\ won'[p] = 1 /\ \A n \in Markers : ~Wins(n, p)'
    BY <1>3 DEF OneWinner
  <2>1. \A n \in Markers : n # m => (Wins(n, p)' <=> Wins(n, p))
    BY <1>7 DEF Wins
  <2>2. ~Wins(m, p)
    BY <1>1 DEF Wins
  <2>3. Wins(m, p)' <=> (p = o /\ o \notin markWords)
    BY <1>8 DEF Wins
  <2>4. won'[p] = won[p]
    BY <1>3
  <2>5. CASE p # o
    BY <2>1, <2>2, <2>3, <2>4, <2>5, <1>5 DEF OneWinner
  <2>6. CASE p = o
    BY <2>1, <2>2, <2>3, <2>4, <2>6, <1>9 DEF OneWinner
  <2> QED
    BY <2>5, <2>6
<1>11. NobodyAhead'
  <2> SUFFICES ASSUME NEW n \in Markers, Winning(n)', NEW b \in markWords',
                      b \in Extent(starts, object'[n])
               PROVE  b < Reached(n)'
    BY <1>3 DEF NobodyAhead
  <2>1. CASE n = m
    <3>1. o \notin markWords /\ object'[n] = o /\ pc'[n] = "headPart"
      BY <2>1, <1>8
    <3>2. b \notin markWords
      <4>1. SUFFICES ASSUME b \in markWords PROVE FALSE
        OBVIOUS
      <4>2. PICK p \in starts : b \in Extent(starts, p) /\ p \in markWords
        BY <4>1 DEF MarksOwned
      <4> QED
        BY <4>2, <3>1, <1>1, Disjoint DEF Types
    <3>3. Reached(n)' = headWordIdx(o) * WordBits + WordBits
      BY <3>1 DEF Reached, headWordIdx
    <3> QED
      BY <3>2, <3>3, <1>2, <1>3
  <2>2. CASE n # m
    <3>1. Winning(n) /\ object'[n] = object[n] /\ Reached(n)' = Reached(n)
      BY <2>2, <1>7 DEF Reached, headWordIdx
    <3>2. object[n] \in starts
      BY <3>1 DEF AtObject, Winning
    <3>3. CASE b \in markWords
      BY <3>1, <3>3 DEF NobodyAhead
    <3>4. CASE b \in HeadBits(o)
      <4>1. object[n] = o
        BY <3>1, <3>2, <3>4, <1>1, <1>2, Disjoint DEF Types
      <4>2. headWordIdx(o) \in Nat /\ idx[n] \in Nat
        BY <1>1, HeadCovers DEF Types
      <4>3. pc[n] \in {"tail", "tailPart"} =>
              headWordIdx(o) * WordBits + WordBits <= idx[n] * WordBits
        BY <4>1, <4>2, Sizes, Multiples DEF AtObject
      <4>4. b < headWordIdx(o) * WordBits + WordBits
        BY <3>4, <1>2
      <4>5. b \in Nat /\ headWordIdx(o) * WordBits \in Nat /\ idx[n] * WordBits \in Nat
        <5>1. b \in Extent(starts, o) /\ EndIn(starts, o) \in Nat
          BY <3>4, <1>1, <1>2, ObjectEnds DEF Types
        <5> QED
          BY <5>1, <1>1, <4>2, Sizes DEF Extent
      <4> QED
        BY <4>1, <4>3, <4>4, <4>5, <3>1, Sizes DEF Reached
    <3> QED
      BY <3>3, <3>4, <1>3
  <2> QED
    BY <2>1, <2>2
<1> QED
  BY <1>5, <1>6, <1>10, <1>11, <1>12

\* The winner goes from one word to the next and leaves after the last one.
LEMMA NextWordKeepsIInv ==
  ASSUME IInv, NEW m \in Markers, NEW w \in Nat, NextTailWord(m, w),
         \/ pc[m] = "live" /\ w = headWordIdx(object[m])
         \/ pc[m] = "tailPart" /\ w = idx[m],
         UNCHANGED <<starts, markWords>>
  PROVE  IInv'
<1> DEFINE o == object[m]
<1> USE DEF IInv
<1>1. Winning(m) /\ o \in starts /\ o \in 0 .. Bits - 1 /\ pc[m] # "tail"
  BY DEF Winning, AtObject, Types
<1>2. starts' = starts /\ markWords' = markWords
  OBVIOUS
<1>3. \/ /\ won' = [won EXCEPT ![o] = @ + 1] /\ pc' = [pc EXCEPT ![m] = "idle"]
         /\ object' = [object EXCEPT ![m] = 0] /\ idx' = [idx EXCEPT ![m] = 0]
      \/ /\ w < LastWordIn(starts, o) /\ pc' = [pc EXCEPT ![m] = "tail"]
         /\ idx' = [idx EXCEPT ![m] = w + 1] /\ UNCHANGED <<object, won>>
  BY SizeIs DEF NextTailWord, Win, Return, Goto
<1>4. headWordIdx(o) \in Nat /\ headWordIdx(o) <= w /\ LastWordIn(starts, o) \in Int
  <2>1. headWordIdx(o) \in Nat
    BY <1>1, HeadCovers DEF Types
  <2>2. idx[m] \in Nat
    BY DEF Types
  <2>3. pc[m] = "tailPart" => headWordIdx(o) < idx[m]
    BY DEF AtObject
  <2>4. LastWordIn(starts, o) \in Int
    <3> DEFINE n == tailBitCnt(o)
    <3>1. o \in Nat /\ WordBits \in Nat \ {0} /\ EndIn(starts, o) \in Nat
      BY <1>1, Sizes, ObjectEnds DEF Types
    <3>2. o % WordBits \in 0 .. WordBits - 1
      BY <3>1, DivMod
    <3>3. n = Max({EndIn(starts, o) - o - (WordBits - (o % WordBits)), 0})
      BY SizeIs DEF tailBitCnt, headBitCnt
    <3>4. PICK x \in Int : x = EndIn(starts, o) - o - (WordBits - (o % WordBits))
      BY <3>1, <3>2
    <3>5. Max({x, 0}) \in Nat
      BY <3>4 DEF Max
    <3>6. n \in Nat
      BY <3>3, <3>4, <3>5
    <3> HIDE DEF n
    <3>7. (n + WordBits - 1) \div WordBits \in Nat
      BY <3>1, <3>6, RoundUp
    <3>8. LastWordIn(starts, o) = headWordIdx(o) + (n + WordBits - 1) \div WordBits
      BY SizeIs DEF n, lastWordIdx, tailWordCnt
    <3> QED
      BY <2>1, <3>7, <3>8
  <2> QED
    BY <2>1, <2>2, <2>3, <2>4
<1> HIDE DEF o
<1>5. Types'
  <2>1. won' \in [0 .. Bits - 1 -> Nat]
    BY <1>1, <1>3 DEF Types
  <2>2. pc' \in [Markers -> PCs]
    BY <1>3 DEF Types, PCs
  <2>3. object' \in [Markers -> Nat] /\ idx' \in [Markers -> Nat]
    <3>1. object \in [Markers -> Nat] /\ idx \in [Markers -> Nat]
          /\ 0 \in Nat /\ w + 1 \in Nat
      BY DEF Types
    <3>2. /\ object' = object \/ object' = [object EXCEPT ![m] = 0]
          /\ idx' = [idx EXCEPT ![m] = w + 1] \/ idx' = [idx EXCEPT ![m] = 0]
      BY <1>3
    <3> QED
      BY <3>1, <3>2, Update
  <2> QED
    BY <2>1, <2>2, <2>3, <1>2 DEF Types
<1>6. MarksOwned'
  BY <1>2 DEF MarksOwned
<1>7. \A n \in Markers : n # m =>
        pc'[n] = pc[n] /\ object'[n] = object[n] /\ idx'[n] = idx[n]
  BY <1>3 DEF Types
<1>8. \/ pc'[m] = "idle" /\ won' = [won EXCEPT ![o] = @ + 1]
      \/ /\ pc'[m] = "tail" /\ object'[m] = o /\ idx'[m] = w + 1 /\ won' = won
         /\ w < LastWordIn(starts, o)
  BY <1>3 DEF Types, o
<1>9. AtObject'
  <2>1. pc'[m] # "idle" =>
          /\ object'[m] = o /\ o \in starts
          /\ headWordIdx(o) < idx'[m] /\ idx'[m] <= LastWordIn(starts, o)
    BY <1>1, <1>4, <1>8
  <2> QED
    BY <2>1, <1>2, <1>7 DEF AtObject, headWordIdx
<1>10. OneWinner'
  <2> SUFFICES ASSUME NEW p \in starts
               PROVE  \/ p \notin markWords /\ won'[p] = 0 /\ \A n \in Markers : ~Wins(n, p)'
                      \/ /\ p \in markWords /\ won'[p] = 0
                         /\ \E n \in Markers : Wins(n, p)' /\ \A k \in Markers : Wins(k, p)' => k = n
                      \/ p \in markWords /\ won'[p] = 1 /\ \A n \in Markers : ~Wins(n, p)'
    BY <1>2 DEF OneWinner
  <2>1. \A n \in Markers : n # m => (Wins(n, p)' <=> Wins(n, p))
    BY <1>7 DEF Wins, Winning
  <2>2. Wins(m, p) <=> p = o
    BY <1>1 DEF Wins, o
  <2>3. CASE pc'[m] = "idle"
    <3>1. ~Wins(m, p)' /\ won' = [won EXCEPT ![o] = @ + 1]
      BY <1>8, <2>3 DEF Wins, Winning
    <3>2. CASE p # o
      <4>1. won'[p] = won[p]
        BY <3>1, <3>2, <1>1 DEF Types
      <4> QED
        BY <4>1, <3>1, <3>2, <2>1, <2>2 DEF OneWinner
    <3>3. CASE p = o
      <4>1. won'[p] = won[p] + 1
        BY <3>1, <3>3, <1>1 DEF Types
      <4>2. /\ p \in markWords /\ won[p] = 0
            /\ \A n \in Markers : Wins(n, p) => n = m
        BY <2>2, <3>3 DEF OneWinner
      <4> QED
        BY <4>1, <4>2, <3>1, <2>1
    <3> QED
      BY <3>2, <3>3
  <2>4. CASE pc'[m] = "tail"
    <3>1. won' = won /\ (Wins(m, p)' <=> Wins(m, p))
      BY <1>8, <2>2, <2>4 DEF Wins, Winning
    <3> QED
      BY <3>1, <2>1 DEF OneWinner
  <2> QED
    BY <2>3, <2>4, <1>8
<1>11. NobodyAhead'
  <2> SUFFICES ASSUME NEW n \in Markers, Winning(n)', NEW b \in markWords,
                      b \in Extent(starts, object'[n])
               PROVE  b < Reached(n)'
    BY <1>2 DEF NobodyAhead
  <2>1. CASE n # m
    BY <2>1, <1>7 DEF NobodyAhead, Winning, Reached, headWordIdx
  <2>2. CASE n = m
    <3>1. object'[m] = o /\ Reached(m)' = (w + 1) * WordBits
      BY <2>2, <1>8 DEF Winning, Reached
    <3>2. Reached(m) = w * WordBits + WordBits
      BY DEF Reached
    <3>3. (w + 1) * WordBits = w * WordBits + WordBits
      BY Sizes
    <3> QED
      BY <2>2, <3>1, <3>2, <3>3, <1>1 DEF NobodyAhead, o
  <2> QED
    BY <2>1, <2>2
<1> QED
  BY <1>5, <1>6, <1>9, <1>10, <1>11

\* A tail word is set: by the winner, in its object, in the word it is at.
LEMMA OrTailKeepsIInv ==
  ASSUME IInv, NEW m \in Markers, OrTail(m)
  PROVE  IInv'
<1> DEFINE o == object[m]
           w == idx[m]
<1> USE DEF IInv
<1>1. /\ Winning(m) /\ pc[m] = "tail" /\ o \in starts /\ w \in Nat
      /\ headWordIdx(o) < w /\ w <= LastWordIn(starts, o)
  BY DEF OrTail, Winning, AtObject, Types
<1>2. /\ TailBits(o, w) \subseteq Extent(starts, o)
      /\ \A b \in TailBits(o, w) : b < w * WordBits + WordBits
  BY <1>1, TailCovers DEF Types
<1>3. /\ markWords' = markWords \cup TailBits(o, w)
      /\ UNCHANGED <<starts, object, idx, won>> /\ pc' = [pc EXCEPT ![m] = "tailPart"]
  BY DEF OrTail, FetchOr, TailBits, Goto
<1>4. o \in markWords
  BY <1>1 DEF OneWinner, Wins
<1> HIDE DEF o, w
<1>5. MarksOwned' /\ \A p \in starts : p # o => (p \in markWords' <=> p \in markWords)
  BY <1>1, <1>2, <1>3, <1>4, MarksStayOwned
<1>6. Types'
  <2>1. pc' \in [Markers -> PCs]
    BY <1>3 DEF Types, PCs
  <2> QED
    BY <2>1, <1>3 DEF Types
<1>7. \A n \in Markers : /\ n # m => pc'[n] = pc[n]
                         /\ Winning(n)' <=> Winning(n)
  BY <1>1, <1>3 DEF Types, Winning
<1>8. pc'[m] = "tailPart"
  BY <1>3 DEF Types
<1>9. AtObject'
  BY <1>1, <1>3, <1>7, <1>8 DEF AtObject, headWordIdx, o, w
<1>10. OneWinner'
  <2>1. \A p \in starts : p \in markWords' <=> p \in markWords
    BY <1>3, <1>4, <1>5
  <2> QED
    BY <2>1, <1>3, <1>7 DEF OneWinner, Wins
<1>11. NobodyAhead'
  <2> SUFFICES ASSUME NEW n \in Markers, Winning(n), NEW b \in markWords',
                      b \in Extent(starts, object[n])
               PROVE  b < Reached(n)'
    BY <1>3, <1>7 DEF NobodyAhead
  <2>1. CASE n = m
    <3>1. Reached(m)' = w * WordBits + WordBits
      BY <1>3, <1>8 DEF Reached, w
    <3>2. Reached(m) = w * WordBits
      BY <1>1 DEF Reached, w
    <3>3. CASE b \in markWords
      <4>1. b < w * WordBits
        BY <2>1, <3>2, <3>3 DEF NobodyAhead
      <4>2. b \in Int /\ w * WordBits \in Nat
        <5>1. o \in Nat /\ EndIn(starts, o) \in Nat
          BY <1>1, ObjectEnds, Sizes DEF Types
        <5> QED
          BY <5>1, <2>1, <1>1, Sizes DEF Extent, o
      <4> QED
        BY <2>1, <3>1, <4>1, <4>2, Sizes
    <3>4. CASE b \in TailBits(o, w)
      BY <2>1, <3>1, <3>4, <1>2
    <3> QED
      BY <3>3, <3>4, <1>3
  <2>2. CASE n # m
    <3>1. Reached(n)' = Reached(n)
      BY <2>2, <1>3, <1>7 DEF Reached, headWordIdx
    <3>2. object[n] # o
      <4>1. Wins(n, object[n]) /\ Wins(m, o) /\ object[n] \in starts
        BY <1>1 DEF Wins, o, AtObject, Winning
      <4> QED
        BY <4>1, <2>2, <1>1 DEF OneWinner
    <3>3. b \in markWords
      <4>1. object[n] \in starts
        BY DEF AtObject, Winning
      <4>2. b \notin TailBits(o, w)
        BY <4>1, <3>2, <1>1, <1>2, Disjoint DEF Types
      <4> QED
        BY <4>2, <1>3
    <3> QED
      BY <3>1, <3>3 DEF NobodyAhead
  <2> QED
    BY <2>1, <2>2
<1> QED
  BY <1>5, <1>6, <1>9, <1>10, <1>11

\* The part counter of the head word is raised: the winner goes on.
LEMMA AddHeadKeepsIInv ==
  ASSUME IInv, NEW m \in Markers, AddHeadPart(m)
  PROVE  IInv'
<1> USE DEF IInv
<1>1. /\ UNCHANGED <<starts, markWords, object, idx, won>>
      /\ pc[m] = "headPart" /\ pc' = [pc EXCEPT ![m] = "live"]
  BY DEF AddHeadPart, Goto
<1>2. pc' \in [Markers -> PCs]
  BY <1>1 DEF Types, PCs
<1>3. \A n \in Markers : \/ pc'[n] = pc[n]
                         \/ pc[n] = "headPart" /\ pc'[n] = "live"
  BY <1>1 DEF Types
<1>4. \A n \in Markers : (Winning(n)' <=> Winning(n)) /\ Reached(n)' = Reached(n)
  BY <1>1, <1>3 DEF Winning, Reached, headWordIdx
<1>5. Types' /\ MarksOwned'
  BY <1>1, <1>2 DEF Types, MarksOwned
<1>6. AtObject'
  BY <1>1, <1>3 DEF AtObject, headWordIdx
<1>7. OneWinner'
  BY <1>1, <1>4 DEF OneWinner, Wins
<1>8. NobodyAhead'
  BY <1>1, <1>4 DEF NobodyAhead
<1> QED
  BY <1>5, <1>6, <1>7, <1>8

LEMMA NextKeepsIInv == IInv /\ [Next]_vars => IInv'
<1> SUFFICES ASSUME IInv, [Next]_vars PROVE IInv'
  OBVIOUS
<1>1. CASE UNCHANGED vars
  BY <1>1 DEF vars, IInv, Types, MarksOwned, AtObject, OneWinner, NobodyAhead,
              Wins, Winning, Reached, headWordIdx
<1>2. ASSUME NEW m \in Markers, AddLive(m)
      PROVE  IInv'
  <2>1. object[m] \in starts
    BY <1>2 DEF AddLive, IInv, AtObject
  <2>2. headWordIdx(object[m]) \in Nat
    BY <2>1, HeadCovers DEF IInv, Types
  <2> QED
    BY <2>2, <1>2, NextWordKeepsIInv DEF AddLive
<1>3. ASSUME NEW m \in Markers, AddTailPart(m)
      PROVE  IInv'
  <2>1. idx[m] \in Nat
    BY DEF IInv, Types
  <2> QED
    BY <2>1, <1>3, NextWordKeepsIInv DEF AddTailPart
<1> QED
  BY <1>1, <1>2, <1>3, StartKeepsIInv, OrHeadKeepsIInv, AddHeadKeepsIInv,
     OrTailKeepsIInv DEF Next

-----------------------------------------------------------------------------
\* Every marked object is won by exactly one MarkBits, the one whose fetch-or
\* found its head bits clear (RegionBitmap.cj:183-192), so it is traced once.
THEOREM WonOnce == Spec => []OneMarkerWins
<1>1. IInv => OneMarkerWins
  <2> SUFFICES ASSUME IInv, NEW o \in starts
               PROVE  won[o] + Cardinality({m \in Markers : Winning(m) /\ object[m] = o})
                        = IF o \in markWords THEN 1 ELSE 0
    BY DEF OneMarkerWins
  <2> DEFINE W == {m \in Markers : Winning(m) /\ object[m] = o}
  <2>1. W = {} \/ (\E m : W = {m})
    BY DEF IInv, OneWinner, Wins
  <2>2. W = {} => Cardinality(W) = 0
    BY FS_EmptySet
  <2>3. (\E m : W = {m}) => Cardinality(W) = 1
    BY FS_Singleton
  <2>4. \/ o \notin markWords /\ won[o] = 0 /\ W = {}
        \/ o \in markWords /\ won[o] = 0 /\ W # {}
        \/ o \in markWords /\ won[o] = 1 /\ W = {}
    BY DEF IInv, OneWinner, Wins
  <2> HIDE DEF W
  <2>5. won[o] + Cardinality(W) = IF o \in markWords THEN 1 ELSE 0
    BY <2>1, <2>2, <2>3, <2>4
  <2> QED
    BY <2>5 DEF W
<1> QED
  BY InitIInv, NextKeepsIInv, <1>1, PTL DEF Spec

\* A whole tail word of a won object is clear until its winner sets it: the
\* CheckZero of a debug build never aborts (RegionBitmap.cj:203).
THEOREM TailWordsClear == Spec => []NeverAborts
<1>1. IInv => NeverAborts
  <2> SUFFICES ASSUME IInv, NEW m \in Markers, pc[m] = "tail",
                      FullWord(object[m], idx[m]), NEW b \in AllBits,
                      idx[m] * WordBits + b \in markWords
               PROVE  FALSE
    BY DEF NeverAborts, MarkWord
  <2>1. /\ object[m] \in starts /\ idx[m] \in Nat /\ Winning(m)
        /\ headWordIdx(object[m]) < idx[m]
        /\ idx[m] <= LastWordIn(starts, object[m])
    BY DEF IInv, AtObject, Types, Winning
  <2>2. idx[m] * WordBits + b \in Extent(starts, object[m])
    BY <2>1, TailCovers DEF IInv, Types
  <2>3. idx[m] * WordBits + b < idx[m] * WordBits
    BY <2>1, <2>2 DEF IInv, NobodyAhead, Reached
  <2> QED
    BY <2>1, <2>3, Sizes DEF AllBits
<1> QED
  BY InitIInv, NextKeepsIInv, <1>1, PTL DEF Spec

-----------------------------------------------------------------------------
(* Words and parts *)

\* Rounding up reaches far enough.
LEMMA RoundUpEnough ==
  ASSUME NEW n \in Nat, NEW b \in Nat \ {0}
  PROVE  n <= ((n + b - 1) \div b) * b
<1> DEFINE c == (n + b - 1) \div b
           r == (n + b - 1) % b
<1>1. c \in Nat /\ r \in 0 .. b - 1 /\ n + b - 1 = c * b + r
  <2>1. n + b - 1 \in Nat
    OBVIOUS
  <2> QED BY <2>1, DivMod
<1> HIDE DEF c, r
<1>2. c * b \in Nat
  BY <1>1
<1>3. n <= c * b
  BY <1>1, <1>2
<1> QED
  BY <1>3 DEF c

\* The quotient is the number whose multiples enclose the dividend.
LEMMA DivIs ==
  ASSUME NEW a \in Nat, NEW b \in Nat \ {0}, NEW q \in Nat, q * b <= a, a < q * b + b
  PROVE  a \div b = q
<1> DEFINE k == a \div b
           r == a % b
<1>1. k \in Nat /\ r \in 0 .. b - 1 /\ a = k * b + r
  BY DivMod
<1> HIDE DEF k, r
<1>2. k * b \in Nat /\ q * b \in Nat
  BY <1>1
<1>3. ~ (k < q)
  BY <1>1, <1>2, Multiples
<1>4. ~ (q < k)
  BY <1>1, <1>2, Multiples
<1> QED
  BY <1>1, <1>3, <1>4 DEF k

\* A number is below a multiple exactly when its quotient is below the factor.
LEMMA DivBelow ==
  ASSUME NEW a \in Nat, NEW b \in Nat \ {0}, NEW q \in Nat
  PROVE  a \div b < q <=> a < q * b
<1> DEFINE k == a \div b
           r == a % b
<1>1. k \in Nat /\ r \in 0 .. b - 1 /\ a = k * b + r
  BY DivMod
<1> HIDE DEF k, r
<1>2. k * b \in Nat /\ q * b \in Nat
  BY <1>1
<1>3. k < q => k * b + b <= q * b
  BY <1>1, Multiples
<1>4. q < k => q * b + b <= k * b
  BY <1>1, Multiples
<1>5. k < q <=> a < q * b
  <2>1. q = k => q * b = k * b
    OBVIOUS
  <2> QED BY <1>1, <1>2, <1>3, <1>4, <2>1
<1> QED
  BY <1>5 DEF k

\* The words lie in parts, each with its counter.
LEMMA PartSizes ==
  /\ step \in Nat \ {0} /\ MaxParts \in Nat \ {0} /\ PartMod \in Nat \ {0}
  /\ \A w \in 0 .. Words - 1 : part(w) \in Parts
<1>1. Words \in Nat \ {0} /\ MaxParts \in Nat \ {0} /\ PartMod \in Nat \ {0}
  BY SizeAssumption
<1>2. calFactor \in Nat \ {0} /\ calFactor <= MaxParts /\ calFactor <= Words
  BY <1>1 DEF calFactor
<1>3. step \in Nat /\ Words <= step * calFactor
  <2>1. step = (Words + calFactor - 1) \div calFactor
    BY DEF step
  <2>2. Words + calFactor - 1 \in Nat
    BY <1>1, <1>2
  <2>3. step \in Nat
    BY <1>2, <2>1, <2>2, DivMod
  <2> QED BY <1>1, <1>2, <2>1, <2>3, RoundUpEnough
<1>4. step # 0
  BY <1>1, <1>2, <1>3
<1>5. ASSUME NEW w \in 0 .. Words - 1
      PROVE  part(w) \in Parts
  <2>1. w \div step < calFactor
    <3>1. w < calFactor * step
      BY <1>1, <1>2, <1>3
    <3> QED BY <1>1, <1>2, <1>3, <1>4, <3>1, DivBelow
  <2>2. w \div step \in Nat
    <3>1. w \in Nat /\ step \in Nat \ {0}
      BY <1>1, <1>3, <1>4
    <3> QED BY <3>1, DivMod
  <2> QED BY <1>1, <1>2, <2>1, <2>2 DEF part, Parts
<1> QED
  BY <1>1, <1>3, <1>4, <1>5

\* Setting a mask in a word sets as many bits as the mask has, all of the word.
LEMMA MaskInWord ==
  ASSUME NEW w \in Nat, NEW mask \in SUBSET AllBits
  PROVE  LET B == {w * WordBits + b : b \in mask}
         IN  /\ IsFiniteSet(mask) /\ Cardinality(mask) \in Nat
             /\ IsFiniteSet(B) /\ Cardinality(B) = Cardinality(mask)
             /\ \A x \in B : /\ x \in Nat /\ x \div WordBits = w
                             /\ w * WordBits <= x /\ x < w * WordBits + WordBits
<1> DEFINE B == {w * WordBits + b : b \in mask}
           f == [b \in mask |-> w * WordBits + b]
<1>1. WordBits \in Nat \ {0} /\ w * WordBits \in Nat
  BY Sizes
<1>2. \A b \in mask : b \in Nat /\ b < WordBits
  BY <1>1 DEF AllBits
<1>3. IsFiniteSet(mask) /\ Cardinality(mask) \in Nat
  <2>1. IsFiniteSet(AllBits)
    BY <1>1, FS_Interval DEF AllBits
  <2> QED BY <2>1, FS_Subset, FS_CardinalityType
<1>4. IsFiniteSet(B) /\ Cardinality(B) = Cardinality(mask)
  <2>1. f \in Bijection(mask, B)
    <3>1. f \in [mask -> B]
      OBVIOUS
    <3>2. \A a, b \in mask : f[a] = f[b] => a = b
      BY <1>1, <1>2
    <3>3. \A x \in B : \E b \in mask : f[b] = x
      OBVIOUS
    <3> HIDE DEF f, B
    <3> QED BY <3>1, <3>2, <3>3 DEF Bijection, Injection, Surjection, IsInjective
  <2>2. ExistsBijection(mask, B)
    <3> HIDE DEF f, B
    <3> QED BY <2>1 DEF ExistsBijection
  <2> HIDE DEF B
  <2> QED BY <1>3, <2>2, FS_Bijection
<1>5. ASSUME NEW x \in B
      PROVE  /\ x \in Nat /\ x \div WordBits = w
             /\ w * WordBits <= x /\ x < w * WordBits + WordBits
  <2>1. x \in Nat /\ w * WordBits <= x /\ x < w * WordBits + WordBits
    BY <1>1, <1>2
  <2> QED BY <1>1, <2>1, DivIs
<1> QED
  BY <1>3, <1>4, <1>5

\* The marked bits of a word, and how many they are.
LEMMA WordBitsMarked ==
  ASSUME NEW w \in Nat, markWords \subseteq Nat
  PROVE  /\ {b \in markWords : b \div WordBits = w} = {w * WordBits + b : b \in MarkWord(w)}
         /\ MarkWord(w) \in SUBSET AllBits
<1>1. WordBits \in Nat \ {0} /\ w * WordBits \in Nat
  BY Sizes
<1>2. ASSUME NEW b \in markWords, b \div WordBits = w
      PROVE  b - w * WordBits \in MarkWord(w) /\ b = w * WordBits + (b - w * WordBits)
  <2>1. b \in Nat
    OBVIOUS
  <2>2. b % WordBits \in 0 .. WordBits - 1 /\ b = (b \div WordBits) * WordBits + (b % WordBits)
    BY <1>1, <2>1, DivMod
  <2>3. b = w * WordBits + (b % WordBits)
    BY <1>2, <2>2
  <2> DEFINE r == b % WordBits
  <2>4. r \in 0 .. WordBits - 1 /\ b = w * WordBits + r
    BY <2>2, <2>3
  <2> HIDE DEF r
  <2>5. b - w * WordBits = r
    BY <1>1, <2>4
  <2> QED BY <2>4, <2>5 DEF MarkWord, AllBits
<1>3. ASSUME NEW b \in MarkWord(w)
      PROVE  w * WordBits + b \in markWords /\ (w * WordBits + b) \div WordBits = w
  <2>1. b \in AllBits /\ w * WordBits + b \in markWords
    BY DEF MarkWord
  <2>2. b \in Nat /\ b < WordBits
    BY <1>1, <2>1 DEF AllBits
  <2>3. w * WordBits + b \in Nat /\ w * WordBits <= w * WordBits + b
        /\ w * WordBits + b < w * WordBits + WordBits
    BY <1>1, <2>2
  <2> QED BY <1>1, <2>1, <2>3, DivIs
<1> QED
  BY <1>2, <1>3 DEF MarkWord

\* The head bits of an object are all it has in its head word.
LEMMA HeadIsAll ==
  ASSUME starts \subseteq 0 .. Bits - 1, NEW o \in starts
  PROVE  /\ headWordIdx(o) \in 0 .. Words - 1 /\ headMaskBits(o) \in SUBSET AllBits
         /\ \A b \in Extent(starts, o) : b < headWordIdx(o) * WordBits + WordBits => b \in HeadBits(o)
<1> DEFINE h == headWordIdx(o)
           d == o % WordBits
<1>1. o \in Nat /\ o < Bits /\ WordBits \in Nat \ {0} /\ Words \in Nat \ {0}
  BY Sizes
<1>2. h \in Nat /\ d \in 0 .. WordBits - 1 /\ o = h * WordBits + d
  <2>1. /\ o \div WordBits \in Nat
        /\ o % WordBits \in 0 .. WordBits - 1
        /\ o = (o \div WordBits) * WordBits + (o % WordBits)
    BY <1>1, DivMod
  <2> QED BY <2>1, Zenon DEF headWordIdx
<1>3. h < Words
  <2>1. o \div WordBits < Words
    BY <1>1, DivBelow DEF Bits
  <2> QED BY <2>1 DEF headWordIdx
<1>4. EndIn(starts, o) \in Nat /\ h * WordBits \in Nat
  BY <1>1, <1>2, ObjectEnds
<1>5. headMaskBits(o) = {b \in 0 .. WordBits - 1 : d <= b /\ b < d + (EndIn(starts, o) - o)}
  BY SizeIs DEF headMaskBits, AllBits
<1>6. HeadBits(o) = {h * WordBits + b : b \in headMaskBits(o)}
  BY DEF HeadBits
<1> HIDE DEF h, d
<1>7. ASSUME NEW b \in Extent(starts, o), b < h * WordBits + WordBits
      PROVE  b \in HeadBits(o)
  <2>1. b \in Nat /\ o <= b /\ b < EndIn(starts, o)
    BY <1>1, <1>4 DEF Extent
  <2> DEFINE x == b - h * WordBits
  <2>2. /\ x \in 0 .. WordBits - 1 /\ d <= x /\ x < d + (EndIn(starts, o) - o)
        /\ b = h * WordBits + x
    BY <1>1, <1>2, <1>4, <1>7, <2>1
  <2> HIDE DEF x
  <2> QED BY <1>5, <1>6, <2>2
<1>8. headMaskBits(o) \in SUBSET AllBits
  BY DEF headMaskBits
<1> QED
  BY <1>1, <1>2, <1>3, <1>7, <1>8 DEF h

\* The tail bits of an object are all it has in a word behind the head word,
\* there are some, and no word of the object lies behind the last one.
LEMMA TailIsAll ==
  ASSUME starts \subseteq 0 .. Bits - 1, NEW o \in starts
  PROVE  /\ \A w \in Nat : headWordIdx(o) < w /\ w <= LastWordIn(starts, o) =>
              /\ w \in 0 .. Words - 1 /\ tailMaskBits(o, w) \in SUBSET AllBits
              /\ \A b \in Extent(starts, o) :
                    w * WordBits <= b /\ b < w * WordBits + WordBits => b \in TailBits(o, w)
         /\ LastWordIn(starts, o) \in Nat
         /\ \A b \in Extent(starts, o) : b < LastWordIn(starts, o) * WordBits + WordBits
<1> DEFINE h == headWordIdx(o)
           d == o % WordBits
           last == LastWordIn(starts, o)
           E == EndIn(starts, o)
           n == tailBitCnt(o)
           c == (n + WordBits - 1) \div WordBits
<1>1. o \in Nat /\ WordBits \in Nat \ {0} /\ Words \in Nat \ {0}
  BY Sizes
<1>2. h \in Nat /\ d \in 0 .. WordBits - 1 /\ o = h * WordBits + d
  <2>1. /\ o \div WordBits \in Nat
        /\ o % WordBits \in 0 .. WordBits - 1
        /\ o = (o \div WordBits) * WordBits + (o % WordBits)
    BY <1>1, DivMod
  <2> QED BY <2>1, Zenon DEF headWordIdx
<1>3. E \in Nat /\ o < E /\ h * WordBits \in Nat
  BY <1>1, <1>2, ObjectEnds
<1>4. n \in Nat /\ (n = 0 => E <= h * WordBits + WordBits)
      /\ (n > 0 => E = h * WordBits + WordBits + n)
  <2>1. n = Max({E - o - (WordBits - d), 0})
    BY SizeIs DEF tailBitCnt, headBitCnt
  <2> DEFINE x == E - o - (WordBits - d)
  <2>2. x \in Int
    BY <1>1, <1>2, <1>3
  <2>3. n = IF x > 0 THEN x ELSE 0
    <3> HIDE DEF x, n
    <3>1. n = Max({x, 0})
      BY <2>1 DEF x
    <3> QED BY <2>2, <3>1 DEF Max
  <2>4. x = E - (h * WordBits + WordBits)
    <3> HIDE DEF h, d, E
    <3> QED BY <1>1, <1>2, <1>3
  <2> HIDE DEF n, x, h, E
  <2> QED BY <1>1, <1>3, <2>2, <2>3, <2>4
<1>5. c \in Nat /\ last = h + c
  <2>1. c \in Nat
    <3>1. n + WordBits - 1 \in Nat
      BY <1>1, <1>4
    <3> QED BY <1>1, <3>1, DivMod
  <2>2. last = h + c
    BY SizeIs DEF lastWordIdx, tailWordCnt
  <2> QED BY <2>1, <2>2
<1>6. n <= c * WordBits /\ c * WordBits \in Nat
  <2>1. n <= c * WordBits
    BY <1>1, <1>4, RoundUpEnough
  <2> QED BY <1>1, <1>5, <2>1
<1>7. lastWordIdx(o) = last
  BY SizeIs
<1>8. lastMaskBits(o) = {b \in AllBits : b < n % WordBits}
  BY DEF lastMaskBits
<1>9. /\ n % WordBits # 0 => c * WordBits + (n % WordBits) <= n + WordBits
      /\ n % WordBits \in 0 .. WordBits - 1 /\ n = (n \div WordBits) * WordBits + (n % WordBits)
      /\ n \div WordBits \in Nat
  BY <1>1, <1>4, RoundUp, DivMod
<1>10. \A b \in Extent(starts, o) : b \in Nat /\ o <= b /\ b < E
  BY <1>1, <1>3 DEF Extent
<1>11. last * WordBits = h * WordBits + c * WordBits
  <2> HIDE DEF h, c, last
  <2> QED BY <1>1, <1>2, <1>5
<1>12. \A b \in Extent(starts, o) : b < last * WordBits + WordBits
  <2> HIDE DEF h, c, last, E, n
  <2> QED BY <1>1, <1>3, <1>4, <1>6, <1>10, <1>11
<1>13. ASSUME NEW w \in Nat, h < w, w <= last
       PROVE  /\ w \in 0 .. Words - 1 /\ tailMaskBits(o, w) \in SUBSET AllBits
              /\ \A b \in Extent(starts, o) :
                    w * WordBits <= b /\ b < w * WordBits + WordBits => b \in TailBits(o, w)
  <2>1. tailMaskBits(o, w) \in SUBSET AllBits
    BY DEF tailMaskBits, lastMaskBits
  <2>2. w * WordBits \in Nat
    BY <1>1
  <2>3. ASSUME NEW b \in Extent(starts, o), w * WordBits <= b, b < w * WordBits + WordBits
        PROVE  b \in TailBits(o, w)
    <3> DEFINE x == b - w * WordBits
    <3>1. x \in AllBits /\ x \in Nat /\ b = w * WordBits + x
      BY <1>1, <1>10, <2>2, <2>3 DEF AllBits
    <3>2. CASE FullWord(o, w)
      BY <3>1, <3>2 DEF TailBits, tailMaskBits
    <3>3. CASE ~FullWord(o, w)
      <4>1. w = last /\ lastMaskBits(o) # {}
        <5>1. last \in Nat /\ w <= last
          <6> HIDE DEF h, c
          <6> QED BY <1>2, <1>5, <1>13
        <5> HIDE DEF last
        <5> QED BY <1>7, <3>3, <5>1 DEF FullWord
      <4>2. n % WordBits # 0
        BY <1>8, <4>1 DEF AllBits
      <4> DEFINE r == n % WordBits
                 k == n \div WordBits
      <4>3. c * WordBits + r <= n + WordBits /\ r \in Nat /\ n = k * WordBits + r /\ k \in Nat /\ r # 0
            /\ r < WordBits
        BY <1>1, <1>9, <4>2
      <4>4. c * WordBits >= k * WordBits + WordBits
        <5>1. k < c
          <6> HIDE DEF k, r, n, c
          <6>1. c <= k => c * WordBits <= k * WordBits
            <7>1. c < k => c * WordBits + WordBits <= k * WordBits
              BY <1>1, <1>5, <4>3, Multiples
            <7>2. k * WordBits \in Nat
              BY <1>1, <4>3
            <7> QED BY <1>1, <1>5, <1>6, <4>3, <7>1, <7>2
          <6>2. k * WordBits \in Nat
            BY <1>1, <4>3
          <6> QED BY <1>4, <1>5, <1>6, <4>3, <6>1, <6>2
        <5> HIDE DEF k, r, n, c
        <5> QED BY <1>1, <1>5, <4>3, <5>1, Multiples
      <4>5. x < r
        <5>1. b < E /\ b \in Nat /\ w * WordBits = h * WordBits + c * WordBits
          BY <1>10, <1>11, <4>1
        <5>2. k * WordBits \in Nat
          <6> HIDE DEF k
          <6> QED BY <1>1, <4>3
        <5>3. n > 0 /\ E = h * WordBits + WordBits + n
          <6> HIDE DEF k, r, n, c, E
          <6> QED BY <1>4, <4>3, <5>2
        <5> HIDE DEF k, r, n, c, h, E
        <5> QED BY <1>1, <1>3, <1>6, <4>3, <4>4, <5>1, <5>2, <5>3
      <4>6. x \in lastMaskBits(o)
        <5> HIDE DEF x, n
        <5> QED BY <1>8, <3>1, <4>5
      <4> QED BY <3>1, <3>3, <4>6 DEF TailBits, tailMaskBits
    <3> QED BY <3>2, <3>3
  <2>4. w < Words
    <3>1. \E b : b \in TailBits(o, w)
      <4>1. CASE FullWord(o, w)
        <5>1. 0 \in AllBits
          BY <1>1 DEF AllBits
        <5> QED BY <4>1, <5>1 DEF TailBits, tailMaskBits
      <4>2. CASE ~FullWord(o, w)
        BY <4>2 DEF TailBits, tailMaskBits, FullWord
      <4> QED BY <4>1, <4>2
    <3>2. PICK b : b \in TailBits(o, w)
      BY <3>1
    <3>3. b \in Extent(starts, o) /\ w * WordBits <= b
      <4> HIDE DEF h, last
      <4> QED BY <1>13, <3>2, TailCovers DEF h, last
    <3>4. b < Bits /\ b \in Nat /\ Bits \in Nat
      BY <3>3, <1>10, ObjectEnds, Sizes
    <3>5. Words <= w => Words * WordBits <= w * WordBits
      <4>1. Words < w => Words * WordBits + WordBits <= w * WordBits
        BY <1>1, Multiples
      <4> QED BY <1>1, <2>2, <4>1, Sizes DEF Bits
    <3> QED BY <1>1, <2>2, <3>3, <3>4, <3>5 DEF Bits
  <2> QED BY <1>1, <2>1, <2>3, <2>4
<1> QED
  BY <1>1, <1>2, <1>5, <1>12, <1>13

-----------------------------------------------------------------------------
(***************************************************************************)
(* The counters.  A marker counts every bit it has set exactly once, in    *)
(* the part of the word it set it in: the counters lag by what is between  *)
(* a fetch-or and its fetch-add.  The live bytes are the sizes of the      *)
(* objects counted so far.                                                 *)
(***************************************************************************)

\* The bits of an object are marked as far as its winner has come, and all of
\* them once it is won.
Covered ==
    /\ \A m \in Markers : Winning(m) =>
          \A b \in Extent(starts, object[m]) : b < Reached(m) => b \in markWords
    /\ \A o \in starts : won[o] = 1 => Extent(starts, o) \subseteq markWords

CountTypes == partLiveBytes \in [Parts -> Nat] /\ liveBytes \in Nat

\* The objects whose size is in the live bytes.
Counted ==
    {o \in starts : \/ won[o] = 1
                    \/ \E m \in Markers : object[m] = o /\ pc[m] \in {"tail", "tailPart"}}

LiveCounted == liveBytes = SumFunctionOnSet([o \in starts |-> Size(o)], Counted)

Counters == Covered /\ CountTypes /\ CountsFollowWords /\ LiveCounted

\* What a marker has not counted, in a layout S.
HeadMaskIn(S, o) ==
    {b \in AllBits : o % WordBits <= b /\ b < (o % WordBits) + (EndIn(S, o) - o)}
LastMaskIn(S, o) ==
    {b \in AllBits : b < Max({EndIn(S, o) - o - headBitCnt(o), 0}) % WordBits}
TailMaskIn(S, o, w) ==
    IF w < LastWordIn(S, o) \/ LastMaskIn(S, o) = {} THEN AllBits ELSE LastMaskIn(S, o)
UncountedIn(S, at, o, w, p) ==
    IF at = "headPart" /\ part(headWordIdx(o)) = p THEN Cardinality(HeadMaskIn(S, o))
    ELSE IF at = "tailPart" /\ part(w) = p THEN Cardinality(TailMaskIn(S, o, w))
    ELSE 0

LEMMA MasksAre ==
  ASSUME NEW o, NEW w
  PROVE  headMaskBits(o) = HeadMaskIn(starts, o) /\ tailMaskBits(o, w) = TailMaskIn(starts, o, w)
<1>1. headMaskBits(o) = HeadMaskIn(starts, o)
  BY DEF headMaskBits, HeadMaskIn, Size, EndIn
<1>2. lastMaskBits(o) = LastMaskIn(starts, o)
  BY DEF lastMaskBits, LastMaskIn, tailBitCnt, Size, EndIn
<1> QED
  BY <1>1, <1>2, SizeIs DEF tailMaskBits, TailMaskIn, FullWord

LEMMA UncountedIs ==
  ASSUME NEW m, NEW p
  PROVE  /\ Uncounted(m, p) = UncountedIn(starts, pc[m], object[m], idx[m], p)
         /\ Uncounted(m, p)' = UncountedIn(starts', pc'[m], object'[m], idx'[m], p)
<1>1. Uncounted(m, p) = UncountedIn(starts, pc[m], object[m], idx[m], p)
  BY MasksAre DEF Uncounted, UncountedIn
<1>2. Uncounted(m, p)' = UncountedIn(starts', pc'[m], object'[m], idx'[m], p)
  BY DEF Uncounted, UncountedIn, headMaskBits, HeadMaskIn, lastMaskBits, LastMaskIn,
         tailMaskBits, TailMaskIn, FullWord, lastWordIdx, LastWordIn, tailWordCnt,
         tailBitCnt, Size, EndIn, headWordIdx, headBitCnt, part
<1> QED
  BY <1>1, <1>2

\* The bits of a word a mask stands for, and those of a part.
BitsOf(w, mask) == {w * WordBits + b : b \in mask}
InPart(M, p) == {b \in M : part(b \div WordBits) = p}

\* The marked bits are bits of the region.
LEMMA MarksInRegion ==
  ASSUME Types, MarksOwned
  PROVE  markWords \subseteq 0 .. Bits - 1
<1> SUFFICES ASSUME NEW b \in markWords
             PROVE  b \in 0 .. Bits - 1
  OBVIOUS
<1>1. PICK o \in starts : b \in Extent(starts, o)
  BY DEF MarksOwned
<1>2. EndIn(starts, o) \in Nat /\ EndIn(starts, o) <= Bits /\ Bits \in Nat /\ o \in Nat
  BY ObjectEnds, Sizes DEF Types
<1> QED
  BY <1>1, <1>2 DEF Extent

LEMMA RegionFinite ==
  ASSUME NEW M \in SUBSET (0 .. Bits - 1)
  PROVE  /\ IsFiniteSet(M) /\ Cardinality(M) \in Nat
         /\ \A p : IsFiniteSet(InPart(M, p)) /\ Cardinality(InPart(M, p)) \in Nat
<1>1. IsFiniteSet(0 .. Bits - 1)
  BY Sizes, FS_Interval
<1>2. \A p : InPart(M, p) \subseteq M
  BY DEF InPart
<1>3. IsFiniteSet(M)
  BY <1>1, FS_Subset
<1> QED
  BY <1>2, <1>3, FS_Subset, FS_CardinalityType

\* Two disjoint sets have as many elements as each of them together.
LEMMA Together ==
  ASSUME NEW A, IsFiniteSet(A), NEW B, IsFiniteSet(B), A \cap B = {}
  PROVE  IsFiniteSet(A \cup B) /\ Cardinality(A \cup B) = Cardinality(A) + Cardinality(B)
<1>1. Cardinality(A \cap B) = 0
  BY FS_EmptySet
<1>2. Cardinality(A) \in Nat /\ Cardinality(B) \in Nat
  BY FS_CardinalityType
<1>3. /\ IsFiniteSet(A \cup B)
      /\ Cardinality(A \cup B) = Cardinality(A) + Cardinality(B) - Cardinality(A \cap B)
  BY FS_Union
<1> QED
  BY <1>1, <1>2, <1>3

LEMMA IntervalSize ==
  ASSUME NEW a \in Nat, NEW n \in Nat
  PROVE  IsFiniteSet(a .. a + n - 1) /\ Cardinality(a .. a + n - 1) = n
<1> DEFINE b == a + n - 1
<1>1. b \in Int /\ a \in Int /\ (a > b <=> n = 0) /\ b - a + 1 = n
  OBVIOUS
<1> HIDE DEF b
<1>2. IsFiniteSet(a .. b) /\ Cardinality(a .. b) = IF a > b THEN 0 ELSE b - a + 1
  BY <1>1, FS_Interval
<1>3. Cardinality(a .. b) = n
  BY <1>1, <1>2
<1> QED
  BY <1>2, <1>3 DEF b

\* New bits of one word count in the part of that word.
LEMMA PartCount ==
  ASSUME NEW M \in SUBSET (0 .. Bits - 1), NEW w \in 0 .. Words - 1,
         NEW mask \in SUBSET AllBits, BitsOf(w, mask) \cap M = {}, NEW p \in Parts
  PROVE  Cardinality(InPart(M \cup BitsOf(w, mask), p))
           = Cardinality(InPart(M, p)) + (IF part(w) = p THEN Cardinality(mask) ELSE 0)
<1> DEFINE B == BitsOf(w, mask)
<1>1. w \in Nat
  BY Sizes
<1>2. /\ IsFiniteSet(B) /\ Cardinality(B) = Cardinality(mask)
      /\ \A x \in B : x \div WordBits = w
  BY <1>1, MaskInWord, Zenon DEF BitsOf
<1>3. IsFiniteSet(InPart(M, p)) /\ Cardinality(InPart(M, p)) \in Nat
  BY RegionFinite
<1>4. CASE part(w) = p
  <2>1. InPart(M \cup B, p) = InPart(M, p) \cup B /\ InPart(M, p) \cap B = {}
    BY <1>2, <1>4 DEF InPart
  <2>2. Cardinality(InPart(M, p) \cup B) = Cardinality(InPart(M, p)) + Cardinality(B)
    <3> DEFINE A == InPart(M, p)
    <3>1. IsFiniteSet(A) /\ IsFiniteSet(B) /\ A \cap B = {}
      BY <1>2, <1>3, <2>1
    <3> HIDE DEF A
    <3>2. Cardinality(A \cup B) = Cardinality(A) + Cardinality(B)
      BY <3>1, Together
    <3> QED BY <3>2 DEF A
  <2> QED BY <1>2, <1>4, <2>1, <2>2
<1>5. CASE part(w) # p
  <2>1. InPart(M \cup B, p) = InPart(M, p)
    BY <1>2, <1>5 DEF InPart
  <2> QED BY <1>3, <1>5, <2>1
<1> QED
  BY <1>4, <1>5

\* No part has more bits than its counter can hold.
LEMMA PartBound ==
  ASSUME NEW M \in SUBSET (0 .. Bits - 1), NEW p \in Parts
  PROVE  Cardinality(InPart(M, p)) < PartMod
<1> DEFINE first == p * step
           low == first * WordBits
           size == step * WordBits
<1>1. /\ step \in Nat \ {0} /\ WordBits \in Nat \ {0} /\ p \in Nat
      /\ size < PartMod /\ PartMod \in Nat
  BY PartSizes, Sizes, SizeAssumption DEF Parts
<1>2. first \in Nat /\ low \in Nat /\ size \in Nat
  BY <1>1
<1>3. ASSUME NEW b \in InPart(M, p)
      PROVE  b \in low .. low + size - 1
  <2>1. b \in Nat /\ (b \div WordBits) \div step = p
    BY Sizes DEF InPart, part
  <2> DEFINE w == b \div WordBits
             r == b % WordBits
             k == w % step
  <2>2. w \in Nat /\ r \in 0 .. WordBits - 1 /\ b = w * WordBits + r
    BY <1>1, <2>1, DivMod
  <2>3. k \in 0 .. step - 1 /\ w = p * step + k
    <3>1. w % step \in 0 .. step - 1 /\ w = (w \div step) * step + (w % step)
      <4> HIDE DEF w
      <4> QED BY <1>1, <2>2, DivMod
    <3> QED BY <2>1, <3>1
  <2> HIDE DEF w, r, k
  <2>4. w * WordBits = low + k * WordBits
    <3>1. (first + k) * WordBits = first * WordBits + k * WordBits
      <4> HIDE DEF first
      <4> QED BY <1>1, <1>2, <2>3
    <3> QED BY <2>3, <3>1
  <2>5. k * WordBits + WordBits <= size /\ k * WordBits \in Nat
    BY <1>1, <2>3, Multiples
  <2> HIDE DEF low, size, first
  <2> QED BY <1>1, <1>2, <2>2, <2>4, <2>5
<1>4. IsFiniteSet(low .. low + size - 1) /\ Cardinality(low .. low + size - 1) = size
  <2> HIDE DEF low, size
  <2> QED BY <1>2, IntervalSize
<1>5. Cardinality(InPart(M, p)) <= Cardinality(low .. low + size - 1)
  <2> HIDE DEF low, size
  <2> QED BY <1>3, <1>4, FS_Subset
<1> HIDE DEF low, size
<1> QED
  BY <1>1, <1>2, <1>4, <1>5, RegionFinite

LEMMA UncountedNat ==
  ASSUME NEW m, NEW p
  PROVE  Uncounted(m, p) \in Nat /\ Uncounted(m, p)' \in Nat
<1>1. ASSUME NEW S, NEW at, NEW o, NEW w
      PROVE  UncountedIn(S, at, o, w, p) \in Nat
  <2>1. HeadMaskIn(S, o) \in SUBSET AllBits /\ TailMaskIn(S, o, w) \in SUBSET AllBits
    BY DEF HeadMaskIn, TailMaskIn, LastMaskIn
  <2>2. 0 \in Nat /\ \A mask \in SUBSET AllBits : Cardinality(mask) \in Nat
    BY MaskInWord
  <2> QED BY <2>1, <2>2 DEF UncountedIn
<1> QED
  BY <1>1, UncountedIs

\* A marker that does nothing has the same bits to count.
LEMMA SameUncounted ==
  ASSUME starts' = starts, NEW n, pc'[n] = pc[n], object'[n] = object[n], idx'[n] = idx[n], NEW p
  PROVE  Uncounted(n, p)' = Uncounted(n, p)
BY UncountedIs

\* What all have to count changes with what one has to count.
LEMMA UncountedSum ==
  ASSUME NEW m \in Markers, NEW p, \A n \in Markers \ {m} : Uncounted(n, p)' = Uncounted(n, p)
  PROVE  LET sum == SumFunctionOnSet([n \in Markers |-> Uncounted(n, p)], Markers)
         IN  /\ sum \in Nat /\ sum' \in Nat /\ Uncounted(m, p) <= sum
             /\ Uncounted(m, p) \in Nat /\ Uncounted(m, p)' \in Nat
             /\ sum' + Uncounted(m, p) = sum + Uncounted(m, p)'
<1> DEFINE f == [n \in Markers |-> Uncounted(n, p)]
           g == [n \in Markers |-> Uncounted(n, p)']
<1>1. IsFiniteSet(Markers)
  BY SizeAssumption
<1>2. \A n \in Markers : f[n] \in Nat /\ g[n] \in Nat
  BY UncountedNat
<1>3. \A n \in Markers \ {m} : g[n] = f[n]
  OBVIOUS
<1>4. f[m] = Uncounted(m, p) /\ g[m] = Uncounted(m, p)'
  OBVIOUS
<1> HIDE DEF f, g
<1>5. SumFunctionOnSet(f, Markers) \in Nat /\ SumFunctionOnSet(g, Markers) \in Nat
  BY <1>1, <1>2, SumNat
<1>6. f[m] <= SumFunctionOnSet(f, Markers)
  BY <1>1, <1>2, SumAtLeast
<1>7. SumFunctionOnSet(g, Markers) + f[m] = SumFunctionOnSet(f, Markers) + g[m]
  BY <1>1, <1>2, <1>3, SumChange
<1> QED
  BY <1>2, <1>4, <1>5, <1>6, <1>7 DEF f, g

\* A fetch-or: the marker has the new bits to count.
LEMMA SetKeepsCounts ==
  ASSUME CountsFollowWords, CountTypes, markWords \subseteq 0 .. Bits - 1,
         NEW m \in Markers, NEW w \in 0 .. Words - 1, NEW mask \in SUBSET AllBits,
         \A p \in Parts : Cardinality(InPart(markWords', p))
           = Cardinality(InPart(markWords, p)) + (IF part(w) = p THEN Cardinality(mask) ELSE 0),
         partLiveBytes' = partLiveBytes,
         \A p \in Parts : \A n \in Markers \ {m} : Uncounted(n, p)' = Uncounted(n, p),
         \A p \in Parts : /\ Uncounted(m, p) = 0
                          /\ Uncounted(m, p)' = IF part(w) = p THEN Cardinality(mask) ELSE 0
  PROVE  CountsFollowWords'
<1> SUFFICES ASSUME NEW p \in Parts
             PROVE  partLiveBytes'[p]
                      + SumFunctionOnSet([n \in Markers |-> Uncounted(n, p)'], Markers)
                        = Cardinality(InPart(markWords', p))
  BY DEF CountsFollowWords, InPart
<1> DEFINE sum == SumFunctionOnSet([n \in Markers |-> Uncounted(n, p)], Markers)
           next == SumFunctionOnSet([n \in Markers |-> Uncounted(n, p)'], Markers)
<1>1. partLiveBytes[p] + sum = Cardinality(InPart(markWords, p)) /\ partLiveBytes[p] \in Nat
  BY DEF CountsFollowWords, InPart, CountTypes
<1>2. /\ sum \in Nat /\ next \in Nat
      /\ Uncounted(m, p) \in Nat /\ Uncounted(m, p)' \in Nat
      /\ next + Uncounted(m, p) = sum + Uncounted(m, p)'
  BY UncountedSum
<1>3. Cardinality(InPart(markWords', p))
        = Cardinality(InPart(markWords, p)) + (IF part(w) = p THEN Cardinality(mask) ELSE 0)
  BY Zenon
<1>4. /\ Uncounted(m, p) = 0
      /\ Uncounted(m, p)' = IF part(w) = p THEN Cardinality(mask) ELSE 0
  OBVIOUS
<1> HIDE DEF sum, next
<1>5. partLiveBytes'[p] + next = Cardinality(InPart(markWords', p))
  BY <1>1, <1>2, <1>3, <1>4
<1> QED
  BY <1>5 DEF next

\* A fetch-add: the marker has counted its bits, and the counter holds them.
LEMMA AddKeepsCounts ==
  ASSUME CountsFollowWords, CountTypes, markWords \subseteq 0 .. Bits - 1,
         NEW m \in Markers, NEW w \in 0 .. Words - 1, NEW mask \in SUBSET AllBits,
         AddToPart(w, mask), markWords' = markWords,
         \A p \in Parts : \A n \in Markers \ {m} : Uncounted(n, p)' = Uncounted(n, p),
         \A p \in Parts : /\ Uncounted(m, p)' = 0
                          /\ Uncounted(m, p) = IF part(w) = p THEN Cardinality(mask) ELSE 0
  PROVE  CountsFollowWords' /\ partLiveBytes' \in [Parts -> Nat]
<1>1. /\ partLiveBytes \in [Parts -> Nat] /\ PartMod \in Nat \ {0} /\ part(w) \in Parts
      /\ Cardinality(mask) \in Nat
  <2>1. 0 \in Nat
    OBVIOUS
  <2> QED BY <2>1, PartSizes, MaskInWord DEF CountTypes
<1>2. partLiveBytes' = [partLiveBytes EXCEPT
        ![part(w)] = (partLiveBytes[part(w)] + Cardinality(mask)) % PartMod]
  BY DEF AddToPart
<1>3. ASSUME NEW p \in Parts
      PROVE  /\ partLiveBytes'[p] \in Nat
             /\ partLiveBytes'[p]
                  + SumFunctionOnSet([n \in Markers |-> Uncounted(n, p)'], Markers)
                    = Cardinality(InPart(markWords', p))
  <2> DEFINE sum == SumFunctionOnSet([n \in Markers |-> Uncounted(n, p)], Markers)
             next == SumFunctionOnSet([n \in Markers |-> Uncounted(n, p)'], Markers)
             count == Cardinality(InPart(markWords, p))
             k == Cardinality(mask)
  <2>1. partLiveBytes[p] + sum = count /\ partLiveBytes[p] \in Nat
    BY DEF CountsFollowWords, InPart, CountTypes
  <2>2. /\ sum \in Nat /\ next \in Nat /\ Uncounted(m, p) <= sum
        /\ Uncounted(m, p) \in Nat /\ Uncounted(m, p)' \in Nat
        /\ next + Uncounted(m, p) = sum + Uncounted(m, p)'
    BY UncountedSum
  <2>3. count < PartMod /\ count \in Nat
    BY PartBound, RegionFinite
  <2>4. Uncounted(m, p)' = 0 /\ Uncounted(m, p) = IF part(w) = p THEN k ELSE 0
    OBVIOUS
  <2>5. partLiveBytes'[p] = IF part(w) = p THEN (partLiveBytes[p] + k) % PartMod
                            ELSE partLiveBytes[p]
    BY <1>1, <1>2
  <2>6. k \in Nat /\ markWords' = markWords
    BY <1>1
  <2> HIDE DEF sum, next, count, k
  <2>7. CASE part(w) = p
    <3>1. partLiveBytes[p] + k <= count
      BY <2>1, <2>2, <2>4, <2>6, <2>7
    <3> DEFINE x == partLiveBytes[p] + k
    <3>2. x \in 0 .. PartMod - 1
      BY <1>1, <2>1, <2>3, <2>6, <3>1
    <3>3. x % PartMod = x
      <4> HIDE DEF x
      <4> QED BY <1>1, <3>2
    <3>4. partLiveBytes'[p] = x /\ x \in Nat
      BY <2>5, <2>7, <3>2, <3>3
    <3>5. partLiveBytes'[p] + next = count
      BY <2>1, <2>2, <2>3, <2>4, <2>6, <2>7, <3>4
    <3> QED BY <3>4, <3>5, <2>6 DEF next, count
  <2>8. CASE part(w) # p
    <3>1. partLiveBytes'[p] = partLiveBytes[p] /\ partLiveBytes'[p] + next = count
      BY <2>1, <2>2, <2>3, <2>4, <2>5, <2>8
    <3> QED BY <3>1, <2>1, <2>6 DEF next, count
  <2> QED BY <2>7, <2>8
<1>4. CountsFollowWords'
  BY <1>3 DEF CountsFollowWords, InPart
<1>5. partLiveBytes' \in [Parts -> Nat]
  BY <1>1, <1>2, <1>3
<1> QED
  BY <1>4, <1>5

\* Any other step.
LEMMA OtherKeepsCounts ==
  ASSUME CountsFollowWords, markWords' = markWords, partLiveBytes' = partLiveBytes,
         \A p \in Parts : \A n \in Markers : Uncounted(n, p)' = Uncounted(n, p)
  PROVE  CountsFollowWords'
<1> SUFFICES ASSUME NEW p \in Parts
             PROVE  partLiveBytes'[p]
                      + SumFunctionOnSet([n \in Markers |-> Uncounted(n, p)'], Markers)
                        = Cardinality(InPart(markWords', p))
  BY DEF CountsFollowWords, InPart
<1>1. [n \in Markers |-> Uncounted(n, p)'] = [n \in Markers |-> Uncounted(n, p)]
  OBVIOUS
<1>2. partLiveBytes[p] + SumFunctionOnSet([n \in Markers |-> Uncounted(n, p)], Markers)
        = Cardinality(InPart(markWords, p))
  BY DEF CountsFollowWords, InPart
<1> QED
  BY <1>1, <1>2

\* New bits of a word count in its part.
LEMMA MarkedCount ==
  ASSUME markWords \subseteq 0 .. Bits - 1, NEW w \in 0 .. Words - 1, NEW mask \in SUBSET AllBits,
         BitsOf(w, mask) \cap markWords = {}, markWords' = markWords \cup BitsOf(w, mask)
  PROVE  \A p \in Parts : Cardinality(InPart(markWords', p))
           = Cardinality(InPart(markWords, p)) + (IF part(w) = p THEN Cardinality(mask) ELSE 0)
<1> SUFFICES ASSUME NEW p \in Parts
             PROVE  Cardinality(InPart(markWords \cup BitsOf(w, mask), p))
           = Cardinality(InPart(markWords, p)) + (IF part(w) = p THEN Cardinality(mask) ELSE 0)
  BY Zenon
<1>1. markWords \in SUBSET (0 .. Bits - 1)
  OBVIOUS
<1> QED
  BY <1>1, PartCount, Zenon

\* All markers but one rest.
OthersRest(m) ==
    \A n \in Markers \ {m} : pc'[n] = pc[n] /\ object'[n] = object[n] /\ idx'[n] = idx[n]

LEMMA CoveredStep ==
  ASSUME Covered, NEW m \in Markers, starts' = starts, OthersRest(m),
         markWords \subseteq markWords',
         Winning(m)' => \A b \in Extent(starts, object'[m]) : b < Reached(m)' => b \in markWords',
         \A o \in starts : won'[o] = 1 => won[o] = 1 \/ Extent(starts, o) \subseteq markWords'
  PROVE  Covered'
<1>1. ASSUME NEW n \in Markers \ {m}
      PROVE  /\ Winning(n)' <=> Winning(n)
             /\ object'[n] = object[n] /\ Reached(n)' = Reached(n)
  BY DEF OthersRest, Winning, Reached, headWordIdx
<1>2. ASSUME NEW n \in Markers, Winning(n)', NEW b \in Extent(starts, object'[n]), b < Reached(n)'
      PROVE  b \in markWords'
  <2>1. CASE n = m
    BY <1>2, <2>1
  <2>2. CASE n # m
    <3>1. /\ Winning(n) /\ object'[n] = object[n] /\ Reached(n)' = Reached(n)
      BY <1>1, <1>2, <2>2
    <3>2. b \in markWords
      BY <1>2, <3>1 DEF Covered
    <3> QED BY <3>2
  <2> QED BY <2>1, <2>2
<1>3. \A o \in starts : won'[o] = 1 => Extent(starts, o) \subseteq markWords'
  BY DEF Covered
<1> QED
  BY <1>2, <1>3 DEF Covered

\* The sizes do not change with the layout.
LEMMA SizesStay ==
  ASSUME starts' = starts, Counted' = Counted, liveBytes' = liveBytes, LiveCounted
  PROVE  LiveCounted'
<1>1. [o \in starts |-> Size(o)]' = [o \in starts |-> Size(o)]
  BY DEF Size
<1> QED
  BY <1>1 DEF LiveCounted

\* Who is counted stays counted, and nobody else is.
LEMMA CountedStays ==
  ASSUME NEW m \in Markers, starts' = starts, won' = won, OthersRest(m),
         pc'[m] \in {"tail", "tailPart"} <=> pc[m] \in {"tail", "tailPart"},
         pc[m] \in {"tail", "tailPart"} => object'[m] = object[m]
  PROVE  Counted' = Counted
<1>1. \A n \in Markers : /\ pc'[n] \in {"tail", "tailPart"} <=> pc[n] \in {"tail", "tailPart"}
                         /\ pc[n] \in {"tail", "tailPart"} => object'[n] = object[n]
  BY DEF OthersRest
<1> QED
  BY <1>1 DEF Counted

LEMMA StartKeepsCounters ==
  ASSUME IInv, Counters, NEW m \in Markers, (\E o \in starts : StartMark(m, o)) \/ LoadHead(m)
  PROVE  Counters'
<1>1. /\ UNCHANGED <<starts, markWords, partLiveBytes, liveBytes, won>>
      /\ pc' = [pc EXCEPT ![m] = pc'[m]] /\ object' = [object EXCEPT ![m] = object'[m]]
      /\ idx' = [idx EXCEPT ![m] = idx'[m]]
      /\ pc[m] \in {"idle", "load"} /\ pc'[m] \in {"idle", "load", "head"}
  BY DEF IInv, Types, StartMark, LoadHead, Goto, Return, PCs
<1>2. OthersRest(m)
  BY <1>1 DEF OthersRest, IInv, Types
<1>3. Covered'
  <2>1. ~Winning(m)'
    BY <1>1 DEF Winning
  <2> QED BY <1>1, <1>2, <2>1, CoveredStep DEF Counters
<1>4. Counted' = Counted
  BY <1>1, <1>2, CountedStays
<1>5. LiveCounted'
  BY <1>1, <1>4, SizesStay DEF Counters
<1>6. ASSUME NEW n \in Markers, NEW p \in Parts
      PROVE  Uncounted(n, p)' = Uncounted(n, p)
  <2>1. CASE n = m
    <3>1. Uncounted(m, p) = 0 /\ Uncounted(m, p)' = 0
      BY <1>1, UncountedIs DEF UncountedIn
    <3> QED BY <2>1, <3>1
  <2>2. CASE n # m
    BY <1>1, <1>2, <2>2, SameUncounted DEF OthersRest
  <2> QED BY <2>1, <2>2
<1>7. CountsFollowWords'
  BY <1>1, <1>6, OtherKeepsCounts DEF Counters
<1>8. CountTypes'
  BY <1>1 DEF Counters, CountTypes
<1> QED
  BY <1>3, <1>5, <1>7, <1>8 DEF Counters

LEMMA OthersUncounted ==
  ASSUME starts' = starts, NEW m \in Markers, OthersRest(m)
  PROVE  \A p \in Parts : \A n \in Markers \ {m} : Uncounted(n, p)' = Uncounted(n, p)
BY SameUncounted DEF OthersRest

\* The winner's fetch-or of the head word; anybody else's sets nothing new.
LEMMA OrHeadKeepsCounters ==
  ASSUME IInv, Counters, NEW m \in Markers, OrHead(m)
  PROVE  Counters'
<1> DEFINE o == object[m]
           h == headWordIdx(o)
<1>1. o \in starts /\ o \in Nat /\ pc[m] = "head" /\ starts \subseteq 0 .. Bits - 1
  BY DEF IInv, AtObject, Types, OrHead
<1>2. UNCHANGED <<starts, won, partLiveBytes, liveBytes>> /\ markWords' = markWords \cup HeadBits(o)
  BY DEF OrHead, FetchOr, HeadBits
<1>3. \/ /\ o \notin markWords /\ pc' = [pc EXCEPT ![m] = "headPart"]
         /\ UNCHANGED <<object, idx>>
      \/ /\ o \in markWords /\ pc' = [pc EXCEPT ![m] = "idle"]
         /\ object' = [object EXCEPT ![m] = 0] /\ idx' = [idx EXCEPT ![m] = 0]
  BY <1>1, ClearIsUnmarked DEF OrHead, Goto, Return, IInv
<1>4. OthersRest(m)
  BY <1>3 DEF OthersRest, IInv, Types
<1>5. /\ HeadBits(o) \subseteq Extent(starts, o) /\ h \in Nat
      /\ \A b \in HeadBits(o) : b < h * WordBits + WordBits
  BY <1>1, HeadCovers
<1>6. /\ h \in 0 .. Words - 1 /\ headMaskBits(o) \in SUBSET AllBits
      /\ \A b \in Extent(starts, o) : b < h * WordBits + WordBits => b \in HeadBits(o)
  BY <1>1, HeadIsAll
<1>7. HeadBits(o) = BitsOf(h, headMaskBits(o))
  BY DEF HeadBits, BitsOf
<1>8. markWords \subseteq 0 .. Bits - 1
  BY MarksInRegion DEF IInv
<1>9. pc'[m] \in {"headPart", "idle"}
  BY <1>3 DEF IInv, Types
<1>10. Counted' = Counted
  BY <1>1, <1>2, <1>4, <1>9, CountedStays
<1>11. LiveCounted'
  BY <1>2, <1>10, SizesStay DEF Counters
<1>12. \A p \in Parts : \A n \in Markers \ {m} : Uncounted(n, p)' = Uncounted(n, p)
  BY <1>2, <1>4, OthersUncounted
<1>13. \A p \in Parts : Uncounted(m, p) = 0
  BY <1>1, UncountedIs DEF UncountedIn
<1>14. CountTypes'
  BY <1>2 DEF Counters, CountTypes
<1>15. CASE o \notin markWords
  <2>1. pc'[m] = "headPart" /\ object'[m] = o
    BY <1>3, <1>15 DEF IInv, Types
  <2>2. HeadBits(o) \cap markWords = {}
    <3> SUFFICES ASSUME NEW b \in HeadBits(o), b \in markWords
                 PROVE  FALSE
      OBVIOUS
    <3>1. PICK p \in starts : b \in Extent(starts, p) /\ p \in markWords
      BY DEF IInv, MarksOwned
    <3>2. o = p
      BY <1>1, <1>5, <3>1, Disjoint
    <3> QED BY <1>15, <3>1, <3>2
  <2>3. \A p \in Parts : Cardinality(InPart(markWords', p))
          = Cardinality(InPart(markWords, p))
              + (IF part(h) = p THEN Cardinality(headMaskBits(o)) ELSE 0)
    <3> HIDE DEF o, h
    <3> QED BY <1>2, <1>6, <1>7, <1>8, <2>2, MarkedCount
  <2>4. \A p \in Parts : Uncounted(m, p)' = IF part(h) = p THEN Cardinality(headMaskBits(o)) ELSE 0
    <3>1. headMaskBits(o) = HeadMaskIn(starts, o)
      BY MasksAre
    <3> QED BY <1>2, <2>1, <3>1, UncountedIs DEF UncountedIn
  <2>5. CountsFollowWords'
    <3> HIDE DEF o, h
    <3> QED BY <1>2, <1>6, <1>8, <1>12, <1>13, <2>3, <2>4, SetKeepsCounts DEF Counters
  <2>6. Covered'
    <3>1. Reached(m)' = h * WordBits + WordBits
      BY <2>1 DEF Reached, headWordIdx
    <3> QED BY <1>2, <1>4, <1>6, <2>1, <3>1, CoveredStep DEF Counters
  <2> QED BY <1>11, <1>14, <2>5, <2>6 DEF Counters
<1>16. CASE o \in markWords
  <2>1. pc'[m] = "idle"
    BY <1>3, <1>16 DEF IInv, Types
  <2>2. HeadBits(o) \subseteq markWords
    <3> SUFFICES ASSUME NEW b \in HeadBits(o)
                 PROVE  b \in markWords
      OBVIOUS
    <3>1. CASE won[o] = 1
      BY <1>1, <1>5, <3>1 DEF Counters, Covered
    <3>2. CASE won[o] # 1
      <4>1. PICK n \in Markers : Winning(n) /\ object[n] = o
        BY <1>1, <1>16, <3>2 DEF IInv, OneWinner, Wins
      <4>2. b < h * WordBits + WordBits /\ b \in Extent(starts, o)
        BY <1>5
      <4>3. b < Reached(n)
        <5>1. idx[n] \in Nat
          BY DEF IInv, Types
        <5>2. pc[n] \in {"tail", "tailPart"} => h < idx[n]
          BY <4>1 DEF IInv, AtObject
        <5>3. h < idx[n] => h * WordBits + WordBits <= idx[n] * WordBits
          BY <1>5, <5>1, Sizes, Multiples
        <5>4. idx[n] * WordBits \in Nat /\ h * WordBits \in Nat /\ WordBits \in Nat
          BY <1>5, <5>1, Sizes
        <5>5. b \in Nat
          BY <1>1, <4>2, ObjectEnds DEF Extent
        <5>6. object[n] = o
          BY <4>1
        <5> HIDE DEF o
        <5> QED BY <4>2, <5>2, <5>3, <5>4, <5>5, <5>6 DEF Reached
      <4> QED BY <4>1, <4>2, <4>3 DEF Counters, Covered
    <3> QED BY <3>1, <3>2
  <2>3. markWords' = markWords
    BY <1>2, <2>2
  <2>4. \A p \in Parts : Uncounted(m, p)' = 0
    BY <2>1, UncountedIs DEF UncountedIn
  <2>5. CountsFollowWords'
    BY <1>2, <1>12, <1>13, <2>3, <2>4, OtherKeepsCounts DEF Counters
  <2>6. Covered'
    <3>1. ~Winning(m)'
      BY <2>1 DEF Winning
    <3> QED BY <1>2, <1>4, <2>3, <3>1, CoveredStep DEF Counters
  <2> QED BY <1>11, <1>14, <2>5, <2>6 DEF Counters
<1> QED
  BY <1>15, <1>16

\* The winner's fetch-or of a tail word sets nothing but clear bits.
LEMMA OrTailKeepsCounters ==
  ASSUME IInv, Counters, NEW m \in Markers, OrTail(m)
  PROVE  Counters'
<1> DEFINE o == object[m]
           w == idx[m]
<1>1. /\ Winning(m) /\ pc[m] = "tail" /\ o \in starts /\ w \in Nat
      /\ headWordIdx(o) < w /\ w <= LastWordIn(starts, o) /\ starts \subseteq 0 .. Bits - 1
  BY DEF IInv, OrTail, Winning, AtObject, Types
<1>2. /\ markWords' = markWords \cup TailBits(o, w) /\ pc' = [pc EXCEPT ![m] = "tailPart"]
      /\ UNCHANGED <<starts, partLiveBytes, liveBytes, object, idx, won>>
  BY DEF OrTail, FetchOr, TailBits, Goto
<1>3. OthersRest(m) /\ pc'[m] = "tailPart" /\ object'[m] = o /\ idx'[m] = w
  BY <1>2 DEF OthersRest, IInv, Types
<1>4. /\ TailBits(o, w) \subseteq Extent(starts, o)
      /\ \A b \in TailBits(o, w) : w * WordBits <= b
  BY <1>1, TailCovers
<1>5. /\ w \in 0 .. Words - 1 /\ tailMaskBits(o, w) \in SUBSET AllBits
      /\ \A b \in Extent(starts, o) :
            w * WordBits <= b /\ b < w * WordBits + WordBits => b \in TailBits(o, w)
  BY <1>1, TailIsAll
<1>6. TailBits(o, w) = BitsOf(w, tailMaskBits(o, w))
  BY DEF TailBits, BitsOf
<1>7. markWords \subseteq 0 .. Bits - 1
  BY MarksInRegion DEF IInv
<1>8. \A b \in Extent(starts, o) : b \in Nat
  <2> HIDE DEF o
  <2>1. o \in Nat /\ EndIn(starts, o) \in Nat
    BY <1>1, ObjectEnds, Sizes
  <2> QED BY <2>1 DEF Extent
<1>9. w * WordBits \in Nat
  BY <1>1, Sizes
<1>10. TailBits(o, w) \cap markWords = {}
  <2> SUFFICES ASSUME NEW b \in TailBits(o, w), b \in markWords
               PROVE  FALSE
    OBVIOUS
  <2>1. b < Reached(m)
    BY <1>1, <1>4 DEF IInv, NobodyAhead
  <2>2. Reached(m) = w * WordBits
    BY <1>1 DEF Reached
  <2> QED BY <1>4, <1>8, <1>9, <2>1, <2>2
<1>11. Counted' = Counted
  BY <1>1, <1>2, <1>3, CountedStays
<1>12. LiveCounted'
  BY <1>2, <1>11, SizesStay DEF Counters
<1>13. \A p \in Parts : \A n \in Markers \ {m} : Uncounted(n, p)' = Uncounted(n, p)
  BY <1>2, <1>3, OthersUncounted
<1>14. \A p \in Parts :
         /\ Uncounted(m, p) = 0
         /\ Uncounted(m, p)' = IF part(w) = p THEN Cardinality(tailMaskBits(o, w)) ELSE 0
  <2>1. tailMaskBits(o, w) = TailMaskIn(starts, o, w)
    BY MasksAre
  <2> QED BY <1>1, <1>2, <1>3, <2>1, UncountedIs DEF UncountedIn
<1>15. Covered'
  <2>1. Reached(m) = w * WordBits /\ Reached(m)' = w * WordBits + WordBits
    BY <1>1, <1>3 DEF Reached
  <2>2. ASSUME NEW b \in Extent(starts, o), b < Reached(m)'
        PROVE  b \in markWords'
    <3>1. CASE b < w * WordBits
      BY <1>1, <1>2, <2>1, <3>1 DEF Counters, Covered
    <3>2. CASE ~ (b < w * WordBits)
      BY <1>2, <1>5, <1>8, <1>9, <2>1, <2>2, <3>2
    <3> QED BY <3>1, <3>2
  <2> QED BY <1>2, <1>3, <2>2, CoveredStep DEF Counters
<1>16. \A p \in Parts : Cardinality(InPart(markWords', p))
          = Cardinality(InPart(markWords, p))
              + (IF part(w) = p THEN Cardinality(tailMaskBits(o, w)) ELSE 0)
  <2> HIDE DEF o, w
  <2> QED BY <1>2, <1>5, <1>6, <1>7, <1>10, MarkedCount
<1>17. CountsFollowWords'
  <2> HIDE DEF o, w
  <2> QED BY <1>2, <1>5, <1>7, <1>13, <1>14, <1>16, SetKeepsCounts DEF Counters
<1>18. CountTypes'
  BY <1>2 DEF Counters, CountTypes
<1> QED
  BY <1>12, <1>15, <1>17, <1>18 DEF Counters

LEMMA AddHeadKeepsCounters ==
  ASSUME IInv, Counters, NEW m \in Markers, AddHeadPart(m)
  PROVE  Counters'
<1> DEFINE o == object[m]
           h == headWordIdx(o)
<1>1. o \in starts /\ pc[m] = "headPart" /\ starts \subseteq 0 .. Bits - 1
  BY DEF IInv, AtObject, Types, AddHeadPart
<1>2. /\ UNCHANGED <<starts, markWords, liveBytes, object, idx, won>>
      /\ pc' = [pc EXCEPT ![m] = "live"] /\ AddToPart(h, headMaskBits(o))
  BY DEF AddHeadPart, Goto
<1>3. OthersRest(m) /\ pc'[m] = "live" /\ object'[m] = o
  BY <1>2 DEF OthersRest, IInv, Types
<1>4. h \in 0 .. Words - 1 /\ headMaskBits(o) \in SUBSET AllBits
  BY <1>1, HeadIsAll
<1>5. markWords \subseteq 0 .. Bits - 1
  BY MarksInRegion DEF IInv
<1>6. Counted' = Counted
  BY <1>1, <1>2, <1>3, CountedStays
<1>7. LiveCounted'
  BY <1>2, <1>6, SizesStay DEF Counters
<1>8. \A p \in Parts : \A n \in Markers \ {m} : Uncounted(n, p)' = Uncounted(n, p)
  BY <1>2, <1>3, OthersUncounted
<1>9. \A p \in Parts :
        /\ Uncounted(m, p)' = 0
        /\ Uncounted(m, p) = IF part(h) = p THEN Cardinality(headMaskBits(o)) ELSE 0
  <2>1. headMaskBits(o) = HeadMaskIn(starts, o)
    BY MasksAre
  <2> QED BY <1>1, <1>3, <2>1, UncountedIs DEF UncountedIn
<1>10. CountsFollowWords' /\ partLiveBytes' \in [Parts -> Nat]
  <2> HIDE DEF o, h
  <2> QED BY <1>2, <1>4, <1>5, <1>8, <1>9, AddKeepsCounts DEF Counters
<1>11. CountTypes'
  BY <1>2, <1>10 DEF Counters, CountTypes
<1>12. Covered'
  <2>1. Winning(m) /\ Reached(m)' = Reached(m)
    BY <1>1, <1>3 DEF Winning, Reached, headWordIdx
  <2>2. \A b \in Extent(starts, o) : b < Reached(m) => b \in markWords
    BY <2>1 DEF Counters, Covered
  <2> QED BY <1>2, <1>3, <2>1, <2>2, CoveredStep DEF Counters
<1> QED
  BY <1>7, <1>10, <1>11, <1>12 DEF Counters

\* The winner goes on behind word w: its object is won, or the next word of the
\* object is its next one.
LEMMA NextWordCovered ==
  ASSUME IInv, Counters, NEW m \in Markers, NEW w \in Nat, NextTailWord(m, w),
         \/ pc[m] = "live" /\ w = headWordIdx(object[m])
         \/ pc[m] = "tailPart" /\ w = idx[m],
         starts' = starts, markWords' = markWords
  PROVE  /\ Covered' /\ OthersRest(m) /\ pc'[m] \in {"idle", "tail"}
         /\ Counted' = Counted \cup {object[m]}
<1> DEFINE o == object[m]
<1>1. /\ Winning(m) /\ o \in starts /\ starts \subseteq 0 .. Bits - 1
      /\ Reached(m) = w * WordBits + WordBits /\ pc[m] # "tail"
  BY DEF IInv, AtObject, Types, Winning, Reached
<1>2. \/ /\ won' = [won EXCEPT ![o] = @ + 1] /\ pc' = [pc EXCEPT ![m] = "idle"]
         /\ object' = [object EXCEPT ![m] = 0] /\ idx' = [idx EXCEPT ![m] = 0]
         /\ w = LastWordIn(starts, o)
      \/ /\ w < LastWordIn(starts, o) /\ pc' = [pc EXCEPT ![m] = "tail"]
         /\ idx' = [idx EXCEPT ![m] = w + 1] /\ UNCHANGED <<object, won>>
  BY SizeIs DEF NextTailWord, Win, Return, Goto
<1>3. OthersRest(m) /\ pc'[m] \in {"idle", "tail"}
  BY <1>2 DEF OthersRest, IInv, Types
<1>4. \A b \in Extent(starts, o) : b < w * WordBits + WordBits => b \in markWords
  BY <1>1 DEF Counters, Covered
<1>5. won[o] = 0 /\ o \in 0 .. Bits - 1 /\ \A n \in Markers : Winning(n) /\ object[n] = o => n = m
  BY <1>1 DEF IInv, OneWinner, Wins
<1>6. CASE /\ won' = [won EXCEPT ![o] = @ + 1] /\ pc' = [pc EXCEPT ![m] = "idle"]
           /\ object' = [object EXCEPT ![m] = 0] /\ idx' = [idx EXCEPT ![m] = 0]
           /\ w = LastWordIn(starts, o)
  <2>1. ~Winning(m)' /\ pc'[m] = "idle"
    BY <1>6 DEF Winning, IInv, Types
  <2>2. Extent(starts, o) \subseteq markWords'
    BY <1>1, <1>4, <1>6, TailIsAll
  <2>3. \A p \in 0 .. Bits - 1 : won'[p] = IF p = o THEN 1 ELSE won[p]
    BY <1>5, <1>6 DEF IInv, Types
  <2>4. Covered'
    <3>1. \A p \in starts : won'[p] = 1 => won[p] = 1 \/ Extent(starts, p) \subseteq markWords'
      <4> HIDE DEF o
      <4> QED BY <1>1, <2>2, <2>3
    <3> QED BY <1>3, <2>1, <3>1, CoveredStep DEF Counters
  <2>5. Counted' = Counted \cup {o}
    <3> HIDE DEF o
    <3>1. \A n \in Markers : n # m => pc'[n] = pc[n] /\ object'[n] = object[n]
      BY <1>3 DEF OthersRest
    <3>2. pc[m] \in {"tail", "tailPart"} => object[m] = o
      BY DEF o
    <3>3. \A p \in starts : p \in Counted' <=> p \in Counted \cup {o}
      BY <1>1, <2>1, <2>3, <3>1, <3>2 DEF Counted
    <3> QED BY <1>1, <3>3 DEF Counted
  <2> QED BY <1>3, <2>4, <2>5
<1>7. CASE /\ w < LastWordIn(starts, o) /\ pc' = [pc EXCEPT ![m] = "tail"]
           /\ idx' = [idx EXCEPT ![m] = w + 1] /\ UNCHANGED <<object, won>>
  <2>1. pc'[m] = "tail" /\ object'[m] = o /\ idx'[m] = w + 1
    BY <1>7 DEF IInv, Types
  <2>2. Reached(m)' = w * WordBits + WordBits
    <3>1. Reached(m)' = (w + 1) * WordBits
      BY <2>1 DEF Reached
    <3>2. (w + 1) * WordBits = w * WordBits + WordBits
      BY Sizes
    <3> QED BY <3>1, <3>2
  <2>3. Covered'
    BY <1>3, <1>4, <1>7, <2>1, <2>2, CoveredStep DEF Counters
  <2>4. Counted' = Counted \cup {o}
    <3> HIDE DEF o
    <3>1. \A n \in Markers : n # m => pc'[n] = pc[n] /\ object'[n] = object[n]
      BY <1>3 DEF OthersRest
    <3>2. object[m] = o
      BY DEF o
    <3>3. \A p \in starts : p \in Counted' <=> p \in Counted \cup {o}
      BY <1>1, <1>7, <2>1, <3>1, <3>2 DEF Counted
    <3> QED BY <1>1, <3>3 DEF Counted
  <2> QED BY <1>3, <2>3, <2>4
<1> QED
  BY <1>2, <1>6, <1>7

\* The live bytes grow by the size of an object not counted before.
LEMMA AddLiveKeepsCounters ==
  ASSUME IInv, Counters, NEW m \in Markers, AddLive(m)
  PROVE  Counters'
<1> DEFINE o == object[m]
           h == headWordIdx(o)
<1>1. o \in starts /\ pc[m] = "live" /\ starts \subseteq 0 .. Bits - 1
  BY DEF IInv, AtObject, Types, AddLive
<1>2. /\ liveBytes' = liveBytes + Size(o) /\ UNCHANGED <<starts, markWords, partLiveBytes>>
      /\ NextTailWord(m, h)
  BY DEF AddLive
<1>3. h \in Nat
  BY <1>1, HeadCovers
<1>4. /\ Covered' /\ OthersRest(m) /\ pc'[m] \in {"idle", "tail"}
      /\ Counted' = Counted \cup {o}
  BY <1>1, <1>2, <1>3, NextWordCovered
<1>5. ASSUME NEW n \in Markers, NEW p \in Parts
      PROVE  Uncounted(n, p)' = Uncounted(n, p)
  <2>1. CASE n = m
    <3>1. Uncounted(m, p) = 0 /\ Uncounted(m, p)' = 0
      BY <1>1, <1>4, UncountedIs DEF UncountedIn
    <3> QED BY <2>1, <3>1
  <2>2. CASE n # m
    BY <1>2, <1>4, <2>2, SameUncounted DEF OthersRest
  <2> QED BY <2>1, <2>2
<1>6. CountsFollowWords'
  BY <1>2, <1>5, OtherKeepsCounts DEF Counters
<1>7. \A p \in starts : Size(p) \in Nat
  <2> SUFFICES ASSUME NEW p \in starts
               PROVE  Size(p) \in Nat
    OBVIOUS
  <2>1. p \in Nat /\ EndIn(starts, p) \in Nat /\ p < EndIn(starts, p)
    BY <1>1, ObjectEnds, Sizes
  <2> QED BY <2>1, SizeIs
<1>8. CountTypes'
  <2>1. Size(o) \in Nat /\ liveBytes \in Nat /\ partLiveBytes \in [Parts -> Nat]
    BY <1>1, <1>7 DEF Counters, CountTypes
  <2> HIDE DEF o
  <2>2. liveBytes' \in Nat /\ partLiveBytes' = partLiveBytes
    BY <1>2, <2>1
  <2> QED BY <2>1, <2>2 DEF CountTypes
<1>9. o \notin Counted
  <2>1. Winning(m) /\ o \in starts
    BY <1>1 DEF Winning
  <2>2. won[o] = 0 /\ \A n \in Markers : Winning(n) /\ object[n] = o => n = m
    BY <2>1 DEF IInv, OneWinner, Wins
  <2> QED BY <1>1, <2>2 DEF Counted, Winning
<1>10. LiveCounted'
  <2> DEFINE f == [p \in starts |-> Size(p)]
  <2>1. f' = f
    BY <1>2 DEF Size
  <2>2. IsFiniteSet(Counted) /\ Counted \subseteq starts
    <3>1. IsFiniteSet(starts)
      BY <1>1, RegionFinite
    <3>2. Counted \subseteq starts
      BY DEF Counted
    <3> QED BY <3>1, <3>2, FS_Subset
  <2>3. liveBytes = SumFunctionOnSet(f, Counted) /\ liveBytes \in Nat
    BY DEF Counters, LiveCounted, CountTypes
  <2>4. f[o] = Size(o) /\ \A p \in starts : f[p] \in Nat
    BY <1>1, <1>7
  <2> HIDE DEF f, o
  <2>5. SumFunctionOnSet(f, Counted \cup {o}) = f[o] + SumFunctionOnSet(f, Counted)
    BY <1>1, <1>9, <2>2, <2>4, SumAdd
  <2>6. liveBytes' = SumFunctionOnSet(f, Counted')
    BY <1>1, <1>2, <1>4, <1>7, <2>3, <2>4, <2>5
  <2>7. liveBytes' = SumFunctionOnSet(f', Counted')
    BY <2>1, <2>6
  <2> QED BY <2>7 DEF LiveCounted, f
<1> QED
  BY <1>4, <1>6, <1>8, <1>10 DEF Counters

LEMMA AddTailKeepsCounters ==
  ASSUME IInv, Counters, NEW m \in Markers, AddTailPart(m)
  PROVE  Counters'
<1> DEFINE o == object[m]
           w == idx[m]
<1>1. /\ pc[m] = "tailPart" /\ o \in starts /\ w \in Nat
      /\ headWordIdx(o) < w /\ w <= LastWordIn(starts, o) /\ starts \subseteq 0 .. Bits - 1
  BY DEF IInv, AddTailPart, AtObject, Types
<1>2. /\ UNCHANGED <<starts, markWords, liveBytes>>
      /\ AddToPart(w, tailMaskBits(o, w)) /\ NextTailWord(m, w)
  BY DEF AddTailPart
<1>3. /\ Covered' /\ OthersRest(m) /\ pc'[m] \in {"idle", "tail"}
      /\ Counted' = Counted \cup {o}
  BY <1>1, <1>2, NextWordCovered
<1>4. w \in 0 .. Words - 1 /\ tailMaskBits(o, w) \in SUBSET AllBits
  BY <1>1, TailIsAll
<1>5. markWords \subseteq 0 .. Bits - 1
  BY MarksInRegion DEF IInv
<1>6. \A p \in Parts : \A n \in Markers \ {m} : Uncounted(n, p)' = Uncounted(n, p)
  BY <1>2, <1>3, OthersUncounted
<1>7. \A p \in Parts :
        /\ Uncounted(m, p)' = 0
        /\ Uncounted(m, p) = IF part(w) = p THEN Cardinality(tailMaskBits(o, w)) ELSE 0
  <2>1. tailMaskBits(o, w) = TailMaskIn(starts, o, w)
    BY MasksAre
  <2> QED BY <1>1, <1>3, <2>1, UncountedIs DEF UncountedIn
<1>8. CountsFollowWords' /\ partLiveBytes' \in [Parts -> Nat]
  <2> HIDE DEF o, w
  <2> QED BY <1>2, <1>4, <1>5, <1>6, <1>7, AddKeepsCounts DEF Counters
<1>9. CountTypes'
  BY <1>2, <1>8 DEF Counters, CountTypes
<1>10. Counted' = Counted
  BY <1>1, <1>3 DEF Counted
<1>11. LiveCounted'
  BY <1>2, <1>10, SizesStay DEF Counters
<1> QED
  BY <1>3, <1>8, <1>9, <1>11 DEF Counters

LEMMA InitCounters == Init => Counters
<1> SUFFICES ASSUME Init PROVE Counters
  OBVIOUS
<1>1. /\ starts \subseteq 0 .. Bits - 1 /\ markWords = {} /\ liveBytes = 0
      /\ partLiveBytes = [p \in Parts |-> 0] /\ pc = [m \in Markers |-> "idle"]
      /\ won = [o \in 0 .. Bits - 1 |-> 0]
  BY InitIInv DEF Init, IInv, Types
<1>2. Covered
  BY <1>1 DEF Covered, Winning
<1>3. CountTypes
  BY <1>1 DEF CountTypes
<1>4. CountsFollowWords
  <2> SUFFICES ASSUME NEW p \in Parts
               PROVE  partLiveBytes[p]
                        + SumFunctionOnSet([m \in Markers |-> Uncounted(m, p)], Markers)
                          = Cardinality({b \in markWords : part(b \div WordBits) = p})
    BY DEF CountsFollowWords
  <2> DEFINE f == [m \in Markers |-> Uncounted(m, p)]
  <2>1. \A m \in Markers : f[m] = 0
    BY <1>1, UncountedIs DEF UncountedIn
  <2>2. IsFiniteSet(Markers)
    BY SizeAssumption
  <2>3. SumFunctionOnSet(f, Markers) = 0
    <3> HIDE DEF f
    <3> QED BY <2>1, <2>2, SumZero
  <2>4. {b \in markWords : part(b \div WordBits) = p} = {} /\ Cardinality({}) = 0
    BY <1>1, FS_EmptySet
  <2> QED BY <1>1, <2>3, <2>4
<1>5. LiveCounted
  <2> DEFINE f == [o \in starts |-> Size(o)]
  <2>1. Counted = {}
    <3>1. (\A o \in starts : won[o] = 0) /\ \A m \in Markers : pc[m] = "idle"
      BY <1>1
    <3> QED BY <3>1 DEF Counted
  <2>2. SumFunctionOnSet(f, {}) = 0
    <3> HIDE DEF f
    <3> QED BY FS_EmptySet, SumZero
  <2> QED BY <1>1, <2>1, <2>2 DEF LiveCounted
<1> QED
  BY <1>2, <1>3, <1>4, <1>5 DEF Counters

LEMMA NextKeepsCounters == IInv /\ Counters /\ [Next]_vars => Counters'
<1> SUFFICES ASSUME IInv, Counters, [Next]_vars PROVE Counters'
  OBVIOUS
<1>1. CASE UNCHANGED vars
  <2>1. /\ starts' = starts /\ markWords' = markWords /\ partLiveBytes' = partLiveBytes
        /\ liveBytes' = liveBytes /\ pc' = pc /\ object' = object /\ idx' = idx /\ won' = won
    BY <1>1 DEF vars
  <2>2. Covered' /\ CountTypes'
    BY <2>1 DEF Counters, Covered, CountTypes, Winning, Reached, headWordIdx
  <2>3. CountsFollowWords'
    BY <2>1, SameUncounted, OtherKeepsCounts DEF Counters
  <2>4. Counted' = Counted
    BY <2>1 DEF Counted
  <2>5. LiveCounted'
    BY <2>1, <2>4, SizesStay DEF Counters
  <2> QED BY <2>2, <2>3, <2>5 DEF Counters
<1> QED
  BY <1>1, StartKeepsCounters, OrHeadKeepsCounters, AddHeadKeepsCounters, AddLiveKeepsCounters,
     OrTailKeepsCounters, AddTailKeepsCounters DEF Next

-----------------------------------------------------------------------------
\* The counts of the words from a to before n are those of their marked bits.
LEMMA WordsCounted ==
  ASSUME markWords \subseteq 0 .. Bits - 1, NEW a \in Nat, NEW n \in Nat, n <= Words
  PROVE  SumFunctionOnSet(WordCounts, a .. n - 1)
           = Cardinality({b \in markWords : a <= b \div WordBits /\ b \div WordBits < n})
<1> DEFINE S == a .. n - 1
           P == [w \in S |-> {b \in markWords : b \div WordBits = w}]
<1>1. WordBits \in Nat \ {0} /\ Words \in Nat /\ markWords \subseteq Nat
  BY Sizes
<1>2. IsFiniteSet(S)
  BY FS_Interval
<1>3. IsFiniteSet(markWords)
  BY RegionFinite
<1>4. ASSUME NEW w \in S
      PROVE  IsFiniteSet(P[w]) /\ WordCounts[w] = Cardinality(P[w])
  <2>1. w \in Nat /\ w \in 0 .. Words - 1
    BY <1>1
  <2>2. P[w] = BitsOf(w, MarkWord(w)) /\ MarkWord(w) \in SUBSET AllBits
    BY <1>1, <2>1, WordBitsMarked DEF BitsOf
  <2>3. /\ IsFiniteSet(BitsOf(w, MarkWord(w)))
        /\ Cardinality(BitsOf(w, MarkWord(w))) = Cardinality(MarkWord(w))
    BY <2>1, <2>2, MaskInWord, Zenon DEF BitsOf
  <2>4. WordCounts[w] = Cardinality(MarkWord(w))
    BY <2>1 DEF WordCounts
  <2> QED BY <2>2, <2>3, <2>4
<1>5. \A v, w \in S : v # w => P[v] \cap P[w] = {}
  OBVIOUS
<1>6. \A b \in markWords : b \div WordBits \in Nat
  BY <1>1, DivMod
<1>7. UNION {P[w] : w \in S} = {b \in markWords : a <= b \div WordBits /\ b \div WordBits < n}
  <2>1. \A b \in markWords : b \div WordBits \in S <=> a <= b \div WordBits /\ b \div WordBits < n
    <3> SUFFICES ASSUME NEW b \in markWords
                 PROVE  b \div WordBits \in S <=> a <= b \div WordBits /\ b \div WordBits < n
      OBVIOUS
    <3> DEFINE w == b \div WordBits
    <3>1. w \in Nat
      BY <1>6
    <3> HIDE DEF w
    <3>2. w \in S <=> a <= w /\ w < n
      BY <3>1
    <3> QED BY <3>2 DEF w
  <2> HIDE DEF S
  <2>2. UNION {P[w] : w \in S} = {b \in markWords : b \div WordBits \in S}
    OBVIOUS
  <2> QED BY <2>1, <2>2
<1>8. Cardinality(UNION {P[w] : w \in S}) = SumFunctionOnSet(WordCounts, S)
  <2> HIDE DEF S, P
  <2> QED BY <1>2, <1>4, <1>5, SumOfParts
<1> QED
  BY <1>7, <1>8

\* When the markers rest, the part counters are exact, one by one and together.
LEMMA PartsCounted ==
  ASSUME markWords \subseteq 0 .. Bits - 1, CountTypes, CountsFollowWords, Idle,
         NEW n \in Nat, n <= MaxParts
  PROVE  SumFunctionOnSet(partLiveBytes, 0 .. n - 1)
           = Cardinality({b \in markWords : part(b \div WordBits) < n})
<1> DEFINE S == 0 .. n - 1
           P == [p \in S |-> InPart(markWords, p)]
<1>1. IsFiniteSet(S) /\ S \subseteq Parts
  BY FS_Interval, PartSizes DEF Parts
<1>2. ASSUME NEW p \in S
      PROVE  IsFiniteSet(P[p]) /\ partLiveBytes[p] = Cardinality(P[p])
  <2> DEFINE f == [m \in Markers |-> Uncounted(m, p)]
  <2>1. \A m \in Markers : f[m] = 0
    BY UncountedIs DEF UncountedIn, Idle
  <2>2. IsFiniteSet(Markers)
    BY SizeAssumption
  <2>3. SumFunctionOnSet(f, Markers) = 0
    <3> HIDE DEF f
    <3> QED BY <2>1, <2>2, SumZero
  <2>4. p \in Parts
    BY <1>1
  <2>5. partLiveBytes[p] + SumFunctionOnSet(f, Markers) = Cardinality(InPart(markWords, p))
    BY <2>4 DEF CountsFollowWords, InPart
  <2>6. partLiveBytes[p] \in Nat
    BY <2>4 DEF CountTypes
  <2>7. IsFiniteSet(InPart(markWords, p))
    BY RegionFinite
  <2> HIDE DEF f
  <2> QED BY <2>3, <2>5, <2>6, <2>7
<1>3. \A p, q \in S : p # q => P[p] \cap P[q] = {}
  BY DEF InPart
<1>4. \A b \in markWords : part(b \div WordBits) \in Nat
  <2> SUFFICES ASSUME NEW b \in markWords PROVE part(b \div WordBits) \in Nat
    OBVIOUS
  <2>1. b \in Nat /\ WordBits \in Nat \ {0} /\ step \in Nat \ {0}
    BY Sizes, PartSizes
  <2>2. b \div WordBits \in Nat
    BY <2>1, DivMod
  <2> DEFINE w == b \div WordBits
  <2> HIDE DEF w
  <2>3. w \div step \in Nat
    BY <2>1, <2>2, DivMod DEF w
  <2> QED BY <2>3 DEF part, w
<1>5. UNION {P[p] : p \in S} = {b \in markWords : part(b \div WordBits) < n}
  <2>1. \A b \in markWords : part(b \div WordBits) \in S <=> part(b \div WordBits) < n
    <3> SUFFICES ASSUME NEW b \in markWords
                 PROVE  part(b \div WordBits) \in S <=> part(b \div WordBits) < n
      OBVIOUS
    <3> DEFINE p == part(b \div WordBits)
    <3>1. p \in Nat
      BY <1>4
    <3> HIDE DEF p
    <3>2. p \in S <=> p < n
      BY <3>1
    <3> QED BY <3>2 DEF p
  <2> HIDE DEF S
  <2>2. UNION {P[p] : p \in S} = {b \in markWords : part(b \div WordBits) \in S}
    BY DEF InPart
  <2> QED BY <2>1, <2>2
<1>6. Cardinality(UNION {P[p] : p \in S}) = SumFunctionOnSet(partLiveBytes, S)
  <2> HIDE DEF S, P
  <2> QED BY <1>1, <1>2, <1>3, SumOfParts
<1> QED
  BY <1>5, <1>6

\* The part counters lag the mark words by the bits set and not yet counted and
\* never wrap, and once the markers rest the live bytes are those of the mark
\* words and of the objects won (RegionBitmap.cj:183-233, 288-297).
THEOREM CountersAreExact == Spec => []CountersExact
<1>1. IInv /\ Counters => CountersExact
  <2> SUFFICES ASSUME IInv, Counters, Idle
               PROVE  /\ liveBytes = RecomputeLiveBytes
                      /\ liveBytes = SumFunctionOnSet([o \in starts |-> Size(o)],
                                                      {o \in starts : won[o] = 1})
    BY DEF CountersExact, LiveBytesExact, Counters
  <2> DEFINE W == {o \in starts : won[o] = 1}
             f == [o \in starts |-> Size(o)]
             P == [o \in W |-> Extent(starts, o)]
  <2>1. Counted = W
    BY DEF Counted, Idle
  <2>2. liveBytes = SumFunctionOnSet(f, W)
    BY <2>1 DEF Counters, LiveCounted
  <2>3. markWords \subseteq 0 .. Bits - 1 /\ starts \in SUBSET (0 .. Bits - 1)
    BY MarksInRegion DEF IInv, Types
  <2>4. IsFiniteSet(W)
    BY <2>3, RegionFinite, FS_Subset
  <2>5. ASSUME NEW o \in W
        PROVE  IsFiniteSet(P[o]) /\ f[o] = Cardinality(P[o])
    <3>1. o \in Nat /\ EndIn(starts, o) \in Nat /\ o < EndIn(starts, o) /\ o \in starts
      BY <2>3, ObjectEnds, Sizes
    <3> DEFINE n == EndIn(starts, o) - o
    <3>2. n \in Nat /\ Extent(starts, o) = o .. o + n - 1
      BY <3>1 DEF Extent
    <3>3. f[o] = n
      BY <3>1, SizeIs
    <3> HIDE DEF n, f
    <3> QED BY <3>1, <3>2, <3>3, IntervalSize
  <2>6. \A o, p \in W : o # p => P[o] \cap P[p] = {}
    BY <2>3, Disjoint
  <2>7. UNION {P[o] : o \in W} = markWords
    <3>1. \A o \in W : P[o] \subseteq markWords
      BY DEF Counters, Covered
    <3>2. ASSUME NEW b \in markWords
          PROVE  \E o \in W : b \in P[o]
      <4>1. PICK o \in starts : b \in Extent(starts, o) /\ o \in markWords
        BY DEF IInv, MarksOwned
      <4>2. won[o] = 1
        BY <4>1 DEF IInv, OneWinner, Wins, Winning, Idle
      <4> QED BY <4>1, <4>2
    <3> HIDE DEF P, W
    <3> QED BY <3>1, <3>2
  <2>8. SumFunctionOnSet(f, W) = Cardinality(markWords)
    <3> HIDE DEF f, W, P
    <3> QED BY <2>4, <2>5, <2>6, <2>7, SumOfParts
  <2>9. RecomputeLiveBytes = Cardinality(markWords)
    <3>1. \A b \in markWords : 0 <= b \div WordBits /\ b \div WordBits < Words
      <4> SUFFICES ASSUME NEW b \in markWords
                   PROVE  0 <= b \div WordBits /\ b \div WordBits < Words
        OBVIOUS
      <4>1. b \in Nat /\ b < Words * WordBits /\ WordBits \in Nat \ {0} /\ Words \in Nat
        BY <2>3, Sizes DEF Bits
      <4>2. b \div WordBits \in Nat
        BY <4>1, DivMod
      <4>3. b \div WordBits < Words
        BY <4>1, DivBelow
      <4> DEFINE w == b \div WordBits
      <4> HIDE DEF w
      <4>4. 0 <= w
        BY <4>2 DEF w
      <4> QED BY <4>3, <4>4 DEF w
    <3>2. {b \in markWords : 0 <= b \div WordBits /\ b \div WordBits < Words} = markWords
      BY <3>1
    <3>3. Words \in Nat /\ 0 \in Nat /\ Words <= Words
      BY Sizes
    <3>4. SumFunctionOnSet(WordCounts, 0 .. Words - 1)
            = Cardinality({b \in markWords : 0 <= b \div WordBits /\ b \div WordBits < Words})
      BY <2>3, <3>3, WordsCounted
    <3> QED BY <3>2, <3>4 DEF RecomputeLiveBytes
  <2> QED BY <2>2, <2>8, <2>9
<1> QED
  BY InitIInv, NextKeepsIInv, InitCounters, NextKeepsCounters, <1>1, PTL DEF Spec

\* The words before an offset, and its part.
LEMMA OffsetPlace ==
  ASSUME NEW offset \in 0 .. Bits - 1
  PROVE  /\ offset \div WordBits \in 0 .. Words - 1
         /\ offset % WordBits \in 0 .. WordBits - 1
         /\ offset = (offset \div WordBits) * WordBits + (offset % WordBits)
         /\ wholeParts(offset) \in Nat /\ wholeParts(offset) <= MaxParts
         /\ partStartIndex(offset) \in Nat
         /\ partStartIndex(offset) <= offset \div WordBits
<1> DEFINE i == offset \div WordBits
           r == offset % WordBits
           q == i \div step
<1>1. /\ offset \in Nat /\ offset < Words * WordBits /\ WordBits \in Nat \ {0}
      /\ Words \in Nat /\ step \in Nat \ {0} /\ MaxParts \in Nat
  BY Sizes, PartSizes DEF Bits
<1>2. i \in Nat /\ r \in 0 .. WordBits - 1 /\ offset = i * WordBits + r
  BY <1>1, DivMod
<1>3. i < Words
  BY <1>1, DivBelow
<1> HIDE DEF i, r
<1>4. q \in Nat /\ i % step \in 0 .. step - 1 /\ i = q * step + (i % step)
  BY <1>1, <1>2, DivMod
<1>5. q \in Parts
  <2>1. i \in 0 .. Words - 1
    BY <1>1, <1>2, <1>3
  <2>2. part(i) \in Parts
    BY <2>1, PartSizes
  <2> QED BY <2>2 DEF part
<1>6. wholeParts(offset) = q /\ partStartIndex(offset) = step * q
  BY DEF wholeParts, partStartIndex, i
<1> HIDE DEF q
<1>7. step * q = q * step /\ q * step \in Nat
  BY <1>1, <1>4
<1>8. q <= MaxParts
  BY <1>1, <1>5 DEF Parts
<1>9. q * step <= i
  <2> DEFINE k == i % step
  <2>1. k \in Nat /\ i = q * step + k
    BY <1>4, <1>1
  <2> HIDE DEF k
  <2> QED BY <1>2, <1>7, <2>1
<1>10. i \in 0 .. Words - 1
  BY <1>1, <1>2, <1>3
<1>11. /\ i \in 0 .. Words - 1 /\ r \in 0 .. WordBits - 1 /\ offset = i * WordBits + r
       /\ wholeParts(offset) \in Nat /\ wholeParts(offset) <= MaxParts
       /\ partStartIndex(offset) \in Nat /\ partStartIndex(offset) <= i
  BY <1>2, <1>4, <1>6, <1>7, <1>8, <1>9, <1>10
<1> QED
  BY <1>11 DEF i, r

\* The marked bits before an offset are those of the whole parts, those of the
\* whole words behind them, and those of the last word up to the offset.
LEMMA BitsBeforeSplit ==
  ASSUME markWords \subseteq 0 .. Bits - 1, NEW offset \in 0 .. Bits - 1
  PROVE  LET i == offset \div WordBits
             mask == {b \in AllBits : b < offset % WordBits}
         IN  BitsBefore(offset) =
               Cardinality({b \in markWords : part(b \div WordBits) < wholeParts(offset)})
             + Cardinality({b \in markWords : /\ partStartIndex(offset) <= b \div WordBits
                                              /\ b \div WordBits < i})
             + Cardinality(MarkWord(i) \cap mask)
<1> DEFINE i == offset \div WordBits
           r == offset % WordBits
           q == wholeParts(offset)
           first == partStartIndex(offset)
           mask == {b \in AllBits : b < r}
           A == {b \in markWords : part(b \div WordBits) < q}
           B == {b \in markWords : first <= b \div WordBits /\ b \div WordBits < i}
           C == {b \in markWords : b \div WordBits = i /\ b < offset}
<1>1. /\ i \in 0 .. Words - 1 /\ i \in Nat /\ r \in 0 .. WordBits - 1 /\ r \in Nat
      /\ offset = i * WordBits + r
      /\ q \in Nat /\ first \in Nat /\ first <= i /\ first = step * q
  <2>1. /\ i \in 0 .. Words - 1 /\ r \in 0 .. WordBits - 1
        /\ offset = i * WordBits + r
        /\ q \in Nat /\ first \in Nat /\ first <= i
    BY OffsetPlace
  <2>2. first = step * q
    BY DEF partStartIndex
  <2> HIDE DEF i, r, q, first
  <2> QED BY <2>1, <2>2, Sizes
<1>2. WordBits \in Nat \ {0} /\ step \in Nat \ {0} /\ i * WordBits \in Nat
  <2> HIDE DEF i
  <2> QED BY <1>1, Sizes, PartSizes
<1> HIDE DEF i, r, q, first
<1>3. ASSUME NEW b \in markWords
      PROVE  /\ b \in Nat /\ b \div WordBits \in Nat
             /\ part(b \div WordBits) < q <=> b \div WordBits < first
             /\ b < offset <=> \/ b \div WordBits < i
                               \/ b \div WordBits = i /\ b < offset
  <2>1. b \in Nat
    BY Sizes
  <2> DEFINE w == b \div WordBits
  <2>2. w \in Nat
    BY <1>2, <2>1, DivMod
  <2>3. w < i <=> b < i * WordBits
    BY <1>1, <1>2, <2>1, DivBelow
  <2>4. w < i + 1 <=> b < (i + 1) * WordBits
    <3>1. i + 1 \in Nat
      BY <1>1
    <3> QED BY <1>2, <2>1, <3>1, DivBelow
  <2>5. (i + 1) * WordBits = i * WordBits + WordBits
    BY <1>1, <1>2
  <2> HIDE DEF w
  <2>6. part(w) < q <=> w < first
    <3>1. w \div step < q <=> w < q * step
      BY <1>1, <1>2, <2>2, DivBelow
    <3>2. q * step = step * q
      BY <1>1, <1>2
    <3> QED BY <1>1, <3>1, <3>2 DEF part
  <2>7. b < offset <=> w < i \/ (w = i /\ b < offset)
    BY <1>1, <1>2, <2>1, <2>2, <2>3, <2>4, <2>5
  <2> QED BY <2>1, <2>2, <2>6, <2>7 DEF w
<1>4. {b \in markWords : b < offset} = A \cup (B \cup C)
  <2> SUFFICES ASSUME NEW b \in markWords
               PROVE  b < offset <=> b \in A \/ b \in B \/ b \in C
    OBVIOUS
  <2> DEFINE w == b \div WordBits
  <2>1. /\ w \in Nat /\ (part(w) < q <=> w < first)
        /\ b < offset <=> w < i \/ (w = i /\ b < offset)
    BY <1>3
  <2>2. /\ b \in A <=> part(w) < q
        /\ b \in B <=> first <= w /\ w < i
        /\ b \in C <=> w = i /\ b < offset
    OBVIOUS
  <2> HIDE DEF w, A, B, C
  <2> QED BY <1>1, <2>1, <2>2
<1>5. B \cap C = {} /\ A \cap (B \cup C) = {}
  <2>1. ASSUME NEW b \in markWords, b \in B, b \in C
        PROVE  FALSE
    <3> DEFINE w == b \div WordBits
    <3>1. w \in Nat /\ w < i /\ w = i
      BY <1>3, <2>1
    <3> HIDE DEF w
    <3> QED BY <1>1, <3>1
  <2>2. ASSUME NEW b \in markWords, b \in A, b \in B \cup C
        PROVE  FALSE
    <3> DEFINE w == b \div WordBits
    <3>1. w \in Nat /\ w < first /\ (first <= w \/ w = i)
      BY <1>3, <2>2
    <3> HIDE DEF w
    <3> QED BY <1>1, <3>1
  <2> QED BY <2>1, <2>2
<1>6. IsFiniteSet(A) /\ IsFiniteSet(B) /\ IsFiniteSet(C)
  <2>1. IsFiniteSet(markWords)
    BY RegionFinite
  <2> QED BY <2>1, FS_Subset
<1>7. Cardinality(C) = Cardinality(MarkWord(i) \cap mask)
  <2> DEFINE N == MarkWord(i) \cap mask
  <2>1. N \in SUBSET AllBits
    OBVIOUS
  <2>2. Cardinality(BitsOf(i, N)) = Cardinality(N)
    <3> HIDE DEF N
    <3> QED BY <1>1, <2>1, MaskInWord, Zenon DEF BitsOf
  <2>3. {b \in markWords : b \div WordBits = i} = BitsOf(i, MarkWord(i))
    BY <1>1, <1>3, WordBitsMarked DEF BitsOf
  <2>4. ASSUME NEW b \in MarkWord(i)
        PROVE  b < r <=> i * WordBits + b < offset
    <3>1. b \in Nat
      BY <1>2 DEF MarkWord, AllBits
    <3> QED BY <1>1, <1>2, <3>1
  <2>5. MarkWord(i) \subseteq AllBits
    BY DEF MarkWord
  <2>6. C = BitsOf(i, N)
    <3>1. ASSUME NEW x \in C
          PROVE  x \in BitsOf(i, N)
      <4>1. PICK b \in MarkWord(i) : x = i * WordBits + b
        BY <2>3 DEF BitsOf
      <4>2. b \in N
        BY <2>4, <2>5, <4>1
      <4> QED BY <4>1, <4>2 DEF BitsOf
    <3>2. ASSUME NEW x \in BitsOf(i, N)
          PROVE  x \in C
      <4>1. PICK b \in N : x = i * WordBits + b
        BY DEF BitsOf
      <4>2. x < offset
        BY <2>4, <4>1
      <4>3. x \in BitsOf(i, MarkWord(i))
        BY <4>1 DEF BitsOf
      <4> QED BY <2>3, <4>2, <4>3
    <3> QED BY <3>1, <3>2
  <2> QED BY <2>2, <2>6
<1>8. Cardinality(A \cup (B \cup C)) = Cardinality(A) + Cardinality(B) + Cardinality(C)
  <2> HIDE DEF A, B, C
  <2>1. IsFiniteSet(B \cup C) /\ Cardinality(B \cup C) = Cardinality(B) + Cardinality(C)
    BY <1>5, <1>6, Together
  <2>2. Cardinality(A \cup (B \cup C)) = Cardinality(A) + Cardinality(B \cup C)
    BY <1>5, <1>6, <2>1, Together
  <2>3. /\ Cardinality(A) \in Nat /\ Cardinality(B) \in Nat /\ Cardinality(C) \in Nat
    BY <1>6, FS_CardinalityType
  <2> QED BY <2>1, <2>2, <2>3
<1>9. BitsBefore(offset) = Cardinality(A) + Cardinality(B) + Cardinality(MarkWord(i) \cap mask)
  <2> HIDE DEF A, B, C, mask
  <2> QED BY <1>4, <1>7, <1>8 DEF BitsBefore
<1> QED
  BY <1>9 DEF i, q, r, first

\* Once the markers rest, GetPreLiveBytes finds the bytes live before any offset
\* in the first word or behind the first part (RegionBitmap.cj:235-286).
THEOREM PreLiveIsExact == Spec => []PreLiveExactPastFirstPart
<1>1. IInv /\ Counters => PreLiveExactPastFirstPart
  <2> SUFFICES ASSUME IInv, Counters, Idle, NEW offset \in 0 .. Bits - 1,
                      offset < WordBits \/ offset >= step * WordBits
               PROVE  GetPreLiveBytes(offset) = BitsBefore(offset)
    BY DEF PreLiveExactPastFirstPart
  <2> DEFINE i == offset \div WordBits
             q == wholeParts(offset)
             first == partStartIndex(offset)
             mask == {b \in AllBits : b < offset % WordBits}
             a == Cardinality({b \in markWords : part(b \div WordBits) < q})
             B == {b \in markWords : first <= b \div WordBits /\ b \div WordBits < i}
             c == Cardinality(MarkWord(i) \cap mask)
  <2>1. /\ i \in 0 .. Words - 1 /\ q \in Nat /\ q <= MaxParts
        /\ first \in Nat /\ first <= i
    BY OffsetPlace
  <2>2. markWords \subseteq 0 .. Bits - 1
    BY MarksInRegion DEF IInv
  <2>3. BitsBefore(offset) = a + Cardinality(B) + c
    BY <2>2, BitsBeforeSplit
  <2>4. SumFunctionOnSet(partLiveBytes, 0 .. q - 1) = a
    <3> HIDE DEF i, q, first
    <3> QED BY <2>1, <2>2, PartsCounted DEF Counters
  <2>5. SumFunctionOnSet(WordCounts, first .. i - 1) = Cardinality(B)
    <3> HIDE DEF i, q, first
    <3>1. i \in Nat /\ i <= Words
      BY <2>1, Sizes
    <3> QED BY <2>1, <2>2, <3>1, WordsCounted
  <2>6. a \in Nat /\ Cardinality(B) \in Nat /\ c \in Nat
    <3>1. IsFiniteSet(markWords)
      BY <2>2, RegionFinite
    <3>2. a \in Nat /\ Cardinality(B) \in Nat
      BY <3>1, FS_Subset, FS_CardinalityType
    <3>3. 0 \in Nat /\ MarkWord(i) \cap mask \in SUBSET AllBits
      OBVIOUS
    <3> QED BY <3>2, <3>3, MaskInWord
  <2>7. GetPreLiveBytes(offset) =
          IF i = first THEN a + c
          ELSE IF StepDown(first) >= first THEN NoReturn
          ELSE a + c + SumFunctionOnSet(WordCounts, first .. i - 1)
    BY <2>4 DEF GetPreLiveBytes
  <2>8. i # first => ~ (StepDown(first) >= first)
    <3> SUFFICES ASSUME i # first
                 PROVE  ~ (StepDown(first) >= first)
      OBVIOUS
    <3>1. /\ WordBits \in Nat \ {0} /\ step \in Nat \ {0} /\ offset \in Nat
          /\ IndexMod \in Nat \ {0} /\ Words < IndexMod /\ Words \in Nat
      BY Sizes, PartSizes, SizeAssumption
    <3>2. first = step * (i \div step)
      BY DEF partStartIndex, wholeParts
    <3> HIDE DEF q, first, mask, a, B, c
    <3>3. first # 0
      <4>1. offset < 1 * WordBits => i < 1
        BY <3>1, DivBelow
      <4>2. offset < step * WordBits <=> i < step
        BY <3>1, DivBelow
      <4>3. i < 1 => i = 0
        <5> HIDE DEF i
        <5> QED BY <2>1
      <4>4. i # 0
        <5> HIDE DEF i
        <5> QED BY <2>1
      <4>5. ~ (i < step)
        <5> HIDE DEF i
        <5>1. 1 * WordBits = WordBits /\ step * WordBits \in Nat
          BY <3>1
        <5> QED BY <3>1, <4>1, <4>2, <4>3, <4>4, <5>1
      <4> HIDE DEF i
      <4> DEFINE k == i \div step
      <4>6. k \in Nat /\ ~ (k < 1)
        <5>1. i \in Nat
          BY <2>1
        <5>2. k \in Nat /\ (i \div step < 1 <=> i < 1 * step)
          BY <3>1, <5>1, DivMod, DivBelow
        <5>3. 1 * step = step
          BY <3>1
        <5> QED BY <4>5, <5>2, <5>3
      <4> HIDE DEF k
      <4>7. first = step * k
        BY <3>2 DEF k
      <4>8. 0 * step + step <= k * step
        BY <3>1, <4>6, Multiples
      <4>9. k * step = step * k /\ 0 * step = 0
        BY <3>1, <4>6
      <4> QED BY <3>1, <4>7, <4>8, <4>9
    <3> DEFINE x == first - 1
    <3>4. x \in 0 .. IndexMod - 1 /\ first + IndexMod - 1 = x + IndexMod
      <4> HIDE DEF i
      <4> QED BY <2>1, <3>1, <3>3
    <3>5. (x + IndexMod) % IndexMod = x
      <4> HIDE DEF x, i
      <4> QED BY <3>1, <3>4
    <3>6. StepDown(first) = x
      BY <3>4, <3>5 DEF StepDown
    <3> QED BY <2>1, <3>6
  <2>9. i = first => Cardinality(B) = 0
    <3>1. i = first => first .. i - 1 = {}
      <4> HIDE DEF i, first
      <4> QED BY <2>1
    <3>2. SumFunctionOnSet(WordCounts, {}) = 0
      BY FS_EmptySet, SumZero
    <3> QED BY <2>5, <3>1, <3>2
  <2> HIDE DEF i, q, first, mask, a, B, c
  <2> QED BY <2>3, <2>5, <2>6, <2>7, <2>8, <2>9
<1> QED
  BY InitIInv, NextKeepsIInv, InitCounters, NextKeepsCounters, <1>1, PTL DEF Spec
=============================================================================
