------------------------------ MODULE UnitRuns ------------------------------
(***************************************************************************)
(* Heap units and their maximal runs: the vocabulary the free-unit trees,  *)
(* their abstract specification and their manager share.                   *)
(***************************************************************************)
EXTENDS Integers

CONSTANT N      \* units in the heap (UnitInfo.totalUnitCount)

ASSUME UnitsAssumption == N \in Nat \ {0}

Units == 0 .. N - 1

\* The units of the block that starts at b and is n units long.
Run(b, n) == b .. b + n - 1

\* Run(b, n) is a maximal run of S: a block that cannot be merged further.
IsBlock(S, b, n) ==
  /\ n > 0
  /\ Run(b, n) \subseteq S
  /\ b - 1 \notin S
  /\ b + n \notin S

Blocks(S) == {blk \in Units \X (1 .. N) : IsBlock(S, blk[1], blk[2])}

\* The starts of the blocks TakeUnitsLowAddr may carve n units from: the
\* smallest block that is large enough, the lowest one among equals.
BestFit(S, n) ==
  {b \in Units :
     \E k \in n .. N :
        /\ IsBlock(S, b, k)
        /\ \A c \in Units, m \in n .. N :
              IsBlock(S, c, m) => (k < m \/ (k = m /\ b <= c))}

\* The starts of all blocks of at least n units.
AnyFit(S, n) == {b \in Units : \E k \in n .. N : IsBlock(S, b, k)}

=============================================================================
