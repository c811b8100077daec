------------------------ MODULE MCForwardDataSpaces ------------------------
(* A heap of three units: a region of one and a region of two.  With the    *)
(* sizes of the configuration the last commit of the second space leaves    *)
(* the mapping and is refused.                                              *)
EXTENDS ForwardDataSpaces, TLC

CONSTANTS small, large

MCUnitsOf == [r \in Regions |-> IF r = large THEN {1, 2} ELSE {3}]

\* The sizes are ones the theorem about the memory is about.
ASSUME MCFits == CommitsFit

Symmetry == Permutations(Markers) \union Permutations(Kinds)

=============================================================================
