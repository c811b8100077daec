---------------------------- MODULE MCRegionList ----------------------------
(* Three regions of one, one and two units on four lists: "full" is raced for *)
(* with TryDeleteRegion, "cache" is a RegionCache that is merged into it,     *)
(* "raw" is visited and drained, and moved to the empty "space".              *)
EXTENDS RegionList, TLC
CONSTANTS r1, r2, r3, full, cache, raw, space
MCUnitCount == (r1 :> 1) @@ (r2 :> 1) @@ (r3 :> 2)
MCMerges == {<<cache, full>>, <<full, raw>>}
MCMoves == {<<raw, space>>}
MCSymmetry == Permutations(Threads) \cup Permutations({r1, r2})
=============================================================================
