---------------------------- MODULE MCNeighbours ----------------------------
(* Three peers, one of them with a poor link, compete for two slots.        *)
EXTENDS Neighbours, TLC

CONSTANTS a, b, poor, far

MCCost == [p \in Peers |-> IF p = poor THEN 2 ELSE 1]
MCLists == {<<far>>, <<far, poor>>}
MCSymmetry == Permutations({a, b})
=============================================================================
