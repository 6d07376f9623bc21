---------------------------- MODULE MCMerkleTree ----------------------------
(* Two trees, an original and a copy, of height 1 or 2, each filled with     *)
(* leaves, padded with zeros and reset on its own; every index and two out  *)
(* of range; paths from elsewhere.                                          *)
EXTENDS MerkleTree, TLC

CONSTANTS t1, t2, a, z

MCTrees == {t1, t2}
MCLeaf == {a}
MCHeights == {-1, 1, 2}
MCIndices == {-1, 0, 1, 2, 3, 4}

MCSymmetry == Permutations(MCTrees)

==============================================================================
