----------------------------- MODULE MCCircuitKeys -----------------------------
(***************************************************************************)
(* Two threads, one pair of paths, circuits of two sizes, and keys of      *)
(* another proving system that may be copied over them.  One committer key *)
(* has a length that is no power of two.  Proofs grow with the segment     *)
(* size; the limits are at a size, below one, and negative.                *)
(***************************************************************************)
EXTENDS KeyQueries, TLC

CONSTANTS t1, t2, d1

MCThreads == {t1, t2}
MCDirs == {d1}
MCSizes == {2, 3}
MCForeign == {[kind |-> "Darlin", n |-> 2]}

MCLengths == {3, 8}
MCSegments == {-1, 3, 4, 8}
MCProofSize(key, zk, s) == key.n + s \div 2 + (IF zk THEN 1 ELSE 0)
MCVkSize(key) == 3 * key.n
MCOptions ==
  {[zk |-> FALSE, maxProof |-> 4, maxVk |-> 9, compressVk |-> TRUE],
   [zk |-> TRUE, maxProof |-> -1, maxVk |-> 6, compressVk |-> FALSE]}
=============================================================================
