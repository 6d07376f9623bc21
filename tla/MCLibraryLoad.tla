---------------------------- MODULE MCLibraryLoad ----------------------------
(* Three threads and three wrapper classes: one thread loads, one waits for *)
(* it, one initialises another class; Poseidon and FieldElement have a size.*)
EXTENDS LibraryLoadProof

CONSTANTS t1, t2, t3, FieldElement, PoseidonHash, MerklePath

MCThreads == {t1, t2, t3}
MCWrappers == {FieldElement, PoseidonHash, MerklePath}
MCSized == {FieldElement, PoseidonHash}

==============================================================================
