--------------------------- MODULE MCNativeHandles ---------------------------
(***************************************************************************)
(* An instance of NativeHandles: two threads, a few objects, and one method*)
(* of every shape that the wrapper classes have.                           *)
(***************************************************************************)
EXTENDS NativeHandlesProof, TLC

CONSTANTS t1, t2, o1, o2, o3, b1, b2, b3, b4

MCThreads == {t1, t2}
MCObjs3 == {o1, o2, o3}
MCBoxes4 == {b1, b2, b3, b4}

Named(names, methods) == {m \in methods : m.name \in names}

(* Keys: pairs created one box after the other and packed, a key derived    *)
(* from another.                                                            *)
KeyMethods ==
  Named({"generate", "getPublicKey", "verifyKey"}, SchnorrSchemeMethods)

(* Trees: mutated in place and finalized into a copy; elements created from *)
(* data that may be refused, two of them in a call that checks neither.     *)
TreeMethods ==
  Named({"deserialize", "equals"}, FieldElementMethods)
  \cup Named({"init", "append", "finalizeTree"}, MerkleTreeMethods)

(* Proofs: a signature may be absent, a key may not. *)
ProofMethods == Named({"createProof"}, ThresholdProofMethods)

MCMethods == KeyMethods \cup TreeMethods \cup ProofMethods

Symmetric == Permutations(MCThreads) \cup Permutations(Objs) \cup Permutations(Boxes)

==============================================================================
