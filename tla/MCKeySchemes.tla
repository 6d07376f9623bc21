------------------------------ MODULE MCKeySchemes ------------------------------
(***************************************************************************)
(* Two secret keys, so that a pair can be put together from the keys of    *)
(* two, two messages, and two nonces, so that there are two proofs of one  *)
(* output.                                                                 *)
(***************************************************************************)
EXTENDS KeySchemes, TLC

CONSTANTS s1, s2, m1, m2, n1, n2, identity, outside

MCSecrets == {s1, s2}
MCMessages == {m1, m2}
MCNonces == {n1, n2}

MCSymmetry ==
  Permutations(MCSecrets) \cup Permutations(MCMessages) \cup Permutations(MCNonces)
=============================================================================
