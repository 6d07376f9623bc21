-------------------------- MODULE MCCertificateProofs --------------------------
(***************************************************************************)
(* Instances of CertificateProofs.  A u64 has 8 values and the field 17.   *)
(* The key k3 is the negation of k1: they share the x coordinate.          *)
(***************************************************************************)
EXTENDS CertificateProofs, SequencesExt

CONSTANTS t1, t2, d1, k1, k2, k3, c1, c2

OneThread == {t1}
TwoThreads == {t1, t2}
MCDirs == {d1}
MCKeys == {k1, k2, k3}
MCXCoord == [k \in MCKeys |-> IF k = k2 THEN 2 ELSE 1]
MCCerts == {c1, c2}

Key(kind, n) == [kind |-> kind, n |-> n]

NoSizes == {}
TwoSizes == {1, 2}
OtherKeys == {Key("Darlin", 2)}
CircuitKeysOf23 == {Key("CoboundaryMarlin", n) : n \in 2..3}

(* Committees of two and three keys; each position has no signature, that of *)
(* its key, one for another certificate, or one of another key; thresholds *)
(* below, at and above the number of keys, and negative ones.              *)
Committee(n) == SubSeq(<<k1, k2, k3>>, 1, n)

SlotSigs(k) ==
  {NoSig, <<k, c1>>, <<k, c2>>, <<IF k = k1 THEN k3 ELSE k1, c1>>}

SigLists(n) ==
  {s \in [1..n -> UNION {SlotSigs(k) : k \in MCKeys}] :
     \A i \in 1..n : s[i] \in SlotSigs(Committee(n)[i])}

Thresholds == {-1, 0, 1, 2, 4}

AllBatches ==
  UNION {[pks : {Committee(n)}, sigs : SigLists(n), threshold : Thresholds, cert : {c1}] :
           n \in 2..3}

AllClaims ==
  [pks : {Committee(n) : n \in 2..3}, threshold : Thresholds, cert : {c1},
   quality : {-1} \cup 0..3]
  \cup [pks : {<<k3, k2>>}, threshold : {1}, cert : {c1, c2}, quality : 1..2]

(* Enough signatures, too few, and lists of different lengths.             *)
FewBatches ==
  {[pks |-> <<k1, k2>>, sigs |-> <<<<k1, c1>>, NoSig>>, threshold |-> 1, cert |-> c1],
   [pks |-> <<k1, k2>>, sigs |-> <<<<k1, c2>>, NoSig>>, threshold |-> 1, cert |-> c1],
   [pks |-> <<k1, k2>>, sigs |-> <<<<k1, c1>>>>, threshold |-> 1, cert |-> c1]}

FewClaims ==
  {[pks |-> <<k1, k2>>, threshold |-> 1, cert |-> c1, quality |-> 1],
   [pks |-> <<k1, k2>>, threshold |-> 1, cert |-> c1, quality |-> 0]}
=============================================================================
