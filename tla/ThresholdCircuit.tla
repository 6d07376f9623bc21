--------------------------- MODULE ThresholdCircuit ---------------------------
(***************************************************************************)
(* The naive threshold signature circuit, and what the prover assigns to  *)
(* it: a committee signs a certificate, the circuit counts the signatures  *)
(* that verify and enforces count - threshold to fit in a few bits.  The   *)
(* arithmetic is that of the code: the prover subtracts unsigned 64-bit    *)
(* integers, the circuit subtracts in a prime field.                       *)
(*                                                                         *)
(* A certificate (sidechain id, epoch, backward transfers, tree root and   *)
(* fees) is one value; hashes do not collide, so the hash of a tuple is    *)
(* the tuple.  A signature is the pair of the key and the certificate it   *)
(* was made for.                                                           *)
(***************************************************************************)
EXTENDS Integers, FiniteSets, Sequences, PowerOfTwo

CONSTANTS
  P,        \* order of the field
  U64,      \* number of values of a u64
  MaxPks,   \* largest committee
  Keys,     \* Schnorr public keys
  XCoord,   \* x coordinate of each: a point and its negation share it
  Certs,    \* certificates
  NoSig     \* a SchnorrSignature without a pointer

\* The field of the proofs has some 254 bits.
ASSUME FieldAssumption ==
  /\ P \in Nat
  /\ U64 \in Nat \ {0}
  /\ 2 * U64 < P

\* One bit less: a full count does not fit when n is a power of two.
BitsRangeShort(n) == NextPowerOfTwo(n)

(* log_max_pks + 1 bits: counts from 0 to next_power_of_two(n) and more.   *)
BitsRange(n) == 2 * NextPowerOfTwo(n)

\* Committees are far smaller than a u64 is.
ASSUME CommitteeAssumption ==
  /\ MaxPks \in Nat \ {0}
  /\ \A n \in 1..MaxPks : BitsRange(n) <= U64

Sigs == {NoSig} \cup (Keys \X Certs)

(* What createProof is given: as many signatures as keys, or a panic.  A   *)
(* jlong threshold may be negative.                                        *)
Requests ==
  [pks : UNION {[1..n -> Keys] : n \in 1..MaxPks},
   sigs : UNION {[1..n -> Sigs] : n \in 1..MaxPks},
   threshold : Int,
   cert : Certs]

AsU64(long) == long % U64

FieldSub(x, y) == (x - y) % P

-----------------------------------------------------------------------------
(* Signatures *)

Verifies(pk, sig, cert) == sig = <<pk, cert>>

ValidPositions(r) ==
  {i \in DOMAIN r.pks : i \in DOMAIN r.sigs /\ Verifies(r.pks[i], r.sigs[i], r.cert)}

ValidSignatures(r) == Cardinality(ValidPositions(r))

Enough(r) == ValidSignatures(r) >= AsU64(r.threshold)

-----------------------------------------------------------------------------
(* Public inputs *)

PksThresholdHash(pks, threshold) ==
  <<[i \in DOMAIN pks |-> XCoord[pks[i]]], AsU64(threshold)>>

\* The number of valid signatures is left out of the hash.
SysDataHash(cert, quality) == <<cert, 0>>

CertDataHash(cert, quality) == <<cert, AsU64(quality)>>

PublicInputs(r) ==
  <<PksThresholdHash(r.pks, r.threshold), CertDataHash(r.cert, ValidSignatures(r))>>

-----------------------------------------------------------------------------
(* Witness and constraint *)

(* Is the unsigned subtraction of the prover one that wraps?              *)
Underflows(r) == ~Enough(r)

(* The low bits of valid_signatures - threshold, as assigned.              *)
BitsOf(r) ==
  ((ValidSignatures(r) - AsU64(r.threshold)) % U64) % BitsRange(Len(r.pks))

\* The subtraction of the circuit taken for the prover's.
ThresholdCheckU64(r) ==
  ((ValidSignatures(r) - AsU64(r.threshold)) % U64) % BitsRange(Len(r.pks)) = BitsOf(r)

(* count - threshold == b, in the field.                                   *)
ThresholdCheck(r) ==
  FieldSub(ValidSignatures(r), AsU64(r.threshold)) = BitsOf(r)

=============================================================================
