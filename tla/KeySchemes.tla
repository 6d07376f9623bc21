------------------------------ MODULE KeySchemes ------------------------------
(***************************************************************************)
(* The two schemes over key pairs: Schnorr signatures and the verifiable   *)
(* random function.  Their keys have the same operations (generate, derive *)
(* the public key, pair, serialize, deserialize with or without checks);   *)
(* signMessage and prove make evidence, verifySignature and proofToHash    *)
(* judge it.                                                               *)
(*                                                                         *)
(* The algebra is ideal: a public key is told by its secret key, evidence  *)
(* by the keys, the message and the randomness it was made from.  Two      *)
(* strange public keys have no owner, and anybody can make evidence that   *)
(* they accept: the identity of the group, and a point outside the group.  *)
(* Objects travel as byte arrays, in one of the two forms of a curve point.*)
(* Pointers and closing are the matter of NativeHandles.                   *)
(***************************************************************************)
EXTENDS Naturals, FiniteSets

CONSTANTS
  Secrets,
  Messages,    \* field elements
  Nonces,      \* what the random generator gives a signature or a proof
  Identity,    \* stands for the secret key of the identity: all know it
  Outside,     \* stands in for the secret key of a point outside the group
  IdentityRead,  \* does the check of an affine point let the identity pass
  MaxHeld,     \* bound on the objects the application holds
  MaxWires,    \* bound on the byte arrays it keeps
  MaxMade      \* bound on the evidence made

ASSUME SchemesAssumption ==
  /\ Identity \notin Secrets /\ Outside \notin Secrets /\ Identity # Outside
  /\ IdentityRead \in BOOLEAN
  /\ Messages # {} /\ Nonces # {}
  /\ MaxHeld \in Nat /\ MaxWires \in Nat /\ MaxMade \in Nat

VARIABLES
  scheme,      \* which of the two
  held,        \* the objects of the application: keys, pairs, evidence
  wires,       \* byte arrays written by the application or got from peers
  made,        \* what signMessage and prove were asked, and what they gave
  unchecked    \* has something been deserialized without checks

vars == <<scheme, held, wires, made, unchecked>>

SecretKey(s) == [type |-> "sk", of |-> s]
PublicKey(s) == [type |-> "pk", of |-> s]
Pair(sk, pk) == [type |-> "pair", sk |-> sk, pk |-> pk]

(* The points a public key may be.                                         *)
Strange == {Identity, Outside}
Points == Secrets \cup Strange

Keys == {SecretKey(s) : s \in Secrets} \cup {PublicKey(p) : p \in Points}

Evidence ==
  [type : {"evidence"}, sk : Points, pk : Points, msg : Messages, nonce : Nonces,
   valid : BOOLEAN]

Pairs == {Pair(s, p) : s \in Secrets, p \in Points}

(* Secret keys and signatures have one form; public keys and VRF proofs    *)
(* hold curve points, whose coordinates may both be written.               *)
HasPoints(o) == o.type = "pk" \/ (o.type = "evidence" /\ scheme = "vrf")

Wire(o, form) == [of |-> o, form |-> form]

Forms == {"compressed", "full"}

Garbage == [of |-> [type |-> "garbage"], form |-> "compressed"]

(* What peers may send: bytes that are no object, a strange key, evidence  *)
(* made without a secret key, of proper and of improper elements: for a    *)
(* strange key as its owner would make it, for another with the secret key *)
(* that all know.                                                          *)
MadeUp(p, m, n, v) ==
  [type |-> "evidence", sk |-> IF p \in Strange THEN p ELSE Identity, pk |-> p,
   msg |-> m, nonce |-> n, valid |-> v]

Received ==
  {Garbage} \cup {Wire(PublicKey(p), "compressed") : p \in Strange} \cup
  {Wire(MadeUp(p, m, n, v), "compressed") :
     p \in Points, m \in Messages, n \in Nonces, v \in BOOLEAN}

Init ==
  /\ scheme \in {"schnorr", "vrf"}
  /\ held = {}
  /\ wires = {}
  /\ made = {}
  /\ unchecked = FALSE

-----------------------------------------------------------------------------
(* Judging *)

(* The checks of deserialization, which isValidSignature and               *)
(* isValidVRFProof make too.  That of a public key is the one of an affine *)
(* point (type_mapping.rs:23, :30).                                        *)
IsValid(o) ==
  CASE o.type = "pk" -> o.of \in Secrets \/ (IdentityRead /\ o.of = Identity)
    [] o.type = "evidence" -> o.valid
    [] OTHER -> TRUE

(* keyverify of the scheme, taken to refuse both strange keys.             *)
VerifyKey(pk) == pk.of \notin Strange

\* The message is not part of what is hashed.
AcceptsAnyMessage(msg, pk, e) == e.sk = pk.of /\ e.pk = pk.of

(* The equation of the scheme, whatever point the key is: e was made by    *)
(* the secret key of pk, for pk and for msg.                               *)
Accepts(msg, pk, e) == e.sk = pk.of /\ e.pk = pk.of /\ e.msg = msg

VerifySignature(pk, e, msg) == Accepts(msg, pk, e)

(* The point gamma of a proof does not depend on the randomness.           *)
Gamma(e) == [sk |-> e.sk, pk |-> e.pk, msg |-> e.msg]

\* The response of the proof is hashed with it.
OutputOfProof(msg, e) == [msg |-> msg, gamma |-> [proof |-> e]]

(* The hash of the message and of the coordinates of gamma.                *)
Output(msg, e) == [msg |-> msg, gamma |-> Gamma(e)]

NoOutput == [msg |-> "null", gamma |-> "null"]

ProofToHash(pk, e, msg) ==
  IF Accepts(msg, pk, e) THEN [msg |-> msg, gamma |-> Gamma(e)] ELSE NoOutput

-----------------------------------------------------------------------------
(* Operations on keys *)

Hold(S) ==
  /\ held' = held \cup S
  /\ Cardinality(held') <= MaxHeld

Generate(s) ==
  /\ s \in Secrets
  /\ Hold({Pair(s, s), SecretKey(s), PublicKey(s)})
  /\ UNCHANGED <<scheme, wires, made, unchecked>>

GetPublicKey(o) ==
  /\ o.type = "sk"
  /\ Hold({PublicKey(o.of)})
  /\ UNCHANGED <<scheme, wires, made, unchecked>>

(* The constructor takes any two keys; the one of a secret key derives     *)
(* the other.                                                              *)
MakePair(sk, pk) ==
  /\ sk.type = "sk" /\ pk.type = "pk"
  /\ Hold({Pair(sk.of, pk.of)})
  /\ UNCHANGED <<scheme, wires, made, unchecked>>

MakePairOfSecret(sk) ==
  /\ sk.type = "sk"
  /\ Hold({Pair(sk.of, sk.of), PublicKey(sk.of)})
  /\ UNCHANGED <<scheme, wires, made, unchecked>>

(* The application lets go of an object.                                   *)
Close(o) ==
  /\ held' = held \ {o}
  /\ UNCHANGED <<scheme, wires, made, unchecked>>

-----------------------------------------------------------------------------
(* Making evidence *)

Make(kp, msg, nonce) ==
  [type |-> "evidence", sk |-> kp.sk, pk |-> kp.pk, msg |-> msg, nonce |-> nonce,
   valid |-> TRUE]

Record(kp, msg, e, out) ==
  /\ Cardinality(made) < MaxMade
  /\ made' = made \cup {[sk |-> kp.sk, pk |-> kp.pk, msg |-> msg, evidence |-> e, out |-> out]}

SignMessage(kp, msg, nonce) ==
  /\ scheme = "schnorr"
  /\ kp.type = "pair"
  /\ LET e == Make(kp, msg, nonce) IN Hold({e}) /\ Record(kp, msg, e, NoOutput)
  /\ UNCHANGED <<scheme, wires, unchecked>>

Prove(kp, msg, nonce) ==
  /\ scheme = "vrf"
  /\ kp.type = "pair"
  /\ LET e == Make(kp, msg, nonce) IN Hold({e}) /\ Record(kp, msg, e, Output(msg, e))
  /\ UNCHANGED <<scheme, wires, unchecked>>

-----------------------------------------------------------------------------
(* Bytes *)

FormOf(o, compressed) == IF HasPoints(o) /\ ~compressed THEN "full" ELSE "compressed"

Serialize(o, compressed) ==
  /\ o.type \in {"sk", "pk", "evidence"}
  /\ wires' = wires \cup {Wire(o, FormOf(o, compressed))}
  /\ Cardinality(wires') <= MaxWires
  /\ UNCHANGED <<scheme, held, made, unchecked>>

Receive(w) ==
  /\ wires' = wires \cup {w}
  /\ Cardinality(wires') <= MaxWires
  /\ UNCHANGED <<scheme, held, made, unchecked>>

(* The wrapper compares the length with that of the compressed form,       *)
(* whatever form it is told to read.                                       *)
LengthAccepted(w) == w.form = "compressed"

\* The checks are made only when they are not asked for.
ReadCheckSwapped(w, type, check, compressed) ==
  LET o == w.of IN
  IF /\ o.type = type
     /\ w.form = FormOf(o, compressed)
     /\ check \/ IsValid(o)
  THEN {o} ELSE {}

(* What the native function makes of an array of the expected length: an   *)
(* object, or null when the bytes do not have the form asked for, are no   *)
(* object of the type, or fail the checks.                                 *)
Read(w, type, check, compressed) ==
  LET o == w.of IN
  IF /\ o.type = type
     /\ w.form = FormOf(o, compressed)
     /\ check => IsValid(o)
  THEN {o} ELSE {}

Checkable(type) == type # "sk"

Deserialize(w, type, check, compressed) ==
  /\ LengthAccepted(w)
  /\ Checkable(type) \/ check
  /\ Hold(Read(w, type, check, compressed))
  /\ unchecked' = (unchecked \/ ~check)
  /\ UNCHANGED <<scheme, wires, made>>

-----------------------------------------------------------------------------

Next ==
  \/ \E s \in Secrets : Generate(s)
  \/ \E o \in held : GetPublicKey(o) \/ MakePairOfSecret(o) \/ Close(o)
  \/ \E sk, pk \in held : MakePair(sk, pk)
  \/ \E o \in held, m \in Messages, n \in Nonces : SignMessage(o, m, n) \/ Prove(o, m, n)
  \/ \E o \in held, compressed \in BOOLEAN : Serialize(o, compressed)
  \/ \E w \in Received : Receive(w)
  \/ \E w \in wires, type \in {"sk", "pk", "evidence"}, check, compressed \in BOOLEAN :
       Deserialize(w, type, check, compressed)

Spec == Init /\ [][Next]_vars

-----------------------------------------------------------------------------
(* Properties *)

(* Type invariant. *)
TypeOK ==
  /\ scheme \in {"schnorr", "vrf"}
  /\ held \subseteq Keys \cup Pairs \cup Evidence
  /\ \A w \in wires : w = Garbage \/ (w.of \in Keys \cup Evidence /\ w.form \in Forms)
  /\ \A c \in made : c.evidence \in Evidence
  /\ unchecked \in BOOLEAN

HeldOf(type) == {o \in held : o.type = type}

(* What verifySignature accepts was signed: some pair with the secret key  *)
(* of the public key was asked to sign this very message for this key,     *)
(* whatever came from peers, was read without checks, or was signed by a   *)
(* pair put together from the keys of two (SchnorrKeyPair.java:14).  A key *)
(* for which it is otherwise is one that verifyKey refuses, and it came in *)
(* because the application read without checks, or it is the identity: the *)
(* check of an affine point does not spare the call of verifyKey.          *)
VerifiedWasSigned ==
  scheme = "schnorr" =>
    \A pk \in HeldOf("pk"), e \in HeldOf("evidence"), m \in Messages :
      VerifySignature(pk, e, m) =>
        \/ \E c \in made : c.sk = pk.of /\ c.pk = pk.of /\ c.msg = m
        \/ ~VerifyKey(pk) /\ (unchecked \/ (IdentityRead /\ pk.of = Identity))

(* The output that prove computes itself (cctp_calls.rs:340) is the one    *)
(* that proofToHash of the library finds for its proof, and whoever holds  *)
(* other proofs for the key and the message finds no other.                *)
OneOutput ==
  scheme = "vrf" =>
    \A pk \in HeldOf("pk"), e \in HeldOf("evidence"), c \in made :
      LET out == ProofToHash(pk, e, c.msg) IN
      (c.sk = pk.of /\ c.pk = pk.of /\ out # NoOutput) => out = c.out
=============================================================================
