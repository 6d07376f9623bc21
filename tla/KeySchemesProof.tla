---------------------------- MODULE KeySchemesProof ----------------------------
(***************************************************************************)
(* Proofs about the key schemes, for any number of keys, messages and      *)
(* objects.  The inductive invariant says where evidence comes from: what  *)
(* the application holds or keeps as bytes was made by signMessage or      *)
(* prove, unless its secret key is that of a strange point; and that a     *)
(* public key held passed the check of an affine point, unless something   *)
(* was read without checks.                                                *)
(***************************************************************************)
EXTENDS KeySchemes, TLAPS

(* e was made up, or a pair of its keys was asked for its message. *)
HasOrigin(e) ==
  e.sk \notin Strange =>
    \E c \in made : c.evidence = e /\ c.sk = e.sk /\ c.pk = e.pk /\ c.msg = e.msg

Provenance ==
  /\ \A o \in held : o.type = "evidence" => HasOrigin(o)
  /\ \A w \in wires : w.of.type = "evidence" => HasOrigin(w.of)

(* What prove answered is the output of its proof. *)
MadeRecorded ==
  \A c \in made :
    /\ c.evidence.sk = c.sk /\ c.evidence.pk = c.pk /\ c.evidence.msg = c.msg
    /\ scheme = "vrf" => c.out = Output(c.msg, c.evidence)

KeysChecked == ~unchecked => \A o \in held : o.type = "pk" => IsValid(o)

IInv == TypeOK /\ Provenance /\ MadeRecorded /\ KeysChecked

(* What the type of an object says of it. *)
LEMMA ObjectsTyped ==
  ASSUME TypeOK, NEW o \in held
  PROVE  /\ o.type = "sk" => o = SecretKey(o.of) /\ o.of \in Secrets
         /\ o.type = "pk" => o = PublicKey(o.of) /\ o.of \in Points
         /\ o.type = "pair" => /\ o = Pair(o.sk, o.pk)
                               /\ o.sk \in Secrets /\ o.pk \in Points
         /\ o.type = "evidence" => o \in Evidence
<1>1. CASE o \in Keys
  BY <1>1 DEF Keys, SecretKey, PublicKey
<1>2. CASE o \in Pairs
  BY <1>2 DEF Pairs, Pair
<1>3. CASE o \in Evidence
  BY <1>3 DEF Evidence
<1> QED
  BY <1>1, <1>2, <1>3 DEF TypeOK

(* The keys that operations add are typed, and derived ones are valid. *)
LEMMA KeysTyped ==
  /\ \A s \in Secrets : /\ SecretKey(s) \in Keys /\ PublicKey(s) \in Keys
                        /\ IsValid(PublicKey(s))
  /\ \A s \in Secrets, p \in Points : Pair(s, p) \in Pairs
BY DEF Keys, Pairs, Points, IsValid, PublicKey

(* Keys and pairs whose public keys are valid may be added to those held.  *)
LEMMA HoldKeys ==
  ASSUME IInv, NEW S \in SUBSET (Keys \cup Pairs), held' = held \cup S,
         UNCHANGED <<scheme, wires, made, unchecked>>,
         \A o \in S : o.type # "evidence" /\ (o.type = "pk" => IsValid(o))
  PROVE  IInv'
<1>1. TypeOK'
  BY DEF IInv, TypeOK
<1>2. Provenance'
  BY DEF IInv, Provenance, HasOrigin
<1>3. MadeRecorded'
  BY DEF IInv, MadeRecorded, Output, Gamma
<1>4. KeysChecked'
  BY DEF IInv, KeysChecked
<1> QED
  BY <1>1, <1>2, <1>3, <1>4 DEF IInv

LEMMA GenerateInv ==
  ASSUME IInv, NEW s \in Secrets, Generate(s)
  PROVE  IInv'
<1> DEFINE S == {Pair(s, s), SecretKey(s), PublicKey(s)}
<1>1. S \in SUBSET (Keys \cup Pairs)
  BY KeysTyped DEF Points
<1>2. held' = held \cup S /\ UNCHANGED <<scheme, wires, made, unchecked>>
  BY DEF Generate, Hold
<1>3. \A o \in S : o.type # "evidence" /\ (o.type = "pk" => IsValid(o))
  <2>1. IsValid(PublicKey(s)) /\ PublicKey(s).type = "pk"
    BY KeysTyped DEF PublicKey
  <2>2. SecretKey(s).type = "sk" /\ Pair(s, s).type = "pair"
    BY DEF SecretKey, Pair
  <2> QED
    BY <2>1, <2>2
<1> QED
  BY <1>1, <1>2, <1>3, HoldKeys

LEMMA GetPublicKeyInv ==
  ASSUME IInv, NEW o \in held, GetPublicKey(o)
  PROVE  IInv'
<1>1. o.of \in Secrets
  BY ObjectsTyped DEF IInv, GetPublicKey
<1> DEFINE S == {PublicKey(o.of)}
<1>2. S \in SUBSET (Keys \cup Pairs)
  BY <1>1, KeysTyped
<1>3. held' = held \cup S /\ UNCHANGED <<scheme, wires, made, unchecked>>
  BY DEF GetPublicKey, Hold
<1>4. \A x \in S : x.type # "evidence" /\ (x.type = "pk" => IsValid(x))
  BY <1>1, KeysTyped DEF PublicKey
<1> QED
  BY <1>2, <1>3, <1>4, HoldKeys

LEMMA MakePairOfSecretInv ==
  ASSUME IInv, NEW o \in held, MakePairOfSecret(o)
  PROVE  IInv'
<1>1. o.of \in Secrets
  BY ObjectsTyped DEF IInv, MakePairOfSecret
<1> DEFINE S == {Pair(o.of, o.of), PublicKey(o.of)}
<1>2. S \in SUBSET (Keys \cup Pairs)
  BY <1>1, KeysTyped DEF Points
<1>3. held' = held \cup S /\ UNCHANGED <<scheme, wires, made, unchecked>>
  BY DEF MakePairOfSecret, Hold
<1>4. \A x \in S : x.type # "evidence" /\ (x.type = "pk" => IsValid(x))
  BY <1>1, KeysTyped DEF PublicKey, Pair
<1> QED
  BY <1>2, <1>3, <1>4, HoldKeys

(* The public key of a pair may be any point that is held. *)
LEMMA MakePairInv ==
  ASSUME IInv, NEW sk \in held, NEW pk \in held, MakePair(sk, pk)
  PROVE  IInv'
<1>1. sk.of \in Secrets /\ pk.of \in Points
  BY ObjectsTyped DEF IInv, MakePair
<1> DEFINE S == {Pair(sk.of, pk.of)}
<1>2. S \in SUBSET (Keys \cup Pairs)
  BY <1>1, KeysTyped
<1>3. held' = held \cup S /\ UNCHANGED <<scheme, wires, made, unchecked>>
  BY DEF MakePair, Hold
<1>4. \A x \in S : x.type # "evidence" /\ (x.type = "pk" => IsValid(x))
  BY DEF Pair
<1> QED
  BY <1>2, <1>3, <1>4, HoldKeys

LEMMA CloseInv ==
  ASSUME IInv, NEW o \in held, Close(o)
  PROVE  IInv'
<1>1. TypeOK'
  BY DEF IInv, TypeOK, Close
<1>2. Provenance'
  BY DEF IInv, Provenance, HasOrigin, Close
<1>3. MadeRecorded'
  BY DEF IInv, MadeRecorded, Output, Gamma, Close
<1>4. KeysChecked'
  BY DEF IInv, KeysChecked, Close
<1> QED
  BY <1>1, <1>2, <1>3, <1>4 DEF IInv

(* What signMessage and prove have in common. *)
LEMMA MakeInv ==
  ASSUME IInv, NEW kp \in held, NEW m \in Messages, NEW n \in Nonces, NEW out,
         kp.type = "pair",
         held' = held \cup {Make(kp, m, n)},
         Record(kp, m, Make(kp, m, n), out),
         scheme = "vrf" => out = Output(m, Make(kp, m, n)),
         UNCHANGED <<scheme, wires, unchecked>>
  PROVE  IInv'
<1> DEFINE e == Make(kp, m, n)
<1> DEFINE c == [sk |-> kp.sk, pk |-> kp.pk, msg |-> m, evidence |-> e, out |-> out]
<1>1. kp.sk \in Secrets /\ kp.pk \in Points
  BY ObjectsTyped DEF IInv
<1>2. e \in Evidence
  BY <1>1 DEF Make, Evidence, Points
<1>3. /\ e.sk = kp.sk /\ e.pk = kp.pk /\ e.msg = m
      /\ e.type = "evidence" /\ e.valid
  BY DEF Make
<1>4. made' = made \cup {c}
  BY DEF Record
<1> HIDE DEF e
<1>5. /\ c.sk = e.sk /\ c.pk = e.pk /\ c.msg = e.msg /\ c.evidence = e
      /\ c.sk = kp.sk /\ c.pk = kp.pk /\ c.msg = m /\ c.out = out
  BY <1>3
<1>6. held' = held \cup {e}
  BY DEF e
<1> HIDE DEF c
<1>7. TypeOK'
  BY <1>2, <1>4, <1>5, <1>6 DEF IInv, TypeOK
<1>8. Provenance'
  <2>1. ASSUME NEW x, HasOrigin(x) PROVE HasOrigin(x)'
    BY <1>4, <2>1 DEF HasOrigin
  <2>2. ASSUME NEW o \in held', o.type = "evidence" PROVE HasOrigin(o)'
    <3>1. CASE o \in held
      BY <2>1, <2>2, <3>1 DEF IInv, Provenance
    <3>2. CASE o = e
      BY <1>4, <1>5, <3>2 DEF HasOrigin
    <3> QED
      BY <1>6, <2>2, <3>1, <3>2
  <2>3. ASSUME NEW w \in wires', w.of.type = "evidence" PROVE HasOrigin(w.of)'
    BY <2>1, <2>3 DEF IInv, Provenance
  <2> QED
    BY <2>2, <2>3 DEF Provenance
<1>9. MadeRecorded'
  <2>1. scheme = "vrf" => c.out = Output(c.msg, c.evidence)
    BY <1>5 DEF e
  <2> QED
    BY <1>4, <1>5, <2>1 DEF IInv, MadeRecorded, Output, Gamma
<1>10. KeysChecked'
  BY <1>3, <1>6 DEF IInv, KeysChecked
<1> QED
  BY <1>7, <1>8, <1>9, <1>10 DEF IInv

LEMMA SignMessageInv ==
  ASSUME IInv, NEW o \in held, NEW m \in Messages, NEW n \in Nonces, SignMessage(o, m, n)
  PROVE  IInv'
<1>1. /\ o.type = "pair" /\ held' = held \cup {Make(o, m, n)}
      /\ Record(o, m, Make(o, m, n), NoOutput)
      /\ scheme # "vrf"
      /\ UNCHANGED <<scheme, wires, unchecked>>
  BY DEF SignMessage, Hold
<1> QED
  BY <1>1, MakeInv

LEMMA ProveInv ==
  ASSUME IInv, NEW o \in held, NEW m \in Messages, NEW n \in Nonces, Prove(o, m, n)
  PROVE  IInv'
<1>1. /\ o.type = "pair" /\ held' = held \cup {Make(o, m, n)}
      /\ Record(o, m, Make(o, m, n), Output(m, Make(o, m, n)))
      /\ UNCHANGED <<scheme, wires, unchecked>>
  BY DEF Prove, Hold
<1> QED
  BY <1>1, MakeInv

LEMMA SerializeInv ==
  ASSUME IInv, NEW o \in held, NEW compressed \in BOOLEAN, Serialize(o, compressed)
  PROVE  IInv'
<1> DEFINE w == Wire(o, FormOf(o, compressed))
<1>1. w.of = o /\ w.form \in Forms
  BY DEF Wire, FormOf, Forms
<1>2. wires' = wires \cup {w} /\ UNCHANGED <<scheme, held, made, unchecked>>
  BY DEF Serialize
<1> HIDE DEF w
<1>3. o \in Keys \cup Evidence
  BY DEF IInv, TypeOK, Serialize, Pairs, Pair
<1>4. TypeOK'
  BY <1>1, <1>2, <1>3 DEF IInv, TypeOK
<1>5. Provenance'
  BY <1>1, <1>2 DEF IInv, Provenance, HasOrigin
<1>6. MadeRecorded'
  BY <1>2 DEF IInv, MadeRecorded, Output, Gamma
<1>7. KeysChecked'
  BY <1>2 DEF IInv, KeysChecked
<1> QED
  BY <1>4, <1>5, <1>6, <1>7 DEF IInv

(* Evidence from outside has the secret key of a strange point. *)
LEMMA ReceivedTyped ==
  ASSUME NEW w \in Received
  PROVE  /\ w = Garbage \/ (w.of \in Keys \cup Evidence /\ w.form \in Forms)
         /\ w.of.type = "evidence" => w.of.sk \in Strange
<1>1. CASE w = Garbage
  BY <1>1 DEF Garbage
<1>2. CASE \E p \in Strange : w = Wire(PublicKey(p), "compressed")
  BY <1>2 DEF Wire, PublicKey, Keys, Points, Forms
<1>3. CASE \E p \in Points, m \in Messages, n \in Nonces, v \in BOOLEAN :
             w = Wire(MadeUp(p, m, n, v), "compressed")
  <2>1. PICK p \in Points, m \in Messages, n \in Nonces, v \in BOOLEAN :
               w = Wire(MadeUp(p, m, n, v), "compressed")
    BY <1>3
  <2> DEFINE q == IF p \in Strange THEN p ELSE Identity
  <2>2. q \in Strange /\ q \in Points
    BY DEF Strange, Points
  <2>3. /\ MadeUp(p, m, n, v) \in Evidence
        /\ MadeUp(p, m, n, v).sk = q
    BY <2>2 DEF MadeUp, Evidence
  <2>4. w.of = MadeUp(p, m, n, v) /\ w.form \in Forms
    BY <2>1 DEF Wire, Forms
  <2> QED
    BY <2>2, <2>3, <2>4
<1> QED
  BY <1>1, <1>2, <1>3 DEF Received

LEMMA ReceiveInv ==
  ASSUME IInv, NEW w \in Received, Receive(w)
  PROVE  IInv'
<1>1. wires' = wires \cup {w} /\ UNCHANGED <<scheme, held, made, unchecked>>
  BY DEF Receive
<1>2. TypeOK'
  BY <1>1, ReceivedTyped DEF IInv, TypeOK
<1>3. Provenance'
  BY <1>1, ReceivedTyped DEF IInv, Provenance, HasOrigin
<1>4. MadeRecorded'
  BY <1>1 DEF IInv, MadeRecorded, Output, Gamma
<1>5. KeysChecked'
  BY <1>1 DEF IInv, KeysChecked
<1> QED
  BY <1>2, <1>3, <1>4, <1>5 DEF IInv

LEMMA DeserializeInv ==
  ASSUME IInv, NEW w \in wires, NEW type \in {"sk", "pk", "evidence"},
         NEW check \in BOOLEAN, NEW compressed \in BOOLEAN,
         Deserialize(w, type, check, compressed)
  PROVE  IInv'
<1> DEFINE S == Read(w, type, check, compressed)
<1>1. /\ held' = held \cup S
      /\ unchecked' = (unchecked \/ ~check)
      /\ UNCHANGED <<scheme, wires, made>>
  BY DEF Deserialize, Hold
<1>2. \A o \in S : /\ o = w.of /\ o.type = type
                   /\ check => IsValid(o)
  BY DEF Read
<1> HIDE DEF S
<1>3. \A o \in S : o \in Keys \cup Evidence
  BY <1>2 DEF IInv, TypeOK, Garbage
<1>4. TypeOK'
  BY <1>1, <1>3 DEF IInv, TypeOK
<1>5. Provenance'
  BY <1>1, <1>2 DEF IInv, Provenance, HasOrigin
<1>6. MadeRecorded'
  BY <1>1 DEF IInv, MadeRecorded, Output, Gamma
<1>7. KeysChecked'
  BY <1>1, <1>2 DEF IInv, KeysChecked
<1> QED
  BY <1>4, <1>5, <1>6, <1>7 DEF IInv

LEMMA InitInv == Init => IInv
BY DEF Init, IInv, TypeOK, Provenance, MadeRecorded, KeysChecked

LEMMA NextInv == IInv /\ [Next]_vars => IInv'
<1> SUFFICES ASSUME IInv, [Next]_vars PROVE IInv'
  OBVIOUS
<1>1. CASE UNCHANGED vars
  <2>1. UNCHANGED <<scheme, held, wires, made, unchecked>>
    BY <1>1 DEF vars
  <2> QED
    BY <2>1 DEF IInv, TypeOK, Provenance, HasOrigin, MadeRecorded, KeysChecked,
                Output, Gamma
<1>2. CASE Next
  BY <1>2, GenerateInv, GetPublicKeyInv, MakePairOfSecretInv, CloseInv, MakePairInv,
     SignMessageInv, ProveInv, SerializeInv, ReceiveInv, DeserializeInv DEF Next
<1> QED
  BY <1>1, <1>2

(* The inductive invariant holds whatever the bounds. *)
THEOREM SchemesInvariance == Spec => []IInv
BY InitInv, NextInv, PTL DEF Spec

(* Objects, byte arrays and records keep their types. *)
THEOREM SchemesTyping == Spec => []TypeOK
<1>1. IInv => TypeOK
  BY DEF IInv
<1> QED
  BY <1>1, SchemesInvariance, PTL

(* What verifySignature accepts was signed by the owner of the key, or the  *)
(* key is one that verifyKey refuses: read without checks, or the identity. *)
THEOREM NoForgedSignature == Spec => []VerifiedWasSigned
<1>1. ASSUME IInv, NEW pk \in HeldOf("pk"), NEW e \in HeldOf("evidence"), NEW m \in Messages,
             VerifySignature(pk, e, m)
      PROVE  \/ \E c \in made : c.sk = pk.of /\ c.pk = pk.of /\ c.msg = m
             \/ ~VerifyKey(pk) /\ (unchecked \/ (IdentityRead /\ pk.of = Identity))
  <2>1. e.sk = pk.of /\ e.pk = pk.of /\ e.msg = m
    BY <1>1 DEF VerifySignature, Accepts
  <2>2. CASE VerifyKey(pk)
    <3>1. HasOrigin(e) /\ e.sk \notin Strange
      BY <1>1, <2>1, <2>2 DEF IInv, Provenance, HeldOf, VerifyKey
    <3> QED
      BY <2>1, <3>1 DEF HasOrigin
  <2>3. CASE ~VerifyKey(pk)
    <3>1. unchecked \/ IsValid(pk)
      BY <1>1 DEF IInv, KeysChecked, HeldOf
    <3>2. pk.of \notin Secrets
      BY <2>3, SchemesAssumption DEF VerifyKey, Strange
    <3>3. unchecked \/ (IdentityRead /\ pk.of = Identity)
      BY <3>1, <3>2 DEF IsValid, HeldOf
    <3> QED
      BY <2>3, <3>3
  <2> QED
    BY <2>2, <2>3
<1>2. IInv => VerifiedWasSigned
  BY <1>1 DEF VerifiedWasSigned
<1> QED
  BY <1>2, SchemesInvariance, PTL

(* A key and a message have one output, for prover and verifiers. *)
THEOREM UniqueOutput == Spec => []OneOutput
<1>1. ASSUME IInv, scheme = "vrf", NEW pk \in HeldOf("pk"), NEW e \in HeldOf("evidence"),
             NEW c \in made, c.sk = pk.of, c.pk = pk.of,
             ProofToHash(pk, e, c.msg) # NoOutput
      PROVE  ProofToHash(pk, e, c.msg) = c.out
  <2>1. e.sk = pk.of /\ e.pk = pk.of /\ e.msg = c.msg
    BY <1>1 DEF ProofToHash, Accepts
  <2>2. /\ c.evidence.sk = c.sk /\ c.evidence.pk = c.pk /\ c.evidence.msg = c.msg
        /\ c.out = Output(c.msg, c.evidence)
    BY <1>1 DEF IInv, MadeRecorded
  <2>3. Gamma(e) = Gamma(c.evidence)
    BY <1>1, <2>1, <2>2 DEF Gamma
  <2> QED
    BY <1>1, <2>2, <2>3 DEF ProofToHash, Output
<1>2. IInv => OneOutput
  BY <1>1 DEF OneOutput
<1> QED
  BY <1>2, SchemesInvariance, PTL
=============================================================================
