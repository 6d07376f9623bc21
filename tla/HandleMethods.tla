---------------------------- MODULE HandleMethods ----------------------------
(***************************************************************************)
(* The methods of the Java wrapper classes that touch native handles, one  *)
(* record for each, read off the wrapper (jni/src/main/java) and off the   *)
(* native function it calls (api/src/lib.rs):                              *)
(*                                                                         *)
(*   guard    position in args of the handle whose pointer the wrapper     *)
(*            compares with 0 before the native call; 0: no such check     *)
(*   args     the handles the native function dereferences, in the order   *)
(*            it reads them: their class, whether it takes &mut of them,   *)
(*            and whether a null pointer is accepted                       *)
(*   out      the classes of the handles it creates, in order              *)
(*   packs    the created handles are wrapped in another Java object (a    *)
(*            key pair, a prove result, an Optional, a list)               *)
(*   fails    an Err or a None of the library is answered with null, an    *)
(*            empty Optional or false                                      *)
(*   rejects  the wrapper checks the length of the data it was given and   *)
(*            throws IllegalArgumentException                              *)
(*                                                                         *)
(* Freeing a handle is not in the tables: NativeHandles has its actions.   *)
(***************************************************************************)
EXTENDS Naturals, Sequences

CONSTANT ListBound   \* length of the longest list of handles passed to a call

ASSUME ListBoundAssumption == ListBound \in Nat

(* The wrapper classes that hold a pointer. *)
Classes ==
  {"FieldElement", "SchnorrPublicKey", "SchnorrSecretKey", "SchnorrSignature",
   "PoseidonHash", "MerklePath", "MerkleTree", "VRFProof", "VRFPublicKey",
   "VRFSecretKey", "CommitmentTree", "ScExistenceProof", "ScAbsenceProof"}

In(c)  == [class |-> c, mut |-> FALSE, nullable |-> FALSE]
Mut(c) == [class |-> c, mut |-> TRUE,  nullable |-> FALSE]
Opt(c) == [class |-> c, mut |-> FALSE, nullable |-> TRUE]

Method(name, guard, args, out) ==
  [name |-> name, guard |-> guard, args |-> args, out |-> out,
   packs |-> FALSE, fails |-> FALSE, rejects |-> FALSE]

Packs(m)   == [m EXCEPT !.packs = TRUE]
Fails(m)   == [m EXCEPT !.fails = TRUE]
Rejects(m) == [m EXCEPT !.rejects = TRUE]

(* A list of n handles, read or created one after the other. *)
Times(n, x) == [i \in 1..n |-> x]

Reader(name, c)       == Method(name, 1, <<In(c)>>, <<>>)
Deserializer(name, c) == Fails(Method(name, 0, <<>>, <<c>>))

(* The type of the box behind a handle: the keys of the VRF and of the      *)
(* Schnorr scheme are the same two types.                                   *)
RustType(c) ==
  CASE c \in {"SchnorrPublicKey", "VRFPublicKey"} -> "G2"
    [] c \in {"SchnorrSecretKey", "VRFSecretKey"} -> "ScalarFieldElement"
    [] OTHER -> c

(* The type the free function of a class gives to Box::from_raw: VRF keys   *)
(* are freed as Schnorr keys.                                               *)
FreedAs(c) ==
  CASE c = "VRFPublicKey" -> RustType("SchnorrPublicKey")
    [] c = "VRFSecretKey" -> RustType("SchnorrSecretKey")
    [] OTHER -> RustType(c)

(* The classes whose free function reads the pointer from the object; the   *)
(* others are given it as an argument.                                      *)
FreedByField ==
  {"SchnorrPublicKey", "SchnorrSecretKey", "VRFPublicKey", "VRFSecretKey", "PoseidonHash"}

------------------------------------------------------------------------------
(* librustsidechains.  FieldElement.equals has no check of its own: both    *)
(* pointers are only checked natively.                                      *)

FieldElementMethods ==
  { Method("createRandom", 0, <<>>, <<"FieldElement">>),
    Method("createFromLong", 0, <<>>, <<"FieldElement">>),
    Reader("serializeFieldElement", "FieldElement"),
    Reader("printFieldElementBytes", "FieldElement"),
    Rejects(Deserializer("deserialize", "FieldElement")),
    Method("equals", 0, Times(2, In("FieldElement")), <<>>) }

------------------------------------------------------------------------------
(* schnorrnative.  The methods of a key pair check nothing in Java.         *)

SchnorrPublicKeyMethods ==
  { Reader("serializePublicKey", "SchnorrPublicKey"),
    Rejects(Deserializer("deserialize", "SchnorrPublicKey")) }

SchnorrSecretKeyMethods ==
  { Reader("serializeSecretKey", "SchnorrSecretKey"),
    Rejects(Deserializer("deserialize", "SchnorrSecretKey")) }

SchnorrSignatureMethods ==
  { Method("serializeSignature", 0, <<In("SchnorrSignature")>>, <<>>),
    Rejects(Deserializer("deserialize", "SchnorrSignature")),
    Reader("isValidSignature", "SchnorrSignature") }

SchnorrSchemeMethods ==
  { Packs(Method("generate", 0, <<>>, <<"SchnorrSecretKey", "SchnorrPublicKey">>)),
    Fails(Method("signMessage", 0,
      <<In("SchnorrSecretKey"), In("SchnorrPublicKey"), In("FieldElement")>>,
      <<"SchnorrSignature">>)),
    Reader("verifyKey", "SchnorrPublicKey"),
    Method("getPublicKey", 1, <<In("SchnorrSecretKey")>>, <<"SchnorrPublicKey">>),
    Fails(Method("verifySignature", 1,
      <<In("SchnorrPublicKey"), In("FieldElement"), In("SchnorrSignature")>>, <<>>)) }

------------------------------------------------------------------------------
(* poseidonnative.  The digest is mutated by update and reset; a list of    *)
(* personalization elements may be given at creation and at reset.          *)

PoseidonHashMethods ==
  { Method("getInstance", 0, Times(n, In("FieldElement")), <<"PoseidonHash">>)
      : n \in 0..ListBound }
  \cup
  { Method("reset", 1, <<Mut("PoseidonHash")>> \o Times(n, In("FieldElement")), <<>>)
      : n \in 0..ListBound }
  \cup
  { Method("update", 1, <<Mut("PoseidonHash"), In("FieldElement")>>, <<>>),
    Fails(Method("finalizeHash", 1, <<In("PoseidonHash")>>, <<"FieldElement">>)) }

------------------------------------------------------------------------------
(* merkletreenative.  The native functions read the leaf before the tree,   *)
(* and the leaf and the root before the path.                               *)

MerklePathVerifyMethods ==
  { Fails(Method("verify", 3,
      Times(2, In("FieldElement")) \o <<In("MerklePath")>>, <<>>)),
    Fails(Method("verifyWithoutLengthCheck", 3,
      Times(2, In("FieldElement")) \o <<In("MerklePath")>>, <<>>)),
    Method("apply", 1, <<In("MerklePath"), In("FieldElement")>>, <<"FieldElement">>),
    Reader("isLeftmost", "MerklePath") }

MerklePathMethods ==
  { Reader("isRightmost", "MerklePath"),
    Reader("areRightLeavesEmpty", "MerklePath"),
    Reader("leafIndex", "MerklePath"),
    Reader("serialize", "MerklePath"),
    Deserializer("deserialize", "MerklePath") }

MerkleTreeMethods ==
  { Fails(Method("init", 0, <<>>, <<"MerkleTree">>)),
    Fails(Method("append", 2, <<In("FieldElement"), Mut("MerkleTree")>>, <<>>)),
    Fails(Method("finalizeTree", 1, <<In("MerkleTree")>>, <<"MerkleTree">>)),
    Fails(Method("finalizeTreeInPlace", 1, <<Mut("MerkleTree")>>, <<>>)),
    Fails(Method("root", 1, <<In("MerkleTree")>>, <<"FieldElement">>)),
    Fails(Method("getMerklePath", 1, <<In("MerkleTree")>>, <<"MerklePath">>)),
    Method("reset", 1, <<Mut("MerkleTree")>>, <<>>) }

------------------------------------------------------------------------------
(* vrfnative.  The keys are of the types of the Schnorr keys.               *)

VRFProofMethods ==
  { Reader("serializeProof", "VRFProof"),
    Rejects(Deserializer("deserialize", "VRFProof")),
    Reader("isValidVRFProof", "VRFProof") }

VRFKeyMethods ==
  { Reader("serializePublicKey", "VRFPublicKey"),
    Rejects(Deserializer("deserialize", "VRFPublicKey")),
    Reader("serializeSecretKey", "VRFSecretKey"),
    Rejects(Deserializer("deserialize", "VRFSecretKey")) }

VRFSchemeMethods ==
  { Packs(Method("generate", 0, <<>>, <<"VRFSecretKey", "VRFPublicKey">>)),
    Packs(Fails(Method("prove", 0,
      <<In("VRFSecretKey"), In("VRFPublicKey"), In("FieldElement")>>,
      <<"VRFProof", "FieldElement">>))),
    Method("getPublicKey", 1, <<In("VRFSecretKey")>>, <<"VRFPublicKey">>) }

VRFVerifyMethods ==
  { Reader("verifyKey", "VRFPublicKey"),
    Fails(Method("proofToHash", 1,
      <<In("VRFPublicKey"), In("FieldElement"), In("VRFProof")>>, <<"FieldElement">>)) }

------------------------------------------------------------------------------
(* sigproofnative.  A signature may be absent from a proof, a key may not.  *)

Signed(n) ==
  [i \in 1..(2 * n) |-> IF i % 2 = 1 THEN Opt("SchnorrSignature") ELSE In("SchnorrPublicKey")]

ThresholdConstantMethods ==
  { Fails(Method("getConstant", 0, Times(n, In("SchnorrPublicKey")), <<"FieldElement">>))
      : n \in 0..ListBound }

ThresholdMessageMethods ==
  { Fails(Method("createMsgToSign", 0, Times(2, In("FieldElement")), <<"FieldElement">>)) }

ThresholdProofMethods ==
  { Fails(Method("createProof", 0, Signed(n) \o Times(2, In("FieldElement")), <<>>))
      : n \in 0..ListBound }

ThresholdVerifyMethods ==
  { Fails(Method("verifyProof", 0, Times(3, In("FieldElement")), <<>>)) }

------------------------------------------------------------------------------
(* commitmenttree.  Every method of a tree, those that only look something  *)
(* up included, takes &mut of it: the getters fill the caches of the tree.  *)

CommitmentTreeAddMethods ==
  { Fails(Method(name, 1, <<Mut("CommitmentTree")>>, <<>>))
      : name \in {"addScCr", "addFwt", "addBtr", "addCert", "addCertLeaf", "addCsw"} }

CommitmentTreeLeavesMethods ==
  { Packs(Fails(Method("getCrtLeaves", 1, <<Mut("CommitmentTree")>>,
                       Times(n, "FieldElement")))) : n \in 0..ListBound }

CommitmentTreeGetMethods ==
  { Method("init", 0, <<>>, <<"CommitmentTree">>) }
  \cup
  { Packs(Fails(Method(name, 1, <<Mut("CommitmentTree")>>, <<"FieldElement">>)))
      : name \in {"getScCrCommitment", "getFwtCommitment", "getBtrCommitment",
                  "getCertCommitment", "getCswCommitment", "getScCommitment",
                  "getCommitment"} }

ScExistenceProofMethods ==
  { Packs(Fails(Method("getScExistenceProof", 1, <<Mut("CommitmentTree")>>,
                       <<"ScExistenceProof">>))),
    Reader("serialize", "ScExistenceProof"),
    Deserializer("deserialize", "ScExistenceProof") }

ScAbsenceProofMethods ==
  { Packs(Fails(Method("getScAbsenceProof", 1, <<Mut("CommitmentTree")>>,
                       <<"ScAbsenceProof">>))),
    Reader("serialize", "ScAbsenceProof"),
    Deserializer("deserialize", "ScAbsenceProof") }

ScProofVerifyMethods ==
  { Method("verifyScCommitment", 0,
      <<In("FieldElement"), In("ScExistenceProof"), In("FieldElement")>>, <<>>),
    Method("verifyScAbsence", 0, <<In("ScAbsenceProof"), In("FieldElement")>>, <<>>) }

==============================================================================
