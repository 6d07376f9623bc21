------------------------------ MODULE KeyQueries ------------------------------
(***************************************************************************)
(* CircuitKeys with the sizes of keys and proofs, and what the proving     *)
(* system answers when it is asked about them.  setup measures with the    *)
(* length of the committer key in memory, rounded up to a power of two;    *)
(* checkProofVkSize, which knows only the verifier key file, with the size *)
(* its caller gives.  Both take Java's signed sizes for usize.  In between *)
(* the committer key may be another, and so may the files.                 *)
(*                                                                         *)
(* Each action is one of CircuitKeys with its effect on what is added      *)
(* here.  The questions change nothing: they are operators.                *)
(***************************************************************************)
EXTENDS CircuitKeys, PowerOfTwo

CONSTANTS
  Lengths,     \* lengths that a committer key may have
  Segments,    \* values of supportedSegmentSize
  Options,     \* zk, maxProofSize, maxVkSize and compressVk of a setup
  UsizeRange,  \* number of values of a usize
  ProofSize(_, _, _),  \* of a key, with or without zk, for a segment size
  VkSize(_),           \* both of the compressed form
  AtLimit      \* does check_proof_vk_size accept a size equal to its limit

Generated == [kind : {"CoboundaryMarlin"}, n : Sizes]

ASSUME QueriesAssumption ==
  /\ UsizeRange \in Nat
  /\ Lengths \subseteq Nat \ {0}
  /\ Segments \subseteq Int
  /\ Options \subseteq [zk : BOOLEAN, maxProof : Int, maxVk : Int, compressVk : BOOLEAN]
  /\ \A key \in Generated :
       /\ VkSize(key) \in Nat
       /\ \A zk \in BOOLEAN, len \in Lengths : ProofSize(key, zk, NextPowerOfTwo(len)) \in Nat
  /\ AtLimit \in BOOLEAN

VARIABLES
  length,      \* of the committer key in memory
  options,     \* of the setup of each thread
  measured,    \* the length it found
  compressed   \* is the verifier key at these paths in the compressed form

sizeVars == <<length, options, measured, compressed>>
queriesVars == <<keyVars, sizeVars>>

NoOptions == [zk |-> FALSE, maxProof |-> 0, maxVk |-> 0, compressVk |-> FALSE]

QueriesInit ==
  /\ KeysInit
  /\ length = 0
  /\ options = [t \in Threads |-> NoOptions]
  /\ measured = [t \in Threads |-> 0]
  /\ compressed = [d \in Dirs |-> FALSE]

-----------------------------------------------------------------------------
(* Sizes *)

(* `as usize` of a jint.                                                   *)
AsUsize(i) == IF i < 0 THEN i + UsizeRange ELSE i

\* The length of the committer key is taken as it is.
TooComplexUnrounded(key, o, len) ==
  \/ ProofSize(key, o.zk, len) > AsUsize(o.maxProof)
  \/ VkSize(key) > AsUsize(o.maxVk)

(* What generate_circuit_keypair refuses.                                  *)
TooComplex(key, o, len) ==
  \/ ProofSize(key, o.zk, NextPowerOfTwo(len)) > AsUsize(o.maxProof)
  \/ VkSize(key) > AsUsize(o.maxVk)

Within(size, limit) == size < limit \/ (AtLimit /\ size = limit)

(* check_proof_vk_size of the library.                                     *)
CheckSizes(key, zk, segment, maxProof, maxVk) ==
  /\ Within(ProofSize(key, zk, segment), maxProof)
  /\ Within(VkSize(key), maxVk)

(* The key is read in the compressed form; an error is answered with false.*)
CheckProofVkSize(zk, segment, maxProof, maxVk, d) ==
  /\ IsKey(vkFile[d]) /\ compressed[d]
  /\ CheckSizes(vkFile[d], zk, AsUsize(segment), AsUsize(maxProof), AsUsize(maxVk))

-----------------------------------------------------------------------------
(* Proving systems *)

AsJint(ps) ==
  CASE ps = "Undefined" -> 0 [] ps = "Darlin" -> 1 [] ps = "CoboundaryMarlin" -> 2

\* An error is answered with the number of CoboundaryMarlin.
TypeNumbersTwo(f) ==
  CASE f = NoFile -> {2} [] f = Torn -> {2} [] OTHER -> {AsJint(f.kind)}

(* The proving system by the first byte; an error is answered with 1.  A   *)
(* torn file is empty, or it starts like one of the keys that are written. *)
TypeNumbers(f) ==
  CASE f = NoFile -> {1} [] f = Torn -> {1, 2} [] OTHER -> {AsJint(f.kind)}

(* Of a proof: the same, but without a first byte the slice panics.        *)
ProofTypeNumbers(first) ==
  CASE first = "none" -> {} [] first \in ProvingSystems -> {AsJint(first)} [] OTHER -> {1}

(* ProvingSystemType of the answer.                                        *)
IntToProvingSystemType(i) ==
  CASE i = 0 -> "UNDEFINED" [] i = 1 -> "DARLIN" [] i = 2 -> "COBOUNDARY_MARLIN"

TypesOf(f) == {IntToProvingSystemType(i) : i \in TypeNumbers(f)}

ProofTypesOf(first) == {IntToProvingSystemType(i) : i \in ProofTypeNumbers(first)}

-----------------------------------------------------------------------------
(* Steps *)

LoadKeysOf(t, len) ==
  /\ LoadKeys(t)
  /\ length' = len
  /\ UNCHANGED <<options, measured, compressed>>

SetupAsked(t, d, ps, n, o) ==
  /\ SetupBegin(t, d, ps, n)
  /\ options' = [options EXCEPT ![t] = o]
  /\ UNCHANGED <<length, measured, compressed>>

SetupMeasured(t) ==
  /\ SetupGenerated(t)
  /\ ~TooComplex(circuit[t], options[t], length)
  /\ measured' = [measured EXCEPT ![t] = length]
  /\ UNCHANGED <<length, options, compressed>>

WriteVkInForm(t) ==
  /\ WriteVk(t)
  /\ compressed' = [compressed EXCEPT ![dir[t]] = options[t].compressVk]
  /\ UNCHANGED <<length, options, measured>>

InstallInForm(d, f, c) ==
  /\ Install(d, f)
  /\ compressed' = [compressed EXCEPT ![d] = c]
  /\ UNCHANGED <<length, options, measured>>

SizesReturn(t) ==
  /\ Return(t)
  /\ options' = [options EXCEPT ![t] = NoOptions]
  /\ measured' = [measured EXCEPT ![t] = 0]
  /\ UNCHANGED <<length, compressed>>

SizesCrash ==
  /\ Crash
  /\ length' = 0
  /\ options' = [t \in Threads |-> NoOptions]
  /\ measured' = [t \in Threads |-> 0]
  /\ UNCHANGED compressed

PlainSetupStep(t) ==
  \/ SetupPanics(t) \/ SetupNoCommitterKey(t) \/ SetupGuarded(t)
  \/ SetupUndefined(t) \/ SetupDarlin(t) \/ SetupRefused(t)
  \/ OpenPk(t) \/ WritePk(t) \/ OpenVk(t) \/ WriteFails(t)

SizesSetupStep(t) ==
  \/ PlainSetupStep(t) /\ UNCHANGED sizeVars
  \/ SetupMeasured(t)
  \/ WriteVkInForm(t)

SizesCall(t) ==
  \/ (LoadRefused(t) \/ LoadBegin(t)) /\ UNCHANGED sizeVars
  \/ \E len \in Lengths : LoadKeysOf(t, len)
  \/ \E d \in Dirs, ps \in ProvingSystems, n \in Sizes, o \in Options : SetupAsked(t, d, ps, n, o)

QueriesNext ==
  \/ \E t \in Threads : SizesCall(t) \/ SizesSetupStep(t) \/ SizesReturn(t)
  \/ \E d \in Dirs, f \in Foreign, c \in BOOLEAN : InstallInForm(d, f, c)
  \/ SizesCrash

QueriesSpec ==
  /\ QueriesInit
  /\ [][QueriesNext]_queriesVars
  /\ \A t \in Threads : WF_queriesVars(SizesSetupStep(t))

-----------------------------------------------------------------------------
(* Properties *)

(* The setup of t answered true, and no other used its paths meanwhile.    *)
Undisturbed(t) ==
  pc[t] = "done" /\ circuit[t] # NoFile /\ result[t] = "true" /\ ~overlapped[t]

AtALimit(key, o, segment) ==
  ProofSize(key, o.zk, segment) = AsUsize(o.maxProof) \/ VkSize(key) = AsUsize(o.maxVk)

(* A setup that answers true has left a verifier key that checkProofVkSize *)
(* accepts under the same limits, when it was asked for in the compressed  *)
(* form, and refuses otherwise - provided the check is given the size that *)
(* setup measured with, the next power of two of the length of the         *)
(* committer key it held (demo-circuit/src/lib.rs:86), which may have been *)
(* replaced since.  For a size that is not rounded so, nothing is said.    *)
SetupPassesCheck ==
  \A t \in Threads, s \in Segments :
    (Undisturbed(t) /\ AsUsize(s) = NextPowerOfTwo(measured[t])) =>
      LET o == options[t] IN
      CheckProofVkSize(o.zk, s, o.maxProof, o.maxVk, dir[t])
        <=> o.compressVk /\ (AtLimit \/ ~AtALimit(circuit[t], o, AsUsize(s)))

(* What an error of reading is answered with, DARLIN, misleads nobody who  *)
(* looks for keys that createProof and verifyProof can use (lib.rs:1993):  *)
(* such a key is always told COBOUNDARY_MARLIN, and no other whole key and *)
(* no missing file ever is, while setups, broken ones and copies change    *)
(* them; both files of an undisturbed setup, and the proofs made with      *)
(* them, are told alike.                                                   *)
TypesTold ==
  /\ \A d \in Dirs : \A f \in {pkFile[d], vkFile[d]} :
       f # Torn => (f.kind = "CoboundaryMarlin" <=> "COBOUNDARY_MARLIN" \in TypesOf(f))
  /\ \A t \in Threads : Undisturbed(t) =>
       /\ TypesOf(pkFile[dir[t]]) = TypesOf(vkFile[dir[t]])
       /\ TypesOf(vkFile[dir[t]]) = ProofTypesOf("CoboundaryMarlin")

=============================================================================
