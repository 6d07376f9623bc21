--------------------------- MODULE CertificateProofs ---------------------------
(***************************************************************************)
(* Certificate proofs: createProof counts signatures, reads the prover key *)
(* file and proves the circuit; verifyProof reads the verifier key file    *)
(* twice, first for its type, and checks a proof against the public inputs *)
(* it computes from a claim.  Both run beside setups that rewrite the      *)
(* files, and beside crashes.                                              *)
(***************************************************************************)
EXTENDS CircuitKeys, ThresholdCircuit

CONSTANTS
  Batches,         \* what createProof is called with
  Claims,          \* what verifyProof is asked about
  OverflowChecks,  \* is the library built with overflow checks
  MaxProofs,       \* bound: proofs handed out
  NoArg

VARIABLES
  batch,    \* arguments of the createProof call of each thread
  claim,    \* arguments of its verifyProof call
  proof,    \* the proof to verify, or the one it created
  seen,     \* the key it read
  proofs    \* proofs handed out so far

callVars == <<batch, claim, proof, seen, proofs>>
vars == <<keyVars, callVars>>

files == <<pkFile, vkFile, overlapped>>

(* A proof is of a proving system and a circuit; it holds for its public   *)
(* inputs when the assignment satisfied the circuit.                       *)
Proof(r, n) ==
  [kind |-> "CoboundaryMarlin", n |-> n, inputs |-> PublicInputs(r),
   good |-> ThresholdCheck(r)]

(* Bytes that are no proof, and no bytes at all.                           *)
Garbage == [kind |-> "garbage", n |-> 0, inputs |-> <<>>, good |-> FALSE]
NoBytes == [kind |-> "empty", n |-> 0, inputs |-> <<>>, good |-> FALSE]

(* Lists of different lengths are among them: the code asserts on that.    *)
ASSUME BatchesAssumption == Batches \subseteq Requests

ASSUME ClaimsAssumption ==
  Claims \subseteq [pks : UNION {[1..n -> Keys] : n \in 1..MaxPks},
                    threshold : Int, cert : Certs, quality : Int]

ASSUME OverflowAssumption == OverflowChecks \in BOOLEAN

Init ==
  /\ KeysInit
  /\ batch = [t \in Threads |-> NoArg]
  /\ claim = [t \in Threads |-> NoArg]
  /\ proof = [t \in Threads |-> NoBytes]
  /\ seen = [t \in Threads |-> NoFile]
  /\ proofs = {}

-----------------------------------------------------------------------------
(* createProof *)

CreateBegin(t, r, d) ==
  /\ Cardinality(proofs) + Cardinality({u \in Threads : batch[u] # NoArg}) < MaxProofs
  /\ Goto(t, "idle", "count")
  /\ batch' = [batch EXCEPT ![t] = r]
  /\ dir' = [dir EXCEPT ![t] = d]
  /\ UNCHANGED <<ck, guard, files, circuit, result, claim, proof, seen, proofs>>

(* An argument that cannot be read, or lists of different lengths; a hash  *)
(* or a verification that fails.                                           *)
CreateFails(t) ==
  /\ \E r \in {"null", "exception"} : Finish(t, "count", r)
  /\ UNCHANGED <<files, callVars>>

(* valid_signatures - threshold, on unsigned integers.                     *)
CreateUnderflows(t) ==
  /\ OverflowChecks /\ pc[t] = "count"
  /\ Underflows(batch[t])
  /\ Finish(t, "count", "exception")
  /\ UNCHANGED <<files, callVars>>

CreateCounted(t) ==
  /\ Goto(t, "count", "readPk")
  /\ Len(batch[t].sigs) = Len(batch[t].pks)
  /\ OverflowChecks => ~Underflows(batch[t])
  /\ UNCHANGED <<ck, guard, files, dir, circuit, result, callVars>>

ReadPkFails(t) ==
  /\ ~IsKey(pkFile[dir[t]])
  /\ Finish(t, "readPk", "null")
  /\ UNCHANGED <<files, callVars>>

ReadPk(t) ==
  /\ IsKey(pkFile[dir[t]])
  /\ Goto(t, "readPk", "lock")
  /\ seen' = [seen EXCEPT ![t] = pkFile[dir[t]]]
  /\ UNCHANGED <<ck, guard, files, dir, circuit, result, batch, claim, proof, proofs>>

CreateNoCommitterKey(t) ==
  /\ ~ck
  /\ \E r \in {"null", "exception"} : Finish(t, "lock", r)
  /\ UNCHANGED <<files, callVars>>

CreateGuarded(t) ==
  /\ TakeGuard(t)
  /\ Goto(t, "lock", "prove")
  /\ UNCHANGED <<ck, files, dir, circuit, result, callVars>>

(* unimplemented!()                                                        *)
ProveDarlin(t) ==
  /\ seen[t].kind = "Darlin"
  /\ Finish(t, "prove", "exception")
  /\ UNCHANGED <<files, callVars>>

(* The key is of a circuit of this size.                                   *)
KeyFits(t) == seen[t].kind = "CoboundaryMarlin" /\ seen[t].n = Len(batch[t].pks)

(* An assignment that is not of the circuit of the key, or does not        *)
(* satisfy it: the prover may fail in either way.                          *)
ProveFails(t) ==
  /\ pc[t] = "prove"
  /\ seen[t].kind = "CoboundaryMarlin"
  /\ ~(KeyFits(t) /\ ThresholdCheck(batch[t]))
  /\ \E r \in {"null", "exception"} : Finish(t, "prove", r)
  /\ UNCHANGED <<files, callVars>>

(* ... or go through and return a proof of nothing.                        *)
Prove(t) ==
  /\ pc[t] = "prove"
  /\ KeyFits(t)
  /\ Finish(t, "prove", "proof")
  /\ proof' = [proof EXCEPT ![t] = Proof(batch[t], seen[t].n)]
  /\ proofs' = proofs \cup {proof'[t]}
  /\ UNCHANGED <<files, batch, claim, seen>>

-----------------------------------------------------------------------------
(* verifyProof *)

VerifyBegin(t, c, p, d) ==
  /\ Goto(t, "idle", "vkType")
  /\ claim' = [claim EXCEPT ![t] = c]
  /\ proof' = [proof EXCEPT ![t] = p]
  /\ dir' = [dir EXCEPT ![t] = d]
  /\ UNCHANGED <<ck, guard, files, circuit, result, batch, seen, proofs>>

(* The type of the key cannot be read, that of the proof cannot, or they   *)
(* differ.  Fragments may or may not have a type.                          *)
VerifyRefused(t) ==
  /\ \/ ~IsKey(vkFile[dir[t]])
     \/ proof[t] = Garbage
     \/ proof[t] # NoBytes /\ proof[t].kind # vkFile[dir[t]].kind
  /\ Finish(t, "vkType", "false")
  /\ UNCHANGED <<files, callVars>>

(* proof[..1] of an empty proof.                                           *)
VerifyPanics(t) ==
  /\ proof[t] = NoBytes
  /\ IsKey(vkFile[dir[t]]) \/ vkFile[dir[t]] = Torn
  /\ Finish(t, "vkType", "exception")
  /\ UNCHANGED <<files, callVars>>

VerifyTypesAgree(t) ==
  /\ proof[t] # NoBytes
  /\ \/ vkFile[dir[t]].kind \in {"torn", proof[t].kind}
     \/ IsKey(vkFile[dir[t]]) /\ proof[t] = Garbage
  /\ Goto(t, "vkType", "readVk")
  /\ UNCHANGED <<ck, guard, files, dir, circuit, result, callVars>>

ReadVkFails(t) ==
  /\ ~IsKey(vkFile[dir[t]]) \/ proof[t] = Garbage
  /\ Finish(t, "readVk", "false")
  /\ UNCHANGED <<files, callVars>>

ReadVk(t) ==
  /\ IsKey(vkFile[dir[t]])
  /\ proof[t] # Garbage
  /\ Goto(t, "readVk", "check")
  /\ seen' = [seen EXCEPT ![t] = vkFile[dir[t]]]
  /\ UNCHANGED <<ck, guard, files, dir, circuit, result, batch, claim, proof, proofs>>

(* The public inputs the verifier computes from its arguments.             *)
ClaimInputs(c) ==
  <<PksThresholdHash(c.pks, c.threshold), CertDataHash(c.cert, c.quality)>>

Accepts(vk, p, c) ==
  /\ p.kind = vk.kind
  /\ p.n = vk.n
  /\ p.good
  /\ p.inputs = ClaimInputs(c)

(* verify_zendoo_proof: an error is reported as false.                     *)
VerifyCheck(t) ==
  /\ Finish(t, "check",
       IF ck /\ Accepts(seen[t], proof[t], claim[t]) THEN "true" ELSE "false")
  /\ UNCHANGED <<files, callVars>>

-----------------------------------------------------------------------------

(* The caller takes the answer.                                            *)
CallReturn(t) ==
  /\ Return(t)
  /\ batch' = [batch EXCEPT ![t] = NoArg]
  /\ claim' = [claim EXCEPT ![t] = NoArg]
  /\ proof' = [proof EXCEPT ![t] = NoBytes]
  /\ seen' = [seen EXCEPT ![t] = NoFile]
  /\ UNCHANGED proofs

(* Proofs that were handed out survive in certificates.                    *)
CallCrash ==
  /\ Crash
  /\ batch' = [t \in Threads |-> NoArg]
  /\ claim' = [t \in Threads |-> NoArg]
  /\ proof' = [t \in Threads |-> NoBytes]
  /\ seen' = [t \in Threads |-> NoFile]
  /\ UNCHANGED proofs

CreateStep(t) ==
  \/ CreateFails(t) \/ CreateUnderflows(t) \/ CreateCounted(t)
  \/ ReadPkFails(t) \/ ReadPk(t)
  \/ CreateNoCommitterKey(t) \/ CreateGuarded(t)
  \/ ProveDarlin(t) \/ ProveFails(t) \/ Prove(t)

VerifyStep(t) ==
  \/ VerifyRefused(t) \/ VerifyPanics(t) \/ VerifyTypesAgree(t)
  \/ ReadVkFails(t) \/ ReadVk(t) \/ VerifyCheck(t)

Step(t) ==
  \/ SetupStep(t) /\ UNCHANGED callVars
  \/ CreateStep(t)
  \/ VerifyStep(t)

Call(t) ==
  \/ KeyCall(t) /\ UNCHANGED callVars
  \/ \E r \in Batches, d \in Dirs : CreateBegin(t, r, d)
  \/ \E c \in Claims, p \in proofs \cup {Garbage, NoBytes}, d \in Dirs :
       VerifyBegin(t, c, p, d)

Next ==
  \/ \E t \in Threads : Call(t) \/ Step(t) \/ CallReturn(t)
  \/ \E d \in Dirs, f \in Foreign : Install(d, f) /\ UNCHANGED callVars
  \/ CallCrash

Spec == Init /\ [][Next]_vars

(* A thread inside a native call is scheduled until the call returns.      *)
FairSpec == Spec /\ \A t \in Threads : WF_vars(Step(t))

-----------------------------------------------------------------------------
(* Properties *)

CallLabels == {"count", "readPk", "lock", "prove", "vkType", "readVk", "check"}

Inputs == {PublicInputs(r) : r \in Batches}

ProofValues ==
  [kind : {"CoboundaryMarlin"}, n : Nat, inputs : Inputs, good : BOOLEAN]

(* Type invariant.  Every proof handed out has the public inputs of some   *)
(* createProof call.                                                       *)
TypeOK ==
  /\ ck \in BOOLEAN
  /\ guard \subseteq Threads
  /\ pkFile \in [Dirs -> KeyFiles \cup {NoFile, Torn}]
  /\ vkFile \in [Dirs -> KeyFiles \cup {NoFile, Torn}]
  /\ pc \in [Threads -> KeyLabels \cup CallLabels]
  /\ dir \in [Threads -> Dirs]
  /\ circuit \in [Threads -> [kind : ProvingSystems \cup {"none"}, n : Nat]]
  /\ overlapped \in [Threads -> BOOLEAN]
  /\ result \in [Threads -> {"none", "true", "false", "exception", "null", "proof"}]
  /\ batch \in [Threads -> Batches \cup {NoArg}]
  /\ claim \in [Threads -> Claims \cup {NoArg}]
  /\ proof \in [Threads -> ProofValues \cup {Garbage, NoBytes}]
  /\ seen \in [Threads -> KeyFiles \cup {NoFile}]
  /\ proofs \subseteq ProofValues

(* Some createProof call has returned a proof, for signatures of the       *)
(* certificate that bear the claim out: as many as it says, no fewer than  *)
(* the threshold, from a committee with the same x coordinates.            *)
Signed(c) ==
  \E r \in Batches, p \in proofs :
    /\ p.inputs = PublicInputs(r)
    /\ r.cert = c.cert
    /\ Len(r.pks) = Len(c.pks)
    /\ \A i \in DOMAIN c.pks : XCoord[r.pks[i]] = XCoord[c.pks[i]]
    /\ Cardinality({i \in DOMAIN r.pks :
         i \in DOMAIN r.sigs /\ r.sigs[i] = <<r.pks[i], c.cert>>}) = AsU64(c.quality)
    /\ AsU64(c.quality) >= AsU64(c.threshold)

(* Soundness: when verifyProof answers true, the committee and threshold   *)
(* of the constant did sign the certificate, with the quality claimed,     *)
(* whatever happened to the key files meanwhile (cctp_calls.rs,            *)
(* create_naive_threshold_sig_proof and verify_naive_threshold_sig_proof). *)
AcceptedIsSigned ==
  \A t \in Threads :
    (pc[t] = "done" /\ claim[t] # NoArg /\ result[t] = "true") => Signed(claim[t])

(* Completeness: a proof that createProof returned for enough signatures   *)
(* is accepted for the claim it was made for, whatever its threshold, if   *)
(* the verifier key is of the circuit of that size and the committer key   *)
(* is loaded.                                                              *)
QuorumAccepted ==
  [][\A t \in Threads :
       (/\ pc[t] = "check" /\ pc'[t] = "done" /\ ck
        /\ proof[t].n = seen[t].n /\ proof[t].kind = seen[t].kind
        /\ \E r \in Batches :
             /\ Enough(r) /\ Len(r.sigs) = Len(r.pks)
             /\ claim[t].pks = r.pks /\ claim[t].threshold = r.threshold
             /\ claim[t].cert = r.cert /\ claim[t].quality = ValidSignatures(r)
             /\ proof[t].inputs = PublicInputs(r))
       => result'[t] = "true"]_vars

(* Every call but generateDLogKeys comes back, with setups, crashes and    *)
(* other calls around it, unless the process ends.                         *)
CallsReturn ==
  \A t \in Threads :
    pc[t] \notin {"idle", "loading", "done"} ~> pc[t] \in {"idle", "done"}

=============================================================================
