# zendoo-sc-cryptolib: TLA+ specifications and proofs

zendoo-sc-cryptolib gives the Java code of a Zendoo sidechain access to a Rust
cryptographic library: field elements, Schnorr signatures, VRF, Poseidon
hashes, Merkle trees, the sidechain commitment tree, and the creation and
verification of withdrawal certificates proved with a SNARK. This directory
holds its specifications in TLA+, the configurations that check them with TLC
and the proofs that TLAPS checks.

The cryptography is in other repositories (ginger-lib, marlin,
zendoo-cctp-lib). What this repository adds, and what is specified here, is the
boundary between the two languages (who owns native memory, what becomes of
errors and panics), the threshold signature circuit, and the pipeline of keys
and proofs around it.

## Inventory

| Component | Code | State | Operations | Interacts with |
|---|---|---|---|---|
| Native boundary | `api/src/exception.rs` | pending exception of each thread | `ffi_export!`, `throw!`, `throw_and_exit!`, `_throw_inner` | wraps every native function |
| Handles | `api/src/lib.rs`, all wrapper classes | one pointer field for each Java object, one native box | construct, read, `&mut`, free | every component below holds its data in them |
| Threshold circuit | `demo-circuit/src/naive_threshold_sig/mod.rs` | none (constraints) | `new`, `generate_constraints`, `get_instance_for_setup` | instantiated by setup and by createProof |
| Circuit keys | `demo-circuit/src/lib.rs`, `provingsystemnative/` | committer key of the process; two key files | `generateDLogKeys`, `setup`, type and size queries | read by createProof and verifyProof |
| Certificate proofs | `api/src/cctp_calls.rs`, `sigproofnative/` | none of its own | `getConstant`, `createMsgToSign`, `createProof`, `verifyProof` | circuit, key files, committer key |
| Schnorr, VRF | `api/src/cctp_calls.rs`, `schnorrnative/`, `vrfnative/` | keys, signatures, proofs | generate, sign, verify, prove, proofToHash | signatures go into createProof |
| Poseidon hash | `poseidonnative/` | absorbed field elements | update, finalize, reset | handles mutated in place |
| Merkle tree, path | `merkletreenative/` | leaves, finalized or not | append, finalize (copy, in place), root, getMerklePath, reset, verify | handles mutated in place |
| Commitment tree | `commitmenttree/` | outputs of each sidechain | add*, get*, existence and absence proofs | handles, all calls through `&mut` |
| Library loading | `librustsidechains/Library.java` | `loaded` | `load` | static initialiser of every wrapper |
| Constants, utilities | `demo-circuit/src/constants/`, `Utils.java` | none | pure functions | |

### What is hard

* Threads. The library has no lock of its own around native memory. Each
  wrapper tests its pointer, then the native function reads it again. A hash or
  tree is reached through a `&mut`, even by getters of the commitment tree.
* Failure. A native call can fail in Rust (`Err`, panic) or in the JVM (a
  pending exception, then `expect`), in the middle of a sequence of boxes
  handed to Java objects. The recovery itself may fail.
* Key files. `setup` writes two files, without a temporary file or a lock;
  `verifyProof` reads one of them twice. A crash, a second setup, or a full
  disk can happen between any two of these steps.
* Arithmetic. The prover subtracts `u64`s, the circuit field elements; a few
  bits hold the difference; thresholds, sizes, indices and limits come as signed
  numbers and are converted with `as`.
* Sequences of calls. A hash, a tree and a commitment tree are updated, finalized,
  reset and freed in any order; paths and proofs outlive the objects they come
  from and are verified against whatever these have become.
* Arguments. A call reads up to nine arrays, one after the other; any of them may
  be null, too long or no field element, when others have been read already.
* Class initialisation. The library is loaded by the static initialiser of
  whatever wrapper class is used first, on any thread, once, or never.
* The committer key is behind a lock whose shared guard is held for as long as
  a proof or a setup runs, and during panics.

### What makes each component correct

* Boundary: the first exception reaches Java, a default value never without
  one, every call returns, raises or aborts.
* Handles: no use after free, no double free, no aliased `&mut`, one owner per
  box; seen from Java, each call takes effect at one moment.
* Circuit: it is satisfied exactly when there are enough valid signatures.
* Keys: a setup that returns true has written a pair; the lock is given back.
* Certificates: what is accepted was signed (soundness), what was signed by
  enough is accepted (completeness), calls return.
* Schemes: a signature that is accepted was made by the owner of the key, unless
  `verifyKey` refuses the key; the output of the random function is unique.
* Key queries: what `setup` accepted the check confirms, when it is given the size
  that `setup` measured with; whole keys are told by their proving system.
* Hashes: a digest is that of the elements the application was told were
  absorbed; a call that raises an exception has changed nothing.
* Merkle trees: paths of a tree lead to its root, a verified path is of a leaf at
  its place, a copy and its original do not influence each other.
* Commitment tree: calls are atomic, getters agree with what was added, of the two
  proofs exactly one can be had, and only the truth can be proved.
* Loading: native code runs after the library is loaded, which is once; a failure
  is final and clean; no thread waits for ever.

## Modules

| Module | What it is |
|---|---|
| `FfiExport` | exceptions and panics of native calls; `MCFfiExport` instantiates it |
| `FfiExportProof` | proofs about it |
| `Handles` | abstract specification: handles whose calls take one step |
| `HandleMethods` | the native methods as a table of their handles, references and results |
| `NativeHandles` | pointers, boxes, references, the two reads and the frees; instantiates `Handles` |
| `NativeHandlesProof` | proofs about it, and that it implements `Handles`; `MCNativeHandles` instantiates it |
| `PowerOfTwo` | `next_power_of_two`, which the circuit and `setup` use |
| `ThresholdCircuit` | the circuit and the prover's assignment |
| `CircuitKeys` | committer key, setup, key files |
| `KeyQueries` | extends `CircuitKeys` with sizes, limits, forms and the questions about key files; `MCCircuitKeys` instantiates both |
| `CertificateProofs` | extends `CircuitKeys` and `ThresholdCircuit` with createProof and verifyProof; `MCCertificateProofs` instantiates it |
| `CertificateProofsProof` | proofs about `CircuitKeys`, `ThresholdCircuit`, `CertificateProofs` and `KeyQueries` |
| `KeySchemes` | Schnorr and VRF: keys, pairs, evidence, byte arrays; `MCKeySchemes` instantiates it |
| `KeySchemesProof` | proofs about it |
| `PoseidonHash`, `PoseidonHashProof` | hash objects, and proofs; `MCPoseidonHash` instantiates it |
| `MerkleTree`, `MerkleTreeProof` | trees and paths, and proofs; `MCMerkleTree` instantiates it |
| `CommitmentLedger` | abstract specification: lists of leaves with atomic additions |
| `CommitmentTree` | the tree, its arguments and its proofs; instantiates `CommitmentLedger`; `MCCommitmentTree` instantiates it |
| `CommitmentTreeProof` | proofs about it |
| `LibraryLoad`, `LibraryLoadProof` | class initialisation and `Library.load`, and proofs; `MCLibraryLoad` instantiates it |

`NativeHandles` takes what overlaps: threads, pointers, closing. The modules of
the single wrappers run one call at a time, which is what `Handles` (implemented
by `NativeHandles`) lets them assume, and look into the objects instead.

### FfiExport

One thread runs one native call: the body (which may return, panic, throw or
find an exception of the JVM pending), `_throw_inner` step by step, the catch of
the body, the recovery and its catch. The state is, per thread, the position in
this protocol and the exception that is pending. The four arms of the macro
differ only in the default value, which is one value here. `ffi_exceptions`
checks two threads and two kinds of exception. Fairness: a thread inside a
native call is scheduled.

### Handles and NativeHandles

`HandleMethods` lists the calls: which handles a call is given, which are
guarded in Java, which it mutates, what it returns. `NativeHandles` runs them on
threads. An object has a pointer (0 once freed); an address holds a box with a
kind or nothing; a call collects references one after the other, works,
allocates boxes, wraps them into objects. Free functions read the address (from
the argument or from the field), drop, and clear the field. Addresses are reused
at once, so a stale address aliases a new object.

`MayUse` in `NativeHandles` says which calls may run together. It is the
contract of the library with its callers, that the code neither enforces nor
could enforce without a lock: a handle is not closed while a call uses it, and
a handle that a call mutates is not used by another. All properties of this
module are relative to it: the references to memory stay valid *given* it. In
particular nothing here is about a close that falls between the test of a wrapper
and the second read of the native function (`SchnorrSecretKey.java:57`): the code
does not exclude it, and what follows it is undefined behaviour.

`ImplementsHandles` is the refinement: `open`, `closed`, `busy` and `call` of
`Handles` are computed from the pointers, positions and arguments of
`NativeHandles`. A call takes effect at the step that returns to Java, a close at
the step that frees the box: from then until the field is cleared the object
is dangling, and counts as closed.

The run `handles` has one method of each shape: key pairs packed from two boxes,
mutation in place, copies, elements refused, frees by field and by argument,
unguarded calls and absent signatures. It has two threads, three objects and four
addresses: a violation of ownership or aliasing takes two objects and two threads,
a pair and a copy a third one.

### ThresholdCircuit

The committee is a sequence of keys; a signature is a pair of a key and a
certificate; a hash is the tuple of what is hashed, so it does not collide. The
public inputs are the hash of the x coordinates of the keys with the threshold,
and the hash of the certificate with the count. Two keys can share an x
coordinate (a point and its negation), as in the code, which hashes only x. The
`u64` has `U64` values, the field `P` elements.

### CircuitKeys

A call is a thread at a label. `setup` takes the shared guard of the committer
key, looks at the proving system and the sizes, then creates the prover key
file, fills it, creates the verifier key file and fills it. A file holds
nothing, a fragment, or a key. Writers of the same file that overlap leave the
key of the last or a mixture. Keys of another origin can be copied over both
files; a crash ends all calls and keeps the files. `overlapped` records whether
another setup, or a copy, used the paths since this one started to write:
`SetupPairsKeys` makes its promise for the others. Key generation is
deterministic: the key of a circuit is named by its size. Its sizes, the limits,
and the flags for compression and zero knowledge are in `KeyQueries`.

### CertificateProofs

createProof counts signatures, subtracts, reads the prover key, takes the guard,
proves. When the assignment does not satisfy the circuit the prover may fail,
panic, or return a proof that does not hold (the repository disables its test of
this case, see the TODO in `naive_threshold_sig/mod.rs`); all three are
possible. verifyProof reads the type of the key, compares it with the first byte
of the proof, reads the key, and checks. `OverflowChecks` tells a debug build
from a release build. A proof lasts beyond a crash: it is in a certificate.

### KeyQueries

Each action is one of `CircuitKeys` with its effect on four more variables: the
length of the committer key in memory, the options of each setup and the length it
measured, and the form of the verifier key file. `setup` rounds the length up to a
power of two (`demo-circuit/src/lib.rs:86`); `checkProofVkSize` takes the size of its
caller as it is (`lib.rs:1899`). `SetupPassesCheck` is about the rounded size only, and
the run has a committer key of length 3 to tell the two apart: for a caller that
passes another size nothing is promised. Sizes are functions of the key, of zero
knowledge and of the segment size, about which nothing is assumed, not even that
they grow. Limits and segment sizes become `usize`. `AtLimit` leaves open whether the
library accepts a size that equals its limit, as `setup` does. The questions
(`ProvingSystem.getProverKeyProvingSystemType` and its siblings, `checkProofVkSize`)
change nothing, so they are operators. A file left in part begins like a key, or is
empty, so that its type is an answer or the other.

### KeySchemes

The two schemes have the same operations on keys and differ in what is made with
them; a run takes either. `held` are the objects of the application, `wires` byte
arrays that it wrote or that peers sent. `signMessage` and `prove` work on any pair,
also one of a secret and a foreign public key, which `SchnorrKeyPair` and `VRFKeyPair`
accept. `prove` computes the output from the proof by itself, as the code does. The
compressed and the full form differ in length for keys and proofs that hold curve
points; the wrappers compare the length with that of the compressed form. `made` is
history.

Two public keys are nobody's: `Identity`, whose secret key all know, and `Outside`, for
any point that is not of the group. Peers send them, and evidence that they accept:
`verifySignature` does not look at the key (`cctp_calls.rs:67-77`). There are two checks.
Deserialization checks an affine point (`type_mapping.rs:23`, `:30`): it refuses
`Outside`, and may or may not refuse the identity (`IdentityRead`; that code is
external, the run takes the worse case, the theorem holds for both). `verifyKey`
asks the scheme (`cctp_calls.rs:49-51`), which is taken to refuse both. So
`VerifiedWasSigned` is a disjunction: what is accepted was signed, or `verifyKey` refuses
the key, and then it was read without checks or is the identity. An application
that wants the first alone calls `verifyKey`, also on keys it read with checks.

### PoseidonHash

A native call begins (`call`), reads the elements it was given one by one (`read`)
and then works on the object (`hash`) and answers. `told` records what calls that
returned told the application. Digests are ideal: of the mode, the personalization
and the inputs. A constant length hash that got another number of inputs is
answered with null: `FinalizeMatchesCalls` says what the code does, and
`WrongLengthRaises` what its comment says. `Updates` is the loop of `computePoseidonHash`, one update for
each input. `PoseidonAssumption` says that sizes are `jint`s, hence smaller than a
`usize` can be, and that a negative one converts to more inputs than any hash gets.

### MerkleTree

Trees are sequences of leaves, with the padding, and whether they are finalized;
nodes are pairs, so that the root determines the leaves. `path` is the one path
object in use; it remembers which leaves it was got from. Paths from elsewhere are
any steps with known siblings. Verification takes the height the application
gives, or none. The levels of a tree, the way up a path and the powers of two are
recursive functions, whose equations are proved. `MerkleAssumption`: indices and
heights are signed numbers of half the width of a `u64`, and a `u64` counts the
leaves of the highest tree that `init` accepts.

### CommitmentTree

`Reads` is a table: how each call reads its arguments, in the order of the native
code. A call is invoked, reads the next argument or fails on it, and when all are
read adds, refuses or answers. `told` are the additions that were confirmed. The
commitment of a sidechain is the record of its lists, a proof of existence its
position among the others, a proof of absence the two neighbours in the order of
the ids. An optional value is a sequence of at most one element, and `Kept` are the
elements of a history at given positions. A single element is checked for its
length; those of the request data and of the custom fields are not (`lib.rs:2657`,
`lib.rs:2778`): one that is too long (`Longer`) is committed by its first bytes.
`AtomicCalls` is the refinement of `CommitmentLedger`: the lists change in
one step, with the answer. A refusal of the library (a full list) is a choice.

### LibraryLoad

The JVM initialises a class on one thread, with the others waiting, and marks it
erroneous when the initialiser throws. `Library` loads in its own initialiser, the
wrappers then call `load` once more. Threads are at labels: in a wrapper, before
`Library`, before the monitor of `load`, in each step of `extractLoad`, in native
code. Every step of `extractLoad` may fail. Native functions called from
initialisers (sizes of elements) may panic.

## Checks

| Run | Instance | Shows |
|---|---|---|
| `ffi_exceptions` | 2 threads, 2 exceptions | `FirstExceptionWins`, `DefaultIffException`, `CallsComplete` |
| `handles` | 2 threads, 3 objects, 4 addresses, 9 methods | `DropsOwnBox`, `OneOwner`, `RefsLive`, `MutRefsExclusive`, `LeaksOnlyOnException`, `ImplementsHandles` |
| `circuit_keys` | 2 threads, 1 pair of paths, 2 circuits, foreign keys, 2 committer keys, 2 sets of options, 4 segment sizes | `SetupPairsKeys`, `WritersGuarded`, `SetupPassesCheck`, `TypesTold`, `GuardReleased` |
| `thresholds` | 1 thread, all signature lists of 2 and 3 keys, 5 thresholds, 50 claims and more | `AcceptedIsSigned`, `QuorumAccepted`, with wrapping subtraction |
| `certificate_proofs` | 2 threads, setups, foreign keys, 3 batches, 2 claims | `AcceptedIsSigned`, `CallsReturn`, with overflow checks |
| `key_schemes` | 2 secrets, 2 messages, 2 nonces, 2 strange keys, up to 3 objects and 2 byte arrays | `VerifiedWasSigned`, `OneOutput` |
| `poseidon` | 1 hash, 2 elements, up to 3 inputs | `ChangesOnlyOnReturn`, `FinalizeMatchesCalls`, `ComputeAgrees` |
| `poseidon_reset` | the same, up to 2 inputs | violates `ResetReturnsElement` |
| `poseidon_length` | the same, lengths 1 and 2 | violates `WrongLengthRaises` |
| `merkle` | 2 trees of height 1 or 2 | `VerifySound`, `PathsFaithful`, `TreesIndependent` |
| `commitment` | 3 sidechains, 2 additions, every operation | `AtomicCalls`, `AddsWhatWasGiven`, `GettersAgree`, `VerifySound`, `ProofsComplete`, `ExactlyOneProof` |
| `library_load` | 3 threads, 3 wrappers, 2 of them with a size | `NativeAfterLoad`, `LoadedOnce`, `FailureIsTotal`, `UsesEnd` |

Type invariants are theorems where there is a proof module (below) and are not
checked again by a run.

`poseidon_reset` is a bug that the run demonstrates. Java declares that
`nativeReset` returns a `FieldElement` (`PoseidonHash.java:97`) and returns it from
`reset`; the native function (`lib.rs:934`) has no result. The JVM takes what the
result register holds for an object. `reset` of the model answers with an arbitrary
value, and the property says that this is an element.

`poseidon_length` is a comment that the code does not keep. `PoseidonHash.java:84-89`
(and `:43-44`, `:58-59`) says that `finalizeHash` of a hash that was told a wrong number
of inputs raises an exception; `nativeFinalize` (`lib.rs:926`) answers null, which
`PoseidonHashTest.java:46` expects. A caller that relies on the comment uses null.

Bounds. In `thresholds` a `u64` has 8 values and the field 17: the smallest for
which the assumptions of the proofs hold with three keys. Committees of two
(a power of two, where the last bit matters) and three keys (not one) are the
two cases of `next_power_of_two`; the thresholds go from negative over zero to
more than the committee. `MaxProofs = 1` lets one proof be handed out in a
behaviour: claims are about one proof at a time. In `certificate_proofs` and
`circuit_keys` two threads and one pair of paths give every overlap of two
calls; two sizes give keys that do and do not fit the batch. The options of
`circuit_keys` have a limit that the size of a proof reaches, one that it exceeds, and
a negative one. In `merkle`
height 2 has inner nodes, so that a path that is too short exists; the indices
lie below, in and above the range. In `commitment` three ids put an absent
sidechain before, between and after others, and two additions have an order. In
`poseidon` the rate is 2 and up to three inputs leave a block full, half full or
begun again; a `usize` has 16 values there and a `u64` 16 in `merkle`, above every
size in the run. In `commitment` a list has one element, also one that is too long.
In `key_schemes` two owners are needed for a mixed pair, three objects for a public
key and two pieces of evidence (keys are closed in between), and two byte arrays
for a strange key and a signature under it. In `library_load` one thread
loads, one waits for it, and one initialises another class.

Fairness. A thread inside a native call keeps running: the operating system
schedules it and no call waits for another, but for the lock of the committer
key. `GuardReleased` and `CallsReturn` need no more than weak fairness of the
steps of each thread: only `generateDLogKeys` takes the lock exclusively, and in
one step. That `generateDLogKeys` itself returns is not claimed: calls that
overlap for ever can keep the shared guard taken, and whether a waiting writer
has precedence is up to the platform. Callers need not call or take an answer.
`UsesEnd` assumes the same of the threads that use a wrapper. The monitor of
`load` is contended only by static initialisers, of which there are finitely many,
so a thread that wants it gets it without a stronger assumption.

## Proofs

Each theorem holds for every value of the constants that satisfies the named
assumptions (`HandlesAssumption`, `FieldAssumption`, `CommitteeAssumption`,
`BatchesAssumption`, ...), which TLC evaluates in the runs.

* `NativeHandlesProof`: `IInv` is inductive (`Invariance`) and implies `TypeOK`,
  `RefsLive`, `MutRefsExclusive`, `OneOwner` and, as action
  properties, `DropsOwnBox` and `LeaksOnlyOnException` (`NoSilentLeak`). The
  strengthening says at each position of a call
  what its references, its new boxes and its handles are, and that `MayUse` still
  holds between any two calls in progress: `RefsLive` alone does not tell why a
  close on another thread cannot hit the reference.
* `Refinement`, in the same module: every step of `NativeHandles` is
  a step of `Handles` or stutters. It needs the invariant and that an open handle
  that a call cannot do without was seen open.
* `CertificateProofsProof`. `ThresholdExact`: the assignment of createProof
  satisfies the circuit exactly when there are enough signatures. The proof
  compares the residue modulo `P` with the bits: with `v < t` the first is
  `P - (t - v)`, larger than any value of the bits because `P > 2 * U64`.
  `ThresholdSound` is the same for any bits. `Soundness` is
  `Spec => []AcceptedIsSigned` from the invariant that a proof was made for a batch
  and holds exactly when that batch has enough signatures, and that a call has no
  proof that holds but one that createProof returned (`ProofsHold`), that a call has
  its arguments (`CallArguments`) and that only a matching proof is accepted
  (`AcceptedHolds`); `InputsDetermineClaim` goes from equal public inputs to the
  claim. `Completeness` (`QuorumAccepted`) reads the same invariant the other way: public
  inputs determine the count and the threshold (`InputsDetermineEnough`), so the proof
  holds, and only the check itself can end the call (`CheckEnds`). The key files do not occur in the invariant: no interleaving on
  them can break soundness, only availability.
* `FfiExportProof`: `FirstWins` and `DefaultsRaise`. The
  strengthening (`CallState`) says that a body that still runs has nothing
  pending, that a value exists only on the way back to Java, and that
  `_throw_inner` has an exception to raise.
  `BoundaryTyping` is the type invariant: one exception at most is pending.
* `LibraryLoadProof`: `LoadInvariance`, and from it `LoadedFirst`, `OneLoad` and
  `FailureFinal`. `LoadInv` says who owns the initialisation of which class at which
  label, that the monitor is held exactly by the thread inside `load`, and that
  `loaded`, `native` and the temporary file agree with how far that thread has
  come; a second load is impossible because until `loaded` is set only the
  initialiser of `Library` can be in `extractLoad`.
* `CommitmentTreeProof`: `CallsAreAtomic`, the refinement of `CommitmentLedger` for
  any ids, arguments and bounds, from the invariant that the tree is well formed
  and the id of a call that has read one is an id (`IdRead`). `Soundness`,
  `Completeness`, `OneOfTwoProofs`, `AddsExactly` and `AnswersAgree` need more
  (`HInv`): what a call has read are the values of its arguments (`CallOK`), the
  tree holds a leaf for every addition that was confirmed, in their order
  (`HistoryOK`), a proof got from a tree is the one that tree gives (`ProofOK`), and
  a verdict is about the proof in use (`VerdictOK`). Two arguments carry the
  soundness: a path leads from one place of the list of sidechains only
  (`LeadsFromItsPlace`, from `InsertElements` and `RemoveElements` on sequences),
  and between neighbours in a sorted list there is nothing (`NothingBetween`,
  which needs `SortedFacts`).
* `MerkleTreeProof`: `Soundness` (`VerifySound`), `Completeness` (`PathsFaithful`)
  and `Independence` (`TreesIndependent`) for trees of every height. The invariant
  says that a path that a tree gave is the one of the index that was asked for, also
  when that was negative (`PathOK`), and that what was answered last is still
  about the path (`LastOK`). The rest is about the data: a path as long as the tree
  is high that reaches the root passes through nodes of the tree (`PathInTree`), one
  of any length leads back down to where it started (`DownIsBack`); the turns of a
  path spell its index (`PathIndex`); the siblings on its right are those of an
  empty tree exactly when all later leaves are zero (`PathRightEmpty`).
* `PoseidonHashProof`: `FinalizeAsTold`, `ComputeAsObject` and
  `ExceptionsChangeNothing`. The invariant (`HashesOK`, `CallOK`) says that a hash
  holds what the application told it by calls that returned, with its size
  converted, and that a call has read the first of its elements. `SizeConverted`: a
  converted size equals a number of inputs only if the size itself does;
  `UpdatedHash`: after an update for each input a hash has these inputs.
* `KeySchemesProof`: `NoForgedSignature` and `UniqueOutput`. The strengthening says
  where evidence comes from (`Provenance`: it was made by a recorded call, on the
  wires too, or its secret key is that of a strange point), that every recorded call
  recorded its own keys (`MadeRecorded`), and that without an unchecked read every
  public key held passed the check of an affine point (`KeysChecked`).
* `CertificateProofsProof`, about the keys: `SetupPairs` and `Guarded`. The strengthening
  (`OthersNoticed`) says that of two calls that write to the same paths both
  know, and so does one whose setup had succeeded; then the files of an
  undisturbed call are its own (`PkStays`, `VkStays`).

* `CertificateProofsProof`, about the queries: `SetupAndCheckAgree` and
  `TypesAreTold`. Each step of `KeyQueries` is one of `CircuitKeys`, so its invariant
  carries over; on top of it `SizesInv` says that a setup past its check found the
  sizes of its circuit within its limits for the length it measured (`SizesOK`), and
  that the form of an undisturbed file is the one asked for (`FormStays`). No
  assumption on the size functions is needed.
* `NextPowerOfTwoBounds`: every number has a next power of two, less than its
  double. What is left to assume of committees (`CommitteeAssumption`) is that the
  largest is far smaller than a `u64`.

Induction over data. The induction theorems of the library take a predicate as a
parameter, which the provers here cannot instantiate. The modules therefore
prove an induction rule about a *set* of numbers (`SetInduction`,
`SetInductionUpTo`) from the well-foundedness of `<`, and the equation of each
recursive function by induction on its domain (`LevelsEquation`, `KeptEquation`,
`UpdatesEquation`, `PowersEquation`): a function exists on `0..n`, so the one
chosen satisfies the equation. No model uses a RECURSIVE operator.

Model-checked only: the liveness properties (`CallsComplete`, `CallsReturn`,
`GuardReleased`, `UsesEnd`), as fairness is out of reach of the provers. Every
safety invariant, every action property and both refinements that a passing run
checks are theorems.

## Not modelled

Elliptic curves, hashes, the SNARK and serialization formats: external
libraries, taken as ideal. The constants of the circuit (checked by tests in
their module). The `ouroboros` crate, which the workspace does not build.
`calculateSidechainId` and the bit vector roots of `Utils.java`: pure functions of
zendoo-cctp-lib, whose exceptions are those of `FfiExport`. A wrapper that is
collected without `close`: nothing frees its box, and no finalizer exists. The
boxes that a failed call leaks are modelled (`lost`, bounded by `MaxLost`);
`LeaksOnlyOnException` says when this may happen. Whether a missing committer key
surfaces as an error or as a panic is up to the external crate: both are modelled.
The amounts and heights of commitment tree outputs are passed on unchanged and left
out. The public `extractLoad`, which no code of the repository calls from outside,
and a temporary file that cannot be deleted after a failed load: the code does not
look whether `delete` succeeded, and `FailureIsTotal` takes it that it did.

Promises of comments that the models, being faithful to the code, do not keep, and
that no run states:

* `root` of a tree that is not finalized "will result in an exception"
  (`InMemoryOptimizedMerkleTree.java:73`). `nativeRoot` answers null.
* `checkProofVkSize` "checks that is below maxProofSize" (`ProvingSystem.java:48`).
  A negative limit becomes a huge `usize` (`lib.rs:1903`) and everything is below; a size
  equal to the limit is up to the library.
* The uncompressed form of a public key or VRF proof is written by `serialize...(false)`
  but no wrapper reads it back: they compare the length with the compressed one.

## Plan

1. An abstract certificate service (a set of signed claims) that `CertificateProofs`
   implements.
