------------------------------ MODULE CircuitKeys ------------------------------
(***************************************************************************)
(* The committer key of the process and the key files of circuits: loading *)
(* the first, writing the others.  Every call runs on a thread of the JVM; *)
(* the committer key is behind a lock whose shared guard is held by a call *)
(* from get_g1_committer_key to its return, panics included.  The prover   *)
(* key is written before the verifier key, each by creating the file and   *)
(* then filling it, so two calls, a crash or a full disk can leave         *)
(* anything in between.                                                    *)
(***************************************************************************)
EXTENDS Integers, FiniteSets

CONSTANTS
  Threads,
  Dirs,      \* pairs of paths given for the two key files
  Sizes,     \* values of max_pks that circuits are generated for
  Foreign    \* keys that other programs of the sidechain may put there

VARIABLES
  ck,          \* is the committer key loaded
  guard,       \* threads that hold the shared guard of its lock
  pkFile,
  vkFile,
  pc,
  dir,         \* the paths of the call of each thread
  circuit,     \* the key pair its setup generates
  overlapped,  \* has another writer used the same paths meanwhile
  result       \* how its call ended

keyVars == <<ck, guard, pkFile, vkFile, pc, dir, circuit, overlapped, result>>

NoFile == [kind |-> "none", n |-> 0]
Torn   == [kind |-> "torn", n |-> 0]

ProvingSystems == {"Undefined", "Darlin", "CoboundaryMarlin"}

KeyFiles == [kind : {"Darlin", "CoboundaryMarlin"}, n : Nat]

ASSUME ForeignAssumption == Foreign \subseteq KeyFiles

ASSUME DirsAssumption == Dirs # {}

ASSUME SizesAssumption == Sizes \subseteq Nat

IsKey(f) == f.kind \in {"Darlin", "CoboundaryMarlin"}

KeysInit ==
  /\ ck = FALSE
  /\ guard = {}
  /\ pkFile = [d \in Dirs |-> NoFile]
  /\ vkFile = [d \in Dirs |-> NoFile]
  /\ pc = [t \in Threads |-> "idle"]
  /\ dir = [t \in Threads |-> CHOOSE d \in Dirs : TRUE]
  /\ circuit = [t \in Threads |-> NoFile]
  /\ overlapped = [t \in Threads |-> FALSE]
  /\ result = [t \in Threads |-> "none"]

-----------------------------------------------------------------------------
(* Steps of a call *)

Goto(t, from, to) ==
  /\ pc[t] = from
  /\ pc' = [pc EXCEPT ![t] = to]

\* The exclusive guard is taken.
TakeGuardAlone(t) == ck /\ guard = {} /\ guard' = {t}

\* The guard is a temporary, dropped before the key is used.
TakeGuardBriefly(t) == ck /\ guard' = guard

TakeGuard(t) == ck /\ guard' = guard \cup {t}

\* A panic leaves the committer key locked.
FinishLocked(t, from, r) ==
  /\ Goto(t, from, "done")
  /\ result' = [result EXCEPT ![t] = r]
  /\ guard' = IF r = "exception" THEN guard ELSE guard \ {t}
  /\ UNCHANGED <<ck, dir, circuit>>

(* Any return, or a panic caught by ffi_export!: the guard is dropped.     *)
Finish(t, from, r) ==
  /\ Goto(t, from, "done")
  /\ result' = [result EXCEPT ![t] = r]
  /\ guard' = guard \ {t}
  /\ UNCHANGED <<ck, dir, circuit>>

Return(t) ==
  /\ Goto(t, "done", "idle")
  /\ result' = [result EXCEPT ![t] = "none"]
  /\ circuit' = [circuit EXCEPT ![t] = NoFile]
  /\ overlapped' = [overlapped EXCEPT ![t] = FALSE]
  /\ UNCHANGED <<ck, guard, pkFile, vkFile, dir>>

-----------------------------------------------------------------------------
(* generateDLogKeys *)

(* Undefined, or a supported size above the maximum.                       *)
LoadRefused(t) ==
  /\ Finish(t, "idle", "false")
  /\ UNCHANGED <<pkFile, vkFile, overlapped>>

LoadBegin(t) ==
  /\ Goto(t, "idle", "loading")
  /\ UNCHANGED <<ck, guard, pkFile, vkFile, dir, circuit, overlapped, result>>

(* The key is replaced under the exclusive guard of its lock.              *)
LoadKeys(t) ==
  /\ guard = {}
  /\ Goto(t, "loading", "done")
  /\ ck' = TRUE
  /\ result' = [result EXCEPT ![t] = "true"]
  /\ UNCHANGED <<guard, pkFile, vkFile, dir, circuit, overlapped>>

-----------------------------------------------------------------------------
(* setup *)

SetupBegin(t, d, ps, n) ==
  /\ Goto(t, "idle", "setup")
  /\ dir' = [dir EXCEPT ![t] = d]
  /\ circuit' = [circuit EXCEPT ![t] = [kind |-> ps, n |-> n]]
  /\ UNCHANGED <<ck, guard, pkFile, vkFile, overlapped, result>>

(* A path that is no string, a size no vector can have.                    *)
SetupPanics(t) ==
  /\ Finish(t, "setup", "exception")
  /\ UNCHANGED <<pkFile, vkFile, overlapped>>

(* get_g1_committer_key fails, or there is nothing to unwrap.              *)
SetupNoCommitterKey(t) ==
  /\ ~ck
  /\ \E r \in {"false", "exception"} : Finish(t, "setup", r)
  /\ UNCHANGED <<pkFile, vkFile, overlapped>>

SetupGuarded(t) ==
  /\ TakeGuard(t)
  /\ Goto(t, "setup", "index")
  /\ UNCHANGED <<ck, pkFile, vkFile, dir, circuit, overlapped, result>>

SetupUndefined(t) ==
  /\ circuit[t].kind = "Undefined"
  /\ Finish(t, "index", "false")
  /\ UNCHANGED <<pkFile, vkFile, overlapped>>

SetupDarlin(t) ==
  /\ circuit[t].kind = "Darlin"
  /\ Finish(t, "index", "exception")
  /\ UNCHANGED <<pkFile, vkFile, overlapped>>

(* The index cannot be built, or the sizes of proof and key exceed the     *)
(* limits of the call.                                                     *)
SetupRefused(t) ==
  /\ circuit[t].kind = "CoboundaryMarlin"
  /\ Finish(t, "index", "false")
  /\ UNCHANGED <<pkFile, vkFile, overlapped>>

SetupGenerated(t) ==
  /\ circuit[t].kind = "CoboundaryMarlin"
  /\ Goto(t, "index", "openPk")
  /\ UNCHANGED <<ck, guard, pkFile, vkFile, dir, circuit, overlapped, result>>

Writing == {"writePk", "openVk", "writeVk"}

(* Writers of the paths d since their prover key file was created, and     *)
(* those that wait for their caller to look at the files.                  *)
Writers(d) ==
  {u \in Threads : dir[u] = d /\ circuit[u] # NoFile /\ pc[u] \in Writing \cup {"done"}}

(* t starts writing at d: it disturbs the others, and they disturb it.     *)
Overlap(t, d) ==
  overlapped' = [u \in Threads |->
    \/ overlapped[u]
    \/ u \in Writers(d)
    \/ u = t /\ \E v \in Writers(d) : pc[v] \in Writing]

OpenPk(t) ==
  /\ Goto(t, "openPk", "writePk")
  /\ pkFile' = [pkFile EXCEPT ![dir[t]] = Torn]
  /\ Overlap(t, dir[t])
  /\ UNCHANGED <<ck, guard, vkFile, dir, circuit, result>>

(* The file when a writer has finished: its own key, or a mixture with     *)
(* the bytes of another writer.                                            *)
Written(t) == {circuit[t]} \cup (IF overlapped[t] THEN {Torn} ELSE {})

WritePk(t) ==
  /\ Goto(t, "writePk", "openVk")
  /\ \E f \in Written(t) : pkFile' = [pkFile EXCEPT ![dir[t]] = f]
  /\ UNCHANGED <<ck, guard, vkFile, dir, circuit, overlapped, result>>

OpenVk(t) ==
  /\ Goto(t, "openVk", "writeVk")
  /\ vkFile' = [vkFile EXCEPT ![dir[t]] = Torn]
  /\ UNCHANGED <<ck, guard, pkFile, dir, circuit, overlapped, result>>

\* The prover key file is written again instead.
WriteVkOverPk(t) ==
  /\ Finish(t, "writeVk", "true")
  /\ \E f \in Written(t) : pkFile' = [pkFile EXCEPT ![dir[t]] = f]
  /\ UNCHANGED <<vkFile, overlapped>>

WriteVk(t) ==
  /\ Finish(t, "writeVk", "true")
  /\ \E f \in Written(t) : vkFile' = [vkFile EXCEPT ![dir[t]] = f]
  /\ UNCHANGED <<pkFile, overlapped>>

(* A file cannot be created, or not filled: what was written stays.        *)
WriteFails(t) ==
  /\ \E from \in Writing \cup {"openPk"} : Finish(t, from, "false")
  /\ UNCHANGED <<pkFile, vkFile, overlapped>>

-----------------------------------------------------------------------------
(* Surroundings *)

(* Keys of another origin are copied to the paths.                         *)
Install(d, f) ==
  /\ pkFile' = [pkFile EXCEPT ![d] = f]
  /\ vkFile' = [vkFile EXCEPT ![d] = f]
  /\ overlapped' = [u \in Threads |-> overlapped[u] \/ u \in Writers(d)]
  /\ UNCHANGED <<ck, guard, pc, dir, circuit, result>>

(* The process ends; the files stay as they are.                           *)
Crash ==
  /\ ck' = FALSE
  /\ guard' = {}
  /\ pc' = [t \in Threads |-> "idle"]
  /\ circuit' = [t \in Threads |-> NoFile]
  /\ overlapped' = [t \in Threads |-> FALSE]
  /\ result' = [t \in Threads |-> "none"]
  /\ UNCHANGED <<pkFile, vkFile, dir>>

SetupStep(t) ==
  \/ SetupPanics(t) \/ SetupNoCommitterKey(t) \/ SetupGuarded(t)
  \/ SetupUndefined(t) \/ SetupDarlin(t) \/ SetupRefused(t) \/ SetupGenerated(t)
  \/ OpenPk(t) \/ WritePk(t) \/ OpenVk(t) \/ WriteVk(t) \/ WriteFails(t)

KeyCall(t) ==
  \/ LoadRefused(t) \/ LoadBegin(t) \/ LoadKeys(t)
  \/ \E d \in Dirs, ps \in ProvingSystems, n \in Sizes : SetupBegin(t, d, ps, n)

KeysNext ==
  \/ \E t \in Threads : KeyCall(t) \/ SetupStep(t) \/ Return(t)
  \/ \E d \in Dirs, f \in Foreign : Install(d, f)
  \/ Crash

KeysSpec ==
  /\ KeysInit
  /\ [][KeysNext]_keyVars
  /\ \A t \in Threads : WF_keyVars(SetupStep(t))

-----------------------------------------------------------------------------
(* Properties *)

KeyLabels == {"idle", "loading", "setup", "index", "openPk"} \cup Writing \cup {"done"}

(* Type invariant.  The files hold nothing, a fragment or a key; only     *)
(* CoboundaryMarlin keys are generated.                                    *)
KeysTypeOK ==
  /\ ck \in BOOLEAN
  /\ guard \subseteq Threads
  /\ pkFile \in [Dirs -> KeyFiles \cup {NoFile, Torn}]
  /\ vkFile \in [Dirs -> KeyFiles \cup {NoFile, Torn}]
  /\ pc \in [Threads -> KeyLabels]
  /\ dir \in [Threads -> Dirs]
  /\ circuit \in [Threads -> [kind : ProvingSystems \cup {"none"}, n : Nat]]
  /\ overlapped \in [Threads -> BOOLEAN]
  /\ result \in [Threads -> {"none", "true", "false", "exception"}]

(* What setup answers can be relied on: when it returns true, and no other *)
(* setup used the paths meanwhile, both files hold the keys of the circuit *)
(* it was asked for (demo-circuit/src/lib.rs, generate_circuit_keypair).   *)
SetupPairsKeys ==
  \A t \in Threads :
    (pc[t] = "done" /\ circuit[t] # NoFile /\ result[t] = "true" /\ ~overlapped[t])
      => (pkFile[dir[t]] = circuit[t] /\ vkFile[dir[t]] = circuit[t])

(* A setup works under the guard of a committer key that stays loaded:     *)
(* generateDLogKeys on another thread waits until the files are written.   *)
WritersGuarded ==
  \A t \in Threads :
    (pc[t] \in Writing \cup {"index", "openPk"}) => (ck /\ t \in guard)

(* No call keeps the committer key locked, however it ends: each guard is  *)
(* given back, so that generateDLogKeys can run.                           *)
GuardReleased == \A t \in Threads : t \in guard ~> t \notin guard

=============================================================================
