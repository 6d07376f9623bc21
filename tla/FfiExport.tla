------------------------------ MODULE FfiExport ------------------------------
(***************************************************************************)
(* The exception protocol of the native boundary (api/src/exception.rs).   *)
(*                                                                         *)
(* Every exported function is wrapped by ffi_export!: its body runs inside *)
(* catch_unwind; a panic of the body is caught and turned into a Java      *)
(* RuntimeException by a second closure, itself run inside catch_unwind;   *)
(* a panic of that second closure aborts the process.  Bodies raise Java   *)
(* exceptions through throw! (raise, return a default) or throw_and_exit!  *)
(* (raise, then panic); all three go through _throw_inner, which does      *)
(* nothing when an exception is already pending.                           *)
(*                                                                         *)
(* One JNIEnv per thread: the pending exception is per thread, while abort *)
(* stops the whole process.                                                *)
(***************************************************************************)
EXTENDS Naturals

CONSTANTS
  Threads,     \* JVM threads that call native functions
  Raised,      \* exceptions that bodies raise: NullPointerException, Exception
  Runtime,     \* java/lang/RuntimeException, raised for a caught panic
  JvmError,    \* what a failing JNI call leaves pending (a NoClassDefFoundError,
               \* an OutOfMemoryError)
  None         \* no exception

ASSUME ExceptionsAssumption ==
  /\ None \notin Raised \cup {Runtime, JvmError}
  /\ JvmError # Runtime

VARIABLES
  pc,          \* where each thread is, see Labels
  site,        \* the caller of _throw_inner being executed, see Sites
  requested,   \* the exception _throw_inner was asked to raise
  pending,     \* the exception pending in the thread's JNIEnv
  value,       \* what the last native call returned: a value or the default
  aborted      \* std::process::abort was called

vars == <<pc, site, requested, pending, value, aborted>>

Exceptions == Raised \cup {Runtime, JvmError}

(* java: outside native code; body: in the wrapped closure; check, find and *)
(* throw: the three JNI calls of _throw_inner; unwind: panicking.           *)
Labels == {"java", "body", "check", "find", "throw", "unwind"}

(* none: no _throw_inner so far in this call; recover: the second closure   *)
(* of ffi_export!.                                                          *)
Sites == {"none", "throw", "throw_and_exit", "recover"}

TypeOK ==
  /\ pc \in [Threads -> Labels]
  /\ site \in [Threads -> Sites]
  /\ requested \in [Threads -> Exceptions \cup {None}]
  /\ pending \in [Threads -> Exceptions \cup {None}]
  /\ value \in [Threads -> {"value", "default"}]
  /\ aborted \in BOOLEAN

Init ==
  /\ pc = [t \in Threads |-> "java"]
  /\ site = [t \in Threads |-> "none"]
  /\ requested = [t \in Threads |-> None]
  /\ pending = [t \in Threads |-> None]
  /\ value = [t \in Threads |-> "default"]
  /\ aborted = FALSE

At(t, label) == ~aborted /\ pc[t] = label

Goto(t, label) == pc' = [pc EXCEPT ![t] = label]

(* The JVM keeps the first exception that becomes pending. *)
SetPending(t, e) ==
  pending' = [pending EXCEPT ![t] = IF @ = None THEN e ELSE @]

(***************************************************************************)
(* The JVM: a native function is called with no exception pending, and a   *)
(* pending exception is delivered to the Java caller on return.            *)
(***************************************************************************)
Call(t) ==
  /\ At(t, "java")
  /\ pending[t] = None
  /\ Goto(t, "body")
  /\ site' = [site EXCEPT ![t] = "none"]
  /\ requested' = [requested EXCEPT ![t] = None]
  /\ value' = [value EXCEPT ![t] = "default"]
  /\ UNCHANGED <<pending, aborted>>

Deliver(t) ==
  /\ At(t, "java")
  /\ pending[t] # None
  /\ pending' = [pending EXCEPT ![t] = None]
  /\ site' = [site EXCEPT ![t] = "none"]
  /\ requested' = [requested EXCEPT ![t] = None]
  /\ UNCHANGED <<pc, value, aborted>>

(***************************************************************************)
(* The body of an exported function.  A JNI call of the body that fails is *)
(* followed by expect or unwrap in every function of lib.rs, so a failure, *)
(* with or without an exception left pending, is a panic.                  *)
(***************************************************************************)
BodyReturns(t) ==
  /\ At(t, "body")
  /\ Goto(t, "java")
  /\ value' = [value EXCEPT ![t] = "value"]
  /\ UNCHANGED <<site, requested, pending, aborted>>

BodyPanics(t) ==
  /\ At(t, "body")
  /\ Goto(t, "unwind")
  /\ \E e \in {None, JvmError} : SetPending(t, e)
  /\ UNCHANGED <<site, requested, value, aborted>>

(* throw! and throw_and_exit! start by calling _throw_inner. *)
EnterThrowInner(t, s, e) ==
  /\ Goto(t, "check")
  /\ site' = [site EXCEPT ![t] = s]
  /\ requested' = [requested EXCEPT ![t] = e]
  /\ UNCHANGED <<pending, value, aborted>>

BodyThrows(t) ==
  /\ At(t, "body")
  /\ \E s \in {"throw", "throw_and_exit"}, e \in Raised : EnterThrowInner(t, s, e)

(***************************************************************************)
(* _throw_inner, and what follows it at each of its call sites: throw! and *)
(* the recovering closure return the default value, throw_and_exit! panics.*)
(***************************************************************************)
AfterThrowInner(t) ==
  /\ Goto(t, IF site[t] = "throw_and_exit" THEN "unwind" ELSE "java")
  /\ UNCHANGED <<site, requested, value, aborted>>

(* Mutant: _throw_inner clears what is pending and raises its own. *)
AlreadyPendingReplaced(t) ==
  /\ At(t, "check")
  /\ pending[t] # None
  /\ AfterThrowInner(t)
  /\ pending' = [pending EXCEPT ![t] = requested[t]]

AlreadyPending(t) ==
  /\ At(t, "check")
  /\ pending[t] # None
  /\ AfterThrowInner(t)
  /\ UNCHANGED pending

NothingPending(t) ==
  /\ At(t, "check")
  /\ pending[t] = None
  /\ Goto(t, "find")
  /\ UNCHANGED <<site, requested, pending, value, aborted>>

(* env.find_class *)
ClassFound(t) ==
  /\ At(t, "find")
  /\ Goto(t, "throw")
  /\ UNCHANGED <<site, requested, pending, value, aborted>>

(* env.throw_new *)
Thrown(t) ==
  /\ At(t, "throw")
  /\ SetPending(t, requested[t])
  /\ AfterThrowInner(t)

(* exception_check, find_class or throw_new fails: unwrap or panic!. *)
ThrowInnerPanics(t) ==
  /\ \E label \in {"check", "find", "throw"} : At(t, label)
  /\ Goto(t, "unwind")
  /\ \E e \in {None, JvmError} : SetPending(t, e)
  /\ UNCHANGED <<site, requested, value, aborted>>

(***************************************************************************)
(* ffi_export!: the panic of the body starts the second closure, which     *)
(* raises RuntimeException through throw!; its own panic aborts.           *)
(***************************************************************************)
(* Mutant: the default value is returned and nothing is raised. *)
CatchBodySilently(t) ==
  /\ At(t, "unwind")
  /\ site[t] # "recover"
  /\ Goto(t, "java")
  /\ UNCHANGED <<site, requested, pending, value, aborted>>

(* Mutant: the closure is entered only when there is nothing pending. *)
CatchBodyUnlessPending(t) ==
  /\ At(t, "unwind")
  /\ site[t] # "recover"
  /\ pending[t] = None
  /\ EnterThrowInner(t, "recover", Runtime)

CatchBody(t) ==
  /\ At(t, "unwind")
  /\ site[t] # "recover"
  /\ EnterThrowInner(t, "recover", Runtime)

CatchRecovery(t) ==
  /\ At(t, "unwind")
  /\ site[t] = "recover"
  /\ aborted' = TRUE
  /\ UNCHANGED <<pc, site, requested, pending, value>>

Native(t) ==
  \/ BodyReturns(t) \/ BodyPanics(t) \/ BodyThrows(t)
  \/ AlreadyPending(t) \/ NothingPending(t) \/ ClassFound(t) \/ Thrown(t)
  \/ ThrowInnerPanics(t) \/ CatchBody(t) \/ CatchRecovery(t)

Next == \E t \in Threads : Call(t) \/ Deliver(t) \/ Native(t)

(* A thread that is inside a native function keeps running. *)
Fairness == \A t \in Threads : WF_vars(Native(t))

Spec == Init /\ [][Next]_vars

FairSpec == Spec /\ Fairness

------------------------------------------------------------------------------

(* The exception that is pending first is the one Java receives: while a   *)
(* thread is in native code nothing replaces or clears its pending         *)
(* exception (LibraryTest.testIfMultipleExceptionsAlwaysFirstOneIsReturned).*)
FirstExceptionWins ==
  [][\A t \in Threads :
       pending[t] # None /\ pc[t] # "java" => pending'[t] = pending[t]]_vars

(* A native call that did not return normally, because its body raised an  *)
(* exception or panicked, is back in Java only with an exception pending,  *)
(* so a default value (null, 0, JNI_FALSE) produced by the boundary is     *)
(* never mistaken for an answer; and a call whose body returned normally   *)
(* leaves none.                                                            *)
DefaultIffException ==
  [][\A t \in Threads :
       pc[t] # "java" /\ pc'[t] = "java" =>
         (value'[t] = "default" <=> pending'[t] # None)]_vars

(* Every native call comes back to Java or the process stops: a panic is   *)
(* never left without a handler.                                           *)
CallsComplete ==
  \A t \in Threads : pc[t] # "java" ~> pc[t] = "java" \/ aborted

==============================================================================
