---------------------------- MODULE FfiExportProof ----------------------------
(***************************************************************************)
(* Proofs about the native boundary, for any number of threads and any     *)
(* exceptions.                                                             *)
(***************************************************************************)
EXTENDS FfiExport, TLAPS

(* A body that still runs has nothing pending, a call that is not back has *)
(* no value, and _throw_inner has an exception to raise.                   *)
CallState ==
  \A t \in Threads :
    /\ pc[t] = "body" => pending[t] = None
    /\ pc[t] # "java" => value[t] = "default"
    /\ pc[t] \in {"check", "find", "throw"} => requested[t] # None

BoundaryInv == TypeOK /\ CallState

LEMMA TypeInit == Init => BoundaryInv
BY DEF Init, BoundaryInv, TypeOK, CallState, Labels, Sites

-----------------------------------------------------------------------------
(* One case per action of a thread *)

LEMMA ThreadKeeps ==
  ASSUME BoundaryInv, NEW t \in Threads, Call(t) \/ Deliver(t) \/ Native(t)
  PROVE  BoundaryInv'
<1> USE ExceptionsAssumption
    DEF BoundaryInv, TypeOK, CallState, Labels, Sites, Exceptions,
        At, Goto, SetPending, EnterThrowInner, AfterThrowInner
<1>1. CASE Call(t)
  BY <1>1 DEF Call
<1>2. CASE Deliver(t)
  BY <1>2 DEF Deliver
<1>3. CASE BodyReturns(t)
  BY <1>3 DEF BodyReturns
<1>4. CASE BodyPanics(t)
  BY <1>4 DEF BodyPanics
<1>5. CASE BodyThrows(t)
  BY <1>5 DEF BodyThrows
<1>6. CASE AlreadyPending(t)
  BY <1>6 DEF AlreadyPending
<1>7. CASE NothingPending(t)
  BY <1>7 DEF NothingPending
<1>8. CASE ClassFound(t)
  BY <1>8 DEF ClassFound
<1>9. CASE Thrown(t)
  BY <1>9 DEF Thrown
<1>10. CASE ThrowInnerPanics(t)
  BY <1>10 DEF ThrowInnerPanics
<1>11. CASE CatchBody(t)
  BY <1>11 DEF CatchBody
<1>12. CASE CatchRecovery(t)
  BY <1>12 DEF CatchRecovery
<1> QED BY <1>1, <1>2, <1>3, <1>4, <1>5, <1>6, <1>7, <1>8, <1>9, <1>10, <1>11, <1>12
     DEF Native

(* The step of a thread does not touch the exception and the value of      *)
(* another, keeps an exception that is pending in native code, and comes   *)
(* back to Java with a value or with an exception.                         *)
LEMMA ThreadAnswers ==
  ASSUME BoundaryInv, NEW t \in Threads, Call(t) \/ Deliver(t) \/ Native(t),
         NEW u \in Threads
  PROVE  /\ pending[u] # None /\ pc[u] # "java" => pending'[u] = pending[u]
         /\ pc[u] # "java" /\ pc'[u] = "java"
              => (value'[u] = "default" <=> pending'[u] # None)
<1> USE ExceptionsAssumption
    DEF BoundaryInv, TypeOK, CallState, Labels, At, Goto, SetPending, EnterThrowInner,
        AfterThrowInner
<1>1. CASE Call(t) \/ Deliver(t)
  BY <1>1 DEF Call, Deliver
<1>2. CASE BodyReturns(t) \/ BodyPanics(t) \/ BodyThrows(t)
  BY <1>2 DEF BodyReturns, BodyPanics, BodyThrows
<1>3. CASE AlreadyPending(t) \/ Thrown(t)
  BY <1>3 DEF AlreadyPending, Thrown
<1>4. CASE NothingPending(t) \/ ClassFound(t) \/ ThrowInnerPanics(t)
  BY <1>4 DEF NothingPending, ClassFound, ThrowInnerPanics
<1>5. CASE CatchBody(t) \/ CatchRecovery(t)
  BY <1>5 DEF CatchBody, CatchRecovery
<1> QED BY <1>1, <1>2, <1>3, <1>4, <1>5 DEF Native

-----------------------------------------------------------------------------
(* Theorems *)

(* The inductive invariant of the proofs.                                  *)
THEOREM BoundaryInvariance == Spec => []BoundaryInv
<1>1. BoundaryInv /\ [Next]_vars => BoundaryInv'
  <2> SUFFICES ASSUME BoundaryInv, [Next]_vars
               PROVE  BoundaryInv'
    OBVIOUS
  <2>1. CASE Next
    BY <2>1, ThreadKeeps DEF Next
  <2>2. CASE UNCHANGED vars
    BY <2>2 DEF vars, BoundaryInv, TypeOK, CallState
  <2> QED BY <2>1, <2>2
<1> QED BY TypeInit, <1>1, PTL DEF Spec

(* The first exception of a native call is the one Java receives           *)
(* (_throw_inner does nothing when one is pending).                        *)
THEOREM FirstWins == Spec => FirstExceptionWins
<1> DEFINE A == \A t \in Threads :
                  pending[t] # None /\ pc[t] # "java" => pending'[t] = pending[t]
<1>1. BoundaryInv /\ [Next]_vars => [A]_vars
  BY ThreadAnswers DEF Next
<1> QED BY <1>1, BoundaryInvariance, PTL DEF Spec, FirstExceptionWins

(* A default value is returned exactly when an exception is pending, so    *)
(* Java never takes it for an answer (the match arms of ffi_export!).      *)
THEOREM DefaultsRaise == Spec => DefaultIffException
<1> DEFINE A == \A t \in Threads :
                  pc[t] # "java" /\ pc'[t] = "java" =>
                    (value'[t] = "default" <=> pending'[t] # None)
<1>1. BoundaryInv /\ [Next]_vars => [A]_vars
  BY ThreadAnswers DEF Next
<1> QED BY <1>1, BoundaryInvariance, PTL DEF Spec, DefaultIffException

(* Every thread is at a position of the protocol of a native call, with at *)
(* most one exception pending.                                             *)
THEOREM BoundaryTyping == Spec => []TypeOK
<1>1. BoundaryInv => TypeOK
  BY DEF BoundaryInv
<1> QED BY <1>1, BoundaryInvariance, PTL

==============================================================================
