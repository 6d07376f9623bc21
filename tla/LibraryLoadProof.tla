--------------------------- MODULE LibraryLoadProof ---------------------------
(* Proofs about LibraryLoad. *)
EXTENDS LibraryLoad, TLAPS

(* Who holds what: a thread is inside load() exactly when it has the        *)
(* monitor, a class is being initialised by a thread that uses it, and      *)
(* Library by one that is on its way into or inside load().                 *)
Locks ==
  /\ \A t \in Threads :
       /\ pc[t] \in InLoad <=> monitor = t
       /\ InLibrary(t) => pc[t] = "enter" \/ pc[t] \in InLoad
       /\ pc[t] \in {"create", "copy", "system", "set"} => InLibrary(t)
       /\ pc[t] # "java" => using[t] \in Wrappers
       /\ pc[t] \in InLoad \cup {"library", "enter", "size"} <=>
            \E w \in Wrappers : owner[w] = t
       /\ \A w \in Wrappers : owner[w] = t => using[t] = w
  /\ \A c \in Classes : owner[c] # None => state[c] = "no"

(* What has been loaded: the flag is set after System.load and before any   *)
(* class counts as initialised.                                             *)
Loading ==
  /\ loaded => native = 1
  /\ ~loaded => native = IF \E t \in Threads : pc[t] = "set" THEN 1 ELSE 0
  /\ \A t \in Threads :
       /\ pc[t] \in {"create", "copy", "system", "set"} => ~loaded
       /\ pc[t] \in {"leave", "size", "native"} => loaded
       /\ pc[t] \in {"enter", "check"} => loaded \/ InLibrary(t)
       /\ result[t] = "answer" => loaded
  /\ \A c \in Classes : state[c] = "done" => loaded
  /\ state[Library] = "error" => ~loaded
  /\ state[Library] # "no" => owner[Library] = None
  /\ temp # "none" => loaded \/ owner[Library] # None

LoadInv == TypeOK /\ Locks /\ Loading

------------------------------------------------------------------------------
(* The invariant holds at first and is kept by every step. *)

LEMMA InitLoadInv == Init => LoadInv
<1> SUFFICES ASSUME Init PROVE LoadInv
  OBVIOUS
<1>1. TypeOK
  <2>1. native \in 0..MaxLoads
    BY DEF Init, MaxLoads
  <2>2. state \in [Classes -> {"no", "done", "error"}] /\ owner \in [Classes -> Threads \cup {None}]
    BY DEF Init
  <2>3. pc \in [Threads -> Labels] /\ result \in [Threads -> {"none", "answer"} \cup Errors]
    BY DEF Init, Labels
  <2> QED
    BY <2>1, <2>2, <2>3 DEF Init, TypeOK
<1>2. Locks
  BY LoadAssumption DEF Init, Locks, InLoad, InLibrary, Classes
<1>3. Loading
  BY LoadAssumption DEF Init, Loading, InLibrary, Classes
<1> QED
  BY <1>1, <1>2, <1>3 DEF LoadInv

LEMMA TypeKept ==
  ASSUME LoadInv, NEW t \in Threads,
         Step(t) \/ \E w \in Wrappers : UseWrapper(t, w)
  PROVE  TypeOK'
<1> USE LoadAssumption DEF LoadInv, TypeOK, Goto, library, Classes, Labels, InLoad, Errors, MaxLoads, Locks
<1>1. CASE WrapperReady(t)
  BY <1>1 DEF WrapperReady
<1>2. CASE WrapperErroneous(t)
  BY <1>2 DEF WrapperErroneous, Unwinds
<1>3. CASE InitWrapper(t)
  BY <1>3 DEF InitWrapper, Begins
<1>4. CASE LibraryReady(t)
  BY <1>4 DEF LibraryReady
<1>5. CASE LibraryErroneous(t)
  BY <1>5 DEF LibraryErroneous, Unwinds
<1>6. CASE InitLibrary(t)
  BY <1>6 DEF InitLibrary, Begins
<1>7. CASE Enter(t)
  BY <1>7 DEF Enter
<1>8. CASE Check(t)
  BY <1>8 DEF Check
<1>9. CASE CreateTemp(t)
  BY <1>9 DEF CreateTemp
<1>10. CASE Copy(t)
  BY <1>10 DEF Copy
<1>11. CASE SystemLoad(t)
  BY <1>11 DEF SystemLoad
<1>12. CASE ExtractFails(t)
  BY <1>12 DEF ExtractFails, Unwinds
<1>13. CASE SetLoaded(t)
  BY <1>13 DEF SetLoaded
<1>14. CASE LeaveForLibrary(t)
  BY <1>14 DEF LeaveForLibrary, Ends
<1>15. CASE LeaveForSize(t)
  BY <1>15 DEF LeaveForSize
<1>16. CASE LeaveForWrapper(t)
  BY <1>16 DEF LeaveForWrapper, Ends
<1>17. CASE SizeAnswers(t)
  BY <1>17 DEF SizeAnswers, Ends
<1>18. CASE SizePanics(t)
  BY <1>18 DEF SizePanics, Unwinds
<1>19. CASE MethodReturns(t)
  BY <1>19 DEF MethodReturns
<1>20. ASSUME NEW w \in Wrappers, UseWrapper(t, w)
       PROVE  TypeOK'
  BY <1>20 DEF UseWrapper
<1> QED
  BY <1>1, <1>2, <1>3, <1>4, <1>5, <1>6, <1>7, <1>8, <1>9, <1>10, <1>11, <1>12, <1>13, <1>14, <1>15, <1>16, <1>17, <1>18, <1>19, <1>20 DEF Step

(* Locks are taken and given back in pairs. *)
LEMMA LocksKept ==
  ASSUME LoadInv, NEW t \in Threads,
         Step(t) \/ \E w \in Wrappers : UseWrapper(t, w)
  PROVE  Locks'
<1> USE LoadAssumption DEF LoadInv, TypeOK, Goto, library, Classes, InLoad, InLibrary, Locks
<1>1. CASE WrapperReady(t)
  BY <1>1 DEF WrapperReady
<1>2. CASE WrapperErroneous(t)
  BY <1>2 DEF WrapperErroneous, Unwinds
<1>3. CASE InitWrapper(t)
  BY <1>3 DEF InitWrapper, Begins
<1>4. CASE LibraryReady(t)
  BY <1>4 DEF LibraryReady
<1>5. CASE LibraryErroneous(t)
  BY <1>5 DEF LibraryErroneous, Unwinds
<1>6. CASE InitLibrary(t)
  BY <1>6 DEF InitLibrary, Begins
<1>7. CASE Enter(t)
  BY <1>7 DEF Enter
<1>8. CASE Check(t)
  BY <1>8 DEF Check, Loading
<1>9. CASE CreateTemp(t)
  BY <1>9 DEF CreateTemp
<1>10. CASE Copy(t)
  BY <1>10 DEF Copy
<1>11. CASE SystemLoad(t)
  BY <1>11 DEF SystemLoad
<1>12. CASE ExtractFails(t)
  BY <1>12 DEF ExtractFails, Unwinds
<1>13. CASE SetLoaded(t)
  BY <1>13 DEF SetLoaded
<1>14. CASE LeaveForLibrary(t)
  BY <1>14 DEF LeaveForLibrary, Ends
<1>15. CASE LeaveForSize(t)
  BY <1>15 DEF LeaveForSize
<1>16. CASE LeaveForWrapper(t)
  BY <1>16 DEF LeaveForWrapper, Ends
<1>17. CASE SizeAnswers(t)
  BY <1>17 DEF SizeAnswers, Ends
<1>18. CASE SizePanics(t)
  BY <1>18 DEF SizePanics, Unwinds
<1>19. CASE MethodReturns(t)
  BY <1>19 DEF MethodReturns
<1>20. ASSUME NEW w \in Wrappers, UseWrapper(t, w)
       PROVE  Locks'
  BY <1>20 DEF UseWrapper
<1> QED
  BY <1>1, <1>2, <1>3, <1>4, <1>5, <1>6, <1>7, <1>8, <1>9, <1>10, <1>11, <1>12, <1>13, <1>14, <1>15, <1>16, <1>17, <1>18, <1>19, <1>20 DEF Step

(* The flag, the count of loads and the state of the classes agree. *)
LEMMA LoadingKept ==
  ASSUME LoadInv, NEW t \in Threads,
         Step(t) \/ \E w \in Wrappers : UseWrapper(t, w)
  PROVE  Loading'
<1> USE LoadAssumption DEF LoadInv, TypeOK, Goto, library, Classes, InLoad, InLibrary, Locks, Loading, MaxLoads
<1>1. CASE WrapperReady(t)
  BY <1>1 DEF WrapperReady
<1>2. CASE WrapperErroneous(t)
  BY <1>2 DEF WrapperErroneous, Unwinds
<1>3. CASE InitWrapper(t)
  BY <1>3 DEF InitWrapper, Begins
<1>4. CASE LibraryReady(t)
  BY <1>4 DEF LibraryReady
<1>5. CASE LibraryErroneous(t)
  BY <1>5 DEF LibraryErroneous, Unwinds
<1>6. CASE InitLibrary(t)
  BY <1>6 DEF InitLibrary, Begins
<1>7. CASE Enter(t)
  BY <1>7 DEF Enter
<1>8. CASE Check(t)
  BY <1>8 DEF Check
<1>9. CASE CreateTemp(t)
  BY <1>9 DEF CreateTemp
<1>10. CASE Copy(t)
  BY <1>10 DEF Copy
<1>11. CASE SystemLoad(t)
  BY <1>11 DEF SystemLoad
<1>12. CASE ExtractFails(t)
  BY <1>12 DEF ExtractFails, Unwinds
<1>13. CASE SetLoaded(t)
  BY <1>13 DEF SetLoaded
<1>14. CASE LeaveForLibrary(t)
  BY <1>14 DEF LeaveForLibrary, Ends
<1>15. CASE LeaveForSize(t)
  BY <1>15 DEF LeaveForSize
<1>16. CASE LeaveForWrapper(t)
  BY <1>16 DEF LeaveForWrapper, Ends
<1>17. CASE SizeAnswers(t)
  BY <1>17 DEF SizeAnswers, Ends
<1>18. CASE SizePanics(t)
  BY <1>18 DEF SizePanics, Unwinds
<1>19. CASE MethodReturns(t)
  BY <1>19 DEF MethodReturns
<1>20. ASSUME NEW w \in Wrappers, UseWrapper(t, w)
       PROVE  Loading'
  BY <1>20 DEF UseWrapper
<1> QED
  BY <1>1, <1>2, <1>3, <1>4, <1>5, <1>6, <1>7, <1>8, <1>9, <1>10, <1>11, <1>12, <1>13, <1>14, <1>15, <1>16, <1>17, <1>18, <1>19, <1>20 DEF Step

LEMMA StutterKeeps == LoadInv /\ UNCHANGED vars => LoadInv'
<1> SUFFICES ASSUME LoadInv, UNCHANGED vars PROVE LoadInv'
  OBVIOUS
<1>1. TypeOK'
  BY DEF LoadInv, TypeOK, vars
<1>2. Locks'
  BY DEF LoadInv, Locks, InLibrary, vars
<1>3. Loading'
  BY DEF LoadInv, Loading, InLibrary, vars
<1> QED
  BY <1>1, <1>2, <1>3 DEF LoadInv

------------------------------------------------------------------------------
(* Theorems *)

(* The invariant of the locks and of what has been loaded, for any number   *)
(* of threads and wrapper classes.                                          *)
THEOREM LoadInvariance == Spec => []LoadInv
<1>1. LoadInv /\ [Next]_vars => LoadInv'
  <2> SUFFICES ASSUME LoadInv, [Next]_vars PROVE LoadInv'
    OBVIOUS
  <2>1. CASE Next
    BY <2>1, TypeKept, LocksKept, LoadingKept DEF Next, LoadInv
  <2>2. CASE UNCHANGED vars
    BY <2>2, StutterKeeps
  <2> QED
    BY <2>1, <2>2
<1> QED
  BY InitLoadInv, <1>1, PTL DEF Spec

(* No native function runs before System.load has returned.                 *)
THEOREM LoadedFirst == Spec => []NativeAfterLoad
<1>1. LoadInv => NativeAfterLoad
  BY DEF LoadInv, Loading, NativeAfterLoad
<1> QED
  BY <1>1, LoadInvariance, PTL

(* The library is loaded at most once, whichever threads initialise which   *)
(* classes first.                                                           *)
THEOREM OneLoad == Spec => []LoadedOnce
<1>1. LoadInv => LoadedOnce
  BY DEF LoadInv, Loading, LoadedOnce, TypeOK
<1> QED
  BY <1>1, LoadInvariance, PTL

(* After a failed load nothing of the library is usable, and the temporary  *)
(* file is gone.                                                            *)
THEOREM FailureFinal == Spec => []FailureIsTotal
<1>1. LoadInv => FailureIsTotal
  <2> SUFFICES ASSUME LoadInv, state[Library] = "error"
               PROVE  /\ native = 0 /\ temp = "none"
                      /\ \A w \in Wrappers : state[w] # "done"
                      /\ \A t \in Threads : result[t] # "answer"
    BY DEF FailureIsTotal
  <2>1. ~loaded /\ owner[Library] = None
    BY DEF LoadInv, Loading
  <2>2. \A t \in Threads : pc[t] # "set"
    BY <2>1, LoadAssumption DEF LoadInv, Locks, InLibrary
  <2> QED
    BY <2>1, <2>2 DEF LoadInv, Loading, Classes
<1> QED
  BY <1>1, LoadInvariance, PTL

==============================================================================
