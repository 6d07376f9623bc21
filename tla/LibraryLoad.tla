----------------------------- MODULE LibraryLoad -----------------------------
(***************************************************************************)
(* Loading of the native library.  The static initialiser of every wrapper *)
(* class calls Library.load(), and some then ask native code for a size.   *)
(* The first use of Library runs the static initialiser of Library, which  *)
(* calls load() itself: the library is extracted to a temporary file and   *)
(* loaded while the class is being initialised, and an exception leaves    *)
(* the class unusable for the rest of the process.                         *)
(*                                                                         *)
(* Two kinds of locks are taken: a class is initialised by one thread while*)
(* the others wait, and load() is synchronized on the class Library.       *)
(***************************************************************************)
EXTENDS Naturals

CONSTANTS
  Threads,
  Wrappers,    \* the wrapper classes
  Sized,       \* those whose initialiser calls a native function
  None         \* no thread

Library == "Library"
Classes == Wrappers \cup {Library}

ASSUME LoadAssumption ==
  /\ Library \notin Wrappers
  /\ Sized \subseteq Wrappers
  /\ None \notin Threads

VARIABLES
  state,       \* of each class: "no" (not initialised), "done" or "error"
  owner,       \* the thread that is initialising it
  monitor,     \* the thread inside the synchronized load()
  loaded,      \* Library.loaded
  native,      \* how often System.load has loaded the library
  temp,        \* the temporary file: "none", "new" or "copied"
  pc,          \* what each thread does, see Labels
  using,       \* the wrapper class it uses
  result       \* how its last use of a wrapper ended

vars == <<state, owner, monitor, loaded, native, temp, pc, using, result>>
library == <<monitor, loaded, native, temp>>

(* java: outside the wrappers; wrapper: before a static method of a wrapper;*)
(* library: in its initialiser, before Library.load(); enter: before the    *)
(* lock of load(); check, create, copy, system, set, leave: in it; size: in *)
(* the native function of an initialiser; native: in one of a method.       *)
InLoad == {"check", "create", "copy", "system", "set", "leave"}
Labels == {"java", "wrapper", "library", "enter", "size", "native"} \cup InLoad

Errors == {"ExceptionInInitializerError", "NoClassDefFoundError"}

(* More than two loads are not told apart. *)
MaxLoads == 2

TypeOK ==
  /\ state \in [Classes -> {"no", "done", "error"}]
  /\ owner \in [Classes -> Threads \cup {None}]
  /\ monitor \in Threads \cup {None}
  /\ loaded \in BOOLEAN
  /\ native \in 0..MaxLoads
  /\ temp \in {"none", "new", "copied"}
  /\ pc \in [Threads -> Labels]
  /\ using \in [Threads -> Wrappers \cup {None}]
  /\ result \in [Threads -> {"none", "answer"} \cup Errors]

Init ==
  /\ state = [c \in Classes |-> "no"]
  /\ owner = [c \in Classes |-> None]
  /\ monitor = None
  /\ loaded = FALSE
  /\ native = 0
  /\ temp = "none"
  /\ pc = [t \in Threads |-> "java"]
  /\ using = [t \in Threads |-> None]
  /\ result = [t \in Threads |-> "none"]

Goto(t, label) == pc' = [pc EXCEPT ![t] = label]

InLibrary(t) == owner[Library] = t

------------------------------------------------------------------------------
(* Initialisation of a class by the JVM: by one thread, once.  Another one  *)
(* that needs the class waits; an exception of the initialiser makes the    *)
(* class erroneous, and its later uses fail at once.                        *)

Begins(t, c) ==
  /\ state[c] = "no"
  /\ owner[c] = None
  /\ owner' = [owner EXCEPT ![c] = t]

Ends(t, c) ==
  /\ state' = [state EXCEPT ![c] = "done"]
  /\ owner' = [owner EXCEPT ![c] = None]

(* The exception leaves every initialiser that t is running. *)
Unwinds(t, r) ==
  /\ state' = [c \in Classes |-> IF owner[c] = t THEN "error" ELSE state[c]]
  /\ owner' = [c \in Classes |-> IF owner[c] = t THEN None ELSE owner[c]]
  /\ result' = [result EXCEPT ![t] = r]
  /\ Goto(t, "java")

------------------------------------------------------------------------------
(* A wrapper class. *)

UseWrapper(t, w) ==
  /\ pc[t] = "java"
  /\ Goto(t, "wrapper")
  /\ using' = [using EXCEPT ![t] = w]
  /\ result' = [result EXCEPT ![t] = "none"]
  /\ UNCHANGED <<library, state, owner>>

WrapperReady(t) ==
  /\ pc[t] = "wrapper"
  /\ state[using[t]] = "done"
  /\ Goto(t, "native")
  /\ UNCHANGED <<library, state, owner, using, result>>

WrapperErroneous(t) ==
  /\ pc[t] = "wrapper"
  /\ state[using[t]] = "error"
  /\ Unwinds(t, "NoClassDefFoundError")
  /\ UNCHANGED <<library, using>>

(* Mutant: a wrapper class without Library.load() in its initialiser. *)
InitWrapperUnloaded(t) ==
  /\ pc[t] = "wrapper"
  /\ Begins(t, using[t])
  /\ Goto(t, "size")
  /\ UNCHANGED <<library, state, using, result>>

(* static { Library.load(); ... }: Library must be initialised first. *)
InitWrapper(t) ==
  /\ pc[t] = "wrapper"
  /\ Begins(t, using[t])
  /\ Goto(t, "library")
  /\ UNCHANGED <<library, state, using, result>>

LibraryReady(t) ==
  /\ pc[t] = "library"
  /\ state[Library] = "done"
  /\ Goto(t, "enter")
  /\ UNCHANGED <<library, state, owner, using, result>>

LibraryErroneous(t) ==
  /\ pc[t] = "library"
  /\ state[Library] = "error"
  /\ Unwinds(t, "NoClassDefFoundError")
  /\ UNCHANGED <<library, using>>

(* static { load(); } *)
InitLibrary(t) ==
  /\ pc[t] = "library"
  /\ Begins(t, Library)
  /\ Goto(t, "enter")
  /\ UNCHANGED <<library, state, using, result>>

------------------------------------------------------------------------------
(* Library.load(), for Library itself and then for the wrapper. *)

Enter(t) ==
  /\ pc[t] = "enter"
  /\ monitor = None
  /\ monitor' = t
  /\ Goto(t, "check")
  /\ UNCHANGED <<state, owner, loaded, native, temp, using, result>>

Check(t) ==
  /\ pc[t] = "check"
  /\ Goto(t, IF loaded THEN "leave" ELSE "create")
  /\ UNCHANGED <<library, state, owner, using, result>>

CreateTemp(t) ==
  /\ pc[t] = "create"
  /\ temp' = "new"
  /\ Goto(t, "copy")
  /\ UNCHANGED <<state, owner, monitor, loaded, native, using, result>>

Copy(t) ==
  /\ pc[t] = "copy"
  /\ temp' = "copied"
  /\ Goto(t, "system")
  /\ UNCHANGED <<state, owner, monitor, loaded, native, using, result>>

SystemLoad(t) ==
  /\ pc[t] = "system"
  /\ native < MaxLoads
  /\ native' = native + 1
  /\ Goto(t, "set")
  /\ UNCHANGED <<state, owner, monitor, loaded, temp, using, result>>

(* Mutant: the temporary file is left behind. *)
ExtractFailsDirty(t) ==
  /\ pc[t] \in {"create", "copy", "system"}
  /\ monitor' = None
  /\ Unwinds(t, "ExceptionInInitializerError")
  /\ UNCHANGED <<loaded, native, temp, using>>

(* Mutant: load() tries again until it succeeds. *)
ExtractFailsRetried(t) ==
  /\ pc[t] \in {"create", "copy", "system"}
  /\ temp' = "none"
  /\ Goto(t, "create")
  /\ UNCHANGED <<state, owner, monitor, loaded, native, using, result>>

(* No temporary file, no resource for this system, a full disk, a library   *)
(* that does not link: the file is deleted (the code does not look whether  *)
(* that succeeded; here it does) and a RuntimeException leaves              *)
(* extractLoad, load and the initialisers.                                  *)
ExtractFails(t) ==
  /\ pc[t] \in {"create", "copy", "system"}
  /\ temp' = "none"
  /\ monitor' = None
  /\ Unwinds(t, "ExceptionInInitializerError")
  /\ UNCHANGED <<loaded, native, using>>

(* Mutant: the flag is never set. *)
SetNothing(t) ==
  /\ pc[t] = "set"
  /\ Goto(t, "leave")
  /\ UNCHANGED <<library, state, owner, using, result>>

SetLoaded(t) ==
  /\ pc[t] = "set"
  /\ loaded' = TRUE
  /\ Goto(t, "leave")
  /\ UNCHANGED <<state, owner, monitor, native, temp, using, result>>

(* load() of the initialiser of Library returns: Library is initialised,    *)
(* and the wrapper's own call of load() begins.                             *)
LeaveForLibrary(t) ==
  /\ pc[t] = "leave"
  /\ InLibrary(t)
  /\ monitor' = None
  /\ Ends(t, Library)
  /\ Goto(t, "enter")
  /\ UNCHANGED <<loaded, native, temp, using, result>>

LeaveForSize(t) ==
  /\ pc[t] = "leave"
  /\ ~InLibrary(t)
  /\ using[t] \in Sized
  /\ monitor' = None
  /\ Goto(t, "size")
  /\ UNCHANGED <<state, owner, loaded, native, temp, using, result>>

LeaveForWrapper(t) ==
  /\ pc[t] = "leave"
  /\ ~InLibrary(t)
  /\ using[t] \notin Sized
  /\ monitor' = None
  /\ Ends(t, using[t])
  /\ Goto(t, "native")
  /\ UNCHANGED <<loaded, native, temp, using, result>>

------------------------------------------------------------------------------
(* Native functions. *)

SizeAnswers(t) ==
  /\ pc[t] = "size"
  /\ Ends(t, using[t])
  /\ Goto(t, "native")
  /\ UNCHANGED <<library, using, result>>

(* ffi_export! turns a panic into a RuntimeException. *)
SizePanics(t) ==
  /\ pc[t] = "size"
  /\ Unwinds(t, "ExceptionInInitializerError")
  /\ UNCHANGED <<library, using>>

MethodReturns(t) ==
  /\ pc[t] = "native"
  /\ Goto(t, "java")
  /\ result' = [result EXCEPT ![t] = "answer"]
  /\ UNCHANGED <<library, state, owner, using>>

Step(t) ==
  \/ WrapperReady(t) \/ WrapperErroneous(t) \/ InitWrapper(t)
  \/ LibraryReady(t) \/ LibraryErroneous(t) \/ InitLibrary(t)
  \/ Enter(t) \/ Check(t) \/ CreateTemp(t) \/ Copy(t) \/ SystemLoad(t)
  \/ ExtractFails(t) \/ SetLoaded(t)
  \/ LeaveForLibrary(t) \/ LeaveForSize(t) \/ LeaveForWrapper(t)
  \/ SizeAnswers(t) \/ SizePanics(t) \/ MethodReturns(t)

Next == \E t \in Threads : Step(t) \/ \E w \in Wrappers : UseWrapper(t, w)

Spec == Init /\ [][Next]_vars

(* A thread that can run runs. *)
FairSpec == Spec /\ \A t \in Threads : WF_vars(Step(t))

------------------------------------------------------------------------------

(* Native code runs only after System.load has returned, in whatever order  *)
(* the threads initialise the classes: no UnsatisfiedLinkError.             *)
NativeAfterLoad == \A t \in Threads : pc[t] \in {"size", "native"} => native > 0

(* The library is loaded into the process once: a second copy would have a  *)
(* committer key and tables of its own.                                     *)
LoadedOnce == native <= 1

(* A failed load is final and clean: nothing was loaded, no temporary file  *)
(* is left, and no wrapper class is or will be usable.                      *)
FailureIsTotal ==
  state[Library] = "error" =>
    /\ native = 0 /\ temp = "none"
    /\ \A w \in Wrappers : state[w] # "done"
    /\ \A t \in Threads : result[t] # "answer"

(* Initialisers that wait for each other's classes and for load() never     *)
(* wait for ever: every use of a wrapper ends, with an answer or an error.  *)
UsesEnd == \A t \in Threads : pc[t] # "java" ~> pc[t] = "java"

==============================================================================
