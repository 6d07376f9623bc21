---------------------------- MODULE NativeHandles ----------------------------
(***************************************************************************)
(* Handles to native memory.  A Java wrapper object holds, in a long, the  *)
(* address of a box of the Rust heap.  Its methods compare the long with 0 *)
(* and call a native function, which reads the field again, turns it into  *)
(* a reference and works on the box; results are moved into new boxes and  *)
(* wrapped into new Java objects; close frees the box and zeroes the field.*)
(*                                                                         *)
(* Threads run the calls step by step: every read and write of a pointer   *)
(* field, every allocation and every release is a step of its own, and the *)
(* allocator may hand out a freed address again at once.                   *)
(*                                                                         *)
(* Nothing in the wrappers or in the native code synchronizes.  What is    *)
(* expected of the application is stated by MayUse: an object is not used  *)
(* by two calls at a time when one of them closes it or mutates its box.   *)
(* What becomes of an application that does not respect it is undefined,   *)
(* and no property here is about it.                                       *)
(***************************************************************************)
EXTENDS HandleMethods, FiniteSets

CONSTANTS
  Threads,
  Objs,        \* identities of Java wrapper objects
  Boxes,       \* addresses of the Rust heap
  Null,        \* the value 0 of a pointer field
  Methods,     \* the methods called, from the tables of HandleMethods
  MaxLost      \* bound on the boxes that failed calls may leak

ArgSpec == [class : Classes, mut : BOOLEAN, nullable : BOOLEAN]

MethodShape ==
  [name : STRING, guard : Nat, args : Seq(ArgSpec), out : Seq(Classes),
   packs : BOOLEAN, fails : BOOLEAN, rejects : BOOLEAN]

ASSUME HandlesAssumption ==
  /\ Null \notin Boxes
  /\ Methods \subseteq MethodShape
  /\ \A m \in Methods :
       m.guard # 0 => m.guard \in DOMAIN m.args /\ ~m.args[m.guard].nullable
  /\ MaxLost \in Nat

VARIABLES
  class,       \* class of the Java object, "none" while there is none
  ptr,         \* its pointer field
  heap,        \* type of the value in each box, "free" when not allocated
  lost,        \* boxes that nothing points to any more
  pc,          \* what each thread is doing, see Labels
  meth,        \* the method it is executing
  arg,         \* the objects passed to the call, or the object being closed
  next,        \* position in arg while reading, in out while building
  refs,        \* the references it holds: the object and the box read from it
  reg,         \* the raw pointer in its hands: a new box, or the box to free
  out,         \* the objects that will carry the results
  result       \* how its last call ended

vars == <<class, ptr, heap, lost, pc, meth, arg, next, refs, reg, out, result>>
memory == <<class, ptr, heap, lost>>

(* java: outside the library; guard: about to compare the field with 0;     *)
(* read: in native code, reading handles, then computing; alloc, wrap,      *)
(* pack: returning results; load, drop, zero: closing.                      *)
Labels == {"java", "guard", "read", "alloc", "wrap", "pack", "load", "drop", "zero"}

Closing == {"load", "drop", "zero"}

Results == {"none", "value", "null", "IllegalArgumentException",
            "IllegalStateException", "NullPointerException", "RuntimeException"}

NoMethod == Method("none", 0, <<>>, <<>>)

Types == {RustType(c) : c \in Classes}

TypeOK ==
  /\ class \in [Objs -> Classes \cup {"none"}]
  /\ ptr \in [Objs -> Boxes \cup {Null}]
  /\ heap \in [Boxes -> Types \cup {"free"}]
  /\ lost \subseteq Boxes
  /\ pc \in [Threads -> Labels]
  /\ meth \in [Threads -> Methods \cup {NoMethod}]
  /\ arg \in [Threads -> Seq(Objs)]
  /\ next \in [Threads -> Nat]
  /\ refs \in [Threads -> SUBSET (Objs \X Boxes)]
  /\ reg \in [Threads -> Boxes \cup {Null}]
  /\ out \in [Threads -> Seq(Objs)]
  /\ result \in [Threads -> Results]

Init ==
  /\ class = [o \in Objs |-> "none"]
  /\ ptr = [o \in Objs |-> Null]
  /\ heap = [b \in Boxes |-> "free"]
  /\ lost = {}
  /\ pc = [t \in Threads |-> "java"]
  /\ meth = [t \in Threads |-> NoMethod]
  /\ arg = [t \in Threads |-> <<>>]
  /\ next = [t \in Threads |-> 1]
  /\ refs = [t \in Threads |-> {}]
  /\ reg = [t \in Threads |-> Null]
  /\ out = [t \in Threads |-> <<>>]
  /\ result = [t \in Threads |-> "none"]

------------------------------------------------------------------------------

(* The objects a call in progress was given, those it closes or whose box   *)
(* it mutates, and those that will carry its results.                       *)
Uses(t) == {arg[t][i] : i \in DOMAIN arg[t]}

MutArgs(m, a) == {a[i] : i \in {j \in DOMAIN m.args : m.args[j].mut}}

Exclusive(t) ==
  IF pc[t] \in Closing THEN Uses(t) ELSE MutArgs(meth[t], arg[t])

Builds(t) == {out[t][i] : i \in DOMAIN out[t]}

(* An object the application holds. *)
Known(o) == class[o] # "none" /\ \A t \in Threads : o \notin Builds(t)

(* A Java object that does not exist yet, for the next result. *)
Unborn(o) == class[o] = "none" /\ \A t \in Threads : o \notin Builds(t)

(* What the application must respect, since nothing synchronizes: no call   *)
(* overlaps another one that has exclusive use of an object of both.        *)
MayUse(t, S, X) ==
  \A u \in Threads \ {t} : X \cap Uses(u) = {} /\ S \cap Exclusive(u) = {}

Goto(t, label) == pc' = [pc EXCEPT ![t] = label]

(* A call of t returns: nothing of it remains but its result. *)
Return(t, r) ==
  /\ Goto(t, "java")
  /\ meth' = [meth EXCEPT ![t] = NoMethod]
  /\ arg' = [arg EXCEPT ![t] = <<>>]
  /\ next' = [next EXCEPT ![t] = 1]
  /\ refs' = [refs EXCEPT ![t] = {}]
  /\ reg' = [reg EXCEPT ![t] = Null]
  /\ out' = [out EXCEPT ![t] = <<>>]
  /\ result' = [result EXCEPT ![t] = r]

------------------------------------------------------------------------------
(* A method of a wrapper class. *)

(* The Java compiler checks the classes; FieldElement.equals answers true   *)
(* for the same object without a native call.                               *)
Admissible(m, a) ==
  /\ \A i \in DOMAIN m.args : Known(a[i]) /\ class[a[i]] = m.args[i].class
  /\ m.name = "equals" => a[1] # a[2]

Call(t, m, a, res) ==
  /\ pc[t] = "java"
  /\ Admissible(m, a)
  /\ MayUse(t, {a[i] : i \in DOMAIN a}, MutArgs(m, a))
  /\ \A i \in DOMAIN m.out : Unborn(res[i])
  /\ \A i, j \in DOMAIN m.out : res[i] = res[j] => i = j
  /\ Goto(t, "guard")
  /\ meth' = [meth EXCEPT ![t] = m]
  /\ arg' = [arg EXCEPT ![t] = a]
  /\ out' = [out EXCEPT ![t] = res]
  /\ result' = [result EXCEPT ![t] = "none"]
  /\ UNCHANGED <<memory, next, refs, reg>>

(* The wrapper's own checks.  Wrong data is refused before the native call. *)
GuardRejects(t) ==
  /\ pc[t] = "guard"
  /\ meth[t].rejects
  /\ Return(t, "IllegalArgumentException")
  /\ UNCHANGED memory

FreedException(m) ==
  IF m.name \in {"isValidSignature", "isValidVRFProof"}
  THEN "IllegalArgumentException" ELSE "IllegalStateException"

GuardFreed(t) ==
  /\ pc[t] = "guard"
  /\ meth[t].guard # 0
  /\ ptr[arg[t][meth[t].guard]] = Null
  /\ Return(t, FreedException(meth[t]))
  /\ UNCHANGED memory

GuardPasses(t) ==
  /\ pc[t] = "guard"
  /\ meth[t].guard # 0 => ptr[arg[t][meth[t].guard]] # Null
  /\ Goto(t, "read")
  /\ UNCHANGED <<memory, meth, arg, next, refs, reg, out, result>>

(* get_field, then read_raw_pointer or read_mut_raw_pointer: a null pointer *)
(* raises NullPointerException and panics, except where it stands for an    *)
(* absent value (read_nullable_raw_pointer).                                *)
Reading(t) == pc[t] = "read" /\ next[t] \in DOMAIN arg[t]

ReadArg(t) ==
  LET o == arg[t][next[t]] IN
  /\ Reading(t)
  /\ ptr[o] # Null
  /\ refs' = [refs EXCEPT ![t] = @ \cup {<<o, ptr[o]>>}]
  /\ next' = [next EXCEPT ![t] = @ + 1]
  /\ UNCHANGED <<memory, pc, meth, arg, reg, out, result>>

ReadAbsent(t) ==
  /\ Reading(t)
  /\ ptr[arg[t][next[t]]] = Null
  /\ meth[t].args[next[t]].nullable
  /\ next' = [next EXCEPT ![t] = @ + 1]
  /\ UNCHANGED <<memory, pc, meth, arg, refs, reg, out, result>>

(* Mutant: a null pointer is refused even where it stands for nothing. *)
ReadNullAlways(t) ==
  /\ Reading(t)
  /\ ptr[arg[t][next[t]]] = Null
  /\ Return(t, "NullPointerException")
  /\ UNCHANGED memory

ReadNull(t) ==
  /\ Reading(t)
  /\ ptr[arg[t][next[t]]] = Null
  /\ ~meth[t].args[next[t]].nullable
  /\ Return(t, "NullPointerException")
  /\ UNCHANGED memory

(* A JNI call fails, data does not parse, or the library panics: expect,    *)
(* unwrap or panic!, turned into RuntimeException by ffi_export!.           *)
BodyPanics(t) ==
  /\ pc[t] = "read"
  /\ Return(t, "RuntimeException")
  /\ UNCHANGED memory

Computing(t) == pc[t] = "read" /\ next[t] \notin DOMAIN arg[t]

BodyFails(t) ==
  /\ Computing(t)
  /\ meth[t].fails
  /\ Return(t, "null")
  /\ UNCHANGED memory

BodyAnswers(t) ==
  /\ Computing(t)
  /\ meth[t].out = <<>>
  /\ Return(t, "value")
  /\ UNCHANGED memory

BodyComputes(t) ==
  /\ Computing(t)
  /\ meth[t].out # <<>>
  /\ Goto(t, "alloc")
  /\ refs' = [refs EXCEPT ![t] = {}]
  /\ next' = [next EXCEPT ![t] = 1]
  /\ UNCHANGED <<memory, meth, arg, reg, out, result>>

------------------------------------------------------------------------------
(* return_jobject, once for every result. *)

OutClass(t) == meth[t].out[next[t]]

(* Box::into_raw(Box::new(obj)) *)
Alloc(t) ==
  /\ pc[t] = "alloc"
  /\ \E b \in Boxes :
       /\ heap[b] = "free"
       /\ heap' = [heap EXCEPT ![b] = RustType(OutClass(t))]
       /\ reg' = [reg EXCEPT ![t] = b]
  /\ Goto(t, "wrap")
  /\ UNCHANGED <<class, ptr, lost, meth, arg, next, refs, out, result>>

(* Mutant: the result shares the box of the handle it was computed from. *)
WrapSame(t, o) ==
  /\ class' = [class EXCEPT ![o] = OutClass(t)]
  /\ ptr' = [ptr EXCEPT ![o] = IF arg[t] # <<>> THEN ptr[arg[t][1]] ELSE reg[t]]
  /\ UNCHANGED <<heap, lost>>

(* find_class and new_object: the constructor stores the pointer.           *)
WrapInto(t, o) ==
  /\ class' = [class EXCEPT ![o] = OutClass(t)]
  /\ ptr' = [ptr EXCEPT ![o] = reg[t]]
  /\ UNCHANGED <<heap, lost>>

WrapMore(t) ==
  /\ pc[t] = "wrap"
  /\ next[t] # Len(out[t])
  /\ WrapInto(t, out[t][next[t]])
  /\ Goto(t, "alloc")
  /\ next' = [next EXCEPT ![t] = @ + 1]
  /\ reg' = [reg EXCEPT ![t] = Null]
  /\ UNCHANGED <<meth, arg, refs, out, result>>

WrapLast(t) ==
  /\ pc[t] = "wrap"
  /\ next[t] = Len(out[t])
  /\ WrapInto(t, out[t][next[t]])
  /\ IF meth[t].packs
     THEN /\ Goto(t, "pack")
          /\ next' = [next EXCEPT ![t] = @ + 1]
          /\ reg' = [reg EXCEPT ![t] = Null]
          /\ UNCHANGED <<meth, arg, refs, out, result>>
     ELSE Return(t, "value")

(* The key pair, the prove result, the Optional or the array. *)
Pack(t) ==
  /\ pc[t] = "pack"
  /\ Return(t, "value")
  /\ UNCHANGED memory

(* find_class, new_object or a call on Optional fails, and expect panics.   *)
(* The box in hand is lost, and so are those of the objects already built:  *)
(* the application never gets them, and nothing frees a box when its        *)
(* wrapper is collected.                                                    *)
Built(t) == {out[t][i] : i \in {j \in DOMAIN out[t] : j < next[t]}}

Abandoned(t) == {ptr[o] : o \in Built(t)} \cup ({reg[t]} \ {Null})

WrapFails(t) ==
  /\ pc[t] \in {"wrap", "pack"}
  /\ Cardinality(lost \cup Abandoned(t)) <= MaxLost
  /\ lost' = lost \cup Abandoned(t)
  /\ class' = [o \in Objs |-> IF o \in Built(t) THEN "none" ELSE class[o]]
  /\ ptr' = [o \in Objs |-> IF o \in Built(t) THEN Null ELSE ptr[o]]
  /\ Return(t, "RuntimeException")
  /\ UNCHANGED heap

------------------------------------------------------------------------------
(* close: if the pointer is not 0, free the box, then store 0.  Closing a    *)
(* closed object changes nothing and is left out.                           *)

Close(t, o) ==
  /\ pc[t] = "java"
  /\ Known(o)
  /\ MayUse(t, {o}, {o})
  /\ ptr[o] # Null
  /\ Goto(t, "load")
  /\ arg' = [arg EXCEPT ![t] = <<o>>]
  /\ result' = [result EXCEPT ![t] = "none"]
  /\ UNCHANGED <<memory, meth, next, refs, reg, out>>

(* The pointer to free: read by the wrapper for the argument of the native  *)
(* function, or by the native function from the object it is given.         *)
LoadPointer(t) ==
  /\ pc[t] = "load"
  /\ reg' = [reg EXCEPT ![t] = ptr[arg[t][1]]]
  /\ Goto(t, "drop")
  /\ UNCHANGED <<memory, meth, arg, next, refs, out, result>>

(* get_field fails where the native function reads the pointer: nothing is  *)
(* freed and the exception leaves the field as it is.                       *)
LoadFails(t) ==
  /\ pc[t] = "load"
  /\ class[arg[t][1]] \in FreedByField
  /\ Return(t, "RuntimeException")
  /\ UNCHANGED memory

(* Mutant: the box is not rebuilt, so nothing is dropped. *)
DropNothing(t) ==
  /\ pc[t] = "drop"
  /\ Goto(t, "zero")
  /\ UNCHANGED <<memory, meth, arg, next, refs, reg, out, result>>

(* drop(Box::from_raw(..)), nothing for a null pointer. *)
Drop(t) ==
  /\ pc[t] = "drop"
  /\ heap' = IF reg[t] = Null THEN heap ELSE [heap EXCEPT ![reg[t]] = "free"]
  /\ Goto(t, "zero")
  /\ UNCHANGED <<class, ptr, lost, meth, arg, next, refs, reg, out, result>>

(* Mutant: the wrapper keeps the address of the freed box. *)
KeepPointer(t) ==
  /\ pc[t] = "zero"
  /\ Return(t, "value")
  /\ UNCHANGED memory

ZeroPointer(t) ==
  /\ pc[t] = "zero"
  /\ ptr' = [ptr EXCEPT ![arg[t][1]] = Null]
  /\ Return(t, "value")
  /\ UNCHANGED <<class, heap, lost>>

------------------------------------------------------------------------------
(* The application and the JVM. *)

(* new SchnorrSignature(): the handle of an absent signature. *)
NewAbsentSignature(o) ==
  /\ Unborn(o)
  /\ class' = [class EXCEPT ![o] = "SchnorrSignature"]
  /\ UNCHANGED <<ptr, heap, lost, pc, meth, arg, next, refs, reg, out, result>>

(* A closed object that no call uses is collected. *)
Collect(o) ==
  /\ Known(o)
  /\ ptr[o] = Null
  /\ \A t \in Threads : o \notin Uses(t)
  /\ class' = [class EXCEPT ![o] = "none"]
  /\ UNCHANGED <<ptr, heap, lost, pc, meth, arg, next, refs, reg, out, result>>

Tuples(n) == [1..n -> Objs]

Working(t) ==
  \/ GuardRejects(t) \/ GuardFreed(t) \/ GuardPasses(t)
  \/ ReadArg(t) \/ ReadAbsent(t) \/ ReadNull(t)
  \/ BodyPanics(t) \/ BodyFails(t) \/ BodyAnswers(t) \/ BodyComputes(t)
  \/ Alloc(t) \/ WrapMore(t) \/ WrapLast(t) \/ Pack(t) \/ WrapFails(t)
  \/ LoadPointer(t) \/ LoadFails(t) \/ Drop(t) \/ ZeroPointer(t)

Next ==
  \/ \E t \in Threads :
       \/ \E m \in Methods :
            \E a \in Tuples(Len(m.args)), res \in Tuples(Len(m.out)) : Call(t, m, a, res)
       \/ \E o \in Objs : Close(t, o)
       \/ Working(t)
  \/ \E o \in Objs : NewAbsentSignature(o) \/ Collect(o)

Spec == Init /\ [][Next]_vars

------------------------------------------------------------------------------

(* An object between the release of its box and the store of 0: its field   *)
(* still holds the address, which may already belong to another box.        *)
Dangling(o) == \E t \in Threads : pc[t] = "zero" /\ o \in Uses(t)

(* The box an object owns. *)
Owns(o, b) == class[o] # "none" /\ ptr[o] = b /\ ~Dangling(o)

InHand(t, b) == pc[t] = "wrap" /\ reg[t] = b

(* No use after free: whatever the interleaving and however addresses are   *)
(* reused, a reference that native code holds is to an allocated box of the *)
(* type it was cast to, still owned by the object it was read from.         *)
RefsLive ==
  \A t \in Threads : \A r \in refs[t] :
    /\ heap[r[2]] = RustType(class[r[1]])
    /\ Owns(r[1], r[2])

(* A &mut is the only reference to its box: no other thread holds one, even *)
(* through another object.                                                  *)
MutRefsExclusive ==
  \A t, u \in Threads : t # u =>
    \A r \in refs[t], q \in refs[u] :
      r[1] \in MutArgs(meth[t], arg[t]) => r[2] # q[2]

(* No double free, no free of a box of another type and no free of a box    *)
(* another object points to: what is about to be dropped is the box of the  *)
(* object being closed, with the type the free function casts it to.        *)
DropsOwnBox ==
  \A t \in Threads : pc[t] = "drop" =>
    /\ reg[t] # Null
    /\ heap[reg[t]] = FreedAs(class[arg[t][1]])
    /\ \A o \in Objs : Owns(o, reg[t]) <=> o = arg[t][1]

Owned(b) == (\E o \in Objs : Owns(o, b)) \/ (\E t \in Threads : InHand(t, b))

(* An allocated box belongs to exactly one object or to one call about to   *)
(* wrap it, or else it was lost by a call that failed; nothing owns a free  *)
(* box.  There is no leak but the boxes counted in lost.                    *)
OneOwner ==
  \A b \in Boxes :
    /\ Owned(b) <=> heap[b] # "free" /\ b \notin lost
    /\ b \in lost => heap[b] # "free"
    /\ \A o, p \in Objs : Owns(o, b) /\ Owns(p, b) => o = p
    /\ \A t, u \in Threads : InHand(t, b) /\ InHand(u, b) => t = u
    /\ \A o \in Objs, t \in Threads : ~(Owns(o, b) /\ InHand(t, b))

(* A box becomes unreachable only when a call ends with an exception while  *)
(* it builds its results (return_jobject and the packing of key pairs and   *)
(* Optionals): no call that answers, no close and no collection leaks.      *)
LeaksOnlyOnException ==
  [][\A b \in Boxes :
       (heap[b] = "free" \/ Owned(b)) /\ heap'[b] # "free" /\ ~Owned(b)' =>
         \E t \in Threads :
           pc[t] \in {"wrap", "pack"} /\ pc'[t] = "java" /\ result'[t] = "RuntimeException"]_vars

------------------------------------------------------------------------------
(* What the wrappers promise, see Handles: an object is closed at the step  *)
(* that frees its box, and open from the return of the call that made it.   *)

Required(t) ==
  IF pc[t] \in Closing THEN {}
  ELSE {arg[t][i] : i \in {j \in DOMAIN arg[t] : ~meth[t].args[j].nullable}}

Open   == {o \in Objs : Known(o) /\ ptr[o] # Null /\ ~Dangling(o)}
Closed == {o \in Objs : Known(o) /\ (ptr[o] = Null \/ Dangling(o))}
Busy   == {t \in Threads : pc[t] # "java"}
Needs  == [t \in Threads |-> Required(t)]

H == INSTANCE Handles WITH
       open <- Open, closed <- Closed, busy <- Busy, call <- Needs, result <- result

(* The step-by-step library implements atomic handles. *)
ImplementsHandles == H!Spec

==============================================================================
