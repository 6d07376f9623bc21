-------------------------- MODULE NativeHandlesProof --------------------------
(***************************************************************************)
(* Proofs about NativeHandles for any threads, objects, boxes and methods. *)
(* First the invariant, and from it that references stay valid and boxes   *)
(* have one owner; then that every step is a step of Handles or stutters.  *)
(***************************************************************************)
EXTENDS NativeHandles, TLAPS

InMethod == {"guard", "read", "alloc", "wrap", "pack"}
Returning == {"alloc", "wrap", "pack"}

(* What the registers of a thread hold at each of its labels. *)
Shape(t) ==
  /\ pc[t] = "java" => meth[t] = NoMethod /\ arg[t] = <<>> /\ out[t] = <<>>
  /\ pc[t] \in Closing => meth[t] = NoMethod /\ Len(arg[t]) = 1 /\ out[t] = <<>>
  /\ pc[t] \in InMethod =>
       /\ meth[t] \in Methods
       /\ Len(arg[t]) = Len(meth[t].args)
       /\ Len(out[t]) = Len(meth[t].out)
  /\ pc[t] \in {"java", "guard"} \cup Closing => next[t] = 1
  /\ pc[t] = "read" => next[t] \in 1..(Len(arg[t]) + 1)
  /\ pc[t] \in {"alloc", "wrap"} => next[t] \in 1..Len(out[t])
  /\ pc[t] = "pack" => next[t] = Len(out[t]) + 1
  /\ pc[t] \in {"java", "guard", "read", "alloc", "pack", "load"} => reg[t] = Null
  /\ pc[t] = "wrap" => reg[t] \in Boxes
  /\ pc[t] # "read" => refs[t] = {}

Shapes == \A t \in Threads : Shape(t)

(* The objects that will carry the results of a call are its own, distinct, *)
(* and exist exactly up to the position the call has reached.               *)
Results1(t) ==
  /\ \A i, j \in DOMAIN out[t] : out[t][i] = out[t][j] => i = j
  /\ \A i \in DOMAIN out[t] :
       IF pc[t] \in Returning /\ i < next[t]
       THEN class[out[t][i]] = meth[t].out[i] /\ ptr[out[t][i]] # Null
       ELSE class[out[t][i]] = "none"

ResultsOK ==
  /\ \A t \in Threads : Results1(t)
  /\ \A t, u \in Threads : t # u => Builds(t) \cap Builds(u) = {}

(* The objects in use exist, are of the class the method expects, and are   *)
(* not results still being built.                                           *)
ArgsOK ==
  \A t \in Threads : \A i \in DOMAIN arg[t] :
    /\ class[arg[t][i]] # "none"
    /\ pc[t] \in InMethod => class[arg[t][i]] = meth[t].args[i].class
    /\ \A u \in Threads : arg[t][i] \notin Builds(u)

(* The discipline holds throughout the calls. *)
Disciplined == \A t, u \in Threads : t # u => Exclusive(t) \cap Uses(u) = {}

(* A field that is not 0 holds the address of a live box of the right type. *)
PointersOK ==
  \A o \in Objs :
    /\ class[o] = "none" => ptr[o] = Null
    /\ \A b \in Boxes : Owns(o, b) => heap[b] = RustType(class[o])

HandsOK ==
  \A t \in Threads : pc[t] = "wrap" => heap[reg[t]] = RustType(OutClass(t))

RefsOK ==
  \A t \in Threads : \A r \in refs[t] : r[1] \in Uses(t) /\ Owns(r[1], r[2])

ClosingOK ==
  \A t \in Threads :
    /\ pc[t] \in Closing => ptr[arg[t][1]] # Null
    /\ pc[t] = "drop" => reg[t] = ptr[arg[t][1]]

(* The pointer a wrapper found not to be 0 is not 0 in native code: MayUse  *)
(* allows no close in between.                                              *)
GuardStillHolds ==
  \A t \in Threads :
    pc[t] = "read" /\ meth[t].guard # 0 => ptr[arg[t][meth[t].guard]] # Null

(* The inductive invariant. *)
IInv ==
  /\ TypeOK /\ Shapes /\ ResultsOK /\ ArgsOK /\ Disciplined
  /\ PointersOK /\ HandsOK /\ RefsOK /\ ClosingOK /\ GuardStillHolds /\ OneOwner

------------------------------------------------------------------------------
(* What the tables of methods say of any method. *)
LEMMA MethodFacts ==
  ASSUME NEW m \in Methods
  PROVE  /\ m.guard \in Nat
         /\ m.guard # 0 => m.guard \in DOMAIN m.args /\ ~m.args[m.guard].nullable
         /\ m.args \in Seq(ArgSpec)
         /\ m.out \in Seq(Classes)
         /\ DOMAIN m.args = 1..Len(m.args)
         /\ DOMAIN m.out = 1..Len(m.out)
         /\ Len(m.args) \in Nat
         /\ Len(m.out) \in Nat
         /\ \A i \in DOMAIN m.args : m.args[i].class \in Classes
         /\ \A i \in DOMAIN m.out : m.out[i] \in Classes
<1>1. m \in MethodShape
  BY HandlesAssumption
<1>2. /\ m.guard \in Nat
      /\ m.args \in Seq(ArgSpec)
      /\ m.out \in Seq(Classes)
  BY <1>1 DEF MethodShape
<1>3. m.guard # 0 => m.guard \in DOMAIN m.args /\ ~m.args[m.guard].nullable
  BY HandlesAssumption
<1>4. /\ DOMAIN m.args = 1..Len(m.args)
      /\ DOMAIN m.out = 1..Len(m.out)
      /\ Len(m.args) \in Nat
      /\ Len(m.out) \in Nat
  BY <1>2
<1>5. \A i \in DOMAIN m.args : m.args[i] \in ArgSpec
  BY <1>2
<1>6. \A i \in DOMAIN m.args : m.args[i].class \in Classes
  BY <1>5 DEF ArgSpec
<1>7. \A i \in DOMAIN m.out : m.out[i] \in Classes
  BY <1>2
<1> QED
  BY <1>2, <1>3, <1>4, <1>6, <1>7

(* Boxes of live objects have a type, and it is the one they are freed as. *)
LEMMA ClassFacts ==
  /\ "none" \notin Classes
  /\ \A c \in Classes : RustType(c) # "free" /\ RustType(c) \in Types
  /\ \A c \in Classes : FreedAs(c) = RustType(c)
<1>1. "none" \notin Classes
  BY DEF Classes
<1>2. ASSUME NEW c \in Classes
      PROVE  RustType(c) # "free" /\ RustType(c) \in Types /\ FreedAs(c) = RustType(c)
  BY <1>2 DEF Classes, RustType, Types, FreedAs
<1> QED
  BY <1>1, <1>2

(* The initial state. *)
LEMMA InitIInv == Init => IInv
<1> SUFFICES ASSUME Init PROVE IInv
  OBVIOUS
<1> USE DEF Init
<1>1. TypeOK
  BY HandlesAssumption DEF TypeOK, Labels, Results, Types
<1>2. Shapes
  BY DEF Shapes, Shape, InMethod, Closing
<1>3. ResultsOK /\ ArgsOK
  BY DEF ResultsOK, Results1, ArgsOK, Builds
<1>4. Disciplined
  BY DEF Disciplined, Exclusive, Uses, Closing, MutArgs, NoMethod, Method
<1>5. PointersOK /\ OneOwner
  BY HandlesAssumption DEF PointersOK, OneOwner, Owned, Owns, InHand
<1>6. HandsOK /\ RefsOK /\ ClosingOK /\ GuardStillHolds
  BY DEF HandsOK, RefsOK, ClosingOK, GuardStillHolds, Closing
<1> QED
  BY <1>1, <1>2, <1>3, <1>4, <1>5, <1>6 DEF IInv

------------------------------------------------------------------------------
(* What a thread uses, closes, mutates and builds depends on four fields.   *)
LEMMA SameUses ==
  ASSUME NEW u, pc'[u] = pc[u], meth'[u] = meth[u], arg'[u] = arg[u], out'[u] = out[u]
  PROVE  Uses(u)' = Uses(u) /\ Builds(u)' = Builds(u) /\ Exclusive(u)' = Exclusive(u)
<1>1. Uses(u)' = Uses(u)
  BY DEF Uses
<1>2. Builds(u)' = Builds(u)
  BY DEF Builds
<1>3. MutArgs(meth[u], arg[u])' = MutArgs(meth[u], arg[u])
  BY DEF MutArgs
<1> QED
  BY <1>1, <1>2, <1>3 DEF Exclusive

LEMMA RefTypes ==
  ASSUME TypeOK, NEW u \in Threads, NEW r \in refs[u]
  PROVE  r[1] \in Objs /\ r[2] \in Boxes /\ r = <<r[1], r[2]>>
  BY DEF TypeOK

(* A step of t that returns to Java without touching memory keeps the       *)
(* invariant: it only gives up what t had in hand.                          *)
LEMMA ReturnStep ==
  ASSUME IInv, NEW t \in Threads, NEW r \in Results,
         pc[t] \in {"guard", "read", "pack", "load"},
         Return(t, r), UNCHANGED memory
  PROVE  IInv'
<1> USE DEF memory
<1>0. /\ TypeOK /\ Shapes /\ ResultsOK /\ ArgsOK /\ Disciplined /\ PointersOK
      /\ HandsOK /\ RefsOK /\ ClosingOK /\ GuardStillHolds /\ OneOwner
  BY DEF IInv
<1>1. TypeOK'
  BY <1>0 DEF TypeOK, Return, Goto, Labels
<1>2. Shapes'
  BY <1>0 DEF TypeOK, Shapes, Shape, Return, Goto, InMethod, Closing
<1>3. /\ \A u \in Threads \ {t} : /\ pc'[u] = pc[u] /\ meth'[u] = meth[u] /\ arg'[u] = arg[u]
                                  /\ next'[u] = next[u] /\ refs'[u] = refs[u]
                                  /\ reg'[u] = reg[u] /\ out'[u] = out[u]
      /\ pc'[t] = "java" /\ meth'[t] = NoMethod /\ arg'[t] = <<>> /\ next'[t] = 1
      /\ refs'[t] = {} /\ reg'[t] = Null /\ out'[t] = <<>>
  BY <1>0 DEF TypeOK, Return, Goto
<1>4. /\ \A u \in Threads \ {t} : Uses(u)' = Uses(u) /\ Builds(u)' = Builds(u)
                                  /\ Exclusive(u)' = Exclusive(u)
      /\ Uses(t)' = {} /\ Builds(t)' = {} /\ Exclusive(t)' = {}
<2>1. ASSUME NEW u \in Threads \ {t}
      PROVE  Uses(u)' = Uses(u) /\ Builds(u)' = Builds(u) /\ Exclusive(u)' = Exclusive(u)
  BY <1>3, SameUses
<2>2. Uses(t)' = {} /\ Builds(t)' = {} /\ Exclusive(t)' = {}
  <3>1. Uses(t)' = {}
    BY <1>3 DEF Uses
  <3>2. Builds(t)' = {}
    BY <1>3 DEF Builds
  <3>3. DOMAIN NoMethod.args = {}
    BY DEF NoMethod, Method
  <3>4. MutArgs(meth[t], arg[t])' = {}
    BY <1>3, <3>3 DEF MutArgs
  <3> QED
    BY <1>3, <3>1, <3>2, <3>4 DEF Exclusive, Closing
<2> QED
  BY <2>1, <2>2
<1>5. \A o \in Objs, b \in Boxes : Owns(o, b)' <=> Owns(o, b)
  BY <1>3, <1>4 DEF Owns, Dangling
<1>6. \A u \in Threads, b \in Boxes : InHand(u, b)' <=> InHand(u, b)
  BY <1>3 DEF InHand
<1>7. ResultsOK'
  BY <1>0, <1>3, <1>4 DEF ResultsOK, Results1, Returning
<1>8. ArgsOK'
  BY <1>0, <1>3, <1>4 DEF ArgsOK, InMethod
<1>9. Disciplined'
  BY <1>0, <1>4 DEF Disciplined
<1>10. PointersOK'
  BY <1>0, <1>5 DEF PointersOK
<1>11. HandsOK'
  BY <1>0, <1>3 DEF HandsOK, OutClass
<1>12. RefsOK'
  <2> SUFFICES ASSUME NEW u \in Threads, NEW q \in refs'[u]
               PROVE  q[1] \in Uses(u)' /\ Owns(q[1], q[2])'
    BY DEF RefsOK
  <2>1. u # t /\ q \in refs[u]
    BY <1>3
  <2> QED
    BY <1>0, <1>4, <1>5, <2>1, RefTypes DEF RefsOK
<1>13. ClosingOK'
  BY <1>0, <1>3 DEF ClosingOK, Closing
<1>14. GuardStillHolds'
  BY <1>0, <1>3 DEF GuardStillHolds
<1>15. OneOwner'
  BY <1>0, <1>5, <1>6 DEF OneOwner, Owned
<1> QED
  BY <1>1, <1>2, <1>7, <1>8, <1>9, <1>10, <1>11, <1>12, <1>13, <1>14, <1>15 DEF IInv

------------------------------------------------------------------------------
(* The steps that return before anything was created. *)
LEMMA ReturnSteps ==
  ASSUME IInv, NEW t \in Threads,
         \/ GuardRejects(t) \/ GuardFreed(t) \/ ReadNull(t) \/ BodyPanics(t)
         \/ BodyFails(t) \/ BodyAnswers(t) \/ Pack(t) \/ LoadFails(t)
  PROVE  IInv'
<1>1. CASE GuardRejects(t)
  BY <1>1, ReturnStep DEF GuardRejects, Results
<1>2. CASE GuardFreed(t)
  <2>1. FreedException(meth[t]) \in Results
    BY DEF FreedException, Results
  <2> QED
    BY <1>2, <2>1, ReturnStep DEF GuardFreed
<1>3. CASE ReadNull(t)
  BY <1>3, ReturnStep DEF ReadNull, Reading, Results
<1>4. CASE BodyPanics(t)
  BY <1>4, ReturnStep DEF BodyPanics, Results
<1>5. CASE BodyFails(t)
  BY <1>5, ReturnStep DEF BodyFails, Computing, Results
<1>6. CASE BodyAnswers(t)
  BY <1>6, ReturnStep DEF BodyAnswers, Computing, Results
<1>7. CASE Pack(t)
  BY <1>7, ReturnStep DEF Pack, Results
<1>8. CASE LoadFails(t)
  BY <1>8, ReturnStep DEF LoadFails, Results
<1> QED
  BY <1>1, <1>2, <1>3, <1>4, <1>5, <1>6, <1>7, <1>8

(* A step of t inside native code that reads handles or starts to build the *)
(* results: it may only extend its references by owned boxes.               *)
LEMMA InsideStep ==
  ASSUME IInv, TypeOK', NEW t \in Threads, NEW l \in {"read", "alloc"},
         pc[t] \in {"guard", "read"}, pc' = [pc EXCEPT ![t] = l],
         UNCHANGED <<memory, meth, arg, reg, out>>,
         \A u \in Threads \ {t} : next'[u] = next[u] /\ refs'[u] = refs[u],
         Shape(t)', l = "alloc" => next'[t] = 1,
         \A q \in refs'[t] : q[1] \in Uses(t) /\ Owns(q[1], q[2]),
         l = "read" /\ meth[t].guard # 0 => ptr[arg[t][meth[t].guard]] # Null
  PROVE  IInv'
<1> USE DEF memory
<1>0. /\ TypeOK /\ Shapes /\ ResultsOK /\ ArgsOK /\ Disciplined /\ PointersOK
      /\ HandsOK /\ RefsOK /\ ClosingOK /\ GuardStillHolds /\ OneOwner
  BY DEF IInv
<1>1. pc'[t] = l /\ \A u \in Threads \ {t} : pc'[u] = pc[u]
  BY <1>0 DEF TypeOK
<1>2. Shapes'
  <2> SUFFICES ASSUME NEW u \in Threads \ {t} PROVE Shape(u)'
    BY DEF Shapes
  <2> QED
    BY <1>0, <1>1 DEF Shapes, Shape
<1>3. \A u \in Threads : Uses(u)' = Uses(u) /\ Builds(u)' = Builds(u)
                         /\ Exclusive(u)' = Exclusive(u)
  <2>1. \A u \in Threads \ {t} : Uses(u)' = Uses(u) /\ Builds(u)' = Builds(u)
                         /\ Exclusive(u)' = Exclusive(u)
    BY <1>1, SameUses
  <2>2. Uses(t)' = Uses(t) /\ Builds(t)' = Builds(t)
    BY DEF Uses, Builds
  <2>3. MutArgs(meth[t], arg[t])' = MutArgs(meth[t], arg[t])
    BY DEF MutArgs
  <2>4. Exclusive(t)' = Exclusive(t)
    BY <2>2, <2>3, <1>1 DEF Exclusive, Closing
  <2> QED
    BY <2>1, <2>2, <2>4
<1>4. \A o, b : Owns(o, b)' <=> Owns(o, b)
  BY <1>1, <1>3 DEF Owns, Dangling
<1>5. \A u \in Threads, b \in Boxes : InHand(u, b)' <=> InHand(u, b)
  BY <1>1 DEF InHand
<1>6. ResultsOK'
  <2>1. ASSUME NEW u \in Threads \ {t} PROVE Results1(u)'
    BY <1>0, <1>1 DEF ResultsOK, Results1
  <2>2. out[t] \in Seq(Objs) /\ DOMAIN out[t] \subseteq Nat \ {0}
    BY <1>0 DEF TypeOK
  <2>3. \A i \in DOMAIN out[t] : ~(l \in Returning /\ i < next'[t])
    BY <2>2 DEF Returning
  <2>4. Results1(t)'
    BY <1>0, <1>1, <2>3 DEF ResultsOK, Results1, Returning
  <2> QED
    BY <1>0, <1>3, <2>1, <2>4 DEF ResultsOK
<1>7. ArgsOK'
  BY <1>0, <1>1, <1>3 DEF ArgsOK, InMethod
<1>8. Disciplined'
  BY <1>0, <1>3 DEF Disciplined
<1>9. PointersOK'
  BY <1>0, <1>4 DEF PointersOK
<1>10. HandsOK'
  BY <1>0, <1>1 DEF HandsOK, OutClass
<1>11. RefsOK'
  <2> SUFFICES ASSUME NEW u \in Threads, NEW q \in refs'[u]
               PROVE  q[1] \in Uses(u)' /\ Owns(q[1], q[2])'
    BY DEF RefsOK
  <2> QED
    BY <1>0, <1>3, <1>4 DEF RefsOK
<1>12. ClosingOK'
  BY <1>0, <1>1 DEF ClosingOK, Closing
<1>13. GuardStillHolds'
  BY <1>0, <1>1 DEF GuardStillHolds
<1>14. OneOwner'
  BY <1>0, <1>4, <1>5 DEF OneOwner, Owned
<1> QED
  BY <1>2, <1>6, <1>7, <1>8, <1>9, <1>10, <1>11, <1>12, <1>13, <1>14 DEF IInv

LEMMA InsideSteps ==
  ASSUME IInv, NEW t \in Threads,
         GuardPasses(t) \/ ReadArg(t) \/ ReadAbsent(t) \/ BodyComputes(t)
  PROVE  IInv'
<1>0. TypeOK /\ Shape(t) /\ RefsOK /\ GuardStillHolds /\ ArgsOK /\ Disciplined
  BY DEF IInv, Shapes
<1>1. CASE GuardPasses(t)
  <2> USE <1>1 DEF GuardPasses, Goto
  <2>1. TypeOK'
    BY <1>0 DEF TypeOK, Labels, memory
  <2>2. Shape(t)'
    BY <1>0 DEF TypeOK, Shape, InMethod, Closing
  <2> QED
    BY <1>0, <2>1, <2>2, InsideStep DEF RefsOK
<1>2. CASE ReadArg(t)
  <2> DEFINE o == arg[t][next[t]]
  <2> USE <1>2 DEF ReadArg, Reading
  <2>1. o \in Objs /\ o \in Uses(t) /\ ptr[o] \in Boxes
    BY <1>0 DEF TypeOK, Uses
  <2>2. TypeOK'
    BY <1>0, <2>1 DEF TypeOK, memory
  <2>3. Shape(t)'
    BY <1>0 DEF TypeOK, Shape, InMethod, Closing
  <2>4. Owns(o, ptr[o])
    <3>1. \A u \in Threads \ {t} : pc[u] = "zero" => o \notin Uses(u)
      BY <1>0, <2>1 DEF Disciplined, Exclusive, Closing
    <3> QED
      BY <1>0, <3>1 DEF Owns, Dangling, ArgsOK
  <2>5. \A q \in refs'[t] : q[1] \in Uses(t) /\ Owns(q[1], q[2])
    BY <1>0, <2>1, <2>4 DEF RefsOK, TypeOK
  <2>6. pc' = [pc EXCEPT ![t] = "read"]
    BY <1>0 DEF TypeOK
  <2>7. \A u \in Threads \ {t} : next'[u] = next[u] /\ refs'[u] = refs[u]
    BY <1>0 DEF TypeOK
  <2>8. UNCHANGED <<memory, meth, arg, reg, out>>
    OBVIOUS
  <2> QED
    BY <1>0, <2>2, <2>3, <2>5, <2>6, <2>7, <2>8, InsideStep DEF GuardStillHolds
<1>3. CASE ReadAbsent(t)
  <2> USE <1>3 DEF ReadAbsent, Reading
  <2>1. TypeOK'
    BY <1>0 DEF TypeOK, memory
  <2>2. Shape(t)'
    BY <1>0 DEF TypeOK, Shape, InMethod, Closing
  <2>3. pc' = [pc EXCEPT ![t] = "read"]
    BY <1>0 DEF TypeOK
  <2>4. \A u \in Threads \ {t} : next'[u] = next[u]
    BY <1>0 DEF TypeOK
  <2> QED
    BY <1>0, <2>1, <2>2, <2>3, <2>4, InsideStep DEF GuardStillHolds, RefsOK
<1>4. CASE BodyComputes(t)
  <2> USE <1>4 DEF BodyComputes, Computing, Goto
  <2>1. TypeOK'
    BY <1>0 DEF TypeOK, Labels, memory
  <2>2. Shape(t)'
    <3>1. out[t] \in Seq(Objs) /\ Len(out[t]) = Len(meth[t].out) /\ meth[t] \in Methods
      BY <1>0 DEF TypeOK, Shape, InMethod
    <3>2. Len(out[t]) \in Nat \ {0}
      BY <3>1, MethodFacts
    <3> QED
      BY <1>0, <3>2 DEF TypeOK, Shape, InMethod, Closing
  <2>3. /\ \A u \in Threads \ {t} : next'[u] = next[u] /\ refs'[u] = refs[u]
        /\ next'[t] = 1
        /\ refs'[t] = {}
    BY <1>0 DEF TypeOK
  <2> QED
    BY <2>1, <2>2, <2>3, InsideStep
<1> QED
  BY <1>1, <1>2, <1>3, <1>4

------------------------------------------------------------------------------
(* A call begins: the discipline is what MayUse checks. *)
LEMMA CallStep ==
  ASSUME IInv, NEW t \in Threads, NEW m \in Methods,
         NEW a \in Tuples(Len(m.args)), NEW res \in Tuples(Len(m.out)), Call(t, m, a, res)
  PROVE  IInv'
<1> USE DEF memory
<1>0. /\ TypeOK /\ Shapes /\ ResultsOK /\ ArgsOK /\ Disciplined /\ PointersOK
      /\ HandsOK /\ RefsOK /\ ClosingOK /\ GuardStillHolds /\ OneOwner
  BY DEF IInv
<1>1. /\ a \in Seq(Objs) /\ Len(a) = Len(m.args) /\ DOMAIN a = DOMAIN m.args
      /\ res \in Seq(Objs) /\ Len(res) = Len(m.out) /\ DOMAIN res = DOMAIN m.out
  <2>1. ASSUME NEW n \in Nat, NEW f \in [1..n -> Objs]
        PROVE  f \in Seq(Objs) /\ Len(f) = n /\ DOMAIN f = 1..n
    OBVIOUS
  <2>2. /\ Len(m.args) \in Nat /\ DOMAIN m.args = 1..Len(m.args)
        /\ Len(m.out) \in Nat /\ DOMAIN m.out = 1..Len(m.out)
    BY MethodFacts
  <2>3. a \in [1..Len(m.args) -> Objs] /\ res \in [1..Len(m.out) -> Objs]
    BY DEF Tuples
  <2>4. a \in Seq(Objs) /\ Len(a) = Len(m.args) /\ DOMAIN a = 1..Len(m.args)
    BY <2>1, <2>2, <2>3
  <2>5. res \in Seq(Objs) /\ Len(res) = Len(m.out) /\ DOMAIN res = 1..Len(m.out)
    BY <2>1, <2>2, <2>3
  <2> QED
    BY <2>2, <2>4, <2>5
<1>2. /\ pc[t] = "java" /\ pc'[t] = "guard" /\ meth'[t] = m /\ arg'[t] = a /\ out'[t] = res
      /\ \A u \in Threads \ {t} : /\ pc'[u] = pc[u] /\ meth'[u] = meth[u]
                                  /\ arg'[u] = arg[u] /\ out'[u] = out[u]
      /\ UNCHANGED <<memory, next, refs, reg>>
  BY <1>0 DEF TypeOK, Call, Goto
<1>3. TypeOK'
  BY <1>0, <1>1 DEF TypeOK, Call, Goto, Labels, Results
<1>4. Shapes'
  <2> SUFFICES ASSUME NEW u \in Threads PROVE Shape(u)'
    BY DEF Shapes
  <2>1. CASE u = t
    BY <1>0, <1>1, <1>2, <2>1 DEF Shapes, Shape, InMethod, Closing
  <2>2. CASE u # t
    BY <1>0, <1>2, <2>2 DEF Shapes, Shape
  <2> QED
    BY <2>1, <2>2
<1>5. \A u \in Threads \ {t} : Uses(u)' = Uses(u) /\ Builds(u)' = Builds(u)
                              /\ Exclusive(u)' = Exclusive(u)
  BY <1>2, SameUses
<1>6. /\ Uses(t)' = {a[i] : i \in DOMAIN a}
      /\ Builds(t)' = {res[i] : i \in DOMAIN res}
      /\ Exclusive(t)' = MutArgs(m, a)
  <2>1. Uses(t)' = {a[i] : i \in DOMAIN a}
    BY <1>2 DEF Uses
  <2>2. Builds(t)' = {res[i] : i \in DOMAIN res}
    BY <1>2 DEF Builds
  <2>3. MutArgs(meth[t], arg[t])' = MutArgs(m, a)
    BY <1>2 DEF MutArgs
  <2> QED
    BY <1>2, <2>1, <2>2, <2>3 DEF Exclusive, Closing
<1>7. \A o, b : Owns(o, b)' <=> Owns(o, b)
  BY <1>2, <1>5 DEF Owns, Dangling
<1>8. \A u \in Threads, b \in Boxes : InHand(u, b)' <=> InHand(u, b)
  BY <1>2 DEF InHand
<1>9. \A i \in DOMAIN res : class[res[i]] = "none" /\ \A u \in Threads : res[i] \notin Builds(u)
  BY <1>1 DEF Call, Unborn
<1>10. ResultsOK'
  <2>1. ASSUME NEW u \in Threads \ {t} PROVE Results1(u)'
    BY <1>0, <1>2 DEF ResultsOK, Results1
  <2>2. Results1(t)'
    BY <1>1, <1>2, <1>9 DEF Call, Results1, Returning
  <2>3. \A u \in Threads \ {t} : Builds(t)' \cap Builds(u)' = {}
    BY <1>5, <1>6, <1>9
  <2> QED
    BY <1>0, <1>5, <2>1, <2>2, <2>3 DEF ResultsOK
<1>11. ArgsOK'
  <2>1. \A u \in Threads : \A i \in DOMAIN arg'[u] : class[arg'[u][i]] # "none"
    BY <1>0, <1>1, <1>2 DEF ArgsOK, Call, Admissible, Known
  <2>2. \A u \in Threads : \A i \in DOMAIN arg'[u] :
          pc'[u] \in InMethod => class[arg'[u][i]] = meth'[u].args[i].class
    <3>1. \A i \in DOMAIN a : class[a[i]] = m.args[i].class
      BY <1>1 DEF Call, Admissible
    <3>2. \A i \in DOMAIN arg'[t] : class[arg'[t][i]] = meth'[t].args[i].class
      BY <1>2, <3>1
    <3>3. ASSUME NEW u \in Threads \ {t}, NEW i \in DOMAIN arg'[u], pc'[u] \in InMethod
          PROVE  class[arg'[u][i]] = meth'[u].args[i].class
      BY <1>0, <1>2, <3>3 DEF ArgsOK
    <3> QED
      BY <3>2, <3>3
  <2>3. \A u \in Threads : \A i \in DOMAIN arg'[u] : \A v \in Threads :
          arg'[u][i] \notin Builds(v)
    BY <1>0, <1>1, <1>2 DEF ArgsOK, Call, Admissible, Known
  <2>4. \A u \in Threads : \A i \in DOMAIN arg'[u] : \A v \in Threads :
          arg'[u][i] \notin Builds(v)'
    BY <1>5, <1>6, <1>9, <2>1, <2>3
  <2> QED
    BY <1>2, <2>1, <2>2, <2>4 DEF ArgsOK
<1>12. Disciplined'
  <2>1. \A u \in Threads \ {t} : /\ MutArgs(m, a) \cap Uses(u) = {}
                                /\ {a[i] : i \in DOMAIN a} \cap Exclusive(u) = {}
    BY DEF Call, MayUse
  <2> QED
    BY <1>0, <1>5, <1>6, <2>1 DEF Disciplined
<1>13. PointersOK'
  BY <1>0, <1>2, <1>7 DEF PointersOK
<1>14. HandsOK' /\ ClosingOK'
  BY <1>0, <1>2 DEF HandsOK, OutClass, ClosingOK, Closing
<1>15. RefsOK'
  <2> SUFFICES ASSUME NEW u \in Threads, NEW q \in refs'[u]
               PROVE  q[1] \in Uses(u)' /\ Owns(q[1], q[2])'
    BY DEF RefsOK
  <2>1. u # t /\ q \in refs[u]
    BY <1>0, <1>2 DEF Shapes, Shape
  <2> QED
    BY <1>0, <1>5, <1>7, <2>1 DEF RefsOK
<1>16. GuardStillHolds'
  BY <1>0, <1>2 DEF GuardStillHolds
<1>17. OneOwner'
  BY <1>0, <1>2, <1>7, <1>8 DEF OneOwner, Owned
<1> QED
  BY <1>3, <1>4, <1>10, <1>11, <1>12, <1>13, <1>14, <1>15, <1>16, <1>17 DEF IInv

(* A close begins. *)
LEMMA CloseStep ==
  ASSUME IInv, NEW t \in Threads, NEW o \in Objs, Close(t, o)
  PROVE  IInv'
<1> USE DEF memory
<1>0. /\ TypeOK /\ Shapes /\ ResultsOK /\ ArgsOK /\ Disciplined /\ PointersOK
      /\ HandsOK /\ RefsOK /\ ClosingOK /\ GuardStillHolds /\ OneOwner
  BY DEF IInv
<1>1. /\ pc[t] = "java" /\ pc'[t] = "load" /\ arg'[t] = <<o>> /\ ptr[o] # Null
      /\ \A u \in Threads \ {t} : pc'[u] = pc[u] /\ arg'[u] = arg[u]
      /\ UNCHANGED <<memory, meth, next, refs, reg, out>>
  BY <1>0 DEF TypeOK, Close, Goto
<1>2. TypeOK'
  BY <1>0 DEF TypeOK, Close, Goto, Labels, Results
<1>3. Shapes'
  <2> SUFFICES ASSUME NEW u \in Threads PROVE Shape(u)'
    BY DEF Shapes
  <2>1. CASE u = t
    BY <1>0, <1>1, <2>1 DEF Shapes, Shape, InMethod, Closing
  <2>2. CASE u # t
    BY <1>0, <1>1, <2>2 DEF Shapes, Shape
  <2> QED
    BY <2>1, <2>2
<1>4. \A u \in Threads \ {t} : Uses(u)' = Uses(u) /\ Exclusive(u)' = Exclusive(u)
  BY <1>1, SameUses
<1>5. Uses(t)' = {o} /\ Exclusive(t)' = {o}
  <2>1. Uses(t)' = {o}
    BY <1>1 DEF Uses
  <2> QED
    BY <1>1, <2>1 DEF Exclusive, Closing
<1>6. \A u \in Threads : Builds(u)' = Builds(u)
  BY <1>1 DEF Builds
<1>7. \A p, b : Owns(p, b)' <=> Owns(p, b)
  BY <1>1, <1>4 DEF Owns, Dangling
<1>8. \A u \in Threads, b \in Boxes : InHand(u, b)' <=> InHand(u, b)
  BY <1>1 DEF InHand
<1>9. ResultsOK'
  <2>1. out[t] = <<>>
    BY <1>0, <1>1 DEF Shapes, Shape
  <2>2. ASSUME NEW u \in Threads PROVE Results1(u)'
    BY <1>0, <1>1, <2>1 DEF ResultsOK, Results1
  <2> QED
    BY <1>0, <1>6, <2>2 DEF ResultsOK
<1>10. ArgsOK'
  BY <1>0, <1>1, <1>6 DEF ArgsOK, Close, Known, InMethod
<1>11. Disciplined'
  BY <1>0, <1>4, <1>5 DEF Disciplined, Close, MayUse
<1>12. PointersOK'
  BY <1>0, <1>1, <1>7 DEF PointersOK
<1>13. HandsOK' /\ ClosingOK'
  BY <1>0, <1>1 DEF HandsOK, OutClass, ClosingOK, Closing
<1>14. RefsOK'
  <2> SUFFICES ASSUME NEW u \in Threads, NEW q \in refs'[u]
               PROVE  q[1] \in Uses(u)' /\ Owns(q[1], q[2])'
    BY DEF RefsOK
  <2>1. u # t /\ q \in refs[u]
    BY <1>0, <1>1 DEF Shapes, Shape
  <2> QED
    BY <1>0, <1>4, <1>7, <2>1 DEF RefsOK
<1>15. GuardStillHolds'
  BY <1>0, <1>1 DEF GuardStillHolds
<1>16. OneOwner'
  BY <1>0, <1>1, <1>7, <1>8 DEF OneOwner, Owned
<1> QED
  BY <1>2, <1>3, <1>9, <1>10, <1>11, <1>12, <1>13, <1>14, <1>15, <1>16 DEF IInv

------------------------------------------------------------------------------
(* Results: the object being built does not exist yet and is in no call. *)
LEMMA OutFacts ==
  ASSUME IInv, NEW t \in Threads, pc[t] \in {"alloc", "wrap"}
  PROVE  /\ OutClass(t) \in Classes
         /\ next[t] \in DOMAIN out[t]
         /\ DOMAIN out[t] = 1..Len(out[t])
         /\ Len(out[t]) \in Nat
         /\ out[t][next[t]] \in Objs
         /\ class[out[t][next[t]]] = "none"
         /\ \A u \in Threads : out[t][next[t]] \notin Uses(u)
<1>1. TypeOK /\ Shape(t) /\ Results1(t) /\ ArgsOK
  BY DEF IInv, Shapes, ResultsOK
<1>2. out[t] \in Seq(Objs) /\ meth[t] \in Methods /\ Len(out[t]) = Len(meth[t].out)
  BY <1>1 DEF TypeOK, Shape, InMethod
<1>3. next[t] \in 1..Len(out[t])
  BY <1>1 DEF Shape
<1>4. DOMAIN out[t] = 1..Len(out[t]) /\ Len(out[t]) \in Nat
  BY <1>2
<1>5. out[t][next[t]] \in Objs
  BY <1>2, <1>3, <1>4
<1>6. OutClass(t) \in Classes
  BY <1>2, <1>3, MethodFacts DEF OutClass
<1>7. class[out[t][next[t]]] = "none"
  BY <1>1, <1>3, <1>4 DEF Results1
<1>8. \A u \in Threads : out[t][next[t]] \notin Uses(u)
  BY <1>1, <1>7 DEF ArgsOK, Uses
<1> QED
  BY <1>3, <1>4, <1>5, <1>6, <1>7, <1>8

LEMMA AllocStep ==
  ASSUME IInv, NEW t \in Threads, Alloc(t)
  PROVE  IInv'
<1> USE DEF memory
<1>0. /\ TypeOK /\ Shapes /\ ResultsOK /\ ArgsOK /\ Disciplined /\ PointersOK
      /\ HandsOK /\ RefsOK /\ ClosingOK /\ GuardStillHolds /\ OneOwner
  BY DEF IInv
<1>1. PICK b \in Boxes : /\ heap[b] = "free"
                         /\ heap' = [heap EXCEPT ![b] = RustType(OutClass(t))]
                         /\ reg' = [reg EXCEPT ![t] = b]
  BY DEF Alloc
<1>2. /\ pc[t] = "alloc" /\ pc'[t] = "wrap" /\ reg'[t] = b
      /\ \A u \in Threads \ {t} : pc'[u] = pc[u] /\ reg'[u] = reg[u]
      /\ UNCHANGED <<class, ptr, lost, meth, arg, next, refs, out>>
  BY <1>0, <1>1 DEF TypeOK, Alloc, Goto
<1>3. OutClass(t) \in Classes /\ RustType(OutClass(t)) \in Types
      /\ RustType(OutClass(t)) # "free"
  BY <1>2, OutFacts, ClassFacts
<1>4. /\ heap'[b] = RustType(OutClass(t))
      /\ \A c \in Boxes \ {b} : heap'[c] = heap[c]
  BY <1>0, <1>1 DEF TypeOK
<1>5. TypeOK'
  BY <1>0, <1>1, <1>3 DEF TypeOK, Alloc, Goto, Labels
<1>6. Shapes'
  <2> SUFFICES ASSUME NEW u \in Threads PROVE Shape(u)'
    BY DEF Shapes
  <2>1. CASE u = t
    BY <1>0, <1>1, <1>2, <2>1 DEF Shapes, Shape, InMethod, Closing
  <2>2. CASE u # t
    BY <1>0, <1>1, <1>2, <2>2 DEF Shapes, Shape
  <2> QED
    BY <2>1, <2>2
<1>7. \A u \in Threads : Uses(u)' = Uses(u) /\ Builds(u)' = Builds(u)
                         /\ Exclusive(u)' = Exclusive(u)
  <2>1. \A u \in Threads \ {t} : Uses(u)' = Uses(u) /\ Builds(u)' = Builds(u)
                         /\ Exclusive(u)' = Exclusive(u)
    BY <1>2, SameUses
  <2>2. Uses(t)' = Uses(t) /\ Builds(t)' = Builds(t)
    BY <1>2 DEF Uses, Builds
  <2>3. MutArgs(meth[t], arg[t])' = MutArgs(meth[t], arg[t])
    BY <1>2 DEF MutArgs
  <2>4. Exclusive(t)' = Exclusive(t)
    BY <2>2, <2>3, <1>2 DEF Exclusive, Closing
  <2> QED
    BY <2>1, <2>2, <2>4
<1>8. \A o, c : Owns(o, c)' <=> Owns(o, c)
  BY <1>2, <1>7 DEF Owns, Dangling
<1>9. \A u \in Threads, c \in Boxes : InHand(u, c)' <=> InHand(u, c) \/ (u = t /\ c = b)
  BY <1>2 DEF InHand
<1>10. b \notin lost /\ ~Owned(b)
  BY <1>0, <1>1 DEF OneOwner
<1>11. ResultsOK'
  <2>1. \A u \in Threads : Results1(u)'
    BY <1>0, <1>2 DEF ResultsOK, Results1, Returning
  <2> QED
    BY <1>0, <1>7, <2>1 DEF ResultsOK
<1>12. ArgsOK' /\ Disciplined'
  BY <1>0, <1>2, <1>7 DEF ArgsOK, InMethod, Disciplined
<1>13. PointersOK'
  BY <1>0, <1>2, <1>4, <1>8, <1>10 DEF PointersOK, Owned
<1>14. HandsOK'
  <2> SUFFICES ASSUME NEW u \in Threads, pc'[u] = "wrap"
               PROVE  heap'[reg'[u]] = RustType(OutClass(u))'
    BY DEF HandsOK
  <2>1. CASE u = t
    BY <1>2, <1>4, <2>1 DEF OutClass
  <2>2. CASE u # t
    <3>1. pc[u] = "wrap" /\ reg[u] \in Boxes
      BY <1>0, <1>2, <2>2 DEF Shapes, Shape
    <3>2. reg[u] # b
      BY <1>10, <3>1 DEF Owned, InHand
    <3> QED
      BY <1>0, <1>2, <1>4, <2>2, <3>1, <3>2 DEF HandsOK, OutClass
  <2> QED
    BY <2>1, <2>2
<1>15. RefsOK'
  BY <1>0, <1>2, <1>7, <1>8 DEF RefsOK
<1>16. ClosingOK' /\ GuardStillHolds'
  BY <1>0, <1>2 DEF ClosingOK, GuardStillHolds, Closing
<1>17. OneOwner'
  BY <1>0, <1>2, <1>3, <1>4, <1>8, <1>9, <1>10 DEF OneOwner, Owned
<1> QED
  BY <1>5, <1>6, <1>11, <1>12, <1>13, <1>14, <1>15, <1>16, <1>17 DEF IInv

(* The box in hand goes to the object being built. *)
LEMMA WrapStep ==
  ASSUME IInv, TypeOK', NEW t \in Threads,
         pc[t] = "wrap", WrapInto(t, out[t][next[t]]), Shape(t)',
         \A u \in Threads \ {t} : /\ pc'[u] = pc[u] /\ meth'[u] = meth[u] /\ arg'[u] = arg[u]
                                 /\ next'[u] = next[u] /\ refs'[u] = refs[u]
                                 /\ reg'[u] = reg[u] /\ out'[u] = out[u],
         \/ /\ pc'[t] \in {"alloc", "pack"} /\ next'[t] = next[t] + 1
            /\ meth'[t] = meth[t] /\ arg'[t] = arg[t] /\ out'[t] = out[t]
         \/ pc'[t] = "java"
  PROVE  IInv'
<1>0. /\ TypeOK /\ Shapes /\ ResultsOK /\ ArgsOK /\ Disciplined /\ PointersOK
      /\ HandsOK /\ RefsOK /\ ClosingOK /\ GuardStillHolds /\ OneOwner
  BY DEF IInv
<1> DEFINE o == out[t][next[t]]
<1>1. /\ OutClass(t) \in Classes /\ OutClass(t) # "none"
      /\ next[t] \in 1..Len(out[t]) /\ DOMAIN out[t] = 1..Len(out[t]) /\ Len(out[t]) \in Nat
      /\ o \in Objs /\ o \in Builds(t)
      /\ class[o] = "none" /\ \A u \in Threads : o \notin Uses(u)
  BY OutFacts, ClassFacts DEF Builds
<1>2. reg[t] \in Boxes /\ reg[t] # Null /\ heap[reg[t]] = RustType(OutClass(t)) /\ refs[t] = {}
  BY <1>0, HandlesAssumption DEF Shapes, Shape, HandsOK
<1>3. /\ class'[o] = OutClass(t) /\ ptr'[o] = reg[t]
      /\ \A p \in Objs \ {o} : class'[p] = class[p] /\ ptr'[p] = ptr[p]
      /\ heap' = heap /\ lost' = lost
  BY <1>0, <1>1 DEF WrapInto, TypeOK
<1>4. Shapes'
  <2> SUFFICES ASSUME NEW u \in Threads \ {t} PROVE Shape(u)'
    BY DEF Shapes
  <2> QED
    BY <1>0 DEF Shapes, Shape
<1>5. \A u \in Threads \ {t} : Uses(u)' = Uses(u) /\ Builds(u)' = Builds(u)
                              /\ Exclusive(u)' = Exclusive(u)
  BY SameUses
<1>6. /\ Uses(t)' \subseteq Uses(t) /\ Builds(t)' \subseteq Builds(t)
      /\ Exclusive(t)' \subseteq Exclusive(t)
  <2>1. CASE pc'[t] = "java"
    <3>1. arg'[t] = <<>> /\ out'[t] = <<>> /\ meth'[t] = NoMethod
      BY <2>1 DEF Shape
    <3>2. Uses(t)' = {} /\ Builds(t)' = {}
      BY <3>1 DEF Uses, Builds
    <3>3. DOMAIN NoMethod.args = {}
      BY DEF NoMethod, Method
    <3>4. MutArgs(meth[t], arg[t])' = {}
      BY <3>1, <3>3 DEF MutArgs
    <3> QED
      BY <2>1, <3>2, <3>4 DEF Exclusive, Closing
  <2>2. CASE pc'[t] # "java"
    <3>1. meth'[t] = meth[t] /\ arg'[t] = arg[t] /\ out'[t] = out[t]
      BY <2>2
    <3>2. Uses(t)' = Uses(t) /\ Builds(t)' = Builds(t)
      BY <3>1 DEF Uses, Builds
    <3>3. MutArgs(meth[t], arg[t])' = MutArgs(meth[t], arg[t])
      BY <3>1 DEF MutArgs
    <3> QED
      BY <2>2, <3>2, <3>3 DEF Exclusive, Closing
  <2> QED
    BY <2>1, <2>2
<1>7. \A p \in Objs, b \in Boxes : Owns(p, b)' <=> Owns(p, b) \/ (p = o /\ b = reg[t])
  <2>1. \A p \in Objs : Dangling(p)' <=> Dangling(p)
    BY <1>5 DEF Dangling
  <2>2. ~Dangling(o)
    BY <1>1 DEF Dangling
  <2> QED
    BY <1>1, <1>3, <2>1, <2>2 DEF Owns
<1>8. \A u \in Threads, b \in Boxes : InHand(u, b)' <=> InHand(u, b) /\ u # t
  BY DEF InHand
<1>9. InHand(t, reg[t]) /\ \A b \in Boxes : InHand(t, b) => b = reg[t]
  BY DEF InHand
<1>10. \A p \in Objs : ~Owns(p, reg[t])
  BY <1>0, <1>2, <1>9 DEF OneOwner
<1>11. ResultsOK'
  <2>1. ASSUME NEW u \in Threads \ {t} PROVE Results1(u)'
    <3>1. \A i \in DOMAIN out[u] : out[u][i] \in Objs /\ out[u][i] \in Builds(u)
      BY <1>0 DEF TypeOK, Builds
    <3>2. \A i \in DOMAIN out[u] : out[u][i] # o
      BY <1>0, <1>1, <3>1 DEF ResultsOK
    <3> QED
      BY <1>0, <1>3, <3>1, <3>2 DEF ResultsOK, Results1
  <2>2. Results1(t)'
    <3>1. CASE pc'[t] = "java"
      BY <3>1 DEF Shape, Results1
    <3>2. CASE pc'[t] # "java"
      <4>1. /\ \A i \in DOMAIN out[t] : out[t][i] \in Objs
            /\ \A i, j \in DOMAIN out[t] : out[t][i] = out[t][j] => i = j
            /\ DOMAIN out[t] = 1..Len(out[t])
        <5>1. out[t] \in Seq(Objs) /\ Results1(t)
          BY <1>0 DEF TypeOK, ResultsOK
        <5>2. \A i \in DOMAIN out[t] : out[t][i] \in Objs
          BY <5>1
        <5> QED
          BY <1>1, <5>1, <5>2 DEF Results1
      <4>2. \A i \in DOMAIN out[t] :
              IF i < next[t] + 1 THEN class'[out[t][i]] = meth[t].out[i] /\ ptr'[out[t][i]] # Null
              ELSE class'[out[t][i]] = "none"
        <5> SUFFICES ASSUME NEW i \in DOMAIN out[t]
                     PROVE IF i < next[t] + 1
                           THEN class'[out[t][i]] = meth[t].out[i] /\ ptr'[out[t][i]] # Null
                           ELSE class'[out[t][i]] = "none"
          OBVIOUS
        <5>1. CASE i = next[t]
          BY <1>1, <1>2, <1>3, <5>1 DEF OutClass
        <5>2. CASE i # next[t]
          <6>1. out[t][i] # o /\ out[t][i] \in Objs
            BY <1>1, <4>1, <5>2
          <6>2. i < next[t] + 1 <=> i < next[t]
            BY <1>1, <4>1, <5>2
          <6>3. IF i < next[t] THEN class[out[t][i]] = meth[t].out[i] /\ ptr[out[t][i]] # Null
                ELSE class[out[t][i]] = "none"
            BY <1>0 DEF ResultsOK, Results1, Returning
          <6> QED
            BY <1>3, <6>1, <6>2, <6>3
        <5> QED
          BY <5>1, <5>2
      <4> QED
        BY <3>2, <4>1, <4>2 DEF Results1, Returning
    <3> QED
      BY <3>1, <3>2
  <2> QED
    BY <1>0, <1>5, <1>6, <2>1, <2>2 DEF ResultsOK
<1>12. ArgsOK'
  <2> SUFFICES ASSUME NEW u \in Threads, NEW i \in DOMAIN arg'[u]
               PROVE  /\ class'[arg'[u][i]] # "none"
                      /\ pc'[u] \in InMethod => class'[arg'[u][i]] = meth'[u].args[i].class
                      /\ \A v \in Threads : arg'[u][i] \notin Builds(v)'
    BY DEF ArgsOK
  <2>1. arg'[u] = arg[u] /\ meth'[u] = meth[u] /\ (pc'[u] \in InMethod => pc[u] \in InMethod)
    BY DEF Shape, InMethod
  <2>2. arg[u][i] \in Objs /\ arg[u][i] \in Uses(u)
    BY <1>0, <2>1 DEF TypeOK, Uses
  <2> QED
    BY <1>0, <1>1, <1>3, <1>5, <1>6, <2>1, <2>2 DEF ArgsOK
<1>13. Disciplined'
  BY <1>0, <1>5, <1>6 DEF Disciplined
<1>14. PointersOK'
  BY <1>0, <1>1, <1>2, <1>3, <1>7 DEF PointersOK, Owns
<1>15. HandsOK'
  BY <1>0, <1>3 DEF HandsOK, OutClass
<1>16. RefsOK'
  <2> SUFFICES ASSUME NEW u \in Threads, NEW q \in refs'[u]
               PROVE  q[1] \in Uses(u)' /\ Owns(q[1], q[2])'
    BY DEF RefsOK
  <2>1. CASE u = t
    BY <2>1 DEF Shape
  <2>2. CASE u # t
    BY <1>0, <1>5, <1>7, <2>2, RefTypes DEF RefsOK
  <2> QED
    BY <2>1, <2>2
<1>17. ClosingOK'
  <2> SUFFICES ASSUME NEW u \in Threads, pc'[u] \in Closing
               PROVE  /\ ptr'[arg'[u][1]] # Null
                      /\ pc'[u] = "drop" => reg'[u] = ptr'[arg'[u][1]]
    BY DEF ClosingOK, Closing
  <2>1. u # t
    BY DEF Closing
  <2>2. arg[u][1] \in Objs /\ arg[u][1] \in Uses(u)
    BY <1>0, <2>1 DEF Shapes, Shape, TypeOK, Uses
  <2> QED
    BY <1>0, <1>1, <1>3, <2>1, <2>2 DEF ClosingOK
<1>18. GuardStillHolds'
  <2> SUFFICES ASSUME NEW u \in Threads, pc'[u] = "read", meth'[u].guard # 0
               PROVE  ptr'[arg'[u][meth'[u].guard]] # Null
    BY DEF GuardStillHolds
  <2>1. u # t
    OBVIOUS
  <2>2. arg[u] \in Seq(Objs) /\ meth[u].guard \in DOMAIN arg[u]
    <3>1. meth[u] \in Methods /\ Len(arg[u]) = Len(meth[u].args) /\ arg[u] \in Seq(Objs)
      BY <1>0, <2>1 DEF Shapes, Shape, InMethod, TypeOK
    <3> QED
      BY <2>1, <3>1, MethodFacts
  <2>3. arg[u][meth[u].guard] \in Objs /\ arg[u][meth[u].guard] \in Uses(u)
    BY <2>2 DEF Uses
  <2> QED
    BY <1>0, <1>1, <1>3, <2>1, <2>3 DEF GuardStillHolds
<1>19. OneOwner'
  BY <1>0, <1>1, <1>2, <1>3, <1>7, <1>8, <1>9, <1>10 DEF OneOwner, Owned
<1> QED
  BY <1>4, <1>11, <1>12, <1>13, <1>14, <1>15, <1>16, <1>17, <1>18, <1>19 DEF IInv

LEMMA WrapSteps ==
  ASSUME IInv, NEW t \in Threads, WrapMore(t) \/ WrapLast(t)
  PROVE  IInv'
<1>0. TypeOK /\ Shape(t)
  BY DEF IInv, Shapes
<1>1. PICK r \in {"none", "value"} :
        \/ WrapMore(t)
        \/ WrapLast(t) /\ meth[t].packs
        \/ WrapLast(t) /\ ~meth[t].packs /\ Return(t, "value")
  BY DEF WrapLast
<1>2. /\ pc[t] = "wrap" /\ WrapInto(t, out[t][next[t]])
      /\ reg[t] \in Boxes /\ refs[t] = {} /\ next[t] \in Nat
      /\ OutClass(t) \in Classes /\ out[t][next[t]] \in Objs
      /\ next[t] \in 1..Len(out[t]) /\ Len(out[t]) \in Nat
      /\ meth[t] \in Methods /\ Len(arg[t]) = Len(meth[t].args)
      /\ Len(out[t]) = Len(meth[t].out)
  BY <1>0, OutFacts DEF WrapMore, WrapLast, TypeOK, Shape, InMethod
<1>3. CASE WrapMore(t)
  <2> USE <1>3 DEF WrapMore, Goto
  <2>1. TypeOK'
    BY <1>0, <1>2 DEF TypeOK, WrapInto, Labels
  <2>2. Shape(t)'
    BY <1>0, <1>2 DEF TypeOK, Shape, InMethod, Closing
  <2>3. /\ \A u \in Threads \ {t} : /\ pc'[u] = pc[u] /\ meth'[u] = meth[u] /\ arg'[u] = arg[u]
                                  /\ next'[u] = next[u] /\ refs'[u] = refs[u]
                                  /\ reg'[u] = reg[u] /\ out'[u] = out[u]
        /\ pc'[t] = "alloc" /\ next'[t] = next[t] + 1
        /\ meth'[t] = meth[t] /\ arg'[t] = arg[t] /\ out'[t] = out[t]
    BY <1>0 DEF TypeOK
  <2> QED
    BY <1>2, <2>1, <2>2, <2>3, WrapStep
<1>4. CASE WrapLast(t) /\ meth[t].packs
  <2>0. /\ pc' = [pc EXCEPT ![t] = "pack"]
        /\ next' = [next EXCEPT ![t] = @ + 1]
        /\ reg' = [reg EXCEPT ![t] = Null]
        /\ UNCHANGED <<meth, arg, refs, out, result>>
    BY <1>4 DEF WrapLast, Goto
  <2> USE <2>0
  <2>1. TypeOK'
    BY <1>0, <1>2 DEF TypeOK, WrapInto, Labels
  <2>2. Shape(t)'
    BY <1>0, <1>2, <1>4 DEF WrapLast, TypeOK, Shape, InMethod, Closing
  <2>3. /\ \A u \in Threads \ {t} : /\ pc'[u] = pc[u] /\ meth'[u] = meth[u] /\ arg'[u] = arg[u]
                                  /\ next'[u] = next[u] /\ refs'[u] = refs[u]
                                  /\ reg'[u] = reg[u] /\ out'[u] = out[u]
        /\ pc'[t] = "pack" /\ next'[t] = next[t] + 1
        /\ meth'[t] = meth[t] /\ arg'[t] = arg[t] /\ out'[t] = out[t]
    BY <1>0 DEF TypeOK
  <2> QED
    BY <1>2, <2>1, <2>2, <2>3, WrapStep
<1>5. CASE WrapLast(t) /\ ~meth[t].packs /\ Return(t, "value")
  <2> USE <1>5 DEF Return, Goto
  <2>1. TypeOK'
    BY <1>0, <1>2 DEF TypeOK, WrapInto, Labels, Results
  <2>2. Shape(t)'
    BY <1>0, <1>2 DEF TypeOK, Shape, InMethod, Closing
  <2>3. /\ \A u \in Threads \ {t} : /\ pc'[u] = pc[u] /\ meth'[u] = meth[u] /\ arg'[u] = arg[u]
                                  /\ next'[u] = next[u] /\ refs'[u] = refs[u]
                                  /\ reg'[u] = reg[u] /\ out'[u] = out[u]
        /\ pc'[t] = "java"
    BY <1>0 DEF TypeOK
  <2> QED
    BY <1>2, <2>1, <2>2, <2>3, WrapStep
<1> QED
  BY <1>1, <1>3, <1>4, <1>5

------------------------------------------------------------------------------
(* Closing. *)
LEMMA LoadPointerStep ==
  ASSUME IInv, NEW t \in Threads, LoadPointer(t)
  PROVE  IInv'
<1> USE DEF memory
<1>0. /\ TypeOK /\ Shapes /\ ResultsOK /\ ArgsOK /\ Disciplined /\ PointersOK
      /\ HandsOK /\ RefsOK /\ ClosingOK /\ GuardStillHolds /\ OneOwner
  BY DEF IInv
<1>1. /\ pc[t] = "load" /\ pc'[t] = "drop" /\ reg'[t] = ptr[arg[t][1]]
      /\ \A u \in Threads \ {t} : pc'[u] = pc[u] /\ reg'[u] = reg[u]
      /\ UNCHANGED <<memory, meth, arg, next, refs, out>>
  BY <1>0 DEF TypeOK, LoadPointer, Goto
<1>2. arg[t][1] \in Objs /\ ptr[arg[t][1]] \in Boxes
  BY <1>0, <1>1 DEF Shapes, Shape, TypeOK, ClosingOK, Closing
<1>3. TypeOK'
  BY <1>0, <1>2 DEF TypeOK, LoadPointer, Goto, Labels
<1>4. Shapes'
  <2> SUFFICES ASSUME NEW u \in Threads PROVE Shape(u)'
    BY DEF Shapes
  <2>1. CASE u = t
    BY <1>0, <1>1, <2>1 DEF Shapes, Shape, InMethod, Closing
  <2>2. CASE u # t
    BY <1>0, <1>1, <2>2 DEF Shapes, Shape
  <2> QED
    BY <2>1, <2>2
<1>5. \A u \in Threads : Uses(u)' = Uses(u) /\ Builds(u)' = Builds(u)
                         /\ Exclusive(u)' = Exclusive(u)
  <2>1. \A u \in Threads \ {t} : Uses(u)' = Uses(u) /\ Builds(u)' = Builds(u)
                         /\ Exclusive(u)' = Exclusive(u)
    BY <1>1, SameUses
  <2>2. Uses(t)' = Uses(t) /\ Builds(t)' = Builds(t)
    BY <1>1 DEF Uses, Builds
  <2>3. Exclusive(t)' = Exclusive(t)
    BY <2>2, <1>1 DEF Exclusive, Closing
  <2> QED
    BY <2>1, <2>2, <2>3
<1>6. \A o, b : Owns(o, b)' <=> Owns(o, b)
  BY <1>1, <1>5 DEF Owns, Dangling
<1>7. \A u \in Threads, b \in Boxes : InHand(u, b)' <=> InHand(u, b)
  BY <1>1 DEF InHand
<1>8. ResultsOK'
  <2>1. \A u \in Threads : Results1(u)'
    BY <1>0, <1>1 DEF ResultsOK, Results1, Returning
  <2> QED
    BY <1>0, <1>5, <2>1 DEF ResultsOK
<1>9. ArgsOK' /\ Disciplined'
  BY <1>0, <1>1, <1>5 DEF ArgsOK, InMethod, Disciplined
<1>10. PointersOK'
  BY <1>0, <1>1, <1>6 DEF PointersOK
<1>11. HandsOK' /\ RefsOK'
  BY <1>0, <1>1, <1>5, <1>6 DEF HandsOK, OutClass, RefsOK
<1>12. ClosingOK' /\ GuardStillHolds'
  BY <1>0, <1>1 DEF ClosingOK, Closing, GuardStillHolds
<1>13. OneOwner'
  BY <1>0, <1>1, <1>6, <1>7 DEF OneOwner, Owned
<1> QED
  BY <1>3, <1>4, <1>8, <1>9, <1>10, <1>11, <1>12, <1>13 DEF IInv

LEMMA DropStep ==
  ASSUME IInv, NEW t \in Threads, Drop(t)
  PROVE  IInv'
<1> USE DEF memory
<1>0. /\ TypeOK /\ Shapes /\ ResultsOK /\ ArgsOK /\ Disciplined /\ PointersOK
      /\ HandsOK /\ RefsOK /\ ClosingOK /\ GuardStillHolds /\ OneOwner
  BY DEF IInv
<1> DEFINE o == arg[t][1]
           b == reg[t]
<1>1. /\ pc[t] = "drop" /\ pc'[t] = "zero"
      /\ \A u \in Threads \ {t} : pc'[u] = pc[u]
      /\ UNCHANGED <<class, ptr, lost, meth, arg, next, refs, reg, out>>
  BY <1>0 DEF TypeOK, Drop, Goto
<1>2. /\ o \in Objs /\ b \in Boxes /\ b = ptr[o] /\ Uses(t) = {o} /\ Exclusive(t) = {o}
      /\ b # Null
  <2>1. Len(arg[t]) = 1 /\ arg[t] \in Seq(Objs)
    BY <1>0, <1>1 DEF Shapes, Shape, TypeOK, Closing
  <2>2. DOMAIN arg[t] = {1}
    BY <2>1
  <2>3. Uses(t) = {o}
    BY <2>2 DEF Uses
  <2> QED
    BY <1>0, <1>1, <2>1, <2>2, <2>3 DEF TypeOK, ClosingOK, Closing, Exclusive
<1>3. heap'[b] = "free" /\ \A c \in Boxes \ {b} : heap'[c] = heap[c]
  BY <1>0, <1>2 DEF Drop, TypeOK
<1>4. TypeOK'
  BY <1>0, <1>2 DEF TypeOK, Drop, Goto, Labels
<1>5. Shapes'
  <2> SUFFICES ASSUME NEW u \in Threads PROVE Shape(u)'
    BY DEF Shapes
  <2>1. CASE u = t
    BY <1>0, <1>1, <2>1 DEF Shapes, Shape, InMethod, Closing
  <2>2. CASE u # t
    BY <1>0, <1>1, <2>2 DEF Shapes, Shape
  <2> QED
    BY <2>1, <2>2
<1>6. \A u \in Threads : Uses(u)' = Uses(u) /\ Builds(u)' = Builds(u)
                         /\ Exclusive(u)' = Exclusive(u)
  <2>1. \A u \in Threads \ {t} : Uses(u)' = Uses(u) /\ Builds(u)' = Builds(u)
                         /\ Exclusive(u)' = Exclusive(u)
    BY <1>1, SameUses
  <2>2. Uses(t)' = Uses(t) /\ Builds(t)' = Builds(t)
    BY <1>1 DEF Uses, Builds
  <2>3. Exclusive(t)' = Exclusive(t)
    BY <2>2, <1>1 DEF Exclusive, Closing
  <2> QED
    BY <2>1, <2>2, <2>3
<1>7. Owns(o, b)
  <2>1. class[o] # "none"
    BY <1>0, <1>1, <1>2 DEF ArgsOK, Shapes, Shape, TypeOK, Closing
  <2>2. \A u \in Threads : pc[u] = "zero" => o \notin Uses(u)
    BY <1>0, <1>1, <1>2 DEF Disciplined
  <2> QED
    BY <1>2, <2>1, <2>2 DEF Owns, Dangling
<1>8. \A p, c : Owns(p, c)' <=> Owns(p, c) /\ p # o
  <2>1. \A p : Dangling(p)' <=> Dangling(p) \/ p = o
    BY <1>1, <1>2, <1>6 DEF Dangling
  <2> QED
    BY <1>1, <2>1 DEF Owns
<1>9. \A u \in Threads, c \in Boxes : InHand(u, c)' <=> InHand(u, c)
  BY <1>1 DEF InHand
<1>10. /\ \A p \in Objs : Owns(p, b) => p = o
       /\ \A u \in Threads : ~InHand(u, b)
       /\ b \notin lost
  BY <1>0, <1>2, <1>7 DEF OneOwner, Owned
<1>11. ResultsOK'
  <2>1. \A u \in Threads : Results1(u)'
    BY <1>0, <1>1 DEF ResultsOK, Results1, Returning
  <2> QED
    BY <1>0, <1>6, <2>1 DEF ResultsOK
<1>12. ArgsOK' /\ Disciplined'
  BY <1>0, <1>1, <1>6 DEF ArgsOK, InMethod, Disciplined
<1>13. PointersOK'
  BY <1>0, <1>1, <1>3, <1>8, <1>10 DEF PointersOK
<1>14. HandsOK'
  <2> SUFFICES ASSUME NEW u \in Threads, pc[u] = "wrap"
               PROVE  heap'[reg[u]] = RustType(OutClass(u))
    BY <1>1 DEF HandsOK, OutClass
  <2>1. reg[u] \in Boxes /\ reg[u] # b
    BY <1>0, <1>10 DEF Shapes, Shape, InHand
  <2> QED
    BY <1>0, <1>3, <2>1 DEF HandsOK
<1>15. RefsOK'
  <2> SUFFICES ASSUME NEW u \in Threads, NEW q \in refs'[u]
               PROVE  q[1] \in Uses(u)' /\ Owns(q[1], q[2])'
    BY DEF RefsOK
  <2>1. q \in refs[u] /\ q[1] \in Uses(u) /\ Owns(q[1], q[2])
    BY <1>0, <1>1 DEF RefsOK
  <2>2. u # t
    BY <1>0, <1>1, <2>1 DEF Shapes, Shape
  <2>3. q[1] # o
    BY <1>0, <1>2, <2>1, <2>2 DEF Disciplined
  <2> QED
    BY <1>6, <1>8, <2>1, <2>3
<1>16. ClosingOK' /\ GuardStillHolds'
  BY <1>0, <1>1 DEF ClosingOK, Closing, GuardStillHolds
<1>17. OneOwner'
  <2>1. ASSUME NEW c \in Boxes PROVE Owned(c)' <=> Owned(c) /\ c # b
    <3>1. CASE c = b
      BY <1>8, <1>9, <1>10, <3>1 DEF Owned
    <3>2. CASE c # b
      <4>1. ~Owns(o, c)
        BY <1>2, <3>2 DEF Owns
      <4> QED
        BY <1>8, <1>9, <3>2, <4>1 DEF Owned
    <3> QED
      BY <3>1, <3>2
  <2> SUFFICES ASSUME NEW c \in Boxes
               PROVE  /\ Owned(c)' <=> heap'[c] # "free" /\ c \notin lost'
                      /\ c \in lost' => heap'[c] # "free"
    BY <1>0, <1>8, <1>9 DEF OneOwner
  <2> QED
    BY <1>0, <1>1, <1>3, <1>10, <2>1 DEF OneOwner
<1> QED
  BY <1>4, <1>5, <1>11, <1>12, <1>13, <1>14, <1>15, <1>16, <1>17 DEF IInv

LEMMA ZeroPointerStep ==
  ASSUME IInv, NEW t \in Threads, ZeroPointer(t)
  PROVE  IInv'
<1> USE DEF memory
<1>0. /\ TypeOK /\ Shapes /\ ResultsOK /\ ArgsOK /\ Disciplined /\ PointersOK
      /\ HandsOK /\ RefsOK /\ ClosingOK /\ GuardStillHolds /\ OneOwner
  BY DEF IInv
<1> DEFINE o == arg[t][1]
<1>1. /\ pc[t] = "zero" /\ \A u \in Threads \ {t} : /\ pc'[u] = pc[u] /\ meth'[u] = meth[u] /\ arg'[u] = arg[u]
                                  /\ next'[u] = next[u] /\ refs'[u] = refs[u]
                                  /\ reg'[u] = reg[u] /\ out'[u] = out[u]
      /\ pc'[t] = "java" /\ meth'[t] = NoMethod /\ arg'[t] = <<>> /\ next'[t] = 1
      /\ refs'[t] = {} /\ reg'[t] = Null /\ out'[t] = <<>>
      /\ UNCHANGED <<class, heap, lost>>
  BY <1>0 DEF TypeOK, ZeroPointer, Return, Goto
<1>2. o \in Objs /\ Uses(t) = {o} /\ Exclusive(t) = {o}
  <2>1. Len(arg[t]) = 1 /\ arg[t] \in Seq(Objs)
    BY <1>0, <1>1 DEF Shapes, Shape, TypeOK, Closing
  <2>2. DOMAIN arg[t] = {1}
    BY <2>1
  <2>3. Uses(t) = {o}
    BY <2>2 DEF Uses
  <2> QED
    BY <1>0, <1>1, <2>1, <2>2, <2>3 DEF Closing, Exclusive
<1>3. ptr'[o] = Null /\ \A p \in Objs \ {o} : ptr'[p] = ptr[p]
  BY <1>0, <1>2 DEF ZeroPointer, TypeOK
<1>4. TypeOK'
  <2>1. ptr' \in [Objs -> Boxes \cup {Null}]
    BY <1>0, <1>2 DEF TypeOK, ZeroPointer
  <2> QED
    BY <1>0, <1>1, <2>1 DEF TypeOK, ZeroPointer, Return, Goto, Labels, Results
<1>5. Shapes'
  <2> SUFFICES ASSUME NEW u \in Threads PROVE Shape(u)'
    BY DEF Shapes
  <2>1. CASE u = t
    BY <1>0, <1>1, <2>1 DEF Shapes, Shape, InMethod, Closing
  <2>2. CASE u # t
    BY <1>0, <1>1, <2>2 DEF Shapes, Shape
  <2> QED
    BY <2>1, <2>2
<1>6. /\ \A u \in Threads \ {t} : Uses(u)' = Uses(u) /\ Builds(u)' = Builds(u)
                                 /\ Exclusive(u)' = Exclusive(u)
      /\ Uses(t)' = {} /\ Builds(t)' = {} /\ Exclusive(t)' = {}
  <2>0. \A u \in Threads \ {t} : Uses(u)' = Uses(u) /\ Builds(u)' = Builds(u)
                                 /\ Exclusive(u)' = Exclusive(u)
    BY <1>1, SameUses
  <2>1. Uses(t)' = {}
    BY <1>1 DEF Uses
  <2>2. Builds(t)' = {}
    BY <1>1 DEF Builds
  <2>3. DOMAIN NoMethod.args = {}
    BY DEF NoMethod, Method
  <2>4. MutArgs(meth[t], arg[t])' = {}
    BY <1>1, <2>3 DEF MutArgs
  <2> QED
    BY <1>1, <2>0, <2>1, <2>2, <2>4 DEF Exclusive, Closing
<1>7. \A p \in Objs, b \in Boxes : Owns(p, b)' <=> Owns(p, b)
  <2>1. ASSUME NEW p \in Objs \ {o}, NEW b \in Boxes PROVE Owns(p, b)' <=> Owns(p, b)
    <3>1. Dangling(p)' <=> Dangling(p)
      BY <1>1, <1>2, <1>6 DEF Dangling
    <3> QED
      BY <1>1, <1>3, <3>1 DEF Owns
  <2>2. ASSUME NEW p \in {o}, NEW b \in Boxes PROVE ~Owns(p, b) /\ ~Owns(p, b)'
    <3>1. Dangling(p)
      BY <1>1, <1>2 DEF Dangling
    <3>2. ptr'[p] = Null /\ b # Null
      BY <1>3, HandlesAssumption
    <3> QED
      BY <3>1, <3>2 DEF Owns
  <2> QED
    BY <2>1, <2>2
<1>8. \A u \in Threads, b \in Boxes : InHand(u, b)' <=> InHand(u, b)
  BY <1>1 DEF InHand
<1>9. \A u \in Threads : o \notin Builds(u)
  BY <1>0, <1>2 DEF ArgsOK, Uses
<1>10. ResultsOK'
  <2>1. ASSUME NEW u \in Threads \ {t} PROVE Results1(u)'
    <3>1. \A i \in DOMAIN out[u] : out[u][i] \in Objs \ {o}
      BY <1>0, <1>9 DEF TypeOK, Builds
    <3> QED
      BY <1>0, <1>1, <1>3, <3>1 DEF ResultsOK, Results1
  <2>2. Results1(t)'
    BY <1>1 DEF Results1
  <2> QED
    BY <1>0, <1>6, <2>1, <2>2 DEF ResultsOK
<1>11. ArgsOK'
  BY <1>0, <1>1, <1>6 DEF ArgsOK, InMethod
<1>12. Disciplined'
  BY <1>0, <1>6 DEF Disciplined
<1>13. \A u \in Threads \ {t} : \A i \in DOMAIN arg[u] :
         arg[u][i] \in Objs /\ ptr'[arg[u][i]] = ptr[arg[u][i]]
  <2> SUFFICES ASSUME NEW u \in Threads \ {t}, NEW i \in DOMAIN arg[u]
               PROVE  arg[u][i] \in Objs /\ ptr'[arg[u][i]] = ptr[arg[u][i]]
    OBVIOUS
  <2>1. arg[u][i] \in Objs /\ arg[u][i] \in Uses(u)
    BY <1>0 DEF TypeOK, Uses
  <2> QED
    BY <1>0, <1>2, <1>3, <2>1 DEF Disciplined
<1>14. PointersOK'
  BY <1>0, <1>1, <1>3, <1>7 DEF PointersOK
<1>15. HandsOK'
  BY <1>0, <1>1 DEF HandsOK, OutClass
<1>16. RefsOK'
  <2> SUFFICES ASSUME NEW u \in Threads, NEW q \in refs'[u]
               PROVE  q[1] \in Uses(u)' /\ Owns(q[1], q[2])'
    BY DEF RefsOK
  <2>1. u # t /\ q \in refs[u]
    BY <1>1
  <2> QED
    BY <1>0, <1>6, <1>7, <2>1, RefTypes DEF RefsOK
<1>17. ClosingOK'
  <2> SUFFICES ASSUME NEW u \in Threads, pc'[u] \in Closing
               PROVE  /\ ptr'[arg'[u][1]] # Null
                      /\ pc'[u] = "drop" => reg'[u] = ptr'[arg'[u][1]]
    BY DEF ClosingOK, Closing
  <2>1. u # t
    BY <1>1 DEF Closing
  <2>2. 1 \in DOMAIN arg[u]
    BY <1>0, <1>1, <2>1 DEF Shapes, Shape, TypeOK
  <2> QED
    BY <1>0, <1>1, <1>13, <2>1, <2>2 DEF ClosingOK
<1>18. GuardStillHolds'
  <2> SUFFICES ASSUME NEW u \in Threads, pc'[u] = "read", meth'[u].guard # 0
               PROVE  ptr'[arg'[u][meth'[u].guard]] # Null
    BY DEF GuardStillHolds
  <2>1. u # t
    BY <1>1
  <2>2. meth[u] \in Methods /\ Len(arg[u]) = Len(meth[u].args) /\ arg[u] \in Seq(Objs)
    BY <1>0, <1>1, <2>1 DEF Shapes, Shape, InMethod, TypeOK
  <2>3. meth[u].guard \in DOMAIN arg[u]
    BY <1>1, <2>1, <2>2, MethodFacts
  <2> QED
    BY <1>0, <1>1, <1>13, <2>1, <2>3 DEF GuardStillHolds
<1>19. OneOwner'
  BY <1>0, <1>1, <1>7, <1>8 DEF OneOwner, Owned
<1> QED
  BY <1>4, <1>5, <1>10, <1>11, <1>12, <1>14, <1>15, <1>16, <1>17, <1>18, <1>19 DEF IInv

------------------------------------------------------------------------------
(* A call that fails while it builds its results loses their boxes. *)
LEMMA WrapFailsStep ==
  ASSUME IInv, NEW t \in Threads, WrapFails(t)
  PROVE  IInv'
<1> USE DEF memory
<1>0. /\ TypeOK /\ Shapes /\ ResultsOK /\ ArgsOK /\ Disciplined /\ PointersOK
      /\ HandsOK /\ RefsOK /\ ClosingOK /\ GuardStillHolds /\ OneOwner
  BY DEF IInv
<1> DEFINE B == Built(t)
<1>1. /\ pc[t] \in {"wrap", "pack"} /\ \A u \in Threads \ {t} : /\ pc'[u] = pc[u] /\ meth'[u] = meth[u] /\ arg'[u] = arg[u]
                                  /\ next'[u] = next[u] /\ refs'[u] = refs[u]
                                  /\ reg'[u] = reg[u] /\ out'[u] = out[u]
      /\ pc'[t] = "java" /\ meth'[t] = NoMethod /\ arg'[t] = <<>> /\ next'[t] = 1
      /\ refs'[t] = {} /\ reg'[t] = Null /\ out'[t] = <<>>
      /\ UNCHANGED heap
  BY <1>0 DEF TypeOK, WrapFails, Return, Goto
<1>2. /\ \A o \in Objs \cap B : class'[o] = "none" /\ ptr'[o] = Null
      /\ \A o \in Objs \ B : class'[o] = class[o] /\ ptr'[o] = ptr[o]
      /\ lost' = lost \cup Abandoned(t)
  BY DEF WrapFails
<1>3. B \subseteq Builds(t) /\ B \subseteq Objs
  <2>1. out[t] \in Seq(Objs)
    BY <1>0 DEF TypeOK
  <2> QED
    BY <2>1 DEF Built, Builds
<1>4. \A o \in B : class[o] # "none" /\ ptr[o] \in Boxes /\ ptr[o] # Null
  <2> SUFFICES ASSUME NEW i \in DOMAIN out[t], i < next[t]
               PROVE  class[out[t][i]] # "none" /\ ptr[out[t][i]] \in Boxes
                      /\ ptr[out[t][i]] # Null
    BY DEF Built
  <2>1. /\ out[t] \in Seq(Objs) /\ meth[t] \in Methods /\ Len(out[t]) = Len(meth[t].out)
    BY <1>0, <1>1 DEF TypeOK, Shapes, Shape, InMethod
  <2>2. out[t][i] \in Objs /\ meth[t].out[i] \in Classes
    BY <2>1, MethodFacts
  <2>3. class[out[t][i]] = meth[t].out[i] /\ ptr[out[t][i]] # Null
    BY <1>0, <1>1 DEF ResultsOK, Results1, Returning
  <2> QED
    BY <1>0, <2>2, <2>3, ClassFacts DEF TypeOK
<1>5. Abandoned(t) = {ptr[o] : o \in B} \cup ({reg[t]} \ {Null})
  BY DEF Abandoned
<1>6. Abandoned(t) \subseteq Boxes
  BY <1>0, <1>4, <1>5 DEF TypeOK
<1>7. TypeOK'
  <2>1. class' \in [Objs -> Classes \cup {"none"}] /\ ptr' \in [Objs -> Boxes \cup {Null}]
    BY <1>0 DEF TypeOK, WrapFails
  <2>2. lost' \subseteq Boxes /\ heap' = heap
    BY <1>0, <1>1, <1>2, <1>6 DEF TypeOK
  <2> QED
    BY <1>0, <2>1, <2>2 DEF TypeOK, WrapFails, Return, Goto, Labels, Results
<1>8. Shapes'
  <2> SUFFICES ASSUME NEW u \in Threads PROVE Shape(u)'
    BY DEF Shapes
  <2>1. CASE u = t
    BY <1>0, <1>1, <2>1 DEF Shapes, Shape, InMethod, Closing
  <2>2. CASE u # t
    BY <1>0, <1>1, <2>2 DEF Shapes, Shape
  <2> QED
    BY <2>1, <2>2
<1>9. /\ \A u \in Threads \ {t} : Uses(u)' = Uses(u) /\ Builds(u)' = Builds(u)
                                 /\ Exclusive(u)' = Exclusive(u)
      /\ Uses(t)' = {} /\ Builds(t)' = {} /\ Exclusive(t)' = {}
  <2>0. \A u \in Threads \ {t} : Uses(u)' = Uses(u) /\ Builds(u)' = Builds(u)
                                 /\ Exclusive(u)' = Exclusive(u)
    BY <1>1, SameUses
  <2>1. Uses(t)' = {}
    BY <1>1 DEF Uses
  <2>2. Builds(t)' = {}
    BY <1>1 DEF Builds
  <2>3. DOMAIN NoMethod.args = {}
    BY DEF NoMethod, Method
  <2>4. MutArgs(meth[t], arg[t])' = {}
    BY <1>1, <2>3 DEF MutArgs
  <2> QED
    BY <1>1, <2>0, <2>1, <2>2, <2>4 DEF Exclusive, Closing
<1>10. \A u \in Threads : B \cap Uses(u) = {} /\ (u # t => B \cap Builds(u) = {})
  BY <1>0, <1>3 DEF ArgsOK, Uses, ResultsOK
<1>11. \A p \in Objs, b \in Boxes : Owns(p, b)' <=> Owns(p, b) /\ p \notin B
  <2>1. \A p \in Objs : Dangling(p)' <=> Dangling(p)
    BY <1>1, <1>9 DEF Dangling
  <2> QED
    BY <1>2, <2>1 DEF Owns
<1>12. \A u \in Threads, b \in Boxes : InHand(u, b)' <=> InHand(u, b) /\ u # t
  BY <1>1 DEF InHand
<1>13. \A o \in B : Owns(o, ptr[o])
  BY <1>3, <1>4, <1>10 DEF Owns, Dangling
<1>14. \A b \in Boxes : b \in {reg[t]} \ {Null} <=> InHand(t, b)
  BY <1>0, <1>1, HandlesAssumption DEF InHand, Shapes, Shape
<1>15. ResultsOK'
  <2>1. ASSUME NEW u \in Threads \ {t} PROVE Results1(u)'
    <3>1. \A i \in DOMAIN out[u] : out[u][i] \in Objs \ B
      BY <1>0, <1>10 DEF TypeOK, Builds
    <3> QED
      BY <1>0, <1>1, <1>2, <3>1 DEF ResultsOK, Results1
  <2>2. Results1(t)'
    BY <1>1 DEF Results1
  <2> QED
    BY <1>0, <1>9, <2>1, <2>2 DEF ResultsOK
<1>16. \A u \in Threads \ {t} : \A i \in DOMAIN arg[u] :
         arg[u][i] \in Objs /\ ptr'[arg[u][i]] = ptr[arg[u][i]]
                           /\ class'[arg[u][i]] = class[arg[u][i]]
  <2> SUFFICES ASSUME NEW u \in Threads \ {t}, NEW i \in DOMAIN arg[u]
               PROVE  arg[u][i] \in Objs \ B
    BY <1>2
  <2> QED
    BY <1>0, <1>10 DEF TypeOK, Uses
<1>17. ArgsOK'
  BY <1>0, <1>1, <1>9, <1>16 DEF ArgsOK
<1>18. Disciplined'
  BY <1>0, <1>9 DEF Disciplined
<1>19. PointersOK'
  BY <1>0, <1>1, <1>2, <1>11 DEF PointersOK
<1>20. HandsOK'
  BY <1>0, <1>1 DEF HandsOK, OutClass
<1>21. RefsOK'
  <2> SUFFICES ASSUME NEW u \in Threads, NEW q \in refs'[u]
               PROVE  q[1] \in Uses(u)' /\ Owns(q[1], q[2])'
    BY DEF RefsOK
  <2>1. u # t /\ q \in refs[u]
    BY <1>1
  <2> QED
    BY <1>0, <1>9, <1>10, <1>11, <2>1, RefTypes DEF RefsOK
<1>22. ClosingOK'
  <2> SUFFICES ASSUME NEW u \in Threads, pc'[u] \in Closing
               PROVE  /\ ptr'[arg'[u][1]] # Null
                      /\ pc'[u] = "drop" => reg'[u] = ptr'[arg'[u][1]]
    BY DEF ClosingOK, Closing
  <2>1. u # t
    BY <1>1 DEF Closing
  <2>2. 1 \in DOMAIN arg[u]
    BY <1>0, <1>1, <2>1 DEF Shapes, Shape, TypeOK
  <2> QED
    BY <1>0, <1>1, <1>16, <2>1, <2>2 DEF ClosingOK
<1>23. GuardStillHolds'
  <2> SUFFICES ASSUME NEW u \in Threads, pc'[u] = "read", meth'[u].guard # 0
               PROVE  ptr'[arg'[u][meth'[u].guard]] # Null
    BY DEF GuardStillHolds
  <2>1. u # t
    BY <1>1
  <2>2. meth[u] \in Methods /\ Len(arg[u]) = Len(meth[u].args) /\ arg[u] \in Seq(Objs)
    BY <1>0, <1>1, <2>1 DEF Shapes, Shape, InMethod, TypeOK
  <2>3. meth[u].guard \in DOMAIN arg[u]
    BY <1>1, <2>1, <2>2, MethodFacts
  <2> QED
    BY <1>0, <1>1, <1>16, <2>1, <2>3 DEF GuardStillHolds
<1>24. OneOwner'
  <2>1. ASSUME NEW b \in Boxes PROVE Owned(b)' <=> Owned(b) /\ b \notin Abandoned(t)
    <3>1. CASE \E o \in B : b = ptr[o]
      <4>1. PICK o \in B : b = ptr[o]
        BY <3>1
      <4>2. Owns(o, b) /\ o \in Objs
        BY <1>3, <1>13, <4>1
      <4>3. ~Owned(b)'
        BY <1>0, <1>11, <1>12, <4>1, <4>2 DEF OneOwner, Owned
      <4> QED
        BY <1>5, <3>1, <4>3
    <3>2. CASE InHand(t, b)
      <4>1. \A o \in Objs : ~Owns(o, b)
        BY <1>0, <3>2 DEF OneOwner
      <4>2. \A u \in Threads \ {t} : ~InHand(u, b)
        BY <1>0, <3>2 DEF OneOwner
      <4> QED
        BY <1>5, <1>11, <1>12, <1>14, <3>2, <4>1, <4>2 DEF Owned
    <3>3. CASE ~InHand(t, b) /\ ~\E o \in B : b = ptr[o]
      <4>1. b \notin Abandoned(t)
        BY <1>5, <1>14, <3>3
      <4>2. \A o \in B : ~Owns(o, b)
        BY <3>3 DEF Owns
      <4> QED
        BY <1>11, <1>12, <3>3, <4>1, <4>2 DEF Owned
    <3> QED
      BY <3>1, <3>2, <3>3
  <2>2. \A b \in Abandoned(t) : Owned(b)
    BY <1>3, <1>5, <1>6, <1>13, <1>14 DEF Owned
  <2> SUFFICES ASSUME NEW b \in Boxes
               PROVE  /\ Owned(b)' <=> heap'[b] # "free" /\ b \notin lost'
                      /\ b \in lost' => heap'[b] # "free"
    BY <1>0, <1>11, <1>12 DEF OneOwner
  <2> QED
    BY <1>0, <1>1, <1>2, <2>1, <2>2 DEF OneOwner
<1> QED
  BY <1>7, <1>8, <1>15, <1>17, <1>18, <1>19, <1>20, <1>21, <1>22, <1>23, <1>24 DEF IInv

------------------------------------------------------------------------------
(* A Java object without a box appears or disappears. *)
LEMMA ObjectStep ==
  ASSUME IInv, NEW o \in Objs, NewAbsentSignature(o) \/ Collect(o)
  PROVE  IInv'
<1> USE DEF memory
<1>0. /\ TypeOK /\ Shapes /\ ResultsOK /\ ArgsOK /\ Disciplined /\ PointersOK
      /\ HandsOK /\ RefsOK /\ ClosingOK /\ GuardStillHolds /\ OneOwner
  BY DEF IInv
<1>1. UNCHANGED <<ptr, heap, lost, pc, meth, arg, next, refs, reg, out, result>>
  BY DEF NewAbsentSignature, Collect
<1>2. /\ class'[o] \in {"SchnorrSignature", "none"}
      /\ \A p \in Objs \ {o} : class'[p] = class[p]
  BY <1>0 DEF TypeOK, NewAbsentSignature, Collect
<1>3. ptr[o] = Null /\ \A t \in Threads : o \notin Uses(t) /\ o \notin Builds(t)
  <2>1. CASE NewAbsentSignature(o)
    BY <1>0, <2>1 DEF NewAbsentSignature, Unborn, PointersOK, ArgsOK, Uses
  <2>2. CASE Collect(o)
    BY <2>2 DEF Collect, Known
  <2> QED
    BY <2>1, <2>2
<1>4. TypeOK'
  BY <1>0, <1>1 DEF TypeOK, NewAbsentSignature, Collect, Classes
<1>5. Shapes'
  BY <1>0, <1>1 DEF Shapes, Shape
<1>6. \A t \in Threads : Uses(t)' = Uses(t) /\ Builds(t)' = Builds(t)
                         /\ Exclusive(t)' = Exclusive(t)
  BY <1>1, SameUses
<1>7. \A p \in Objs, b \in Boxes : Owns(p, b)' <=> Owns(p, b)
  <2>1. \A p : Dangling(p)' <=> Dangling(p)
    BY <1>1, <1>6 DEF Dangling
  <2> QED
    BY <1>1, <1>2, <1>3, <2>1, HandlesAssumption DEF Owns
<1>8. \A t \in Threads, b \in Boxes : InHand(t, b)' <=> InHand(t, b)
  BY <1>1 DEF InHand
<1>9. \A t \in Threads : \A i \in DOMAIN out[t] : out[t][i] \in Objs \ {o}
  BY <1>0, <1>3 DEF TypeOK, Builds
<1>10. \A t \in Threads : \A i \in DOMAIN arg[t] : arg[t][i] \in Objs \ {o}
  BY <1>0, <1>3 DEF TypeOK, Uses
<1>11. ResultsOK'
  <2>1. \A t \in Threads : Results1(t)'
    BY <1>0, <1>1, <1>2, <1>9 DEF ResultsOK, Results1
  <2> QED
    BY <1>0, <1>6, <2>1 DEF ResultsOK
<1>12. ArgsOK' /\ Disciplined'
  BY <1>0, <1>1, <1>2, <1>6, <1>10 DEF ArgsOK, Disciplined
<1>13. PointersOK'
  <2> SUFFICES ASSUME NEW p \in Objs
               PROVE  /\ class'[p] = "none" => ptr'[p] = Null
                      /\ \A b \in Boxes : Owns(p, b)' => heap'[b] = RustType(class'[p])
    BY DEF PointersOK
  <2>1. CASE p = o
    BY <1>1, <1>3, <1>7, <2>1, HandlesAssumption DEF Owns
  <2>2. CASE p # o
    BY <1>0, <1>1, <1>2, <1>7, <2>2 DEF PointersOK
  <2> QED
    BY <2>1, <2>2
<1>14. HandsOK' /\ ClosingOK' /\ GuardStillHolds'
  BY <1>0, <1>1 DEF HandsOK, OutClass, ClosingOK, GuardStillHolds
<1>15. RefsOK'
  <2> SUFFICES ASSUME NEW u \in Threads, NEW q \in refs'[u]
               PROVE  q[1] \in Uses(u)' /\ Owns(q[1], q[2])'
    BY DEF RefsOK
  <2> QED
    BY <1>0, <1>1, <1>6, <1>7, RefTypes DEF RefsOK
<1>16. OneOwner'
  BY <1>0, <1>1, <1>7, <1>8 DEF OneOwner, Owned
<1> QED
  BY <1>4, <1>5, <1>11, <1>12, <1>13, <1>14, <1>15, <1>16 DEF IInv

(* Nothing of the state changes. *)
LEMMA StutterStep == IInv /\ UNCHANGED vars => IInv'
<1> SUFFICES ASSUME IInv, UNCHANGED vars PROVE IInv'
  OBVIOUS
<1>1. UNCHANGED <<class, ptr, heap, lost, pc, meth, arg, next, refs, reg, out, result>>
  BY DEF vars
<1>2. \A t \in Threads : Uses(t)' = Uses(t) /\ Builds(t)' = Builds(t)
                         /\ Exclusive(t)' = Exclusive(t)
  BY <1>1, SameUses
<1>3. \A o, b : Owns(o, b)' <=> Owns(o, b)
  BY <1>1, <1>2 DEF Owns, Dangling
<1>4. TypeOK' /\ Shapes'
  BY <1>1 DEF IInv, TypeOK, Shapes, Shape
<1>5. ResultsOK' /\ ArgsOK' /\ Disciplined'
  BY <1>1, <1>2 DEF IInv, ResultsOK, Results1, ArgsOK, Disciplined
<1>6. PointersOK' /\ HandsOK' /\ RefsOK' /\ ClosingOK' /\ GuardStillHolds'
  BY <1>1, <1>2, <1>3
     DEF IInv, PointersOK, HandsOK, OutClass, RefsOK, ClosingOK, GuardStillHolds
<1>7. OneOwner'
  BY <1>1, <1>3 DEF IInv, OneOwner, Owned, InHand
<1> QED
  BY <1>4, <1>5, <1>6, <1>7 DEF IInv

------------------------------------------------------------------------------
(* The invariant is inductive. *)
LEMMA NextIInv == IInv /\ [Next]_vars => IInv'
<1> SUFFICES ASSUME IInv, [Next]_vars PROVE IInv'
  OBVIOUS
<1>1. CASE Next
  <2>1. ASSUME NEW t \in Threads, NEW m \in Methods,
               NEW a \in Tuples(Len(m.args)), NEW res \in Tuples(Len(m.out)), Call(t, m, a, res)
        PROVE  IInv'
    BY <2>1, CallStep
  <2>2. ASSUME NEW t \in Threads, NEW o \in Objs, Close(t, o)
        PROVE  IInv'
    BY <2>2, CloseStep
  <2>3. ASSUME NEW t \in Threads, Working(t)
        PROVE  IInv'
    BY <2>3, ReturnSteps, InsideSteps, AllocStep, WrapSteps, WrapFailsStep,
       LoadPointerStep, DropStep, ZeroPointerStep DEF Working
  <2>4. ASSUME NEW o \in Objs, NewAbsentSignature(o) \/ Collect(o)
        PROVE  IInv'
    BY <2>4, ObjectStep
  <2> QED
    BY <1>1, <2>1, <2>2, <2>3, <2>4 DEF Next
<1>2. CASE UNCHANGED vars
  BY <1>2, StutterStep
<1> QED
  BY <1>1, <1>2

(* The inductive invariant holds in every state of the library: whatever    *)
(* the number of threads, objects and boxes, and for any table of methods.  *)
THEOREM Invariance == Spec => []IInv
  BY InitIInv, NextIInv, PTL DEF Spec

(* Every register keeps its type: in particular a reference in the hands of *)
(* native code never comes from a null pointer.                             *)
THEOREM Typing == Spec => []TypeOK
  BY Invariance, PTL DEF IInv

(* Every allocated box has exactly one owner or was lost by a failed call.  *)
THEOREM Ownership == Spec => []OneOwner
  BY Invariance, PTL DEF IInv

(* No use after free: references are to live boxes of the right type, owned *)
(* by the object they were read from.                                       *)
THEOREM NoUseAfterFree == Spec => []RefsLive
<1>1. IInv => RefsLive
  <2> SUFFICES ASSUME IInv, NEW t \in Threads, NEW r \in refs[t]
               PROVE  heap[r[2]] = RustType(class[r[1]]) /\ Owns(r[1], r[2])
    BY DEF RefsLive
  <2>1. r[1] \in Objs /\ r[2] \in Boxes
    BY RefTypes DEF IInv
  <2> QED
    BY <2>1 DEF IInv, RefsOK, PointersOK
<1> QED
  BY <1>1, Invariance, PTL

(* A &mut in native code is the only reference to its box: boxes have one   *)
(* owner, and the owner is not passed to two calls when one mutates it.     *)
THEOREM NoSharedMut == Spec => []MutRefsExclusive
<1>1. IInv => MutRefsExclusive
  <2> SUFFICES ASSUME IInv, NEW t \in Threads, NEW u \in Threads, t # u,
                      NEW r \in refs[t], NEW q \in refs[u],
                      r[1] \in MutArgs(meth[t], arg[t]), r[2] = q[2]
               PROVE  FALSE
    BY DEF MutRefsExclusive
  <2>1. /\ r[1] \in Objs /\ r[2] \in Boxes /\ Owns(r[1], r[2])
        /\ q[1] \in Objs /\ Owns(q[1], r[2]) /\ q[1] \in Uses(u)
    BY RefTypes DEF IInv, RefsOK
  <2>2. r[1] = q[1]
    BY <2>1 DEF IInv, OneOwner
  <2>3. pc[t] = "read"
    BY DEF IInv, Shapes, Shape
  <2>4. r[1] \in Exclusive(t)
    BY <2>3 DEF Exclusive, Closing
  <2> QED
    BY <2>1, <2>2, <2>4 DEF IInv, Disciplined
<1> QED
  BY <1>1, Invariance, PTL

(* No double free, no free of a box of another type, no free of a box that  *)
(* another object owns.                                                     *)
THEOREM NoDoubleFree == Spec => []DropsOwnBox
<1>1. IInv => DropsOwnBox
  <2> SUFFICES ASSUME IInv, NEW t \in Threads, pc[t] = "drop"
               PROVE  /\ reg[t] # Null
                      /\ heap[reg[t]] = FreedAs(class[arg[t][1]])
                      /\ \A o \in Objs : Owns(o, reg[t]) <=> o = arg[t][1]
    BY DEF DropsOwnBox
  <2> DEFINE p == arg[t][1]
  <2>1. arg[t] \in Seq(Objs) /\ Len(arg[t]) = 1
    BY DEF IInv, TypeOK, Shapes, Shape, Closing
  <2>2. p \in Objs /\ p \in Uses(t)
    BY <2>1 DEF Uses
  <2>3. reg[t] = ptr[p] /\ ptr[p] # Null /\ ptr[p] \in Boxes
    BY <2>2 DEF IInv, ClosingOK, Closing, TypeOK
  <2>4. class[p] \in Classes
    BY <2>1, <2>2 DEF IInv, ArgsOK, TypeOK
  <2>5. ~Dangling(p)
    BY <2>2 DEF IInv, Disciplined, Exclusive, Closing, Dangling
  <2>6. Owns(p, reg[t])
    BY <2>3, <2>4, <2>5, ClassFacts DEF Owns
  <2>7. heap[reg[t]] = FreedAs(class[p])
    BY <2>2, <2>3, <2>4, <2>6, ClassFacts DEF IInv, PointersOK
  <2>8. \A o \in Objs : Owns(o, reg[t]) => o = p
    BY <2>2, <2>3, <2>6 DEF IInv, OneOwner
  <2> QED
    BY <2>3, <2>6, <2>7, <2>8
<1> QED
  BY <1>1, Invariance, PTL

(* Native memory is leaked by nothing but a call that fails while it builds *)
(* its results, and Java sees the exception.                                *)
THEOREM NoSilentLeak == Spec => LeaksOnlyOnException
<1> DEFINE A == \A b \in Boxes :
       (heap[b] = "free" \/ Owned(b)) /\ heap'[b] # "free" /\ ~Owned(b)' =>
         \E t \in Threads :
           pc[t] \in {"wrap", "pack"} /\ pc'[t] = "java" /\ result'[t] = "RuntimeException"
<1>1. IInv /\ IInv' /\ [Next]_vars => [A]_vars
  <2> SUFFICES ASSUME IInv, IInv', Next, NEW b \in Boxes,
                      heap[b] = "free" \/ Owned(b), heap'[b] # "free", ~Owned(b)'
               PROVE  \E t \in Threads : pc[t] \in {"wrap", "pack"} /\ pc'[t] = "java"
                                          /\ result'[t] = "RuntimeException"
    OBVIOUS
  <2>1. b \notin lost
    BY DEF IInv, OneOwner
  <2>2. b \in lost'
    BY DEF IInv, OneOwner
  <2>3. PICK t \in Threads : WrapFails(t)
    <3>1. ASSUME NEW t \in Threads, NEW m \in Methods,
                 NEW a \in Tuples(Len(m.args)), NEW res \in Tuples(Len(m.out)), Call(t, m, a, res)
          PROVE  FALSE
      BY <2>1, <2>2, <3>1 DEF Call, memory
    <3>2. ASSUME NEW t \in Threads, NEW o \in Objs, Close(t, o)
          PROVE  FALSE
      BY <2>1, <2>2, <3>2 DEF Close, memory
    <3>3. ASSUME NEW t \in Threads, Working(t), ~WrapFails(t)
          PROVE  FALSE
      BY <2>1, <2>2, <3>3
      DEF Working, GuardRejects, GuardFreed, GuardPasses, ReadArg, ReadAbsent, ReadNull,
          BodyPanics, BodyFails, BodyAnswers, BodyComputes, Alloc, WrapMore, WrapLast,
          WrapInto, Pack, LoadPointer, LoadFails, Drop, ZeroPointer, memory
    <3>4. ASSUME NEW o \in Objs, NewAbsentSignature(o) \/ Collect(o)
          PROVE  FALSE
      BY <2>1, <2>2, <3>4 DEF NewAbsentSignature, Collect
    <3> QED
      BY <3>1, <3>2, <3>3, <3>4 DEF Next
  <2>4. pc' = [pc EXCEPT ![t] = "java"] /\ result' = [result EXCEPT ![t] = "RuntimeException"]
    BY <2>3 DEF WrapFails, Return, Goto
  <2> QED
    BY <2>3, <2>4 DEF WrapFails, IInv, TypeOK
<1> QED
  BY <1>1, Invariance, PTL DEF Spec, LeaksOnlyOnException

-----------------------------------------------------------------------------
(* NativeHandles implements Handles: every step of the library is one step  *)
(* of the abstract handles or leaves them unchanged.                        *)

(* What the call of a thread was given and could not do without was found   *)
(* not to be 0, up to the position reached in reading it, and still is not. *)
NeedsRead ==
  \A t \in Threads : \A i \in DOMAIN arg[t] :
    /\ pc[t] \in Returning \/ (pc[t] = "read" /\ i < next[t])
    /\ ~meth[t].args[i].nullable
    => ptr[arg[t][i]] # Null

RInv == IInv /\ NeedsRead

------------------------------------------------------------------------------
(* No step of the library turns the pointer of an object into 0 while a     *)
(* method is working with the object.                                       *)
LEMMA PointersStay ==
  ASSUME IInv, Next, NEW u \in Threads, NEW i \in DOMAIN arg[u],
         pc[u] \in InMethod, ptr[arg[u][i]] # Null
  PROVE  ptr'[arg[u][i]] # Null
<1> DEFINE p == arg[u][i]
<1>0. TypeOK /\ Shapes /\ ArgsOK /\ Disciplined /\ HandsOK
  BY DEF IInv
<1>1. p \in Objs /\ p \in Uses(u)
  BY <1>0 DEF TypeOK, Uses
<1>2. CASE UNCHANGED ptr
  BY <1>2
<1>3. ASSUME NEW t \in Threads, WrapMore(t) \/ WrapLast(t)
      PROVE  ptr'[p] # Null
  <2>1. ptr' = [ptr EXCEPT ![out[t][next[t]]] = reg[t]] /\ pc[t] = "wrap"
    BY <1>3 DEF WrapMore, WrapLast, WrapInto
  <2>2. reg[t] # Null
    BY <1>0, <2>1, HandlesAssumption DEF Shapes, Shape
  <2> QED
    BY <1>0, <1>1, <2>1, <2>2 DEF TypeOK
<1>4. ASSUME NEW t \in Threads, WrapFails(t)
      PROVE  ptr'[p] # Null
  <2>1. Built(t) \subseteq Builds(t)
    BY DEF Built, Builds
  <2>2. p \notin Built(t)
    BY <1>0, <2>1 DEF ArgsOK
  <2> QED
    BY <1>1, <1>4, <2>2 DEF WrapFails
<1>5. ASSUME NEW t \in Threads, ZeroPointer(t)
      PROVE  ptr'[p] # Null
  <2>1. pc[t] = "zero" /\ t # u
    BY <1>5 DEF ZeroPointer, InMethod
  <2>2. arg[t][1] \in Uses(t) /\ Uses(t) = Exclusive(t)
    BY <1>0, <2>1 DEF Shapes, Shape, TypeOK, Uses, Exclusive, Closing
  <2>3. p # arg[t][1]
    BY <1>0, <1>1, <2>1, <2>2 DEF Disciplined
  <2> QED
    BY <1>0, <1>1, <1>5, <2>3 DEF ZeroPointer, TypeOK
<1>6. CASE \A t \in Threads : /\ ~WrapMore(t) /\ ~WrapLast(t)
                              /\ ~WrapFails(t) /\ ~ZeroPointer(t)
  <2>1. UNCHANGED ptr
    <3>1. ASSUME NEW t \in Threads, Working(t) PROVE UNCHANGED ptr
      BY <1>6, <3>1
         DEF Working, GuardRejects, GuardFreed, GuardPasses, ReadArg, ReadAbsent, ReadNull,
             BodyPanics, BodyFails, BodyAnswers, BodyComputes, Alloc, Pack, LoadPointer,
             LoadFails, Drop, memory
    <3>2. ASSUME NEW t \in Threads, NEW m, NEW a, NEW res, Call(t, m, a, res) PROVE UNCHANGED ptr
      BY <3>2 DEF Call, memory
    <3>3. ASSUME NEW t \in Threads, NEW o, Close(t, o) PROVE UNCHANGED ptr
      BY <3>3 DEF Close, memory
    <3>4. ASSUME NEW o, NewAbsentSignature(o) \/ Collect(o) PROVE UNCHANGED ptr
      BY <3>4 DEF NewAbsentSignature, Collect
    <3> QED
      BY <3>1, <3>2, <3>3, <3>4 DEF Next
  <2> QED
    BY <2>1
<1> QED
  BY <1>3, <1>4, <1>5, <1>6

(* A step of t changes nothing of what another thread is doing. *)
LEMMA OthersStay ==
  ASSUME TypeOK, NEW t \in Threads, NEW u \in Threads, t # u,
         \/ \E m, a, res : Call(t, m, a, res)
         \/ \E o : Close(t, o)
         \/ Working(t)
  PROVE  /\ pc'[u] = pc[u] /\ meth'[u] = meth[u] /\ arg'[u] = arg[u]
         /\ next'[u] = next[u] /\ out'[u] = out[u]
<1> USE DEF TypeOK, Goto
<1>1. CASE \E m, a, res : Call(t, m, a, res)
  BY <1>1 DEF Call
<1>2. CASE \E o : Close(t, o)
  BY <1>2 DEF Close
<1>3. CASE GuardRejects(t) \/ GuardFreed(t) \/ ReadNull(t) \/ BodyPanics(t) \/ BodyFails(t)
           \/ BodyAnswers(t) \/ Pack(t) \/ WrapFails(t) \/ LoadFails(t) \/ ZeroPointer(t)
  <2>1. PICK r \in Results : Return(t, r)
    BY <1>3 DEF GuardRejects, GuardFreed, FreedException, ReadNull, BodyPanics, BodyFails,
                BodyAnswers, Pack, WrapFails, LoadFails, ZeroPointer, Results
  <2> QED
    BY <2>1 DEF Return
<1>4. CASE GuardPasses(t) \/ ReadArg(t) \/ ReadAbsent(t) \/ BodyComputes(t)
  BY <1>4 DEF GuardPasses, ReadArg, ReadAbsent, BodyComputes
<1>5. CASE Alloc(t) \/ WrapMore(t) \/ LoadPointer(t) \/ Drop(t)
  BY <1>5 DEF Alloc, WrapMore, LoadPointer, Drop
<1>6. CASE WrapLast(t)
  <2>1. CASE meth[t].packs
    BY <1>6, <2>1 DEF WrapLast
  <2>2. CASE ~meth[t].packs
    BY <1>6, <2>2 DEF WrapLast, Return
  <2> QED
    BY <2>1, <2>2
<1> QED
  BY <1>1, <1>2, <1>3, <1>4, <1>5, <1>6 DEF Working

LEMMA NeedsReadStep ==
  ASSUME IInv, NeedsRead, [Next]_vars
  PROVE  NeedsRead'
<1>0. TypeOK /\ Shapes
  BY DEF IInv
<1> SUFFICES ASSUME NEW u \in Threads, NEW i \in DOMAIN arg'[u],
                    pc'[u] \in Returning \/ (pc'[u] = "read" /\ i < next'[u]),
                    ~meth'[u].args[i].nullable
             PROVE  ptr'[arg'[u][i]] # Null
  BY DEF NeedsRead
<1>1. ASSUME pc[u] \in Returning \/ (pc[u] = "read" /\ i < next[u]),
             meth'[u] = meth[u], arg'[u] = arg[u]
      PROVE  ptr'[arg'[u][i]] # Null
  <2>1. ptr[arg[u][i]] # Null
    BY <1>1 DEF NeedsRead
  <2>2. pc[u] \in InMethod
    BY <1>1 DEF InMethod, Returning
  <2> QED
    BY <1>1, <2>1, <2>2, PointersStay DEF vars
<1>2. CASE UNCHANGED vars
  BY <1>1, <1>2 DEF vars
<1>3. CASE \E o \in Objs : NewAbsentSignature(o) \/ Collect(o)
  BY <1>1, <1>3 DEF NewAbsentSignature, Collect
<1>4. ASSUME NEW t \in Threads \ {u},
             \/ \E m, a, res : Call(t, m, a, res)
             \/ \E o : Close(t, o)
             \/ Working(t)
      PROVE  ptr'[arg'[u][i]] # Null
  BY <1>0, <1>1, <1>4, OthersStay
<1>5. ASSUME (\E m, a, res : Call(u, m, a, res)) \/ (\E o : Close(u, o))
      PROVE  FALSE
  BY <1>0, <1>5 DEF TypeOK, Call, Close, Goto, Returning
<1>6. ASSUME Working(u)
      PROVE  ptr'[arg'[u][i]] # Null
  <2>1. ASSUME NEW r, Return(u, r) PROVE FALSE
    BY <1>0, <2>1 DEF TypeOK, Return, Goto, Returning
  <2>2. CASE GuardRejects(u) \/ GuardFreed(u) \/ ReadNull(u) \/ BodyPanics(u) \/ BodyFails(u)
             \/ BodyAnswers(u) \/ Pack(u) \/ WrapFails(u) \/ LoadFails(u) \/ ZeroPointer(u)
    BY <2>1, <2>2 DEF GuardRejects, GuardFreed, ReadNull, BodyPanics, BodyFails,
                      BodyAnswers, Pack, WrapFails, LoadFails, ZeroPointer
  <2>3. CASE GuardPasses(u)
    <3>1. next'[u] = 1 /\ pc'[u] = "read" /\ arg[u] \in Seq(Objs) /\ arg' = arg
      BY <1>0, <2>3 DEF GuardPasses, Goto, TypeOK, Shapes, Shape
    <3>2. i \in Nat \ {0}
      BY <3>1
    <3> QED
      BY <3>1, <3>2 DEF Returning
  <2>4. CASE ReadArg(u) \/ ReadAbsent(u)
    <3>1. /\ pc[u] = "read" /\ pc'[u] = "read" /\ next'[u] = next[u] + 1 /\ next[u] \in Nat
          /\ arg[u] \in Seq(Objs) /\ UNCHANGED <<arg, meth, ptr>>
      BY <1>0, <2>4 DEF ReadArg, ReadAbsent, Reading, TypeOK, memory
    <3>2. i \in Nat
      BY <3>1
    <3>3. CASE i = next[u]
      BY <2>4, <3>1, <3>3 DEF ReadArg, ReadAbsent, Reading
    <3>4. CASE i # next[u]
      BY <1>1, <3>1, <3>2, <3>4 DEF Returning
    <3> QED
      BY <3>3, <3>4
  <2>5. CASE BodyComputes(u)
    <3>1. pc[u] = "read" /\ next[u] \notin DOMAIN arg[u] /\ UNCHANGED <<arg, meth>>
      BY <2>5 DEF BodyComputes, Computing
    <3>2. arg[u] \in Seq(Objs) /\ next[u] \in 1..(Len(arg[u]) + 1)
      BY <1>0, <3>1 DEF TypeOK, Shapes, Shape
    <3>3. i < next[u]
      BY <3>1, <3>2
    <3> QED
      BY <1>1, <3>1, <3>3
  <2>6. CASE Alloc(u) \/ WrapMore(u) \/ WrapLast(u)
    <3>1. pc[u] \in Returning
      BY <2>6 DEF Alloc, WrapMore, WrapLast, Returning
    <3>2. UNCHANGED <<arg, meth>>
      BY <2>1, <2>6 DEF Alloc, WrapMore, WrapLast
    <3> QED
      BY <1>1, <3>1, <3>2
  <2>7. CASE LoadPointer(u) \/ Drop(u)
    BY <1>0, <2>7 DEF LoadPointer, Drop, Goto, TypeOK, Returning
  <2> QED
    BY <1>6, <2>2, <2>3, <2>4, <2>5, <2>6, <2>7 DEF Working
<1> QED
  <2>1. CASE Next
    BY <1>3, <1>4, <1>5, <1>6, <2>1 DEF Next
  <2> QED
    BY <1>2, <2>1

LEMMA RInvariance == Spec => []RInv
<1>1. Init => NeedsRead
  BY DEF Init, NeedsRead
<1>2. RInv /\ [Next]_vars => RInv'
  BY NextIInv, NeedsReadStep DEF RInv
<1> QED
  BY InitIInv, <1>1, <1>2, PTL DEF Spec, RInv

------------------------------------------------------------------------------
(* The handles that a step leaves as they are. *)
LEMMA SameHandles ==
  ASSUME \A o \in Objs : /\ Known(o)' <=> Known(o)
                         /\ Dangling(o)' <=> Dangling(o)
                         /\ Known(o) => ptr'[o] = ptr[o]
  PROVE  Open' = Open /\ Closed' = Closed
<1>1. \A o \in Objs : o \in Open' <=> o \in Open
  BY DEF Open
<1>2. \A o \in Objs : o \in Closed' <=> o \in Closed
  BY DEF Closed
<1> QED
  BY <1>1, <1>2 DEF Open, Closed

LEMMA SameRequired ==
  ASSUME NEW u, meth'[u] = meth[u], arg'[u] = arg[u], pc'[u] \in Closing <=> pc[u] \in Closing
  PROVE  Required(u)' = Required(u)
<1>1. CASE pc[u] \in Closing
  BY <1>1 DEF Required
<1>2. CASE pc[u] \notin Closing
  BY <1>2 DEF Required
<1> QED
  BY <1>1, <1>2

(* A return is the end of the abstract call. *)
LEMMA EndMap ==
  ASSUME TypeOK, NEW t \in Threads, NEW r, pc[t] # "java", Return(t, r)
  PROVE  H!End(t, r)
<1>1. /\ pc'[t] = "java" /\ arg'[t] = <<>>
      /\ \A u \in Threads \ {t} : pc'[u] = pc[u] /\ arg'[u] = arg[u] /\ meth'[u] = meth[u]
  BY DEF TypeOK, Return, Goto
<1>2. t \in Busy /\ Busy' = Busy \ {t}
  BY <1>1 DEF Busy
<1>3. Required(t)' = {}
  <2>1. pc'[t] \notin Closing
    BY <1>1 DEF Closing
  <2> QED
    BY <1>1, <2>1 DEF Required
<1>4. \A u \in Threads \ {t} : Required(u)' = Required(u)
  BY <1>1, SameRequired
<1>5. Needs' = [Needs EXCEPT ![t] = {}]
  BY <1>3, <1>4 DEF Needs
<1> QED
  BY <1>2, <1>5 DEF H!End, Return

(* The results that were not built yet are not handles, before or after. *)
LEMMA NothingBuilt ==
  ASSUME IInv, NEW t \in Threads, pc[t] \in {"guard", "read", "load", "drop", "zero"}
  PROVE  \A o \in Builds(t) : class[o] = "none"
  BY DEF IInv, ResultsOK, Results1, Returning, Builds

LEMMA ReturnMap ==
  ASSUME IInv, NEW t \in Threads, NEW r, pc[t] \in {"guard", "read", "load"},
         Return(t, r), UNCHANGED memory
  PROVE  Open' = Open /\ Closed' = Closed /\ H!End(t, r)
<1>0. TypeOK
  BY DEF IInv
<1>1. /\ pc'[t] = "java" /\ arg'[t] = <<>> /\ out'[t] = <<>>
      /\ \A u \in Threads \ {t} : pc'[u] = pc[u] /\ arg'[u] = arg[u] /\ out'[u] = out[u]
                                  /\ meth'[u] = meth[u]
      /\ UNCHANGED <<class, ptr>>
  BY <1>0 DEF TypeOK, Return, Goto, memory
<1>2. \A u \in Threads \ {t} : Builds(u)' = Builds(u) /\ Uses(u)' = Uses(u)
  BY <1>1, SameUses
<1>3. Builds(t)' = {}
  BY <1>1 DEF Builds
<1>4. \A o \in Objs : Known(o)' <=> Known(o)
  BY <1>1, <1>2, <1>3, NothingBuilt DEF Known
<1>5. \A o \in Objs : Dangling(o)' <=> Dangling(o)
  BY <1>1, <1>2 DEF Dangling
<1>6. Open' = Open /\ Closed' = Closed
  BY <1>1, <1>4, <1>5, SameHandles
<1> QED
  BY <1>0, <1>6, EndMap

(* An argument that native code was given is a handle. *)
LEMMA ArgsKnown ==
  ASSUME IInv, NEW t \in Threads, NEW i \in DOMAIN arg[t]
  PROVE  arg[t][i] \in Objs /\ Known(arg[t][i]) /\ arg[t][i] \in Uses(t)
  BY DEF IInv, TypeOK, ArgsOK, Known, Uses

(* The steps that return before a result is built: a refusal only for a     *)
(* closed handle, an answer only when all handles are open.                 *)
LEMMA FailMap ==
  ASSUME IInv, NEW t \in Threads,
         GuardRejects(t) \/ BodyPanics(t) \/ BodyFails(t) \/ LoadFails(t)
  PROVE  H!Fail(t)
<1>1. PICK r \in H!Failures : /\ Return(t, r) /\ UNCHANGED memory
                             /\ pc[t] \in {"guard", "read", "load"}
  BY DEF GuardRejects, BodyPanics, BodyFails, Computing, LoadFails, H!Failures
<1>2. Open' = Open /\ Closed' = Closed /\ H!End(t, r)
  BY <1>1, ReturnMap
<1> QED
  BY <1>1, <1>2 DEF H!Fail

LEMMA RefuseMap ==
  ASSUME IInv, NEW t \in Threads, GuardFreed(t) \/ ReadNull(t)
  PROVE  H!Refuse(t) \/ H!Fail(t)
<1>1. PICK r \in H!Refusals \cup H!Failures :
        /\ Return(t, r) /\ UNCHANGED memory /\ pc[t] \in {"guard", "read"}
  BY DEF GuardFreed, FreedException, ReadNull, Reading, H!Refusals, H!Failures
<1>2. Open' = Open /\ Closed' = Closed /\ H!End(t, r)
  BY <1>1, ReturnMap
<1>3. meth[t] \in Methods /\ Len(arg[t]) = Len(meth[t].args) /\ arg[t] \in Seq(Objs)
  BY <1>1 DEF IInv, TypeOK, Shapes, Shape, InMethod
<1>4. DOMAIN arg[t] = DOMAIN meth[t].args
  BY <1>3, MethodFacts
<1>5. PICK i \in DOMAIN arg[t] : ptr[arg[t][i]] = Null /\ ~meth[t].args[i].nullable
  <2>1. CASE GuardFreed(t)
    BY <1>3, <1>4, <2>1, MethodFacts DEF GuardFreed
  <2>2. CASE ReadNull(t)
    BY <2>2 DEF ReadNull, Reading
  <2> QED
    BY <2>1, <2>2
<1>6. arg[t][i] \in Closed
  BY <1>5, ArgsKnown DEF Closed
<1>7. arg[t][i] \in Needs[t]
  BY <1>1, <1>5 DEF Needs, Required, Closing
<1>8. Needs[t] \cap Closed # {}
  BY <1>6, <1>7
<1> QED
  BY <1>1, <1>2, <1>8 DEF H!Refuse, H!Fail

(* Once all handles were read, what the call needs is open. *)
LEMMA NeedsOpen ==
  ASSUME RInv, NEW t \in Threads, pc[t] \in Returning \/ Computing(t)
  PROVE  Needs[t] \subseteq Open
<1>0. IInv /\ NeedsRead
  BY DEF RInv
<1> SUFFICES ASSUME NEW i \in DOMAIN arg[t], ~meth[t].args[i].nullable
             PROVE  arg[t][i] \in Open
  BY DEF Needs, Required, Closing, Returning, Computing
<1>1. ptr[arg[t][i]] # Null
  <2>1. CASE pc[t] \in Returning
    BY <1>0, <2>1 DEF NeedsRead
  <2>2. CASE Computing(t)
    <3>1. arg[t] \in Seq(Objs) /\ next[t] \in 1..(Len(arg[t]) + 1)
      BY <1>0, <2>2 DEF IInv, TypeOK, Shapes, Shape, Computing
    <3>2. i < next[t]
      BY <2>2, <3>1 DEF Computing
    <3> QED
      BY <1>0, <2>2, <3>2 DEF NeedsRead, Computing
  <2> QED
    BY <2>1, <2>2
<1>2. \A u \in Threads : pc[u] = "zero" => arg[t][i] \notin Uses(u)
  BY <1>0, ArgsKnown DEF IInv, Disciplined, Exclusive, Closing, Returning, Computing
<1> QED
  BY <1>0, <1>1, <1>2, ArgsKnown DEF Open, Dangling

LEMMA AnswerMap ==
  ASSUME RInv, NEW t \in Threads, BodyAnswers(t)
  PROVE  H!Answer(t, {})
<1>1. Computing(t) /\ pc[t] = "read" /\ Return(t, "value") /\ UNCHANGED memory
  BY DEF BodyAnswers, Computing
<1>2. Open' = Open /\ Closed' = Closed /\ H!End(t, "value")
  BY <1>1, ReturnMap DEF RInv
<1> QED
  BY <1>1, <1>2, NeedsOpen DEF H!Answer

(* What the others build and use when t returns. *)
LEMMA AfterReturn ==
  ASSUME TypeOK, NEW t \in Threads, NEW r, Return(t, r)
  PROVE  /\ Builds(t)' = {} /\ pc'[t] = "java"
         /\ \A u \in Threads \ {t} : Builds(u)' = Builds(u) /\ Uses(u)' = Uses(u) /\ pc'[u] = pc[u]
<1>1. /\ pc'[t] = "java" /\ out'[t] = <<>>
      /\ \A u \in Threads \ {t} : pc'[u] = pc[u] /\ arg'[u] = arg[u] /\ out'[u] = out[u]
                                  /\ meth'[u] = meth[u]
  BY DEF TypeOK, Return, Goto
<1>2. Builds(t)' = {}
  BY <1>1 DEF Builds
<1> QED
  BY <1>1, <1>2, SameUses

(* The return of a call that made its results: they open together. *)
LEMMA ResultsMap ==
  ASSUME RInv, NEW t \in Threads, pc[t] \in {"wrap", "pack"}, Return(t, "value"),
         \A o \in Builds(t) : class'[o] # "none" /\ ptr'[o] # Null,
         \A o \in Objs \ Builds(t) : class'[o] = class[o] /\ ptr'[o] = ptr[o]
  PROVE  H!Answer(t, Builds(t)) /\ Builds(t) \subseteq Objs
<1> DEFINE new == Builds(t)
<1>0. IInv /\ TypeOK
  BY DEF RInv, IInv
<1>1. new \subseteq Objs
  BY <1>0 DEF TypeOK, Builds
<1>2. /\ Builds(t)' = {} /\ pc'[t] = "java"
      /\ \A u \in Threads \ {t} : Builds(u)' = Builds(u) /\ Uses(u)' = Uses(u) /\ pc'[u] = pc[u]
  BY <1>0, AfterReturn
<1>3. \A o \in new : /\ \A u \in Threads \ {t} : o \notin Builds(u)
                     /\ \A u \in Threads : o \notin Uses(u)
  BY <1>0 DEF IInv, ResultsOK, ArgsOK, Uses
<1>4. \A o \in Objs : Dangling(o)' <=> Dangling(o)
  BY <1>2 DEF Dangling
<1>5. \A o \in Objs \ new : Known(o)' <=> Known(o)
  BY <1>2 DEF Known
<1>6. \A o \in new : ~Known(o) /\ Known(o)' /\ ~Dangling(o)' /\ ptr'[o] # Null
  <2> SUFFICES ASSUME NEW o \in Builds(t)
               PROVE  ~Known(o) /\ Known(o)' /\ ~Dangling(o)' /\ ptr'[o] # Null
    OBVIOUS
  <2>1. Known(o)'
    BY <1>2, <1>3 DEF Known
  <2>2. ~Known(o)
    BY DEF Known
  <2>3. ~Dangling(o)'
    BY <1>2, <1>3 DEF Dangling
  <2> QED
    BY <2>1, <2>2, <2>3
<1>7. \A o \in Objs : o \in Open' <=> o \in Open \cup new
  BY <1>4, <1>5, <1>6 DEF Open
<1>8. \A o \in Objs : o \in Closed' <=> o \in Closed
  BY <1>4, <1>5, <1>6 DEF Closed
<1>9. Open' = Open \cup new /\ Closed' = Closed
  BY <1>1, <1>7, <1>8 DEF Open, Closed
<1>10. new \cap (Open \cup Closed) = {}
  BY <1>6 DEF Open, Closed
<1>11. H!End(t, "value")
  BY <1>0, EndMap
<1>12. Needs[t] \subseteq Open
  BY NeedsOpen DEF Returning
<1> QED
  BY <1>1, <1>9, <1>10, <1>11, <1>12 DEF H!Answer

LEMMA PackMap ==
  ASSUME RInv, NEW t \in Threads, Pack(t)
  PROVE  H!Answer(t, Builds(t)) /\ Builds(t) \subseteq Objs
<1>0. IInv /\ TypeOK /\ Shape(t) /\ Results1(t)
  BY DEF RInv, IInv, Shapes, ResultsOK
<1>1. pc[t] = "pack" /\ Return(t, "value") /\ UNCHANGED memory
  BY DEF Pack
<1>2. \A o \in Builds(t) : class[o] # "none" /\ ptr[o] # Null
  <2> SUFFICES ASSUME NEW i \in DOMAIN out[t]
               PROVE  class[out[t][i]] # "none" /\ ptr[out[t][i]] # Null
    BY DEF Builds
  <2>1. /\ out[t] \in Seq(Objs) /\ meth[t] \in Methods /\ Len(out[t]) = Len(meth[t].out)
        /\ next[t] = Len(out[t]) + 1
    BY <1>0, <1>1 DEF TypeOK, Shape, InMethod
  <2>2. i < next[t] /\ i \in DOMAIN meth[t].out
    BY <2>1, MethodFacts
  <2>3. meth[t].out[i] \in Classes
    BY <2>1, <2>2, MethodFacts
  <2> QED
    BY <1>0, <1>1, <2>2, <2>3, ClassFacts DEF Results1, Returning
<1> QED
  BY <1>1, <1>2, ResultsMap DEF memory

LEMMA WrapLastMap ==
  ASSUME RInv, NEW t \in Threads, WrapLast(t), ~meth[t].packs
  PROVE  H!Answer(t, Builds(t)) /\ Builds(t) \subseteq Objs
<1> DEFINE o == out[t][next[t]]
<1>0. IInv /\ TypeOK /\ Shape(t) /\ Results1(t)
  BY DEF RInv, IInv, Shapes, ResultsOK
<1>1. /\ pc[t] = "wrap" /\ Return(t, "value") /\ next[t] = Len(out[t])
      /\ class' = [class EXCEPT ![o] = OutClass(t)] /\ ptr' = [ptr EXCEPT ![o] = reg[t]]
  BY DEF WrapLast, WrapInto
<1>2. /\ OutClass(t) # "none" /\ reg[t] # Null /\ o \in Objs /\ o \in Builds(t)
      /\ next[t] \in DOMAIN out[t] /\ DOMAIN out[t] = 1..Len(out[t]) /\ Len(out[t]) \in Nat
  BY <1>0, <1>1, OutFacts, ClassFacts, HandlesAssumption DEF Shape, Builds
<1>3. \A p \in Builds(t) : class'[p] # "none" /\ ptr'[p] # Null
  <2> SUFFICES ASSUME NEW i \in DOMAIN out[t]
               PROVE  class'[out[t][i]] # "none" /\ ptr'[out[t][i]] # Null
    BY DEF Builds
  <2>1. out[t] \in Seq(Objs) /\ meth[t] \in Methods /\ Len(out[t]) = Len(meth[t].out)
    BY <1>0, <1>1 DEF TypeOK, Shape, InMethod
  <2>2. out[t][i] \in Objs /\ i \in 1..Len(out[t])
    BY <2>1
  <2>3. CASE out[t][i] = o
    BY <1>0, <1>1, <1>2, <2>3 DEF TypeOK
  <2>4. CASE out[t][i] # o
    <3>1. i < next[t]
      BY <1>1, <1>2, <2>2, <2>4
    <3>2. meth[t].out[i] \in Classes
      BY <2>1, <2>2, MethodFacts
    <3>3. class[out[t][i]] # "none" /\ ptr[out[t][i]] # Null
      BY <1>0, <1>1, <3>1, <3>2, ClassFacts DEF Results1, Returning
    <3> QED
      BY <1>0, <1>1, <1>2, <2>2, <2>4, <3>3 DEF TypeOK
  <2> QED
    BY <2>3, <2>4
<1>4. \A p \in Objs \ Builds(t) : class'[p] = class[p] /\ ptr'[p] = ptr[p]
  BY <1>0, <1>1, <1>2 DEF TypeOK
<1> QED
  BY <1>1, <1>3, <1>4, ResultsMap

LEMMA WrapFailsMap ==
  ASSUME IInv, NEW t \in Threads, WrapFails(t)
  PROVE  H!Fail(t)
<1>0. TypeOK
  BY DEF IInv
<1>1. pc[t] \in {"wrap", "pack"} /\ Return(t, "RuntimeException")
  BY DEF WrapFails
<1>2. /\ Builds(t)' = {} /\ pc'[t] = "java"
      /\ \A u \in Threads \ {t} : Builds(u)' = Builds(u) /\ Uses(u)' = Uses(u) /\ pc'[u] = pc[u]
  BY <1>0, <1>1, AfterReturn
<1>3. \A o \in Objs : o \in Builds(t) => class'[o] = "none" /\ ~Known(o)
  <2> SUFFICES ASSUME NEW i \in DOMAIN out[t], out[t][i] \in Objs
               PROVE  class'[out[t][i]] = "none" /\ ~Known(out[t][i])
    BY DEF Builds
  <2>1. ~Known(out[t][i])
    BY DEF Known, Builds
  <2>2. CASE i < next[t]
    BY <2>1, <2>2 DEF WrapFails, Built
  <2>3. CASE ~(i < next[t])
    <3>1. class[out[t][i]] = "none"
      BY <2>3 DEF IInv, ResultsOK, Results1
    <3> QED
      BY <2>1, <3>1 DEF WrapFails
  <2> QED
    BY <2>2, <2>3
<1>4. \A o \in Objs : o \notin Builds(t) => class'[o] = class[o] /\ ptr'[o] = ptr[o]
  BY DEF WrapFails, Built, Builds
<1>5. \A o \in Objs : Known(o)' <=> Known(o)
  BY <1>2, <1>3, <1>4 DEF Known
<1>6. \A o \in Objs : Dangling(o)' <=> Dangling(o)
  BY <1>1, <1>2 DEF Dangling
<1>7. \A o \in Objs : Known(o) => ptr'[o] = ptr[o]
  BY <1>3, <1>4
<1>8. Open' = Open /\ Closed' = Closed
  BY <1>5, <1>6, <1>7, SameHandles
<1>9. H!End(t, "RuntimeException")
  BY <1>0, <1>1, EndMap
<1> QED
  BY <1>8, <1>9 DEF H!Fail, H!Failures

------------------------------------------------------------------------------
(* The steps inside a call are invisible. *)
LEMMA InsideMap ==
  ASSUME IInv, NEW t \in Threads,
         UNCHANGED <<meth, arg, out, result>>,
         \A u \in Threads \ {t} : pc'[u] = pc[u],
         pc[t] # "java" /\ pc'[t] # "java" /\ pc[t] # "zero" /\ pc'[t] # "zero",
         pc'[t] \in Closing <=> pc[t] \in Closing,
         \A o \in Objs : o \notin Builds(t) => class'[o] = class[o] /\ ptr'[o] = ptr[o]
  PROVE  UNCHANGED H!vars
<1>1. \A u \in Threads : Builds(u)' = Builds(u) /\ Uses(u)' = Uses(u)
  BY DEF Builds, Uses
<1>2. \A o \in Objs : Known(o)' <=> Known(o)
  BY <1>1 DEF Known
<1>3. \A o \in Objs : Dangling(o)' <=> Dangling(o)
  BY <1>1 DEF Dangling
<1>4. \A o \in Objs : Known(o) => ptr'[o] = ptr[o]
  BY DEF Known
<1>5. Open' = Open /\ Closed' = Closed
  BY <1>2, <1>3, <1>4, SameHandles
<1>6. Busy' = Busy
  BY DEF Busy
<1>7. \A u \in Threads : Required(u)' = Required(u)
  BY SameRequired
<1>8. Needs' = Needs
  BY <1>7 DEF Needs
<1> QED
  BY <1>5, <1>6, <1>8 DEF H!vars

LEMMA InsideMaps ==
  ASSUME IInv, NEW t \in Threads,
         \/ GuardPasses(t) \/ ReadArg(t) \/ ReadAbsent(t) \/ BodyComputes(t) \/ Alloc(t)
         \/ WrapMore(t) \/ (WrapLast(t) /\ meth[t].packs) \/ LoadPointer(t)
  PROVE  UNCHANGED H!vars
<1>0. TypeOK
  BY DEF IInv
<1>1. CASE GuardPasses(t) \/ BodyComputes(t) \/ Alloc(t) \/ LoadPointer(t)
  BY <1>0, <1>1, InsideMap
     DEF GuardPasses, BodyComputes, Computing, Alloc, LoadPointer, Goto, TypeOK, memory, Closing
<1>2. CASE ReadArg(t) \/ ReadAbsent(t)
  BY <1>2, InsideMap DEF ReadArg, ReadAbsent, Reading, memory, Closing
<1>3. CASE WrapMore(t) \/ (WrapLast(t) /\ meth[t].packs)
  <2>1. /\ pc[t] = "wrap" /\ WrapInto(t, out[t][next[t]])
        /\ UNCHANGED <<meth, arg, out, result>>
        /\ pc' = [pc EXCEPT ![t] = "alloc"] \/ pc' = [pc EXCEPT ![t] = "pack"]
    BY <1>3 DEF WrapMore, WrapLast, Goto
  <2>2. pc'[t] \in {"alloc", "pack"} /\ \A u \in Threads \ {t} : pc'[u] = pc[u]
    BY <1>0, <2>1 DEF TypeOK
  <2>3. out[t][next[t]] \in Objs /\ out[t][next[t]] \in Builds(t)
    BY <2>1, OutFacts DEF Builds
  <2>4. \A o \in Objs : o \notin Builds(t) => class'[o] = class[o] /\ ptr'[o] = ptr[o]
    BY <1>0, <2>1, <2>3 DEF WrapInto, TypeOK
  <2> QED
    BY <2>1, <2>2, <2>4, InsideMap DEF Closing
<1> QED
  BY <1>1, <1>2, <1>3

------------------------------------------------------------------------------
(* Closing takes effect at the step that frees the box. *)
LEMMA ClosingUses ==
  ASSUME IInv, NEW t \in Threads, pc[t] \in Closing
  PROVE  /\ arg[t][1] \in Objs /\ Known(arg[t][1]) /\ Uses(t) = {arg[t][1]}
         /\ Exclusive(t) = {arg[t][1]} /\ ptr[arg[t][1]] # Null
         /\ \A u \in Threads \ {t} : arg[t][1] \notin Uses(u)
         /\ out[t] = <<>>
<1>1. arg[t] \in Seq(Objs) /\ Len(arg[t]) = 1 /\ out[t] = <<>>
  BY DEF IInv, TypeOK, Shapes, Shape
<1>2. DOMAIN arg[t] = {1}
  BY <1>1
<1>3. Uses(t) = {arg[t][1]} /\ Exclusive(t) = {arg[t][1]}
  BY <1>2 DEF Uses, Exclusive
<1>4. \A u \in Threads \ {t} : arg[t][1] \notin Uses(u)
  BY <1>3 DEF IInv, Disciplined
<1> QED
  BY <1>1, <1>2, <1>3, <1>4, ArgsKnown DEF IInv, ClosingOK

LEMMA DropMap ==
  ASSUME IInv, NEW t \in Threads, Drop(t)
  PROVE  \E o \in Objs : H!Close(o)
<1> DEFINE o == arg[t][1]
<1>1. /\ pc[t] = "drop" /\ pc'[t] = "zero" /\ \A u \in Threads \ {t} : pc'[u] = pc[u]
      /\ UNCHANGED <<class, ptr, meth, arg, out, result>>
  BY DEF Drop, Goto, IInv, TypeOK
<1>2. /\ o \in Objs /\ Known(o) /\ Uses(t) = {o} /\ ptr[o] # Null
      /\ \A u \in Threads \ {t} : o \notin Uses(u)
  BY <1>1, ClosingUses DEF Closing
<1>3. \A u \in Threads : Builds(u)' = Builds(u) /\ Uses(u)' = Uses(u)
  BY <1>1 DEF Builds, Uses
<1>4. \A p \in Objs : Known(p)' <=> Known(p)
  BY <1>1, <1>3 DEF Known
<1>5. \A p \in Objs : Dangling(p)' <=> Dangling(p) \/ p = o
  BY <1>1, <1>2, <1>3 DEF Dangling
<1>6. ~Dangling(o)
  BY <1>1, <1>2 DEF Dangling
<1>7. \A p \in Objs : p \in Open' <=> p \in Open \ {o}
  BY <1>1, <1>4, <1>5 DEF Open
<1>8. \A p \in Objs : p \in Closed' <=> p \in Closed \cup {o}
  BY <1>1, <1>2, <1>4, <1>5 DEF Closed
<1>9. Open' = Open \ {o} /\ Closed' = Closed \cup {o} /\ o \in Open
  BY <1>2, <1>6, <1>7, <1>8 DEF Open, Closed
<1>10. Busy' = Busy
  BY <1>1 DEF Busy
<1>11. \A u \in Threads : Required(u)' = Required(u)
  BY <1>1, SameRequired DEF Closing
<1>12. Needs' = Needs
  BY <1>11 DEF Needs
<1>13. \A u \in Threads : o \notin Needs[u]
  <2> SUFFICES ASSUME NEW u \in Threads, o \in Required(u) PROVE FALSE
    BY DEF Needs
  <2>1. CASE u = t
    BY <1>1, <2>1 DEF Required, Closing
  <2>2. CASE u # t
    BY <1>2, <2>2 DEF Required, Uses
  <2> QED
    BY <2>1, <2>2
<1>14. H!Close(o)
  BY <1>1, <1>9, <1>10, <1>12, <1>13 DEF H!Close
<1> QED
  BY <1>2, <1>14

LEMMA ZeroPointerMap ==
  ASSUME IInv, NEW t \in Threads, ZeroPointer(t)
  PROVE  H!Answer(t, {})
<1> DEFINE o == arg[t][1]
<1>0. TypeOK
  BY DEF IInv
<1>1. pc[t] = "zero" /\ Return(t, "value") /\ UNCHANGED class /\ ptr' = [ptr EXCEPT ![o] = Null]
  BY DEF ZeroPointer
<1>2. /\ o \in Objs /\ Known(o) /\ Uses(t) = {o} /\ out[t] = <<>>
      /\ \A u \in Threads \ {t} : o \notin Uses(u)
  BY <1>1, ClosingUses DEF Closing
<1>3. /\ Builds(t)' = {} /\ pc'[t] = "java"
      /\ \A u \in Threads \ {t} : Builds(u)' = Builds(u) /\ Uses(u)' = Uses(u) /\ pc'[u] = pc[u]
  BY <1>0, <1>1, AfterReturn
<1>4. Builds(t) = {}
  BY <1>2 DEF Builds
<1>5. \A p \in Objs : Known(p)' <=> Known(p)
  BY <1>1, <1>3, <1>4 DEF Known
<1>6. \A p \in Objs : p # o => (Dangling(p)' <=> Dangling(p)) /\ ptr'[p] = ptr[p]
  BY <1>0, <1>1, <1>2, <1>3 DEF Dangling, TypeOK
<1>7. \A p \in Objs : p = o => Dangling(p) /\ ptr'[p] = Null
  BY <1>0, <1>1, <1>2 DEF Dangling, TypeOK
<1>8. \A p \in Objs : p \in Open' <=> p \in Open
  BY <1>5, <1>6, <1>7 DEF Open
<1>9. \A p \in Objs : p \in Closed' <=> p \in Closed
  BY <1>5, <1>6, <1>7 DEF Closed
<1>10. Open' = Open /\ Closed' = Closed
  BY <1>8, <1>9 DEF Open, Closed
<1>11. H!End(t, "value")
  BY <1>0, <1>1, EndMap
<1>12. Needs[t] = {}
  BY <1>1 DEF Needs, Required, Closing
<1> QED
  BY <1>10, <1>11, <1>12 DEF H!Answer

------------------------------------------------------------------------------
(* The beginning of a call or of a close, and objects without a box. *)
LEMMA BeginMap ==
  ASSUME TypeOK, NEW t \in Threads, pc[t] = "java", pc'[t] # "java", pc'[t] # "zero",
         \A u \in Threads \ {t} : /\ pc'[u] = pc[u] /\ arg'[u] = arg[u] /\ meth'[u] = meth[u]
                                 /\ out'[u] = out[u],
         \A o \in Builds(t)' \cup Builds(t) : class[o] = "none",
         UNCHANGED <<class, ptr>>, result' = [result EXCEPT ![t] = "none"],
         NEW S \in SUBSET {o \in Objs : Known(o)}, Required(t)' = S
  PROVE  H!Begin(t, S)
<1>1. \A u \in Threads \ {t} : Builds(u)' = Builds(u) /\ Uses(u)' = Uses(u)
  BY SameUses
<1>2. \A o \in Objs : Known(o)' <=> Known(o)
  BY <1>1 DEF Known
<1>3. \A o \in Objs : Dangling(o)' <=> Dangling(o)
  BY <1>1 DEF Dangling
<1>4. Open' = Open /\ Closed' = Closed
  BY <1>2, <1>3, SameHandles
<1>5. t \notin Busy /\ Busy' = Busy \cup {t}
  BY DEF Busy
<1>6. \A u \in Threads \ {t} : Required(u)' = Required(u)
  BY SameRequired
<1>7. Needs' = [Needs EXCEPT ![t] = S]
  BY <1>6 DEF Needs
<1>8. S \subseteq Open \cup Closed
  BY DEF Open, Closed
<1> QED
  BY <1>4, <1>5, <1>7, <1>8 DEF H!Begin

LEMMA CallMap ==
  ASSUME IInv, NEW t \in Threads, NEW m \in Methods,
         NEW a \in Tuples(Len(m.args)), NEW res \in Tuples(Len(m.out)), Call(t, m, a, res)
  PROVE  \E S \in SUBSET Objs : H!Begin(t, S)
<1>0. TypeOK
  BY DEF IInv
<1>1. /\ pc[t] = "java" /\ pc'[t] = "guard" /\ meth'[t] = m /\ arg'[t] = a /\ out'[t] = res
      /\ \A u \in Threads \ {t} : /\ pc'[u] = pc[u] /\ arg'[u] = arg[u] /\ meth'[u] = meth[u]
                                  /\ out'[u] = out[u]
      /\ UNCHANGED <<class, ptr>> /\ result' = [result EXCEPT ![t] = "none"]
  BY <1>0 DEF TypeOK, Call, Goto, memory
<1>2. /\ DOMAIN a = DOMAIN m.args /\ DOMAIN res = DOMAIN m.out
      /\ \A i \in DOMAIN a : a[i] \in Objs
  BY MethodFacts DEF Tuples
<1>3. out[t] = <<>>
  BY <1>1 DEF IInv, Shapes, Shape
<1>4. \A o \in Builds(t)' \cup Builds(t) : class[o] = "none"
  BY <1>1, <1>2, <1>3 DEF Builds, Call, Unborn
<1>5. \A i \in DOMAIN a : Known(a[i])
  BY <1>2 DEF Call, Admissible
<1>6. Required(t)' = {a[i] : i \in {j \in DOMAIN a : ~m.args[j].nullable}}
  BY <1>1 DEF Required, Closing
<1>7. Required(t)' \subseteq {o \in Objs : Known(o)}
  BY <1>2, <1>5, <1>6
<1> QED
  BY <1>0, <1>1, <1>4, <1>7, BeginMap

LEMMA CloseMap ==
  ASSUME IInv, NEW t \in Threads, NEW o \in Objs, Close(t, o)
  PROVE  \E S \in SUBSET Objs : H!Begin(t, S)
<1>0. TypeOK
  BY DEF IInv
<1>1. /\ pc[t] = "java" /\ pc'[t] = "load"
      /\ \A u \in Threads \ {t} : /\ pc'[u] = pc[u] /\ arg'[u] = arg[u] /\ meth'[u] = meth[u]
                                  /\ out'[u] = out[u]
      /\ UNCHANGED <<class, ptr, out>> /\ result' = [result EXCEPT ![t] = "none"]
  BY <1>0 DEF TypeOK, Close, Goto, memory
<1>2. out[t] = <<>>
  BY <1>1 DEF IInv, Shapes, Shape
<1>3. \A p \in Builds(t)' \cup Builds(t) : class[p] = "none"
  BY <1>1, <1>2 DEF Builds
<1>4. Required(t)' = {}
  BY <1>1 DEF Required, Closing
<1> QED
  BY <1>0, <1>1, <1>3, <1>4, BeginMap

LEMMA ObjectMap ==
  ASSUME IInv, NEW o \in Objs, NewAbsentSignature(o) \/ Collect(o)
  PROVE  H!New(o) \/ H!Forget(o)
<1>0. TypeOK
  BY DEF IInv
<1>1. UNCHANGED <<ptr, pc, meth, arg, out, result>>
  BY DEF NewAbsentSignature, Collect
<1>2. \A u \in Threads : /\ Builds(u)' = Builds(u) /\ Uses(u)' = Uses(u)
                         /\ Required(u)' = Required(u)
  BY <1>1, SameUses, SameRequired
<1>3. Busy' = Busy /\ Needs' = Needs
  BY <1>1, <1>2 DEF Busy, Needs
<1>4. \A p \in Objs : Dangling(p)' <=> Dangling(p)
  BY <1>1, <1>2 DEF Dangling
<1>5. /\ ptr[o] = Null /\ \A u \in Threads : o \notin Builds(u)
      /\ \A p \in Objs \ {o} : class'[p] = class[p]
  <2>1. CASE NewAbsentSignature(o)
    BY <1>0, <2>1 DEF NewAbsentSignature, Unborn, IInv, PointersOK, TypeOK
  <2>2. CASE Collect(o)
    BY <1>0, <2>2 DEF Collect, Known, TypeOK
  <2> QED
    BY <2>1, <2>2
<1>6. \A p \in Objs \ {o} : Known(p)' <=> Known(p)
  BY <1>2, <1>5 DEF Known
<1>7. \A p \in Objs : p \in Open' <=> p \in Open
  BY <1>1, <1>4, <1>5, <1>6 DEF Open
<1>8. Open' = Open
  BY <1>7 DEF Open
<1>9. CASE NewAbsentSignature(o)
  <2>1. ~Known(o) /\ Known(o)'
    BY <1>0, <1>2, <1>5, <1>9 DEF NewAbsentSignature, Unborn, Known, TypeOK
  <2>2. \A p \in Objs : p \in Closed' <=> p \in Closed \cup {o}
    BY <1>1, <1>4, <1>5, <1>6, <2>1 DEF Closed
  <2>3. Closed' = Closed \cup {o} /\ o \notin Open \cup Closed
    BY <2>1, <2>2 DEF Open, Closed
  <2> QED
    BY <1>1, <1>3, <1>8, <2>3 DEF H!New
<1>10. CASE Collect(o)
  <2>1. Known(o) /\ ~Known(o)' /\ \A u \in Threads : o \notin Uses(u)
    BY <1>0, <1>10 DEF Collect, Known, TypeOK
  <2>2. \A p \in Objs : p \in Closed' <=> p \in Closed \ {o}
    BY <1>1, <1>4, <1>6, <2>1 DEF Closed
  <2>3. Closed' = Closed \ {o} /\ o \in Closed
    BY <1>5, <2>1, <2>2 DEF Closed
  <2>4. \A u \in Threads : o \notin Needs[u]
    BY <2>1 DEF Needs, Required, Uses
  <2> QED
    BY <1>1, <1>3, <1>8, <2>3, <2>4 DEF H!Forget
<1> QED
  BY <1>9, <1>10

------------------------------------------------------------------------------
LEMMA InitMap == Init => H!Init
<1> SUFFICES ASSUME Init PROVE H!Init
  OBVIOUS
<1>1. Open = {} /\ Closed = {}
  BY DEF Init, Open, Closed, Known
<1>2. Busy = {}
  BY DEF Init, Busy
<1>3. \A t \in Threads : Required(t) = {}
  BY DEF Init, Required
<1>4. Needs = [t \in Threads |-> {}]
  BY <1>3 DEF Needs
<1> QED
  BY <1>1, <1>2, <1>4 DEF Init, H!Init

LEMMA NextMap ==
  ASSUME RInv, [Next]_vars
  PROVE  [H!Next]_(H!vars)
<1>0. IInv
  BY DEF RInv
<1>1. CASE UNCHANGED vars
  <2>1. UNCHANGED <<class, ptr, pc, meth, arg, out, result>>
    BY <1>1 DEF vars
  <2>2. \A u \in Threads : /\ Builds(u)' = Builds(u) /\ Uses(u)' = Uses(u)
                           /\ Required(u)' = Required(u)
    BY <2>1, SameUses, SameRequired
  <2>3. Busy' = Busy /\ Needs' = Needs
    BY <2>1, <2>2 DEF Busy, Needs
  <2>4. \A o \in Objs : (Known(o)' <=> Known(o)) /\ (Dangling(o)' <=> Dangling(o))
    BY <2>1, <2>2 DEF Known, Dangling
  <2>5. Open' = Open /\ Closed' = Closed
    BY <2>1, <2>4, SameHandles
  <2> QED
    BY <2>1, <2>3, <2>5 DEF H!vars
<1>2. CASE Next
  <2>1. ASSUME NEW t \in Threads, NEW m \in Methods,
               NEW a \in Tuples(Len(m.args)), NEW res \in Tuples(Len(m.out)), Call(t, m, a, res)
        PROVE  H!Next
    BY <1>0, <2>1, CallMap DEF H!Next
  <2>2. ASSUME NEW t \in Threads, NEW o \in Objs, Close(t, o)
        PROVE  H!Next
    BY <1>0, <2>2, CloseMap DEF H!Next
  <2>3. ASSUME NEW o \in Objs, NewAbsentSignature(o) \/ Collect(o)
        PROVE  H!Next
    BY <1>0, <2>3, ObjectMap DEF H!Next
  <2>4. ASSUME NEW t \in Threads, Working(t)
        PROVE  H!Next \/ UNCHANGED H!vars
    <3>1. CASE GuardRejects(t) \/ BodyPanics(t) \/ BodyFails(t) \/ LoadFails(t) \/ WrapFails(t)
      BY <1>0, <3>1, FailMap, WrapFailsMap DEF H!Next
    <3>2. CASE GuardFreed(t) \/ ReadNull(t)
      BY <1>0, <3>2, RefuseMap DEF H!Next
    <3>3. CASE BodyAnswers(t) \/ ZeroPointer(t)
      BY <1>0, <3>3, AnswerMap, ZeroPointerMap DEF H!Next
    <3>4. CASE Pack(t) \/ (WrapLast(t) /\ ~meth[t].packs)
      BY <3>4, PackMap, WrapLastMap DEF H!Next
    <3>5. CASE Drop(t)
      BY <1>0, <3>5, DropMap DEF H!Next
    <3>6. CASE \/ GuardPasses(t) \/ ReadArg(t) \/ ReadAbsent(t) \/ BodyComputes(t) \/ Alloc(t)
               \/ WrapMore(t) \/ (WrapLast(t) /\ meth[t].packs) \/ LoadPointer(t)
      BY <1>0, <3>6, InsideMaps
    <3> QED
      BY <2>4, <3>1, <3>2, <3>3, <3>4, <3>5, <3>6 DEF Working
  <2> QED
    BY <1>2, <2>1, <2>2, <2>3, <2>4 DEF Next
<1> QED
  BY <1>1, <1>2

(* The library, step by step and on any number of threads, implements       *)
(* handles that open, are used and close atomically.                        *)
THEOREM Refinement == Spec => ImplementsHandles
<1>1. Init => H!Init
  BY InitMap
<1>2. RInv /\ [Next]_vars => [H!Next]_(H!vars)
  BY NextMap
<1> QED
  BY <1>1, <1>2, RInvariance, PTL DEF Spec, ImplementsHandles, H!Spec

==============================================================================
