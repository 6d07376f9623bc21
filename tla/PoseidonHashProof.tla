--------------------------- MODULE PoseidonHashProof ---------------------------
(***************************************************************************)
(* Proofs about PoseidonHash, for any number of hashes, elements and       *)
(* inputs: a hash always holds what the application told it by calls that  *)
(* returned, so that finalizeHash and computePoseidonHash answer a         *)
(* function of these.                                                      *)
(***************************************************************************)
EXTENDS PoseidonHash, WellFoundedInduction, TLAPS

-----------------------------------------------------------------------------
(* The updates of computePoseidonHash                                       *)

(* Induction on the number of inputs, about a set in place of a predicate.  *)
LEMMA SetInductionUpTo ==
  ASSUME NEW n \in Nat, NEW T, 0 \in T, \A k \in 0..(n - 1) : k \in T => k + 1 \in T
  PROVE  \A k \in 0..n : k \in T
<1> DEFINE S == {k \in Nat : k > n \/ k \in T}
<1> SUFFICES ASSUME Nat \ S # {} PROVE FALSE
  OBVIOUS
<1>1. PICK m \in Nat \ S : \A k \in Nat \ S : <<k, m>> \notin OpToRel(<, Nat)
  <2>1. Nat \ S \subseteq Nat
    OBVIOUS
  <2> HIDE DEF S
  <2> QED BY <2>1, NatLessThanWellFounded, WFMin
<1>2. \A k \in Nat \ S : ~(k < m)
  BY <1>1 DEF OpToRel
<1>3. m # 0 /\ m - 1 \in Nat /\ m - 1 < m /\ (m - 1) + 1 = m /\ m - 1 \in 0..(n - 1)
  OBVIOUS
<1> QED BY <1>2, <1>3

LEMMA UpdatesEquation ==
  ASSUME NEW h, NEW xs, Len(xs) \in Nat
  PROVE  Updates(h, xs) =
           [n \in 0..Len(xs) |->
              IF n = 0 THEN h ELSE UpdateHash(Updates(h, xs)[n - 1], xs[n])]
<1> DEFINE Eq(n, g) == g = [k \in 0..n |-> IF k = 0 THEN h ELSE UpdateHash(g[k - 1], xs[k])]
           T == {n \in Nat : \E g : Eq(n, g)}
<1>1. 0 \in T
  <2>1. Eq(0, [k \in 0..0 |-> h])
    OBVIOUS
  <2> QED BY <2>1
<1>2. ASSUME NEW n \in Nat, n \in T
      PROVE  n + 1 \in T
  <2>1. PICK g : Eq(n, g)
    BY <1>2
  <2> DEFINE e == [k \in 0..(n + 1) |-> IF k \in 0..n THEN g[k] ELSE UpdateHash(g[n], xs[n + 1])]
  <2>2. Eq(n + 1, e)
    BY <2>1
  <2> HIDE DEF e, Eq
  <2> QED BY <2>2
<1>3. Len(xs) \in T
  <2> HIDE DEF T
  <2>1. \A k \in 0..(Len(xs) - 1) : k \in T => k + 1 \in T
    BY <1>2
  <2>2. \A k \in 0..Len(xs) : k \in T
    BY <1>1, <2>1, SetInductionUpTo
  <2> QED BY <2>2
<1> QED BY <1>3 DEF Updates

(* Updated with all of the inputs, a new hash has these inputs.             *)
LEMMA UpdatedHash ==
  ASSUME NEW S, NEW xs \in Seq(S), NEW mode, NEW size, NEW p
  PROVE  /\ UpdatedBy(InitHash(mode, size, p), xs).mode = mode
         /\ UpdatedBy(InitHash(mode, size, p), xs).personal = p
         /\ UpdatedBy(InitHash(mode, size, p), xs).inputs = xs
<1> DEFINE h == InitHash(mode, size, p)
           U == Updates(h, xs)
           With(n) == [mode |-> mode, size |-> size, personal |-> p, inputs |-> SubSeq(xs, 1, n)]
           T == {n \in Nat : n <= Len(xs) => U[n] = With(n)}
<1>1. Len(xs) \in Nat
  OBVIOUS
<1>2. U[0] = h /\ \A n \in 1..Len(xs) : U[n] = UpdateHash(U[n - 1], xs[n])
  BY <1>1, UpdatesEquation
<1>3. h = With(0)
  <2>1. SubSeq(xs, 1, 0) = <<>>
    OBVIOUS
  <2> QED BY <2>1 DEF InitHash
<1> HIDE DEF h, U
<1>4. 0 \in T
  BY <1>2, <1>3
<1>5. ASSUME NEW k \in 0..(Len(xs) - 1), k \in T
      PROVE  k + 1 \in T
  <2>1. k + 1 \in 1..Len(xs) /\ (k + 1) - 1 = k /\ k \in Nat
    BY <1>1
  <2>2. U[k] = With(k)
    BY <1>1, <1>5
  <2>3. U[k + 1] = UpdateHash(With(k), xs[k + 1])
    BY <1>2, <2>1, <2>2
  <2>4. SubSeq(xs, 1, k + 1) = Append(SubSeq(xs, 1, k), xs[k + 1])
    BY <1>1, <2>1
  <2>5. UpdateHash(With(k), xs[k + 1]) = With(k + 1)
    <3>1. \A w, x : UpdateHash(w, x) = [w EXCEPT !.inputs = Append(w.inputs, x)]
      BY DEF UpdateHash
    <3>2. ASSUME NEW q, NEW r
          PROVE  [[mode |-> mode, size |-> size, personal |-> p, inputs |-> q] EXCEPT !.inputs = r]
                   = [mode |-> mode, size |-> size, personal |-> p, inputs |-> r]
      OBVIOUS
    <3>3. With(k).inputs = SubSeq(xs, 1, k)
      OBVIOUS
    <3> QED BY <2>4, <3>1, <3>2, <3>3
  <2> QED BY <2>1, <2>3, <2>5
<1>6. U[Len(xs)] = With(Len(xs))
  <2> HIDE DEF T
  <2>1. \A k \in 0..Len(xs) : k \in T
    BY <1>1, <1>4, <1>5, SetInductionUpTo
  <2>2. Len(xs) \in T
    BY <1>1, <2>1
  <2> HIDE DEF With
  <2> QED BY <1>1, <2>2 DEF T
<1>7. SubSeq(xs, 1, Len(xs)) = xs
  OBVIOUS
<1>8. UpdatedBy(h, xs) = U[Len(xs)]
  BY DEF UpdatedBy, U
<1> QED BY <1>6, <1>7, <1>8 DEF h

-----------------------------------------------------------------------------
(* What a hash holds is what it was told                                    *)

Modes == {"constant", "modRate", "variable"}

Tellings ==
  [mode : Modes \cup {"none"}, size : Counts \cup {0}, personal : Seq(Handles),
   inputs : Seq(Handles)]

(* The native value for what a hash was told. *)
Held(t) ==
  [mode |-> t.mode, size |-> AsUsize(t.size), personal |-> t.personal, inputs |-> t.inputs]

HashesOK ==
  /\ told \in [Hashes -> Tellings]
  /\ \A h \in Hashes : Len(told[h].inputs) <= MaxInputs
  /\ hash = [h \in Hashes |-> Held(told[h])]

(* What a call has read are the first of its arguments.                     *)
CallOK ==
  call # None =>
    /\ call.op \in {"new", "update", "finalize", "reset", "compute", "free"}
    /\ call.args \in Seq(Handles) /\ read \in Seq(Handles)
    /\ Len(read) <= Len(call.args)
    /\ \A i \in 1..Len(read) : read[i] = call.args[i]
    /\ call.op # "compute" => call.on \in Hashes
    /\ call.op = "new" => call.mode \in Modes /\ call.size \in Counts \cup {0}
    /\ call.op = "update" => Len(call.args) = 1 /\ Len(told[call.on].inputs) < MaxInputs
    /\ call.op = "finalize" => call.args = <<>>

IInv == HashesOK /\ CallOK

(* A converted size is the number of inputs when the size itself is.        *)
LEMMA SizeConverted ==
  ASSUME NEW n \in Counts \cup {0}, NEW l \in 0..MaxInputs
  PROVE  l = AsUsize(n) <=> l = n
<1>1. /\ n \in Int /\ MaxInputs \in Nat /\ Usize \in Nat \ {0}
      /\ n < Usize /\ (n < 0 => MaxInputs - Usize < n)
  BY PoseidonAssumption
<1>2. CASE n >= 0
  <2>1. n % Usize = n
    BY <1>1, <1>2
  <2> QED BY <2>1 DEF AsUsize
<1>3. CASE n < 0
  <2>1. n + Usize \in 0..(Usize - 1) /\ n + Usize > MaxInputs
    BY <1>1, <1>3
  <2>2. n % Usize = n + Usize
    BY <1>1, <1>3, <2>1
  <2> QED BY <1>1, <1>3, <2>1, <2>2 DEF AsUsize
<1> QED BY <1>1, <1>2, <1>3

(* Numbers without remainder are the multiples.                             *)
LEMMA Multiples ==
  ASSUME NEW l \in 0..MaxInputs
  PROVE  l % Rate = 0 <=> \E k \in 0..MaxInputs : l = k * Rate
<1>1. MaxInputs \in Nat /\ Rate \in Nat \ {0} /\ l \in Nat
  BY PoseidonAssumption
<1>2. ASSUME l % Rate = 0
      PROVE  \E k \in 0..MaxInputs : l = k * Rate
  <2> DEFINE q == l \div Rate
  <2>1. l = q * Rate
    BY <1>1, <1>2
  <2>2. q \in 0..l
    BY <1>1
  <2> HIDE DEF q
  <2>3. q \in 0..MaxInputs
    BY <1>1, <2>2
  <2> QED BY <2>1, <2>3
<1>3. ASSUME NEW k \in 0..MaxInputs
      PROVE  (k * Rate) % Rate = 0
  <2>1. k \in Nat
    BY <1>1
  <2> QED BY <1>1, <2>1
<1> QED BY <1>2, <1>3

LEMMA ReadAll ==
  ASSUME CallOK, call # None, Len(read) = Len(call.args)
  PROVE  read = call.args
<1>1. /\ read \in Seq(Handles) /\ call.args \in Seq(Handles)
      /\ \A i \in 1..Len(read) : read[i] = call.args[i]
  BY DEF CallOK
<1>2. read = [i \in 1..Len(read) |-> read[i]] /\ call.args = [i \in 1..Len(call.args) |-> call.args[i]]
  BY <1>1
<1> QED BY <1>1, <1>2

LEMMA HashTold ==
  ASSUME HashesOK, NEW on \in Hashes, NEW t \in Tellings, Len(t.inputs) <= MaxInputs,
         told' = [told EXCEPT ![on] = t], hash' = [hash EXCEPT ![on] = Held(t)]
  PROVE  HashesOK'
<1>1. told' \in [Hashes -> Tellings]
  BY DEF HashesOK
<1>2. \A h \in Hashes : Len(told'[h].inputs) <= MaxInputs
  BY DEF HashesOK
<1>3. \A h \in Hashes : hash'[h] = Held(told'[h])
  BY DEF HashesOK
<1>4. hash' = [h \in Hashes |-> hash'[h]]
  BY DEF HashesOK
<1> QED BY <1>1, <1>2, <1>3, <1>4 DEF HashesOK, Held, AsUsize

(* An update of the native value is that of what was told.                  *)
LEMMA UpdateHeld ==
  ASSUME NEW t \in Tellings, NEW x
  PROVE  Held([t EXCEPT !.inputs = Append(t.inputs, x)]) = UpdateHash(Held(t), x)
<1> DEFINE new == [t EXCEPT !.inputs = Append(t.inputs, x)]
           size == AsUsize(t.size)
           after == Append(t.inputs, x)
<1>1. /\ new.mode = t.mode /\ new.size = t.size /\ new.personal = t.personal
      /\ new.inputs = after
  BY DEF Tellings
<1> HIDE DEF new, size, after
<1>2. Held(new) = [mode |-> t.mode, size |-> size, personal |-> t.personal, inputs |-> after]
  BY <1>1 DEF Held, size
<1>3. Held(t) = [mode |-> t.mode, size |-> size, personal |-> t.personal, inputs |-> t.inputs]
  BY DEF Held, size
<1>4. [[mode |-> t.mode, size |-> size, personal |-> t.personal, inputs |-> t.inputs]
         EXCEPT !.inputs = after]
        = [mode |-> t.mode, size |-> size, personal |-> t.personal, inputs |-> after]
  OBVIOUS
<1>5. Held(t).inputs = t.inputs
  BY <1>3
<1>6. UpdateHash(Held(t), x) = [Held(t) EXCEPT !.inputs = after]
  BY <1>5 DEF UpdateHash, after
<1> HIDE DEF Held
<1> QED BY <1>2, <1>3, <1>4, <1>6 DEF new

LEMMA InitInvariant == Init => IInv
<1> SUFFICES ASSUME Init PROVE IInv
  OBVIOUS
<1>1. MaxInputs \in Nat /\ AsUsize(0) = 0
  BY PoseidonAssumption DEF AsUsize
<1>2. NoHash \in Tellings
  <2>1. <<>> \in Seq(Handles)
    OBVIOUS
  <2> QED BY <2>1 DEF NoHash, Tellings
<1>3. Held(NoHash) = NoHash /\ Len(NoHash.inputs) <= MaxInputs
  BY <1>1 DEF Held, NoHash
<1> HIDE DEF NoHash
<1>4. HashesOK
  BY <1>2, <1>3 DEF Init, HashesOK
<1>5. CallOK
  BY DEF Init, None, CallOK
<1> QED BY <1>4, <1>5 DEF IInv

LEMMA BeginInvariant ==
  ASSUME IInv, NEW c, Begin(c),
         c.op \in {"new", "update", "finalize", "reset", "compute", "free"},
         c.args \in Seq(Handles),
         c.op # "compute" => c.on \in Hashes,
         c.op = "new" => c.mode \in Modes /\ c.size \in Counts \cup {0},
         c.op = "update" => Len(c.args) = 1 /\ Len(told[c.on].inputs) < MaxInputs,
         c.op = "finalize" => c.args = <<>>
  PROVE  IInv'
<1>1. call' = c /\ read' = <<>> /\ hash' = hash /\ told' = told
  BY DEF Begin
<1>2. HashesOK'
  BY <1>1 DEF IInv, HashesOK, Held, AsUsize
<1>3. read' \in Seq(Handles) /\ Len(read') = 0 /\ Len(c.args) \in Nat
  BY <1>1
<1>4. CallOK'
  BY <1>1, <1>3 DEF CallOK
<1> QED BY <1>2, <1>4 DEF IInv

LEMMA JavaInvariant ==
  ASSUME IInv, Java
  PROVE  IInv'
<1>0. \A p \in Arrays : p \in Seq(Handles)
  BY PoseidonAssumption
<1>1. ASSUME NEW h \in Hashes, NEW mode \in Modes, NEW n \in Counts \cup {0}, NEW p \in Arrays,
             GetInstance(h, mode, n, p)
      PROVE  IInv'
  <2> DEFINE c == [op |-> "new", on |-> h, args |-> p, mode |-> mode, size |-> n]
  <2>1. Begin(c) /\ c.op = "new" /\ c.on = h /\ c.args = p /\ c.mode = mode /\ c.size = n
    BY <1>1 DEF GetInstance
  <2> HIDE DEF c
  <2> QED BY <1>0, <2>1, BeginInvariant
<1>2. ASSUME NEW h \in Hashes, NEW p \in Arrays, Reset(h, p)
      PROVE  IInv'
  <2> DEFINE c == [op |-> "reset", on |-> h, args |-> p]
  <2>1. Begin(c) /\ c.op = "reset" /\ c.on = h /\ c.args = p
    BY <1>2 DEF Reset
  <2> HIDE DEF c
  <2> QED BY <1>0, <2>1, BeginInvariant
<1>3. ASSUME NEW h \in Hashes, NEW x \in Handles, Update(h, x)
      PROVE  IInv'
  <2> DEFINE c == [op |-> "update", on |-> h, args |-> <<x>>]
  <2>1. Begin(c) /\ c.op = "update" /\ c.on = h /\ c.args = <<x>>
    BY <1>3 DEF Update
  <2>2. <<x>> \in Seq(Handles) /\ Len(<<x>>) = 1
    OBVIOUS
  <2>3. Len(told[h].inputs) < MaxInputs
    <3>1. hash[h].inputs = told[h].inputs
      BY DEF IInv, HashesOK, Held
    <3> QED BY <1>3, <3>1 DEF Update
  <2> HIDE DEF c
  <2> QED BY <2>1, <2>2, <2>3, BeginInvariant
<1>4. ASSUME NEW h \in Hashes, NEW op \in {"finalize", "free"},
             Begin([op |-> op, on |-> h, args |-> <<>>])
      PROVE  IInv'
  <2> DEFINE c == [op |-> op, on |-> h, args |-> <<>>]
  <2>1. Begin(c) /\ c.op = op /\ c.on = h /\ c.args = <<>>
    BY <1>4
  <2>2. <<>> \in Seq(Handles)
    OBVIOUS
  <2> HIDE DEF c
  <2> QED BY <2>1, <2>2, BeginInvariant
<1>5. ASSUME NEW a \in Arrays, ComputePoseidonHash(a)
      PROVE  IInv'
  <2> DEFINE c == [op |-> "compute", on |-> "digest", args |-> a]
  <2>1. Begin(c) /\ c.op = "compute" /\ c.args = a
    BY <1>5 DEF ComputePoseidonHash
  <2> HIDE DEF c
  <2> QED BY <1>0, <2>1, BeginInvariant
<1>6. "constant" \in Modes /\ "modRate" \in Modes /\ "variable" \in Modes
  BY DEF Modes
<1> QED BY <1>1, <1>2, <1>3, <1>4, <1>5, <1>6 DEF Java, FinalizeHash, FreePoseidonHash

LEMMA NativeInvariant ==
  ASSUME IInv, Native
  PROVE  IInv'
<1> DEFINE on == call.on
           t == told[on]
<1>1. HashesOK /\ CallOK
  BY DEF IInv
<1>2. ASSUME call' = None  PROVE CallOK'
  BY <1>2 DEF CallOK, None
<1>3. ASSUME hash' = hash, told' = told  PROVE HashesOK'
  BY <1>1, <1>3 DEF HashesOK, Held, AsUsize
<1>4. CASE ReadElement
  <2> DEFINE x == call.args[Len(read) + 1]
  <2>1. /\ call # None /\ Len(read) < Len(call.args) /\ x \in Handles
        /\ read' = Append(read, x) /\ UNCHANGED <<hash, call, told>>
    BY <1>4 DEF ReadElement, Pending, Working, Handles
  <2>2. HashesOK'
    BY <1>3, <2>1
  <2>3. read \in Seq(Handles) /\ call.args \in Seq(Handles)
    BY <1>1, <2>1 DEF CallOK
  <2>4. /\ read' \in Seq(Handles) /\ Len(read') = Len(read) + 1
        /\ read'[Len(read) + 1] = x /\ \A i \in 1..Len(read) : read'[i] = read[i]
    BY <2>1, <2>3
  <2> HIDE DEF x
  <2>5. \A i \in 1..Len(read') : read'[i] = call.args[i]
    <3> SUFFICES ASSUME NEW i \in 1..Len(read') PROVE read'[i] = call.args[i]
      OBVIOUS
    <3>1. CASE i = Len(read) + 1
      BY <2>4, <3>1 DEF x
    <3>2. CASE i \in 1..Len(read)
      BY <1>1, <2>1, <2>4, <3>2 DEF CallOK
    <3> QED BY <2>3, <2>4, <3>1, <3>2
  <2>6. Len(read') <= Len(call.args)
    BY <2>1, <2>3, <2>4
  <2>7. CallOK'
    BY <1>1, <2>1, <2>4, <2>5, <2>6 DEF CallOK
  <2> QED BY <2>2, <2>7 DEF IInv
<1>5. CASE ReadFreed \/ ReadNull \/ DoFinalize \/ DoCompute
  <2>1. call' = None /\ hash' = hash /\ told' = told
    BY <1>5 DEF ReadFreed, ReadNull, DoFinalize, DoCompute, Return
  <2> QED BY <1>2, <1>3, <2>1 DEF IInv
<1>6. ASSUME NEW op \in {"new", "update", "reset", "free"}, Computing(op)
      PROVE  /\ call # None /\ call.op = op /\ read = call.args
             /\ on \in Hashes /\ t \in Tellings
             /\ call.args \in Seq(Handles) /\ hash[on] = Held(t) /\ Len(t.inputs) <= MaxInputs
  <2>1. call.op = op /\ call # None /\ Len(read) = Len(call.args)
    BY <1>6 DEF Computing, Working
  <2>2. read = call.args /\ call.args \in Seq(Handles) /\ on \in Hashes
    BY <1>1, <2>1, ReadAll DEF CallOK
  <2>3. t \in Tellings /\ hash[on] = Held(t) /\ Len(t.inputs) <= MaxInputs
    BY <1>1, <2>2 DEF HashesOK
  <2> QED BY <2>1, <2>2, <2>3
<1>7. CASE New
  <2>1. /\ call.op = "new" /\ read = call.args /\ on \in Hashes /\ call.args \in Seq(Handles)
        /\ call.mode \in Modes /\ call.size \in Counts \cup {0}
    BY <1>1, <1>6, <1>7 DEF New, CallOK
  <2> DEFINE new == InitHash(call.mode, call.size, call.args)
  <2>2. new \in Tellings
    <3>1. <<>> \in Seq(Handles)
      OBVIOUS
    <3> QED BY <2>1, <3>1 DEF InitHash, Tellings
  <2>3. Len(new.inputs) <= MaxInputs
    <3>1. Len(new.inputs) = 0
      BY DEF InitHash
    <3> QED BY <3>1, PoseidonAssumption
  <2>4. Held(new) = InitHash(call.mode, AsUsize(call.size), read)
    BY <2>1 DEF Held, InitHash
  <2> HIDE DEF new
  <2>5. told' = [told EXCEPT ![on] = new] /\ hash' = [hash EXCEPT ![on] = Held(new)]
    BY <1>7, <2>4 DEF New, new
  <2>6. HashesOK'
    BY <1>1, <2>1, <2>2, <2>3, <2>5, HashTold
  <2> QED BY <1>2, <1>7, <2>6 DEF New, Return, IInv
<1>8. CASE DoUpdate
  <2>1. /\ call.op = "update" /\ read = call.args /\ on \in Hashes /\ call.args \in Seq(Handles)
        /\ Len(call.args) = 1 /\ Len(t.inputs) < MaxInputs /\ t \in Tellings /\ hash[on] = Held(t)
    BY <1>1, <1>6, <1>8 DEF DoUpdate, CallOK
  <2> DEFINE x == call.args[1]
             new == [t EXCEPT !.inputs = Append(t.inputs, x)]
  <2>2. x \in Handles /\ t.inputs \in Seq(Handles)
    BY <2>1 DEF Tellings
  <2>3. Append(t.inputs, x) \in Seq(Handles) /\ Len(Append(t.inputs, x)) = Len(t.inputs) + 1
    BY <2>2
  <2>4. new \in Tellings /\ Len(new.inputs) <= MaxInputs
    <3>1. new.inputs = Append(t.inputs, x)
      BY <2>1 DEF Tellings
    <3>2. Len(t.inputs) + 1 <= MaxInputs
      BY <2>1, <2>2, PoseidonAssumption
    <3> QED BY <2>1, <2>3, <3>1, <3>2 DEF Tellings
  <2>5. Held(new) = UpdateHash(hash[on], read[1])
    BY <2>1, UpdateHeld
  <2>6. told' = [told EXCEPT ![on] = new]
    BY <1>8 DEF DoUpdate
  <2>7. hash' = [hash EXCEPT ![on] = UpdateHash(hash[on], read[1])]
    BY <1>8 DEF DoUpdate
  <2> HIDE DEF new
  <2>8. HashesOK'
    BY <1>1, <2>1, <2>4, <2>5, <2>6, <2>7, HashTold
  <2> QED BY <1>2, <1>8, <2>8 DEF DoUpdate, Return, IInv
<1>9. CASE DoReset
  <2>1. /\ call.op = "reset" /\ read = call.args /\ on \in Hashes /\ call.args \in Seq(Handles)
        /\ t \in Tellings /\ hash[on] = Held(t)
    BY <1>6, <1>9 DEF DoReset
  <2> DEFINE new == [t EXCEPT !.personal = call.args, !.inputs = <<>>]
  <2>2. new \in Tellings /\ Len(new.inputs) <= MaxInputs
    <3>1. <<>> \in Seq(Handles) /\ Len(<<>>) = 0 /\ MaxInputs \in Nat
      BY PoseidonAssumption
    <3>2. new \in Tellings
      BY <2>1, <3>1 DEF Tellings
    <3>3. new.inputs = <<>>
      BY <2>1 DEF Tellings
    <3> QED BY <3>1, <3>2, <3>3
  <2>3. Held(new) = ResetHash(hash[on], read)
    BY <2>1 DEF Held, ResetHash, InitHash, Tellings
  <2>4. told' = [told EXCEPT ![on] = new] /\ hash' = [hash EXCEPT ![on] = ResetHash(hash[on], read)]
    BY <1>9 DEF DoReset
  <2> HIDE DEF new
  <2>5. HashesOK'
    BY <1>1, <2>1, <2>2, <2>3, <2>4, HashTold
  <2> QED BY <1>2, <1>9, <2>5 DEF DoReset, Return, IInv
<1>10. CASE DoFree
  <2>1. on \in Hashes
    BY <1>6, <1>10 DEF DoFree
  <2>2. NoHash \in Tellings /\ Len(NoHash.inputs) <= MaxInputs /\ Held(NoHash) = NoHash
    <3>1. <<>> \in Seq(Handles) /\ MaxInputs \in Nat /\ AsUsize(0) = 0
      BY PoseidonAssumption DEF AsUsize
    <3> QED BY <3>1 DEF NoHash, Tellings, Held
  <2>3. told' = [told EXCEPT ![on] = NoHash] /\ hash' = [hash EXCEPT ![on] = NoHash]
    BY <1>10 DEF DoFree
  <2>4. HashesOK'
    BY <1>1, <2>1, <2>2, <2>3, HashTold
  <2> QED BY <1>2, <1>10, <2>4 DEF DoFree, Return, IInv
<1> QED BY <1>4, <1>5, <1>7, <1>8, <1>9, <1>10 DEF Native

LEMMA NextInvariant == IInv /\ [Next]_vars => IInv'
<1> SUFFICES ASSUME IInv, [Next]_vars PROVE IInv'
  OBVIOUS
<1>1. CASE UNCHANGED vars
  BY <1>1 DEF vars, IInv, HashesOK, CallOK, Held, AsUsize
<1> QED BY <1>1, JavaInvariant, NativeInvariant DEF Next

(* A hash holds what the application told it by calls that returned.        *)
THEOREM Invariance == Spec => []IInv
BY InitInvariant, NextInvariant, PTL DEF Spec

-----------------------------------------------------------------------------
(* What finalizeHash and computePoseidonHash answer                         *)

(* An exception leaves every hash as it was.                                *)
THEOREM ExceptionsChangeNothing == Spec => ChangesOnlyOnReturn
<1>1. ASSUME [Next]_vars
      PROVE  [hash' # hash => answer'.kind \notin {"raise", "none"}]_vars
  <2>1. ASSUME Java PROVE hash' = hash
    BY <2>1 DEF Java, GetInstance, Update, FinalizeHash, Reset, ComputePoseidonHash,
                FreePoseidonHash, Begin
  <2>2. CASE ReadElement \/ ReadFreed \/ ReadNull \/ DoFinalize \/ DoCompute
    BY <2>2 DEF ReadElement, ReadFreed, ReadNull, DoFinalize, DoCompute
  <2>3. CASE New \/ DoUpdate \/ DoFree
    BY <2>3 DEF New, DoUpdate, DoFree, Return, Value, Nothing
  <2>4. CASE DoReset
    BY <2>4 DEF DoReset, ResetResult, Return, Value, Null
  <2> QED BY <1>1, <2>1, <2>2, <2>3, <2>4 DEF Next, Native
<1> QED BY <1>1, PTL DEF Spec, ChangesOnlyOnReturn

(* What is complete for the native code is complete for the application.    *)
LEMMA CompleteAsTold ==
  ASSUME NEW t \in Tellings, Len(t.inputs) <= MaxInputs
  PROVE  IF Complete(Held(t)) THEN Expected(t) = Value(Digest(Held(t)))
                              ELSE Expected(t) = Null
<1> DEFINE l == Len(t.inputs)
<1>1. l \in 0..MaxInputs /\ t.size \in Counts \cup {0}
  BY PoseidonAssumption DEF Tellings
<1>2. /\ Held(t).mode = t.mode /\ Held(t).size = AsUsize(t.size)
      /\ Held(t).personal = t.personal /\ Held(t).inputs = t.inputs
  BY DEF Held
<1>3. Value(Digest(Held(t))) = Value(<<t.mode = "variable", t.personal, t.inputs>>)
  BY <1>2 DEF Digest
<1>4. l = AsUsize(t.size) <=> l = t.size
  BY <1>1, SizeConverted
<1>5. l % Rate = 0 <=> \E k \in 0..MaxInputs : l = k * Rate
  BY <1>1, Multiples
<1>6. CASE t.mode = "constant"
  <2>1. Complete(Held(t)) <=> l = t.size
    BY <1>2, <1>4, <1>6 DEF Complete
  <2> QED BY <1>3, <1>6, <2>1 DEF Expected, WrongLength
<1>7. CASE t.mode = "modRate"
  <2>1. Complete(Held(t)) <=> l % Rate = 0
    BY <1>2, <1>7 DEF Complete
  <2> QED BY <1>3, <1>5, <1>7, <2>1 DEF Expected, WrongLength
<1>8. CASE t.mode # "constant" /\ t.mode # "modRate"
  <2>1. Complete(Held(t))
    BY <1>2, <1>8 DEF Complete
  <2> QED BY <1>3, <1>8, <2>1 DEF Expected, WrongLength
<1> QED BY <1>6, <1>7, <1>8

(* finalizeHash answers the digest of what the hash was told, or null.      *)
THEOREM FinalizeAsTold == Spec => FinalizeMatchesCalls
<1>1. ASSUME IInv, [Next]_vars
      PROVE  [call.op = "finalize" /\ call' = None => answer' = Expected(told[call.on])]_vars
  <2> SUFFICES ASSUME Next, call.op = "finalize", call' = None
               PROVE  answer' = Expected(told[call.on])
    BY <1>1
  <2>1. call # None
    BY DEF None
  <2>2. call.on \in Hashes /\ call.args = <<>> /\ Len(read) \in Nat
    BY <1>1, <2>1 DEF IInv, CallOK
  <2>3. ~Java
    BY <2>1 DEF Java, GetInstance, Update, FinalizeHash, Reset, ComputePoseidonHash,
                FreePoseidonHash, Begin
  <2>4. ~Pending
    BY <2>2 DEF Pending
  <2>5. DoFinalize
    BY <2>3, <2>4 DEF Next, Native, ReadElement, ReadFreed, ReadNull, New, DoUpdate, DoReset,
                      DoCompute, DoFree, Computing
  <2>6. answer' = IF Complete(hash[call.on]) THEN Value(Digest(hash[call.on])) ELSE Null
    BY <2>5 DEF DoFinalize, Return
  <2> DEFINE t == told[call.on]
  <2>7. t \in Tellings /\ Len(t.inputs) <= MaxInputs /\ hash[call.on] = Held(t)
    BY <1>1, <2>2 DEF IInv, HashesOK
  <2> HIDE DEF t
  <2>8. answer' = Expected(t)
    BY <2>6, <2>7, CompleteAsTold
  <2> QED BY <2>8 DEF t
<1> QED BY <1>1, Invariance, PTL DEF Spec, FinalizeMatchesCalls

(* computePoseidonHash agrees with an object that was told the same inputs. *)
THEOREM ComputeAsObject == Spec => ComputeAgrees
<1> DEFINE Same(h) == /\ call.op = "compute" /\ answer'.kind = "value" /\ call' = None
                      /\ told[h].mode = "constant" /\ told[h].personal = <<>>
                      /\ told[h].inputs = call.args
                      /\ told[h].size = Len(call.args)
<1>1. ASSUME IInv, [Next]_vars
      PROVE  [\A h \in Hashes : Same(h) => answer'.value = Digest(hash[h])]_vars
  <2> SUFFICES ASSUME Next, NEW h \in Hashes, Same(h)
               PROVE  answer'.value = Digest(hash[h])
    BY <1>1
  <2>1. call # None
    BY DEF None
  <2>2. ~Java
    BY <2>1 DEF Java, GetInstance, Update, FinalizeHash, Reset, ComputePoseidonHash,
                FreePoseidonHash, Begin
  <2>3. ~ReadElement /\ ~ReadFreed /\ ~ReadNull
    BY <2>1 DEF ReadElement, ReadFreed, ReadNull, Return, Raise
  <2>4. DoCompute
    BY <2>2, <2>3 DEF Next, Native, New, DoUpdate, DoReset, DoFinalize, DoFree, Computing
  <2>5. read = call.args /\ call.args \in Seq(Handles)
    BY <1>1, <2>1, <2>4, ReadAll DEF IInv, CallOK, DoCompute, Computing
  <2> DEFINE u == UpdatedBy(InitHash("constant", Len(call.args), <<>>), read)
  <2>6. u.mode = "constant" /\ u.personal = <<>> /\ u.inputs = call.args
    BY <2>5, UpdatedHash
  <2> HIDE DEF u
  <2>7. answer'.value = Digest(u)
    BY <2>4 DEF DoCompute, Return, Value, u
  <2>8. hash[h] = Held(told[h])
    BY <1>1 DEF IInv, HashesOK
  <2>9. hash[h].mode = "constant" /\ hash[h].personal = <<>> /\ hash[h].inputs = call.args
    BY <2>8 DEF Held
  <2> QED BY <2>6, <2>7, <2>9 DEF Digest
<1> QED BY <1>1, Invariance, PTL DEF Spec, ComputeAgrees
=============================================================================
