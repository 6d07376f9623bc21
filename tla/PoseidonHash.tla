---------------------------- MODULE PoseidonHash ----------------------------
(***************************************************************************)
(* Poseidon hash objects.  A hash is created for a number of inputs, for a *)
(* multiple of the rate, or for any number; it is updated with one field   *)
(* element at a time, finalized as often as wanted and reset.              *)
(*                                                                         *)
(* A native call reads the elements it is given one after the other, any   *)
(* of which may be a freed handle or null, and then works on the hash: an  *)
(* exception must leave the hash as it was.  Objects that several threads  *)
(* share are the subject of NativeHandles; here one call runs at a time.   *)
(***************************************************************************)
EXTENDS Integers, Sequences

CONSTANTS
  Hashes,         \* Java hash objects
  Elements,       \* values of field elements
  Arrays,         \* arrays of field elements given as personalization or input
  Counts,         \* input sizes asked for, as jint
  Rate,           \* of the sponge
  Usize,          \* number of values of a usize
  MaxInputs       \* bound on the inputs of a hash

(* A handle in an array: of an element, already freed, or null. *)
Handles == Elements \cup {"freed", "null"}

(* A jint is narrower than a usize: converted, a negative one is larger     *)
(* than any number of inputs.                                               *)
ASSUME PoseidonAssumption ==
  /\ Rate \in Nat \ {0}
  /\ Usize \in Nat \ {0}
  /\ MaxInputs \in Nat
  /\ Counts \subseteq Int
  /\ \A n \in Counts : MaxInputs - Usize < n /\ n < Usize
  /\ Arrays \subseteq Seq(Handles)

VARIABLES
  hash,           \* the native value of each hash object
  call,           \* the native call in progress
  read,           \* the elements it has read so far
  answer,         \* what the last call returned or raised
  told            \* history: what each hash was told by calls that returned

vars == <<hash, call, read, answer, told>>

None == [op |-> "none"]
NoHash == [mode |-> "none", size |-> 0, personal |-> <<>>, inputs |-> <<>>]

Value(v) == [kind |-> "value", value |-> v]
Raise(e) == [kind |-> "raise", value |-> e]
Null == [kind |-> "null", value |-> 0]
Nothing == [kind |-> "void", value |-> 0]
NoAnswer == [kind |-> "none", value |-> 0]

(* as usize: a negative size becomes a large one. *)
AsUsize(n) == n % Usize

------------------------------------------------------------------------------
(* The library of hashes: an ideal hash of the padding rule, personalization*)
(* and inputs.                                                              *)

InitHash(mode, size, p) ==
  [mode |-> mode, size |-> size, personal |-> p, inputs |-> <<>>]

UpdateHash(h, x) == [h EXCEPT !.inputs = Append(@, x)]

(* One update for each of the inputs: the hash after each number of them.   *)
Updates(h, inputs) ==
  LET after[n \in 0..Len(inputs)] ==
        IF n = 0 THEN h ELSE UpdateHash(after[n - 1], inputs[n])
  IN  after

UpdatedBy(h, inputs) == Updates(h, inputs)[Len(inputs)]

ResetHash(h, p) == InitHash(h.mode, h.size, p)

(* Inputs that need no padding hash alike, whatever the mode.               *)
Digest(h) == <<h.mode = "variable", h.personal, h.inputs>>

Complete(h) ==
  CASE h.mode = "constant" -> Len(h.inputs) = h.size
    [] h.mode = "modRate"  -> Len(h.inputs) % Rate = 0
    [] OTHER               -> TRUE

------------------------------------------------------------------------------
(* Java calls. *)

Init ==
  /\ hash = [h \in Hashes |-> NoHash]
  /\ call = None
  /\ read = <<>>
  /\ answer = NoAnswer
  /\ told = [h \in Hashes |-> NoHash]

Exists(h) == hash[h] # NoHash

Begin(c) ==
  /\ call = None
  /\ call' = c
  /\ read' = <<>>
  /\ answer' = NoAnswer
  /\ UNCHANGED <<hash, told>>

GetInstance(h, mode, n, p) ==
  /\ ~Exists(h)
  /\ Begin([op |-> "new", on |-> h, args |-> p, mode |-> mode, size |-> n])

Update(h, x) ==
  /\ Exists(h)
  /\ Len(hash[h].inputs) < MaxInputs
  /\ Begin([op |-> "update", on |-> h, args |-> <<x>>])

FinalizeHash(h) == Exists(h) /\ Begin([op |-> "finalize", on |-> h, args |-> <<>>])

Reset(h, p) == Exists(h) /\ Begin([op |-> "reset", on |-> h, args |-> p])

(* The hash object of computePoseidonHash is its own. *)
ComputePoseidonHash(a) == Begin([op |-> "compute", on |-> "digest", args |-> a])

FreePoseidonHash(h) == Exists(h) /\ Begin([op |-> "free", on |-> h, args |-> <<>>])

------------------------------------------------------------------------------
(* Native code. *)

Return(a) ==
  /\ call' = None
  /\ read' = <<>>
  /\ answer' = a

Working == call # None

Pending == Working /\ Len(read) < Len(call.args)

(* get_object_array_element, get_field and read_raw_pointer. *)
ReadElement ==
  /\ Pending
  /\ call.args[Len(read) + 1] \in Elements
  /\ read' = Append(read, call.args[Len(read) + 1])
  /\ UNCHANGED <<hash, call, answer, told>>

(* Mutant: the hash is reset first, then the personalization is read. *)
ReadFreedAfterReset ==
  /\ Pending
  /\ call.args[Len(read) + 1] = "freed"
  /\ hash' = IF call.op = "reset"
             THEN [hash EXCEPT ![call.on] = ResetHash(@, <<>>)] ELSE hash
  /\ Return(Raise("NullPointerException"))
  /\ UNCHANGED told

ReadFreed ==
  /\ Pending
  /\ call.args[Len(read) + 1] = "freed"
  /\ Return(Raise("NullPointerException"))
  /\ UNCHANGED <<hash, told>>

(* get_field on null fails, and expect panics. *)
ReadNull ==
  /\ Pending
  /\ call.args[Len(read) + 1] = "null"
  /\ Return(Raise("RuntimeException"))
  /\ UNCHANGED <<hash, told>>

Computing(op) == Working /\ Len(read) = Len(call.args) /\ call.op = op

(* get_poseidon_hash_constant_length, get_poseidon_hash_variable_length     *)
New ==
  /\ Computing("new")
  /\ hash' = [hash EXCEPT ![call.on] = InitHash(call.mode, AsUsize(call.size), read)]
  /\ told' = [told EXCEPT ![call.on] = InitHash(call.mode, call.size, call.args)]
  /\ Return(Value(call.on))

(* update_poseidon_hash *)
DoUpdate ==
  /\ Computing("update")
  /\ hash' = [hash EXCEPT ![call.on] = UpdateHash(@, read[1])]
  /\ told' = [told EXCEPT ![call.on].inputs = Append(@, call.args[1])]
  /\ Return(Nothing)

(* finalize_poseidon_hash: an error is answered with null. *)
DoFinalize ==
  /\ Computing("finalize")
  /\ Return(IF Complete(hash[call.on]) THEN Value(Digest(hash[call.on])) ELSE Null)
  /\ UNCHANGED <<hash, told>>

(* The native function has no result, but Java declares one: the register   *)
(* it looks at may hold anything.                                           *)
ResetResult == {Null, Value("garbage")}

(* Mutant: the personalization is read and not passed on. *)
DoResetPlain ==
  /\ Computing("reset")
  /\ hash' = [hash EXCEPT ![call.on] = ResetHash(@, <<>>)]
  /\ told' = [told EXCEPT ![call.on].personal = call.args, ![call.on].inputs = <<>>]
  /\ \E r \in ResetResult : Return(r)

(* reset_poseidon_hash: the mode stays. *)
DoReset ==
  /\ Computing("reset")
  /\ hash' = [hash EXCEPT ![call.on] = ResetHash(@, read)]
  /\ told' = [told EXCEPT ![call.on].personal = call.args, ![call.on].inputs = <<>>]
  /\ \E r \in ResetResult : Return(r)

(* Mutant: the inputs are hashed by an instance of variable length. *)
DoComputeVariable ==
  /\ Computing("compute")
  /\ Return(Value(Digest(UpdatedBy(InitHash("variable", 0, <<>>), read))))
  /\ UNCHANGED <<hash, told>>

(* Constant length, one update for each input, finalize, free. *)
DoCompute ==
  /\ Computing("compute")
  /\ Return(Value(Digest(UpdatedBy(InitHash("constant", Len(call.args), <<>>), read))))
  /\ UNCHANGED <<hash, told>>

DoFree ==
  /\ Computing("free")
  /\ hash' = [hash EXCEPT ![call.on] = NoHash]
  /\ told' = [told EXCEPT ![call.on] = NoHash]
  /\ Return(Nothing)

Native ==
  \/ ReadElement \/ ReadFreed \/ ReadNull
  \/ New \/ DoUpdate \/ DoFinalize \/ DoReset \/ DoCompute \/ DoFree

Java ==
  \/ \E h \in Hashes :
       \/ \E p \in Arrays :
            \/ \E n \in Counts : GetInstance(h, "constant", n, p)
            \/ GetInstance(h, "modRate", 0, p)
            \/ GetInstance(h, "variable", 0, p)
            \/ Reset(h, p)
       \/ \E x \in Handles : Update(h, x)
       \/ FinalizeHash(h)
       \/ FreePoseidonHash(h)
  \/ \E a \in Arrays : ComputePoseidonHash(a)

Next == Java \/ Native

Spec == Init /\ [][Next]_vars

------------------------------------------------------------------------------

(* A call that raises an exception (a freed or a null element in the middle *)
(* of an array) leaves every hash as it was: a hash changes only in a step  *)
(* that returns to Java normally.                                           *)
ChangesOnlyOnReturn ==
  [][hash' # hash => answer'.kind \notin {"raise", "none"}]_vars

(* Has the hash been told a number of inputs that it was not created for?   *)
(* Of a negative number, any is wrong.                                      *)
WrongLength(t) ==
  \/ t.mode = "constant" /\ Len(t.inputs) # t.size
  \/ t.mode = "modRate" /\ \A k \in 0..MaxInputs : Len(t.inputs) # k * Rate

(* What finalizeHash answers is a function of what the application told the *)
(* hash since it was created or last reset, however often it was finalized  *)
(* in between and whatever calls failed: the digest of exactly these inputs *)
(* under the personalization given last, or null when their number is wrong *)
(* - which is what nativeFinalize (lib.rs:926) and PoseidonHashTest.java:46 *)
(* say; what PoseidonHash.java:84 says is WrongLengthRaises, below.         *)
Expected(t) ==
  IF WrongLength(t) THEN Null ELSE Value(<<t.mode = "variable", t.personal, t.inputs>>)

FinalizeMatchesCalls ==
  [][call.op = "finalize" /\ call' = None => answer' = Expected(told[call.on])]_vars

(* computePoseidonHash and an object of constant length that was told the   *)
(* same inputs agree.                                                       *)
ComputeAgrees ==
  [][\A h \in Hashes :
       /\ call.op = "compute" /\ answer'.kind = "value" /\ call' = None
       /\ told[h].mode = "constant" /\ told[h].personal = <<>>
       /\ told[h].inputs = call.args
       /\ told[h].size = Len(call.args)
       => answer'.value = Digest(hash[h])]_vars

(* What PoseidonHash.java says of finalizeHash (lines 84 to 89): with a     *)
(* number of inputs that the hash was not created for, an exception occurs. *)
WrongLengthRaises ==
  [][call.op = "finalize" /\ call' = None /\ WrongLength(told[call.on])
       => answer'.kind = "raise"]_vars

(* What PoseidonHash.java declares of reset: it returns a FieldElement, so  *)
(* its result is null or an object the native code made.                    *)
ResetReturnsElement ==
  [][call.op = "reset" /\ call' = None /\ answer'.kind = "value" =>
       answer'.value \in Elements]_vars

==============================================================================
