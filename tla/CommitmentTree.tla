--------------------------- MODULE CommitmentTree ---------------------------
(***************************************************************************)
(* The sidechain transactions commitment tree.  Outputs of sidechains are  *)
(* added to it; it gives the commitment of a sidechain and of the whole    *)
(* tree, and proofs that a sidechain exists or does not, which are objects *)
(* of their own: they outlive what they were got from.                     *)
(*                                                                         *)
(* A native call reads its byte arrays one after the other.  Any of them   *)
(* may be null, of a wrong length or no field element, and the call then   *)
(* ends half way, most often in an exception.  Only when all are read is   *)
(* the tree touched.  Numbers are passed on unchanged (an unsigned number  *)
(* of the same width for a signed one) and are left out.                   *)
(*                                                                         *)
(* One call runs at a time: calls that overlap are the subject of          *)
(* NativeHandles.                                                          *)
(***************************************************************************)
EXTENDS Integers, SequencesExt

CONSTANTS
  IdOrder,        \* the identifiers of sidechains, in increasing order
  OtherElements,  \* further field elements
  NoElement,      \* an array of the length of an element that encodes none
  WrongLength,    \* an array of another length that does not start with one
  Longer,         \* arrays longer than an element, mapped to the element
                  \*   their first bytes encode
  Null,           \* a null reference; what is missing
  BufferSize,     \* of the fixed arrays an array of bytes is copied into
  Arguments,      \* the arguments the application may give, for each way
                  \*   they are read
  Ops,            \* the operations it calls
  WithProofs,     \* whether it deserializes and verifies proofs
  MaxAdds         \* bound on the leaves added

(* Rust's Option *)
None == <<>>
Some(x) == <<x>>

Ids == {IdOrder[i] : i \in DOMAIN IdOrder}

Elements == Ids \cup OtherElements

(* How the native code reads the arguments of each operation, in its order. *)
ScCrReads == <<"id", "buffer", "buffer", "optional", "optional", "optional",
               "nullableField", "bytes", "nullable">>
FwtReads == <<"id", "buffer", "buffer", "buffer">>
BtrReads == <<"id", "buffer", "fields", "buffer">>
CertReads == <<"id", "transfers", "nullableFields", "field">>
CertLeafReads == <<"id", "field">>
CswReads == <<"id", "field", "buffer">>

Reads ==
  [addScCr      |-> ScCrReads,
   addFwt       |-> FwtReads,
   addBtr       |-> BtrReads,
   addCert      |-> CertReads,
   addCertLeaf  |-> CertLeafReads,
   addCsw       |-> CswReads,
   getScCr      |-> <<"id">>,
   getFwt       |-> <<"id">>,
   getBtr       |-> <<"id">>,
   getCert      |-> <<"id">>,
   getCsw       |-> <<"id">>,
   getCrtLeaves |-> <<"id">>,
   getScCommitment     |-> <<"id">>,
   getCommitment       |-> <<>>,
   getScExistenceProof |-> <<"id">>,
   getScAbsenceProof   |-> <<"id">>,
   verifyScAbsence     |-> <<"id">>]

Kinds == {"scc", "fwt", "bwtr", "cert", "csw"}

(* The list of leaves an operation works on. *)
KindOf ==
  [addScCr |-> "scc", addFwt |-> "fwt", addBtr |-> "bwtr", addCert |-> "cert",
   addCertLeaf |-> "cert", addCsw |-> "csw", getScCr |-> "scc", getFwt |-> "fwt",
   getBtr |-> "bwtr", getCert |-> "cert", getCsw |-> "csw", getCrtLeaves |-> "cert"]

Adds == {"addScCr", "addFwt", "addBtr", "addCert", "addCertLeaf", "addCsw"}
Getters == {"getScCr", "getFwt", "getBtr", "getCert", "getCsw"}

ASSUME CommitmentAssumption ==
  /\ IdOrder \in Seq(Ids)
  /\ \A i, j \in DOMAIN IdOrder : IdOrder[i] = IdOrder[j] => i = j
  /\ Ops \subseteq DOMAIN Reads
  /\ BufferSize \in Nat
  /\ WithProofs \in BOOLEAN
  /\ MaxAdds \in Nat
  /\ Null \notin Elements
  /\ Longer \in [DOMAIN Longer -> Elements]
  /\ DOMAIN Longer \cap Elements = {}
  /\ \A how \in {"fields", "nullableFields"} \cap DOMAIN Arguments :
       \A a \in Arguments[how] : a # Null => a \in Seq(Elements \cup DOMAIN Longer \cup {NoElement, WrongLength})
  /\ \A op \in Ops : \A i \in DOMAIN Reads[op] : Reads[op][i] \in DOMAIN Arguments
  /\ "id" \in DOMAIN Arguments => Arguments["id"] \cap Elements \subseteq Ids
  /\ "buffer" \in DOMAIN Arguments =>
       \A a \in Arguments["buffer"] : a # Null => a \in Seq(Nat)

VARIABLES
  tree,           \* the leaves of each sidechain and kind
  freed,          \* whether the tree object was freed
  proof,          \* the proof object in use
  call,           \* the native call in progress
  given,          \* the arguments given to it
  read,           \* what it has read of them
  answer,         \* what the last call answered
  told            \* history: the calls that were told they added something

vars == <<tree, freed, proof, call, given, read, answer, told>>

Idle == "idle"

------------------------------------------------------------------------------
(* Reading of arguments. *)

(* Mutant: the array is written to the end.                                 *)
ToBufferFromEnd(a) ==
  [i \in 1..BufferSize |->
     LET j == i - BufferSize + Len(a) IN IF j \in DOMAIN a THEN a[j] ELSE 0]

(* get_byte_array: what is missing stays zero. *)
ToBuffer(a) == [i \in 1..BufferSize |-> IF i \in DOMAIN a THEN a[i] ELSE 0]

(* FieldElement::deserialize reads the first bytes and leaves the others.   *)
Deserializable(a) == a \in Elements \cup DOMAIN Longer

FirstElement(a) == IF a \in Elements THEN a ELSE Longer[a]

(* Whether an argument can be read.  null is no array, a longer array does  *)
(* not fit into the buffer, and what is to be an element must encode one:   *)
(* a single one is checked for its length first, those of a list are not.   *)
Readable(how, a) ==
  CASE how \in {"id", "field"}     -> a \in Elements
    [] how = "nullableField"       -> a \in Elements \cup {Null}
    [] how = "buffer"              -> a # Null /\ Len(a) <= BufferSize
    [] how = "fields"              -> a # Null /\ \A i \in DOMAIN a : Deserializable(a[i])
    [] how = "nullableFields"      -> a # Null => \A i \in DOMAIN a : Deserializable(a[i])
    [] how = "transfers"           -> a # Null /\ \A i \in DOMAIN a : a[i] # WrongLength
    [] how \in {"optional", "bytes"} -> a # Null
    [] how = "nullable"            -> TRUE

(* What is read: empty lists of transfers, configurations and creation data *)
(* are taken for absent ones.                                               *)
ValueOf(how, a) ==
  CASE how = "buffer"                            -> ToBuffer(a)
    [] how \in {"optional", "transfers"} /\ a = <<>> -> Null
    [] how \in {"fields", "nullableFields"} /\ a # Null ->
         [i \in DOMAIN a |-> FirstElement(a[i])]
    [] OTHER                                     -> a

(* nativeAddScCr answers false to a sidechain id or a constant that encodes *)
(* no element, where all other functions panic.                             *)
AnsweredFalse(op, a) == op = "addScCr" /\ a = NoElement

------------------------------------------------------------------------------
(* The library of commitment trees, with an ideal hash: the commitment of a *)
(* sidechain is its id and its leaves, that of the tree the sequence of the *)
(* commitments of its sidechains, ordered by id.                            *)

NoLeaves == [k \in Kinds |-> <<>>]

EmptyTree == [s \in Ids |-> NoLeaves]

(* Mutant: leaves are added in front. *)
WithLeafInFront(t, s, k, leaf) ==
  [t EXCEPT ![s][k] = IF k = "scc" THEN <<leaf>> ELSE <<leaf>> \o @]

(* There is one creation of a sidechain: another one takes its place.       *)
WithLeaf(t, s, k, leaf) ==
  [t EXCEPT ![s][k] = IF k = "scc" THEN <<leaf>> ELSE Append(@, leaf)]

Present(t, s) == t[s] # NoLeaves

ScCommitment(t, s) == <<s, t[s]>>

(* The elements of a sequence at some of its positions, in their order, as  *)
(* far as each length of it.                                                *)
KeptUpTo(seq, positions) ==
  LET kept[n \in 0..Len(seq)] ==
        IF n = 0 THEN <<>>
        ELSE IF n \in positions THEN Append(kept[n - 1], seq[n]) ELSE kept[n - 1]
  IN  kept

Kept(seq, positions) == KeptUpTo(seq, positions)[Len(seq)]

Sorted(t) == Kept(IdOrder, {i \in DOMAIN IdOrder : Present(t, IdOrder[i])})

Commitment(t) == [i \in DOMAIN Sorted(t) |-> ScCommitment(t, Sorted(t)[i])]

(* A path: the position of a sidechain and the commitments of the others.   *)
PathTo(t, s) ==
  LET i == CHOOSE j \in DOMAIN Sorted(t) : Sorted(t)[j] = s
  IN  [index |-> i, others |-> RemoveAt(Commitment(t), i)]

LeadsTo(x, path, c) ==
  path.index \in 1..(Len(path.others) + 1) /\ InsertAt(path.others, path.index, x) = c

(* The neighbours of an absent sidechain, each with its path.               *)
Neighbour(t, s) == [sc |-> ScCommitment(t, s), path |-> PathTo(t, s)]

Before(s, u) ==
  \E i, j \in DOMAIN IdOrder : i < j /\ IdOrder[i] = s /\ IdOrder[j] = u

Neighbours(t, s) ==
  LET ids == Sorted(t)
      below == {i \in DOMAIN ids : Before(ids[i], s)}
      above == {i \in DOMAIN ids : Before(s, ids[i])}
  IN  [left  |-> IF below = {} THEN None ELSE Some(Neighbour(t, ids[Max(below)])),
       right |-> IF above = {} THEN None ELSE Some(Neighbour(t, ids[Min(above)]))]

(* No sidechain, or the only neighbour at its end of the tree, or two next  *)
(* to each other.                                                           *)
Adjacent(p, c) ==
  IF p.left = None
  THEN IF p.right = None THEN c = <<>> ELSE p.right[1].path.index = 1
  ELSE p.left[1].path.index = IF p.right = None THEN Len(c) ELSE p.right[1].path.index - 1

ProvesAbsence(s, p, c) ==
  /\ p.left # None => Before(p.left[1].sc[1], s) /\ LeadsTo(p.left[1].sc, p.left[1].path, c)
  /\ p.right # None => Before(s, p.right[1].sc[1]) /\ LeadsTo(p.right[1].sc, p.right[1].path, c)
  /\ Adjacent(p, c)

------------------------------------------------------------------------------

Answer(k, v) == [kind |-> k, value |-> v, about |-> <<>>]
NoAnswer == Answer("none", None)
Exception == Answer("exception", None)
Refused == Answer("refused", None)
Added == Answer("added", None)
Done == Answer("void", None)
Optional(v) == Answer("optional", v)
Verdict(b, s, c) == [kind |-> "verdict", value |-> b, about |-> <<s, c>>]

NoProof == [kind |-> "none", what |-> None, got |-> <<>>]

Init ==
  /\ tree = EmptyTree
  /\ freed = FALSE
  /\ proof = NoProof
  /\ call = Idle
  /\ given = <<>> /\ read = <<>>
  /\ answer = NoAnswer
  /\ told = <<>>

(* The Java methods of a tree look whether it was freed; nativeAddCertLeaf  *)
(* is public and can be called without this check, and the verification     *)
(* functions are static.                                                    *)
Unguarded == {"addCertLeaf", "verifyScAbsence"}

Invoke(op) ==
  /\ call = Idle
  /\ freed => op \in Unguarded
  /\ op \in Adds => Len(told) < MaxAdds
  /\ op = "verifyScAbsence" => proof.kind # "existence"
  /\ call' = op
  /\ answer' = NoAnswer
  /\ UNCHANGED <<tree, freed, proof, given, read, told>>

GuardRejects(op) ==
  /\ call = Idle
  /\ freed /\ op # "verifyScAbsence"
  /\ answer' = Exception
  /\ UNCHANGED <<tree, freed, proof, call, given, read, told>>

Return(a) ==
  /\ call' = Idle
  /\ given' = <<>> /\ read' = <<>>
  /\ answer' = a

Reading == call # Idle /\ Len(read) < Len(Reads[call])

How == Reads[call][Len(read) + 1]

(* Mutant: a forward transfer makes room for the sidechain as soon as its   *)
(* id is read.                                                              *)
ReadArgumentAdding(a) ==
  /\ Reading
  /\ Readable(How, a)
  /\ given' = Append(given, a)
  /\ read' = Append(read, ValueOf(How, a))
  /\ tree' = IF call = "addFwt" /\ read = <<>> /\ ~freed
             THEN WithLeaf(tree, a, "fwt", <<>>) ELSE tree
  /\ UNCHANGED <<freed, proof, call, answer, told>>

ReadArgument(a) ==
  /\ Reading
  /\ Readable(How, a)
  /\ given' = Append(given, a)
  /\ read' = Append(read, ValueOf(How, a))
  /\ UNCHANGED <<tree, freed, proof, call, answer, told>>

ReadFails(a) ==
  /\ Reading
  /\ ~Readable(How, a)
  /\ Return(IF AnsweredFalse(call, a) THEN Refused ELSE Exception)
  /\ UNCHANGED <<tree, freed, proof, told>>

ReadAll(ops) == call \in ops /\ Len(read) = Len(Reads[call])

(* read_mut_raw_pointer: NullPointerException. *)
TreeGone ==
  /\ freed
  /\ ReadAll(Ops \ {"verifyScAbsence"})
  /\ Return(Exception)
  /\ UNCHANGED <<tree, freed, proof, told>>

(* Mutant: certificates go to the list of requests. *)
AddMisfiled ==
  /\ ~freed
  /\ ReadAll(Adds)
  /\ tree' = WithLeaf(tree, read[1], IF call = "addCert" THEN "bwtr" ELSE KindOf[call], Tail(read))
  /\ told' = Append(told, [op |-> call, args |-> given])
  /\ Return(Added)
  /\ UNCHANGED <<freed, proof>>

(* add_scc, add_fwt, add_bwtr, add_cert, add_cert_leaf, add_csw *)
Add ==
  /\ ~freed
  /\ ReadAll(Adds)
  /\ tree' = WithLeaf(tree, read[1], KindOf[call], Tail(read))
  /\ told' = Append(told, [op |-> call, args |-> given])
  /\ Return(Added)
  /\ UNCHANGED <<freed, proof>>

(* The library may refuse, for instance when a list is full. *)
Refuse ==
  /\ ~freed
  /\ ReadAll(Adds)
  /\ Return(Refused)
  /\ UNCHANGED <<tree, freed, proof, told>>

(* Commitments of one kind.  Before the first output of a sidechain there   *)
(* is none; what an existing sidechain answers for a kind it has nothing of *)
(* is up to the library.                                                    *)
GetKind ==
  /\ ~freed
  /\ ReadAll(Getters)
  /\ LET leaves == tree[read[1]][KindOf[call]] IN
     \/ Present(tree, read[1]) /\ Return(Optional(Some(leaves)))
     \/ leaves = <<>> /\ Return(Optional(None))
  /\ UNCHANGED <<tree, freed, proof, told>>

(* The leaves of certificates, each in an object of its own, in their order.*)
GetCrtLeaves ==
  /\ ~freed
  /\ ReadAll({"getCrtLeaves"})
  /\ LET leaves == tree[read[1]]["cert"] IN
     \/ Present(tree, read[1]) /\ Return(Optional(Some(leaves)))
     \/ leaves = <<>> /\ Return(Optional(None))
  /\ UNCHANGED <<tree, freed, proof, told>>

GetScCommitment ==
  /\ ~freed
  /\ ReadAll({"getScCommitment"})
  /\ Return(Optional(IF Present(tree, read[1]) THEN Some(ScCommitment(tree, read[1])) ELSE None))
  /\ UNCHANGED <<tree, freed, proof, told>>

GetCommitment ==
  /\ ~freed
  /\ ReadAll({"getCommitment"})
  /\ Return(Optional(Some(Commitment(tree))))
  /\ UNCHANGED <<tree, freed, proof, told>>

(* Mutant: the proof of the first sidechain, whichever is asked for. *)
GetFirstExistenceProof ==
  /\ ~freed
  /\ ReadAll({"getScExistenceProof"})
  /\ IF Present(tree, read[1])
     THEN /\ proof' = [kind |-> "existence", what |-> PathTo(tree, Sorted(tree)[1]),
                       got |-> <<read[1], tree>>]
          /\ Return(Optional(Some("proof")))
     ELSE Return(Optional(None)) /\ UNCHANGED proof
  /\ UNCHANGED <<tree, freed, told>>

(* A proof object remembers, for the properties, the sidechain and the tree *)
(* it was got for.                                                          *)
GetScExistenceProof ==
  /\ ~freed
  /\ ReadAll({"getScExistenceProof"})
  /\ IF Present(tree, read[1])
     THEN /\ proof' = [kind |-> "existence", what |-> PathTo(tree, read[1]),
                       got |-> <<read[1], tree>>]
          /\ Return(Optional(Some("proof")))
     ELSE Return(Optional(None)) /\ UNCHANGED proof
  /\ UNCHANGED <<tree, freed, told>>

(* Mutant: the test for presence is left out. *)
GetAnyAbsenceProof ==
  /\ ~freed
  /\ ReadAll({"getScAbsenceProof"})
  /\ proof' = [kind |-> "absence", what |-> Neighbours(tree, read[1]),
               got |-> <<read[1], tree>>]
  /\ Return(Optional(Some("proof")))
  /\ UNCHANGED <<tree, freed, told>>

GetScAbsenceProof ==
  /\ ~freed
  /\ ReadAll({"getScAbsenceProof"})
  /\ IF Present(tree, read[1])
     THEN Return(Optional(None)) /\ UNCHANGED proof
     ELSE /\ proof' = [kind |-> "absence", what |-> Neighbours(tree, read[1]),
                       got |-> <<read[1], tree>>]
          /\ Return(Optional(Some("proof")))
  /\ UNCHANGED <<tree, freed, told>>

FreeCommitmentTree ==
  /\ call = Idle
  /\ freed' = TRUE
  /\ answer' = Done
  /\ UNCHANGED <<tree, proof, call, given, read, told>>

------------------------------------------------------------------------------
(* Proof objects. *)

(* The leaves after the first n calls that added one: what commitments and  *)
(* paths the application may have kept are of these trees.                  *)
Replay(calls) ==
  LET Step(t, c) ==
        WithLeaf(t, c.args[1], KindOf[c.op],
                 [i \in 1..(Len(c.args) - 1) |-> ValueOf(Reads[c.op][i + 1], c.args[i + 1])])
  IN  FoldLeft(Step, EmptyTree, calls)

Trees == {Replay(SubSeq(told, 1, n)) : n \in 0..Len(told)}

ScCommitments == UNION {{ScCommitment(t, s) : s \in {u \in Ids : Present(t, u)}} : t \in Trees}

(* Any bytes that are a proof: paths and neighbours of whatever tree, put   *)
(* together at will.                                                        *)
ForeignPaths ==
  {[p EXCEPT !.index = i] :
     p \in UNION {{PathTo(t, s) : s \in {u \in Ids : Present(t, u)}} : t \in Trees},
     i \in 1..2}

AnyNeighbours ==
  {None} \cup UNION {{Some(Neighbour(t, s)) : s \in {u \in Ids : Present(t, u)}} : t \in Trees}

ForeignNeighbours == [left : AnyNeighbours, right : AnyNeighbours]

(* nativeDeserialize of either class: bytes that are no proof give null.    *)
Deserialize(k, p) ==
  /\ call = Idle
  /\ proof' = [kind |-> k, what |-> p, got |-> <<>>]
  /\ answer' = Optional(Some("proof"))
  /\ UNCHANGED <<tree, freed, call, given, read, told>>

DeserializeFails ==
  /\ call = Idle
  /\ answer' = Optional(None)
  /\ UNCHANGED <<tree, freed, proof, call, given, read, told>>

(* freeScExistenceProof, freeScAbsenceProof *)
FreeProof ==
  /\ call = Idle
  /\ proof' = NoProof
  /\ answer' = Done
  /\ UNCHANGED <<tree, freed, call, given, read, told>>

(* Mutant: the proof is taken at its word. *)
VerifyAnyCommitment(x, c) ==
  /\ call = Idle
  /\ proof.kind # "absence"
  /\ answer' = IF proof.kind = "none" THEN Exception ELSE Verdict(TRUE, x, c)
  /\ UNCHANGED <<tree, freed, proof, call, given, read, told>>

(* verifyScCommitment: a freed proof raises NullPointerException.           *)
VerifyScCommitment(x, c) ==
  /\ call = Idle
  /\ proof.kind # "absence"
  /\ answer' = IF proof.kind = "none" THEN Exception
               ELSE Verdict(LeadsTo(x, proof.what, c), x, c)
  /\ UNCHANGED <<tree, freed, proof, call, given, read, told>>

VerifyScAbsence(c) ==
  /\ ReadAll({"verifyScAbsence"})
  /\ Return(IF proof.kind = "none" THEN Exception
            ELSE Verdict(ProvesAbsence(read[1], proof.what, c), read[1], c))
  /\ UNCHANGED <<tree, freed, proof, told>>

------------------------------------------------------------------------------

ProofCall ==
  \/ FreeProof
  \/ DeserializeFails
  \/ \E p \in ForeignPaths : Deserialize("existence", p)
  \/ \E p \in ForeignNeighbours : Deserialize("absence", p)
  \/ \E x \in ScCommitments, t \in Trees : VerifyScCommitment(x, Commitment(t))

Java ==
  \/ \E op \in Ops : Invoke(op) \/ GuardRejects(op)
  \/ FreeCommitmentTree
  \/ WithProofs /\ ProofCall

Native ==
  \/ Reading /\ \E a \in Arguments[How] : ReadArgument(a) \/ ReadFails(a)
  \/ TreeGone \/ Add \/ Refuse
  \/ GetKind \/ GetCrtLeaves \/ GetScCommitment \/ GetCommitment
  \/ GetScExistenceProof \/ GetScAbsenceProof
  \/ \E t \in Trees : VerifyScAbsence(Commitment(t))

Next == Java \/ Native

Spec == Init /\ [][Next]_vars

------------------------------------------------------------------------------

(* What can be read of the arguments the application may give. *)
Values ==
  UNION {{ValueOf(how, a) : a \in {b \in Arguments[how] : Readable(how, b)}} :
           how \in DOMAIN Arguments}

TypeOK ==
  /\ tree \in [Ids -> [Kinds -> Seq(Seq(Values))]]
  /\ freed \in BOOLEAN
  /\ call \in Ops \cup {Idle}
  /\ read \in Seq(Values)
  /\ Len(given) = Len(read)
  /\ call = Idle => read = <<>>
  /\ call # Idle =>
       /\ Len(read) <= Len(Reads[call])
       /\ \A i \in DOMAIN read :
            Reads[call][i] = "buffer" => read[i] \in [1..BufferSize -> Nat]

(* The commitment tree keeps the promise of the ledger: however far a call  *)
(* came in reading its arguments, it has added one leaf and says so, or it  *)
(* has changed nothing.                                                     *)
Ledger == INSTANCE CommitmentLedger WITH
  Sidechains <- Ids,
  leaves <- tree,
  busy <- call # Idle,
  outcome <- CASE answer.kind = "none"  -> "none"
               [] answer.kind = "added" -> "added"
               [] OTHER                 -> "other"

AtomicCalls == Ledger!Spec

(* An output is committed as the application gave it: a field element and a *)
(* list of transfers as they are, an empty one of those that may be missing *)
(* as a missing one, an array of bytes followed by zeros up to the fixed    *)
(* length; of the request data and custom fields (lib.rs:2657, 2778), which *)
(* may be too long, each by the element it starts with, in its place.       *)
CommittedAs(how, a, v) ==
  CASE how = "buffer" ->
         \E n \in 0..BufferSize : a \o [i \in 1..n |-> 0] = v /\ Len(v) = BufferSize
    [] how \in {"optional", "transfers"} -> v = (IF a = <<>> THEN Null ELSE a)
    [] how \in {"fields", "nullableFields"} /\ a # Null ->
         /\ Len(v) = Len(a)
         /\ \A i \in 1..Len(a) : v[i] = IF a[i] \in Elements THEN a[i] ELSE Longer[a[i]]
    [] OTHER -> v = a

AddsWhatWasGiven ==
  [][call # Idle /\ answer'.kind = "added" =>
       LET list == tree'[given[1]][KindOf[call]]
           leaf == list[Len(list)]
       IN  /\ Len(leaf) + 1 = Len(given)
           /\ \A i \in DOMAIN leaf : CommittedAs(Reads[call][i + 1], given[i + 1], leaf[i])]_vars

(* What the getters answer agrees with what the application was told        *)
(* before: nothing for a sidechain nothing was added to; something once an  *)
(* output of the kind was added, and then all of them, the leaves of        *)
(* certificates in the order they were added; after an exception or a       *)
(* refusal the same as before.                                              *)
ToldOf(s, k) ==
  Kept(told, {i \in DOMAIN told : told[i].args[1] = s /\ KindOf[told[i].op] = k})

Agrees(op, s, v) ==
  LET mine == ToldOf(s, KindOf[op])  n == Len(mine) IN
  /\ n > 0 => v # None
  /\ v # None =>
       /\ \E k \in Kinds : ToldOf(s, k) # <<>>
       /\ Len(v[1]) = IF op = "getScCr" /\ n > 0 THEN 1 ELSE n
       /\ \A i \in DOMAIN mine : mine[i].op = "addCertLeaf" => v[1][i] = <<mine[i].args[2]>>

GettersAgree ==
  [][answer'.kind = "optional" /\ call \in Getters \cup {"getCrtLeaves"} =>
       Agrees(call, read[1], answer'.value)]_vars

(* For every sidechain exactly one of the two proofs can be had: that of    *)
(* existence as soon as one output of it was added, that of absence before, *)
(* whatever calls failed in between.                                        *)
ExactlyOneProof ==
  [][answer'.kind = "optional" /\ call \in {"getScExistenceProof", "getScAbsenceProof"} =>
       (answer'.value # None) =
         ((call = "getScExistenceProof") = \E i \in DOMAIN told : told[i].args[1] = read[1])]_vars

(* No proof, be it stale, of another tree or put together from several,     *)
(* proves a commitment that is not in the tree, or the absence of a         *)
(* sidechain that is in it.                                                 *)
VerifySound ==
  answer.kind = "verdict" /\ answer.value =>
    LET x == answer.about[1]  c == answer.about[2] IN
    IF proof.kind = "existence" THEN \E i \in DOMAIN c : c[i] = x
    ELSE \A i \in DOMAIN c : c[i][1] # x

(* A proof keeps proving what it was got for, against the commitment of the *)
(* tree as it was, whatever is added later and after the tree was freed;    *)
(* and one of absence that of every sidechain between the same neighbours.  *)
ProofsComplete ==
  answer.kind = "verdict" /\ proof.got # <<>> =>
    LET s == proof.got[1]  t == proof.got[2]  x == answer.about[1]
        proves == IF proof.kind = "existence" THEN x = ScCommitment(t, s)
                  ELSE ~Present(t, x) /\ Neighbours(t, x) = Neighbours(t, s)
    IN  answer.about[2] = Commitment(t) /\ proves => answer.value

==============================================================================
