------------------------ MODULE CommitmentTreeProof ------------------------
(***************************************************************************)
(* Proofs about CommitmentTree, for any sidechains, arguments and bounds:  *)
(* that a call, which reads its arguments in many steps, any of which may  *)
(* fail, is one step of the ledger; that the tree holds what was added as  *)
(* it was given, and the getters tell it; and that its proofs of existence *)
(* and of absence are complete and sound.                                  *)
(***************************************************************************)
EXTENDS CommitmentTree, SequenceTheorems, WellFoundedInduction, TLAPS

(* The operations that read anything read the id of a sidechain first.      *)
LEMMA ReadsTyped ==
  ASSUME NEW op \in DOMAIN Reads
  PROVE  /\ Len(Reads[op]) \in Nat
         /\ DOMAIN Reads[op] = 1..Len(Reads[op])
         /\ Len(Reads[op]) > 0 => Reads[op][1] = "id"
         /\ op # Idle
<1>1. op \in {"addScCr", "addFwt", "addBtr", "addCert", "addCertLeaf", "addCsw",
          "getScCr", "getFwt", "getBtr", "getCert", "getCsw", "getCrtLeaves",
          "getScCommitment", "getCommitment", "getScExistenceProof",
          "getScAbsenceProof", "verifyScAbsence"}
  BY DEF Reads
<1>2. op # Idle
  BY <1>1 DEF Idle
<1>3. CASE op = "addScCr"
  <2>1. Reads[op] = <<"id", "buffer", "buffer", "optional", "optional", "optional",
                    "nullableField", "bytes", "nullable">>
    BY <1>3 DEF Reads, ScCrReads
  <2> QED BY <2>1, <1>2
<1>4. CASE op = "addFwt"
  <2>1. Reads[op] = <<"id", "buffer", "buffer", "buffer">>
    BY <1>4 DEF Reads, FwtReads
  <2> QED BY <2>1, <1>2
<1>5. CASE op = "addBtr"
  <2>1. Reads[op] = <<"id", "buffer", "fields", "buffer">>
    BY <1>5 DEF Reads, BtrReads
  <2> QED BY <2>1, <1>2
<1>6. CASE op = "addCert"
  <2>1. Reads[op] = <<"id", "transfers", "nullableFields", "field">>
    BY <1>6 DEF Reads, CertReads
  <2> QED BY <2>1, <1>2
<1>7. CASE op = "addCertLeaf"
  <2>1. Reads[op] = <<"id", "field">>
    BY <1>7 DEF Reads, CertLeafReads
  <2> QED BY <2>1, <1>2
<1>8. CASE op = "addCsw"
  <2>1. Reads[op] = <<"id", "field", "buffer">>
    BY <1>8 DEF Reads, CswReads
  <2> QED BY <2>1, <1>2
<1>9. CASE op = "getScCr"
  <2>1. Reads[op] = <<"id">>
    BY <1>9 DEF Reads
  <2> QED BY <2>1, <1>2
<1>10. CASE op = "getFwt"
  <2>1. Reads[op] = <<"id">>
    BY <1>10 DEF Reads
  <2> QED BY <2>1, <1>2
<1>11. CASE op = "getBtr"
  <2>1. Reads[op] = <<"id">>
    BY <1>11 DEF Reads
  <2> QED BY <2>1, <1>2
<1>12. CASE op = "getCert"
  <2>1. Reads[op] = <<"id">>
    BY <1>12 DEF Reads
  <2> QED BY <2>1, <1>2
<1>13. CASE op = "getCsw"
  <2>1. Reads[op] = <<"id">>
    BY <1>13 DEF Reads
  <2> QED BY <2>1, <1>2
<1>14. CASE op = "getCrtLeaves"
  <2>1. Reads[op] = <<"id">>
    BY <1>14 DEF Reads
  <2> QED BY <2>1, <1>2
<1>15. CASE op = "getScCommitment"
  <2>1. Reads[op] = <<"id">>
    BY <1>15 DEF Reads
  <2> QED BY <2>1, <1>2
<1>16. CASE op = "getCommitment"
  <2>1. Reads[op] = <<>>
    BY <1>16 DEF Reads
  <2> QED BY <2>1, <1>2
<1>17. CASE op = "getScExistenceProof"
  <2>1. Reads[op] = <<"id">>
    BY <1>17 DEF Reads
  <2> QED BY <2>1, <1>2
<1>18. CASE op = "getScAbsenceProof"
  <2>1. Reads[op] = <<"id">>
    BY <1>18 DEF Reads
  <2> QED BY <2>1, <1>2
<1>19. CASE op = "verifyScAbsence"
  <2>1. Reads[op] = <<"id">>
    BY <1>19 DEF Reads
  <2> QED BY <2>1, <1>2
<1> QED BY <1>1, <1>3, <1>4, <1>5, <1>6, <1>7, <1>8, <1>9, <1>10, <1>11, <1>12,
             <1>13, <1>14, <1>15, <1>16, <1>17, <1>18, <1>19

LEMMA AddsTyped ==
  ASSUME NEW op \in Adds
  PROVE  /\ op \in DOMAIN Reads
         /\ Len(Reads[op]) > 0
         /\ KindOf[op] \in Kinds
<1>1. op \in {"addScCr", "addFwt", "addBtr", "addCert", "addCertLeaf", "addCsw"}
  BY DEF Adds
<1>2. op \in DOMAIN Reads
  BY <1>1 DEF Reads
<1>3. Len(Reads[op]) > 0
  <2>1. CASE op = "addScCr"
    BY <2>1 DEF Reads, ScCrReads
  <2>2. CASE op = "addFwt"
    BY <2>2 DEF Reads, FwtReads
  <2>3. CASE op = "addBtr"
    BY <2>3 DEF Reads, BtrReads
  <2>4. CASE op = "addCert"
    BY <2>4 DEF Reads, CertReads
  <2>5. CASE op = "addCertLeaf"
    BY <2>5 DEF Reads, CertLeafReads
  <2>6. CASE op = "addCsw"
    BY <2>6 DEF Reads, CswReads
  <2> QED BY <1>1, <2>1, <2>2, <2>3, <2>4, <2>5, <2>6
<1>4. KindOf[op] \in Kinds
  BY <1>1 DEF KindOf, Kinds
<1> QED BY <1>2, <1>3, <1>4

(* The id a call has read is one of a sidechain. *)
IdRead == call # Idle /\ read # <<>> => read[1] \in Ids

IInv == TypeOK /\ IdRead

(* A buffer holds the fixed number of bytes. *)
LEMMA BufferTyped ==
  ASSUME NEW a \in Seq(Nat)
  PROVE  ToBuffer(a) \in [1..BufferSize -> Nat]
<1>1. \A i \in 1..BufferSize : (IF i \in DOMAIN a THEN a[i] ELSE 0) \in Nat
  OBVIOUS
<1> QED BY <1>1 DEF ToBuffer

LEMMA WithLeafTyped ==
  ASSUME NEW S, NEW t \in [Ids -> [Kinds -> Seq(S)]], NEW s \in Ids, NEW k \in Kinds,
         NEW leaf \in S
  PROVE  /\ WithLeaf(t, s, k, leaf) \in [Ids -> [Kinds -> Seq(S)]]
         /\ WithLeaf(t, s, k, leaf) =
              [t EXCEPT ![s][k] = WithLeaf(t, s, k, leaf)[s][k]]
         /\ Ledger!OneMore(k, t[s][k], WithLeaf(t, s, k, leaf)[s][k])
<1> DEFINE old == t[s][k]
           new == IF k = "scc" THEN <<leaf>> ELSE Append(old, leaf)
<1>1. old \in Seq(S)
  OBVIOUS
<1>2. new \in Seq(S)
  BY <1>1
<1>3. WithLeaf(t, s, k, leaf) = [t EXCEPT ![s][k] = new]
  BY DEF WithLeaf
<1>4. WithLeaf(t, s, k, leaf)[s][k] = new
  BY <1>3
<1>5. Ledger!OneMore(k, old, new)
  <2>1. CASE k = "scc"
    BY <2>1 DEF Ledger!OneMore
  <2>2. CASE k # "scc"
    <3>1. Len(new) = Len(old) + 1
      BY <1>1, <2>2
    <3>2. SubSeq(new, 1, Len(old)) = old
      BY <1>1, <2>2
    <3> QED BY <2>2, <3>1, <3>2 DEF Ledger!OneMore
  <2> QED BY <2>1, <2>2
<1>6. [t EXCEPT ![s][k] = new] \in [Ids -> [Kinds -> Seq(S)]]
  BY <1>2
<1> HIDE DEF new
<1> QED BY <1>3, <1>4, <1>5, <1>6

LEMMA InitIInv == Init => IInv
<1> SUFFICES ASSUME Init PROVE IInv
  OBVIOUS
<1>1. tree \in [Ids -> [Kinds -> Seq(Seq(Values))]]
  BY DEF Init, EmptyTree, NoLeaves
<1>2. /\ freed \in BOOLEAN /\ call \in Ops \cup {Idle} /\ call = Idle
      /\ read = <<>> /\ given = <<>>
  BY DEF Init
<1>3. read \in Seq(Values) /\ Len(given) = Len(read)
  BY <1>2
<1> QED BY <1>1, <1>2, <1>3 DEF IInv, TypeOK, IdRead

(* A step that ends a call, or that leaves it where it is.                  *)
LEMMA Ends ==
  ASSUME IInv,
         tree' \in [Ids -> [Kinds -> Seq(Seq(Values))]],
         freed' \in BOOLEAN,
         \/ call' = Idle /\ given' = <<>> /\ read' = <<>>
         \/ UNCHANGED <<call, given, read>>
  PROVE  IInv'
<1>1. CASE call' = Idle /\ given' = <<>> /\ read' = <<>>
  BY <1>1 DEF IInv, TypeOK, IdRead
<1>2. CASE UNCHANGED <<call, given, read>>
  <2>1. IdRead'
    BY <1>2 DEF IInv, IdRead
  <2>2. TypeOK'
    BY <1>2 DEF IInv, TypeOK, Values
  <2> QED BY <2>1, <2>2 DEF IInv
<1> QED BY <1>1, <1>2

LEMMA ReadArgumentIInv ==
  ASSUME IInv, Reading, NEW a \in Arguments[How], ReadArgument(a)
  PROVE  IInv'
<1> DEFINE n == Len(read)
           v == ValueOf(How, a)
<1>1. /\ call \in Ops /\ call # Idle /\ call \in DOMAIN Reads
      /\ read \in Seq(Values) /\ Len(given) = n /\ n < Len(Reads[call]) /\ n \in Nat
      /\ Readable(How, a) /\ read' = Append(read, v) /\ given' = Append(given, a)
      /\ UNCHANGED <<tree, freed, call>>
  BY CommitmentAssumption DEF IInv, TypeOK, Reading, ReadArgument
<1>2. /\ DOMAIN Reads[call] = 1..Len(Reads[call]) /\ Len(Reads[call]) \in Nat
      /\ Reads[call][1] = "id"
  BY <1>1, ReadsTyped
<1>3. How = Reads[call][n + 1] /\ n + 1 \in DOMAIN Reads[call] /\ How \in DOMAIN Arguments
  BY <1>1, <1>2, CommitmentAssumption DEF How
<1>4. v \in Values
  BY <1>1, <1>3 DEF Values
<1>5. How = "buffer" => v \in [1..BufferSize -> Nat]
  <2> SUFFICES ASSUME How = "buffer" PROVE v \in [1..BufferSize -> Nat]
    OBVIOUS
  <2>1. a # Null /\ a \in Seq(Nat)
    BY <1>1, <1>3, CommitmentAssumption DEF Readable
  <2>2. v = ToBuffer(a)
    BY DEF ValueOf
  <2> QED BY <2>1, <2>2, BufferTyped
<1>6. IdRead'
  <2>1. CASE n = 0
    <3>1. How = "id"
      BY <2>1, <1>1, <1>2, <1>3
    <3>2. v = a /\ a \in Ids
      BY <3>1, <1>1, <1>3, CommitmentAssumption DEF Readable, ValueOf
    <3> QED BY <3>2, <2>1, <1>1 DEF IdRead
  <2>2. CASE n > 0
    <3>1. read'[1] = read[1] /\ read # <<>>
      BY <2>2, <1>1
    <3> QED BY <3>1, <1>1 DEF IInv, IdRead
  <2> QED BY <2>1, <2>2, <1>1
<1>7. read' \in Seq(Values) /\ Len(read') = n + 1 /\ Len(given') = n + 1
  BY <1>1, <1>4
<1>8. \A i \in DOMAIN read' :
        Reads[call][i] = "buffer" => read'[i] \in [1..BufferSize -> Nat]
  <2> SUFFICES ASSUME NEW i \in DOMAIN read', Reads[call][i] = "buffer"
               PROVE  read'[i] \in [1..BufferSize -> Nat]
    OBVIOUS
  <2>1. CASE i = n + 1
    BY <2>1, <1>1, <1>3, <1>5
  <2>2. CASE i \in 1..n
    BY <2>2, <1>1 DEF IInv, TypeOK
  <2> QED BY <2>1, <2>2, <1>1
<1>9. TypeOK'
  <2>1. /\ tree' \in [Ids -> [Kinds -> Seq(Seq(Values))]]
        /\ freed' \in BOOLEAN /\ call' \in Ops \cup {Idle}
    BY <1>1 DEF IInv, TypeOK
  <2>2. Len(read') <= Len(Reads[call])
    BY <1>1, <1>2, <1>7
  <2> QED BY <2>1, <2>2, <1>1, <1>7, <1>8 DEF TypeOK
<1> QED BY <1>6, <1>9 DEF IInv

LEMMA InvokeIInv ==
  ASSUME IInv, NEW op \in Ops, Invoke(op)
  PROVE  IInv'
<1>1. /\ read = <<>> /\ call' = op /\ op \in Ops
      /\ UNCHANGED <<tree, freed, given, read>>
  BY DEF IInv, TypeOK, Invoke
<1>2. Len(read') <= Len(Reads[op])
  BY <1>1, ReadsTyped, CommitmentAssumption
<1>3. op # Idle
  BY ReadsTyped, CommitmentAssumption
<1> QED BY <1>1, <1>2, <1>3 DEF IInv, TypeOK, IdRead, Values

(* What a call adds is a leaf of a sidechain.                               *)
LEMMA AddIsOneLeaf ==
  ASSUME IInv, Add
  PROVE  /\ read[1] \in Ids /\ KindOf[call] \in Kinds
         /\ tree' \in [Ids -> [Kinds -> Seq(Seq(Values))]]
         /\ tree' = [tree EXCEPT ![read[1]][KindOf[call]] = tree'[read[1]][KindOf[call]]]
         /\ Ledger!OneMore(KindOf[call], tree[read[1]][KindOf[call]],
                           tree'[read[1]][KindOf[call]])
<1>1. /\ call \in Adds /\ Len(read) = Len(Reads[call]) /\ call # Idle
      /\ tree' = WithLeaf(tree, read[1], KindOf[call], Tail(read))
  BY AddsTyped, ReadsTyped DEF Add, ReadAll
<1>2. Len(read) > 0 /\ KindOf[call] \in Kinds
  BY <1>1, AddsTyped
<1>3. read \in Seq(Values) /\ tree \in [Ids -> [Kinds -> Seq(Seq(Values))]]
  BY DEF IInv, TypeOK
<1>4. read[1] \in Ids
  BY <1>1, <1>2, <1>3 DEF IInv, IdRead
<1>5. Tail(read) \in Seq(Values)
  BY <1>2, <1>3
<1> DEFINE new == WithLeaf(tree, read[1], KindOf[call], Tail(read))
<1>6. /\ new \in [Ids -> [Kinds -> Seq(Seq(Values))]]
      /\ new = [tree EXCEPT ![read[1]][KindOf[call]] = new[read[1]][KindOf[call]]]
      /\ Ledger!OneMore(KindOf[call], tree[read[1]][KindOf[call]],
                        new[read[1]][KindOf[call]])
  BY <1>2, <1>3, <1>4, <1>5, WithLeafTyped
<1> HIDE DEF new
<1>7. tree' = new
  BY <1>1 DEF new
<1> QED BY <1>2, <1>4, <1>6, <1>7

(* Every step but the three kinds treated above ends a call, or is one by   *)
(* itself, and leaves the tree as it was.                                   *)
Ending ==
  /\ UNCHANGED <<tree, told>>
  /\ freed' \in BOOLEAN
  /\ \/ call' = Idle /\ given' = <<>> /\ read' = <<>>
     \/ UNCHANGED <<call, given, read>> /\ call = Idle
  /\ answer'.kind \notin {"none", "added"}

LEMMA StepCases ==
  ASSUME IInv, Next
  PROVE  \/ \E op \in Ops : Invoke(op)
         \/ Reading /\ \E a \in Arguments[How] : ReadArgument(a)
         \/ Add
         \/ Ending
<1> USE DEF Done, Exception, Refused, Optional, Verdict, Answer
<1>0. freed \in BOOLEAN
  BY DEF IInv, TypeOK
<1>1. ASSUME NEW op \in Ops, GuardRejects(op)  PROVE Ending
  BY <1>0, <1>1 DEF GuardRejects, Ending
<1>2. CASE FreeCommitmentTree
  BY <1>2 DEF FreeCommitmentTree, Ending
<1>3. ASSUME ProofCall PROVE Ending
  <2>1. CASE FreeProof
    BY <1>0, <2>1 DEF FreeProof, Ending
  <2>2. CASE DeserializeFails
    BY <1>0, <2>2 DEF DeserializeFails, Ending
  <2>3. ASSUME NEW k, NEW p, Deserialize(k, p)  PROVE Ending
    BY <1>0, <2>3 DEF Deserialize, Ending
  <2>4. ASSUME NEW x, NEW c, VerifyScCommitment(x, c)  PROVE Ending
    BY <1>0, <2>4 DEF VerifyScCommitment, Ending
  <2> QED BY <1>3, <2>1, <2>2, <2>3, <2>4 DEF ProofCall
<1>4. ASSUME NEW a, ReadFails(a)  PROVE Ending
  BY <1>0, <1>4 DEF ReadFails, Return, Ending
<1>5. CASE TreeGone
  BY <1>0, <1>5 DEF TreeGone, Return, Ending
<1>6. CASE Refuse
  BY <1>0, <1>6 DEF Refuse, Return, Ending
<1>7. CASE GetKind
  BY <1>0, <1>7 DEF GetKind, Return, Ending
<1>15. CASE GetCrtLeaves
  BY <1>0, <1>15 DEF GetCrtLeaves, Return, Ending
<1>8. CASE GetScCommitment
  BY <1>0, <1>8 DEF GetScCommitment, Return, Ending
<1>9. CASE GetCommitment
  BY <1>0, <1>9 DEF GetCommitment, Return, Ending
<1>10. CASE GetScExistenceProof
  BY <1>0, <1>10 DEF GetScExistenceProof, Return, Ending
<1>11. CASE GetScAbsenceProof
  BY <1>0, <1>11 DEF GetScAbsenceProof, Return, Ending
<1>12. ASSUME NEW c, VerifyScAbsence(c)  PROVE Ending
  BY <1>0, <1>12 DEF VerifyScAbsence, Return, Ending
<1>13. CASE Java
  BY <1>13, <1>1, <1>2, <1>3 DEF Java
<1>14. CASE Native
  BY <1>14, <1>4, <1>5, <1>6, <1>7, <1>8, <1>9, <1>10, <1>11, <1>12, <1>15
     DEF Native
<1> QED BY <1>13, <1>14 DEF Next

LEMMA NextIInv == IInv /\ [Next]_vars => IInv'
<1> SUFFICES ASSUME IInv, [Next]_vars  PROVE IInv'
  OBVIOUS
<1>0. tree \in [Ids -> [Kinds -> Seq(Seq(Values))]] /\ freed \in BOOLEAN
  BY DEF IInv, TypeOK
<1>1. CASE UNCHANGED vars
  BY <1>0, <1>1, Ends DEF vars
<1>2. ASSUME NEW op \in Ops, Invoke(op)  PROVE IInv'
  BY <1>2, InvokeIInv
<1>3. ASSUME Reading, NEW a \in Arguments[How], ReadArgument(a)  PROVE IInv'
  BY <1>3, ReadArgumentIInv
<1>4. CASE Add
  BY <1>0, <1>4, AddIsOneLeaf, Ends DEF Add, Return
<1>5. CASE Ending
  BY <1>0, <1>5, Ends DEF Ending
<1> QED BY <1>1, <1>2, <1>3, <1>4, <1>5, StepCases

(* The tree, a call in progress and what was read of it are well formed;    *)
(* every buffer holds the fixed number of bytes.                            *)
THEOREM TypeInvariance == Spec => []TypeOK
<1>1. IInv => TypeOK
  BY DEF IInv
<1> QED BY <1>1, InitIInv, NextIInv, PTL DEF Spec

LEMMA InitLedger == Init => Ledger!Init
BY DEF Init, Ledger!Init, EmptyTree, NoLeaves, NoAnswer, Answer

LEMMA NextLedger ==
  ASSUME IInv, [Next]_vars
  PROVE  [Ledger!Next]_(Ledger!vars)
<1>1. CASE UNCHANGED vars
  BY <1>1 DEF vars, Ledger!vars
<1>2. ASSUME NEW op \in Ops, Invoke(op)  PROVE Ledger!Start
  <2>1. op # Idle
    BY ReadsTyped, CommitmentAssumption
  <2> QED BY <1>2, <2>1 DEF Invoke, Ledger!Start, NoAnswer, Answer
<1>3. ASSUME NEW a, ReadArgument(a)  PROVE UNCHANGED Ledger!vars
  BY <1>3 DEF ReadArgument, Ledger!vars
<1>4. ASSUME Add  PROVE Ledger!AddLeaf(read[1], KindOf[call])
  <2>1. call # Idle /\ call' = Idle /\ answer'.kind = "added"
    BY <1>4, AddsTyped, ReadsTyped DEF Add, ReadAll, Return, Added, Answer
  <2> QED BY <1>4, <2>1, AddIsOneLeaf DEF Ledger!AddLeaf
<1>5. ASSUME Ending  PROVE Ledger!Other
  BY <1>5 DEF Ending, Ledger!Other
<1> QED BY <1>1, <1>2, <1>3, <1>4, <1>5, StepCases, AddIsOneLeaf DEF Ledger!Next

(* A call reads its arguments in many steps, each of which may end it; to   *)
(* the application it is one step of the ledger: it added one leaf and says *)
(* so, or it left the tree as it was.                                       *)
THEOREM CallsAreAtomic == Spec => AtomicCalls
<1>1. Init /\ IInv => Ledger!Init
  BY InitLedger
<1>2. IInv /\ [Next]_vars => [Ledger!Next]_(Ledger!vars)
  BY NextLedger
<1> QED BY <1>1, <1>2, InitIInv, NextIInv, PTL DEF Spec, AtomicCalls, Ledger!Spec

-----------------------------------------------------------------------------
(* Induction on the length of a sequence, about a set in place of a         *)
(* predicate.                                                               *)

LEMMA SetInductionUpTo ==
  ASSUME NEW n \in Nat, NEW T, 0 \in T, \A k \in 0..(n - 1) : k \in T => k + 1 \in T
  PROVE  \A k \in 0..n : k \in T
<1> DEFINE S == {k \in Nat : k > n \/ k \in T}
<1> SUFFICES ASSUME Nat \ S # {} PROVE FALSE
  OBVIOUS
<1>1. PICK m \in Nat \ S : \A k \in Nat \ S : <<k, m>> \notin OpToRel(<, Nat)
  <2>1. Nat \ S \subseteq Nat
    OBVIOUS
  <2> HIDE DEF S
  <2> QED BY <2>1, NatLessThanWellFounded, WFMin
<1>2. \A k \in Nat \ S : ~(k < m)
  BY <1>1 DEF OpToRel
<1>3. m # 0 /\ m - 1 \in Nat /\ m - 1 < m /\ (m - 1) + 1 = m /\ m - 1 \in 0..(n - 1)
  OBVIOUS
<1> QED BY <1>2, <1>3

(* A bounded set of positions that is not empty has a first and a last one. *)
LEMMA FirstAndLast ==
  ASSUME NEW n \in Nat, NEW S, S \subseteq 1..n, S # {}
  PROVE  /\ Min(S) \in S /\ \A i \in S : Min(S) <= i
         /\ Max(S) \in S /\ \A i \in S : Max(S) >= i
<1>1. \E x \in S : \A y \in S : x <= y
  <2> SUFFICES ASSUME ~ \E x \in S : \A y \in S : x <= y PROVE FALSE
    OBVIOUS
  <2> DEFINE T == {k \in 0..n : \A y \in S : y > k}
  <2>1. 0 \in T
    OBVIOUS
  <2>2. \A k \in 0..(n - 1) : k \in T => k + 1 \in T
    <3> SUFFICES ASSUME NEW k \in 0..(n - 1), \A y \in S : y > k, NEW z \in S, ~(z > k + 1)
                 PROVE  FALSE
      OBVIOUS
    <3>1. z = k + 1
      OBVIOUS
    <3>2. \A y \in S : z <= y
      BY <3>1
    <3> QED BY <3>2
  <2> HIDE DEF T
  <2>3. n \in T
    BY <2>1, <2>2, SetInductionUpTo
  <2>4. PICK y \in S : TRUE
    OBVIOUS
  <2>5. y > n /\ y \in 1..n
    BY <2>3 DEF T
  <2> QED BY <2>5
<1>2. \E x \in S : \A y \in S : x >= y
  <2> SUFFICES ASSUME ~ \E x \in S : \A y \in S : x >= y PROVE FALSE
    OBVIOUS
  <2> DEFINE T == {k \in 0..n : \A y \in S : y < n + 1 - k}
  <2>1. 0 \in T
    OBVIOUS
  <2>2. \A k \in 0..(n - 1) : k \in T => k + 1 \in T
    <3> SUFFICES ASSUME NEW k \in 0..(n - 1), \A y \in S : y < n + 1 - k,
                        NEW z \in S, ~(z < n + 1 - (k + 1))
                 PROVE  FALSE
      OBVIOUS
    <3>1. z = n - k
      OBVIOUS
    <3>2. \A y \in S : z >= y
      BY <3>1
    <3> QED BY <3>2
  <2> HIDE DEF T
  <2>3. n \in T
    BY <2>1, <2>2, SetInductionUpTo
  <2>4. PICK y \in S : TRUE
    OBVIOUS
  <2>5. y < n + 1 - n /\ y \in 1..n
    BY <2>3 DEF T
  <2> QED BY <2>5
<1> QED BY <1>1, <1>2 DEF Min, Max

LEMMA KeptEquation ==
  ASSUME NEW seq, Len(seq) \in Nat, NEW I
  PROVE  KeptUpTo(seq, I) =
           [n \in 0..Len(seq) |->
              IF n = 0 THEN <<>>
              ELSE IF n \in I THEN Append(KeptUpTo(seq, I)[n - 1], seq[n])
                   ELSE KeptUpTo(seq, I)[n - 1]]
<1> DEFINE F(g, k) == IF k \in I THEN Append(g, seq[k]) ELSE g
           Eq(n, g) == g = [k \in 0..n |-> IF k = 0 THEN <<>> ELSE F(g[k - 1], k)]
           T == {n \in Nat : \E g : Eq(n, g)}
<1>1. 0 \in T
  <2>1. Eq(0, [k \in 0..0 |-> <<>>])
    OBVIOUS
  <2> QED BY <2>1
<1>2. ASSUME NEW n \in Nat, n \in T
      PROVE  n + 1 \in T
  <2>1. PICK g : Eq(n, g)
    BY <1>2
  <2> DEFINE e == [k \in 0..(n + 1) |-> IF k \in 0..n THEN g[k] ELSE F(g[n], n + 1)]
  <2> HIDE DEF F
  <2>2. Eq(n + 1, e)
    BY <2>1
  <2> HIDE DEF e, Eq
  <2> QED BY <2>2
<1>3. Len(seq) \in T
  <2> HIDE DEF T
  <2>1. \A k \in 0..(Len(seq) - 1) : k \in T => k + 1 \in T
    BY <1>2
  <2>2. \A k \in 0..Len(seq) : k \in T
    BY <1>1, <2>1, SetInductionUpTo
  <2> QED BY <2>2
<1> QED BY <1>3 DEF KeptUpTo

LEMMA KeptSteps ==
  ASSUME NEW seq, Len(seq) \in Nat, NEW I
  PROVE  /\ KeptUpTo(seq, I)[0] = <<>>
         /\ \A n \in 1..Len(seq) :
              /\ n \in I => KeptUpTo(seq, I)[n] = Append(KeptUpTo(seq, I)[n - 1], seq[n])
              /\ n \notin I => KeptUpTo(seq, I)[n] = KeptUpTo(seq, I)[n - 1]
BY KeptEquation

LEMMA KeptTyped ==
  ASSUME NEW S, NEW seq \in Seq(S), NEW I
  PROVE  /\ \A n \in 0..Len(seq) : KeptUpTo(seq, I)[n] \in Seq(S)
         /\ Kept(seq, I) \in Seq(S)
<1> DEFINE T == {n \in Nat : n <= Len(seq) => KeptUpTo(seq, I)[n] \in Seq(S)}
<1>1. Len(seq) \in Nat
  OBVIOUS
<1>2. 0 \in T
  <2>1. KeptUpTo(seq, I)[0] = <<>> /\ <<>> \in Seq(S)
    BY <1>1, KeptSteps
  <2> QED BY <2>1
<1>3. ASSUME NEW k \in 0..(Len(seq) - 1), k \in T
      PROVE  k + 1 \in T
  <2>1. k + 1 \in 1..Len(seq) /\ (k + 1) - 1 = k /\ KeptUpTo(seq, I)[k] \in Seq(S)
    BY <1>1, <1>3
  <2>2. seq[k + 1] \in S
    BY <2>1
  <2>3. \/ KeptUpTo(seq, I)[k + 1] = Append(KeptUpTo(seq, I)[k], seq[k + 1])
        \/ KeptUpTo(seq, I)[k + 1] = KeptUpTo(seq, I)[k]
    BY <1>1, <2>1, KeptSteps
  <2>4. KeptUpTo(seq, I)[k + 1] \in Seq(S)
    <3>1. Append(KeptUpTo(seq, I)[k], seq[k + 1]) \in Seq(S)
      BY <2>1, <2>2, AppendProperties
    <3> QED BY <2>1, <2>3, <3>1
  <2> QED BY <2>1, <2>4
<1> HIDE DEF T
<1>4. \A k \in 0..Len(seq) : k \in T
  BY <1>1, <1>2, <1>3, SetInductionUpTo
<1> QED BY <1>1, <1>4 DEF T, Kept

(* One more element, kept or not, after those that were kept before.        *)
LEMMA KeptAppend ==
  ASSUME NEW S, NEW seq \in Seq(S), NEW x \in S, NEW I, NEW J,
         \A i \in 1..Len(seq) : i \in J <=> i \in I
  PROVE  Kept(Append(seq, x), J) =
           IF Len(seq) + 1 \in J THEN Append(Kept(seq, I), x) ELSE Kept(seq, I)
<1> DEFINE new == Append(seq, x)
           n == Len(seq)
           T == {k \in Nat : k <= n => KeptUpTo(new, J)[k] = KeptUpTo(seq, I)[k]}
<1>1. n \in Nat /\ Len(new) = n + 1 /\ new[n + 1] = x /\ \A i \in 1..n : new[i] = seq[i]
  OBVIOUS
<1> HIDE DEF new, n
<1>2. Len(new) \in Nat /\ Len(seq) = n /\ Len(seq) \in Nat
  BY <1>1 DEF n
<1>3. 0 \in T
  BY <1>2, KeptSteps
<1> DEFINE Steps(q, keep) ==
             \A i \in 1..Len(q) :
               /\ i \in keep => KeptUpTo(q, keep)[i] = Append(KeptUpTo(q, keep)[i - 1], q[i])
               /\ i \notin keep => KeptUpTo(q, keep)[i] = KeptUpTo(q, keep)[i - 1]
<1>4. Steps(new, J)
  BY <1>2, KeptSteps
<1>5. Steps(seq, I)
  BY <1>2, KeptSteps
<1>6. ASSUME NEW k \in 0..(n - 1), k \in T
      PROVE  k + 1 \in T
  <2>1. k + 1 \in 1..n /\ k + 1 \in 1..Len(new) /\ (k + 1) - 1 = k
    BY <1>1
  <2>2. KeptUpTo(new, J)[k] = KeptUpTo(seq, I)[k]
    BY <1>1, <1>6
  <2>3. /\ k + 1 \in J => KeptUpTo(new, J)[k + 1] = Append(KeptUpTo(new, J)[k], new[k + 1])
        /\ k + 1 \notin J => KeptUpTo(new, J)[k + 1] = KeptUpTo(new, J)[k]
    BY <1>4, <2>1
  <2>4. /\ k + 1 \in I => KeptUpTo(seq, I)[k + 1] = Append(KeptUpTo(seq, I)[k], seq[k + 1])
        /\ k + 1 \notin I => KeptUpTo(seq, I)[k + 1] = KeptUpTo(seq, I)[k]
    BY <1>2, <1>5, <2>1
  <2>5. (k + 1 \in J <=> k + 1 \in I) /\ new[k + 1] = seq[k + 1]
    BY <1>1, <1>2, <2>1
  <2>6. KeptUpTo(new, J)[k + 1] = KeptUpTo(seq, I)[k + 1]
    BY <2>2, <2>3, <2>4, <2>5
  <2> QED BY <2>6, <2>1
<1>7. KeptUpTo(new, J)[n] = KeptUpTo(seq, I)[n]
  <2> HIDE DEF T
  <2>1. \A k \in 0..n : k \in T
    BY <1>1, <1>3, <1>6, SetInductionUpTo
  <2> QED BY <1>1, <2>1 DEF T
<1>8. /\ n + 1 \in J => KeptUpTo(new, J)[n + 1] = Append(KeptUpTo(new, J)[n], new[n + 1])
      /\ n + 1 \notin J => KeptUpTo(new, J)[n + 1] = KeptUpTo(new, J)[n]
  <2>1. n + 1 \in 1..Len(new) /\ (n + 1) - 1 = n
    BY <1>1
  <2> QED BY <1>4, <2>1
<1>9. Kept(new, J) = IF n + 1 \in J THEN Append(Kept(seq, I), x) ELSE Kept(seq, I)
  BY <1>1, <1>2, <1>7, <1>8 DEF Kept
<1> QED BY <1>9 DEF new, n

-----------------------------------------------------------------------------
(* The commitment of a tree: its sidechains in the order of their ids       *)

LEMMA IdsTyped ==
  /\ Len(IdOrder) \in Nat /\ DOMAIN IdOrder = 1..Len(IdOrder)
  /\ \A i \in DOMAIN IdOrder : IdOrder[i] \in Ids
  /\ \A s \in Ids : \E i \in DOMAIN IdOrder : IdOrder[i] = s
  /\ \A i, j \in DOMAIN IdOrder : IdOrder[i] = IdOrder[j] => i = j
BY CommitmentAssumption DEF Ids

LEMMA BeforeIsOrder ==
  /\ \A s, u : Before(s, u) => ~Before(u, s) /\ s # u
  /\ \A s, u, v : Before(s, u) /\ Before(u, v) => Before(s, v)
  /\ \A s, u \in Ids : s = u \/ Before(s, u) \/ Before(u, s)
  /\ \A i, j \in DOMAIN IdOrder : i < j => Before(IdOrder[i], IdOrder[j])
<1>1. ASSUME NEW s, NEW u, Before(s, u)
      PROVE  ~Before(u, s) /\ s # u
  <2>1. PICK i, j \in DOMAIN IdOrder : i < j /\ IdOrder[i] = s /\ IdOrder[j] = u
    BY <1>1 DEF Before
  <2>2. \A k \in DOMAIN IdOrder : (IdOrder[k] = s => k = i) /\ (IdOrder[k] = u => k = j)
    BY <2>1, IdsTyped
  <2>3. i \in Nat /\ j \in Nat
    BY IdsTyped
  <2>4. ~Before(u, s)
    BY <2>1, <2>2, <2>3 DEF Before
  <2>5. s # u
    BY <2>1, <2>2, <2>3
  <2> QED BY <2>4, <2>5
<1>2. ASSUME NEW s, NEW u, NEW v, Before(s, u), Before(u, v)
      PROVE  Before(s, v)
  <2>1. PICK i, j \in DOMAIN IdOrder : i < j /\ IdOrder[i] = s /\ IdOrder[j] = u
    BY <1>2 DEF Before
  <2>2. PICK k, l \in DOMAIN IdOrder : k < l /\ IdOrder[k] = u /\ IdOrder[l] = v
    BY <1>2 DEF Before
  <2>3. j = k /\ i \in Nat /\ j \in Nat /\ l \in Nat
    BY <2>1, <2>2, IdsTyped
  <2>4. i < l
    BY <2>1, <2>2, <2>3
  <2> QED BY <2>1, <2>2, <2>4 DEF Before
<1>3. ASSUME NEW s \in Ids, NEW u \in Ids
      PROVE  s = u \/ Before(s, u) \/ Before(u, s)
  <2>1. PICK i \in DOMAIN IdOrder : IdOrder[i] = s
    BY IdsTyped
  <2>2. PICK j \in DOMAIN IdOrder : IdOrder[j] = u
    BY IdsTyped
  <2>3. i < j \/ i = j \/ j < i
    BY IdsTyped
  <2> QED BY <2>1, <2>2, <2>3 DEF Before
<1>4. \A i, j \in DOMAIN IdOrder : i < j => Before(IdOrder[i], IdOrder[j])
  BY DEF Before
<1> QED BY <1>1, <1>2, <1>3, <1>4

LEMMA SortedFacts ==
  ASSUME NEW t
  PROVE  /\ Sorted(t) \in Seq(Ids)
         /\ \A i, j \in DOMAIN Sorted(t) : i < j => Before(Sorted(t)[i], Sorted(t)[j])
         /\ \A s \in Ids : Present(t, s) <=> \E i \in DOMAIN Sorted(t) : Sorted(t)[i] = s
<1> DEFINE I == {i \in DOMAIN IdOrder : Present(t, IdOrder[i])}
           K == KeptUpTo(IdOrder, I)
           From(n) == \A i \in DOMAIN K[n] : \E m \in 1..n : m \in I /\ K[n][i] = IdOrder[m]
           Rising(n) == \A i, j \in DOMAIN K[n] : i < j => Before(K[n][i], K[n][j])
           All(n) == \A m \in 1..n : m \in I => \E i \in DOMAIN K[n] : K[n][i] = IdOrder[m]
           T == {n \in Nat : n <= Len(IdOrder) => From(n) /\ Rising(n) /\ All(n)}
<1>1. Len(IdOrder) \in Nat /\ DOMAIN IdOrder = 1..Len(IdOrder) /\ IdOrder \in Seq(Ids)
  BY IdsTyped, CommitmentAssumption
<1>2. Sorted(t) = K[Len(IdOrder)]
  BY DEF Sorted, Kept
<1>3. \A n \in 0..Len(IdOrder) : K[n] \in Seq(Ids)
  BY <1>1, KeptTyped
<1>4. /\ K[0] = <<>>
      /\ \A n \in 1..Len(IdOrder) : /\ n \in I => K[n] = Append(K[n - 1], IdOrder[n])
                                    /\ n \notin I => K[n] = K[n - 1]
  BY <1>1, KeptSteps
<1> HIDE DEF I, K
<1>5. 0 \in T
  <2>1. From(0) /\ Rising(0) /\ All(0)
    BY <1>4
  <2> QED BY <2>1
<1>6. ASSUME NEW n \in 0..(Len(IdOrder) - 1), n \in T
      PROVE  n + 1 \in T
  <2> DEFINE p == K[n]
             q == K[n + 1]
             x == IdOrder[n + 1]
  <2>1. /\ n \in Nat /\ n + 1 \in 1..Len(IdOrder) /\ (n + 1) - 1 = n /\ n + 1 \in DOMAIN IdOrder
        /\ \A m \in 1..n : m \in DOMAIN IdOrder /\ m < n + 1
    BY <1>1
  <2>2. From(n) /\ Rising(n) /\ All(n)
    BY <1>1, <1>6
  <2>3. /\ n + 1 \in I => q = Append(p, x)
        /\ n + 1 \notin I => q = p
    BY <1>4, <2>1
  <2>4. \A m \in 1..(n + 1) : m \in 1..n \/ m = n + 1
    BY <2>1
  <2>5. \A m \in 1..n : m \in 1..(n + 1)
    BY <2>1
  <2>6. CASE n + 1 \notin I
    <3>1. From(n + 1)
      BY <2>2, <2>3, <2>5, <2>6
    <3>2. Rising(n + 1)
      BY <2>2, <2>3, <2>6
    <3>3. All(n + 1)
      BY <2>2, <2>3, <2>4, <2>6
    <3> HIDE DEF From, Rising, All
    <3> QED BY <2>1, <3>1, <3>2, <3>3
  <2>7. CASE n + 1 \in I
    <3>1. p \in Seq(Ids)
      BY <1>1, <1>3
    <3> HIDE DEF p, q, x
    <3>2. /\ Len(p) \in Nat /\ DOMAIN p = 1..Len(p) /\ DOMAIN q = 1..(Len(p) + 1)
          /\ q[Len(p) + 1] = x /\ \A i \in 1..Len(p) : q[i] = p[i]
      BY <2>3, <2>7, <3>1
    <3>3. \A i \in DOMAIN q : i \in DOMAIN p \/ i = Len(p) + 1
      BY <3>2
    <3>4. From(n + 1)
      <4> SUFFICES ASSUME NEW i \in DOMAIN q
                   PROVE  \E m \in 1..(n + 1) : m \in I /\ q[i] = IdOrder[m]
        BY DEF q
      <4>1. CASE i = Len(p) + 1
        BY <2>1, <2>7, <3>2, <4>1 DEF x
      <4>2. CASE i \in DOMAIN p
        <5>1. PICK m \in 1..n : m \in I /\ p[i] = IdOrder[m]
          BY <2>2, <4>2 DEF p
        <5> QED BY <2>5, <3>2, <4>2, <5>1
      <4> QED BY <3>3, <4>1, <4>2
    <3>5. Rising(n + 1)
      <4> SUFFICES ASSUME NEW i \in DOMAIN q, NEW j \in DOMAIN q, i < j
                   PROVE  Before(q[i], q[j])
        BY DEF q
      <4>1. i \in DOMAIN p
        BY <3>2
      <4>2. CASE j \in DOMAIN p
        BY <2>2, <3>2, <4>1, <4>2 DEF p
      <4>3. CASE j = Len(p) + 1
        <5>1. PICK m \in 1..n : m \in I /\ p[i] = IdOrder[m]
          BY <2>2, <4>1 DEF p
        <5>2. Before(IdOrder[m], x)
          BY <2>1, BeforeIsOrder DEF x
        <5> QED BY <3>2, <4>1, <4>3, <5>1, <5>2
      <4> QED BY <3>3, <4>2, <4>3
    <3>6. All(n + 1)
      <4> SUFFICES ASSUME NEW m \in 1..(n + 1), m \in I
                   PROVE  \E i \in DOMAIN q : q[i] = IdOrder[m]
        BY DEF q
      <4>1. CASE m = n + 1
        <5>1. Len(p) + 1 \in DOMAIN q
          BY <3>2
        <5> QED BY <3>2, <4>1, <5>1 DEF x
      <4>2. CASE m \in 1..n
        <5>1. PICK i \in DOMAIN p : p[i] = IdOrder[m]
          BY <2>2, <4>2 DEF p
        <5>2. i \in DOMAIN q
          BY <3>2
        <5> QED BY <3>2, <5>1, <5>2
      <4> QED BY <2>4, <4>1, <4>2
    <3> HIDE DEF From, Rising, All
    <3> QED BY <2>1, <3>4, <3>5, <3>6
  <2> QED BY <2>6, <2>7
<1>7. From(Len(IdOrder)) /\ Rising(Len(IdOrder)) /\ All(Len(IdOrder))
  <2> HIDE DEF T
  <2>1. \A n \in 0..Len(IdOrder) : n \in T
    BY <1>1, <1>5, <1>6, SetInductionUpTo
  <2>2. Len(IdOrder) \in T
    BY <1>1, <2>1
  <2> HIDE DEF From, Rising, All
  <2> QED BY <1>1, <2>2 DEF T
<1>8. Sorted(t) \in Seq(Ids)
  BY <1>1, <1>2, <1>3
<1>9. ASSUME NEW s \in Ids
      PROVE  Present(t, s) <=> \E i \in DOMAIN Sorted(t) : Sorted(t)[i] = s
  <2>1. PICK m \in DOMAIN IdOrder : IdOrder[m] = s
    BY IdsTyped
  <2>2. \A k \in DOMAIN IdOrder : IdOrder[k] = s => k = m
    BY <2>1, IdsTyped
  <2>3. Present(t, s) <=> m \in I
    BY <2>1 DEF I
  <2>4. m \in I => \E i \in DOMAIN Sorted(t) : Sorted(t)[i] = s
    BY <1>1, <1>2, <1>7, <2>1
  <2>5. (\E i \in DOMAIN Sorted(t) : Sorted(t)[i] = s) => m \in I
    BY <1>1, <1>2, <1>7, <2>2
  <2> QED BY <2>3, <2>4, <2>5
<1> QED BY <1>2, <1>7, <1>8, <1>9

LEMMA CommitmentFacts ==
  ASSUME NEW t
  PROVE  /\ Len(Commitment(t)) = Len(Sorted(t)) /\ Len(Sorted(t)) \in Nat
         /\ DOMAIN Commitment(t) = 1..Len(Sorted(t)) /\ DOMAIN Sorted(t) = 1..Len(Sorted(t))
         /\ Commitment(t) \in Seq({Commitment(t)[i] : i \in DOMAIN Commitment(t)})
         /\ \A i \in DOMAIN Commitment(t) :
              Commitment(t)[i] = ScCommitment(t, Sorted(t)[i]) /\ Commitment(t)[i][1] = Sorted(t)[i]
<1> DEFINE Q == Sorted(t)
           C == Commitment(t)
<1>1. Len(Q) \in Nat /\ DOMAIN Q = 1..Len(Q)
  BY SortedFacts
<1>2. C = [i \in DOMAIN Q |-> ScCommitment(t, Q[i])]
  BY DEF Commitment
<1>3. \A i \in DOMAIN Q : ScCommitment(t, Q[i])[1] = Q[i]
  BY DEF ScCommitment
<1> HIDE DEF Q, C
<1>4. DOMAIN C = 1..Len(Q) /\ \A i \in DOMAIN C : C[i] = ScCommitment(t, Q[i])
  BY <1>1, <1>2
<1>5. C = [i \in 1..Len(Q) |-> C[i]]
  BY <1>1, <1>2
<1>6. C \in Seq({C[i] : i \in DOMAIN C}) /\ Len(C) = Len(Q)
  <2> DEFINE g == [i \in 1..Len(Q) |-> C[i]]
  <2>1. Len(g) = Len(Q)
    BY <1>1
  <2>2. g \in Seq({C[i] : i \in DOMAIN C})
    BY <1>1, <1>4
  <2> QED BY <1>5, <2>1, <2>2
<1> QED BY <1>1, <1>3, <1>4, <1>6 DEF Q, C

LEMMA InsertElements ==
  ASSUME NEW S, NEW seq \in Seq(S), NEW i \in 1..(Len(seq) + 1), NEW x \in S
  PROVE  /\ Len(InsertAt(seq, i, x)) = Len(seq) + 1
         /\ DOMAIN InsertAt(seq, i, x) = 1..(Len(seq) + 1)
         /\ InsertAt(seq, i, x)[i] = x
         /\ \A j \in 1..(i - 1) : InsertAt(seq, i, x)[j] = seq[j]
         /\ \A j \in (i + 1)..(Len(seq) + 1) : InsertAt(seq, i, x)[j] = seq[j - 1]
         /\ InsertAt(seq, i, x) \in Seq(S)
<1> DEFINE a == SubSeq(seq, 1, i - 1)
           b == SubSeq(seq, i, Len(seq))
<1>1. Len(seq) \in Nat /\ i \in Nat \ {0} /\ i <= Len(seq) + 1
  OBVIOUS
<1>2. a \in Seq(S) /\ Len(a) = i - 1 /\ \A j \in 1..(i - 1) : a[j] = seq[j]
  BY <1>1
<1>3. b \in Seq(S) /\ Len(b) = Len(seq) - i + 1 /\ \A j \in 1..(Len(seq) - i + 1) : b[j] = seq[i + j - 1]
  BY <1>1
<1> HIDE DEF a, b
<1> DEFINE c == <<x>>
           ac == a \o c
           r == ac \o b
<1>4. c \in Seq(S) /\ Len(c) = 1 /\ c[1] = x
  OBVIOUS
<1>5. a \in Seq(S) /\ b \in Seq(S)
  BY <1>2, <1>3
<1> HIDE DEF c
<1>6. ac \in Seq(S) /\ Len(ac) = i /\ ac[i] = x /\ \A j \in 1..(i - 1) : ac[j] = seq[j]
  <2>1. ac \in Seq(S) /\ Len(ac) = Len(a) + Len(c)
    BY <1>4, <1>5, ConcatProperties
  <2>2. \A j \in 1..(Len(a) + Len(c)) : ac[j] = IF j <= Len(a) THEN a[j] ELSE c[j - Len(a)]
    BY <1>4, <1>5, ConcatProperties
  <2> HIDE DEF ac
  <2> QED BY <1>1, <1>2, <1>4, <2>1, <2>2
<1> HIDE DEF ac
<1>7. r \in Seq(S) /\ Len(r) = Len(seq) + 1
  <2>1. r \in Seq(S) /\ Len(r) = Len(ac) + Len(b)
    BY <1>5, <1>6, ConcatProperties
  <2> HIDE DEF r
  <2> QED BY <1>1, <1>3, <1>6, <2>1
<1>8. r[i] = x /\ \A j \in 1..(i - 1) : r[j] = seq[j]
  BY <1>1, <1>3, <1>5, <1>6
<1>9. ASSUME NEW j \in (i + 1)..(Len(seq) + 1)
      PROVE  r[j] = seq[j - 1]
  <2>1. r[j] = b[j - i]
    BY <1>1, <1>3, <1>5, <1>6
  <2>2. j - i \in 1..(Len(seq) - i + 1) /\ i + (j - i) - 1 = j - 1
    BY <1>1
  <2> QED BY <1>3, <2>1, <2>2
<1>10. InsertAt(seq, i, x) = r
  BY DEF InsertAt, r, ac, c, a, b
<1> HIDE DEF r
<1> QED BY <1>7, <1>8, <1>9, <1>10

LEMMA RemoveElements ==
  ASSUME NEW S, NEW seq \in Seq(S), NEW i \in 1..Len(seq)
  PROVE  /\ RemoveAt(seq, i) \in Seq(S)
         /\ Len(RemoveAt(seq, i)) = Len(seq) - 1
         /\ \A j \in 1..(i - 1) : RemoveAt(seq, i)[j] = seq[j]
         /\ \A j \in i..(Len(seq) - 1) : RemoveAt(seq, i)[j] = seq[j + 1]
<1> DEFINE a == SubSeq(seq, 1, i - 1)
           b == SubSeq(seq, i + 1, Len(seq))
<1>1. Len(seq) \in Nat /\ i \in Nat \ {0} /\ i <= Len(seq)
  OBVIOUS
<1>2. a \in Seq(S) /\ Len(a) = i - 1 /\ \A j \in 1..(i - 1) : a[j] = seq[j]
  BY <1>1
<1>3. b \in Seq(S) /\ Len(b) = Len(seq) - i /\ \A j \in 1..(Len(seq) - i) : b[j] = seq[i + j]
  BY <1>1
<1> HIDE DEF a, b
<1> DEFINE r == a \o b
<1>4. r \in Seq(S) /\ Len(r) = Len(seq) - 1 /\ \A j \in 1..(i - 1) : r[j] = seq[j]
  <2>1. r \in Seq(S) /\ Len(r) = Len(a) + Len(b)
    BY <1>2, <1>3, ConcatProperties
  <2>2. \A j \in 1..(Len(a) + Len(b)) : r[j] = IF j <= Len(a) THEN a[j] ELSE b[j - Len(a)]
    BY <1>2, <1>3, ConcatProperties
  <2> HIDE DEF r
  <2>3. Len(a) = i - 1 /\ Len(b) = Len(seq) - i
    BY <1>2, <1>3
  <2>4. \A j \in 1..(i - 1) : r[j] = seq[j]
    <3> SUFFICES ASSUME NEW j \in 1..(i - 1) PROVE r[j] = seq[j]
      OBVIOUS
    <3>1. j \in 1..(Len(a) + Len(b)) /\ j <= Len(a)
      BY <1>1, <2>3
    <3> QED BY <1>2, <2>2, <3>1
  <2>5. Len(r) = Len(seq) - 1
    BY <1>1, <2>1, <2>3
  <2> QED BY <2>1, <2>4, <2>5
<1>5. ASSUME NEW j \in i..(Len(seq) - 1)
      PROVE  r[j] = seq[j + 1]
  <2>1. r[j] = b[j - (i - 1)]
    BY <1>1, <1>2, <1>3
  <2>2. j - (i - 1) \in 1..(Len(seq) - i) /\ i + (j - (i - 1)) = j + 1
    BY <1>1
  <2> QED BY <1>3, <2>1, <2>2
<1>6. RemoveAt(seq, i) = r
  BY DEF RemoveAt, r, a, b
<1> HIDE DEF r
<1> QED BY <1>4, <1>5, <1>6

(* What is removed may be put back. *)
LEMMA InsertRemoved ==
  ASSUME NEW S, NEW seq \in Seq(S), NEW i \in 1..Len(seq)
  PROVE  InsertAt(RemoveAt(seq, i), i, seq[i]) = seq
<1> DEFINE r == RemoveAt(seq, i)
           q == InsertAt(r, i, seq[i])
<1>1. Len(seq) \in Nat /\ i \in Nat
  OBVIOUS
<1>2. /\ r \in Seq(S) /\ Len(r) = Len(seq) - 1
      /\ \A j \in 1..(i - 1) : r[j] = seq[j]
      /\ \A j \in i..(Len(seq) - 1) : r[j] = seq[j + 1]
  BY RemoveElements
<1> HIDE DEF r
<1>3. i \in 1..(Len(r) + 1) /\ Len(r) + 1 = Len(seq)
  BY <1>1, <1>2
<1>4. /\ DOMAIN q = 1..Len(seq) /\ Len(q) = Len(seq) /\ q \in Seq(S)
      /\ q[i] = seq[i]
      /\ \A j \in 1..(i - 1) : q[j] = r[j]
      /\ \A j \in (i + 1)..Len(seq) : q[j] = r[j - 1]
  BY <1>2, <1>3, InsertElements
<1> HIDE DEF q
<1>5. ASSUME NEW j \in 1..Len(seq)
      PROVE  q[j] = seq[j]
  <2>1. CASE j < i
    BY <1>1, <1>2, <1>4, <2>1
  <2>2. CASE j = i
    BY <1>4, <2>2
  <2>3. CASE j > i
    <3>1. j \in (i + 1)..Len(seq) /\ j - 1 \in i..(Len(seq) - 1) /\ (j - 1) + 1 = j
      BY <1>1, <2>3
    <3> QED BY <1>2, <1>4, <3>1
  <2> QED BY <1>1, <2>1, <2>2, <2>3
<1>6. q = [j \in 1..Len(seq) |-> q[j]] /\ seq = [j \in 1..Len(seq) |-> seq[j]]
  BY <1>4
<1>7. q = seq
  BY <1>5, <1>6
<1> QED BY <1>7 DEF q, r

IsList(x) == x \in Seq({x[i] : i \in DOMAIN x})

(* The path of a sidechain in the tree is at its place, and leads from its  *)
(* commitment to that of the tree.                                          *)
LEMMA PathFacts ==
  ASSUME NEW t, NEW j \in DOMAIN Sorted(t)
  PROVE  /\ PathTo(t, Sorted(t)[j]).index = j
         /\ IsList(PathTo(t, Sorted(t)[j]).others)
         /\ LeadsTo(ScCommitment(t, Sorted(t)[j]), PathTo(t, Sorted(t)[j]), Commitment(t))
<1> DEFINE Q == Sorted(t)
           C == Commitment(t)
           S == {C[i] : i \in DOMAIN C}
           p == PathTo(t, Q[j])
<1>1. /\ Len(C) = Len(Q) /\ Len(Q) \in Nat /\ DOMAIN Q = 1..Len(Q) /\ C \in Seq(S)
      /\ C[j] = ScCommitment(t, Q[j])
  BY CommitmentFacts
<1>2. \A i \in DOMAIN Q : Q[i] = Q[j] => i = j
  <2> SUFFICES ASSUME NEW i \in DOMAIN Q, Q[i] = Q[j], i # j PROVE FALSE
    OBVIOUS
  <2>1. i < j \/ j < i
    BY <1>1
  <2> QED BY <2>1, SortedFacts, BeforeIsOrder
<1>3. p.index = j
  BY <1>2 DEF PathTo
<1>4. p.others = RemoveAt(C, j)
  BY <1>3 DEF PathTo
<1> HIDE DEF p, C, S
<1>5. j \in 1..Len(C)
  BY <1>1
<1>6. p.others \in Seq(S) /\ Len(p.others) = Len(C) - 1
  BY <1>1, <1>4, <1>5, RemoveElements
<1>7. IsList(p.others)
  BY <1>6 DEF IsList
<1>8. InsertAt(p.others, j, C[j]) = C
  BY <1>1, <1>4, <1>5, InsertRemoved
<1>9. LeadsTo(C[j], p, C)
  BY <1>1, <1>3, <1>5, <1>6, <1>8 DEF LeadsTo
<1> QED BY <1>1, <1>3, <1>7, <1>9 DEF p, C

LEMMA PathOfPresent ==
  ASSUME NEW t, NEW s \in Ids, Present(t, s)
  PROVE  /\ IsList(PathTo(t, s).others)
         /\ LeadsTo(ScCommitment(t, s), PathTo(t, s), Commitment(t))
<1>1. PICK j \in DOMAIN Sorted(t) : Sorted(t)[j] = s
  BY SortedFacts
<1> QED BY <1>1, PathFacts

(* A path, whatever it is of, leads from what stands at its place.          *)
LEMMA LeadsFromItsPlace ==
  ASSUME NEW x, NEW path, NEW c, IsList(path.others), LeadsTo(x, path, c)
  PROVE  path.index \in DOMAIN c /\ c[path.index] = x
<1>1. ASSUME NEW S, NEW o \in Seq(S), NEW i \in 1..(Len(o) + 1), InsertAt(o, i, x) = c
      PROVE  i \in DOMAIN c /\ c[i] = x
  <2>1. o \in Seq(S \cup {x}) /\ x \in S \cup {x}
    OBVIOUS
  <2>2. DOMAIN c = 1..(Len(o) + 1) /\ c[i] = x
    BY <1>1, <2>1, InsertElements
  <2> QED BY <1>1, <2>2
<1> QED BY <1>1 DEF IsList, LeadsTo

(* Two neighbours next to each other, or one at an end of the tree, leave   *)
(* no place for a sidechain between them.                                   *)
LEMMA NothingBetween ==
  ASSUME NEW t, NEW s, NEW p,
         p.left # None => IsList(p.left[1].path.others),
         p.right # None => IsList(p.right[1].path.others),
         ProvesAbsence(s, p, Commitment(t))
  PROVE  \A i \in DOMAIN Commitment(t) : Commitment(t)[i][1] # s
<1> DEFINE Q == Sorted(t)
           C == Commitment(t)
           l == p.left[1].path.index
           r == p.right[1].path.index
<1>1. /\ Len(C) = Len(Q) /\ Len(Q) \in Nat /\ DOMAIN C = 1..Len(Q) /\ DOMAIN Q = 1..Len(Q)
      /\ \A i \in DOMAIN C : C[i][1] = Q[i]
  BY CommitmentFacts
<1>2. p.left # None => l \in DOMAIN C /\ Before(Q[l], s)
  <2> SUFFICES ASSUME p.left # None PROVE l \in DOMAIN C /\ Before(Q[l], s)
    OBVIOUS
  <2>1. Before(p.left[1].sc[1], s) /\ LeadsTo(p.left[1].sc, p.left[1].path, C)
    BY DEF ProvesAbsence
  <2>2. l \in DOMAIN C /\ C[l] = p.left[1].sc
    BY <2>1, LeadsFromItsPlace
  <2> QED BY <1>1, <2>1, <2>2
<1>3. p.right # None => r \in DOMAIN C /\ Before(s, Q[r])
  <2> SUFFICES ASSUME p.right # None PROVE r \in DOMAIN C /\ Before(s, Q[r])
    OBVIOUS
  <2>1. Before(s, p.right[1].sc[1]) /\ LeadsTo(p.right[1].sc, p.right[1].path, C)
    BY DEF ProvesAbsence
  <2>2. r \in DOMAIN C /\ C[r] = p.right[1].sc
    BY <2>1, LeadsFromItsPlace
  <2> QED BY <1>1, <2>1, <2>2
<1>4. IF p.left = None
      THEN IF p.right = None THEN C = <<>> ELSE r = 1
      ELSE l = IF p.right = None THEN Len(C) ELSE r - 1
  BY DEF ProvesAbsence, Adjacent
<1> SUFFICES ASSUME NEW i \in DOMAIN C, Q[i] = s PROVE FALSE
  BY <1>1
<1> HIDE DEF C, l, r, Q
<1>5. \A j, k \in DOMAIN Q : j < k => Before(Q[j], Q[k])
  BY SortedFacts DEF Q
<1>6. p.left # None => ~(i <= l)
  <2> SUFFICES ASSUME p.left # None, i <= l PROVE FALSE
    OBVIOUS
  <2>1. Before(s, s)
    <3>1. CASE i = l
      BY <1>2, <3>1
    <3>2. CASE i < l
      BY <1>1, <1>2, <1>5, <3>2, BeforeIsOrder
    <3> QED BY <1>1, <1>2, <3>1, <3>2
  <2> QED BY <2>1, BeforeIsOrder
<1>7. p.right # None => ~(r <= i)
  <2> SUFFICES ASSUME p.right # None, r <= i PROVE FALSE
    OBVIOUS
  <2>1. Before(s, s)
    <3>1. CASE i = r
      BY <1>3, <3>1
    <3>2. CASE r < i
      BY <1>1, <1>3, <1>5, <3>2, BeforeIsOrder
    <3> QED BY <1>1, <1>3, <3>1, <3>2
  <2> QED BY <2>1, BeforeIsOrder
<1>8. i \in 1..Len(C) /\ (p.left # None => l \in Nat) /\ (p.right # None => r \in Nat)
  BY <1>1, <1>2, <1>3
<1>9. CASE p.left = None /\ p.right = None
  <2>1. DOMAIN C = {}
    BY <1>4, <1>9
  <2> QED BY <2>1
<1>10. CASE p.left = None /\ p.right # None
  BY <1>4, <1>7, <1>8, <1>10
<1>11. CASE p.left # None /\ p.right = None
  BY <1>4, <1>6, <1>8, <1>11
<1>12. CASE p.left # None /\ p.right # None
  BY <1>4, <1>6, <1>7, <1>8, <1>12
<1> QED BY <1>9, <1>10, <1>11, <1>12

(* The neighbours of an absent sidechain prove its absence.                 *)
LEMMA NeighboursProve ==
  ASSUME NEW t, NEW s \in Ids
  PROVE  /\ Neighbours(t, s).left # None => IsList(Neighbours(t, s).left[1].path.others)
         /\ Neighbours(t, s).right # None => IsList(Neighbours(t, s).right[1].path.others)
         /\ ~Present(t, s) => ProvesAbsence(s, Neighbours(t, s), Commitment(t))
<1> DEFINE Q == Sorted(t)
           C == Commitment(t)
           below == {i \in DOMAIN Q : Before(Q[i], s)}
           above == {i \in DOMAIN Q : Before(s, Q[i])}
           p == Neighbours(t, s)
           l == Max(below)
           r == Min(above)
<1>1. /\ Len(C) = Len(Q) /\ Len(Q) \in Nat /\ DOMAIN Q = 1..Len(Q)
      /\ \A i \in DOMAIN Q : ScCommitment(t, Q[i])[1] = Q[i]
  BY CommitmentFacts DEF ScCommitment
<1>2. /\ \A i \in DOMAIN Q : Q[i] \in Ids
      /\ \A i, j \in DOMAIN Q : i < j => Before(Q[i], Q[j])
      /\ Present(t, s) <=> \E i \in DOMAIN Q : Q[i] = s
  <2>1. Q \in Seq(Ids)
    BY SortedFacts
  <2> QED BY <2>1, SortedFacts
<1>3. /\ p.left = IF below = {} THEN None ELSE Some(Neighbour(t, Q[l]))
      /\ p.right = IF above = {} THEN None ELSE Some(Neighbour(t, Q[r]))
  BY DEF Neighbours
<1>4. \A i \in DOMAIN Q : /\ Neighbour(t, Q[i]).path = PathTo(t, Q[i])
                          /\ Neighbour(t, Q[i]).sc = ScCommitment(t, Q[i])
                          /\ PathTo(t, Q[i]).index = i
                          /\ IsList(PathTo(t, Q[i]).others)
                          /\ LeadsTo(ScCommitment(t, Q[i]), PathTo(t, Q[i]), C)
  BY PathFacts DEF Neighbour
<1>5. below # {} => l \in below /\ \A i \in below : l >= i
  BY <1>1, FirstAndLast
<1>6. above # {} => r \in above /\ \A i \in above : r <= i
  BY <1>1, FirstAndLast
<1>7. \A x : Some(x) # None /\ Some(x)[1] = x
  BY DEF Some, None
<1> HIDE DEF Q, C, p, l, r
<1>8. p.left # None => below # {} /\ l \in DOMAIN Q /\ p.left[1] = Neighbour(t, Q[l])
  BY <1>3, <1>5, <1>7
<1>9. p.right # None => above # {} /\ r \in DOMAIN Q /\ p.right[1] = Neighbour(t, Q[r])
  BY <1>3, <1>6, <1>7
<1>10. ASSUME ~Present(t, s)
       PROVE  ProvesAbsence(s, p, C)
  <2>1. \A i \in DOMAIN Q : i \in below \/ i \in above
    BY <1>2, <1>10, BeforeIsOrder
  <2>2. \A i \in below, j \in above : i < j
    <3> SUFFICES ASSUME NEW i \in below, NEW j \in above, ~(i < j) PROVE FALSE
      OBVIOUS
    <3>1. Before(Q[i], s) /\ Before(s, Q[j]) /\ (j < i \/ i = j)
      BY <1>1
    <3> QED BY <1>2, <3>1, BeforeIsOrder
  <2>3. p.left # None => Before(p.left[1].sc[1], s) /\ LeadsTo(p.left[1].sc, p.left[1].path, C)
    BY <1>1, <1>4, <1>5, <1>8
  <2>4. p.right # None => Before(s, p.right[1].sc[1]) /\ LeadsTo(p.right[1].sc, p.right[1].path, C)
    BY <1>1, <1>4, <1>6, <1>9
  <2>5. Adjacent(p, C)
    <3>1. CASE p.left = None /\ p.right = None
      <4>1. below = {} /\ above = {}
        BY <1>3, <1>7, <3>1
      <4>2. Len(C) = 0
        <5>1. ~(1 \in DOMAIN Q)
          BY <2>1, <4>1
        <5> QED BY <1>1, <5>1
      <4>3. C = <<>>
        <5>1. C \in Seq({C[i] : i \in DOMAIN C})
          BY CommitmentFacts DEF C
        <5> QED BY <4>2, <5>1
      <4> QED BY <3>1, <4>3 DEF Adjacent
    <3>2. CASE p.left = None /\ p.right # None
      <4>1. below = {} /\ above # {}
        BY <1>3, <1>7, <3>2
      <4>2. 1 \in above
        <5>1. r \in DOMAIN Q
          BY <1>6, <4>1
        <5>2. 1 \in DOMAIN Q
          BY <1>1, <5>1
        <5> QED BY <2>1, <4>1, <5>2
      <4>3. r = 1
        BY <1>1, <1>6, <4>1, <4>2
      <4>4. p.right[1].path.index = 1
        BY <1>4, <1>9, <3>2, <4>3
      <4> QED BY <3>2, <4>4 DEF Adjacent
    <3>3. CASE p.left # None /\ p.right = None
      <4>1. below # {} /\ above = {}
        BY <1>3, <1>7, <3>3
      <4>2. Len(Q) \in below
        <5>1. l \in DOMAIN Q
          BY <1>5, <4>1
        <5>2. Len(Q) \in DOMAIN Q
          BY <1>1, <5>1
        <5> QED BY <2>1, <4>1, <5>2
      <4>3. l = Len(Q)
        BY <1>1, <1>5, <4>1, <4>2
      <4>4. p.left[1].path.index = Len(C)
        BY <1>1, <1>4, <1>8, <3>3, <4>3
      <4> QED BY <3>3, <4>4 DEF Adjacent
    <3>4. CASE p.left # None /\ p.right # None
      <4>1. below # {} /\ above # {} /\ l \in DOMAIN Q /\ r \in DOMAIN Q
        BY <1>8, <1>9, <3>4
      <4>2. l < r
        BY <1>5, <1>6, <2>2, <4>1
      <4>3. r = l + 1
        <5>1. l + 1 \in DOMAIN Q
          BY <1>1, <4>1, <4>2
        <5>2. l + 1 \notin below
          BY <1>1, <1>5, <4>1
        <5>3. l + 1 \in above
          BY <2>1, <5>1, <5>2
        <5> QED BY <1>1, <1>6, <4>1, <4>2, <5>3
      <4>4. p.left[1].path.index = l /\ p.right[1].path.index = r
        BY <1>4, <1>8, <1>9, <3>4
      <4>5. l = r - 1
        BY <1>1, <4>1, <4>3
      <4> QED BY <3>4, <4>4, <4>5 DEF Adjacent
    <3> QED BY <3>1, <3>2, <3>3, <3>4
  <2> QED BY <2>3, <2>4, <2>5 DEF ProvesAbsence
<1>11. /\ p.left # None => IsList(p.left[1].path.others)
       /\ p.right # None => IsList(p.right[1].path.others)
  BY <1>4, <1>8, <1>9
<1> QED BY <1>10, <1>11 DEF p, C

-----------------------------------------------------------------------------
(* What was told, what the tree holds and what a verdict says               *)

AllArguments == UNION {Arguments[how] : how \in DOMAIN Arguments}

(* What a call has read are the values of the arguments it was given, each  *)
(* of them readable, and it has answered nothing yet.                       *)
CallOK ==
  /\ given \in Seq(AllArguments)
  /\ call # Idle =>
       /\ answer = NoAnswer
       /\ \A i \in DOMAIN read :
            /\ given[i] \in Arguments[Reads[call][i]]
            /\ Readable(Reads[call][i], given[i])
            /\ read[i] = ValueOf(Reads[call][i], given[i])
  /\ call = "verifyScAbsence" => proof.kind # "existence"

AddCalls == [op : Adds, args : Seq(AllArguments)]

(* The tree holds a leaf for each call that was told it added one, and the  *)
(* last creation only; a leaf of a certificate is the one that was given.   *)
PresentOK ==
  \A s \in Ids : Present(tree, s) <=> \E i \in DOMAIN told : told[i].args[1] = s

LeavesOK(list, mine, k) ==
  /\ Len(list) = IF k = "scc" /\ Len(mine) > 0 THEN 1 ELSE Len(mine)
  /\ \A i \in 1..Len(mine) :
       /\ KindOf[mine[i].op] = k
       /\ mine[i].op = "addCertLeaf" => list[i] = <<mine[i].args[2]>>

HistoryOK ==
  /\ told \in Seq(AddCalls)
  /\ PresentOK
  /\ \A s \in Ids, k \in Kinds : LeavesOK(tree[s][k], ToldOf(s, k), k)

(* A proof is made of paths, and one got from a tree is the one the tree    *)
(* gives for the sidechain.                                                 *)
ProofOK ==
  /\ proof.kind \in {"none", "existence", "absence"}
  /\ proof.kind = "existence" => IsList(proof.what.others)
  /\ proof.kind = "absence" =>
       /\ proof.what.left # None => IsList(proof.what.left[1].path.others)
       /\ proof.what.right # None => IsList(proof.what.right[1].path.others)
  /\ proof.got # <<>> =>
       LET s == proof.got[1]  t == proof.got[2] IN
       /\ s \in Ids
       /\ proof.kind = "existence" => Present(t, s) /\ proof.what = PathTo(t, s)
       /\ proof.kind = "absence" => ~Present(t, s) /\ proof.what = Neighbours(t, s)

(* A verdict is still about the proof in use.                               *)
VerdictOK ==
  answer.kind = "verdict" =>
    LET x == answer.about[1]  c == answer.about[2] IN
    /\ \E t \in Trees : c = Commitment(t)
    /\ \/ proof.kind = "existence" /\ answer.value = LeadsTo(x, proof.what, c)
       \/ /\ proof.kind = "absence" /\ answer.value = ProvesAbsence(x, proof.what, c)
          /\ x \in Ids

HInv == IInv /\ CallOK /\ HistoryOK /\ ProofOK /\ VerdictOK

LEMMA InitHInv == Init => HInv
<1> SUFFICES ASSUME Init PROVE HInv
  OBVIOUS
<1>1. IInv
  BY InitIInv
<1>2. CallOK
  BY DEF Init, CallOK, Idle
<1>3. HistoryOK
  <2>1. told = <<>> /\ told \in Seq(AddCalls) /\ Len(told) = 0
    BY DEF Init
  <2>2. \A s \in Ids, k \in Kinds : ToldOf(s, k) = <<>>
    <3> SUFFICES ASSUME NEW s \in Ids, NEW k \in Kinds PROVE ToldOf(s, k) = <<>>
      OBVIOUS
    <3> DEFINE I == {i \in DOMAIN told : told[i].args[1] = s /\ KindOf[told[i].op] = k}
    <3>1. ToldOf(s, k) = Kept(told, I)
      BY DEF ToldOf
    <3> HIDE DEF I
    <3>2. KeptUpTo(told, I)[0] = <<>>
      BY <2>1, KeptSteps
    <3> QED BY <2>1, <3>1, <3>2 DEF Kept
  <2>3. \A s \in Ids, k \in Kinds : tree[s][k] = <<>>
    BY DEF Init, EmptyTree, NoLeaves
  <2>4. \A s \in Ids, k \in Kinds : LeavesOK(tree[s][k], ToldOf(s, k), k)
    BY <2>2, <2>3 DEF LeavesOK
  <2>5. \A s \in Ids : ~Present(tree, s)
    BY DEF Init, EmptyTree, Present
  <2>6. PresentOK
    BY <2>1, <2>5 DEF PresentOK
  <2> QED BY <2>1, <2>4, <2>6 DEF HistoryOK
<1>4. ProofOK
  BY DEF Init, NoProof, ProofOK
<1>5. VerdictOK
  BY DEF Init, NoAnswer, Answer, VerdictOK
<1> QED BY <1>1, <1>2, <1>3, <1>4, <1>5 DEF HInv

LEMMA NextCallOK ==
  ASSUME HInv, [Next]_vars
  PROVE  CallOK'
<1>0. /\ IInv /\ CallOK /\ call \in Ops \cup {Idle} /\ Len(given) = Len(read)
      /\ read \in Seq(Values) /\ (call = Idle => read = <<>>)
  BY DEF HInv, IInv, TypeOK
<1>1. CASE UNCHANGED vars
  BY <1>0, <1>1 DEF vars, CallOK
<1>2. ASSUME NEW op \in Ops, Invoke(op)  PROVE CallOK'
  <2>1. read = <<>> /\ read' = read /\ given' = given /\ call' = op /\ proof' = proof
    BY <1>0, <1>2 DEF Invoke
  <2>2. answer' = NoAnswer /\ (op = "verifyScAbsence" => proof.kind # "existence")
    BY <1>2 DEF Invoke
  <2> QED BY <1>0, <2>1, <2>2 DEF CallOK, NoAnswer
<1>3. ASSUME Reading, NEW a \in Arguments[How], ReadArgument(a)  PROVE CallOK'
  <2>1. /\ call # Idle /\ call \in Ops /\ Len(read) \in Nat /\ Len(read) < Len(Reads[call])
        /\ Readable(How, a) /\ given' = Append(given, a)
        /\ read' = Append(read, ValueOf(How, a)) /\ UNCHANGED <<proof, call, answer>>
    BY <1>0, <1>3 DEF Reading, ReadArgument
  <2>2. How = Reads[call][Len(read) + 1] /\ How \in DOMAIN Arguments
    <3>1. Len(read) + 1 \in DOMAIN Reads[call]
      BY <2>1, ReadsTyped, CommitmentAssumption
    <3> QED BY <2>1, <3>1, CommitmentAssumption DEF How
  <2>3. a \in AllArguments
    BY <2>2 DEF AllArguments
  <2>4. given \in Seq(AllArguments)
    BY <1>0 DEF CallOK
  <2>5. given' \in Seq(AllArguments)
    BY <2>1, <2>3, <2>4
  <2>6. /\ DOMAIN read' = 1..(Len(read) + 1)
        /\ given'[Len(read) + 1] = a /\ read'[Len(read) + 1] = ValueOf(How, a)
        /\ \A i \in DOMAIN read : given'[i] = given[i] /\ read'[i] = read[i]
        /\ \A i \in DOMAIN read' : i \in DOMAIN read \/ i = Len(read) + 1
    BY <1>0, <2>1, <2>4
  <2>7. ASSUME NEW i \in DOMAIN read'
        PROVE  /\ given'[i] \in Arguments[Reads[call][i]]
               /\ Readable(Reads[call][i], given'[i])
               /\ read'[i] = ValueOf(Reads[call][i], given'[i])
    <3>1. CASE i \in DOMAIN read
      BY <1>0, <2>1, <2>6, <3>1 DEF CallOK
    <3>2. CASE i = Len(read) + 1
      BY <2>1, <2>2, <2>6, <3>2
    <3> QED BY <2>6, <3>1, <3>2
  <2>8. answer' = NoAnswer /\ (call' = "verifyScAbsence" => proof'.kind # "existence")
    BY <1>0, <2>1 DEF CallOK
  <2> QED BY <2>1, <2>5, <2>7, <2>8 DEF CallOK, NoAnswer
<1>4. ASSUME call' = Idle, given' = <<>> \/ given' = given  PROVE CallOK'
  <2>1. given' \in Seq(AllArguments)
    <3>1. given \in Seq(AllArguments) /\ <<>> \in Seq(AllArguments)
      BY <1>0 DEF CallOK
    <3> QED BY <1>4, <3>1
  <2>2. call' # "verifyScAbsence"
    BY <1>4 DEF Idle
  <2> QED BY <1>4, <2>1, <2>2 DEF CallOK
<1>5. CASE Add
  BY <1>4, <1>5 DEF Add, Return
<1>6. CASE Ending
  BY <1>4, <1>6 DEF Ending
<1> QED BY <1>0, <1>1, <1>2, <1>3, <1>5, <1>6, StepCases

LEMMA OneElement ==
  ASSUME NEW S, NEW seq \in Seq(S), Len(seq) = 1
  PROVE  seq = <<seq[1]>>
<1>1. seq = [i \in 1..1 |-> seq[i]]
  OBVIOUS
<1>2. <<seq[1]>> = [i \in 1..1 |-> <<seq[1]>>[i]]
  OBVIOUS
<1>3. \A i \in 1..1 : seq[i] = <<seq[1]>>[i]
  OBVIOUS
<1> QED BY <1>1, <1>2, <1>3

(* A leaf is added to one list of one sidechain, and to what was told.      *)
LEMMA AddHistory ==
  ASSUME HInv, Add
  PROVE  HistoryOK'
<1> DEFINE s1 == read[1]
           k1 == KindOf[call]
           leaf == Tail(read)
           rec == [op |-> call, args |-> given]
           Mine(s, k) == {i \in DOMAIN told : told[i].args[1] = s /\ KindOf[told[i].op] = k}
           MineNow(s, k) == {i \in DOMAIN told' : told'[i].args[1] = s /\ KindOf[told'[i].op] = k}
<1>1. /\ IInv /\ CallOK /\ HistoryOK /\ Len(given) = Len(read) /\ read \in Seq(Values)
      /\ tree \in [Ids -> [Kinds -> Seq(Seq(Values))]]
  BY DEF HInv, IInv, TypeOK
<1>2. /\ call \in Adds /\ Len(read) = Len(Reads[call]) /\ call # Idle
      /\ tree' = WithLeaf(tree, s1, k1, leaf) /\ told' = Append(told, rec)
  BY AddsTyped, ReadsTyped DEF Add, ReadAll
<1>3. s1 \in Ids /\ k1 \in Kinds
  BY <1>1, AddIsOneLeaf
<1>4. /\ Len(read) > 0 /\ DOMAIN read = 1..Len(read) /\ Reads[call][1] = "id"
      /\ DOMAIN Reads[call] = DOMAIN read
  BY <1>1, <1>2, AddsTyped, ReadsTyped
<1>5. \A i \in DOMAIN read : read[i] = ValueOf(Reads[call][i], given[i])
  BY <1>1, <1>2 DEF CallOK
<1>6. given[1] = s1
  <2>1. s1 = ValueOf("id", given[1])
    BY <1>1, <1>4, <1>5
  <2> QED BY <2>1 DEF ValueOf
<1>7. told \in Seq(AddCalls) /\ rec \in AddCalls
  BY <1>1, <1>2 DEF HistoryOK, CallOK, AddCalls
<1>8. call = "addCertLeaf" => leaf = <<given[2]>>
  <2> SUFFICES ASSUME call = "addCertLeaf" PROVE leaf = <<given[2]>>
    OBVIOUS
  <2>1. Reads[call] = <<"id", "field">>
    BY DEF Reads, CertLeafReads
  <2>2. Len(read) = 2 /\ Reads[call][2] = "field"
    BY <1>2, <2>1
  <2>3. read[2] = ValueOf("field", given[2])
    BY <1>4, <1>5, <2>2
  <2>4. read[2] = given[2]
    BY <2>3 DEF ValueOf
  <2>5. Len(leaf) = 1 /\ leaf[1] = read[2] /\ leaf \in Seq(Values)
    BY <1>1, <2>2
  <2>6. leaf = <<leaf[1]>>
    BY <2>5, OneElement
  <2> QED BY <2>4, <2>5, <2>6
<1>9. k1 = "cert" \/ call # "addCertLeaf"
  BY DEF KindOf
<1> HIDE DEF rec, leaf, s1, k1
<1>10. /\ rec.op = call /\ rec.args = given
       /\ KindOf[rec.op] = k1 /\ rec.args[1] = s1
  BY <1>6 DEF rec, k1
<1>11. /\ Len(told) \in Nat /\ DOMAIN told = 1..Len(told) /\ DOMAIN told' = 1..(Len(told) + 1)
       /\ told'[Len(told) + 1] = rec /\ told' \in Seq(AddCalls)
       /\ \A i \in 1..Len(told) : told'[i] = told[i]
       /\ \A i \in DOMAIN told' : i \in DOMAIN told \/ i = Len(told) + 1
  BY <1>2, <1>7
<1>12. \A s \in Ids, k \in Kinds :
         ToldOf(s, k)' = IF s = s1 /\ k = k1 THEN Append(ToldOf(s, k), rec) ELSE ToldOf(s, k)
  <2> SUFFICES ASSUME NEW s \in Ids, NEW k \in Kinds
               PROVE  ToldOf(s, k)' = IF s = s1 /\ k = k1 THEN Append(ToldOf(s, k), rec)
                                      ELSE ToldOf(s, k)
    OBVIOUS
  <2>1. \A i \in 1..Len(told) : i \in MineNow(s, k) <=> i \in Mine(s, k)
    BY <1>11
  <2>2. Len(told) + 1 \in MineNow(s, k) <=> s = s1 /\ k = k1
    BY <1>10, <1>11
  <2>3. ToldOf(s, k) = Kept(told, Mine(s, k)) /\ ToldOf(s, k)' = Kept(told', MineNow(s, k))
    BY DEF ToldOf
  <2> HIDE DEF Mine, MineNow
  <2>4. Kept(Append(told, rec), MineNow(s, k)) =
          IF Len(told) + 1 \in MineNow(s, k) THEN Append(Kept(told, Mine(s, k)), rec)
          ELSE Kept(told, Mine(s, k))
    BY <1>7, <2>1, KeptAppend
  <2> QED BY <1>2, <2>2, <2>3, <2>4
<1>13. /\ \A s \in Ids, k \in Kinds : ~(s = s1 /\ k = k1) => tree'[s][k] = tree[s][k]
       /\ tree'[s1][k1] = IF k1 = "scc" THEN <<leaf>> ELSE Append(tree[s1][k1], leaf)
       /\ \A s \in Ids : s # s1 => tree'[s] = tree[s]
  BY <1>1, <1>2, <1>3 DEF WithLeaf
<1>14. PresentOK'
  <2>1. tree'[s1][k1] # <<>>
    <3>1. tree[s1][k1] \in Seq(Seq(Values)) /\ <<leaf>> # <<>>
      BY <1>1, <1>3
    <3>2. Append(tree[s1][k1], leaf) # <<>>
      BY <3>1
    <3> QED BY <1>13, <3>1, <3>2
  <2>2. Present(tree', s1)
    BY <1>3, <2>1 DEF Present, NoLeaves
  <2>3. \A s \in Ids : s # s1 => (Present(tree', s) <=> Present(tree, s))
    BY <1>13 DEF Present
  <2>4. ASSUME NEW s \in Ids
        PROVE  Present(tree', s) <=> \E i \in DOMAIN told' : told'[i].args[1] = s
    <3>1. CASE s = s1
      <4>1. Len(told) + 1 \in DOMAIN told' /\ told'[Len(told) + 1].args[1] = s
        BY <1>10, <1>11, <3>1
      <4> QED BY <2>2, <3>1, <4>1
    <3>2. CASE s # s1
      <4>1. told'[Len(told) + 1].args[1] # s
        BY <1>10, <1>11, <3>2
      <4>2. Present(tree, s) <=> \E i \in DOMAIN told : told[i].args[1] = s
        BY <1>1 DEF HistoryOK, PresentOK
      <4>3. (\E i \in DOMAIN told' : told'[i].args[1] = s) <=>
              \E i \in DOMAIN told : told[i].args[1] = s
        BY <1>11, <4>1
      <4> QED BY <2>3, <3>2, <4>2, <4>3
    <3> QED BY <3>1, <3>2
  <2> QED BY <2>4 DEF PresentOK
<1>15. ASSUME NEW s \in Ids, NEW k \in Kinds
       PROVE  LeavesOK(tree'[s][k], ToldOf(s, k)', k)
  <2> DEFINE mine == ToldOf(s, k)
             list == tree[s][k]
  <2>1. LeavesOK(list, mine, k)
    BY <1>1 DEF HistoryOK
  <2>2. CASE ~(s = s1 /\ k = k1)
    <3>1. tree'[s][k] = list /\ ToldOf(s, k)' = mine
      BY <1>12, <1>13, <2>2
    <3> QED BY <2>1, <3>1
  <2>3. CASE s = s1 /\ k = k1
    <3> DEFINE newMine == Append(mine, rec)
               newList == IF k = "scc" THEN <<leaf>> ELSE Append(list, leaf)
    <3>1. ToldOf(s, k)' = newMine /\ tree'[s][k] = newList
      BY <1>12, <1>13, <2>3
    <3>2. mine \in Seq(AddCalls)
      BY <1>7, KeptTyped DEF ToldOf
    <3>3. list \in Seq(Seq(Values))
      BY <1>1
    <3> HIDE DEF mine, list
    <3>4. /\ Len(mine) \in Nat /\ Len(newMine) = Len(mine) + 1 /\ newMine[Len(mine) + 1] = rec
          /\ \A i \in 1..Len(mine) : newMine[i] = mine[i]
      BY <3>2
    <3>5. CASE k = "scc"
      <4>1. Len(newList) = 1
        BY <3>5
      <4>2. \A i \in 1..Len(newMine) : KindOf[newMine[i].op] = k
        BY <1>10, <2>1, <2>3, <3>4 DEF LeavesOK
      <4>3. KindOf["addCertLeaf"] # k
        BY <3>5 DEF KindOf
      <4> HIDE DEF newMine, newList
      <4> QED BY <3>1, <3>4, <3>5, <4>1, <4>2, <4>3 DEF LeavesOK
    <3>6. CASE k # "scc"
      <4>1. /\ Len(list) = Len(mine) /\ Len(newList) = Len(mine) + 1
            /\ newList[Len(mine) + 1] = leaf
            /\ \A i \in 1..Len(mine) : newList[i] = list[i]
        BY <2>1, <3>3, <3>4, <3>6 DEF LeavesOK
      <4> HIDE DEF newMine, newList
      <4>2. ASSUME NEW i \in 1..Len(newMine)
            PROVE  /\ KindOf[newMine[i].op] = k
                   /\ newMine[i].op = "addCertLeaf" => newList[i] = <<newMine[i].args[2]>>
        <5>1. CASE i = Len(mine) + 1
          BY <1>8, <1>10, <2>3, <3>4, <4>1, <5>1
        <5>2. CASE i \in 1..Len(mine)
          BY <2>1, <3>4, <4>1, <5>2 DEF LeavesOK
        <5> QED BY <3>4, <5>1, <5>2
      <4> QED BY <3>1, <3>4, <3>6, <4>1, <4>2 DEF LeavesOK
    <3> QED BY <3>5, <3>6
  <2> QED BY <2>2, <2>3
<1> QED BY <1>11, <1>14, <1>15 DEF HistoryOK, AddCalls

LEMMA NextHistoryOK ==
  ASSUME HInv, [Next]_vars
  PROVE  HistoryOK'
<1>1. IInv /\ HistoryOK
  BY DEF HInv
<1>2. CASE UNCHANGED <<tree, told>>
  BY <1>1, <1>2 DEF HistoryOK, PresentOK, ToldOf, AddCalls
<1>3. CASE UNCHANGED vars
  BY <1>2, <1>3 DEF vars
<1>4. ASSUME NEW op \in Ops, Invoke(op)  PROVE HistoryOK'
  BY <1>2, <1>4 DEF Invoke
<1>5. ASSUME NEW a \in Arguments[How], ReadArgument(a)  PROVE HistoryOK'
  BY <1>2, <1>5 DEF ReadArgument
<1>6. CASE Ending
  BY <1>2, <1>6 DEF Ending
<1> QED BY <1>1, <1>3, <1>4, <1>5, <1>6, AddHistory, StepCases

(* The steps that have to do with proofs.                                   *)
LEMMA ProofCases ==
  ASSUME HInv, Next
  PROVE  \/ proof' = proof /\ answer'.kind # "verdict"
         \/ FreeProof
         \/ \E p \in ForeignPaths : Deserialize("existence", p)
         \/ \E p \in ForeignNeighbours : Deserialize("absence", p)
         \/ GetScExistenceProof \/ GetScAbsenceProof
         \/ \E x \in ScCommitments, t \in Trees : VerifyScCommitment(x, Commitment(t))
         \/ \E t \in Trees : VerifyScAbsence(Commitment(t))
<1> USE DEF Done, Exception, Refused, Added, Optional, Answer, NoAnswer
<1>1. CASE Java
  <2>1. ASSUME NEW op \in Ops, Invoke(op) \/ GuardRejects(op)
        PROVE  proof' = proof /\ answer'.kind # "verdict"
    BY <2>1 DEF Invoke, GuardRejects
  <2>2. ASSUME FreeCommitmentTree \/ DeserializeFails
        PROVE  proof' = proof /\ answer'.kind # "verdict"
    BY <2>2 DEF FreeCommitmentTree, DeserializeFails
  <2> QED BY <1>1, <2>1, <2>2 DEF Java, ProofCall
<1>2. CASE Native
  <2>1. ASSUME Reading, NEW a, ReadArgument(a)
        PROVE  proof' = proof /\ answer'.kind # "verdict"
    BY <2>1 DEF HInv, CallOK, Reading, ReadArgument
  <2>2. ASSUME NEW a, ReadFails(a)
        PROVE  proof' = proof /\ answer'.kind # "verdict"
    BY <2>2 DEF ReadFails, Return
  <2>3. ASSUME TreeGone \/ Add \/ Refuse
        PROVE  proof' = proof /\ answer'.kind # "verdict"
    BY <2>3 DEF TreeGone, Add, Refuse, Return
  <2>4. ASSUME GetKind \/ GetCrtLeaves \/ GetScCommitment \/ GetCommitment
        PROVE  proof' = proof /\ answer'.kind # "verdict"
    BY <2>4 DEF GetKind, GetCrtLeaves, GetScCommitment, GetCommitment, Return
  <2> QED BY <1>2, <2>1, <2>2, <2>3, <2>4 DEF Native
<1> QED BY <1>1, <1>2 DEF Next

(* The id a call has read, once it has read all.                            *)
LEMMA IdWasRead ==
  ASSUME IInv, call \in Ops, Len(read) = Len(Reads[call]), Len(Reads[call]) > 0
  PROVE  read[1] \in Ids
<1>1. read # <<>> /\ call # Idle
  BY ReadsTyped, CommitmentAssumption
<1> QED BY <1>1 DEF IInv, IdRead

LEMMA NextProofOK ==
  ASSUME HInv, [Next]_vars
  PROVE  ProofOK'
<1>1. IInv /\ ProofOK /\ call \in Ops \cup {Idle}
  BY DEF HInv, IInv, TypeOK
<1>2. CASE proof' = proof
  BY <1>1, <1>2 DEF ProofOK
<1>3. CASE FreeProof
  BY <1>3 DEF FreeProof, NoProof, ProofOK
<1>4. ASSUME NEW p \in ForeignPaths, Deserialize("existence", p)  PROVE ProofOK'
  <2>1. PICK t \in Trees, s \in Ids, i \in 1..2 :
          Present(t, s) /\ p = [PathTo(t, s) EXCEPT !.index = i]
    BY <1>4 DEF ForeignPaths
  <2>2. p.others = PathTo(t, s).others
    BY <2>1 DEF PathTo
  <2>3. IsList(p.others)
    BY <2>1, <2>2, PathOfPresent
  <2>4. proof'.kind = "existence" /\ proof'.what = p /\ proof'.got = <<>>
    BY <1>4 DEF Deserialize
  <2> QED BY <2>3, <2>4 DEF ProofOK
<1>5. ASSUME NEW p \in ForeignNeighbours, Deserialize("absence", p)  PROVE ProofOK'
  <2>1. ASSUME NEW n \in AnyNeighbours, n # None  PROVE IsList(n[1].path.others)
    <3>1. PICK t \in Trees, s \in Ids : Present(t, s) /\ n = Some(Neighbour(t, s))
      BY <2>1 DEF AnyNeighbours
    <3>2. n[1].path = PathTo(t, s)
      BY <3>1 DEF Some, Neighbour
    <3> QED BY <3>1, <3>2, PathOfPresent
  <2>2. p.left \in AnyNeighbours /\ p.right \in AnyNeighbours
    BY DEF ForeignNeighbours
  <2>3. proof'.kind = "absence" /\ proof'.what = p /\ proof'.got = <<>>
    BY <1>5 DEF Deserialize
  <2> QED BY <2>1, <2>2, <2>3 DEF ProofOK
<1>6. CASE GetScExistenceProof
  <2>1. call = "getScExistenceProof" /\ Len(read) = Len(Reads[call]) /\ Reads[call] = <<"id">>
    BY <1>6 DEF GetScExistenceProof, ReadAll, Reads
  <2>2. read[1] \in Ids
    BY <1>1, <2>1, IdWasRead DEF Idle
  <2>3. CASE ~Present(tree, read[1])
    BY <1>2, <1>6, <2>3 DEF GetScExistenceProof
  <2>4. CASE Present(tree, read[1])
    <3>1. /\ proof'.kind = "existence" /\ proof'.what = PathTo(tree, read[1])
          /\ proof'.got[1] = read[1] /\ proof'.got[2] = tree
      BY <1>6, <2>4 DEF GetScExistenceProof
    <3>2. IsList(PathTo(tree, read[1]).others)
      BY <2>2, <2>4, PathOfPresent
    <3> QED BY <2>2, <2>4, <3>1, <3>2 DEF ProofOK
  <2> QED BY <2>3, <2>4
<1>7. CASE GetScAbsenceProof
  <2>1. call = "getScAbsenceProof" /\ Len(read) = Len(Reads[call]) /\ Reads[call] = <<"id">>
    BY <1>7 DEF GetScAbsenceProof, ReadAll, Reads
  <2>2. read[1] \in Ids
    BY <1>1, <2>1, IdWasRead DEF Idle
  <2>3. CASE Present(tree, read[1])
    BY <1>2, <1>7, <2>3 DEF GetScAbsenceProof
  <2>4. CASE ~Present(tree, read[1])
    <3>1. /\ proof'.kind = "absence" /\ proof'.what = Neighbours(tree, read[1])
          /\ proof'.got[1] = read[1] /\ proof'.got[2] = tree
      BY <1>7, <2>4 DEF GetScAbsenceProof
    <3> DEFINE p == Neighbours(tree, read[1])
    <3>2. /\ p.left # None => IsList(p.left[1].path.others)
          /\ p.right # None => IsList(p.right[1].path.others)
      BY <2>2, NeighboursProve
    <3> HIDE DEF p
    <3>3. proof'.what = p
      BY <3>1 DEF p
    <3> QED BY <2>2, <2>4, <3>1, <3>2, <3>3 DEF ProofOK
  <2> QED BY <2>3, <2>4
<1>8. ASSUME NEW x, NEW c, VerifyScCommitment(x, c)  PROVE ProofOK'
  BY <1>2, <1>8 DEF VerifyScCommitment
<1>9. ASSUME NEW c, VerifyScAbsence(c)  PROVE ProofOK'
  BY <1>2, <1>9 DEF VerifyScAbsence
<1>10. CASE UNCHANGED vars
  BY <1>2, <1>10 DEF vars
<1> QED BY <1>2, <1>3, <1>4, <1>5, <1>6, <1>7, <1>8, <1>9, <1>10, ProofCases

LEMMA NextVerdictOK ==
  ASSUME HInv, [Next]_vars
  PROVE  VerdictOK'
<1>1. IInv /\ CallOK /\ ProofOK /\ VerdictOK /\ call \in Ops \cup {Idle}
  BY DEF HInv, IInv, TypeOK
<1>2. CASE answer'.kind # "verdict"
  BY <1>2 DEF VerdictOK
<1>3. CASE UNCHANGED vars
  BY <1>1, <1>3 DEF vars, VerdictOK, Trees
<1>4. CASE \/ FreeProof
           \/ \E p : Deserialize("existence", p) \/ Deserialize("absence", p)
           \/ GetScExistenceProof \/ GetScAbsenceProof
  <2>1. answer'.kind # "verdict"
    BY <1>4 DEF FreeProof, Deserialize, GetScExistenceProof, GetScAbsenceProof, Return,
                Done, Optional, Answer
  <2> QED BY <1>2, <2>1
<1>5. ASSUME NEW x, NEW t \in Trees, VerifyScCommitment(x, Commitment(t))  PROVE VerdictOK'
  <2> DEFINE c == Commitment(t)
  <2> HIDE DEF c
  <2>1. proof' = proof /\ told' = told /\ proof.kind # "absence"
    BY <1>5 DEF VerifyScCommitment
  <2>2. answer' = IF proof.kind = "none" THEN Exception ELSE Verdict(LeadsTo(x, proof.what, c), x, c)
    BY <1>5 DEF VerifyScCommitment, c
  <2>3. CASE proof.kind = "none"
    <3>1. answer'.kind # "verdict"
      BY <2>2, <2>3 DEF Exception, Answer
    <3> QED BY <1>2, <3>1
  <2>4. CASE proof.kind # "none"
    <3>1. proof.kind = "existence"
      BY <1>1, <2>1, <2>4 DEF ProofOK
    <3>2. /\ answer'.about[1] = x /\ answer'.about[2] = c
          /\ answer'.value = LeadsTo(x, proof.what, c)
      BY <2>2, <2>4 DEF Verdict
    <3>3. t \in Trees'
      BY <2>1 DEF Trees
    <3> QED BY <2>1, <3>1, <3>2, <3>3 DEF VerdictOK, c
  <2> QED BY <2>3, <2>4
<1>6. ASSUME NEW t \in Trees, VerifyScAbsence(Commitment(t))  PROVE VerdictOK'
  <2> DEFINE c == Commitment(t)
             x == read[1]
  <2>1. call = "verifyScAbsence" /\ Len(read) = Len(Reads[call]) /\ Reads[call] = <<"id">>
    BY <1>6 DEF VerifyScAbsence, ReadAll, Reads
  <2>2. x \in Ids
    BY <1>1, <2>1, IdWasRead DEF Idle
  <2> HIDE DEF c, x
  <2>3. proof' = proof /\ told' = told /\ proof.kind # "existence"
    BY <1>1, <1>6, <2>1 DEF VerifyScAbsence, CallOK
  <2>4. answer' = IF proof.kind = "none" THEN Exception ELSE Verdict(ProvesAbsence(x, proof.what, c), x, c)
    BY <1>6 DEF VerifyScAbsence, Return, c, x
  <2>5. CASE proof.kind = "none"
    <3>1. answer'.kind # "verdict"
      BY <2>4, <2>5 DEF Exception, Answer
    <3> QED BY <1>2, <3>1
  <2>6. CASE proof.kind # "none"
    <3>1. proof.kind = "absence"
      BY <1>1, <2>3, <2>6 DEF ProofOK
    <3>2. /\ answer'.about[1] = x /\ answer'.about[2] = c
          /\ answer'.value = ProvesAbsence(x, proof.what, c)
      BY <2>4, <2>6 DEF Verdict
    <3>3. t \in Trees'
      BY <2>3 DEF Trees
    <3> QED BY <2>2, <2>3, <3>1, <3>2, <3>3 DEF VerdictOK, c
  <2> QED BY <2>5, <2>6
<1> QED BY <1>2, <1>3, <1>4, <1>5, <1>6, ProofCases

LEMMA NextHInv == HInv /\ [Next]_vars => HInv'
<1> SUFFICES ASSUME HInv, [Next]_vars PROVE HInv'
  OBVIOUS
<1>1. IInv'
  BY NextIInv DEF HInv
<1>2. CallOK' /\ HistoryOK'
  BY NextCallOK, NextHistoryOK
<1>3. ProofOK' /\ VerdictOK'
  BY NextProofOK, NextVerdictOK
<1> QED BY <1>1, <1>2, <1>3 DEF HInv

(* No proof, be it stale, of another tree or put together from several,     *)
(* proves a commitment that is not in the tree, or the absence of a         *)
(* sidechain that is in it.                                                 *)
THEOREM Soundness == Spec => []VerifySound
<1>1. HInv => VerifySound
  <2> SUFFICES ASSUME HInv, answer.kind = "verdict", answer.value
               PROVE  LET x == answer.about[1]  c == answer.about[2] IN
                      IF proof.kind = "existence" THEN \E i \in DOMAIN c : c[i] = x
                      ELSE \A i \in DOMAIN c : c[i][1] # x
    BY DEF VerifySound
  <2> DEFINE x == answer.about[1]
             c == answer.about[2]
  <2>1. ProofOK /\ VerdictOK
    BY DEF HInv
  <2>2. CASE proof.kind = "existence"
    <3>1. IsList(proof.what.others) /\ LeadsTo(x, proof.what, c)
      BY <2>1, <2>2 DEF ProofOK, VerdictOK
    <3>2. \E i \in DOMAIN c : c[i] = x
      BY <3>1, LeadsFromItsPlace
    <3> QED BY <2>2, <3>2
  <2>3. CASE proof.kind # "existence"
    <3>1. PICK t \in Trees : c = Commitment(t)
      BY <2>1 DEF VerdictOK
    <3>2. proof.kind = "absence" /\ ProvesAbsence(x, proof.what, Commitment(t))
      BY <2>1, <2>3, <3>1 DEF VerdictOK
    <3>3. /\ proof.what.left # None => IsList(proof.what.left[1].path.others)
          /\ proof.what.right # None => IsList(proof.what.right[1].path.others)
      BY <2>1, <3>2 DEF ProofOK
    <3>4. \A i \in DOMAIN Commitment(t) : Commitment(t)[i][1] # x
      BY <3>2, <3>3, NothingBetween
    <3> QED BY <2>3, <3>1, <3>4
  <2> QED BY <2>2, <2>3
<1> QED BY <1>1, InitHInv, NextHInv, PTL DEF Spec

(* A proof keeps proving what it was got for, against the commitment of the *)
(* tree as it was; one of absence that of every sidechain between the same  *)
(* neighbours.                                                              *)
THEOREM Completeness == Spec => []ProofsComplete
<1>1. HInv => ProofsComplete
  <2> DEFINE s == proof.got[1]
             t == proof.got[2]
             x == answer.about[1]
             proves == IF proof.kind = "existence" THEN x = ScCommitment(t, s)
                       ELSE ~Present(t, x) /\ Neighbours(t, x) = Neighbours(t, s)
  <2> SUFFICES ASSUME HInv, answer.kind = "verdict", proof.got # <<>>,
                      answer.about[2] = Commitment(t), proves
               PROVE  answer.value
    BY DEF ProofsComplete
  <2>1. ProofOK /\ VerdictOK
    BY DEF HInv
  <2>2. CASE proof.kind = "existence"
    <3>1. s \in Ids /\ Present(t, s) /\ proof.what = PathTo(t, s)
      BY <2>1, <2>2 DEF ProofOK
    <3>2. LeadsTo(ScCommitment(t, s), PathTo(t, s), Commitment(t))
      BY <3>1, PathOfPresent
    <3>3. answer.value = LeadsTo(x, proof.what, Commitment(t))
      BY <2>1, <2>2 DEF VerdictOK
    <3> QED BY <2>2, <3>1, <3>2, <3>3
  <2>3. CASE proof.kind # "existence"
    <3>1. /\ proof.kind = "absence" /\ x \in Ids
          /\ answer.value = ProvesAbsence(x, proof.what, Commitment(t))
      BY <2>1, <2>3 DEF VerdictOK
    <3>2. proof.what = Neighbours(t, s) /\ Neighbours(t, x) = Neighbours(t, s) /\ ~Present(t, x)
      BY <2>1, <2>3, <3>1 DEF ProofOK
    <3>3. ProvesAbsence(x, Neighbours(t, x), Commitment(t))
      BY <3>1, <3>2, NeighboursProve
    <3> QED BY <3>1, <3>2, <3>3
  <2> QED BY <2>2, <2>3
<1> QED BY <1>1, InitHInv, NextHInv, PTL DEF Spec

(* The steps in which a call answers a value that may be missing.           *)
LEMMA OptionalCases ==
  ASSUME HInv, Next, call # Idle, answer'.kind = "optional"
  PROVE  \/ GetKind \/ GetCrtLeaves \/ GetScCommitment \/ GetCommitment
         \/ GetScExistenceProof \/ GetScAbsenceProof
<1> USE DEF Exception, Refused, Added, Verdict, Answer, NoAnswer
<1>1. ~Java
  BY DEF Java, Invoke, GuardRejects, FreeCommitmentTree, ProofCall, FreeProof,
         DeserializeFails, Deserialize, VerifyScCommitment
<1>2. \A a : ~ReadArgument(a) /\ ~ReadFails(a)
  BY DEF HInv, CallOK, ReadArgument, ReadFails, Return
<1>3. ~TreeGone /\ ~Add /\ ~Refuse
  BY DEF TreeGone, Add, Refuse, Return
<1>4. \A c : ~VerifyScAbsence(c)
  BY DEF VerifyScAbsence, Return
<1> QED BY <1>1, <1>2, <1>3, <1>4 DEF Next, Native

(* For every sidechain exactly one of the two proofs can be had: that of    *)
(* existence as soon as one output of it was added, that of absence before, *)
(* whatever calls failed in between.                                        *)
THEOREM OneOfTwoProofs == Spec => ExactlyOneProof
<1> DEFINE Asked == answer'.kind = "optional" /\ call \in {"getScExistenceProof", "getScAbsenceProof"}
           Known == \E i \in DOMAIN told : told[i].args[1] = read[1]
           Right == (answer'.value # None) = ((call = "getScExistenceProof") = Known)
<1>1. HInv /\ [Next]_vars => [Asked => Right]_vars
  <2> SUFFICES ASSUME HInv, Next, Asked PROVE Right
    OBVIOUS
  <2>1. IInv /\ HistoryOK /\ call # Idle
    BY DEF HInv, Idle
  <2>2. GetScExistenceProof \/ GetScAbsenceProof
    BY <2>1, OptionalCases DEF GetKind, GetCrtLeaves, GetScCommitment, GetCommitment, ReadAll,
                               Getters
  <2>3. Len(read) = Len(Reads[call]) /\ Len(Reads[call]) > 0 /\ call \in DOMAIN Reads
    BY <2>2 DEF GetScExistenceProof, GetScAbsenceProof, ReadAll, Reads
  <2>4. read[1] \in Ids
    BY <2>1, <2>3, IdWasRead DEF IInv, TypeOK
  <2>5. Present(tree, read[1]) <=> Known
    BY <2>1, <2>4 DEF HistoryOK, PresentOK
  <2>6. None # Some("proof")
    BY DEF None, Some
  <2>7. CASE GetScExistenceProof
    <3>1. /\ call = "getScExistenceProof"
          /\ answer'.value = IF Present(tree, read[1]) THEN Some("proof") ELSE None
      BY <2>7 DEF GetScExistenceProof, ReadAll, Return, Optional, Answer
    <3> QED BY <2>5, <2>6, <3>1
  <2>8. CASE GetScAbsenceProof
    <3>1. /\ call # "getScExistenceProof"
          /\ answer'.value = IF Present(tree, read[1]) THEN None ELSE Some("proof")
      BY <2>8 DEF GetScAbsenceProof, ReadAll, Return, Optional, Answer
    <3> QED BY <2>5, <2>6, <3>1
  <2> QED BY <2>2, <2>7, <2>8
<1> QED BY <1>1, InitHInv, NextHInv, PTL DEF Spec, ExactlyOneProof

(* What is read of an argument is what is committed for it.                 *)
LEMMA ValueCommitted ==
  ASSUME NEW how \in DOMAIN Arguments, NEW a \in Arguments[how], Readable(how, a)
  PROVE  CommittedAs(how, a, ValueOf(how, a))
<1>1. CASE how = "buffer"
  <2>1. a \in Seq(Nat) /\ Len(a) <= BufferSize /\ BufferSize \in Nat
    BY <1>1, CommitmentAssumption DEF Readable
  <2>2. PICK n \in 0..BufferSize : n = BufferSize - Len(a)
    BY <2>1
  <2> DEFINE zeros == [i \in 1..n |-> 0]
             all == a \o zeros
             v == ToBuffer(a)
  <2>3. zeros \in Seq(Nat) /\ Len(zeros) = n /\ \A i \in 1..n : zeros[i] = 0
    OBVIOUS
  <2> HIDE DEF zeros
  <2>4. /\ all \in Seq(Nat) /\ Len(all) = BufferSize
        /\ \A i \in 1..BufferSize : all[i] = IF i <= Len(a) THEN a[i] ELSE zeros[i - Len(a)]
    <3>1. all \in Seq(Nat) /\ Len(all) = Len(a) + Len(zeros)
      BY <2>1, <2>3, ConcatProperties
    <3>2. \A i \in 1..(Len(a) + Len(zeros)) :
            all[i] = IF i <= Len(a) THEN a[i] ELSE zeros[i - Len(a)]
      BY <2>1, <2>3, ConcatProperties
    <3>3. Len(a) + Len(zeros) = BufferSize
      BY <2>1, <2>2, <2>3
    <3> HIDE DEF all
    <3> QED BY <3>1, <3>2, <3>3
  <2> HIDE DEF all
  <2>5. all = [i \in 1..BufferSize |-> all[i]]
    BY <2>1, <2>4
  <2>6. \A i \in 1..BufferSize : all[i] = IF i \in DOMAIN a THEN a[i] ELSE 0
    <3> SUFFICES ASSUME NEW i \in 1..BufferSize
                 PROVE  all[i] = IF i \in DOMAIN a THEN a[i] ELSE 0
      OBVIOUS
    <3>1. CASE i <= Len(a)
      BY <2>1, <2>4, <3>1
    <3>2. CASE ~(i <= Len(a))
      <4>1. i - Len(a) \in 1..n /\ i \notin DOMAIN a
        BY <2>1, <2>2, <3>2
      <4> QED BY <2>3, <2>4, <3>2, <4>1
    <3> QED BY <3>1, <3>2
  <2>7. all = v
    BY <2>5, <2>6 DEF ToBuffer
  <2>8. Len(v) = BufferSize
    BY <2>4, <2>7
  <2>9. \E m \in 0..BufferSize : a \o [i \in 1..m |-> 0] = v /\ Len(v) = BufferSize
    BY <2>2, <2>7, <2>8 DEF all, zeros
  <2>10. ValueOf(how, a) = v
    BY <1>1 DEF ValueOf
  <2> HIDE DEF v
  <2> QED BY <1>1, <2>9, <2>10 DEF CommittedAs
<1>2. CASE how \in {"fields", "nullableFields"} /\ a # Null
  <2>1. /\ a \in Seq(Elements \cup DOMAIN Longer \cup {NoElement, WrongLength})
        /\ \A i \in DOMAIN a : Deserializable(a[i])
    BY <1>2, CommitmentAssumption DEF Readable
  <2>2. DOMAIN a = 1..Len(a) /\ Len(a) \in Nat
    BY <2>1
  <2> DEFINE v == [i \in DOMAIN a |-> FirstElement(a[i])]
  <2>3. ValueOf(how, a) = v
    BY <1>2 DEF ValueOf
  <2>4. v = [i \in 1..Len(a) |-> FirstElement(a[i])]
    BY <2>2
  <2>5. Len(v) = Len(a)
    BY <2>2, <2>4
  <2>6. \A i \in 1..Len(a) : v[i] = IF a[i] \in Elements THEN a[i] ELSE Longer[a[i]]
    BY <2>4 DEF FirstElement
  <2> HIDE DEF v
  <2> QED BY <1>2, <2>3, <2>5, <2>6 DEF CommittedAs
<1>3. CASE how # "buffer" /\ ~(how \in {"fields", "nullableFields"} /\ a # Null)
  BY <1>3 DEF CommittedAs, ValueOf
<1> QED BY <1>1, <1>2, <1>3

(* An output is committed as the application gave it, whatever the length   *)
(* of its arrays: padded, an empty list as a missing one, elements in their *)
(* place and each by its first bytes when there are more, or as it is.      *)
THEOREM AddsExactly == Spec => AddsWhatWasGiven
<1> DEFINE Adding == call # Idle /\ answer'.kind = "added"
           list == tree'[given[1]][KindOf[call]]
           leaf == list[Len(list)]
           AsGiven == /\ Len(leaf) + 1 = Len(given)
                      /\ \A i \in DOMAIN leaf :
                           CommittedAs(Reads[call][i + 1], given[i + 1], leaf[i])
<1>1. HInv /\ [Next]_vars => [Adding => AsGiven]_vars
  <2> SUFFICES ASSUME HInv, Next, Adding PROVE AsGiven
    OBVIOUS
  <2>1. /\ IInv /\ CallOK /\ Len(given) = Len(read) /\ read \in Seq(Values)
        /\ tree \in [Ids -> [Kinds -> Seq(Seq(Values))]] /\ call \in Ops \cup {Idle}
    BY DEF HInv, IInv, TypeOK
  <2>2. Add
    <3>1. \A op : ~Invoke(op)
      BY DEF Invoke
    <3>2. \A a : ~ReadArgument(a)
      BY <2>1 DEF ReadArgument, CallOK, NoAnswer, Answer
    <3>3. ~Ending
      BY DEF Ending
    <3> QED BY <2>1, <3>1, <3>2, <3>3, StepCases
  <2>3. /\ call \in Adds /\ Len(read) = Len(Reads[call])
        /\ tree' = WithLeaf(tree, read[1], KindOf[call], Tail(read))
    BY <2>2 DEF Add, ReadAll
  <2>4. /\ Len(read) > 0 /\ DOMAIN read = 1..Len(read) /\ Reads[call][1] = "id"
        /\ DOMAIN Reads[call] = DOMAIN read
    BY <2>1, <2>3, AddsTyped, ReadsTyped
  <2>5. \A i \in DOMAIN read : /\ given[i] \in Arguments[Reads[call][i]]
                               /\ Readable(Reads[call][i], given[i])
                               /\ read[i] = ValueOf(Reads[call][i], given[i])
    BY <2>1 DEF CallOK
  <2>6. given[1] = read[1]
    <3>1. read[1] = ValueOf("id", given[1])
      BY <2>1, <2>4, <2>5
    <3> QED BY <3>1 DEF ValueOf
  <2>7. read[1] \in Ids /\ KindOf[call] \in Kinds
    BY <2>1, <2>2, AddIsOneLeaf
  <2> DEFINE old == tree[read[1]][KindOf[call]]
             rest == Tail(read)
  <2>8. old \in Seq(Seq(Values)) /\ rest \in Seq(Values) /\ Len(rest) = Len(read) - 1
    BY <2>1, <2>4, <2>7
  <2>9. list = IF KindOf[call] = "scc" THEN <<rest>> ELSE Append(old, rest)
    BY <2>1, <2>3, <2>6, <2>7 DEF WithLeaf
  <2>10. leaf = rest
    <3> HIDE DEF old, rest, list
    <3>1. Len(<<rest>>) = 1 /\ <<rest>>[1] = rest
      OBVIOUS
    <3>2. Len(Append(old, rest)) = Len(old) + 1 /\ Append(old, rest)[Len(old) + 1] = rest
      BY <2>8
    <3> QED BY <2>9, <3>1, <3>2
  <2>11. \A i \in DOMAIN rest : rest[i] = read[i + 1] /\ i + 1 \in DOMAIN read
    BY <2>1, <2>4
  <2>12. \A i \in DOMAIN read : CommittedAs(Reads[call][i], given[i], read[i])
    <3> SUFFICES ASSUME NEW i \in DOMAIN read
                 PROVE  CommittedAs(Reads[call][i], given[i], read[i])
      OBVIOUS
    <3>1. Reads[call][i] \in DOMAIN Arguments
      BY <2>1, <2>3, <2>4, AddsTyped, ReadsTyped, CommitmentAssumption
    <3> QED BY <2>5, <3>1, ValueCommitted
  <2> HIDE DEF leaf, rest
  <2>13. Len(leaf) + 1 = Len(given)
    BY <2>1, <2>4, <2>8, <2>10
  <2>14. ASSUME NEW i \in DOMAIN leaf
         PROVE  CommittedAs(Reads[call][i + 1], given[i + 1], leaf[i])
    BY <2>10, <2>11, <2>12
  <2> QED BY <2>13, <2>14
<1> QED BY <1>1, InitHInv, NextHInv, PTL DEF Spec, AddsWhatWasGiven

(* A getter answers the leaves the application was told of: nothing for a   *)
(* sidechain nothing was added to, all of them once there is one.           *)
LEMMA GetterAgrees ==
  ASSUME HInv, call \in Getters \cup {"getCrtLeaves"}, read[1] \in Ids,
         NEW v, LET leaves == tree[read[1]][KindOf[call]] IN
                \/ Present(tree, read[1]) /\ v = Some(leaves)
                \/ leaves = <<>> /\ v = None
  PROVE  Agrees(call, read[1], v)
<1> DEFINE s == read[1]
           k == KindOf[call]
           mine == ToldOf(s, k)
           leaves == tree[s][k]
<1>1. tree \in [Ids -> [Kinds -> Seq(Seq(Values))]] /\ HistoryOK
  BY DEF HInv, IInv, TypeOK
<1>2. k \in Kinds /\ (k = "scc" <=> call = "getScCr")
  BY DEF Getters, KindOf, Kinds
<1>3. \A j \in Kinds : LeavesOK(tree[s][j], ToldOf(s, j), j)
  BY <1>1 DEF HistoryOK
<1>4. \A j \in Kinds : ToldOf(s, j) \in Seq(AddCalls)
  BY <1>1, KeptTyped DEF HistoryOK, ToldOf
<1>5. leaves \in Seq(Seq(Values)) /\ mine \in Seq(AddCalls)
  BY <1>1, <1>2, <1>4
<1>6. /\ Len(leaves) = IF call = "getScCr" /\ Len(mine) > 0 THEN 1 ELSE Len(mine)
      /\ \A i \in 1..Len(mine) : mine[i].op = "addCertLeaf" => leaves[i] = <<mine[i].args[2]>>
  BY <1>2, <1>3 DEF LeavesOK
<1>7. ASSUME Present(tree, s)
      PROVE  \E j \in Kinds : ToldOf(s, j) # <<>>
  <2>1. PICK j \in Kinds : tree[s][j] # <<>>
    <3>1. tree[s] = [j \in Kinds |-> tree[s][j]]
      BY <1>1
    <3> QED BY <1>7, <3>1 DEF Present, NoLeaves
  <2>2. Len(tree[s][j]) > 0
    <3>1. tree[s][j] \in Seq(Seq(Values))
      BY <1>1
    <3> QED BY <2>1, <3>1
  <2>3. Len(ToldOf(s, j)) > 0
    BY <1>3, <1>4, <2>2 DEF LeavesOK
  <2> QED BY <2>3
<1>8. \A y : Some(y) # None /\ Some(y)[1] = y
  BY DEF Some, None
<1> HIDE DEF mine, leaves, s, k
<1>9. CASE Present(tree, s) /\ v = Some(leaves)
  <2>1. v # None /\ v[1] = leaves
    BY <1>8, <1>9
  <2>2. DOMAIN mine = 1..Len(mine)
    BY <1>5
  <2> QED BY <1>6, <1>7, <1>9, <2>1, <2>2 DEF Agrees, mine, s, k
<1>10. CASE leaves = <<>> /\ v = None
  <2>1. Len(mine) = 0 /\ DOMAIN mine = 1..Len(mine)
    BY <1>5, <1>6, <1>10
  <2> QED BY <1>10, <2>1 DEF Agrees, mine, s, k
<1> QED BY <1>9, <1>10 DEF leaves, s, k

(* What the getters answer agrees with what the application was told before.*)
THEOREM AnswersAgree == Spec => GettersAgree
<1> DEFINE Asked == answer'.kind = "optional" /\ call \in Getters \cup {"getCrtLeaves"}
<1>1. HInv /\ [Next]_vars => [Asked => Agrees(call, read[1], answer'.value)]_vars
  <2> SUFFICES ASSUME HInv, Next, Asked PROVE Agrees(call, read[1], answer'.value)
    OBVIOUS
  <2>1. IInv /\ call # Idle
    BY DEF HInv, Idle, Getters
  <2>2. GetKind \/ GetCrtLeaves
    BY <2>1, OptionalCases DEF GetScCommitment, GetCommitment, GetScExistenceProof,
                               GetScAbsenceProof, ReadAll, Getters
  <2>3. Len(read) = Len(Reads[call]) /\ call \in DOMAIN Reads /\ Len(Reads[call]) > 0
    <3>1. Len(Reads[call]) > 0 /\ call \in DOMAIN Reads
      BY DEF Getters, Reads
    <3> QED BY <2>2, <3>1 DEF GetKind, GetCrtLeaves, ReadAll
  <2>4. read[1] \in Ids
    BY <2>1, <2>3, IdWasRead DEF IInv, TypeOK
  <2> DEFINE leaves == tree[read[1]][KindOf[call]]
  <2>5. \/ Present(tree, read[1]) /\ answer'.value = Some(leaves)
        \/ leaves = <<>> /\ answer'.value = None
    <3>1. CASE GetKind
      BY <3>1 DEF GetKind, Return, Optional, Answer
    <3>2. CASE GetCrtLeaves
      <4>1. KindOf[call] = "cert"
        BY <3>2 DEF GetCrtLeaves, ReadAll, KindOf
      <4> QED BY <3>2, <4>1 DEF GetCrtLeaves, Return, Optional, Answer
    <3> QED BY <2>2, <3>1, <3>2
  <2> QED BY <2>4, <2>5, GetterAgrees
<1> QED BY <1>1, InitHInv, NextHInv, PTL DEF Spec, GettersAgree

==============================================================================
