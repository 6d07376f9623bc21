------------------------- MODULE CertificateProofsProof -------------------------
(***************************************************************************)
(* Proofs about the key files and the certificate proofs, for any          *)
(* committee, any number of threads and any field large enough.            *)
(*                                                                         *)
(* Of CircuitKeys: an undisturbed setup that returns true leaves a pair of *)
(* keys, and every writer holds the committer key.  Of CertificateProofs:  *)
(* the arithmetic of the threshold, that an accepted certificate was       *)
(* signed, and that the proof of enough signatures is accepted.  Of        *)
(* KeyQueries: what is asked about sizes and proving systems is answered   *)
(* as the setup that wrote the files found it.                             *)
(***************************************************************************)
EXTENDS CertificateProofs, KeyQueries, FiniteSetTheorems, WellFoundedInduction, TLAPS

-----------------------------------------------------------------------------
(* The key files: the inductive invariant *)

(* A call past the check of its proving system generates keys that can be  *)
(* written.                                                                *)
Generates ==
  \A t \in Threads :
    pc[t] \in Writing \cup {"openPk"} => circuit[t].kind = "CoboundaryMarlin"

(* Is the call of t a setup that ended well?                               *)
Succeeded(t) == pc[t] = "done" /\ circuit[t] # NoFile /\ result[t] = "true"

(* Two calls on the same paths, one of them writing, know of the other.    *)
OthersNoticed ==
  \A t, u \in Threads :
    (/\ t # u /\ dir[t] = dir[u] /\ pc[u] \in Writing
     /\ pc[t] \in Writing \/ Succeeded(t))
      => overlapped[t]

(* The files an undisturbed setup wrote are still its own.                 *)
PkStays ==
  \A t \in Threads :
    (~overlapped[t] /\ (pc[t] \in {"openVk", "writeVk"} \/ Succeeded(t)))
      => pkFile[dir[t]] = circuit[t]

VkStays ==
  \A t \in Threads :
    (~overlapped[t] /\ Succeeded(t)) => vkFile[dir[t]] = circuit[t]

(* A call that has not begun a setup generates nothing.                    *)
Fresh ==
  \A t \in Threads : pc[t] \in {"idle", "loading"} => circuit[t] = NoFile

KeysInv ==
  KeysTypeOK /\ Fresh /\ Generates /\ WritersGuarded /\ OthersNoticed /\ PkStays /\ VkStays

-----------------------------------------------------------------------------
(* What a finished write leaves *)

LEMMA WrittenKey ==
  ASSUME KeysTypeOK, Generates, NEW t \in Threads, pc[t] \in Writing
  PROVE  /\ circuit[t] \in KeyFiles
         /\ circuit[t] # NoFile
         /\ Written(t) \subseteq KeyFiles \cup {NoFile, Torn}
         /\ ~overlapped[t] => Written(t) = {circuit[t]}
<1>1. circuit[t].kind = "CoboundaryMarlin"
  BY DEF Generates
<1>2. circuit[t] \in [kind : ProvingSystems \cup {"none"}, n : Nat]
  BY DEF KeysTypeOK
<1>3. circuit[t] \in KeyFiles /\ circuit[t] # NoFile
  BY <1>1, <1>2 DEF KeyFiles, NoFile
<1> QED BY <1>3 DEF Written

-----------------------------------------------------------------------------
(* One lemma per action that writes, and one for the others *)

LEMMA OpenPkKeeps ==
  ASSUME KeysInv, NEW t \in Threads, OpenPk(t)
  PROVE  KeysInv'
<1> USE DEF Writing, Goto, Succeeded, OpenPk, Overlap, Writers
<1>1. KeysTypeOK'
  BY DEF KeysInv, KeysTypeOK, KeyLabels, Torn
<1>2. Fresh' /\ Generates' /\ WritersGuarded'
  BY DEF KeysInv, KeysTypeOK, Generates, WritersGuarded, Fresh
<1>3. OthersNoticed'
  BY DEF KeysInv, KeysTypeOK, OthersNoticed, Generates, NoFile
<1>4. PkStays'
  BY DEF KeysInv, KeysTypeOK, OthersNoticed, PkStays, Generates, NoFile
<1>5. VkStays'
  BY DEF KeysInv, KeysTypeOK, OthersNoticed, VkStays, Generates, NoFile
<1> QED BY <1>1, <1>2, <1>3, <1>4, <1>5 DEF KeysInv

LEMMA WritePkKeeps ==
  ASSUME KeysInv, NEW t \in Threads, WritePk(t)
  PROVE  KeysInv'
<1> USE DEF Writing, Goto, Succeeded, WritePk
<1>0. PICK f \in Written(t) : pkFile' = [pkFile EXCEPT ![dir[t]] = f]
  BY DEF WritePk
<1>w. /\ f \in KeyFiles \cup {NoFile, Torn}
      /\ ~overlapped[t] => f = circuit[t]
      /\ circuit[t] # NoFile
  BY <1>0, WrittenKey DEF KeysInv
<1>1. KeysTypeOK'
  BY <1>0, <1>w DEF KeysInv, KeysTypeOK, KeyLabels
<1>2. Fresh' /\ Generates' /\ WritersGuarded'
  BY <1>0, <1>w DEF KeysInv, KeysTypeOK, Generates, WritersGuarded, Fresh
<1>3. OthersNoticed'
  BY <1>0, <1>w DEF KeysInv, KeysTypeOK, OthersNoticed, Generates, NoFile
<1>4. PkStays'
  BY <1>0, <1>w DEF KeysInv, KeysTypeOK, OthersNoticed, PkStays, Generates, NoFile
<1>5. VkStays'
  BY <1>0, <1>w DEF KeysInv, KeysTypeOK, OthersNoticed, VkStays, Generates, NoFile
<1> QED BY <1>1, <1>2, <1>3, <1>4, <1>5 DEF KeysInv

LEMMA WriteVkKeeps ==
  ASSUME KeysInv, NEW t \in Threads, WriteVk(t)
  PROVE  KeysInv'
<1> USE DEF Writing, Goto, Succeeded, WriteVk, Finish
<1>0. PICK f \in Written(t) : vkFile' = [vkFile EXCEPT ![dir[t]] = f]
  BY DEF WriteVk
<1>w. /\ f \in KeyFiles \cup {NoFile, Torn}
      /\ ~overlapped[t] => f = circuit[t]
      /\ circuit[t] # NoFile
  BY <1>0, WrittenKey DEF KeysInv
<1>1. KeysTypeOK'
  BY <1>0, <1>w DEF KeysInv, KeysTypeOK, KeyLabels
<1>2. Fresh' /\ Generates' /\ WritersGuarded'
  BY <1>0, <1>w DEF KeysInv, KeysTypeOK, Generates, WritersGuarded, Fresh
<1>3. OthersNoticed'
  BY <1>0, <1>w DEF KeysInv, KeysTypeOK, OthersNoticed, Generates, NoFile
<1>4. PkStays'
  BY <1>0, <1>w DEF KeysInv, KeysTypeOK, OthersNoticed, PkStays, Generates, NoFile
<1>5. VkStays'
  BY <1>0, <1>w DEF KeysInv, KeysTypeOK, OthersNoticed, VkStays, Generates, NoFile
<1> QED BY <1>1, <1>2, <1>3, <1>4, <1>5 DEF KeysInv

LEMMA OpenVkKeeps ==
  ASSUME KeysInv, NEW t \in Threads, OpenVk(t)
  PROVE  KeysInv'
<1> USE DEF Writing, Goto, Succeeded, OpenVk
<1>1. KeysTypeOK'
  BY DEF KeysInv, KeysTypeOK, KeyLabels, Torn
<1>2. Fresh' /\ Generates' /\ WritersGuarded'
  BY DEF KeysInv, KeysTypeOK, Generates, WritersGuarded, Fresh
<1>3. OthersNoticed'
  BY DEF KeysInv, KeysTypeOK, OthersNoticed, Generates, NoFile
<1>4. PkStays'
  BY DEF KeysInv, KeysTypeOK, OthersNoticed, PkStays, Generates, NoFile
<1>5. VkStays'
  BY DEF KeysInv, KeysTypeOK, OthersNoticed, VkStays, Generates, NoFile
<1> QED BY <1>1, <1>2, <1>3, <1>4, <1>5 DEF KeysInv

LEMMA WriteFailsKeeps ==
  ASSUME KeysInv, NEW t \in Threads, WriteFails(t)
  PROVE  KeysInv'
<1> USE DEF Writing, Goto, Succeeded, WriteFails, Finish
<1>1. KeysTypeOK'
  BY DEF KeysInv, KeysTypeOK, KeyLabels
<1>2. Fresh' /\ Generates' /\ WritersGuarded'
  BY DEF KeysInv, KeysTypeOK, Generates, WritersGuarded, Fresh
<1>3. OthersNoticed'
  BY DEF KeysInv, KeysTypeOK, OthersNoticed, Generates, NoFile
<1>4. PkStays'
  BY DEF KeysInv, KeysTypeOK, OthersNoticed, PkStays, Generates, NoFile
<1>5. VkStays'
  BY DEF KeysInv, KeysTypeOK, OthersNoticed, VkStays, Generates, NoFile
<1> QED BY <1>1, <1>2, <1>3, <1>4, <1>5 DEF KeysInv

LEMMA SetupKeeps ==
  ASSUME KeysInv, NEW t \in Threads, SetupStep(t)
  PROVE  KeysInv'
<1> USE DEF KeysInv, KeysTypeOK, Fresh, Generates, WritersGuarded, OthersNoticed, PkStays, VkStays, Succeeded, Writing, KeyLabels, Goto, Finish, TakeGuard
<1>1. CASE SetupPanics(t)
  BY <1>1 DEF SetupPanics
<1>2. CASE SetupNoCommitterKey(t)
  BY <1>2 DEF SetupNoCommitterKey
<1>3. CASE SetupGuarded(t)
  BY <1>3 DEF SetupGuarded
<1>4. CASE SetupUndefined(t)
  BY <1>4 DEF SetupUndefined
<1>5. CASE SetupDarlin(t)
  BY <1>5 DEF SetupDarlin
<1>6. CASE SetupRefused(t)
  BY <1>6 DEF SetupRefused
<1>7. CASE SetupGenerated(t)
  BY <1>7 DEF SetupGenerated
<1> QED BY <1>1, <1>2, <1>3, <1>4, <1>5, <1>6, <1>7,
     OpenPkKeeps, WritePkKeeps, OpenVkKeeps, WriteVkKeeps, WriteFailsKeeps DEF SetupStep

LEMMA CallKeeps ==
  ASSUME KeysInv, NEW t \in Threads, KeyCall(t)
  PROVE  KeysInv'
<1> USE DEF KeysInv, KeysTypeOK, Fresh, Generates, WritersGuarded, OthersNoticed, PkStays, VkStays, Succeeded, Writing, KeyLabels, Goto, Finish
<1>1. CASE LoadRefused(t)
  BY <1>1 DEF LoadRefused
<1>2. CASE LoadBegin(t)
  BY <1>2 DEF LoadBegin
<1>3. CASE LoadKeys(t)
  BY <1>3 DEF LoadKeys
<1>4. CASE \E d \in Dirs, ps \in ProvingSystems, n \in Sizes : SetupBegin(t, d, ps, n)
  <2>1. PICK d \in Dirs, ps \in ProvingSystems, n \in Sizes : SetupBegin(t, d, ps, n)
    BY <1>4
  <2>2. [kind |-> ps, n |-> n] \in [kind : ProvingSystems \cup {"none"}, n : Nat]
    BY SizesAssumption
  <2> QED BY <2>1, <2>2 DEF SetupBegin
<1> QED BY <1>1, <1>2, <1>3, <1>4 DEF KeyCall

LEMMA SurroundingsKeep ==
  ASSUME KeysInv,
         \/ \E t \in Threads : Return(t)
         \/ \E d \in Dirs, f \in Foreign : Install(d, f)
         \/ Crash
         \/ UNCHANGED keyVars
  PROVE  KeysInv'
<1> USE DEF KeysInv, KeysTypeOK, Fresh, Generates, WritersGuarded, OthersNoticed, PkStays, VkStays, Succeeded, Writing, KeyLabels, Goto
<1>1. ASSUME NEW t \in Threads, Return(t)
      PROVE  KeysInv'
  BY <1>1 DEF Return, NoFile
<1>2. ASSUME NEW d \in Dirs, NEW f \in Foreign, Install(d, f)
      PROVE  KeysInv'
  <2>1. f \in KeyFiles
    BY ForeignAssumption
  <2>2. \A u \in Threads : circuit[u].kind = "CoboundaryMarlin" => circuit[u] # NoFile
    BY DEF NoFile
  <2> QED BY <1>2, <2>1, <2>2 DEF Install, Writers
<1>3. CASE Crash
  BY <1>3 DEF Crash, NoFile
<1>4. CASE UNCHANGED keyVars
  BY <1>4 DEF keyVars
<1> QED BY <1>1, <1>2, <1>3, <1>4

-----------------------------------------------------------------------------
(* The key files: theorems *)

(* The inductive invariant of the proof, for any number of threads, paths  *)
(* and circuits.                                                           *)
THEOREM KeysInvariance == KeysSpec => []KeysInv
<1>1. KeysInit => KeysInv
  <2> SUFFICES ASSUME KeysInit PROVE KeysInv
    OBVIOUS
  <2>1. (CHOOSE d \in Dirs : TRUE) \in Dirs
    BY DirsAssumption
  <2> QED BY <2>1 DEF KeysInit, KeysInv, KeysTypeOK, Fresh, Generates, WritersGuarded, OthersNoticed, PkStays, VkStays, Succeeded, Writing, KeyLabels, Goto, NoFile
<1>2. KeysInv /\ [KeysNext]_keyVars => KeysInv'
  BY SetupKeeps, CallKeeps, SurroundingsKeep DEF KeysNext
<1> QED BY <1>1, <1>2, PTL DEF KeysSpec

(* A setup that returns true while no other used its paths has written the *)
(* two keys of its circuit (generate_circuit_keypair).                     *)
THEOREM SetupPairs == KeysSpec => []SetupPairsKeys
<1>1. KeysInv => SetupPairsKeys
  BY DEF KeysInv, PkStays, VkStays, Succeeded, SetupPairsKeys
<1> QED BY <1>1, KeysInvariance, PTL

(* No setup writes a file without the guard of the committer key.          *)
THEOREM Guarded == KeysSpec => []WritersGuarded
<1>1. KeysInv => WritersGuarded
  BY DEF KeysInv
<1> QED BY <1>1, KeysInvariance, PTL

(* Typing of the committer key, the files and the calls.                   *)
THEOREM KeysTyping == KeysSpec => []KeysTypeOK
<1>1. KeysInv => KeysTypeOK
  BY DEF KeysInv
<1> QED BY <1>1, KeysInvariance, PTL

-----------------------------------------------------------------------------
(* The threshold check *)

(* Induction up to a number, about a set in place of a predicate.          *)
LEMMA SetInductionUpTo ==
  ASSUME NEW n \in Nat, NEW T, 0 \in T, \A k \in 0..(n - 1) : k \in T => k + 1 \in T
  PROVE  \A k \in 0..n : k \in T
<1> DEFINE S == {k \in Nat : k > n \/ k \in T}
<1> SUFFICES ASSUME Nat \ S # {} PROVE FALSE
  OBVIOUS
<1>1. PICK m \in Nat \ S : \A k \in Nat \ S : <<k, m>> \notin OpToRel(<, Nat)
  <2>1. Nat \ S \subseteq Nat
    OBVIOUS
  <2> HIDE DEF S
  <2> QED BY <2>1, NatLessThanWellFounded, WFMin
<1>2. \A k \in Nat \ S : ~(k < m)
  BY <1>1 DEF OpToRel
<1>3. m # 0 /\ m - 1 \in Nat /\ m - 1 < m /\ (m - 1) + 1 = m /\ m - 1 \in 0..(n - 1)
  OBVIOUS
<1> QED BY <1>2, <1>3

LEMMA PowersEquation ==
  ASSUME NEW n \in Nat
  PROVE  PowersOfTwo(n) =
           [i \in 0..n |-> IF i = 0 THEN 1 ELSE 2 * PowersOfTwo(n)[i - 1]]
<1> DEFINE Eq(m, g) == g = [i \in 0..m |-> IF i = 0 THEN 1 ELSE 2 * g[i - 1]]
           T == {m \in Nat : \E g : Eq(m, g)}
<1>1. 0 \in T
  <2>1. Eq(0, [i \in 0..0 |-> 1])
    OBVIOUS
  <2> QED BY <2>1
<1>2. ASSUME NEW m \in Nat, m \in T
      PROVE  m + 1 \in T
  <2>1. PICK g : Eq(m, g)
    BY <1>2
  <2> DEFINE e == [i \in 0..(m + 1) |-> IF i \in 0..m THEN g[i] ELSE 2 * g[m]]
  <2>2. Eq(m + 1, e)
    BY <2>1
  <2> HIDE DEF e, Eq
  <2> QED BY <2>2
<1>3. n \in T
  <2> HIDE DEF T
  <2>1. \A k \in 0..(n - 1) : k \in T => k + 1 \in T
    BY <1>2
  <2>2. \A k \in 0..n : k \in T
    BY <1>1, <2>1, SetInductionUpTo
  <2> QED BY <2>2
<1> QED BY <1>3 DEF PowersOfTwo

(* Every number has a next power of two, less than its double.             *)
THEOREM NextPowerOfTwoBounds ==
  ASSUME NEW n \in Nat \ {0}
  PROVE  /\ NextPowerOfTwo(n) \in Nat
         /\ n <= NextPowerOfTwo(n)
         /\ NextPowerOfTwo(n) < 2 * n
<1> DEFINE w == PowersOfTwo(n)
           Next2(k, i) == i <= k /\ w[i] \in Nat /\ k + 1 <= w[i] /\ w[i] < 2 * (k + 1)
           T == {k \in Nat : k < n => \E i \in 0..n : Next2(k, i)}
<1>1. w[0] = 1 /\ \A i \in 1..n : w[i] = 2 * w[i - 1]
  BY PowersEquation
<1> HIDE DEF w
<1>2. 0 \in T
  <2>1. Next2(0, 0) /\ 0 \in 0..n
    BY <1>1
  <2> QED BY <2>1
<1>3. ASSUME NEW k \in 0..((n - 1) - 1), k \in T
      PROVE  k + 1 \in T
  <2>1. k \in Nat /\ k + 1 < n
    OBVIOUS
  <2>2. PICK i \in 0..n : Next2(k, i)
    BY <1>3, <2>1
  <2>3. CASE w[i] = k + 1
    <3>1. i + 1 \in 1..n /\ (i + 1) - 1 = i /\ i + 1 \in 0..n
      BY <2>1, <2>2
    <3>2. w[i + 1] = 2 * (k + 1)
      BY <1>1, <2>3, <3>1
    <3>3. Next2(k + 1, i + 1)
      BY <2>1, <2>2, <3>2
    <3> QED BY <2>1, <3>1, <3>3
  <2>4. CASE w[i] # k + 1
    <3>1. Next2(k + 1, i)
      BY <2>1, <2>2, <2>4
    <3> QED BY <2>1, <3>1
  <2> QED BY <2>3, <2>4
<1>4. n - 1 \in T
  <2> HIDE DEF T
  <2>1. n - 1 \in Nat /\ n - 1 \in 0..(n - 1)
    OBVIOUS
  <2>2. \A k \in 0..(n - 1) : k \in T
    BY <1>2, <1>3, <2>1, SetInductionUpTo
  <2> QED BY <2>1, <2>2
<1>5. PICK i \in 0..n : w[i] \in Nat /\ n <= w[i] /\ w[i] < 2 * n
  <2>1. n - 1 \in Nat /\ n - 1 < n /\ (n - 1) + 1 = n
    OBVIOUS
  <2>2. PICK i \in 0..n : Next2(n - 1, i)
    BY <1>4, <2>1
  <2> QED BY <2>1, <2>2
<1> DEFINE S == {w[j] : j \in 0..n}
<1>6. \A j \in 0..n : w[j] \in Nat
  <2> DEFINE V == {j \in Nat : j <= n => w[j] \in Nat}
  <2>1. 0 \in V
    BY <1>1
  <2>2. ASSUME NEW j \in 0..(n - 1), j \in V
        PROVE  j + 1 \in V
    <3>1. j + 1 \in 1..n /\ (j + 1) - 1 = j /\ w[j] \in Nat
      BY <2>2
    <3> QED BY <1>1, <3>1
  <2>3. \A j \in 0..n : j \in V
    <3> HIDE DEF V
    <3> QED BY <2>1, <2>2, SetInductionUpTo
  <2> QED BY <2>3
<1>7. NextPowerOfTwo(n) = CHOOSE p \in S : n <= p /\ p < 2 * n
  BY DEF NextPowerOfTwo, w
<1>8. NextPowerOfTwo(n) \in S /\ n <= NextPowerOfTwo(n) /\ NextPowerOfTwo(n) < 2 * n
  <2>1. \E p \in S : n <= p /\ p < 2 * n
    BY <1>5
  <2> HIDE DEF S
  <2> QED BY <1>7, <2>1
<1> QED BY <1>6, <1>8

LEMMA CommitteeBounds ==
  /\ MaxPks \in Nat \ {0}
  /\ \A n \in 1..MaxPks :
       /\ NextPowerOfTwo(n) \in Nat
       /\ n <= NextPowerOfTwo(n)
       /\ 2 * NextPowerOfTwo(n) <= U64
<1>1. MaxPks \in Nat \ {0}
  BY CommitteeAssumption
<1>2. ASSUME NEW n \in 1..MaxPks
      PROVE  /\ NextPowerOfTwo(n) \in Nat
             /\ n <= NextPowerOfTwo(n)
             /\ 2 * NextPowerOfTwo(n) <= U64
  <2>1. n \in Nat \ {0}
    BY <1>1
  <2> QED BY <2>1, NextPowerOfTwoBounds, CommitteeAssumption DEF BitsRange
<1> QED BY <1>1, <1>2

(* The count of signatures is a u64 that the low bits can hold.            *)
LEMMA CountBound ==
  ASSUME NEW r \in Requests
  PROVE  /\ Len(r.pks) \in 1..MaxPks
         /\ ValidSignatures(r) \in 0..Len(r.pks)
         /\ ValidSignatures(r) < U64
         /\ AsU64(r.threshold) \in 0..(U64 - 1)
<1>1. PICK n \in 1..MaxPks : r.pks \in [1..n -> Keys]
  BY DEF Requests
<1>2. n \in Nat /\ Len(r.pks) = n /\ DOMAIN r.pks = 1..n
  BY <1>1, CommitteeBounds
<1>3. IsFiniteSet(1..n) /\ Cardinality(1..n) = n
  BY <1>2, FS_Interval
<1>4. ValidPositions(r) \subseteq 1..n
  BY <1>2 DEF ValidPositions
<1>5. ValidSignatures(r) \in Nat /\ ValidSignatures(r) <= n
  BY <1>3, <1>4, FS_Subset, FS_CardinalityType DEF ValidSignatures
<1>6. n < U64
  BY <1>2, CommitteeBounds, FieldAssumption
<1>7. AsU64(r.threshold) \in 0..(U64 - 1)
  BY FieldAssumption DEF Requests, AsU64
<1> QED BY <1>2, <1>5, <1>6, <1>7, FieldAssumption

(* Soundness and completeness of the circuit: the assignment createProof   *)
(* makes satisfies the threshold constraint exactly when there are enough  *)
(* signatures, also for a difference that wrapped around.                  *)
THEOREM ThresholdExact ==
  ASSUME NEW r \in Requests
  PROVE  ThresholdCheck(r) <=> Enough(r)
<1> DEFINE v == ValidSignatures(r)
           t == AsU64(r.threshold)
           n == Len(r.pks)
           m == BitsRange(n)
<1>1. n \in 1..MaxPks /\ v \in 0..n /\ v < U64 /\ t \in 0..(U64 - 1)
  BY CountBound
<1>2. m \in Nat /\ 0 < m /\ m <= U64 /\ n < m
  BY <1>1, CommitteeBounds DEF BitsRange
<1>3. U64 \in Nat /\ P \in Nat /\ 0 < U64 /\ 2 * U64 < P
  BY FieldAssumption
<1> HIDE DEF v, t, n, m
<1>4. CASE v >= t
  <2>1. v - t \in Nat /\ v - t < m /\ v - t < U64 /\ v - t < P
    BY <1>1, <1>2, <1>3, <1>4
  <2>2. (v - t) % P = v - t /\ (v - t) % U64 = v - t /\ (v - t) % m = v - t
    BY <2>1, <1>2, <1>3
  <2> QED BY <2>2, <1>4 DEF ThresholdCheck, FieldSub, BitsOf, Enough, v, t, n, m
<1>5. CASE ~(v >= t)
  <2>1. t - v \in 1..(U64 - 1)
    BY <1>1, <1>3, <1>5
  <2>2. (v - t) % P = P - (t - v)
    <3>1. v - t = (-1) * P + (P - (t - v)) /\ P - (t - v) \in 0..(P - 1)
      BY <1>1, <1>3, <2>1
    <3> QED BY <3>1, <1>1, <1>3
  <2>3. ((v - t) % U64) % m \in 0..(m - 1)
    <3>1. (v - t) % U64 \in Nat
      BY <1>1, <1>3
    <3> QED BY <3>1, <1>2
  <2>4. (v - t) % P # ((v - t) % U64) % m
    BY <1>2, <1>3, <2>1, <2>2, <2>3
  <2> QED BY <2>4, <1>5 DEF ThresholdCheck, FieldSub, BitsOf, Enough, v, t, n, m
<1> QED BY <1>4, <1>5

(* No other bits do: whatever bits are assigned, the circuit is satisfied  *)
(* only with enough signatures.                                            *)
THEOREM ThresholdSound ==
  ASSUME NEW r \in Requests,
         NEW b \in 0..(BitsRange(Len(r.pks)) - 1),
         FieldSub(ValidSignatures(r), AsU64(r.threshold)) = b
  PROVE  Enough(r)
<1> DEFINE v == ValidSignatures(r)
           t == AsU64(r.threshold)
<1>1. v \in Nat /\ v < U64 /\ t \in 0..(U64 - 1)
  BY CountBound
<1>2. b < U64 /\ b \in Int
  <2>1. Len(r.pks) \in 1..MaxPks
    BY CountBound
  <2>2. BitsRange(Len(r.pks)) \in Nat /\ BitsRange(Len(r.pks)) <= U64
    BY <2>1, CommitteeBounds, FieldAssumption DEF BitsRange
  <2> HIDE DEF v, t
  <2> QED BY <2>2, FieldAssumption
<1>3. U64 \in Nat /\ P \in Nat /\ 2 * U64 < P
  BY FieldAssumption
<1>4. (v - t) % P = b
  BY DEF FieldSub
<1> HIDE DEF v, t
<1>5. SUFFICES ASSUME v < t PROVE FALSE
  BY <1>1 DEF Enough, v, t
<1>6. v - t = (-1) * P + (P - (t - v)) /\ P - (t - v) \in 0..(P - 1)
  BY <1>1, <1>3, <1>5
<1>7. (v - t) % P = P - (t - v)
  BY <1>6, <1>1, <1>3
<1> QED BY <1>7, <1>4, <1>1, <1>2, <1>3

-----------------------------------------------------------------------------
(* The inductive invariant *)

(* A call in the middle has its arguments, and no others.                  *)
CallArguments ==
  \A t \in Threads :
    /\ pc[t] \in {"count", "readPk", "lock", "prove"} => batch[t] \in Batches
    /\ pc[t] \in {"vkType", "readVk", "check"} => claim[t] \in Claims
    /\ pc[t] \notin {"vkType", "readVk", "check", "done"} => claim[t] = NoArg
    /\ pc[t] \in {"openPk"} \cup Writing => circuit[t].kind = "CoboundaryMarlin"

(* A proof was made for some batch, and holds exactly when the batch has   *)
(* enough signatures; other bytes do not hold.  A call has no proof that   *)
(* holds but one that was handed out.                                      *)
HoldsFor(p) ==
  IF p.kind = "CoboundaryMarlin"
  THEN \E r \in Batches : p.inputs = PublicInputs(r) /\ (p.good <=> Enough(r))
  ELSE ~p.good

ProofsHold ==
  /\ \A p \in proofs : HoldsFor(p)
  /\ \A t \in Threads : HoldsFor(proof[t]) /\ (proof[t].good => proof[t] \in proofs)

(* What verifyProof accepted.                                              *)
AcceptedHolds ==
  \A t \in Threads :
    (pc[t] = "done" /\ claim[t] # NoArg /\ result[t] = "true")
      => (proof[t].good /\ proof[t].inputs = ClaimInputs(claim[t]))

IInv == TypeOK /\ CallArguments /\ ProofsHold /\ AcceptedHolds

(* The public inputs determine the claim: hashes do not collide, and a     *)
(* count of signatures is not wrapped.                                     *)
LEMMA InputsDetermineClaim ==
  ASSUME NEW r \in Batches, NEW c \in Claims,
         PublicInputs(r) = ClaimInputs(c), Enough(r),
         NEW p \in proofs, p.inputs = PublicInputs(r)
  PROVE  Signed(c)
<1>1. r \in Requests
  BY BatchesAssumption
<1>2. PICK n \in 1..MaxPks : r.pks \in [1..n -> Keys]
  BY <1>1 DEF Requests
<1>3. PICK k \in 1..MaxPks : c.pks \in [1..k -> Keys]
  BY ClaimsAssumption
<1>4. PksThresholdHash(r.pks, r.threshold) = PksThresholdHash(c.pks, c.threshold)
  BY DEF PublicInputs, ClaimInputs
<1>5. CertDataHash(r.cert, ValidSignatures(r)) = CertDataHash(c.cert, c.quality)
  BY DEF PublicInputs, ClaimInputs
<1>6. r.cert = c.cert /\ AsU64(ValidSignatures(r)) = AsU64(c.quality)
  BY <1>5 DEF CertDataHash
<1>7. /\ [i \in DOMAIN r.pks |-> XCoord[r.pks[i]]] = [i \in DOMAIN c.pks |-> XCoord[c.pks[i]]]
      /\ AsU64(r.threshold) = AsU64(c.threshold)
  BY <1>4 DEF PksThresholdHash
<1>8. DOMAIN r.pks = DOMAIN c.pks /\ \A i \in DOMAIN c.pks : XCoord[r.pks[i]] = XCoord[c.pks[i]]
  BY <1>7
<1>9. Len(r.pks) = Len(c.pks)
  <2>1. n \in Nat /\ k \in Nat /\ 1..n = 1..k
    BY <1>2, <1>3, <1>8, CommitteeBounds
  <2>2. n = k
    BY <2>1
  <2> QED BY <2>1, <2>2, <1>2, <1>3
<1>10. AsU64(ValidSignatures(r)) = ValidSignatures(r)
  <2>1. ValidSignatures(r) \in Nat /\ ValidSignatures(r) < U64
    BY <1>1, CountBound
  <2> QED BY <2>1, FieldAssumption DEF AsU64
<1>11. ValidPositions(r) =
         {i \in DOMAIN r.pks : i \in DOMAIN r.sigs /\ r.sigs[i] = <<r.pks[i], c.cert>>}
  BY <1>6 DEF ValidPositions, Verifies
<1> QED BY <1>6, <1>7, <1>8, <1>9, <1>10, <1>11 DEF Signed, Enough, ValidSignatures

(* Batches with the same public inputs both have enough signatures, or     *)
(* neither has.                                                            *)
LEMMA InputsDetermineEnough ==
  ASSUME NEW r \in Batches, NEW q \in Batches, PublicInputs(r) = PublicInputs(q)
  PROVE  Enough(r) <=> Enough(q)
<1>1. r \in Requests /\ q \in Requests
  BY BatchesAssumption
<1>2. ASSUME NEW b \in Requests
      PROVE  AsU64(ValidSignatures(b)) = ValidSignatures(b)
  <2>1. ValidSignatures(b) \in Nat /\ ValidSignatures(b) < U64
    BY CountBound
  <2> QED BY <2>1, FieldAssumption DEF AsU64
<1>3. AsU64(ValidSignatures(r)) = AsU64(ValidSignatures(q))
  BY DEF PublicInputs, CertDataHash
<1>4. AsU64(r.threshold) = AsU64(q.threshold)
  BY DEF PublicInputs, PksThresholdHash
<1> QED BY <1>1, <1>2, <1>3, <1>4 DEF Enough

LEMMA AcceptedSigned == IInv => AcceptedIsSigned
<1> SUFFICES ASSUME IInv, NEW t \in Threads,
                    pc[t] = "done", claim[t] # NoArg, result[t] = "true"
             PROVE  Signed(claim[t])
  BY DEF AcceptedIsSigned
<1>1. claim[t] \in Claims
  BY DEF IInv, TypeOK
<1>2. proof[t].good /\ proof[t].inputs = ClaimInputs(claim[t])
  BY DEF IInv, AcceptedHolds
<1>3. PICK r \in Batches : proof[t].inputs = PublicInputs(r) /\ Enough(r)
  BY <1>2 DEF IInv, ProofsHold, HoldsFor
<1>4. proof[t] \in proofs
  BY <1>2 DEF IInv, ProofsHold
<1> QED BY <1>1, <1>2, <1>3, <1>4, InputsDetermineClaim

-----------------------------------------------------------------------------
(* Typing is preserved *)

LEMMA TypeInit == Init => TypeOK
<1> SUFFICES ASSUME Init PROVE TypeOK
  OBVIOUS
<1> USE DEF Init, KeysInit
<1>1. (CHOOSE d \in Dirs : TRUE) \in Dirs
  BY DirsAssumption
<1>2. NoFile \in KeyFiles \cup {NoFile, Torn}
  OBVIOUS
<1>3. circuit \in [Threads -> [kind : ProvingSystems \cup {"none"}, n : Nat]]
  BY DEF NoFile
<1> QED BY <1>1, <1>2, <1>3 DEF TypeOK, KeyLabels

LEMMA KeyFileType ==
  ASSUME NEW f \in KeyFiles \cup {NoFile, Torn}, IsKey(f)
  PROVE  f \in KeyFiles
BY DEF IsKey, NoFile, Torn

(* The file of a setup that writes is a key, or a fragment.                *)
LEMMA WrittenType ==
  ASSUME TypeOK, CallArguments, NEW t \in Threads, pc[t] \in Writing
  PROVE  Written(t) \subseteq KeyFiles \cup {NoFile, Torn}
<1>1. circuit[t].kind = "CoboundaryMarlin" /\ circuit[t].n \in Nat
  BY DEF CallArguments, TypeOK
<1>2. circuit[t] \in [kind : ProvingSystems \cup {"none"}, n : Nat]
  BY DEF TypeOK
<1>3. circuit[t] \in KeyFiles
  BY <1>1, <1>2 DEF KeyFiles
<1> QED BY <1>3 DEF Written

(* A proof is of one of the calls, and holds if its assignment does.       *)
LEMMA ProofType ==
  ASSUME NEW r \in Batches, NEW n \in Nat
  PROVE  Proof(r, n) \in ProofValues
<1>1. PublicInputs(r) \in Inputs
  BY DEF Inputs
<1>2. ThresholdCheck(r) \in BOOLEAN
  BY DEF ThresholdCheck
<1> QED BY <1>1, <1>2 DEF Proof, ProofValues

(* A step of setup changes no variable of the proofs.                      *)
LEMMA TypeSetup ==
  ASSUME TypeOK, CallArguments, NEW t \in Threads, SetupStep(t), UNCHANGED callVars
  PROVE  TypeOK'
<1> USE DEF TypeOK, callVars, Goto, Finish, TakeGuard, KeyLabels, Writing
<1>1. CASE SetupPanics(t)
  BY <1>1 DEF SetupPanics
<1>2. CASE SetupNoCommitterKey(t)
  BY <1>2 DEF SetupNoCommitterKey
<1>3. CASE SetupGuarded(t)
  BY <1>3 DEF SetupGuarded
<1>4. CASE SetupUndefined(t)
  BY <1>4 DEF SetupUndefined
<1>5. CASE SetupDarlin(t)
  BY <1>5 DEF SetupDarlin
<1>6. CASE SetupRefused(t)
  BY <1>6 DEF SetupRefused
<1>7. CASE SetupGenerated(t)
  BY <1>7 DEF SetupGenerated
<1>8. CASE OpenPk(t)
  BY <1>8 DEF OpenPk, Overlap, Torn
<1>9. CASE WritePk(t)
  <2>1. PICK f \in Written(t) : pkFile' = [pkFile EXCEPT ![dir[t]] = f]
    BY <1>9 DEF WritePk
  <2>2. f \in KeyFiles \cup {NoFile, Torn}
    BY <2>1, <1>9, WrittenType DEF WritePk, Writing
  <2>3. pkFile' \in [Dirs -> KeyFiles \cup {NoFile, Torn}]
    BY <2>1, <2>2
  <2> QED BY <2>3, <1>9 DEF WritePk
<1>10. CASE OpenVk(t)
  BY <1>10 DEF OpenVk
<1>11. CASE WriteVk(t)
  <2>1. PICK f \in Written(t) : vkFile' = [vkFile EXCEPT ![dir[t]] = f]
    BY <1>11 DEF WriteVk
  <2>2. f \in KeyFiles \cup {NoFile, Torn}
    BY <2>1, <1>11, WrittenType DEF WriteVk, Writing
  <2>3. vkFile' \in [Dirs -> KeyFiles \cup {NoFile, Torn}]
    BY <2>1, <2>2
  <2> QED BY <2>3, <1>11 DEF WriteVk
<1>12. CASE WriteFails(t)
  BY <1>12 DEF WriteFails
<1> QED BY <1>1, <1>2, <1>3, <1>4, <1>5, <1>6, <1>7, <1>8, <1>9, <1>10, <1>11, <1>12 DEF SetupStep

LEMMA TypeCreate ==
  ASSUME TypeOK, CallArguments, NEW t \in Threads, CreateStep(t)
  PROVE  TypeOK'
<1> USE DEF TypeOK, callVars, files, Goto, Finish, TakeGuard, KeyLabels, CallLabels
<1>1. CASE CreateFails(t)
  BY <1>1 DEF CreateFails
<1>2. CASE CreateUnderflows(t)
  BY <1>2 DEF CreateUnderflows
<1>3. CASE CreateCounted(t)
  BY <1>3 DEF CreateCounted
<1>4. CASE ReadPkFails(t)
  BY <1>4 DEF ReadPkFails
<1>5. CASE ReadPk(t)
  BY <1>5, KeyFileType DEF ReadPk
<1>6. CASE CreateNoCommitterKey(t)
  BY <1>6 DEF CreateNoCommitterKey
<1>7. CASE CreateGuarded(t)
  BY <1>7 DEF CreateGuarded
<1>8. CASE ProveDarlin(t)
  BY <1>8 DEF ProveDarlin
<1>9. CASE ProveFails(t)
  BY <1>9 DEF ProveFails
<1>10. CASE Prove(t)
  <2>1. batch[t] \in Batches /\ seen[t].n \in Nat
    BY <1>10 DEF Prove, CallArguments, KeyFiles, NoFile
  <2>2. proof' = [proof EXCEPT ![t] = Proof(batch[t], seen[t].n)] /\ proofs' = proofs \cup {proof'[t]}
    BY <1>10 DEF Prove
  <2>3. proof' \in [Threads -> ProofValues \cup {Garbage, NoBytes}] /\ proofs' \subseteq ProofValues
    BY <2>1, <2>2, ProofType
  <2> QED BY <2>3, <1>10 DEF Prove
<1> QED BY <1>1, <1>2, <1>3, <1>4, <1>5, <1>6, <1>7, <1>8, <1>9, <1>10 DEF CreateStep

LEMMA TypeVerify ==
  ASSUME TypeOK, NEW t \in Threads, VerifyStep(t)
  PROVE  TypeOK'
<1> USE DEF TypeOK, callVars, files, Goto, Finish, KeyLabels, CallLabels
<1>1. CASE VerifyRefused(t)
  BY <1>1 DEF VerifyRefused
<1>2. CASE VerifyPanics(t)
  BY <1>2 DEF VerifyPanics
<1>3. CASE VerifyTypesAgree(t)
  BY <1>3 DEF VerifyTypesAgree
<1>4. CASE ReadVkFails(t)
  BY <1>4 DEF ReadVkFails
<1>5. CASE ReadVk(t)
  BY <1>5, KeyFileType DEF ReadVk
<1>6. CASE VerifyCheck(t)
  BY <1>6 DEF VerifyCheck
<1> QED BY <1>1, <1>2, <1>3, <1>4, <1>5, <1>6 DEF VerifyStep

LEMMA TypeKeyCall ==
  ASSUME TypeOK, NEW t \in Threads, KeyCall(t), UNCHANGED callVars
  PROVE  TypeOK'
<1> USE DEF TypeOK, callVars, Goto, Finish, KeyLabels
<1>1. CASE LoadRefused(t)
  BY <1>1 DEF LoadRefused
<1>2. CASE LoadBegin(t)
  BY <1>2 DEF LoadBegin
<1>3. CASE LoadKeys(t)
  BY <1>3 DEF LoadKeys
<1>4. CASE \E d \in Dirs, ps \in ProvingSystems, n \in Sizes : SetupBegin(t, d, ps, n)
  <2>1. PICK d \in Dirs, ps \in ProvingSystems, n \in Sizes : SetupBegin(t, d, ps, n)
    BY <1>4
  <2>2. n \in Nat
    BY SizesAssumption
  <2>3. [kind |-> ps, n |-> n] \in [kind : ProvingSystems \cup {"none"}, n : Nat]
    BY <2>2
  <2> QED BY <2>1, <2>3 DEF SetupBegin
<1> QED BY <1>1, <1>2, <1>3, <1>4 DEF KeyCall

LEMMA TypeCall ==
  ASSUME TypeOK, NEW t \in Threads, Call(t)
  PROVE  TypeOK'
<1> USE DEF TypeOK, files, Goto, KeyLabels, CallLabels
<1>1. CASE KeyCall(t) /\ UNCHANGED callVars
  BY <1>1, TypeKeyCall
<1>2. CASE \E r \in Batches, d \in Dirs : CreateBegin(t, r, d)
  BY <1>2 DEF CreateBegin
<1>3. CASE \E c \in Claims, p \in proofs \cup {Garbage, NoBytes}, d \in Dirs :
             VerifyBegin(t, c, p, d)
  BY <1>3 DEF VerifyBegin
<1> QED BY <1>1, <1>2, <1>3 DEF Call

LEMMA TypeReturn ==
  ASSUME TypeOK, NEW t \in Threads, CallReturn(t)
  PROVE  TypeOK'
BY DEF TypeOK, CallReturn, Return, Goto, KeyLabels, NoFile

LEMMA TypeSurroundings ==
  ASSUME TypeOK,
         \/ CallCrash
         \/ \E d \in Dirs, f \in Foreign : Install(d, f) /\ UNCHANGED callVars
         \/ UNCHANGED vars
  PROVE  TypeOK'
<1> USE DEF TypeOK
<1>1. CASE CallCrash
  BY <1>1 DEF CallCrash, Crash, KeyLabels, NoFile
<1>2. CASE \E d \in Dirs, f \in Foreign : Install(d, f) /\ UNCHANGED callVars
  <2>1. PICK d \in Dirs, f \in Foreign : Install(d, f) /\ UNCHANGED callVars
    BY <1>2
  <2>2. f \in KeyFiles
    BY ForeignAssumption
  <2> QED BY <2>1, <2>2 DEF Install, callVars
<1>3. CASE UNCHANGED vars
  BY <1>3 DEF vars, keyVars, callVars
<1> QED BY <1>1, <1>2, <1>3

LEMMA TypeStep ==
  ASSUME TypeOK, CallArguments, [Next]_vars
  PROVE  TypeOK'
<1>1. ASSUME NEW t \in Threads, Step(t)
      PROVE  TypeOK'
  BY <1>1, TypeSetup, TypeCreate, TypeVerify DEF Step
<1> QED BY <1>1, TypeCall, TypeReturn, TypeSurroundings DEF Next

-----------------------------------------------------------------------------
(* The arguments of a call stay with it *)

LEMMA ArgumentsSetup ==
  ASSUME TypeOK, CallArguments, NEW t \in Threads, SetupStep(t), UNCHANGED callVars
  PROVE  CallArguments'
<1> USE DEF CallArguments, TypeOK, callVars, Goto, Finish, Writing
<1>1. CASE SetupPanics(t)
  BY <1>1 DEF SetupPanics
<1>2. CASE SetupNoCommitterKey(t)
  BY <1>2 DEF SetupNoCommitterKey
<1>3. CASE SetupGuarded(t)
  BY <1>3 DEF SetupGuarded
<1>4. CASE SetupUndefined(t)
  BY <1>4 DEF SetupUndefined
<1>5. CASE SetupDarlin(t)
  BY <1>5 DEF SetupDarlin
<1>6. CASE SetupRefused(t)
  BY <1>6 DEF SetupRefused
<1>7. CASE SetupGenerated(t)
  BY <1>7 DEF SetupGenerated
<1>8. CASE OpenPk(t)
  BY <1>8 DEF OpenPk
<1>9. CASE WritePk(t)
  BY <1>9 DEF WritePk
<1>10. CASE OpenVk(t)
  BY <1>10 DEF OpenVk
<1>11. CASE WriteVk(t)
  BY <1>11 DEF WriteVk
<1>12. CASE WriteFails(t)
  BY <1>12 DEF WriteFails
<1> QED BY <1>1, <1>2, <1>3, <1>4, <1>5, <1>6, <1>7, <1>8, <1>9, <1>10, <1>11, <1>12 DEF SetupStep

LEMMA ArgumentsCreate ==
  ASSUME TypeOK, CallArguments, NEW t \in Threads, CreateStep(t)
  PROVE  CallArguments'
<1> USE DEF CallArguments, TypeOK, callVars, Goto, Finish, Writing
<1>1. CASE CreateFails(t)
  BY <1>1 DEF CreateFails
<1>2. CASE CreateUnderflows(t)
  BY <1>2 DEF CreateUnderflows
<1>3. CASE CreateCounted(t)
  BY <1>3 DEF CreateCounted
<1>4. CASE ReadPkFails(t)
  BY <1>4 DEF ReadPkFails
<1>5. CASE ReadPk(t)
  BY <1>5 DEF ReadPk
<1>6. CASE CreateNoCommitterKey(t)
  BY <1>6 DEF CreateNoCommitterKey
<1>7. CASE CreateGuarded(t)
  BY <1>7 DEF CreateGuarded
<1>8. CASE ProveDarlin(t)
  BY <1>8 DEF ProveDarlin
<1>9. CASE ProveFails(t)
  BY <1>9 DEF ProveFails
<1>10. CASE Prove(t)
  BY <1>10 DEF Prove
<1> QED BY <1>1, <1>2, <1>3, <1>4, <1>5, <1>6, <1>7, <1>8, <1>9, <1>10 DEF CreateStep

LEMMA ArgumentsVerify ==
  ASSUME TypeOK, CallArguments, NEW t \in Threads, VerifyStep(t)
  PROVE  CallArguments'
<1> USE DEF CallArguments, TypeOK, callVars, Goto, Finish, Writing
<1>1. CASE VerifyRefused(t)
  BY <1>1 DEF VerifyRefused
<1>2. CASE VerifyPanics(t)
  BY <1>2 DEF VerifyPanics
<1>3. CASE VerifyTypesAgree(t)
  BY <1>3 DEF VerifyTypesAgree
<1>4. CASE ReadVkFails(t)
  BY <1>4 DEF ReadVkFails
<1>5. CASE ReadVk(t)
  BY <1>5 DEF ReadVk
<1>6. CASE VerifyCheck(t)
  BY <1>6 DEF VerifyCheck
<1> QED BY <1>1, <1>2, <1>3, <1>4, <1>5, <1>6 DEF VerifyStep

LEMMA ArgumentsCall ==
  ASSUME TypeOK, CallArguments, NEW t \in Threads, Call(t)
  PROVE  CallArguments'
<1> USE DEF CallArguments, TypeOK, callVars, Goto, Finish, Writing
<1>1. CASE LoadRefused(t) /\ UNCHANGED callVars
  BY <1>1 DEF LoadRefused
<1>2. CASE LoadBegin(t) /\ UNCHANGED callVars
  BY <1>2 DEF LoadBegin
<1>3. CASE LoadKeys(t) /\ UNCHANGED callVars
  BY <1>3 DEF LoadKeys
<1>4. CASE /\ \E d \in Dirs, ps \in ProvingSystems, n \in Sizes : SetupBegin(t, d, ps, n)
           /\ UNCHANGED callVars
  BY <1>4 DEF SetupBegin
<1>5. CASE \E r \in Batches, d \in Dirs : CreateBegin(t, r, d)
  BY <1>5 DEF CreateBegin
<1>6. CASE \E c \in Claims, p \in proofs \cup {Garbage, NoBytes}, d \in Dirs :
             VerifyBegin(t, c, p, d)
  BY <1>6 DEF VerifyBegin
<1> QED BY <1>1, <1>2, <1>3, <1>4, <1>5, <1>6 DEF Call, KeyCall

LEMMA ArgumentsStep ==
  ASSUME TypeOK, CallArguments, [Next]_vars
  PROVE  CallArguments'
<1>1. ASSUME NEW t \in Threads, Step(t)
      PROVE  CallArguments'
  BY <1>1, ArgumentsSetup, ArgumentsCreate, ArgumentsVerify DEF Step
<1>2. ASSUME NEW t \in Threads, CallReturn(t)
      PROVE  CallArguments'
  BY <1>2 DEF CallArguments, TypeOK, CallReturn, Return, Goto, Writing
<1>3. CASE CallCrash
  BY <1>3 DEF CallArguments, CallCrash, Crash, Writing
<1>4. CASE \E d \in Dirs, f \in Foreign : Install(d, f) /\ UNCHANGED callVars
  BY <1>4 DEF CallArguments, Install, callVars, Writing
<1>5. CASE UNCHANGED vars
  BY <1>5 DEF CallArguments, vars, keyVars, callVars, Writing
<1> QED BY <1>1, <1>2, <1>3, <1>4, <1>5, ArgumentsCall DEF Next

-----------------------------------------------------------------------------
(* Proofs that hold are made by Prove only *)

LEMMA ProveHolds ==
  ASSUME TypeOK, CallArguments, ProofsHold, NEW t \in Threads, Prove(t)
  PROVE  ProofsHold'
<1>1. batch[t] \in Batches /\ batch[t] \in Requests
  BY BatchesAssumption DEF Prove, CallArguments
<1> DEFINE p == Proof(batch[t], seen[t].n)
<1>2. HoldsFor(p)
  <2>1. /\ p.good = ThresholdCheck(batch[t]) /\ p.inputs = PublicInputs(batch[t])
        /\ p.kind = "CoboundaryMarlin"
    BY DEF Proof
  <2> QED BY <2>1, <1>1, ThresholdExact DEF HoldsFor
<1>3. proof' = [proof EXCEPT ![t] = p] /\ proofs' = proofs \cup {p}
  BY DEF Prove, TypeOK
<1> HIDE DEF p
<1> QED BY <1>2, <1>3 DEF ProofsHold, TypeOK

LEMMA ProofsHoldStep ==
  ASSUME TypeOK, CallArguments, ProofsHold, [Next]_vars
  PROVE  ProofsHold'
<1>1. CASE UNCHANGED <<proof, proofs>>
  BY <1>1 DEF ProofsHold
<1>2. HoldsFor(NoBytes) /\ HoldsFor(Garbage) /\ ~NoBytes.good /\ ~Garbage.good
  BY DEF HoldsFor, NoBytes, Garbage
<1>3. ASSUME NEW t \in Threads, Step(t)
      PROVE  ProofsHold'
  <2>1. CASE SetupStep(t) /\ UNCHANGED callVars
    BY <2>1, <1>1 DEF callVars
  <2>2. CASE CreateStep(t)
    <3>1. CASE Prove(t)
      BY <3>1, ProveHolds
    <3>2. CASE ~Prove(t)
      BY <2>2, <3>2, <1>1 DEF CreateStep, callVars, CreateFails, CreateUnderflows, CreateCounted, ReadPkFails, ReadPk, CreateNoCommitterKey, CreateGuarded, ProveDarlin, ProveFails
    <3> QED BY <3>1, <3>2
  <2>3. CASE VerifyStep(t)
    BY <2>3, <1>1 DEF VerifyStep, callVars, VerifyRefused, VerifyPanics,
       VerifyTypesAgree, ReadVkFails, ReadVk, VerifyCheck
  <2> QED BY <1>3, <2>1, <2>2, <2>3 DEF Step
<1>4. ASSUME NEW t \in Threads, Call(t)
      PROVE  ProofsHold'
  <2>1. CASE KeyCall(t) /\ UNCHANGED callVars
    BY <2>1, <1>1 DEF callVars
  <2>2. CASE \E r \in Batches, d \in Dirs : CreateBegin(t, r, d)
    BY <2>2, <1>1 DEF CreateBegin
  <2>3. CASE \E c \in Claims, p \in proofs \cup {Garbage, NoBytes}, d \in Dirs :
               VerifyBegin(t, c, p, d)
    <3>1. PICK p \in proofs \cup {Garbage, NoBytes} :
            proof' = [proof EXCEPT ![t] = p] /\ proofs' = proofs
      BY <2>3 DEF VerifyBegin
    <3>2. HoldsFor(p) /\ (p.good => p \in proofs)
      BY <3>1, <1>2 DEF ProofsHold
    <3> QED BY <3>1, <3>2 DEF ProofsHold, TypeOK
  <2> QED BY <1>4, <2>1, <2>2, <2>3 DEF Call
<1>5. ASSUME NEW t \in Threads, CallReturn(t)
      PROVE  ProofsHold'
  <2>1. proof' = [proof EXCEPT ![t] = NoBytes] /\ proofs' = proofs
    BY <1>5 DEF CallReturn
  <2> QED BY <2>1, <1>2 DEF ProofsHold, TypeOK
<1>6. CASE CallCrash
  <2>1. proof' = [t \in Threads |-> NoBytes] /\ proofs' = proofs
    BY <1>6 DEF CallCrash
  <2> QED BY <2>1, <1>2 DEF ProofsHold
<1>7. CASE \E d \in Dirs, f \in Foreign : Install(d, f) /\ UNCHANGED callVars
  BY <1>7, <1>1 DEF callVars
<1>8. CASE UNCHANGED vars
  BY <1>8, <1>1 DEF vars, callVars
<1> QED BY <1>3, <1>4, <1>5, <1>6, <1>7, <1>8 DEF Next

-----------------------------------------------------------------------------
(* Only VerifyCheck answers true to a claim *)

LEMMA AcceptedOwnStep ==
  ASSUME TypeOK, CallArguments, AcceptedHolds, NEW t \in Threads, Step(t)
  PROVE  AcceptedHolds'
<1> USE DEF AcceptedHolds, CallArguments, TypeOK, Goto, Finish, callVars, Writing
<1>1. CASE SetupStep(t) /\ UNCHANGED callVars
  BY <1>1 DEF SetupStep, SetupPanics, SetupNoCommitterKey, SetupGuarded, SetupUndefined, SetupDarlin, SetupRefused, SetupGenerated, OpenPk, WritePk, OpenVk, WriteVk, WriteFails
<1>2. CASE CreateStep(t)
  BY <1>2 DEF CreateStep, CreateFails, CreateUnderflows, CreateCounted, ReadPkFails, ReadPk, CreateNoCommitterKey, CreateGuarded, ProveDarlin, ProveFails, Prove
<1>3. CASE VerifyStep(t)
  <2>1. CASE VerifyCheck(t)
    BY <2>1 DEF VerifyCheck, Accepts
  <2>2. CASE ~VerifyCheck(t)
    BY <1>3, <2>2 DEF VerifyStep, VerifyRefused, VerifyPanics, VerifyTypesAgree, ReadVkFails, ReadVk
  <2> QED BY <2>1, <2>2
<1> QED BY <1>1, <1>2, <1>3 DEF Step

LEMMA AcceptedStep ==
  ASSUME TypeOK, CallArguments, AcceptedHolds, [Next]_vars
  PROVE  AcceptedHolds'
<1> USE DEF AcceptedHolds, CallArguments, TypeOK, Goto, Finish, callVars
<1>1. ASSUME NEW t \in Threads, Call(t)
      PROVE  AcceptedHolds'
  <2>1. CASE KeyCall(t) /\ UNCHANGED callVars
    BY <2>1 DEF KeyCall, LoadRefused, LoadBegin, LoadKeys, SetupBegin
  <2>2. CASE \E r \in Batches, d \in Dirs : CreateBegin(t, r, d)
    BY <2>2 DEF CreateBegin
  <2>3. CASE \E c \in Claims, p \in proofs \cup {Garbage, NoBytes}, d \in Dirs :
               VerifyBegin(t, c, p, d)
    BY <2>3 DEF VerifyBegin
  <2> QED BY <1>1, <2>1, <2>2, <2>3 DEF Call
<1>2. ASSUME NEW t \in Threads, CallReturn(t)
      PROVE  AcceptedHolds'
  BY <1>2 DEF CallReturn, Return
<1>3. CASE CallCrash
  BY <1>3 DEF CallCrash, Crash
<1>4. CASE \E d \in Dirs, f \in Foreign : Install(d, f) /\ UNCHANGED callVars
  BY <1>4 DEF Install
<1>5. CASE UNCHANGED vars
  BY <1>5 DEF vars, keyVars
<1> QED BY <1>1, <1>2, <1>3, <1>4, <1>5, AcceptedOwnStep DEF Next

-----------------------------------------------------------------------------
(* Completeness *)

(* A verification ends with its check.                                     *)
LEMMA CheckEnds ==
  ASSUME TypeOK, NEW t \in Threads, [Next]_vars, pc[t] = "check", pc'[t] = "done"
  PROVE  VerifyCheck(t)
<1> USE DEF TypeOK
<1>1. ASSUME NEW u \in Threads, Step(u)
      PROVE  VerifyCheck(t)
  <2>1. CASE SetupStep(u)
    BY <2>1 DEF SetupStep, SetupPanics, SetupNoCommitterKey, SetupGuarded, SetupUndefined, SetupDarlin, SetupRefused, SetupGenerated, OpenPk, WritePk, OpenVk, WriteVk, WriteFails, Writing, Goto, Finish
  <2>2. CASE CreateStep(u)
    BY <2>2 DEF CreateStep, CreateFails, CreateUnderflows, CreateCounted, ReadPkFails, ReadPk, CreateNoCommitterKey, CreateGuarded, ProveDarlin, ProveFails, Prove, Goto, Finish
  <2>3. CASE VerifyStep(u)
    BY <2>3 DEF VerifyStep, VerifyRefused, VerifyPanics, VerifyTypesAgree, ReadVkFails, ReadVk, VerifyCheck, Goto, Finish
  <2> QED BY <1>1, <2>1, <2>2, <2>3 DEF Step
<1>2. ASSUME NEW u \in Threads, Call(u)
      PROVE  FALSE
  BY <1>2 DEF Call, KeyCall, LoadRefused, LoadBegin, LoadKeys, SetupBegin, CreateBegin, VerifyBegin, Goto, Finish
<1>3. ASSUME NEW u \in Threads, CallReturn(u)
      PROVE  FALSE
  BY <1>3 DEF CallReturn, Return, Goto
<1>4. ~CallCrash
  BY DEF CallCrash, Crash
<1>5. ~ \E d \in Dirs, f \in Foreign : Install(d, f)
  BY DEF Install
<1>6. vars' # vars
  BY DEF vars, keyVars
<1> QED BY <1>1, <1>2, <1>3, <1>4, <1>5, <1>6 DEF Next

-----------------------------------------------------------------------------
(* Theorems *)

(* The inductive invariant of the proof, conjunct by conjunct.             *)
THEOREM Invariance == Spec => []IInv
<1>1. Init => IInv
  <2> SUFFICES ASSUME Init PROVE IInv
    OBVIOUS
  <2>1. TypeOK
    BY TypeInit
  <2>2. CallArguments /\ AcceptedHolds
    BY DEF Init, KeysInit, CallArguments, AcceptedHolds, Writing
  <2>3. ProofsHold
    BY DEF Init, ProofsHold, HoldsFor, NoBytes
  <2> QED BY <2>1, <2>2, <2>3 DEF IInv
<1>2. IInv /\ [Next]_vars => IInv'
  BY TypeStep, ArgumentsStep, ProofsHoldStep, AcceptedStep DEF IInv
<1> QED BY <1>1, <1>2, PTL DEF Spec

(* Types hold in every reachable state, for any committee, field, number   *)
(* of threads and set of key files.                                        *)
THEOREM Typing == Spec => []TypeOK
<1>1. IInv => TypeOK
  BY DEF IInv
<1> QED BY <1>1, Invariance, PTL

(* A claim that verifyProof accepts is borne out by signatures that        *)
(* createProof was given: no interleaving with setups that rewrite the key *)
(* files, no crash and no wrapped subtraction makes it accept another.     *)
THEOREM Soundness == Spec => []AcceptedIsSigned
<1> QED BY Invariance, AcceptedSigned, PTL

(* What enough members of a committee signed is accepted: of the proof made*)
(* for it, the check of verifyProof cannot answer false, up to thresholds  *)
(* that only a full committee reaches and negative ones.                   *)
THEOREM Completeness == Spec => QuorumAccepted
<1> DEFINE Fits(t) ==
             /\ pc[t] = "check" /\ pc'[t] = "done" /\ ck
             /\ proof[t].n = seen[t].n /\ proof[t].kind = seen[t].kind
             /\ \E r \in Batches :
                  /\ Enough(r) /\ Len(r.sigs) = Len(r.pks)
                  /\ claim[t].pks = r.pks /\ claim[t].threshold = r.threshold
                  /\ claim[t].cert = r.cert /\ claim[t].quality = ValidSignatures(r)
                  /\ proof[t].inputs = PublicInputs(r)
<1>1. ASSUME IInv, [Next]_vars, NEW t \in Threads, Fits(t)
      PROVE  result'[t] = "true"
  <2>1. PICK r \in Batches :
          /\ Enough(r)
          /\ claim[t].pks = r.pks /\ claim[t].threshold = r.threshold
          /\ claim[t].cert = r.cert /\ claim[t].quality = ValidSignatures(r)
          /\ proof[t].inputs = PublicInputs(r)
    BY <1>1
  <2>2. proof[t].inputs = ClaimInputs(claim[t])
    BY <2>1 DEF ClaimInputs, PublicInputs
  <2>3. proof[t].kind = "CoboundaryMarlin"
    <3>1. PublicInputs(r) # <<>>
      BY DEF PublicInputs
    <3>2. proof[t] # Garbage /\ proof[t] # NoBytes
      BY <2>1, <3>1 DEF Garbage, NoBytes
    <3> QED BY <1>1, <3>2 DEF IInv, TypeOK, ProofValues
  <2>4. PICK q \in Batches : proof[t].inputs = PublicInputs(q) /\ (proof[t].good <=> Enough(q))
    BY <1>1, <2>3 DEF IInv, ProofsHold, HoldsFor
  <2>5. proof[t].good
    BY <2>1, <2>4, InputsDetermineEnough
  <2>6. VerifyCheck(t)
    BY <1>1, CheckEnds DEF IInv
  <2> QED BY <1>1, <2>2, <2>5, <2>6 DEF VerifyCheck, Finish, Accepts, IInv, TypeOK
<1> DEFINE A == \A t \in Threads : Fits(t) => result'[t] = "true"
<1>2. IInv /\ [Next]_vars => [A]_vars
  BY <1>1
<1> QED BY <1>2, Invariance, PTL DEF Spec, QuorumAccepted

-----------------------------------------------------------------------------
(* Sizes and types of keys, KeyQueries: each of its steps is one of        *)
(* CircuitKeys.                                                            *)

(* What a setup has passed the comparison of sizes with.                   *)
Measured(t) ==
  /\ circuit[t] \in Generated
  /\ options[t] \in Options
  /\ measured[t] \in Lengths
  /\ ~TooComplex(circuit[t], options[t], measured[t])

(* The committer key has its length; a setup has its options, and from the *)
(* comparison on the length it found.                                      *)
SizesOK ==
  /\ options \in [Threads -> Options \cup {NoOptions}]
  /\ measured \in [Threads -> Lengths \cup {0}]
  /\ compressed \in [Dirs -> BOOLEAN]
  /\ ck => length \in Lengths
  /\ \A t \in Threads :
       /\ pc[t] \in {"setup", "index"} =>
            options[t] \in Options /\ circuit[t] \in [kind : ProvingSystems, n : Sizes]
       /\ (pc[t] \in Writing \cup {"openPk"} \/ Succeeded(t)) => Measured(t)

(* The verifier key of an undisturbed setup is in the form it asked for.   *)
FormStays ==
  \A t \in Threads : Undisturbed(t) => compressed[dir[t]] = options[t].compressVk

SizesInv == KeysInv /\ SizesOK /\ FormStays

LEMMA SizesRefine ==
  ASSUME [QueriesNext]_queriesVars
  PROVE  [KeysNext]_keyVars
BY DEF QueriesNext, queriesVars, SizesCall, LoadKeysOf, SetupAsked, SizesSetupStep,
       PlainSetupStep, SetupMeasured, WriteVkInForm, SizesReturn, InstallInForm,
       SizesCrash, KeysNext, KeyCall, SetupStep

LEMMA SizesKeepKeys ==
  ASSUME KeysInv, [QueriesNext]_queriesVars
  PROVE  KeysInv'
BY SizesRefine, SetupKeeps, CallKeeps, SurroundingsKeep DEF KeysNext

LEMMA SizesPlain ==
  ASSUME SizesInv, KeysInv', NEW t \in Threads, PlainSetupStep(t), UNCHANGED sizeVars
  PROVE  SizesOK' /\ FormStays'
<1> USE DEF SizesInv, KeysInv, KeysTypeOK, SizesOK, FormStays, Measured, Undisturbed, Succeeded, Writing, Goto, Finish, sizeVars
<1>1. CASE \/ SetupPanics(t) \/ SetupNoCommitterKey(t) \/ SetupUndefined(t)
           \/ SetupDarlin(t) \/ SetupRefused(t)
  <2>1. /\ pc' = [pc EXCEPT ![t] = "done"]
        /\ \E r \in {"false", "exception"} : result' = [result EXCEPT ![t] = r]
        /\ UNCHANGED <<ck, dir, circuit, overlapped, length, options, measured, compressed>>
    BY <1>1 DEF SetupPanics, SetupNoCommitterKey, SetupUndefined, SetupDarlin, SetupRefused
  <2>2. \A u \in Threads : Measured(u) <=> Measured(u)'
    BY <2>1 DEF TooComplex
  <2> HIDE DEF Measured
  <2> QED BY <2>1, <2>2
<1>2. CASE SetupGuarded(t)
  BY <1>2 DEF SetupGuarded, TakeGuard, TooComplex
<1>3. CASE OpenPk(t)
  BY <1>3 DEF OpenPk, Overlap, TooComplex
<1>4. CASE WritePk(t)
  BY <1>4 DEF WritePk, TooComplex
<1>5. CASE OpenVk(t)
  BY <1>5 DEF OpenVk, TooComplex
<1>6. CASE WriteFails(t)
  BY <1>6 DEF WriteFails, TooComplex
<1> QED BY <1>1, <1>2, <1>3, <1>4, <1>5, <1>6 DEF PlainSetupStep

LEMMA SizesMeasured ==
  ASSUME SizesInv, KeysInv', NEW t \in Threads, SetupMeasured(t)
  PROVE  SizesOK' /\ FormStays'
<1>1. /\ pc[t] = "index" /\ circuit[t].kind = "CoboundaryMarlin"
      /\ pc' = [pc EXCEPT ![t] = "openPk"]
      /\ measured' = [measured EXCEPT ![t] = length]
      /\ ~TooComplex(circuit[t], options[t], length)
      /\ UNCHANGED <<ck, guard, pkFile, vkFile, dir, circuit, overlapped, result, length, options, compressed>>
  BY DEF SetupMeasured, SetupGenerated, Goto
<1>2. ck /\ length \in Lengths
  BY <1>1 DEF SizesInv, SizesOK, KeysInv, WritersGuarded
<1>3. circuit[t] \in Generated /\ options[t] \in Options
  BY <1>1 DEF SizesInv, SizesOK, Generated
<1> USE DEF SizesInv, KeysInv, KeysTypeOK, SizesOK, FormStays, Undisturbed, Succeeded, Writing
<1>4. Measured(t)'
  BY <1>1, <1>2, <1>3 DEF Measured, TooComplex
<1>5. \A u \in Threads : u # t /\ Measured(u) => Measured(u)'
  BY <1>1 DEF Measured, TooComplex
<1> QED BY <1>1, <1>2, <1>3, <1>4, <1>5

(* The last step of a setup is the one that fixes the form.                *)
LEMMA SizesWritten ==
  ASSUME SizesInv, KeysInv', NEW t \in Threads, WriteVkInForm(t)
  PROVE  SizesOK' /\ FormStays'
<1>1. /\ pc[t] = "writeVk" /\ pc' = [pc EXCEPT ![t] = "done"]
      /\ compressed' = [compressed EXCEPT ![dir[t]] = options[t].compressVk]
      /\ result' = [result EXCEPT ![t] = "true"]
      /\ UNCHANGED <<ck, dir, circuit, overlapped, length, options, measured>>
  BY DEF WriteVkInForm, WriteVk, Finish, Goto
<1>2. Measured(t)
  BY <1>1 DEF SizesInv, SizesOK, Writing
<1>3. options[t].compressVk \in BOOLEAN
  BY <1>2, QueriesAssumption DEF Measured
<1> USE DEF SizesInv, KeysInv, KeysTypeOK, Undisturbed, Succeeded, Writing
<1>4. \A u \in Threads : Measured(u) <=> Measured(u)'
  BY <1>1 DEF Measured, TooComplex
<1>5. SizesOK'
  BY <1>1, <1>2, <1>3, <1>4 DEF SizesOK
<1>6. ASSUME NEW u \in Threads, Undisturbed(u)'
      PROVE  compressed'[dir'[u]] = options'[u].compressVk
  <2>1. CASE u = t
    BY <2>1, <1>1 DEF SizesOK
  <2>2. CASE u # t
    <3>1. Undisturbed(u)
      BY <2>2, <1>6, <1>1
    <3>2. dir[u] # dir[t]
      BY <2>2, <3>1, <1>1 DEF OthersNoticed
    <3> QED BY <2>2, <3>1, <3>2, <1>1 DEF FormStays, SizesOK
  <2> QED BY <2>1, <2>2
<1> QED BY <1>5, <1>6 DEF FormStays

LEMMA SizesCalled ==
  ASSUME SizesInv, KeysInv', NEW t \in Threads, SizesCall(t)
  PROVE  SizesOK' /\ FormStays'
<1> USE DEF SizesInv, KeysInv, KeysTypeOK, SizesOK, FormStays, Measured, Undisturbed, Succeeded, Writing, Goto, Finish, Fresh
<1>1. CASE (LoadRefused(t) \/ LoadBegin(t)) /\ UNCHANGED sizeVars
  BY <1>1 DEF LoadRefused, LoadBegin, sizeVars, TooComplex
<1>2. CASE \E len \in Lengths : LoadKeysOf(t, len)
  BY <1>2 DEF LoadKeysOf, LoadKeys, TooComplex
<1>3. CASE \E d \in Dirs, ps \in ProvingSystems, n \in Sizes, o \in Options : SetupAsked(t, d, ps, n, o)
  <2>1. PICK d \in Dirs, ps \in ProvingSystems, n \in Sizes, o \in Options : SetupAsked(t, d, ps, n, o)
    BY <1>3
  <2>2. [kind |-> ps, n |-> n] \in [kind : ProvingSystems, n : Sizes]
    OBVIOUS
  <2> QED BY <2>1, <2>2 DEF SetupAsked, SetupBegin, TooComplex
<1> QED BY <1>1, <1>2, <1>3 DEF SizesCall

LEMMA SizesSurroundings ==
  ASSUME SizesInv, KeysInv',
         \/ \E t \in Threads : SizesReturn(t)
         \/ \E d \in Dirs, f \in Foreign, c \in BOOLEAN : InstallInForm(d, f, c)
         \/ SizesCrash
         \/ UNCHANGED queriesVars
  PROVE  SizesOK' /\ FormStays'
<1> USE DEF SizesInv, KeysInv, KeysTypeOK, SizesOK, FormStays, Measured, Undisturbed, Succeeded, Writing, Goto
<1>1. ASSUME NEW t \in Threads, SizesReturn(t)
      PROVE  SizesOK' /\ FormStays'
  BY <1>1 DEF SizesReturn, Return, TooComplex
<1>2. ASSUME NEW d \in Dirs, NEW f \in Foreign, NEW c \in BOOLEAN, InstallInForm(d, f, c)
      PROVE  SizesOK' /\ FormStays'
  BY <1>2 DEF InstallInForm, Install, Writers, TooComplex
<1>3. CASE SizesCrash
  BY <1>3 DEF SizesCrash, Crash
<1>4. CASE UNCHANGED queriesVars
  BY <1>4 DEF queriesVars, keyVars, sizeVars, TooComplex
<1> QED BY <1>1, <1>2, <1>3, <1>4

THEOREM SizesInvariance == QueriesSpec => []SizesInv
<1>1. QueriesInit => SizesInv
  <2> SUFFICES ASSUME QueriesInit PROVE SizesInv
    OBVIOUS
  <2>1. (CHOOSE d \in Dirs : TRUE) \in Dirs
    BY DirsAssumption
  <2>2. KeysInv
    BY <2>1 DEF QueriesInit, KeysInit, KeysInv, KeysTypeOK, Fresh, Generates, WritersGuarded, OthersNoticed, PkStays, VkStays, Succeeded, Writing, KeyLabels, Goto, NoFile
  <2> QED BY <2>2 DEF QueriesInit, KeysInit, SizesInv, SizesOK, FormStays, Undisturbed, Succeeded, Writing
<1>2. SizesInv /\ [QueriesNext]_queriesVars => SizesInv'
  <2> SUFFICES ASSUME SizesInv, [QueriesNext]_queriesVars PROVE SizesInv'
    OBVIOUS
  <2>1. KeysInv'
    BY SizesKeepKeys DEF SizesInv
  <2>2. SizesOK' /\ FormStays'
    BY <2>1, SizesPlain, SizesMeasured, SizesWritten, SizesCalled, SizesSurroundings DEF QueriesNext, SizesSetupStep
  <2> QED BY <2>1, <2>2 DEF SizesInv
<1> QED BY <1>1, <1>2, PTL DEF QueriesSpec

(* The comparison of setup and that of checkProofVkSize come to the same   *)
(* answer about the key an undisturbed setup has left, if the check is     *)
(* asked with the rounded length of the committer key that setup held: for *)
(* any size functions, limits of either sign, and whatever became of the   *)
(* committer key.                                                          *)
THEOREM SetupAndCheckAgree == QueriesSpec => []SetupPassesCheck
<1>1. SizesInv => SetupPassesCheck
  <2> SUFFICES ASSUME SizesInv, NEW t \in Threads, NEW s \in Segments, Undisturbed(t),
                      AsUsize(s) = NextPowerOfTwo(measured[t])
               PROVE  CheckProofVkSize(options[t].zk, s, options[t].maxProof, options[t].maxVk, dir[t])
                        <=> options[t].compressVk
                              /\ (AtLimit \/ ~AtALimit(circuit[t], options[t], AsUsize(s)))
    BY DEF SetupPassesCheck
  <2> DEFINE o == options[t]
             proofSize == ProofSize(circuit[t], o.zk, AsUsize(s))
             vkSize == VkSize(circuit[t])
             mp == AsUsize(o.maxProof)
             mv == AsUsize(o.maxVk)
  <2>1. Measured(t) /\ Undisturbed(t) /\ Succeeded(t)
    BY DEF SizesInv, SizesOK, Undisturbed, Succeeded
  <2>2. /\ vkFile[dir[t]] = circuit[t]
        /\ compressed[dir[t]] = o.compressVk
        /\ IsKey(circuit[t])
    BY <2>1 DEF SizesInv, FormStays, KeysInv, VkStays, Undisturbed, Measured, Generated, IsKey
  <2>3. o.zk \in BOOLEAN /\ o.maxProof \in Int /\ o.maxVk \in Int
    BY <2>1, QueriesAssumption DEF Measured
  <2>4. mp \in Int /\ mv \in Int
    BY <2>3, QueriesAssumption DEF AsUsize
  <2>5. proofSize \in Int /\ vkSize \in Int
    <3>1. /\ circuit[t] \in Generated /\ measured[t] \in Lengths
          /\ AsUsize(s) = NextPowerOfTwo(measured[t])
      BY <2>1 DEF Measured
    <3>2. /\ VkSize(circuit[t]) \in Nat
          /\ ProofSize(circuit[t], o.zk, NextPowerOfTwo(measured[t])) \in Nat
      BY <3>1, <2>3, QueriesAssumption, Zenon
    <3> QED BY <3>1, <3>2
  <2>6. ~(proofSize > mp) /\ ~(vkSize > mv)
    BY <2>1 DEF Measured, TooComplex
  <2>7. AtALimit(circuit[t], o, AsUsize(s)) <=> proofSize = mp \/ vkSize = mv
    BY DEF AtALimit
  <2>8. CheckProofVkSize(o.zk, s, o.maxProof, o.maxVk, dir[t])
          <=> compressed[dir[t]] /\ Within(proofSize, mp) /\ Within(vkSize, mv)
    BY <2>2 DEF CheckProofVkSize, CheckSizes
  <2> HIDE DEF proofSize, vkSize, mp, mv
  <2>9. Within(proofSize, mp) /\ Within(vkSize, mv)
          <=> AtLimit \/ ~(proofSize = mp \/ vkSize = mv)
    BY <2>4, <2>5, <2>6 DEF Within
  <2> QED BY <2>2, <2>7, <2>8, <2>9
<1> QED BY <1>1, SizesInvariance, PTL

(* What an error of reading is answered with is taken for no key that      *)
(* createProof and verifyProof need, and proofs are told like their keys.  *)
THEOREM TypesAreTold == QueriesSpec => []TypesTold
<1> USE DEF TypesOf, TypeNumbers, AsJint, IntToProvingSystemType
<1>1. \A f \in KeyFiles \cup {NoFile} :
        f.kind = "CoboundaryMarlin" <=> "COBOUNDARY_MARLIN" \in TypesOf(f)
  <2> SUFFICES ASSUME NEW f \in KeyFiles \cup {NoFile}
               PROVE  f.kind = "CoboundaryMarlin" <=> "COBOUNDARY_MARLIN" \in TypesOf(f)
    OBVIOUS
  <2>1. CASE f = NoFile
    BY <2>1 DEF NoFile, Torn
  <2>2. CASE f \in KeyFiles /\ f.kind = "Darlin"
    BY <2>2 DEF NoFile, Torn
  <2>3. CASE f \in KeyFiles /\ f.kind = "CoboundaryMarlin"
    BY <2>3 DEF NoFile, Torn
  <2> QED BY <2>1, <2>2, <2>3 DEF KeyFiles
<1>2. SizesInv => TypesTold
  <2> SUFFICES ASSUME SizesInv PROVE TypesTold
    OBVIOUS
  <2>1. \A d \in Dirs : \A f \in {pkFile[d], vkFile[d]} : f # Torn => f \in KeyFiles \cup {NoFile}
    BY DEF SizesInv, KeysInv, KeysTypeOK
  <2>2. ASSUME NEW t \in Threads, Undisturbed(t)
        PROVE  /\ TypesOf(pkFile[dir[t]]) = TypesOf(vkFile[dir[t]])
               /\ TypesOf(vkFile[dir[t]]) = ProofTypesOf("CoboundaryMarlin")
    <3>1. Succeeded(t) /\ ~overlapped[t] /\ circuit[t].kind = "CoboundaryMarlin"
      BY <2>2 DEF SizesInv, SizesOK, Measured, Generated, Undisturbed, Succeeded
    <3>2. pkFile[dir[t]] = circuit[t] /\ vkFile[dir[t]] = circuit[t]
      BY <3>1 DEF SizesInv, KeysInv, PkStays, VkStays
    <3>3. TypesOf(circuit[t]) = {"COBOUNDARY_MARLIN"}
      BY <3>1 DEF NoFile, Torn
    <3>4. ProofTypesOf("CoboundaryMarlin") = {"COBOUNDARY_MARLIN"}
      BY DEF ProofTypesOf, ProofTypeNumbers, ProvingSystems
    <3> QED BY <3>2, <3>3, <3>4
  <2> HIDE DEF TypesOf
  <2> QED BY <1>1, <2>1, <2>2 DEF TypesTold
<1> QED BY <1>2, SizesInvariance, PTL

=============================================================================
