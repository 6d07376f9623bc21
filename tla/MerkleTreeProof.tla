--------------------------- MODULE MerkleTreeProof ---------------------------
(***************************************************************************)
(* Proofs about Merkle trees and paths, for trees of every height and with *)
(* any leaves.                                                             *)
(*                                                                         *)
(* What the levels of a tree, the way up a path and the way down compute   *)
(* is proved by induction on the level.  Induction is used in the form of  *)
(* SetInduction, about a set of numbers in place of a predicate.           *)
(***************************************************************************)
EXTENDS MerkleTree, SequenceTheorems, WellFoundedInduction, TLAPS

-----------------------------------------------------------------------------
(* Induction *)

(* A set with 0 that is closed under successor holds every natural number: *)
(* the least one it lacked would be the successor of one it holds.         *)
LEMMA SetInduction ==
  ASSUME NEW T, 0 \in T, \A n \in Nat : n \in T => n + 1 \in T
  PROVE  \A n \in Nat : n \in T
<1> SUFFICES ASSUME Nat \ T # {} PROVE FALSE
  OBVIOUS
<1>1. PICK m \in Nat \ T : \A k \in Nat \ T : <<k, m>> \notin OpToRel(<, Nat)
  <2>1. Nat \ T \subseteq Nat
    OBVIOUS
  <2> QED BY <2>1, NatLessThanWellFounded, WFMin
<1>2. \A k \in Nat \ T : ~(k < m)
  BY <1>1 DEF OpToRel
<1>3. m # 0 /\ m - 1 \in Nat /\ m - 1 < m /\ (m - 1) + 1 = m
  OBVIOUS
<1> QED BY <1>2, <1>3

(* The same up to a number n. *)
LEMMA SetInductionUpTo ==
  ASSUME NEW n \in Nat, NEW T, 0 \in T, \A k \in 0..(n - 1) : k \in T => k + 1 \in T
  PROVE  \A k \in 0..n : k \in T
<1> DEFINE S == {k \in Nat : k <= n => k \in T}
<1>1. 0 \in S
  OBVIOUS
<1>2. \A k \in Nat : k \in S => k + 1 \in S
  OBVIOUS
<1>3. \A k \in Nat : k \in S
  <2> HIDE DEF S
  <2> QED BY <1>1, <1>2, SetInduction
<1> QED BY <1>3

-----------------------------------------------------------------------------
(* The equations of the recursive functions *)

LEMMA LevelsEquation ==
  ASSUME NEW leaves, NEW h \in Nat
  PROVE  Levels(leaves, h) =
           [k \in 0..h |-> IF k = 0 THEN Padded(leaves, h)
                           ELSE Parents(Levels(leaves, h)[k - 1])]
<1> DEFINE Eq(n, g) == g = [k \in 0..n |-> IF k = 0 THEN Padded(leaves, h)
                                           ELSE Parents(g[k - 1])]
           T == {n \in Nat : \E g : Eq(n, g)}
<1>1. 0 \in T
  <2>1. Eq(0, [k \in 0..0 |-> Padded(leaves, h)])
    OBVIOUS
  <2> QED BY <2>1
<1>2. ASSUME NEW n \in Nat, n \in T
      PROVE  n + 1 \in T
  <2>1. PICK g : Eq(n, g)
    BY <1>2
  <2> DEFINE e == [k \in 0..(n + 1) |-> IF k \in 0..n THEN g[k] ELSE Parents(g[n])]
  <2>2. Eq(n + 1, e)
    BY <2>1
  <2> HIDE DEF e, Eq
  <2> QED BY <2>2
<1>3. h \in T
  <2> HIDE DEF T
  <2> QED BY <1>1, <1>2, SetInduction
<1> QED BY <1>3 DEF Levels

LEMMA ClimbEquation ==
  ASSUME NEW steps, Len(steps) \in Nat, NEW leaf
  PROVE  Climb(steps, leaf) =
           [k \in 0..Len(steps) |-> IF k = 0 THEN leaf
                                    ELSE Up(Climb(steps, leaf)[k - 1], steps[k])]
<1> DEFINE Eq(n, g) == g = [k \in 0..n |-> IF k = 0 THEN leaf ELSE Up(g[k - 1], steps[k])]
           T == {n \in Nat : \E g : Eq(n, g)}
<1>1. 0 \in T
  <2>1. Eq(0, [k \in 0..0 |-> leaf])
    OBVIOUS
  <2> QED BY <2>1
<1>2. ASSUME NEW n \in Nat, n \in T
      PROVE  n + 1 \in T
  <2>1. PICK g : Eq(n, g)
    BY <1>2
  <2> DEFINE e == [k \in 0..(n + 1) |-> IF k \in 0..n THEN g[k] ELSE Up(g[n], steps[n + 1])]
  <2>2. Eq(n + 1, e)
    BY <2>1
  <2> HIDE DEF e, Eq
  <2> QED BY <2>2
<1>3. Len(steps) \in T
  <2> HIDE DEF T
  <2> QED BY <1>1, <1>2, SetInduction
<1> QED BY <1>3 DEF Climb

LEMMA TurnsEquation ==
  ASSUME NEW steps, Len(steps) \in Nat
  PROVE  Turns(steps) =
           [k \in 0..Len(steps) |-> IF k = 0 THEN 0
              ELSE 2 * Turns(steps)[k - 1] + (IF steps[Len(steps) - k + 1].right THEN 1 ELSE 0)]
<1> DEFINE B(k) == IF steps[Len(steps) - k + 1].right THEN 1 ELSE 0
           Eq(n, g) == g = [k \in 0..n |-> IF k = 0 THEN 0 ELSE 2 * g[k - 1] + B(k)]
           T == {n \in Nat : \E g : Eq(n, g)}
<1>1. 0 \in T
  <2>1. Eq(0, [k \in 0..0 |-> 0])
    OBVIOUS
  <2> QED BY <2>1
<1>2. ASSUME NEW n \in Nat, n \in T
      PROVE  n + 1 \in T
  <2>1. PICK g : Eq(n, g)
    BY <1>2
  <2> DEFINE e == [k \in 0..(n + 1) |-> IF k \in 0..n THEN g[k] ELSE 2 * g[n] + B(n + 1)]
  <2> HIDE DEF B
  <2>2. Eq(n + 1, e)
    BY <2>1
  <2> HIDE DEF e, Eq
  <2> QED BY <2>2
<1>3. Len(steps) \in T
  <2> HIDE DEF T
  <2> QED BY <1>1, <1>2, SetInduction
<1> QED BY <1>3 DEF Turns

LEMMA DescendEquation ==
  ASSUME NEW steps, Len(steps) \in Nat, NEW root
  PROVE  Descend(steps, root) =
           [k \in 0..Len(steps) |-> IF k = 0 THEN root
              ELSE Descend(steps, root)[k - 1][IF steps[Len(steps) - k + 1].right THEN 2 ELSE 1]]
<1> DEFINE B(k) == IF steps[Len(steps) - k + 1].right THEN 2 ELSE 1
           Eq(n, g) == g = [k \in 0..n |-> IF k = 0 THEN root ELSE g[k - 1][B(k)]]
           T == {n \in Nat : \E g : Eq(n, g)}
<1>1. 0 \in T
  <2>1. Eq(0, [k \in 0..0 |-> root])
    OBVIOUS
  <2> QED BY <2>1
<1>2. ASSUME NEW n \in Nat, n \in T
      PROVE  n + 1 \in T
  <2>1. PICK g : Eq(n, g)
    BY <1>2
  <2> DEFINE e == [k \in 0..(n + 1) |-> IF k \in 0..n THEN g[k] ELSE g[n][B(n + 1)]]
  <2> HIDE DEF B
  <2>2. Eq(n + 1, e)
    BY <2>1
  <2> HIDE DEF e, Eq
  <2> QED BY <2>2
<1>3. Len(steps) \in T
  <2> HIDE DEF T
  <2> QED BY <1>1, <1>2, SetInduction
<1> QED BY <1>3 DEF Descend

(* TwoTo is defined on all numbers: it is put together from functions on   *)
(* initial segments, which agree where both are defined.                   *)
LEMMA TwoToEquation ==
  TwoTo = [n \in Nat |-> IF n = 0 THEN 1 ELSE 2 * TwoTo[n - 1]]
<1> DEFINE Eq(n, g) == g = [k \in 0..n |-> IF k = 0 THEN 1 ELSE 2 * g[k - 1]]
           G(n) == CHOOSE g : Eq(n, g)
           T == {n \in Nat : \E g : Eq(n, g)}
           P == [n \in Nat |-> G(n)[n]]
<1>1. \A n \in Nat : Eq(n, G(n))
  <2>1. 0 \in T
    <3>1. Eq(0, [k \in 0..0 |-> 1])
      OBVIOUS
    <3> QED BY <3>1
  <2>2. ASSUME NEW n \in Nat, n \in T
        PROVE  n + 1 \in T
    <3>1. PICK g : Eq(n, g)
      BY <2>2
    <3> DEFINE e == [k \in 0..(n + 1) |-> IF k \in 0..n THEN g[k] ELSE 2 * g[n]]
    <3>2. Eq(n + 1, e)
      BY <3>1
    <3> HIDE DEF e, Eq
    <3> QED BY <3>2
  <2>3. \A n \in Nat : n \in T
    <3> HIDE DEF T
    <3> QED BY <2>1, <2>2, SetInduction
  <2> QED BY <2>3
<1>2. \A n \in Nat : \A k \in 0..n :
        G(n)[k] = IF k = 0 THEN 1 ELSE 2 * G(n)[k - 1]
  <2> SUFFICES ASSUME NEW n \in Nat, NEW k \in 0..n
               PROVE  G(n)[k] = IF k = 0 THEN 1 ELSE 2 * G(n)[k - 1]
    OBVIOUS
  <2> HIDE DEF G
  <2> QED BY <1>1
<1> HIDE DEF G
<1>3. ASSUME NEW n \in Nat
      PROVE  \A k \in 0..n : k \in {j \in Nat : G(n + 1)[j] = G(n)[j]}
  <2> DEFINE S == {j \in Nat : G(n + 1)[j] = G(n)[j]}
  <2>1. 0 \in S
    BY <1>2
  <2>2. \A k \in 0..(n - 1) : k \in S => k + 1 \in S
    BY <1>2
  <2> HIDE DEF S
  <2>3. \A k \in 0..n : k \in S
    BY <2>1, <2>2, SetInductionUpTo
  <2> QED BY <2>3 DEF S
<1>4. ASSUME NEW n \in Nat
      PROVE  P[n] = IF n = 0 THEN 1 ELSE 2 * P[n - 1]
  <2>1. CASE n = 0
    BY <2>1, <1>2
  <2>2. CASE n # 0
    <3>1. n - 1 \in Nat /\ (n - 1) + 1 = n /\ n - 1 \in 0..(n - 1)
      BY <2>2
    <3>2. G(n)[n - 1] = G(n - 1)[n - 1]
      BY <3>1, <1>3
    <3> QED BY <2>2, <3>1, <3>2, <1>2
  <2> QED BY <2>1, <2>2
<1>5. P = [n \in Nat |-> IF n = 0 THEN 1 ELSE 2 * P[n - 1]]
  <2> DEFINE Q == [n \in Nat |-> IF n = 0 THEN 1 ELSE 2 * P[n - 1]]
  <2>1. \A n \in Nat : P[n] = Q[n]
    BY <1>4
  <2>2. DOMAIN P = Nat /\ DOMAIN Q = Nat
    OBVIOUS
  <2>3. P = [n \in DOMAIN P |-> P[n]] /\ Q = [n \in DOMAIN Q |-> Q[n]]
    OBVIOUS
  <2> HIDE DEF P, Q
  <2>4. P = Q
    BY <2>1, <2>2, <2>3
  <2> QED BY <2>4 DEF Q
<1> HIDE DEF P
<1> QED BY <1>5 DEF TwoTo

LEMMA TwoToValues ==
  /\ TwoTo[0] = 1
  /\ \A n \in Nat : TwoTo[n] \in Nat \ {0} /\ TwoTo[n + 1] = 2 * TwoTo[n]
<1>1. \A n \in Nat : TwoTo[n] = IF n = 0 THEN 1 ELSE 2 * TwoTo[n - 1]
  BY TwoToEquation
<1> DEFINE T == {n \in Nat : TwoTo[n] \in Nat \ {0}}
<1>2. 0 \in T
  BY <1>1
<1>3. \A n \in Nat : n \in T => n + 1 \in T
  BY <1>1
<1>4. \A n \in Nat : n \in T
  <2> HIDE DEF T
  <2> QED BY <1>2, <1>3, SetInduction
<1> QED BY <1>1, <1>4

-----------------------------------------------------------------------------
(* Levels of a tree *)

(* Level k of a tree has 2 ^ (h - k) nodes, each the pair of two of the    *)
(* level below.                                                            *)
LEMMA LevelNodes ==
  ASSUME NEW leaves, NEW h \in Nat
  PROVE  /\ Levels(leaves, h)[0] = Padded(leaves, h)
         /\ \A k \in 0..h : /\ DOMAIN Levels(leaves, h)[k] = 1..TwoTo[h - k]
                            /\ Len(Levels(leaves, h)[k]) = TwoTo[h - k]
         /\ \A k \in 1..h : \A j \in 1..TwoTo[h - k] :
              Levels(leaves, h)[k][j] = <<Levels(leaves, h)[k - 1][2 * j - 1],
                                          Levels(leaves, h)[k - 1][2 * j]>>
<1> DEFINE L == Levels(leaves, h)
           T == {k \in Nat : k <= h => /\ DOMAIN L[k] = 1..TwoTo[h - k]
                                       /\ Len(L[k]) = TwoTo[h - k]}
<1>1. L[0] = Padded(leaves, h) /\ \A k \in 1..h : L[k] = Parents(L[k - 1])
  BY LevelsEquation
<1>2. \A k \in 0..h : TwoTo[h - k] \in Nat \ {0}
  BY TwoToValues
<1>3. \A k \in 1..h : TwoTo[h - (k - 1)] = 2 * TwoTo[h - k]
  <2> SUFFICES ASSUME NEW k \in 1..h PROVE TwoTo[h - (k - 1)] = 2 * TwoTo[h - k]
    OBVIOUS
  <2>1. h - k \in Nat /\ (h - k) + 1 = h - (k - 1)
    OBVIOUS
  <2> QED BY <2>1, TwoToValues
<1> HIDE DEF L
<1>4. 0 \in T
  BY <1>1, <1>2 DEF Padded
<1>5. ASSUME NEW k \in 0..(h - 1), k \in T
      PROVE  k + 1 \in T
  <2>1. k + 1 \in 1..h /\ (k + 1) - 1 = k
    OBVIOUS
  <2>2. TwoTo[h - k] = 2 * TwoTo[h - (k + 1)]
    BY <1>3, <2>1
  <2>3. Len(L[k]) = TwoTo[h - k]
    BY <1>5
  <2>4. TwoTo[h - (k + 1)] \in Nat
    BY <1>2, <2>1
  <2>5. Len(L[k]) \div 2 = TwoTo[h - (k + 1)]
    BY <2>2, <2>3, <2>4
  <2>6. L[k + 1] = [i \in 1..TwoTo[h - (k + 1)] |-> <<L[k][2 * i - 1], L[k][2 * i]>>]
    BY <1>1, <2>1, <2>5 DEF Parents
  <2> HIDE DEF T
  <2>7. DOMAIN L[k + 1] = 1..TwoTo[h - (k + 1)] /\ Len(L[k + 1]) = TwoTo[h - (k + 1)]
    BY <2>4, <2>6
  <2> QED BY <2>1, <2>7 DEF T
<1>6. \A k \in 0..h : k \in T
  <2> HIDE DEF T
  <2> QED BY <1>4, <1>5, SetInductionUpTo
<1>7. ASSUME NEW k \in 1..h, NEW j \in 1..TwoTo[h - k]
      PROVE  L[k][j] = <<L[k - 1][2 * j - 1], L[k - 1][2 * j]>>
  <2>1. k - 1 \in 0..h /\ k \in 0..h
    OBVIOUS
  <2>2. Len(L[k - 1]) = 2 * TwoTo[h - k] /\ TwoTo[h - k] \in Nat
    BY <1>2, <1>3, <1>6, <2>1
  <2>3. Len(L[k - 1]) \div 2 = TwoTo[h - k]
    BY <2>2
  <2> QED BY <1>1, <2>3 DEF Parents
<1> QED BY <1>1, <1>6, <1>7 DEF L

-----------------------------------------------------------------------------
(* Soundness *)

(* Along a path that leads from a value to the root, as many steps long as *)
(* the tree is high, every node is a node of the tree: the one at the      *)
(* place that the turns from the root tell.                                *)
LEMMA PathInTree ==
  ASSUME NEW leaves, NEW steps, Len(steps) \in Nat, NEW leaf,
         RootFromPath(steps, leaf) = RootOf(leaves, Len(steps))
  PROVE  /\ IndexOf(steps) \in 0..(TwoTo[Len(steps)] - 1)
         /\ leaf = Padded(leaves, Len(steps))[IndexOf(steps) + 1]
<1> DEFINE h == Len(steps)
           L == Levels(leaves, h)
           C == Climb(steps, leaf)
           N == Turns(steps)
           T == {j \in Nat : j <= h => /\ N[j] \in 0..(TwoTo[j] - 1)
                                       /\ C[h - j] = L[h - j][N[j] + 1]}
<1>1. /\ C[0] = leaf
      /\ \A k \in 1..h : C[k] = Up(C[k - 1], steps[k])
  BY ClimbEquation
<1>2. /\ N[0] = 0
      /\ \A k \in 1..h : N[k] = 2 * N[k - 1] + (IF steps[h - k + 1].right THEN 1 ELSE 0)
  BY TurnsEquation
<1>3. /\ L[0] = Padded(leaves, h)
      /\ \A k \in 1..h : \A j \in 1..TwoTo[h - k] :
           L[k][j] = <<L[k - 1][2 * j - 1], L[k - 1][2 * j]>>
  BY LevelNodes
<1>4. C[h] = L[h][1]
  BY DEF RootFromPath, RootOf
<1>5. N[h] = IndexOf(steps)
  BY DEF IndexOf
<1> HIDE DEF h, L, C, N
<1>6. h \in Nat
  BY DEF h
<1>7. 0 \in T
  <2>1. h - 0 = h /\ N[0] + 1 = 1 /\ N[0] \in 0..(TwoTo[0] - 1)
    BY <1>2, <1>6, TwoToValues
  <2> QED BY <1>4, <2>1
<1>8. ASSUME NEW j \in 0..(h - 1), j \in T
      PROVE  j + 1 \in T
  <2> DEFINE k == h - j
  <2>1. k \in 1..h /\ k - 1 = h - (j + 1) /\ h - (j + 1) + 1 = k /\ j + 1 \in 1..h /\ h - k = j
    BY <1>6
  <2>2. N[j] \in 0..(TwoTo[j] - 1) /\ C[k] = L[k][N[j] + 1]
    BY <1>6, <1>8
  <2>3. j \in Nat /\ TwoTo[j] \in Nat /\ TwoTo[j + 1] = 2 * TwoTo[j]
    <3>1. j \in Nat
      BY <1>6
    <3> QED BY <3>1, TwoToValues
  <2>4. L[k][N[j] + 1] = <<L[k - 1][2 * (N[j] + 1) - 1], L[k - 1][2 * (N[j] + 1)]>>
    <3>1. N[j] + 1 \in 1..TwoTo[h - k]
      BY <2>1, <2>2, <2>3
    <3> QED BY <1>3, <2>1, <3>1
  <2>5. C[k] = Up(C[k - 1], steps[k])
    BY <1>1, <2>1
  <2>6. N[j + 1] = 2 * N[j] + (IF steps[k].right THEN 1 ELSE 0)
    BY <1>2, <2>1
  <2> HIDE DEF k
  <2>7. N[j + 1] \in 0..(TwoTo[j + 1] - 1)
    BY <2>2, <2>3, <2>6
  <2>8. C[k - 1] = L[k - 1][N[j + 1] + 1]
    <3>1. CASE steps[k].right
      <4>1. C[k - 1] = L[k - 1][2 * (N[j] + 1)]
        BY <2>2, <2>4, <2>5, <3>1 DEF Up
      <4>2. 2 * (N[j] + 1) = N[j + 1] + 1
        BY <2>2, <2>6, <3>1
      <4> QED BY <4>1, <4>2
    <3>2. CASE ~steps[k].right
      <4>1. C[k - 1] = L[k - 1][2 * (N[j] + 1) - 1]
        BY <2>2, <2>4, <2>5, <3>2 DEF Up
      <4>2. 2 * (N[j] + 1) - 1 = N[j + 1] + 1
        BY <2>2, <2>6, <3>2
      <4> QED BY <4>1, <4>2
    <3> QED BY <3>1, <3>2
  <2> QED BY <2>1, <2>3, <2>7, <2>8
<1>9. h \in T
  <2> HIDE DEF T
  <2>1. \A j \in 0..h : j \in T
    BY <1>6, <1>7, <1>8, SetInductionUpTo
  <2> QED BY <1>6, <2>1
<1>10. N[h] \in 0..(TwoTo[h] - 1) /\ C[0] = L[0][N[h] + 1]
  <2>1. h - h = 0
    BY <1>6
  <2> QED BY <1>6, <1>9, <2>1
<1> QED BY <1>1, <1>3, <1>5, <1>10 DEF h

(* The way down from the root a path leads to, back to where it started.   *)
LEMMA DownIsBack ==
  ASSUME NEW steps, Len(steps) \in Nat, NEW leaf
  PROVE  SubtreeAt(RootFromPath(steps, leaf), steps) = leaf
<1> DEFINE h == Len(steps)
           C == Climb(steps, leaf)
           D == Descend(steps, RootFromPath(steps, leaf))
           T == {j \in Nat : j <= h => D[j] = C[h - j]}
<1>1. /\ C[0] = leaf
      /\ \A k \in 1..h : C[k] = Up(C[k - 1], steps[k])
  BY ClimbEquation
<1>2. /\ D[0] = C[h]
      /\ \A k \in 1..h : D[k] = D[k - 1][IF steps[h - k + 1].right THEN 2 ELSE 1]
  BY DescendEquation DEF RootFromPath
<1>3. D[h] = SubtreeAt(RootFromPath(steps, leaf), steps)
  BY DEF SubtreeAt
<1> HIDE DEF h, C, D
<1>4. h \in Nat
  BY DEF h
<1>5. 0 \in T
  BY <1>2, <1>4
<1>6. ASSUME NEW j \in 0..(h - 1), j \in T
      PROVE  j + 1 \in T
  <2> DEFINE k == h - j
  <2>1. k \in 1..h /\ k - 1 = h - (j + 1) /\ h - (j + 1) + 1 = k /\ j + 1 \in 1..h
    BY <1>4
  <2>2. D[j] = Up(C[k - 1], steps[k])
    BY <1>1, <1>4, <1>6, <2>1
  <2>3. D[j + 1] = D[j][IF steps[k].right THEN 2 ELSE 1]
    BY <1>2, <2>1
  <2> HIDE DEF k
  <2> QED BY <2>1, <2>2, <2>3 DEF Up
<1>7. h \in T
  <2> HIDE DEF T
  <2>1. \A j \in 0..h : j \in T
    BY <1>4, <1>5, <1>6, SetInductionUpTo
  <2> QED BY <1>4, <2>1
<1>8. h - h = 0
  BY <1>4
<1> QED BY <1>1, <1>3, <1>4, <1>7, <1>8

-----------------------------------------------------------------------------
(* Completeness *)

(* The quotient of a division is the only one that leaves a remainder.     *)
LEMMA QuotientIs ==
  ASSUME NEW a \in Nat, NEW d \in Nat \ {0}, NEW q \in Nat, NEW r \in 0..(d - 1),
         a = d * q + r
  PROVE  a \div d = q
OBVIOUS

LEMMA QuotientOf ==
  ASSUME NEW a \in Nat, NEW d \in Nat \ {0}
  PROVE  /\ a \div d \in Nat /\ a % d \in 0..(d - 1)
         /\ a = d * (a \div d) + (a % d)
OBVIOUS

(* Halving a quotient. *)
LEMMA QuotientHalved ==
  ASSUME NEW a \in Nat, NEW w \in Nat \ {0}
  PROVE  a \div (2 * w) = (a \div w) \div 2
<1> DEFINE n == a \div w
           r == a % w
           p == n \div 2
           b == n % 2
<1>1. n \in Nat /\ r \in 0..(w - 1) /\ a = w * n + r
  BY QuotientOf
<1> HIDE DEF n, r
<1>2. p \in Nat /\ b \in 0..1 /\ n = 2 * p + b
  BY <1>1
<1> HIDE DEF p, b
<1>3. w * b \in 0..w
  BY <1>2
<1>4. w * n = (2 * w) * p + w * b
  BY <1>2
<1>5. a = (2 * w) * p + (w * b + r) /\ w * b + r \in 0..(2 * w - 1)
  <2>1. (2 * w) * p \in Nat
    BY <1>2
  <2> QED BY <1>1, <1>3, <1>4, <2>1
<1>6. a \div (2 * w) = p
  BY <1>2, <1>5, QuotientIs
<1> QED BY <1>6 DEF n, p

(* The place, from 0, of the node above leaf i on level k. *)
Above(i, k) == i \div TwoTo[k]

LEMMA AboveSteps ==
  ASSUME NEW h \in Nat, NEW i \in 0..(TwoTo[h] - 1)
  PROVE  /\ Above(i, 0) = i
         /\ \A k \in 0..h : Above(i, k) \in 0..(TwoTo[h - k] - 1)
         /\ \A k \in 1..h : Above(i, k) = Above(i, k - 1) \div 2
<1>1. TwoTo[h] \in Nat /\ i \in Nat
  BY TwoToValues
<1>2. Above(i, 0) = i
  BY <1>1, TwoToValues DEF Above
<1>3. ASSUME NEW k \in 1..h
      PROVE  Above(i, k) = Above(i, k - 1) \div 2
  <2>1. k - 1 \in Nat /\ (k - 1) + 1 = k
    OBVIOUS
  <2>2. TwoTo[k - 1] \in Nat \ {0} /\ TwoTo[k] = 2 * TwoTo[k - 1]
    BY <2>1, TwoToValues
  <2>3. i \div (2 * TwoTo[k - 1]) = (i \div TwoTo[k - 1]) \div 2
    BY <1>1, <2>2, QuotientHalved
  <2> QED BY <2>2, <2>3 DEF Above
<1> DEFINE T == {k \in Nat : k <= h => Above(i, k) \in 0..(TwoTo[h - k] - 1)}
<1>4. 0 \in T
  <2>1. h - 0 = h
    OBVIOUS
  <2> QED BY <1>2, <2>1
<1>5. ASSUME NEW k \in 0..(h - 1), k \in T
      PROVE  k + 1 \in T
  <2>1. k + 1 \in 1..h /\ (k + 1) - 1 = k /\ h - (k + 1) \in Nat /\ (h - (k + 1)) + 1 = h - k
    OBVIOUS
  <2>2. TwoTo[h - (k + 1)] \in Nat \ {0} /\ TwoTo[h - k] = 2 * TwoTo[h - (k + 1)]
    BY <2>1, TwoToValues
  <2>3. Above(i, k) \in 0..(TwoTo[h - k] - 1)
    BY <1>5
  <2>4. Above(i, k + 1) = Above(i, k) \div 2
    BY <1>3, <2>1
  <2>5. Above(i, k + 1) \in 0..(TwoTo[h - (k + 1)] - 1)
    BY <2>2, <2>3, <2>4
  <2> QED BY <2>1, <2>5
<1>6. \A k \in 0..h : k \in T
  <2> HIDE DEF T
  <2> QED BY <1>4, <1>5, SetInductionUpTo
<1> QED BY <1>2, <1>3, <1>6

LEMMA PathLength ==
  ASSUME NEW leaves, NEW h \in Nat, NEW i
  PROVE  Len(PathOf(leaves, h, i)) = h /\ DOMAIN PathOf(leaves, h, i) = 1..h
BY DEF PathOf

(* A path of a tree has a step for each level; the node a step starts from *)
(* is the right one of two when its place is odd.                          *)
LEMMA PathTurns ==
  ASSUME NEW leaves, NEW h \in Nat, NEW i
  PROVE  \A k \in 1..h : PathOf(leaves, h, i)[k].right = (Above(i, k - 1) % 2 = 1)
BY DEF PathOf, Above

LEMMA PathSiblings ==
  ASSUME NEW leaves, NEW h \in Nat, NEW i
  PROVE  \A k \in 1..h :
           PathOf(leaves, h, i)[k].sibling =
             Levels(leaves, h)[k - 1][IF Above(i, k - 1) % 2 = 0 THEN Above(i, k - 1) + 2
                                      ELSE Above(i, k - 1)]
BY DEF PathOf, Above

(* The path of a leaf leads from it to the root. *)
LEMMA PathLeadsToRoot ==
  ASSUME NEW leaves, NEW h \in Nat, NEW i \in 0..(TwoTo[h] - 1)
  PROVE  RootFromPath(PathOf(leaves, h, i), Padded(leaves, h)[i + 1]) = RootOf(leaves, h)
<1> DEFINE P == PathOf(leaves, h, i)
           L == Levels(leaves, h)
           C == Climb(P, Padded(leaves, h)[i + 1])
           T == {k \in Nat : k <= h => C[k] = L[k][Above(i, k) + 1]}
<1>1. Len(P) = h
  BY PathLength
<1>2. /\ C[0] = Padded(leaves, h)[i + 1]
      /\ \A k \in 1..h : C[k] = Up(C[k - 1], P[k])
  BY <1>1, ClimbEquation
<1>3. /\ L[0] = Padded(leaves, h)
      /\ \A k \in 1..h : \A j \in 1..TwoTo[h - k] :
           L[k][j] = <<L[k - 1][2 * j - 1], L[k - 1][2 * j]>>
  BY LevelNodes
<1>4. /\ \A k \in 1..h : P[k].right = (Above(i, k - 1) % 2 = 1)
      /\ \A k \in 1..h :
           P[k].sibling = L[k - 1][IF Above(i, k - 1) % 2 = 0 THEN Above(i, k - 1) + 2
                                   ELSE Above(i, k - 1)]
  BY PathTurns, PathSiblings
<1>5. RootFromPath(P, Padded(leaves, h)[i + 1]) = C[h] /\ RootOf(leaves, h) = L[h][1]
  BY <1>1 DEF RootFromPath, RootOf
<1> HIDE DEF P, L, C
<1>6. 0 \in T
  BY <1>2, <1>3, AboveSteps
<1>7. ASSUME NEW k \in 0..(h - 1), k \in T
      PROVE  k + 1 \in T
  <2>1. k + 1 \in 1..h /\ (k + 1) - 1 = k /\ k \in 0..h /\ k + 1 \in 0..h
    OBVIOUS
  <2> DEFINE n == Above(i, k)
             p == Above(i, k + 1)
  <2>2. h - (k + 1) \in Nat
    OBVIOUS
  <2>3. TwoTo[h - (k + 1)] \in Nat
    BY <2>2, TwoToValues
  <2>4. n \in Nat /\ p \in 0..(TwoTo[h - (k + 1)] - 1) /\ p = n \div 2
    <3>1. TwoTo[h - k] \in Nat
      BY TwoToValues
    <3> QED BY <2>1, <2>3, <3>1, AboveSteps
  <2>5. C[k] = L[k][n + 1]
    BY <1>7
  <2>6. C[k + 1] = Up(C[k], P[k + 1])
    BY <1>2, <2>1
  <2>7. /\ P[k + 1].right = (n % 2 = 1)
        /\ P[k + 1].sibling = L[k][IF n % 2 = 0 THEN n + 2 ELSE n]
    BY <1>4, <2>1
  <2>8. L[k + 1][p + 1] = <<L[k][2 * (p + 1) - 1], L[k][2 * (p + 1)]>>
    <3>1. p + 1 \in 1..TwoTo[h - (k + 1)]
      BY <2>3, <2>4
    <3> QED BY <1>3, <2>1, <3>1
  <2> HIDE DEF n, p
  <2>9. C[k + 1] = L[k + 1][p + 1]
    <3>1. CASE n % 2 = 0
      <4>1. 2 * (p + 1) - 1 = n + 1 /\ 2 * (p + 1) = n + 2 /\ n % 2 # 1
        BY <2>4, <3>1
      <4>2. C[k + 1] = <<L[k][n + 1], L[k][n + 2]>>
        BY <2>5, <2>6, <2>7, <3>1, <4>1 DEF Up
      <4> QED BY <2>8, <4>1, <4>2
    <3>2. CASE n % 2 = 1
      <4>1. 2 * (p + 1) - 1 = n /\ 2 * (p + 1) = n + 1 /\ n % 2 # 0
        BY <2>4, <3>2
      <4>2. C[k + 1] = <<L[k][n], L[k][n + 1]>>
        BY <2>5, <2>6, <2>7, <3>2, <4>1 DEF Up
      <4> QED BY <2>8, <4>1, <4>2
    <3> QED BY <2>4, <3>1, <3>2
  <2> QED BY <2>1, <2>9 DEF p
<1>8. C[h] = L[h][Above(i, h) + 1]
  <2> HIDE DEF T
  <2>1. \A k \in 0..h : k \in T
    BY <1>6, <1>7, SetInductionUpTo
  <2> QED BY <2>1 DEF T
<1>9. Above(i, h) = 0
  <2>1. h \in 0..h /\ h - h = 0
    OBVIOUS
  <2> QED BY <2>1, AboveSteps, TwoToValues
<1> QED BY <1>5, <1>8, <1>9 DEF P

(* The turns of the path of a leaf tell its index.                         *)
LEMMA PathIndex ==
  ASSUME NEW leaves, NEW h \in Nat, NEW i \in 0..(TwoTo[h] - 1)
  PROVE  IndexOf(PathOf(leaves, h, i)) = i
<1> DEFINE P == PathOf(leaves, h, i)
           N == Turns(P)
           T == {j \in Nat : j <= h => N[j] = Above(i, h - j)}
<1>1. Len(P) = h
  BY PathLength
<1>2. /\ N[0] = 0
      /\ \A k \in 1..h : N[k] = 2 * N[k - 1] + (IF P[h - k + 1].right THEN 1 ELSE 0)
  BY <1>1, TurnsEquation
<1>3. \A k \in 1..h : P[k].right = (Above(i, k - 1) % 2 = 1)
  BY PathTurns
<1>4. IndexOf(P) = N[h]
  BY <1>1 DEF IndexOf
<1> HIDE DEF P, N
<1>5. \A k \in 0..h : Above(i, k) \in 0..(TwoTo[h - k] - 1) /\ TwoTo[h - k] \in Nat
  BY AboveSteps, TwoToValues
<1>6. 0 \in T
  <2>1. h \in 0..h /\ h - h = 0 /\ h - 0 = h
    OBVIOUS
  <2> QED BY <1>2, <1>5, <2>1, TwoToValues
<1>7. ASSUME NEW j \in 0..(h - 1), j \in T
      PROVE  j + 1 \in T
  <2> DEFINE k == h - j
             n == Above(i, k - 1)
  <2>1. /\ k \in 1..h /\ k - 1 \in 0..h /\ k - 1 = h - (j + 1) /\ h - (j + 1) + 1 = k
        /\ j + 1 \in 1..h /\ (j + 1) - 1 = j
    OBVIOUS
  <2>2. N[j] = n \div 2 /\ n \in Nat
    BY <1>5, <1>7, <2>1, AboveSteps
  <2>3. N[j + 1] = 2 * N[j] + (IF n % 2 = 1 THEN 1 ELSE 0)
    BY <1>2, <1>3, <2>1
  <2> HIDE DEF n
  <2>4. N[j + 1] = n
    BY <2>2, <2>3
  <2> QED BY <2>1, <2>4 DEF n
<1>8. N[h] = Above(i, 0)
  <2> HIDE DEF T
  <2>1. \A j \in 0..h : j \in T
    BY <1>6, <1>7, SetInductionUpTo
  <2>2. h \in 0..h /\ h - h = 0
    OBVIOUS
  <2> QED BY <2>1, <2>2 DEF T
<1> QED BY <1>4, <1>8, AboveSteps DEF P

(* No turn to the right: the first leaf.  No turn to the left: the last.   *)
LEMMA TurnsOfTheEnds ==
  ASSUME NEW steps, Len(steps) \in Nat, DOMAIN steps = 1..Len(steps)
  PROVE  /\ Leftmost(steps) => IndexOf(steps) = 0
         /\ Rightmost(steps) => IndexOf(steps) = TwoTo[Len(steps)] - 1
<1> DEFINE h == Len(steps)
           N == Turns(steps)
<1>1. /\ N[0] = 0
      /\ \A k \in 1..h : N[k] = 2 * N[k - 1] + (IF steps[h - k + 1].right THEN 1 ELSE 0)
  BY TurnsEquation
<1>2. IndexOf(steps) = N[h]
  BY DEF IndexOf
<1>3. h \in Nat /\ \A k \in 1..h : h - k + 1 \in DOMAIN steps
  OBVIOUS
<1> HIDE DEF h, N
<1>4. ASSUME Leftmost(steps)
      PROVE  N[h] = 0
  <2> DEFINE T == {j \in Nat : j <= h => N[j] = 0}
  <2>1. 0 \in T
    BY <1>1
  <2>2. ASSUME NEW j \in 0..(h - 1), j \in T
        PROVE  j + 1 \in T
    <3>1. j + 1 \in 1..h /\ (j + 1) - 1 = j
      BY <1>3
    <3>2. ~steps[h - (j + 1) + 1].right
      BY <1>3, <1>4, <3>1 DEF Leftmost
    <3>3. N[j] = 0
      BY <1>3, <2>2
    <3> QED BY <1>1, <3>1, <3>2, <3>3
  <2> HIDE DEF T
  <2>3. \A j \in 0..h : j \in T
    BY <1>3, <2>1, <2>2, SetInductionUpTo
  <2> QED BY <1>3, <2>3 DEF T
<1>5. ASSUME Rightmost(steps)
      PROVE  N[h] = TwoTo[h] - 1
  <2> DEFINE T == {j \in Nat : j <= h => N[j] = TwoTo[j] - 1}
  <2>1. 0 \in T
    <3>1. N[0] = 0
      BY <1>1
    <3>2. TwoTo[0] - 1 = 0
      BY TwoToValues
    <3> QED BY <3>1, <3>2
  <2>2. ASSUME NEW j \in 0..(h - 1), j \in T
        PROVE  j + 1 \in T
    <3>1. j \in Nat /\ j + 1 \in 1..h /\ (j + 1) - 1 = j
      BY <1>3
    <3>2. steps[h - (j + 1) + 1].right
      BY <1>3, <1>5, <3>1 DEF Rightmost
    <3>3. N[j] = TwoTo[j] - 1
      BY <1>3, <2>2
    <3>4. TwoTo[j] \in Nat /\ TwoTo[j + 1] = 2 * TwoTo[j]
      BY <3>1, TwoToValues
    <3>5. N[j + 1] = 2 * N[j] + 1
      BY <1>1, <3>1, <3>2
    <3> QED BY <3>1, <3>3, <3>4, <3>5
  <2> HIDE DEF T
  <2>3. \A j \in 0..h : j \in T
    BY <1>3, <2>1, <2>2, SetInductionUpTo
  <2> QED BY <1>3, <2>3 DEF T
<1> QED BY <1>2, <1>4, <1>5 DEF h

(* The path of the first leaf, and only that one, takes no turn to the     *)
(* right, and the path of the last one no turn to the left.                *)
LEMMA PathOfTheEnds ==
  ASSUME NEW leaves, NEW h \in Nat, NEW i \in 0..(TwoTo[h] - 1)
  PROVE  /\ Leftmost(PathOf(leaves, h, i)) <=> i = 0
         /\ Rightmost(PathOf(leaves, h, i)) <=> i = TwoTo[h] - 1
<1> DEFINE P == PathOf(leaves, h, i)
<1>1. Len(P) = h /\ DOMAIN P = 1..h
  BY PathLength
<1>2. \A k \in 1..h : P[k].right = (Above(i, k - 1) % 2 = 1)
  BY PathTurns
<1>3. IndexOf(P) = i
  BY PathIndex
<1> HIDE DEF P
<1>4. (Leftmost(P) => i = 0) /\ (Rightmost(P) => i = TwoTo[h] - 1)
  BY <1>1, <1>3, TurnsOfTheEnds
<1>5. ASSUME i = 0
      PROVE  Leftmost(P)
  <2>1. \A k \in 1..h : Above(0, k - 1) = 0
    <3> SUFFICES ASSUME NEW k \in 1..h PROVE Above(0, k - 1) = 0
      OBVIOUS
    <3>1. k - 1 \in Nat
      OBVIOUS
    <3>2. TwoTo[k - 1] \in Nat \ {0}
      BY <3>1, TwoToValues
    <3> QED BY <3>2 DEF Above
  <2>2. \A k \in 1..h : ~P[k].right
    <3> SUFFICES ASSUME NEW k \in 1..h PROVE ~P[k].right
      OBVIOUS
    <3>1. Above(i, k - 1) % 2 # 1
      BY <1>5, <2>1
    <3> QED BY <1>2, <3>1
  <2> QED BY <1>1, <2>2 DEF Leftmost
<1>6. ASSUME i = TwoTo[h] - 1
      PROVE  Rightmost(P)
  <2> DEFINE T == {k \in Nat : k <= h => Above(i, k) = TwoTo[h - k] - 1}
  <2>1. \A k \in 0..(h - 1) : TwoTo[h - k] = 2 * TwoTo[h - (k + 1)] /\ TwoTo[h - (k + 1)] \in Nat \ {0}
    <3> SUFFICES ASSUME NEW k \in 0..(h - 1)
                 PROVE  TwoTo[h - k] = 2 * TwoTo[h - (k + 1)] /\ TwoTo[h - (k + 1)] \in Nat \ {0}
      OBVIOUS
    <3>1. h - (k + 1) \in Nat /\ (h - (k + 1)) + 1 = h - k
      OBVIOUS
    <3> QED BY <3>1, TwoToValues
  <2>2. 0 \in T
    <3>1. h - 0 = h
      OBVIOUS
    <3> QED BY <1>6, <3>1, AboveSteps
  <2>3. ASSUME NEW k \in 0..(h - 1), k \in T
        PROVE  k + 1 \in T
    <3>1. k + 1 \in 1..h /\ (k + 1) - 1 = k
      OBVIOUS
    <3>2. Above(i, k) = TwoTo[h - k] - 1
      BY <2>3
    <3>3. Above(i, k + 1) = Above(i, k) \div 2
      BY <3>1, AboveSteps
    <3>4. Above(i, k + 1) = TwoTo[h - (k + 1)] - 1
      BY <2>1, <3>2, <3>3
    <3> QED BY <3>4
  <2> HIDE DEF T
  <2>4. \A k \in 0..h : k \in T
    BY <2>2, <2>3, SetInductionUpTo
  <2>5. \A k \in 1..h : P[k].right
    <3> SUFFICES ASSUME NEW k \in 1..h PROVE P[k].right
      OBVIOUS
    <3>1. k - 1 \in 0..(h - 1) /\ k - 1 \in 0..h
      OBVIOUS
    <3>2. Above(i, k - 1) = TwoTo[h - (k - 1)] - 1
      BY <2>4, <3>1 DEF T
    <3>3. Above(i, k - 1) % 2 = 1
      BY <2>1, <3>1, <3>2
    <3> QED BY <1>2, <3>3
  <2> QED BY <1>1, <2>5 DEF Rightmost
<1> QED BY <1>4, <1>5, <1>6 DEF P

(* All nodes of one level of the empty tree are the same.                  *)
LEMMA EmptyLevels ==
  ASSUME NEW h \in Nat
  PROVE  /\ \A k \in 0..h : \A j \in 1..TwoTo[h - k] : Levels(<<>>, h)[k][j] = EmptyNode(h, k)
         /\ EmptyNode(h, 0) = Zero
         /\ \A k \in 1..h : EmptyNode(h, k) = <<EmptyNode(h, k - 1), EmptyNode(h, k - 1)>>
<1> DEFINE E == Levels(<<>>, h)
           T == {k \in Nat : k <= h => \A j \in 1..TwoTo[h - k] : E[k][j] = E[k][1]}
<1>1. E[0] = Padded(<<>>, h)
  BY LevelNodes
<1>2. \A k \in 1..h : \A j \in 1..TwoTo[h - k] : E[k][j] = <<E[k - 1][2 * j - 1], E[k - 1][2 * j]>>
  BY LevelNodes
<1>3. \A k \in 0..h : TwoTo[h - k] \in Nat \ {0}
  BY TwoToValues
<1>4. \A k \in 0..h : EmptyNode(h, k) = E[k][1]
  BY DEF EmptyNode
<1>5. \A j \in 1..TwoTo[h] : E[0][j] = Zero
  <2>1. DOMAIN (<<>>) = {}
    OBVIOUS
  <2> QED BY <1>1, <2>1 DEF Padded
<1> HIDE DEF E
<1>6. 1 \in 1..TwoTo[h] /\ h - 0 = h
  BY <1>3
<1>7. 0 \in T
  BY <1>5, <1>6
<1>8. ASSUME NEW k \in 0..(h - 1), k \in T
      PROVE  /\ E[k + 1][1] = <<E[k][1], E[k][1]>>
             /\ k + 1 \in T
  <2>1. k + 1 \in 1..h /\ (k + 1) - 1 = k /\ h - (k + 1) \in Nat /\ (h - (k + 1)) + 1 = h - k
    OBVIOUS
  <2>2. TwoTo[h - (k + 1)] \in Nat \ {0} /\ TwoTo[h - k] = 2 * TwoTo[h - (k + 1)]
    BY <2>1, TwoToValues
  <2>3. \A j \in 1..TwoTo[h - k] : E[k][j] = E[k][1]
    BY <1>8
  <2>4. \A j \in 1..TwoTo[h - (k + 1)] : E[k + 1][j] = <<E[k][2 * j - 1], E[k][2 * j]>>
    BY <1>2, <2>1
  <2>5. \A j \in 1..TwoTo[h - (k + 1)] : 2 * j - 1 \in 1..TwoTo[h - k] /\ 2 * j \in 1..TwoTo[h - k]
    BY <2>2
  <2>6. \A j \in 1..TwoTo[h - (k + 1)] : E[k + 1][j] = <<E[k][1], E[k][1]>>
    BY <2>3, <2>4, <2>5
  <2>7. E[k + 1][1] = <<E[k][1], E[k][1]>>
    BY <2>2, <2>6
  <2>8. \A j \in 1..TwoTo[h - (k + 1)] : E[k + 1][j] = E[k + 1][1]
    BY <2>6, <2>7
  <2> QED BY <2>7, <2>8
<1>9. \A k \in 0..h : k \in T
  <2> HIDE DEF T
  <2> QED BY <1>7, <1>8, SetInductionUpTo
<1>10. \A k \in 1..h : E[k][1] = <<E[k - 1][1], E[k - 1][1]>>
  <2> SUFFICES ASSUME NEW k \in 1..h PROVE E[k][1] = <<E[k - 1][1], E[k - 1][1]>>
    OBVIOUS
  <2>1. k - 1 \in 0..(h - 1) /\ k - 1 \in 0..h /\ (k - 1) + 1 = k
    OBVIOUS
  <2> HIDE DEF T
  <2>2. E[(k - 1) + 1][1] = <<E[k - 1][1], E[k - 1][1]>>
    BY <1>8, <1>9, <2>1
  <2> QED BY <2>1, <2>2
<1>11. \A k \in 0..h : \A j \in 1..TwoTo[h - k] : E[k][j] = E[k][1]
  BY <1>9
<1>12. EmptyNode(h, 0) = Zero
  BY <1>4, <1>5, <1>6
<1>13. \A k \in 1..h : EmptyNode(h, k) = <<EmptyNode(h, k - 1), EmptyNode(h, k - 1)>>
  <2> SUFFICES ASSUME NEW k \in 1..h
               PROVE  EmptyNode(h, k) = <<EmptyNode(h, k - 1), EmptyNode(h, k - 1)>>
    OBVIOUS
  <2>1. k \in 0..h /\ k - 1 \in 0..h
    OBVIOUS
  <2> QED BY <1>4, <1>10, <2>1
<1> QED BY <1>4, <1>11, <1>12, <1>13 DEF E

(* A node is that of the empty tree exactly when all leaves below it are   *)
(* zero: no other leaves hash to the same.                                 *)
LEMMA EmptyBelow ==
  ASSUME NEW leaves, NEW h \in Nat
  PROVE  \A k \in 0..h : \A j \in 1..TwoTo[h - k] :
           Levels(leaves, h)[k][j] = EmptyNode(h, k)
             <=> \A m \in ((j - 1) * TwoTo[k] + 1)..(j * TwoTo[k]) : Padded(leaves, h)[m] = Zero
<1> DEFINE L == Levels(leaves, h)
           F == Padded(leaves, h)
           Below(k, j) == \A m \in ((j - 1) * TwoTo[k] + 1)..(j * TwoTo[k]) : F[m] = Zero
           T == {k \in Nat : k <= h => \A j \in 1..TwoTo[h - k] : L[k][j] = EmptyNode(h, k) <=> Below(k, j)}
<1>1. /\ L[0] = F
      /\ \A k \in 1..h : \A j \in 1..TwoTo[h - k] : L[k][j] = <<L[k - 1][2 * j - 1], L[k - 1][2 * j]>>
  BY LevelNodes
<1>2. /\ EmptyNode(h, 0) = Zero
      /\ \A k \in 1..h : EmptyNode(h, k) = <<EmptyNode(h, k - 1), EmptyNode(h, k - 1)>>
  BY EmptyLevels
<1> HIDE DEF L, F
<1>3. TwoTo[0] = 1 /\ TwoTo[h] \in Nat
  BY TwoToValues
<1>4. 0 \in T
  <2> SUFFICES ASSUME NEW j \in 1..TwoTo[h - 0] PROVE L[0][j] = EmptyNode(h, 0) <=> Below(0, j)
    OBVIOUS
  <2>1. j \in Nat
    BY <1>3
  <2>2. (j - 1) * TwoTo[0] + 1 = j /\ j * TwoTo[0] = j
    BY <1>3, <2>1
  <2>3. Below(0, j) <=> F[j] = Zero
    BY <2>1, <2>2
  <2> QED BY <1>1, <1>2, <2>3
<1>5. ASSUME NEW k \in 0..(h - 1), k \in T
      PROVE  k + 1 \in T
  <2>1. /\ k \in Nat /\ k + 1 \in 1..h /\ (k + 1) - 1 = k
        /\ h - (k + 1) \in Nat /\ (h - (k + 1)) + 1 = h - k
    OBVIOUS
  <2>2. /\ TwoTo[h - (k + 1)] \in Nat \ {0} /\ TwoTo[h - k] = 2 * TwoTo[h - (k + 1)]
        /\ TwoTo[k] \in Nat \ {0} /\ TwoTo[k + 1] = 2 * TwoTo[k]
    BY <2>1, TwoToValues
  <2> HIDE DEF Below
  <2>3. \A j \in 1..TwoTo[h - k] : L[k][j] = EmptyNode(h, k) <=> Below(k, j)
    BY <1>5
  <2>4. ASSUME NEW j \in 1..TwoTo[h - (k + 1)]
        PROVE  L[k + 1][j] = EmptyNode(h, k + 1) <=> Below(k + 1, j)
    <3> DEFINE a == 2 * j - 1
               b == 2 * j
               w == TwoTo[k]
    <3>1. /\ j \in Nat \ {0} /\ a \in 1..TwoTo[h - k] /\ b \in 1..TwoTo[h - k]
          /\ a \in Nat \ {0} /\ b = a + 1 /\ b - 1 = a /\ w \in Nat
      BY <2>2
    <3>2. L[k + 1][j] = <<L[k][a], L[k][b]>> /\ EmptyNode(h, k + 1) = <<EmptyNode(h, k), EmptyNode(h, k)>>
      BY <1>1, <1>2, <2>1
    <3>3. L[k + 1][j] = EmptyNode(h, k + 1) <=> L[k][a] = EmptyNode(h, k) /\ L[k][b] = EmptyNode(h, k)
      BY <3>2
    <3>4. L[k + 1][j] = EmptyNode(h, k + 1) <=> Below(k, a) /\ Below(k, b)
      BY <2>3, <3>1, <3>3
    <3>5. (j - 1) * TwoTo[k + 1] = (a - 1) * w /\ j * TwoTo[k + 1] = b * w
      BY <2>2, <3>1
    <3>6. (a - 1) * w \in Nat /\ a * w = (a - 1) * w + w /\ b * w = a * w + w
      BY <3>1
    <3> HIDE DEF a, b, w
    <3>7. \A m : m \in ((a - 1) * w + 1)..(b * w)
                   <=> m \in ((a - 1) * w + 1)..(a * w) \/ m \in ((b - 1) * w + 1)..(b * w)
      BY <3>1, <3>6
    <3>8. Below(k + 1, j) <=> Below(k, a) /\ Below(k, b)
      BY <3>5, <3>7 DEF Below, w
    <3> QED BY <3>4, <3>8
  <2> QED BY <2>1, <2>4
<1>6. \A k \in 0..h : k \in T
  <2> HIDE DEF T
  <2> QED BY <1>4, <1>5, SetInductionUpTo
<1> QED BY <1>6 DEF L, F

(* The siblings on the right of a path are nodes of the empty tree exactly *)
(* when all leaves to the right of the path's are zero.                    *)
LEMMA PathRightEmpty ==
  ASSUME NEW leaves, NEW h \in Nat, NEW i \in 0..(TwoTo[h] - 1)
  PROVE  RightEmpty(PathOf(leaves, h, i))
           <=> \A m \in (i + 2)..TwoTo[h] : Padded(leaves, h)[m] = Zero
<1> DEFINE P == PathOf(leaves, h, i)
           L == Levels(leaves, h)
           F == Padded(leaves, h)
           Siblings(k) == \A n \in 1..k : ~P[n].right => P[n].sibling = EmptyNode(h, n - 1)
           Zeroes(u) == \A m \in (i + 2)..u : F[m] = Zero
           T == {k \in Nat : k <= h => (Siblings(k) <=> Zeroes((Above(i, k) + 1) * TwoTo[k]))}
<1>1. Len(P) = h /\ DOMAIN P = 1..h
  BY PathLength
<1>2. \A k \in 1..h : P[k].right = (Above(i, k - 1) % 2 = 1)
  BY PathTurns
<1>3. \A k \in 1..h : P[k].sibling = L[k - 1][IF Above(i, k - 1) % 2 = 0 THEN Above(i, k - 1) + 2
                                               ELSE Above(i, k - 1)]
  BY PathSiblings
<1>4. \A k \in 0..h : \A j \in 1..TwoTo[h - k] :
        L[k][j] = EmptyNode(h, k) <=> \A m \in ((j - 1) * TwoTo[k] + 1)..(j * TwoTo[k]) : F[m] = Zero
  BY EmptyBelow
<1>5. RightEmpty(P) <=> Siblings(h)
  BY <1>1 DEF RightEmpty
<1> HIDE DEF P, L, F
<1>6. i \in Nat /\ TwoTo[h] \in Nat
  BY TwoToValues
<1>7. 0 \in T
  <2>1. (Above(i, 0) + 1) * TwoTo[0] = i + 1
    BY <1>6, AboveSteps, TwoToValues
  <2>2. Zeroes(i + 1)
    BY <1>6
  <2>3. Siblings(0)
    OBVIOUS
  <2> HIDE DEF Siblings, Zeroes
  <2> QED BY <2>1, <2>2, <2>3
<1>8. ASSUME NEW k \in 0..(h - 1), k \in T
      PROVE  k + 1 \in T
  <2> DEFINE n == Above(i, k)
             p == Above(i, k + 1)
             w == TwoTo[k]
  <2>1. /\ k \in Nat /\ k + 1 \in 1..h /\ (k + 1) - 1 = k /\ k \in 0..h
        /\ k + 1 \in 0..h /\ h - (k + 1) \in Nat /\ (h - (k + 1)) + 1 = h - k
    OBVIOUS
  <2>2. /\ TwoTo[h - (k + 1)] \in Nat \ {0} /\ TwoTo[h - k] = 2 * TwoTo[h - (k + 1)]
        /\ w \in Nat \ {0} /\ TwoTo[k + 1] = 2 * w
    BY <2>1, TwoToValues
  <2>3. n \in 0..(TwoTo[h - k] - 1) /\ p \in 0..(TwoTo[h - (k + 1)] - 1) /\ p = n \div 2
    BY <2>1, AboveSteps
  <2>4. n \in Nat /\ p \in Nat /\ n <= 2 * TwoTo[h - (k + 1)] - 1 /\ p <= TwoTo[h - (k + 1)] - 1
    BY <2>2, <2>3
  <2>5. n * w <= i /\ i < (n + 1) * w /\ n * w \in Nat /\ (n + 1) * w = n * w + w
    <3>1. i \div w = n
      BY DEF Above
    <3> HIDE DEF n, w
    <3>2. i = w * n + (i % w) /\ i % w \in 0..(w - 1)
      BY <1>6, <2>2, <3>1, QuotientOf
    <3>3. n * w = w * n /\ n * w \in Nat /\ (n + 1) * w = n * w + w
      BY <2>2, <2>4
    <3> QED BY <1>6, <2>2, <3>2, <3>3
  <2>6. Siblings(k) <=> Zeroes((n + 1) * w)
    BY <1>8
  <2>7. Siblings(k + 1) <=> Siblings(k) /\ (~P[k + 1].right => P[k + 1].sibling = EmptyNode(h, k))
    <3>1. \A x : x \in 1..(k + 1) <=> x \in 1..k \/ x = k + 1
      BY <2>1
    <3> QED BY <2>1, <3>1
  <2>8. P[k + 1].right = (n % 2 = 1)
    BY <1>2, <2>1
  <2>9. P[k + 1].sibling = L[k][IF n % 2 = 0 THEN n + 2 ELSE n]
    BY <1>3, <2>1
  <2>10. \A j \in 1..TwoTo[h - k] :
           L[k][j] = EmptyNode(h, k) <=> \A m \in ((j - 1) * w + 1)..(j * w) : F[m] = Zero
    BY <1>4, <2>1
  <2> HIDE DEF n, p, w, Siblings
  <2>11. CASE n % 2 = 1
    <3>1. (p + 1) * (2 * w) = (n + 1) * w
      <4>1. n = 2 * p + 1
        BY <2>3, <2>4, <2>11
      <4> QED BY <2>2, <2>4, <4>1
    <3>2. Siblings(k + 1) <=> Siblings(k)
      BY <2>7, <2>8, <2>11
    <3> QED BY <2>1, <2>2, <2>6, <3>1, <3>2 DEF p
  <2>12. CASE n % 2 = 0
    <3>1. n = 2 * p
      BY <2>3, <2>4, <2>12
    <3>2. (p + 1) * (2 * w) = (n + 2) * w /\ (n + 2) * w = (n + 1) * w + w /\ (n + 2) - 1 = n + 1
      BY <2>2, <2>4, <3>1
    <3>3. n + 2 \in 1..TwoTo[h - k]
      BY <2>2, <2>4, <3>1
    <3>4. ~P[k + 1].right
      <4>1. n % 2 # 1
        BY <2>12
      <4> QED BY <2>8, <4>1
    <3>5. P[k + 1].sibling = L[k][n + 2]
      BY <2>9, <2>12
    <3>6. L[k][n + 2] = EmptyNode(h, k) <=> \A m \in ((n + 1) * w + 1)..((n + 2) * w) : F[m] = Zero
      BY <2>10, <3>2, <3>3
    <3>7. \A m : m \in (i + 2)..((n + 2) * w)
                   <=> m \in (i + 2)..((n + 1) * w) \/ m \in ((n + 1) * w + 1)..((n + 2) * w)
      BY <1>6, <2>2, <2>5, <3>2
    <3>8. Zeroes((n + 2) * w) <=> Zeroes((n + 1) * w) /\ L[k][n + 2] = EmptyNode(h, k)
      BY <3>6, <3>7
    <3> HIDE DEF Zeroes
    <3>9. Siblings(k + 1) <=> Zeroes((n + 2) * w)
      BY <2>6, <2>7, <3>4, <3>5, <3>8
    <3> QED BY <2>1, <2>2, <3>2, <3>9 DEF p
  <2> QED BY <2>4, <2>11, <2>12
<1>9. Siblings(h) <=> Zeroes((Above(i, h) + 1) * TwoTo[h])
  <2> HIDE DEF T
  <2>1. \A k \in 0..h : k \in T
    BY <1>7, <1>8, SetInductionUpTo
  <2> HIDE DEF Siblings, Zeroes
  <2> QED BY <2>1 DEF T
<1>10. (Above(i, h) + 1) * TwoTo[h] = TwoTo[h]
  <2>1. h \in 0..h /\ h - h = 0
    OBVIOUS
  <2>2. Above(i, h) = 0
    BY <2>1, AboveSteps, TwoToValues
  <2> QED BY <1>6, <2>2
<1> QED BY <1>5, <1>9, <1>10 DEF P, F

(* The leaves that are missing may be filled in beforehand.                *)
LEMMA FilledBefore ==
  ASSUME NEW leaves, NEW h \in Nat
  PROVE  /\ Padded(Padded(leaves, h), h) = Padded(leaves, h)
         /\ Len(Padded(leaves, h)) = TwoTo[h]
         /\ Levels(Padded(leaves, h), h) = Levels(leaves, h)
         /\ RootOf(Padded(leaves, h), h) = RootOf(leaves, h)
         /\ \A i : PathOf(Padded(leaves, h), h, i) = PathOf(leaves, h, i)
<1>1. TwoTo[h] \in Nat
  BY TwoToValues
<1>2. Padded(Padded(leaves, h), h) = Padded(leaves, h) /\ Len(Padded(leaves, h)) = TwoTo[h]
  BY <1>1 DEF Padded
<1>3. Levels(Padded(leaves, h), h) = Levels(leaves, h)
  BY <1>2 DEF Levels
<1> QED BY <1>2, <1>3 DEF RootOf, PathOf

-----------------------------------------------------------------------------
(* The invariant *)

TreesOK ==
  /\ tree \in [Trees -> [height : Nat, leaves : Seq(Leaves), final : BOOLEAN]]
  /\ \A t \in Trees : Exists(t) => tree[t].height \in 1..MaxHeight

(* A path that a tree gave is the one of the index that was asked for: a   *)
(* negative index does not come out as that of a leaf.                     *)
PathOK ==
  /\ Len(path.steps) \in Nat
  /\ path.index # -1 =>
       /\ Len(path.steps) \in 1..MaxHeight
       /\ path.index \in 0..(TwoTo[Len(path.steps)] - 1)
       /\ path.leaves = Padded(path.leaves, Len(path.steps))
       /\ path.steps = PathOf(path.leaves, Len(path.steps), path.index)

(* What the last call answered is still about the path.                    *)
LastOK ==
  /\ last.op = "verify" /\ last.answer = TRUE =>
       /\ last.args[1] \in Heights
       /\ Len(path.steps) = AsU64(last.args[1])
       /\ RootFromPath(path.steps, last.args[2]) = last.args[3]
  /\ last.op = "verifyWithoutLengthCheck" /\ last.answer = TRUE =>
       RootFromPath(path.steps, last.args[1]) = last.args[2]
  /\ last.op = "ask" =>
       last.answer = [leftmost |-> Leftmost(path.steps), rightmost |-> Rightmost(path.steps),
                      rightEmpty |-> RightEmpty(path.steps), index |-> IndexOf(path.steps)]

IInv == TreesOK /\ PathOK /\ LastOK

(* Conversions from the signed numbers of Java: one that is not negative    *)
(* is kept, a negative one becomes a number beyond every tree.              *)
LEMMA Unsigned ==
  ASSUME NEW n \in Indices \cup Heights
  PROVE  /\ n \in Int /\ AsU64(n) \in Nat
         /\ 0 <= n => AsU64(n) = n
         /\ \A h \in 0..MaxHeight : AsU64(n) < TwoTo[h] => AsU64(n) = n
<1>1. n \in Int /\ -U64 <= 2 * n /\ 2 * n < U64 /\ U64 \in Nat /\ MaxHeight \in Nat
  BY MerkleAssumption
<1>2. U64 > 2
  BY <1>1, MerkleAssumption, TwoToValues
<1>3. 0 <= n => n % U64 = n
  BY <1>1, <1>2
<1>4. n < 0 => n % U64 = n + U64
  BY <1>1, <1>2
<1>5. ASSUME NEW h \in 0..MaxHeight, n < 0
      PROVE  ~(AsU64(n) < TwoTo[h])
  <2>1. TwoTo[h] \in Nat /\ U64 > 2 * TwoTo[h]
    BY MerkleAssumption, TwoToValues
  <2> QED BY <1>1, <1>4, <1>5, <2>1 DEF AsU64
<1> QED BY <1>1, <1>2, <1>3, <1>4, <1>5 DEF AsU64

(* The length of a function on 1..n.                                        *)
LEMMA LengthIs ==
  ASSUME NEW s, NEW n \in Nat, s = [k \in 1..n |-> s[k]]
  PROVE  Len(s) = n
<1> DEFINE f == [k \in 1..n |-> s[k]]
<1>1. Len(f) = n
  OBVIOUS
<1> QED BY <1>1

(* What is received in place of a path of a tree is a sequence too.        *)
LEMMA ReceivedLength ==
  ASSUME PathOK, path.index # -1, NEW s \in Received(path.steps)
  PROVE  Len(s) \in Nat
<1> DEFINE P == path.steps
           h == Len(P)
<1>1. h \in Nat \ {0} /\ P = PathOf(path.leaves, h, path.index)
  BY DEF PathOK
<1>2. P \in Seq({P[k] : k \in 1..h}) /\ P = [k \in 1..h |-> P[k]] /\ DOMAIN P = 1..h
  <2> HIDE DEF h
  <2>1. \E f : P = [k \in 1..h |-> f[k]]
    <3> DEFINE g == PathOf(path.leaves, h, path.index)
    <3>1. g = [k \in 1..h |-> g[k]]
      BY DEF PathOf
    <3> QED BY <1>1, <3>1
  <2> HIDE DEF P
  <2> QED BY <1>1, <2>1
<1> HIDE DEF P
<1>3. Len(Tail(P)) \in Nat
  BY <1>1, <1>2
<1>4. Len(Append(P, [sibling |-> Zero, right |-> FALSE])) \in Nat
  BY <1>1, <1>2
<1>5. ASSUME NEW k \in DOMAIN P, NEW v
      PROVE  Len([P EXCEPT ![k].sibling = v]) \in Nat
  <2> DEFINE e == [P EXCEPT ![k].sibling = v]
  <2>1. e = [m \in 1..h |-> e[m]]
    BY <1>2
  <2> HIDE DEF e, h
  <2> QED BY <1>1, <2>1, LengthIs DEF e
<1>6. ASSUME NEW k \in DOMAIN P
      PROVE  Len([P EXCEPT ![k].right = ~@]) \in Nat
  <2> DEFINE e == [P EXCEPT ![k].right = ~@]
  <2>1. e = [m \in 1..h |-> e[m]]
    BY <1>2
  <2> HIDE DEF e, h
  <2> QED BY <1>1, <2>1, LengthIs DEF e
<1>7. s \in Received(P)
  BY DEF P
<1> QED BY <1>3, <1>4, <1>5, <1>6, <1>7 DEF Received

THEOREM InitInvariant == Init => IInv
<1> SUFFICES ASSUME Init PROVE IInv
  OBVIOUS
<1>1. TreesOK
  BY DEF Init, TreesOK, NoTree, Exists
<1>2. PathOK /\ LastOK
  BY DEF Init, PathOK, LastOK, NoPath
<1> QED BY <1>1, <1>2 DEF IInv

(* One tree gets another value.                                            *)
LEMMA TreeUpdate ==
  ASSUME TreesOK, NEW t \in Trees,
         NEW r \in [height : Nat, leaves : Seq(Leaves), final : BOOLEAN],
         r.height \in 1..MaxHeight \/ r = NoTree,
         tree' = [tree EXCEPT ![t] = r]
  PROVE  TreesOK'
<1>1. tree' \in [Trees -> [height : Nat, leaves : Seq(Leaves), final : BOOLEAN]]
  BY DEF TreesOK
<1>2. ASSUME NEW u \in Trees, tree'[u] # NoTree
      PROVE  tree'[u].height \in 1..MaxHeight
  BY <1>2 DEF TreesOK, Exists
<1> QED BY <1>1, <1>2 DEF TreesOK, Exists

LEMMA TreeThatExists ==
  ASSUME TreesOK, NEW t \in Trees, Exists(t)
  PROVE  /\ tree[t] \in [height : Nat, leaves : Seq(Leaves), final : BOOLEAN]
         /\ tree[t].height \in 1..MaxHeight
BY DEF TreesOK

THEOREM TreeStep ==
  ASSUME IInv, NEW t \in Trees, TreeCall(t)
  PROVE  IInv'
<1>1. TreesOK /\ PathOK /\ LastOK
  BY DEF IInv
<1>2. ASSUME NEW h \in Heights, InitTree(t, h) \/ InitFails(t, h)
      PROVE  IInv'
  <2>1. AsU64(h) \in Nat
    BY Unsigned
  <2>2. TreesOK'
    <3> DEFINE r == [height |-> AsU64(h), leaves |-> <<>>, final |-> FALSE]
    <3>1. CASE InitTree(t, h)
      <4>1. r \in [height : Nat, leaves : Seq(Leaves), final : BOOLEAN] /\ r.height \in 1..MaxHeight
        BY <2>1, <3>1 DEF InitTree
      <4>2. tree' = [tree EXCEPT ![t] = r]
        BY <3>1 DEF InitTree
      <4> HIDE DEF r
      <4> QED BY <1>1, <4>1, <4>2, TreeUpdate
    <3>2. CASE InitFails(t, h)
      BY <1>1, <3>2 DEF InitFails, TreesOK, Exists
    <3> QED BY <1>2, <3>1, <3>2
  <2>3. PathOK' /\ LastOK'
    BY <1>1, <1>2 DEF InitTree, InitFails, PathOK, LastOK, Answers
  <2> QED BY <2>2, <2>3 DEF IInv
<1>3. ASSUME NEW x \in Leaves, AppendLeaf(t, x) \/ AppendFails(t, x)
      PROVE  IInv'
  <2>1. ASSUME AppendLeaf(t, x)
        PROVE  TreesOK'
    <3> DEFINE r == [tree[t] EXCEPT !.leaves = Append(@, x)]
    <3>1. tree' = [tree EXCEPT ![t] = r]
      BY <2>1 DEF AppendLeaf
    <3>2. r \in [height : Nat, leaves : Seq(Leaves), final : BOOLEAN] /\ r.height \in 1..MaxHeight
      <4>1. Append(tree[t].leaves, x) \in Seq(Leaves)
        BY <1>1, <1>3, <2>1, TreeThatExists DEF AppendLeaf
      <4>2. /\ tree[t] \in [height : Nat, leaves : Seq(Leaves), final : BOOLEAN]
            /\ tree[t].height \in 1..MaxHeight
        BY <1>1, <2>1, TreeThatExists DEF AppendLeaf
      <4>3. \A l \in Seq(Leaves) :
              LET e == [tree[t] EXCEPT !.leaves = l] IN
              /\ e \in [height : Nat, leaves : Seq(Leaves), final : BOOLEAN]
              /\ e.height = tree[t].height
        BY <4>2
      <4> QED BY <4>1, <4>2, <4>3
    <3> HIDE DEF r
    <3> QED BY <1>1, <3>1, <3>2, TreeUpdate
  <2>2. ASSUME AppendFails(t, x)
        PROVE  TreesOK'
    BY <1>1, <2>2 DEF AppendFails, TreesOK, Exists
  <2>3. PathOK' /\ LastOK'
    BY <1>1, <1>3 DEF AppendLeaf, AppendFails, PathOK, LastOK, Answers
  <2> QED BY <1>3, <2>1, <2>2, <2>3 DEF IInv
<1>4. ASSUME NEW u \in Trees, FinalizeTree(t, u)
      PROVE  IInv'
  <2> DEFINE r == [tree[t] EXCEPT !.final = TRUE]
  <2>1. tree' = [tree EXCEPT ![u] = r]
    BY <1>4 DEF FinalizeTree
  <2>2. r \in [height : Nat, leaves : Seq(Leaves), final : BOOLEAN] /\ r.height \in 1..MaxHeight
    BY <1>1, <1>4, TreeThatExists DEF FinalizeTree
  <2> HIDE DEF r
  <2>3. TreesOK'
    BY <1>1, <2>1, <2>2, TreeUpdate
  <2>4. PathOK' /\ LastOK'
    BY <1>1, <1>4 DEF FinalizeTree, PathOK, LastOK, Answers
  <2> QED BY <2>3, <2>4 DEF IInv
<1>5. ASSUME FinalizeTreeInPlace(t) \/ ResetTree(t) \/ FreeTree(t)
      PROVE  IInv'
  <2>1. ASSUME FinalizeTreeInPlace(t)
        PROVE  TreesOK'
    <3> DEFINE r == [tree[t] EXCEPT !.final = TRUE]
    <3>1. tree' = [tree EXCEPT ![t] = r]
      BY <2>1 DEF FinalizeTreeInPlace
    <3>2. r \in [height : Nat, leaves : Seq(Leaves), final : BOOLEAN] /\ r.height \in 1..MaxHeight
      BY <1>1, <2>1, TreeThatExists DEF FinalizeTreeInPlace
    <3> HIDE DEF r
    <3> QED BY <1>1, <3>1, <3>2, TreeUpdate
  <2>2. ASSUME ResetTree(t)
        PROVE  TreesOK'
    <3> DEFINE r == [tree[t] EXCEPT !.leaves = <<>>, !.final = FALSE]
    <3>1. tree' = [tree EXCEPT ![t] = r]
      BY <1>1, <2>2 DEF ResetTree, TreesOK
    <3>2. r \in [height : Nat, leaves : Seq(Leaves), final : BOOLEAN] /\ r.height \in 1..MaxHeight
      <4>1. <<>> \in Seq(Leaves)
        OBVIOUS
      <4> QED BY <1>1, <2>2, <4>1, TreeThatExists DEF ResetTree
    <3> HIDE DEF r
    <3> QED BY <1>1, <3>1, <3>2, TreeUpdate
  <2>3. ASSUME FreeTree(t)
        PROVE  TreesOK'
    <3>1. NoTree \in [height : Nat, leaves : Seq(Leaves), final : BOOLEAN]
      BY DEF NoTree
    <3> QED BY <1>1, <2>3, <3>1, TreeUpdate DEF FreeTree
  <2>4. PathOK' /\ LastOK'
    BY <1>1, <1>5 DEF FinalizeTreeInPlace, ResetTree, FreeTree, PathOK, LastOK, Answers
  <2> QED BY <1>5, <2>1, <2>2, <2>3, <2>4 DEF IInv
<1>6. ASSUME Root(t) \/ \E i \in Indices : GetMerklePathFails(t, i)
      PROVE  IInv'
  <2>1. TreesOK'
    BY <1>1, <1>6 DEF Root, GetMerklePathFails, TreesOK, Exists
  <2>2. PathOK' /\ LastOK'
    BY <1>1, <1>6 DEF Root, GetMerklePathFails, PathOK, LastOK, Answers
  <2> QED BY <2>1, <2>2 DEF IInv
<1>7. ASSUME NEW i \in Indices, GetMerklePath(t, i)
      PROVE  IInv'
  <2> DEFINE h == tree[t].height
             F == Padded(tree[t].leaves, h)
  <2>1. h \in 1..MaxHeight /\ h \in Nat
    BY <1>1, <1>7 DEF TreesOK, GetMerklePath
  <2>2. AsU64(i) = i /\ i \in 0..(TwoTo[h] - 1)
    <3>1. AsU64(i) < TwoTo[h] /\ TwoTo[h] \in Nat
      BY <1>7, <2>1, TwoToValues DEF GetMerklePath
    <3>2. AsU64(i) = i /\ AsU64(i) \in Nat
      BY <2>1, <3>1, Unsigned, MerkleAssumption
    <3> QED BY <3>1, <3>2
  <2>3. path' = [steps |-> PathOf(tree[t].leaves, h, i), leaves |-> F, index |-> i]
    BY <1>7, <2>2 DEF GetMerklePath
  <2>4. Len(path'.steps) = h
    BY <2>1, <2>3, PathLength
  <2>5. F = Padded(F, h) /\ PathOf(F, h, i) = PathOf(tree[t].leaves, h, i)
    BY <2>1, FilledBefore
  <2> HIDE DEF h, F
  <2>6. PathOK'
    BY <2>1, <2>2, <2>3, <2>4, <2>5 DEF PathOK
  <2>7. TreesOK' /\ LastOK'
    BY <1>1, <1>7 DEF GetMerklePath, TreesOK, Exists, LastOK, Answers
  <2> QED BY <2>6, <2>7 DEF IInv
<1> QED BY <1>2, <1>3, <1>4, <1>5, <1>6, <1>7 DEF TreeCall

THEOREM PathStep ==
  ASSUME IInv, PathCall
  PROVE  IInv'
<1>1. TreesOK /\ PathOK /\ LastOK
  BY DEF IInv
<1>2. ASSUME path.index # -1, NEW s \in Received(path.steps), NEW checked \in BOOLEAN,
             Deserialize(s, checked)
      PROVE  IInv'
  <2>1. Len(s) \in Nat
    BY <1>1, <1>2, ReceivedLength
  <2>2. PathOK'
    BY <1>2, <2>1 DEF Deserialize, PathOK
  <2>3. TreesOK' /\ LastOK'
    BY <1>1, <1>2 DEF Deserialize, TreesOK, Exists, LastOK, Answers
  <2> QED BY <2>2, <2>3 DEF IInv
<1>3. ASSUME NEW s, DeserializeFails(s)
      PROVE  IInv'
  BY <1>1, <1>3 DEF IInv, DeserializeFails, TreesOK, Exists, PathOK, LastOK, Answers
<1>4. ASSUME NEW leaf, NEW root, NEW h \in Heights, Verify(h, leaf, root)
      PROVE  IInv'
  BY <1>1, <1>4 DEF IInv, Verify, TreesOK, Exists, PathOK, LastOK, Answers
<1>5. ASSUME NEW leaf, NEW root, VerifyWithoutLengthCheck(leaf, root)
      PROVE  IInv'
  BY <1>1, <1>5 DEF IInv, VerifyWithoutLengthCheck, TreesOK, Exists, PathOK, LastOK, Answers
<1>6. ASSUME NEW leaf, Apply(leaf)
      PROVE  IInv'
  BY <1>1, <1>6 DEF IInv, Apply, TreesOK, Exists, PathOK, LastOK, Answers
<1>7. ASSUME Ask
      PROVE  IInv'
  <2>1. TreesOK' /\ PathOK'
    BY <1>1, <1>7 DEF Ask, TreesOK, Exists, PathOK
  <2>2. /\ last' = [op |-> "ask", args |-> <<>>,
                    answer |-> [leftmost |-> Leftmost(path.steps), rightmost |-> Rightmost(path.steps),
                                rightEmpty |-> RightEmpty(path.steps), index |-> IndexOf(path.steps)]]
        /\ path' = path
    BY <1>7 DEF Ask, Answers
  <2>3. LastOK'
    BY <2>2 DEF LastOK
  <2> QED BY <2>1, <2>3 DEF IInv
<1> QED BY <1>2, <1>3, <1>4, <1>5, <1>6, <1>7 DEF PathCall

THEOREM Invariance == Spec => []IInv
<1>1. IInv /\ [Next]_vars => IInv'
  <2> SUFFICES ASSUME IInv, [Next]_vars PROVE IInv'
    OBVIOUS
  <2>1. CASE Next
    BY <2>1, TreeStep, PathStep DEF Next
  <2>2. CASE UNCHANGED vars
    BY <2>2 DEF vars, IInv, TreesOK, Exists, PathOK, LastOK
  <2> QED BY <2>1, <2>2
<1> QED BY <1>1, InitInvariant, PTL DEF Spec

-----------------------------------------------------------------------------
(* The theorems *)

(* Whatever path was received and whatever value is claimed to be a leaf,  *)
(* nativeVerify with the height of a tree answers true only for the leaf   *)
(* of that tree at the index the path tells, and without the height only   *)
(* for the node at the place the path leads to.                            *)
THEOREM Soundness == Spec => []VerifySound
<1>1. IInv => VerifySound
  <2> SUFFICES ASSUME IInv PROVE VerifySound
    OBVIOUS
  <2>1. Len(path.steps) \in Nat
    BY DEF IInv, PathOK
  <2>2. ASSUME last.op = "verify", last.answer = TRUE, NEW t \in Trees,
               tree[t].final, tree[t].height = last.args[1],
               RootOf(tree[t].leaves, tree[t].height) = last.args[3]
        PROVE  Padded(tree[t].leaves, tree[t].height)[IndexOf(path.steps) + 1] = last.args[2]
    <3>1. /\ last.args[1] \in Heights
          /\ Len(path.steps) = AsU64(last.args[1])
          /\ RootFromPath(path.steps, last.args[2]) = last.args[3]
      BY <2>2 DEF IInv, LastOK
    <3>2. tree[t].height \in Nat
      BY DEF IInv, TreesOK
    <3>3. Len(path.steps) = tree[t].height
      BY <2>2, <3>1, <3>2, Unsigned
    <3>4. RootFromPath(path.steps, last.args[2]) = RootOf(tree[t].leaves, Len(path.steps))
      BY <2>2, <3>1, <3>3
    <3>5. last.args[2] = Padded(tree[t].leaves, Len(path.steps))[IndexOf(path.steps) + 1]
      BY <2>1, <3>4, PathInTree
    <3> QED BY <3>3, <3>5
  <2>3. ASSUME last.op = "verifyWithoutLengthCheck", last.answer = TRUE
        PROVE  SubtreeAt(last.args[2], path.steps) = last.args[1]
    <3>1. RootFromPath(path.steps, last.args[1]) = last.args[2]
      BY <2>3 DEF IInv, LastOK
    <3> QED BY <2>1, <3>1, DownIsBack
  <2> QED BY <2>2, <2>3 DEF VerifySound
<1> QED BY <1>1, Invariance, PTL

(* The path of a leaf, also after its tree was reset, filled again or      *)
(* freed, leads from it to the root the tree had, and what it is asked     *)
(* about its position is what the leaves of that tree say.                 *)
THEOREM Completeness == Spec => []PathsFaithful
<1>1. IInv => PathsFaithful
  <2> SUFFICES ASSUME IInv, path.index # -1
               PROVE  LET n == Len(path.leaves)  i == path.index + 1 IN
                      /\ TwoTo[Len(path.steps)] = n
                      /\ RootFromPath(path.steps, path.leaves[i]) = RootOf(path.leaves, Len(path.steps))
                      /\ last.op = "ask" =>
                           last.answer = [leftmost |-> i = 1, rightmost |-> i = n, index |-> i - 1,
                                          rightEmpty |-> \A j \in (i + 1)..n : path.leaves[j] = Zero]
    BY DEF PathsFaithful
  <2> DEFINE h == Len(path.steps)
             x == path.index
             F == path.leaves
             P == path.steps
             n == Len(F)
  <2>1. h \in Nat /\ x \in 0..(TwoTo[h] - 1) /\ F = Padded(F, h) /\ P = PathOf(F, h, x)
    BY DEF IInv, PathOK
  <2>2. last.op = "ask" =>
          last.answer = [leftmost |-> Leftmost(P), rightmost |-> Rightmost(P),
                         rightEmpty |-> RightEmpty(P), index |-> IndexOf(P)]
    BY DEF IInv, LastOK
  <2> HIDE DEF h, x, F, P
  <2>3. TwoTo[h] \in Nat /\ x \in Nat
    BY <2>1, TwoToValues
  <2>4. TwoTo[h] = n
    BY <2>1, FilledBefore
  <2>5. RootFromPath(P, F[x + 1]) = RootOf(F, h)
    BY <2>1, PathLeadsToRoot
  <2>6. IndexOf(P) = (x + 1) - 1
    BY <2>1, <2>3, PathIndex
  <2>7. Leftmost(P) <=> x + 1 = 1
    BY <2>1, <2>3, PathOfTheEnds
  <2>8. Rightmost(P) <=> x + 1 = n
    <3>1. Rightmost(P) <=> x = TwoTo[h] - 1
      BY <2>1, PathOfTheEnds
    <3> QED BY <2>3, <2>4, <3>1
  <2>9. RightEmpty(P) <=> \A j \in ((x + 1) + 1)..n : F[j] = Zero
    <3>1. RightEmpty(P) <=> \A j \in (x + 2)..TwoTo[h] : Padded(F, h)[j] = Zero
      BY <2>1, PathRightEmpty
    <3>2. (x + 1) + 1 = x + 2
      BY <2>3
    <3> QED BY <2>1, <2>4, <3>1, <3>2
  <2>10. /\ Leftmost(P) = (x + 1 = 1)
         /\ Rightmost(P) = (x + 1 = n)
         /\ RightEmpty(P) = (\A j \in ((x + 1) + 1)..n : F[j] = Zero)
    BY <2>7, <2>8, <2>9 DEF Leftmost, Rightmost, RightEmpty
  <2>11. last.op = "ask" =>
           last.answer = [leftmost |-> x + 1 = 1, rightmost |-> x + 1 = n, index |-> (x + 1) - 1,
                          rightEmpty |-> \A j \in ((x + 1) + 1)..n : F[j] = Zero]
    BY <2>2, <2>6, <2>10
  <2> QED BY <2>4, <2>5, <2>11 DEF h, x, F, P
<1> QED BY <1>1, Invariance, PTL

(* A finalized tree keeps its root, and one that is not its leaves, until  *)
(* it is itself appended to, finalized, reset or freed: what is done to    *)
(* its copies, its original and the paths does not reach it.               *)
THEOREM Independence == Spec => TreesIndependent
<1> DEFINE Changed(t) ==
             /\ last'.args[1] = t
             /\ tree[t].final => last'.op \in {"reset", "free"}
             /\ last'.op \in {"append", "finalizeInPlace", "reset", "free"}
           Step == \A t \in Trees : Exists(t) /\ tree'[t] # tree[t] => Changed(t)
<1>1. ASSUME TreesOK, NEW u \in Trees, TreeCall(u)
      PROVE  Step
  <2> SUFFICES ASSUME NEW t \in Trees, Exists(t), tree'[t] # tree[t]
               PROVE  Changed(t)
    OBVIOUS
  <2>1. tree[t] \in [height : Nat, leaves : Seq(Leaves), final : BOOLEAN]
    BY <1>1 DEF TreesOK
  <2>2. DOMAIN tree = Trees
    BY <1>1 DEF TreesOK
  <2>3. ASSUME NEW h \in Heights, InitTree(u, h) \/ InitFails(u, h)
        PROVE  FALSE
    BY <2>2, <2>3 DEF InitTree, InitFails, Exists
  <2>4. ASSUME NEW x \in Leaves, AppendLeaf(u, x) \/ AppendFails(u, x)
        PROVE  Changed(t)
    <3>1. tree' = [tree EXCEPT ![u].leaves = Append(@, x)] /\ HasRoom(u)
      BY <2>4 DEF AppendLeaf, AppendFails
    <3>2. t = u
      BY <2>2, <3>1
    <3>3. last'.args[1] = u /\ last'.op = "append"
      BY <2>4, <3>1 DEF AppendLeaf, AppendFails, Answers
    <3> QED BY <3>1, <3>2, <3>3 DEF HasRoom
  <2>5. ASSUME NEW v \in Trees, FinalizeTree(u, v)
        PROVE  FALSE
    BY <2>2, <2>5 DEF FinalizeTree, Exists
  <2>6. ASSUME FinalizeTreeInPlace(u)
        PROVE  Changed(t)
    <3>1. tree' = [tree EXCEPT ![u].final = TRUE]
      BY <2>6 DEF FinalizeTreeInPlace
    <3>2. t = u
      BY <2>2, <3>1
    <3>3. tree'[t] = [tree[t] EXCEPT !.final = TRUE]
      BY <2>2, <3>1, <3>2
    <3>4. ~tree[t].final
      BY <2>1, <3>3
    <3>5. last'.args[1] = u /\ last'.op = "finalizeInPlace"
      BY <2>6 DEF FinalizeTreeInPlace, Answers
    <3> QED BY <3>2, <3>4, <3>5
  <2>7. ASSUME ResetTree(u)
        PROVE  Changed(t)
    <3>1. t = u
      BY <2>2, <2>7 DEF ResetTree
    <3>2. last'.args[1] = u /\ last'.op = "reset"
      BY <2>7 DEF ResetTree, Answers
    <3> QED BY <3>1, <3>2
  <2>8. ASSUME FreeTree(u)
        PROVE  Changed(t)
    <3>1. t = u
      BY <2>2, <2>8 DEF FreeTree
    <3>2. last'.args[1] = u /\ last'.op = "free"
      BY <2>8 DEF FreeTree, Answers
    <3> QED BY <3>1, <3>2
  <2>9. ASSUME \/ Root(u)
               \/ \E i \in Indices : GetMerklePath(u, i) \/ GetMerklePathFails(u, i)
        PROVE  FALSE
    BY <2>9 DEF Root, GetMerklePath, GetMerklePathFails
  <2> HIDE DEF Changed
  <2> QED BY <1>1, <2>3, <2>4, <2>5, <2>6, <2>7, <2>8, <2>9 DEF TreeCall
<1>2. ASSUME PathCall
      PROVE  tree' = tree
  BY <1>2 DEF PathCall, Deserialize, DeserializeFails, Verify, VerifyWithoutLengthCheck, Apply, Ask
<1>3. IInv /\ [Next]_vars => [Step]_vars
  <2> SUFFICES ASSUME IInv, Next PROVE Step
    BY DEF vars
  <2>1. TreesOK
    BY DEF IInv
  <2>2. CASE PathCall
    BY <1>2, <2>2
  <2>3. CASE \E t \in Trees : TreeCall(t)
    <3> HIDE DEF Step
    <3> QED BY <1>1, <2>1, <2>3
  <2> QED BY <2>2, <2>3 DEF Next
<1> QED BY <1>3, Invariance, PTL DEF Spec, TreesIndependent
==============================================================================
