----------------------------- MODULE MerkleTree -----------------------------
(***************************************************************************)
(* Merkle trees and paths.  A tree of a given height is filled from the    *)
(* left, the missing leaves being zero; it is finalized in place or into a *)
(* copy, gives its root and the paths of its leaves, and is reset.  A path *)
(* is a Java object of its own: it outlives the tree, it is serialized,    *)
(* and what is deserialized may be any path.                               *)
(*                                                                         *)
(* A call is one step.  Calls that overlap and freed handles are the       *)
(* subject of NativeHandles.                                               *)
(***************************************************************************)
EXTENDS Integers, Sequences

CONSTANTS
  Trees,          \* Java tree objects
  Leaves,         \* field elements that are appended
  Zero,           \* the leaf that stands for a missing one
  Invalid,        \* deserialized without checks: not an element of the field
  Heights,        \* heights asked for, as jint
  MaxHeight,      \* the greatest height init accepts
  Indices,        \* leaf indices asked for, as jlong
  Null,           \* in place of an object
  Foreign,        \* whether paths from elsewhere are deserialized
  U64             \* number of values of a u64 (and of a usize)

(* A recursive function for 2 ^ n, whose equation can be used in proofs.     *)
TwoTo[n \in Nat] == IF n = 0 THEN 1 ELSE 2 * TwoTo[n - 1]

ASSUME MerkleAssumption ==
  /\ MaxHeight \in Nat
  /\ Foreign \in BOOLEAN
  /\ Heights \subseteq Int /\ Indices \subseteq Int
  /\ U64 \in Nat /\ \A h \in 0..MaxHeight : U64 > 2 * TwoTo[h]
  /\ \A i \in Indices : -U64 <= 2 * i /\ 2 * i < U64
  /\ \A h \in Heights : -U64 <= 2 * h /\ 2 * h < U64

VARIABLES
  tree,           \* the native value of each tree object
  path,           \* the native value of the one path object in use
  last            \* the last call: what it was given and what it answered

vars == <<tree, path, last>>

NoTree == [height |-> 0, leaves |-> <<>>, final |-> FALSE]
NoPath == [steps |-> <<>>, leaves |-> <<>>, index |-> -1]

AsU64(n) == n % U64

------------------------------------------------------------------------------
(* The library of trees, with an ideal hash: an inner node is the pair of   *)
(* its children.                                                            *)

(* The nodes of one level, given those of the level below it. *)
Parents(nodes) ==
  [i \in 1..(Len(nodes) \div 2) |-> <<nodes[2 * i - 1], nodes[2 * i]>>]

Padded(leaves, h) ==
  [i \in 1..TwoTo[h] |-> IF i \in DOMAIN leaves THEN leaves[i] ELSE Zero]

(* All nodes of a tree, level by level from the leaves. *)
Levels(leaves, h) ==
  LET level[k \in 0..h] ==
        IF k = 0 THEN Padded(leaves, h) ELSE Parents(level[k - 1])
  IN  level

RootOf(leaves, h) == Levels(leaves, h)[h][1]

(* The sibling on each level, and whether the node on the path is the right *)
(* one of the two.                                                          *)
PathOf(leaves, h, i) ==
  [k \in 1..h |->
     LET n == i \div TwoTo[k - 1] IN
     [sibling |-> Levels(leaves, h)[k - 1][IF n % 2 = 0 THEN n + 2 ELSE n],
      right |-> n % 2 = 1]]

Up(node, step) ==
  IF step.right THEN <<step.sibling, node>> ELSE <<node, step.sibling>>

(* The nodes from a leaf up along a path. *)
Climb(steps, leaf) ==
  LET node[k \in 0..Len(steps)] ==
        IF k = 0 THEN leaf ELSE Up(node[k - 1], steps[k])
  IN  node

RootFromPath(steps, leaf) == Climb(steps, leaf)[Len(steps)]

IsValid(steps) == \A k \in DOMAIN steps : steps[k].sibling # Invalid

(* A node of level k with nothing but missing leaves below it. *)
EmptyNode(h, k) == Levels(<<>>, h)[k][1]

------------------------------------------------------------------------------

Init ==
  /\ tree = [t \in Trees |-> NoTree]
  /\ path = NoPath
  /\ last = [op |-> "none", answer |-> Null]

Exists(t) == tree[t] # NoTree

Answers(op, args, a) == last' = [op |-> op, args |-> args, answer |-> a]

(* nativeInit: an error is answered with null. *)
InitTree(t, h) ==
  /\ ~Exists(t)
  /\ AsU64(h) \in 1..MaxHeight
  /\ tree' = [tree EXCEPT ![t] = [height |-> AsU64(h), leaves |-> <<>>, final |-> FALSE]]
  /\ Answers("init", <<t>>, t)
  /\ UNCHANGED path

InitFails(t, h) ==
  /\ ~Exists(t)
  /\ AsU64(h) \notin 1..MaxHeight
  /\ Answers("init", <<t>>, Null)
  /\ UNCHANGED <<tree, path>>

HasRoom(t) == ~tree[t].final /\ Len(tree[t].leaves) < TwoTo[tree[t].height]

(* nativeAppend: no room, or the tree was finalized: false. *)
AppendLeaf(t, x) ==
  /\ Exists(t)
  /\ HasRoom(t)
  /\ tree' = [tree EXCEPT ![t].leaves = Append(@, x)]
  /\ Answers("append", <<t>>, TRUE)
  /\ UNCHANGED path

AppendFails(t, x) ==
  /\ Exists(t)
  /\ ~HasRoom(t)
  /\ Answers("append", <<t>>, FALSE)
  /\ UNCHANGED <<tree, path>>

(* Mutant: the original is finalized along with its copy. *)
FinalizeBoth(t, u) ==
  /\ Exists(t) /\ ~Exists(u)
  /\ tree' = [tree EXCEPT ![t].final = TRUE, ![u] = [tree[t] EXCEPT !.final = TRUE]]
  /\ Answers("finalize", <<t>>, u)
  /\ UNCHANGED path

(* nativeFinalize: a finalized copy. *)
FinalizeTree(t, u) ==
  /\ Exists(t) /\ ~Exists(u)
  /\ tree' = [tree EXCEPT ![u] = [tree[t] EXCEPT !.final = TRUE]]
  /\ Answers("finalize", <<t>>, u)
  /\ UNCHANGED path

(* nativeFinalizeInPlace *)
FinalizeTreeInPlace(t) ==
  /\ Exists(t)
  /\ tree' = [tree EXCEPT ![t].final = TRUE]
  /\ Answers("finalizeInPlace", <<t>>, TRUE)
  /\ UNCHANGED path

(* nativeRoot: null for a tree that is not finalized. *)
Root(t) ==
  /\ Exists(t)
  /\ Answers("root", <<t>>, IF tree[t].final THEN RootOf(tree[t].leaves, tree[t].height) ELSE Null)
  /\ UNCHANGED <<tree, path>>

(* Mutant: indices are taken to start at 1. *)
GetMerklePathFromOne(t, i) ==
  LET n == AsU64(i - 1)  T == tree[t] IN
  /\ Exists(t)
  /\ T.final /\ n < TwoTo[T.height] /\ AsU64(i) < TwoTo[T.height]
  /\ path' = [steps |-> PathOf(T.leaves, T.height, n),
              leaves |-> Padded(T.leaves, T.height), index |-> i]
  /\ Answers("getMerklePath", <<t, i>>, TRUE)
  /\ UNCHANGED tree

(* nativeGetMerklePath.  The path remembers what it was asked for, for the  *)
(* properties.                                                              *)
GetMerklePath(t, i) ==
  LET n == AsU64(i)  T == tree[t] IN
  /\ Exists(t)
  /\ T.final /\ n < TwoTo[T.height]
  /\ path' = [steps |-> PathOf(T.leaves, T.height, n),
              leaves |-> Padded(T.leaves, T.height), index |-> i]
  /\ Answers("getMerklePath", <<t, i>>, TRUE)
  /\ UNCHANGED tree

GetMerklePathFails(t, i) ==
  /\ Exists(t)
  /\ ~(tree[t].final /\ AsU64(i) < TwoTo[tree[t].height])
  /\ Answers("getMerklePath", <<t, i>>, Null)
  /\ UNCHANGED <<tree, path>>

(* nativeReset *)
ResetTree(t) ==
  /\ Exists(t)
  /\ tree' = [tree EXCEPT ![t].leaves = <<>>, ![t].final = FALSE]
  /\ Answers("reset", <<t>>, TRUE)
  /\ UNCHANGED path

FreeTree(t) ==
  /\ Exists(t)
  /\ tree' = [tree EXCEPT ![t] = NoTree]
  /\ Answers("free", <<t>>, TRUE)
  /\ UNCHANGED path

------------------------------------------------------------------------------
(* Paths. *)

HasPath == path # NoPath

(* The bytes of any path: of one of another tree or of an inner node, with  *)
(* a step too many, or with a sibling that is no field element.             *)
Received(steps) ==
  {Tail(steps), Append(steps, [sibling |-> Zero, right |-> FALSE])}
  \cup {[steps EXCEPT ![k].sibling = v] : k \in DOMAIN steps, v \in {Zero, Invalid}}
  \cup {[steps EXCEPT ![k].right = ~@] : k \in DOMAIN steps}

(* nativeDeserialize: null when the semantic checks are asked for and fail. *)
Deserialize(steps, checked) ==
  /\ steps # <<>>
  /\ checked => IsValid(steps)
  /\ path' = [steps |-> steps, leaves |-> <<>>, index |-> -1]
  /\ Answers("deserialize", <<checked>>, TRUE)
  /\ UNCHANGED tree

DeserializeFails(steps) ==
  /\ ~IsValid(steps)
  /\ Answers("deserialize", <<TRUE>>, Null)
  /\ UNCHANGED <<tree, path>>

(* Mutant: the height is not compared with the length of the path. *)
VerifyAnyLength(h, leaf, root) ==
  /\ HasPath
  /\ Answers("verify", <<h, leaf, root>>,
       IsValid(path.steps) /\ RootFromPath(path.steps, leaf) = root)
  /\ UNCHANGED <<tree, path>>

(* nativeVerify: an invalid path or one of another length is refused. *)
Verify(h, leaf, root) ==
  /\ HasPath
  /\ Answers("verify", <<h, leaf, root>>,
       /\ IsValid(path.steps)
       /\ Len(path.steps) = AsU64(h)
       /\ RootFromPath(path.steps, leaf) = root)
  /\ UNCHANGED <<tree, path>>

(* nativeVerifyWithoutLengthCheck *)
VerifyWithoutLengthCheck(leaf, root) ==
  /\ HasPath
  /\ Answers("verifyWithoutLengthCheck", <<leaf, root>>,
       IsValid(path.steps) /\ RootFromPath(path.steps, leaf) = root)
  /\ UNCHANGED <<tree, path>>

(* nativeApply *)
Apply(leaf) ==
  /\ HasPath
  /\ Answers("apply", <<leaf>>, RootFromPath(path.steps, leaf))
  /\ UNCHANGED <<tree, path>>

(* nativeIsLeftmost, nativeIsRightmost, nativeAreRightLeavesEmpty and       *)
(* nativeLeafIndex look at the steps only.                                  *)
Leftmost(steps) == \A k \in DOMAIN steps : ~steps[k].right
Rightmost(steps) == \A k \in DOMAIN steps : steps[k].right

RightEmpty(steps) ==
  \A k \in DOMAIN steps : ~steps[k].right => steps[k].sibling = EmptyNode(Len(steps), k - 1)

(* The first k turns from the root down, read as a binary number. *)
Turns(steps) ==
  LET n[k \in 0..Len(steps)] ==
        IF k = 0 THEN 0
        ELSE 2 * n[k - 1] + (IF steps[Len(steps) - k + 1].right THEN 1 ELSE 0)
  IN  n

IndexOf(steps) == Turns(steps)[Len(steps)]

(* Mutant: the native functions of the two ends are exchanged. *)
AskSwapped ==
  /\ HasPath
  /\ Answers("ask", <<>>,
       [leftmost |-> Rightmost(path.steps), rightmost |-> Leftmost(path.steps),
        rightEmpty |-> RightEmpty(path.steps), index |-> IndexOf(path.steps)])
  /\ UNCHANGED <<tree, path>>

Ask ==
  /\ HasPath
  /\ Answers("ask", <<>>,
       [leftmost |-> Leftmost(path.steps), rightmost |-> Rightmost(path.steps),
        rightEmpty |-> RightEmpty(path.steps), index |-> IndexOf(path.steps)])
  /\ UNCHANGED <<tree, path>>

------------------------------------------------------------------------------

Roots == {RootOf(tree[t].leaves, tree[t].height) : t \in {u \in Trees : tree[u].final}}

(* The values an application may pass for a leaf: leaves, and inner nodes,  *)
(* which are field elements too.                                            *)
Nodes ==
  Leaves \cup {Zero} \cup
  UNION {UNION {{Levels(tree[t].leaves, tree[t].height)[k][i] :
                   i \in 1..(TwoTo[tree[t].height - k])} :
                k \in 1..(tree[t].height - 1)} : t \in {u \in Trees : tree[u].final}}

TreeCall(t) ==
  \/ \E h \in Heights : InitTree(t, h) \/ InitFails(t, h)
  \/ \E x \in Leaves : AppendLeaf(t, x) \/ AppendFails(t, x)
  \/ \E u \in Trees : FinalizeTree(t, u)
  \/ FinalizeTreeInPlace(t) \/ Root(t)
  \/ \E i \in Indices : GetMerklePath(t, i) \/ GetMerklePathFails(t, i)
  \/ ResetTree(t) \/ FreeTree(t)

PathCall ==
  \/ Foreign /\ path.index # -1 /\ \E s \in Received(path.steps) :
       \/ \E checked \in BOOLEAN : Deserialize(s, checked)
       \/ DeserializeFails(s)
  \/ \E leaf \in Nodes :
       \/ \E root \in Roots :
            \/ \E h \in Heights : Verify(h, leaf, root)
            \/ VerifyWithoutLengthCheck(leaf, root)
       \/ Apply(leaf)
  \/ Ask

Next == PathCall \/ \E t \in Trees : TreeCall(t)

Spec == Init /\ [][Next]_vars

------------------------------------------------------------------------------

(* The nodes from a root down along a path. *)
Descend(steps, root) ==
  LET node[k \in 0..Len(steps)] ==
        IF k = 0 THEN root
        ELSE node[k - 1][IF steps[Len(steps) - k + 1].right THEN 2 ELSE 1]
  IN  node

SubtreeAt(root, steps) == Descend(steps, root)[Len(steps)]

(* Soundness of verify with the height of the tree: whatever path was       *)
(* received and whatever value is claimed to be a leaf, the answer is true  *)
(* only if that value is the leaf of the tree at the index the path tells,  *)
(* and never for an inner node.  Without the height the value may be an     *)
(* inner node, but it is the one at the place the path leads to.            *)
VerifySound ==
  /\ last.op = "verify" /\ last.answer = TRUE =>
       \A t \in Trees :
         /\ tree[t].final /\ tree[t].height = last.args[1]
         /\ RootOf(tree[t].leaves, tree[t].height) = last.args[3]
         => Padded(tree[t].leaves, tree[t].height)[IndexOf(path.steps) + 1] = last.args[2]
  /\ last.op = "verifyWithoutLengthCheck" /\ last.answer = TRUE =>
       SubtreeAt(last.args[2], path.steps) = last.args[1]

(* Completeness: the path got for an index, also after its tree was reset,  *)
(* filled again or freed, leads from the leaf at that index to the root the *)
(* tree had, and tells its position: leftmost, rightmost, whether only zero *)
(* leaves are to its right.                                                 *)
PathsFaithful ==
  path.index # -1 =>
    LET n == Len(path.leaves)  i == path.index + 1 IN
    /\ TwoTo[Len(path.steps)] = n
    /\ RootFromPath(path.steps, path.leaves[i]) = RootOf(path.leaves, Len(path.steps))
    /\ last.op = "ask" =>
         last.answer = [leftmost |-> i = 1, rightmost |-> i = n, index |-> i - 1,
                        rightEmpty |-> \A j \in (i + 1)..n : path.leaves[j] = Zero]

(* A finalized tree keeps its root, and a tree that is not finalized its    *)
(* leaves, whatever is done to its copies, its original and the paths, until*)
(* it is itself appended to, finalized, reset or freed.                     *)
TreesIndependent ==
  [][\A t \in Trees : Exists(t) /\ tree'[t] # tree[t] =>
       /\ last'.args[1] = t
       /\ tree[t].final => last'.op \in {"reset", "free"}
       /\ last'.op \in {"append", "finalizeInPlace", "reset", "free"}]_vars

==============================================================================
