-------------------------- MODULE CommitmentLedger --------------------------
(***************************************************************************)
(* What a commitment tree promises: a ledger of leaves for each sidechain  *)
(* and each kind of output.  A call takes effect at once: it is told that  *)
(* it added something exactly when one leaf was added, at the end of one   *)
(* list of one sidechain, and everything else it may be told (a refusal,   *)
(* an exception, the answer to a question) leaves the ledger as it was.    *)
(***************************************************************************)
EXTENDS Naturals, Sequences

CONSTANTS Sidechains, Kinds

VARIABLES
  leaves,      \* the leaves of each sidechain and kind
  busy,        \* whether a call is in progress
  outcome      \* of the last call

vars == <<leaves, busy, outcome>>

Init ==
  /\ leaves = [s \in Sidechains |-> [k \in Kinds |-> <<>>]]
  /\ busy = FALSE
  /\ outcome = "none"

Start ==
  /\ ~busy
  /\ busy' = TRUE
  /\ outcome' = "none"
  /\ UNCHANGED leaves

(* There is one creation of a sidechain: another one takes its place.       *)
OneMore(k, old, new) ==
  IF k = "scc" THEN Len(new) = 1
  ELSE Len(new) = Len(old) + 1 /\ SubSeq(new, 1, Len(old)) = old

AddLeaf(s, k) ==
  /\ busy
  /\ busy' = FALSE
  /\ outcome' = "added"
  /\ OneMore(k, leaves[s][k], leaves'[s][k])
  /\ leaves' = [leaves EXCEPT ![s][k] = leaves'[s][k]]

Other ==
  /\ busy' = FALSE
  /\ outcome' = "other"
  /\ UNCHANGED leaves

Next == Start \/ Other \/ \E s \in Sidechains, k \in Kinds : AddLeaf(s, k)

Spec == Init /\ [][Next]_vars

==============================================================================
