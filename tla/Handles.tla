------------------------------- MODULE Handles -------------------------------
(***************************************************************************)
(* What the wrapper classes promise of a handle: it is open from the call  *)
(* that returns it until it is closed, and never open again; a call that   *)
(* answers was given open handles only; a call is refused as                *)
(* "freed" (IllegalStateException, NullPointerException) only when one of  *)
(* its handles is closed; no handle is closed under a call that works on   *)
(* it.  Each call takes effect in one step.                                *)
(***************************************************************************)
CONSTANTS Threads, Objs

VARIABLES
  open,     \* handles that can be used
  closed,   \* handles that were freed, or that stand for an absent value
  busy,     \* threads inside a call
  call,     \* the handles the call of each thread cannot do without
  result    \* how its last call ended

vars == <<open, closed, busy, call, result>>

Refusals == {"IllegalStateException", "NullPointerException"}
Failures == {"null", "IllegalArgumentException", "RuntimeException"}

Init ==
  /\ open = {}
  /\ closed = {}
  /\ busy = {}
  /\ call = [t \in Threads |-> {}]
  /\ result = [t \in Threads |-> "none"]

Begin(t, S) ==
  /\ t \notin busy
  /\ S \subseteq open \cup closed
  /\ busy' = busy \cup {t}
  /\ call' = [call EXCEPT ![t] = S]
  /\ result' = [result EXCEPT ![t] = "none"]
  /\ UNCHANGED <<open, closed>>

End(t, r) ==
  /\ t \in busy
  /\ busy' = busy \ {t}
  /\ call' = [call EXCEPT ![t] = {}]
  /\ result' = [result EXCEPT ![t] = r]

Answer(t, new) ==
  /\ call[t] \subseteq open
  /\ new \cap (open \cup closed) = {}
  /\ open' = open \cup new
  /\ End(t, "value")
  /\ UNCHANGED closed

Refuse(t) ==
  /\ call[t] \cap closed # {}
  /\ \E r \in Refusals : End(t, r)
  /\ UNCHANGED <<open, closed>>

Fail(t) ==
  /\ \E r \in Failures : End(t, r)
  /\ UNCHANGED <<open, closed>>

Close(o) ==
  /\ o \in open
  /\ \A t \in Threads : o \notin call[t]
  /\ open' = open \ {o}
  /\ closed' = closed \cup {o}
  /\ UNCHANGED <<busy, call, result>>

(* A handle that stands for an absent value is never open. *)
New(o) ==
  /\ o \notin open \cup closed
  /\ closed' = closed \cup {o}
  /\ UNCHANGED <<open, busy, call, result>>

Forget(o) ==
  /\ o \in closed
  /\ \A t \in Threads : o \notin call[t]
  /\ closed' = closed \ {o}
  /\ UNCHANGED <<open, busy, call, result>>

Next ==
  \/ \E t \in Threads :
       \/ \E S \in SUBSET Objs : Begin(t, S) \/ Answer(t, S)
       \/ Refuse(t)
       \/ Fail(t)
  \/ \E o \in Objs : Close(o) \/ New(o) \/ Forget(o)

Spec == Init /\ [][Next]_vars

==============================================================================
