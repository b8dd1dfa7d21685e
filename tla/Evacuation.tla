----------------------------- MODULE Evacuation -----------------------------
(***************************************************************************)
(* What a drain promises: it names some pods once, and succeeds only when  *)
(* each of them has ceased to exist.  Pods come and go meanwhile, but one  *)
(* that is gone never returns: its successor is another pod.               *)
(***************************************************************************)
VARIABLES
  alive,     \* the pods that exist
  chosen,    \* the pods the drain has named
  status     \* "idle", "draining", "ok" or "failed"

vars == <<alive, chosen, status>>

Init == chosen = {} /\ status = "idle"

Choose ==
  /\ status = "idle" /\ status' = "draining"
  /\ chosen' \subseteq alive /\ alive' = alive

\* Nothing to do, or no way to do it.
Return ==
  /\ status = "idle" /\ status' \in {"ok", "failed"}
  /\ UNCHANGED <<alive, chosen>>

Churn == alive' \cap chosen \subseteq alive /\ UNCHANGED <<chosen, status>>

Succeed ==
  /\ status = "draining" /\ status' = "ok"
  /\ chosen \cap alive = {} /\ UNCHANGED <<alive, chosen>>

Fail ==
  /\ status = "draining" /\ status' = "failed"
  /\ UNCHANGED <<alive, chosen>>

Next == Choose \/ Return \/ Churn \/ Succeed \/ Fail
Spec == Init /\ [][Next]_vars
=============================================================================
