--------------------------- MODULE MCClaimHolders ---------------------------
(* A small instance of ClaimHolders for TLC: a pod with a generated claim  *)
(* and one of another driver, two pods that share a claim they name.       *)
EXTENDS ClaimHolders

MCDirect == [p \in Pods |-> IF p = "templated" THEN {"nic"} ELSE {"shared"}]
MCTemplated == [p \in Pods |-> IF p = "templated" THEN {"own"} ELSE {}]
=============================================================================
