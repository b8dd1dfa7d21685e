---------------------------- MODULE ClaimHolders ----------------------------
(***************************************************************************)
(* GetGPUResourceClaimHolders: the list of the node's pods and one request *)
(* for each ResourceClaim they refer to, while claims are generated,       *)
(* allocated and deleted and pods come and go.  A pod refers to a claim by *)
(* its name or by a template, whose claim has a name only once the pod's   *)
(* status says so.  What Kubernetes does is external: a pod reaches the    *)
(* node with its claims allocated and reserved for it, and they stay so    *)
(* until it has finished.  DriverManager has the check as one step.        *)
(***************************************************************************)
EXTENDS Naturals

CONSTANTS
  Pods, Claims,
  Direct,       \* the claims each pod refers to by name, ...
  Templated,    \* ... and those generated for it from a template
  GpuClaims,    \* claims the GPU driver allocates; others have other drivers
  MaxFaults     \* requests that fail

ASSUME ClaimsAssumption ==
  /\ Direct \in [Pods -> SUBSET Claims] /\ Templated \in [Pods -> SUBSET Claims]
  /\ \A p, q \in Pods :
       /\ Templated[p] \cap Direct[q] = {}
       /\ p # q => Templated[p] \cap Templated[q] = {}
  /\ GpuClaims \subseteq Claims /\ MaxFaults \in Nat

VARIABLES
  phase,      \* of a pod
  named,      \* generated claims whose name is in their pod's status
  claim,      \* whether a claim exists and is allocated
  reserved,   \* pairs of a pod and a claim reserved for it
  pc,
  todo,       \* pairs of a listed pod and a claim still to be looked up
  holders,
  listed,     \* history: the pods the check took from the list
  faults      \* history: failed requests so far

cluster == <<phase, named, claim, reserved>>
check == <<pc, todo, holders, listed, faults>>
vars == <<cluster, check>>

ClaimsOf(p) == Direct[p] \cup Templated[p]
OnNode(p) == phase[p] \in {"bound", "running", "finished"}

TypeOK ==
  /\ phase \in [Pods -> {"pending", "bound", "running", "finished", "gone"}]
  /\ named \subseteq Claims
  /\ claim \in [Claims -> {"absent", "free", "allocated"}]
  /\ reserved \subseteq Pods \X Claims /\ todo \subseteq Pods \X Claims
  /\ pc \in {"start", "look", "empty", "held", "error"}
  /\ holders \subseteq Pods /\ listed \subseteq Pods /\ faults \in 0..MaxFaults

Init ==
  /\ phase = [p \in Pods |-> "pending"] /\ named = {} /\ reserved = {}
  /\ claim = [c \in Claims |-> IF \E p \in Pods : c \in Templated[p]
                                 THEN "absent" ELSE "free"]
  /\ pc = "start" /\ todo = {} /\ holders = {} /\ listed = {} /\ faults = 0

-----------------------------------------------------------------------------
(* The check.                                                              *)

\* As the code would be if it only knew the claims a pod names itself.
DirectNames(p) == Direct[p]
\* resolveResourceClaimName, for every reference of a listed pod.
ResolvedNames(p) == Direct[p] \cup (Templated[p] \cap named)

Fails ==
  /\ faults < MaxFaults /\ faults' = faults + 1
  /\ pc' = "error" /\ todo' = {}
  /\ UNCHANGED <<holders, listed>>

ListPods ==
  /\ pc \in {"start", "empty", "held", "error"}
  /\ \/ LET alive == {p \in Pods : OnNode(p) /\ phase[p] # "finished"} IN
        /\ listed' = alive /\ holders' = {} /\ pc' = "look"
        /\ todo' = UNION {{p} \X ResolvedNames(p) : p \in alive}
        /\ UNCHANGED faults
     \/ Fails
  /\ UNCHANGED cluster

\* As the code would be if a claim that is gone were an error ...
LookUpStrictly(p, c) ==
  /\ pc = "look" /\ <<p, c>> \in todo
  /\ \/ /\ claim[c] = "absent" /\ pc' = "error" /\ todo' = {}
        /\ UNCHANGED <<holders, listed, faults>>
     \/ /\ claim[c] # "absent"
        /\ IF claim[c] = "allocated" /\ c \in GpuClaims
             THEN holders' = holders \cup {p} /\ todo' = todo \ ({p} \X Claims)
             ELSE todo' = todo \ {<<p, c>>} /\ UNCHANGED holders
        /\ UNCHANGED <<pc, listed, faults>>
     \/ Fails
  /\ UNCHANGED cluster
\* ... or if it returned the claims.
LookUpToClaims(p, c) ==
  /\ pc = "look" /\ <<p, c>> \in todo
  /\ \/ /\ IF claim[c] = "allocated" /\ c \in GpuClaims
             THEN holders' = holders \cup {c} /\ todo' = todo \ ({p} \X Claims)
             ELSE todo' = todo \ {<<p, c>>} /\ UNCHANGED holders
        /\ UNCHANGED <<pc, listed, faults>>
     \/ Fails
  /\ UNCHANGED cluster

\* podHasGPUResourceClaim and isAllocatedNvidiaGPUClaim: the first claim of a
\* pod that counts settles it; one that is gone does not.
LookUpClaim(p, c) ==
  /\ pc = "look" /\ <<p, c>> \in todo
  /\ \/ /\ IF claim[c] = "allocated" /\ c \in GpuClaims
             THEN holders' = holders \cup {p} /\ todo' = todo \ ({p} \X Claims)
             ELSE todo' = todo \ {<<p, c>>} /\ UNCHANGED holders
        /\ UNCHANGED <<pc, listed, faults>>
     \/ Fails
  /\ UNCHANGED cluster

Return ==
  /\ pc = "look" /\ todo = {}
  /\ pc' = IF holders = {} THEN "empty" ELSE "held"
  /\ UNCHANGED <<cluster, todo, holders, listed, faults>>

-----------------------------------------------------------------------------
(* Kubernetes.                                                             *)

Becomes(p, s) ==
  /\ phase' = [phase EXCEPT ![p] = s]
  /\ UNCHANGED <<named, claim, reserved, check>>

\* The controller generates a claim, then writes its name into the status.
GenerateClaim(p, c) ==
  /\ phase[p] = "pending" /\ c \in Templated[p] /\ claim[c] = "absent"
  /\ claim' = [claim EXCEPT ![c] = "free"]
  /\ UNCHANGED <<phase, named, reserved, check>>

NameClaim(p, c) ==
  /\ phase[p] = "pending" /\ c \in Templated[p] \ named /\ claim[c] = "free"
  /\ named' = named \cup {c}
  /\ UNCHANGED <<phase, claim, reserved, check>>

\* The scheduler allocates each claim of a pod, or joins those that share it,
\* and then binds the pod.
Reserve(p, c) ==
  /\ phase[p] = "pending" /\ Templated[p] \subseteq named
  /\ c \in ClaimsOf(p) /\ <<p, c>> \notin reserved
  /\ claim' = [claim EXCEPT ![c] = "allocated"]
  /\ reserved' = reserved \cup {<<p, c>>}
  /\ UNCHANGED <<phase, named, check>>

Bind(p) ==
  /\ phase[p] = "pending" /\ {p} \X ClaimsOf(p) \subseteq reserved
  /\ Becomes(p, "bound")

\* The kubelet prepares the claims, and has unprepared them when it reports
\* the pod as finished.
Prepare(p) == phase[p] = "bound" /\ Becomes(p, "running")
Finish(p) == phase[p] \in {"bound", "running"} /\ Becomes(p, "finished")
Remove(p) == phase[p] = "finished" /\ Becomes(p, "gone")

\* The controller gives up the reservation of a pod that has finished, the
\* allocation with the last one, and a generated claim with its pod.
Unreserve(p, c) ==
  /\ phase[p] \in {"finished", "gone"} /\ <<p, c>> \in reserved
  /\ reserved' = reserved \ {<<p, c>>}
  /\ claim' = [claim EXCEPT ![c] =
                 IF c \in Templated[p] THEN "absent"
                 ELSE IF \E q \in Pods : <<q, c>> \in reserved' THEN "allocated"
                 ELSE "free"]
  /\ UNCHANGED <<phase, named, check>>

Next ==
  \/ ListPods \/ Return
  \/ \E p \in Pods : \/ Bind(p) \/ Prepare(p) \/ Finish(p) \/ Remove(p)
                     \/ \E c \in Claims :
                          \/ LookUpClaim(p, c) \/ GenerateClaim(p, c)
                          \/ NameClaim(p, c) \/ Reserve(p, c)
                          \/ Unreserve(p, c)

Spec == Init /\ [][Next]_vars

-----------------------------------------------------------------------------
(* Properties.                                                             *)

\* A check that finds nobody has missed nobody: no pod that was on the node
\* when it listed the pods, and has not finished since, holds a claim of the
\* GPU driver, however the claims were named, shared or given up meanwhile.
NoHolderMissed ==
  pc = "empty" =>
    \A p \in listed : phase[p] \in {"bound", "running"} =>
      ClaimsOf(p) \cap GpuClaims = {}

\* A pod that finishes, with its claims, under the check does not make it
\* fail: only a failed request does.
FailsOnlyByFault == pc = "error" => faults > 0
=============================================================================
