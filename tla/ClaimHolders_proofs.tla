------------------------- MODULE ClaimHolders_proofs -------------------------
(***************************************************************************)
(* What is proved of ClaimHolders for every set of pods and of claims, any *)
(* way the claims are shared, and every number of failed requests.         *)
(***************************************************************************)
EXTENDS ClaimHolders, TLAPS

-----------------------------------------------------------------------------
(* The strengthening.                                                      *)

\* A reservation is of an allocated claim that its pod refers to, and was made
\* when each claim generated for the pod had its name in the pod's status.
ReservedInv ==
  \A p \in Pods, c \in Claims : <<p, c>> \in reserved =>
    c \in ClaimsOf(p) /\ claim[c] = "allocated" /\ Templated[p] \subseteq named

\* A pod that may use its claims holds all of them.
HeldInv ==
  \A p \in Pods : phase[p] \in {"bound", "running"} =>
    \A c \in ClaimsOf(p) : <<p, c>> \in reserved

\* A listed pod has been on the node; and of one that still is and is not
\* found to hold a claim, each claim of the GPU driver is still to be looked up.
LookInv ==
  /\ \A p \in listed : phase[p] # "pending"
  /\ pc = "look" =>
       \A p \in listed \ holders : phase[p] \in {"bound", "running"} =>
         \A c \in ClaimsOf(p) \cap GpuClaims : <<p, c>> \in todo

IInv ==
  /\ TypeOK /\ ReservedInv /\ HeldInv /\ LookInv
  /\ NoHolderMissed /\ FailsOnlyByFault

LEMMA Refers == \A p \in Pods : ClaimsOf(p) \subseteq Claims
BY ClaimsAssumption DEF ClaimsOf

-----------------------------------------------------------------------------
(* Types.                                                                  *)

LEMMA TypeInit == Init => TypeOK
BY ClaimsAssumption DEF Init, TypeOK

LEMMA TypeStep == TypeOK /\ [Next]_vars => TypeOK'
<1> SUFFICES ASSUME TypeOK, [Next]_vars PROVE TypeOK'
  OBVIOUS
<1> USE DEF TypeOK, cluster, check
<1>1. ASSUME Fails PROVE faults' \in 0..MaxFaults
  BY <1>1, ClaimsAssumption DEF Fails
<1>2. CASE ListPods
  <2>1. UNION {{p} \X ResolvedNames(p) : p \in {q \in Pods : OnNode(q) /\ phase[q] # "finished"}}
          \subseteq Pods \X Claims
    BY ClaimsAssumption DEF ResolvedNames
  <2> QED
    BY <1>1, <1>2, <2>1 DEF ListPods, Fails
<1>3. ASSUME NEW p \in Pods, NEW c \in Claims, LookUpClaim(p, c) PROVE TypeOK'
  BY <1>1, <1>3 DEF LookUpClaim, Fails
<1>4. CASE Return
  BY <1>4 DEF Return
<1>5. ASSUME NEW p \in Pods, Bind(p) \/ Prepare(p) \/ Finish(p) \/ Remove(p)
      PROVE  TypeOK'
  BY <1>5 DEF Bind, Prepare, Finish, Remove, Becomes
<1>6. ASSUME NEW p \in Pods, NEW c \in Claims,
             GenerateClaim(p, c) \/ NameClaim(p, c) \/ Reserve(p, c) \/ Unreserve(p, c)
      PROVE  TypeOK'
  <2>1. named' \subseteq Claims
    BY <1>6, ClaimsAssumption DEF GenerateClaim, NameClaim, Reserve, Unreserve
  <2>2. claim' \in [Claims -> {"absent", "free", "allocated"}]
    BY <1>6 DEF GenerateClaim, NameClaim, Reserve, Unreserve
  <2>3. reserved' \subseteq Pods \X Claims /\ UNCHANGED <<phase, check>>
    BY <1>6 DEF GenerateClaim, NameClaim, Reserve, Unreserve
  <2> QED
    BY <2>1, <2>2, <2>3
<1>7. CASE UNCHANGED vars
  BY <1>7 DEF vars
<1> HIDE DEF TypeOK, cluster, check
<1> QED
  BY <1>2, <1>3, <1>4, <1>5, <1>6, <1>7 DEF Next

-----------------------------------------------------------------------------
(* Claims, which the check only reads.                                     *)

\* A pod of the node was there before, or comes with all its claims.
LEMMA PhaseStep ==
  ASSUME TypeOK, [Next]_vars, NEW p \in Pods
  PROVE  /\ phase[p] # "pending" => phase'[p] # "pending"
         /\ phase'[p] \in {"bound", "running"} =>
              phase[p] \in {"bound", "running"}
              \/ (phase[p] = "pending" /\ {p} \X ClaimsOf(p) \subseteq reserved
                  /\ reserved' = reserved)
<1> USE DEF TypeOK
<1>1. ASSUME NEW q \in Pods, Bind(q) \/ Prepare(q) \/ Finish(q) \/ Remove(q)
      PROVE  /\ phase[p] # "pending" => phase'[p] # "pending"
             /\ phase'[p] \in {"bound", "running"} =>
                  phase[p] \in {"bound", "running"}
                  \/ (phase[p] = "pending" /\ {p} \X ClaimsOf(p) \subseteq reserved
                      /\ reserved' = reserved)
  BY <1>1 DEF Bind, Prepare, Finish, Remove, Becomes
<1>2. \/ \E q \in Pods : Bind(q) \/ Prepare(q) \/ Finish(q) \/ Remove(q)
      \/ phase' = phase
  BY DEF Next, ListPods, Return, LookUpClaim, GenerateClaim, NameClaim,
     Reserve,
         Unreserve, vars, cluster
<1> QED
  BY <1>1, <1>2

LEMMA ReservedStep ==
  TypeOK /\ ReservedInv /\ HeldInv /\ [Next]_vars => ReservedInv' /\ HeldInv'
<1> SUFFICES ASSUME TypeOK, ReservedInv, HeldInv, [Next]_vars
             PROVE  ReservedInv' /\ HeldInv'
  OBVIOUS
<1> USE DEF TypeOK
<1>1. CASE UNCHANGED <<named, claim, reserved>>
  <2>1. ReservedInv'
    BY <1>1 DEF ReservedInv, ClaimsOf
  <2>2. HeldInv'
    BY <1>1, PhaseStep DEF HeldInv, ClaimsOf
  <2> QED
    BY <2>1, <2>2
<1>2. ASSUME NEW p \in Pods, NEW c \in Claims, GenerateClaim(p, c)
      PROVE  ReservedInv' /\ HeldInv'
  BY <1>2 DEF GenerateClaim, ReservedInv, HeldInv, ClaimsOf
<1>3. ASSUME NEW p \in Pods, NEW c \in Claims, NameClaim(p, c)
      PROVE  ReservedInv' /\ HeldInv'
  BY <1>3 DEF NameClaim, ReservedInv, HeldInv, ClaimsOf
<1>4. ASSUME NEW p \in Pods, NEW c \in Claims, Reserve(p, c)
      PROVE  ReservedInv' /\ HeldInv'
  BY <1>4 DEF Reserve, ReservedInv, HeldInv, ClaimsOf
<1>5. ASSUME NEW p \in Pods, NEW c \in Claims, Unreserve(p, c)
      PROVE  ReservedInv' /\ HeldInv'
  <2>1. HeldInv'
    BY <1>5 DEF Unreserve, HeldInv, ClaimsOf
  <2>2. ASSUME NEW q \in Pods, NEW d \in Claims, <<q, d>> \in reserved'
        PROVE  claim'[d] = "allocated"
    <3>1. <<q, d>> \in reserved /\ claim[d] = "allocated" /\ d \in ClaimsOf(q)
          /\ <<q, d>> # <<p, c>>
      BY <1>5, <2>2 DEF Unreserve, ReservedInv
    <3>2. CASE d # c
      BY <1>5, <3>1, <3>2 DEF Unreserve
    <3>3. CASE d = c
      <4>1. c \notin Templated[p]
        BY <3>1, <3>3, ClaimsAssumption DEF ClaimsOf
      <4> QED
        BY <1>5, <2>2, <3>3, <4>1 DEF Unreserve
    <3> QED
      BY <3>2, <3>3
  <2>3. ReservedInv'
    BY <1>5, <2>2 DEF Unreserve, ReservedInv, ClaimsOf
  <2> QED
    BY <2>1, <2>3
<1> QED
  BY <1>1, <1>2, <1>3, <1>4, <1>5
     DEF Next, ListPods, Return, LookUpClaim, Bind, Prepare, Finish, Remove,
         Becomes, vars, cluster

-----------------------------------------------------------------------------
(* The check.                                                              *)

LEMMA LookStep ==
  IInv /\ [Next]_vars => LookInv' /\ NoHolderMissed' /\ FailsOnlyByFault'
<1> SUFFICES ASSUME IInv, [Next]_vars
             PROVE  LookInv' /\ NoHolderMissed' /\ FailsOnlyByFault'
  OBVIOUS
<1> USE DEF IInv
<1>0. ASSUME NEW p \in Pods
      PROVE  /\ phase[p] # "pending" => phase'[p] # "pending"
             /\ phase[p] # "pending" /\ phase'[p] \in {"bound", "running"} =>
                  phase[p] \in {"bound", "running"}
  BY PhaseStep
<1>1. CASE UNCHANGED check
  BY <1>0, <1>1 DEF check, LookInv, NoHolderMissed, FailsOnlyByFault, ClaimsOf,
                    TypeOK
<1>2. ASSUME Fails, UNCHANGED cluster
      PROVE  LookInv' /\ NoHolderMissed' /\ FailsOnlyByFault'
  BY <1>2 DEF Fails, cluster, LookInv, NoHolderMissed, FailsOnlyByFault, TypeOK
<1>3. CASE ListPods
  <2> DEFINE alive == {p \in Pods : OnNode(p) /\ phase[p] # "finished"}
  <2>1. CASE Fails
    BY <1>2, <1>3, <2>1 DEF ListPods
  <2>2. CASE /\ listed' = alive /\ holders' = {} /\ pc' = "look"
             /\ todo' = UNION {{p} \X ResolvedNames(p) : p \in alive}
    <3>1. phase' = phase
      BY <1>3 DEF ListPods, cluster
    <3>2. ASSUME NEW p \in alive, NEW c \in ClaimsOf(p) PROVE <<p, c>> \in todo'
      <4>1. \A d \in ClaimsOf(p) : <<p, d>> \in reserved /\ d \in Claims
        BY Refers DEF HeldInv, OnNode
      <4>2. c \in ResolvedNames(p)
        BY <4>1 DEF ClaimsOf, ResolvedNames, ReservedInv
      <4> QED
        BY <2>2, <4>2
    <3> QED
      BY <2>2, <3>1, <3>2
         DEF OnNode, ClaimsOf, LookInv, NoHolderMissed, FailsOnlyByFault
  <2> QED
    BY <1>3, <2>1, <2>2 DEF ListPods
<1>4. ASSUME NEW p \in Pods, NEW c \in Claims, LookUpClaim(p, c)
      PROVE  LookInv' /\ NoHolderMissed' /\ FailsOnlyByFault'
  <2>1. CASE Fails
    BY <1>2, <1>4, <2>1 DEF LookUpClaim
  <2>2. CASE ~Fails
    <3>1. /\ pc = "look" /\ pc' = "look" /\ UNCHANGED <<phase, listed>>
          /\ \/ /\ claim[c] = "allocated" /\ c \in GpuClaims
                /\ holders' = holders \cup {p} /\ todo' = todo \ ({p} \X Claims)
             \/ /\ ~(claim[c] = "allocated" /\ c \in GpuClaims)
                /\ holders' = holders /\ todo' = todo \ {<<p, c>>}
      BY <1>4, <2>2 DEF LookUpClaim, cluster
    <3>2. ASSUME NEW q \in listed \ holders', phase[q] \in {"bound", "running"},
                 NEW d \in ClaimsOf(q) \cap GpuClaims
          PROVE  <<q, d>> \in todo'
      <4>1. q \in Pods /\ d \in Claims /\ <<q, d>> \in todo /\ claim[d] = "allocated"
        BY <3>1, <3>2, Refers DEF LookInv, HeldInv, ReservedInv, TypeOK
      <4> QED
        BY <3>1, <3>2, <4>1
    <3> QED
      BY <3>1, <3>2 DEF LookInv, NoHolderMissed, FailsOnlyByFault, ClaimsOf
  <2> QED
    BY <2>1, <2>2
<1>5. CASE Return
  BY <1>5, Refers DEF Return, cluster, LookInv, NoHolderMissed,
     FailsOnlyByFault,
                      ClaimsOf, TypeOK
<1> QED
  BY <1>1, <1>3, <1>4, <1>5
     DEF Next, Bind, Prepare, Finish, Remove, Becomes, GenerateClaim,
        NameClaim,
         Reserve, Unreserve, vars

-----------------------------------------------------------------------------
(* The theorems.                                                           *)

LEMMA CheckInvariant == Spec => []IInv
<1>1. Init => IInv
  BY TypeInit DEF Init, IInv, ReservedInv, HeldInv, LookInv, NoHolderMissed,
                  FailsOnlyByFault
<1>2. IInv /\ [Next]_vars => IInv'
  BY TypeStep, ReservedStep, LookStep DEF IInv
<1> QED
  BY <1>1, <1>2, PTL DEF Spec

\* Every state of the check and of the cluster is well-formed.
THEOREM CheckTypes == Spec => []TypeOK
BY CheckInvariant, PTL DEF IInv

\* GetGPUResourceClaimHolders misses no pod that was on the node when it listed
\* the pods and is there still, although it looks at the claims one by one,
\* each at another moment: a pod reaches the node with every generated claim
\* named and every claim allocated, and they stay so while the pod can use them.
THEOREM NobodyMissed == Spec => []NoHolderMissed
BY CheckInvariant, PTL DEF IInv

\* It fails only when a request failed, not when claims vanish under it.
THEOREM OnlyFaultsFail == Spec => []FailsOnlyByFault
BY CheckInvariant, PTL DEF IInv
=============================================================================
