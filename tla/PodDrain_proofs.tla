--------------------------- MODULE PodDrain_proofs ---------------------------
(***************************************************************************)
(* What is proved of PodDrain for every set of pods of every kind, every   *)
(* choice of the options and every number of failures and replacements.    *)
(***************************************************************************)
EXTENDS PodDrain, FiniteSetTheorems, TLAPS

-----------------------------------------------------------------------------
(* Counting.                                                               *)

\* The pods of some names are as many as the names.
LEMMA UidsCounted ==
  ASSUME TypeOK, NEW S \in SUBSET Names
  PROVE  LET uids == {Uid(n) : n \in S} IN
         /\ IsFiniteSet(uids) /\ Cardinality(uids) = Cardinality(S)
         /\ Cardinality(uids) \in 0..Cardinality(Names)
         /\ uids \subseteq Names \X Nat
<1> DEFINE uids == {Uid(n) : n \in S}
           f == [n \in S |-> Uid(n)]
<1>1. IsFiniteSet(S) /\ Cardinality(S) <= Cardinality(Names)
  BY KindsAssumption, FS_Subset
<1>2. f \in Bijection(S, uids)
  <2>1. f \in [S -> uids]
    OBVIOUS
  <2>2. \A a, b \in S : f[a] = f[b] => a = b
    BY DEF Uid
  <2>3. \A u \in uids : \E a \in S : f[a] = u
    OBVIOUS
  <2> HIDE DEF f, uids
  <2> QED
    BY <2>1, <2>2, <2>3 DEF Bijection, Injection, Surjection, IsInjective
<1>3. IsFiniteSet(uids) /\ Cardinality(uids) = Cardinality(S)
  BY <1>1, <1>2, FS_Bijection DEF ExistsBijection
<1>4. Cardinality(S) \in Nat /\ Cardinality(Names) \in Nat
  BY <1>1, KindsAssumption, FS_CardinalityType
<1>5. uids \subseteq Names \X Nat
  BY DEF Uid, TypeOK, Pods
<1> QED
  BY <1>1, <1>3, <1>4, <1>5

\* The listing fails, or finds as many pods that may be deleted as were
\* counted and starts a goroutine for each of them.
LEMMA Listing ==
  ASSUME ListPods
  PROVE  /\ pc = "list" /\ UNCHANGED <<pod, count, expired, counted>>
         /\ \/ pc' \in {"failed", "panicked"} /\ UNCHANGED <<list, active, routine>>
            \/ \E found \in SUBSET DeletableHere :
                 Cardinality(found) = count /\ Start(found)
<1>1. ASSUME NEW found \in SUBSET DeletableHere, StartIfAll(found)
      PROVE  \/ pc' = "failed" /\ UNCHANGED <<list, active, routine>>
             \/ Cardinality(found) = count /\ Start(found)
  BY <1>1 DEF StartIfAll
<1> QED
  BY <1>1 DEF ListPods

-----------------------------------------------------------------------------
(* Types.                                                                  *)

LEMMA TypeInit == Init => TypeOK
<1> SUFFICES ASSUME Init PROVE TypeOK
  OBVIOUS
<1>1. pod \in [Names -> Pods]
  <2>1. \A n \in Names : InitialPods(n) \subseteq Pods
    <3>1. [Bound0 EXCEPT !.phase = "pending"] \in Pods
      BY DEF Bound0, Pods
    <3>2. [gen : {0}, here : {TRUE}, finished : BOOLEAN, marked : BOOLEAN,
           phase : {"bound"}] \subseteq Pods
      <4> SUFFICES ASSUME NEW p \in [gen : {0}, here : {TRUE},
                                     finished : BOOLEAN, marked : BOOLEAN,
                                     phase : {"bound"}]
                   PROVE  p \in Pods
        OBVIOUS
      <4>1. /\ p = [gen |-> p.gen, here |-> p.here, finished |-> p.finished,
                    marked |-> p.marked, phase |-> p.phase]
            /\ p.gen = 0 /\ p.here \in BOOLEAN /\ p.finished \in BOOLEAN
            /\ p.marked \in BOOLEAN /\ p.phase = "bound"
        OBVIOUS
      <4> QED
        BY <4>1 DEF Pods
    <3>3. ASSUME NEW n \in Names PROVE InitialPods(n) \subseteq Pods
      <4>1. CASE n \in Pending
        BY <4>1, <3>1 DEF InitialPods
      <4>2. CASE n \notin Pending
        BY <4>2, <3>2 DEF InitialPods
      <4> QED
        BY <4>1, <4>2
    <3> QED
      BY <3>3
  <2>2. pod \in [Names -> UNION {InitialPods(n) : n \in Names}]
        /\ \A n \in Names : pod[n] \in InitialPods(n)
    BY DEF Init
  <2> QED
    BY <2>1, <2>2
<1>2. 0 \in 0..Cardinality(Names)
  BY KindsAssumption, FS_CardinalityType
<1> QED
  BY <1>1, <1>2 DEF Init, TypeOK

\* A goroutine that refreshes its pod holds a snapshot of one.
LEMMA RefreshType ==
  ASSUME TypeOK, NEW n \in Names, Refresh(n)
  PROVE  active' \in [Names -> [gen : Nat, marked : BOOLEAN]]
BY DEF Refresh, Snapshot, TypeOK, Pods

\* What happens to the pod of a name leaves it a pod.
LEMMA PodChanges ==
  ASSUME TypeOK, NEW n \in Names,
         \/ pod' = [pod EXCEPT ![n].marked = TRUE]
         \/ pod' = [pod EXCEPT ![n].finished = TRUE]
         \/ pod' = [pod EXCEPT ![n].phase = "gone", ![n].finished = TRUE]
         \/ pod' = [pod EXCEPT ![n].phase = "bound"]
  PROVE  pod' \in [Names -> Pods]
<1>1. pod[n] \in Pods /\ pod \in [Names -> Pods]
  BY DEF TypeOK
<1>2. /\ [pod[n] EXCEPT !.marked = TRUE] \in Pods
      /\ [pod[n] EXCEPT !.finished = TRUE] \in Pods
      /\ [pod[n] EXCEPT !.phase = "gone", !.finished = TRUE] \in Pods
      /\ [pod[n] EXCEPT !.phase = "bound"] \in Pods
  BY <1>1 DEF Pods
<1> QED
  BY <1>1, <1>2

LEMMA TypeRoutine ==
  ASSUME TypeOK, NEW n \in Names, Routine(n) \/ RoutineFails(n)
  PROVE  TypeOK'
<1> USE DEF TypeOK, history, Goes
<1>1. CASE EvictTimesOut(n)
  BY <1>1 DEF EvictTimesOut
<1>2. CASE EvictNotFound(n)
  BY <1>2 DEF EvictNotFound
<1>3. CASE EvictAccepted(n)
  BY <1>3, PodChanges DEF EvictAccepted
<1>4. CASE EvictRefused(n)
  BY <1>4, RefreshType DEF EvictRefused
<1>5. CASE EvictForbidden(n)
  BY <1>5, RefreshType DEF EvictForbidden
<1>6. CASE WaitedForDelete(n)
  BY <1>6 DEF WaitedForDelete
<1>7. CASE WaitTimesOut(n)
  BY <1>7 DEF WaitTimesOut
<1>8. CASE RoutineFails(n)
  BY <1>8 DEF RoutineFails
<1> QED
  BY <1>1, <1>2, <1>3, <1>4, <1>5, <1>6, <1>7, <1>8 DEF Routine

LEMMA TypeCluster ==
  ASSUME TypeOK, NEW n \in Names,
         Finish(n) \/ Delete(n) \/ Gone(n) \/ Replace(n) \/ Bind(n)
  PROVE  TypeOK'
<1> USE DEF TypeOK, history, machinery
<1>1. pod' \in [Names -> Pods]
  <2>1. CASE Finish(n)
    BY <2>1, PodChanges DEF Finish
  <2>2. CASE Delete(n)
    BY <2>2, PodChanges DEF Delete
  <2>3. CASE Gone(n)
    BY <2>3, PodChanges DEF Gone
  <2>4. CASE Replace(n)
    <3>1. ASSUME NEW b \in BOOLEAN, NEW g \in Nat
          PROVE  [Bound0 EXCEPT !.gen = g, !.here = b] \in Pods
      BY DEF Bound0, Pods
    <3>2. /\ pod[n].gen + 1 \in Nat
          /\ pod' = [pod EXCEPT ![n] = [Bound0 EXCEPT !.gen = pod[n].gen + 1,
                                                     !.here = n \in Daemon]]
      BY <2>4 DEF Replace, Pods
    <3>3. [Bound0 EXCEPT !.gen = pod[n].gen + 1, !.here = n \in Daemon] \in Pods
      <4>1. (n \in Daemon) \in BOOLEAN
        OBVIOUS
      <4> QED
        BY <4>1, <3>1, <3>2, Zenon
    <3> QED
      BY <3>2, <3>3
  <2>5. CASE Bind(n)
    BY <2>5, PodChanges DEF Bind
  <2> QED
    BY <2>1, <2>2, <2>3, <2>4, <2>5
<1>2. UNCHANGED <<pc, machinery, expired, counted>>
  BY DEF Finish, Delete, Gone, Replace, Bind
<1> QED
  BY <1>1, <1>2

LEMMA TypeStep == TypeOK /\ [Next]_vars => TypeOK'
<1> SUFFICES ASSUME TypeOK, [Next]_vars PROVE TypeOK'
  OBVIOUS
<1>1. CASE CountGPUPods
  <2>1. /\ {Uid(n) : n \in GPUPodsHere} \subseteq Names \X Nat
        /\ Cardinality({Uid(n) : n \in GPUPodsHere}) \in 0..Cardinality(Names)
    BY UidsCounted DEF GPUPodsHere
  <2>2. /\ counted' \subseteq Names \X Nat /\ count' \in 0..Cardinality(Names)
        /\ pc' \in {"ok", "list", "failed"}
    BY <1>1, <2>1 DEF CountGPUPods, TypeOK
  <2> QED
    BY <1>1, <2>2 DEF CountGPUPods, TypeOK
<1>2. CASE ListPods
  <2>1. CASE pc' \in {"failed", "panicked"} /\ UNCHANGED <<list, active, routine>>
    BY <1>2, <2>1, Listing DEF TypeOK
  <2>2. ASSUME NEW found \in SUBSET DeletableHere, Start(found) PROVE TypeOK'
    <3>1. {Uid(n) : n \in found} \subseteq Names \X Nat
      BY UidsCounted DEF DeletableHere
    <3>2. \A n \in Names : Snapshot(n) \in [gen : Nat, marked : BOOLEAN]
      BY DEF TypeOK, Snapshot, Pods
    <3>3. /\ list' \subseteq Names \X Nat /\ pc' = "evict"
          /\ active' \in [Names -> [gen : Nat, marked : BOOLEAN]]
          /\ routine' \in [Names -> {"none", "evict", "wait", "ok", "error"}]
      BY <2>2, <3>1, <3>2 DEF Start, TypeOK
    <3> QED
      BY <1>2, <3>3, Listing DEF TypeOK
  <2> QED
    BY <1>2, <2>1, <2>2, Listing
<1>3. CASE Join
  BY <1>3 DEF Join, TypeOK, machinery, history
<1>4. CASE Expire
  BY <1>4 DEF Expire, TypeOK, machinery, history
<1>5. CASE UNCHANGED vars
  BY <1>5 DEF vars, TypeOK
<1> QED
  BY <1>1, <1>2, <1>3, <1>4, <1>5, TypeRoutine, TypeCluster DEF Next, Drain

\* Every state of the drain and of the pods is well-formed.
THEOREM DrainTypes == Spec => []TypeOK
BY TypeInit, TypeStep, PTL DEF Spec

-----------------------------------------------------------------------------
(* Pods only move on.                                                      *)

\* The pod of the name n with the number g has been bound, and it is gone.
Known(n, g) ==
  pod[n].gen > g \/ (pod[n].gen = g /\ pod[n].phase # "pending")
Past(n, g) ==
  pod[n].gen > g \/ (pod[n].gen = g /\ pod[n].phase = "gone")

\* The pods of a name succeed each other; one that is gone does not return,
\* one that is bound is not unbound, and one that has finished has finished.
Onward(n) ==
  \/ pod'[n].gen > pod[n].gen
  \/ /\ pod'[n].gen = pod[n].gen
     /\ pod[n].phase = "gone" => pod'[n].phase = "gone"
     /\ pod[n].phase # "pending" => pod'[n].phase # "pending"
     /\ pod[n].finished => pod'[n].finished

LEMMA PodsOnward ==
  ASSUME TypeOK, [Next]_vars, NEW n \in Names
  PROVE  Onward(n) /\ (pod'[n].gen \in Nat /\ pod[n].gen \in Nat)
<1> USE DEF Onward, TypeOK, Pods
<1>1. CASE pod' = pod
  BY <1>1
<1>2. ASSUME NEW m \in Names,
             EvictAccepted(m) \/ Finish(m) \/ Delete(m) \/ Gone(m) \/ Replace(m)
               \/ Bind(m)
      PROVE  Onward(n) /\ pod'[n].gen \in Nat
  <2>1. CASE EvictAccepted(m)
    BY <2>1 DEF EvictAccepted
  <2>2. CASE Finish(m)
    BY <2>2 DEF Finish
  <2>3. CASE Delete(m)
    BY <2>3 DEF Delete
  <2>4. CASE Gone(m)
    BY <2>4 DEF Gone
  <2>5. CASE Replace(m)
    BY <2>5 DEF Replace, Bound0
  <2>6. CASE Bind(m)
    BY <2>6 DEF Bind
  <2> QED
    BY <1>2, <2>1, <2>2, <2>3, <2>4, <2>5, <2>6
<1>3. \/ pod' = pod
      \/ \E m \in Names : EvictAccepted(m) \/ Finish(m) \/ Delete(m) \/ Gone(m)
                            \/ Replace(m) \/ Bind(m)
  BY DEF Next, Drain, CountGPUPods, ListPods, Join, Expire, Routine,
         EvictTimesOut, EvictNotFound, EvictRefused, EvictForbidden,
         WaitedForDelete, WaitTimesOut, RoutineFails, vars
<1> QED
  BY <1>1, <1>2, <1>3

\* So that what is known, or past, stays so.
LEMMA PastStays ==
  ASSUME TypeOK, [Next]_vars, NEW n \in Names, NEW g \in Nat
  PROVE  (Known(n, g) => Known(n, g)') /\ (Past(n, g) => Past(n, g)')
BY PodsOnward DEF Onward, Known, Past

\* The strengthening.  What was listed has been bound, the goroutine of a name
\* follows the pod that was listed or a successor, and it only reports success
\* when the listed pod is gone.
ListedInv ==
  /\ pc \in {"count", "list"} => list = {}
  /\ \A n \in Names : active[n].gen <= pod[n].gen
  /\ \A n \in Names, g \in Nat : <<n, g>> \in list =>
       /\ Known(n, g) /\ g <= active[n].gen
       /\ pc = "evict" /\ routine[n] = "ok" => Past(n, g)
       /\ pc = "ok" => Past(n, g)

\* As many pods were listed as were counted.
CountInv ==
  /\ IsFiniteSet(list) /\ IsFiniteSet(counted)
  /\ pc = "list" => count = Cardinality(counted)
  /\ pc \in {"evict", "ok"} => Cardinality(list) = Cardinality(counted)

\* A goroutine was started for pods that may be ended.
StartedInv ==
  pc = "evict" =>
    \A n \in Names : routine[n] = "evict" /\ pod[n].gen = 0 /\ ~pod[n].finished
      => MayEnd(n)

-----------------------------------------------------------------------------
(* What was listed.                                                        *)

LEMMA ListedInit == Init => ListedInv
<1> SUFFICES ASSUME Init PROVE ListedInv
  OBVIOUS
<1>1. ASSUME NEW n \in Names PROVE active[n].gen <= pod[n].gen
  <2>1. pod[n] \in InitialPods(n) /\ active[n].gen = 0
    BY DEF Init
  <2>2. pod[n].gen = 0
    BY <2>1 DEF InitialPods, Bound0
  <2> QED
    BY <2>1, <2>2
<1> QED
  BY <1>1 DEF Init, ListedInv

\* A goroutine changes nothing but its own state and the mark of its pod; it
\* succeeds only when the pod of its name is gone or is not the one it holds,
\* and comes to hold no pod but the one of its name.
LEMMA RoutineMoves ==
  ASSUME TypeOK, NEW n \in Names, Routine(n) \/ RoutineFails(n), NEW m \in Names
  PROVE  /\ pc = "evict" /\ UNCHANGED <<pc, list, count, counted>>
         /\ pod'[m].gen = pod[m].gen /\ pod'[m].phase = pod[m].phase
         /\ active'[m].gen \in {active[m].gen, pod[m].gen}
         /\ routine'[m] = "ok" /\ routine[m] # "ok" =>
              ~Exists(m) \/ pod[m].gen # active[m].gen
         /\ routine'[m] = "evict" => routine[m] = "evict"
<1> USE DEF TypeOK, history, Goes, Running
<1> DEFINE Moves ==
      /\ pc = "evict" /\ UNCHANGED <<pc, list, count, counted>>
      /\ pod'[m].gen = pod[m].gen /\ pod'[m].phase = pod[m].phase
      /\ active'[m].gen \in {active[m].gen, pod[m].gen}
      /\ routine'[m] = "ok" /\ routine[m] # "ok" =>
           ~Exists(m) \/ pod[m].gen # active[m].gen
      /\ routine'[m] = "evict" => routine[m] = "evict"
<1>0. ASSUME Refresh(n) PROVE active'[m].gen \in {active[m].gen, pod[m].gen}
  BY <1>0 DEF Refresh, Snapshot
<1>1. EvictTimesOut(n) => Moves
  BY DEF EvictTimesOut
<1>2. EvictNotFound(n) => Moves
  BY DEF EvictNotFound
<1>3. EvictAccepted(n) => Moves
  BY DEF EvictAccepted, Pods
<1>4. EvictRefused(n) => Moves
  BY <1>0 DEF EvictRefused
<1>5. EvictForbidden(n) => Moves
  BY <1>0 DEF EvictForbidden
<1>6. WaitedForDelete(n) => Moves
  BY DEF WaitedForDelete
<1>7. WaitTimesOut(n) => Moves
  BY DEF WaitTimesOut
<1>8. RoutineFails(n) => Moves
  BY DEF RoutineFails
<1> QED
  BY <1>1, <1>2, <1>3, <1>4, <1>5, <1>6, <1>7, <1>8 DEF Routine

\* Every step but those of the drain itself leaves it where it is.
LEMMA Elsewhere ==
  ASSUME [Next]_vars, ~Drain, \A n \in Names : ~(Routine(n) \/ RoutineFails(n))
  PROVE  UNCHANGED <<pc, machinery, counted>>
BY DEF Next, Expire, Finish, Delete, Gone, Replace, Bind, vars, machinery,
       history

LEMMA ListedStep == TypeOK /\ ListedInv /\ [Next]_vars => ListedInv'
<1> SUFFICES ASSUME TypeOK, ListedInv, [Next]_vars PROVE ListedInv'
  OBVIOUS
<1>1. /\ TypeOK'
      /\ \A n \in Names : /\ pod[n].gen \in Nat /\ pod'[n].gen \in Nat
                          /\ active[n].gen \in Nat /\ active'[n].gen \in Nat
                          /\ pod[n].phase \in {"bound", "pending", "gone"}
                          /\ pod'[n].gen >= pod[n].gen
  BY TypeStep, PodsOnward DEF TypeOK, Pods, Onward
<1>2. CASE UNCHANGED <<pc, list, active, routine>>
  BY <1>1, <1>2, PastStays DEF ListedInv
<1>3. ASSUME NEW n \in Names, Routine(n) \/ RoutineFails(n) PROVE ListedInv'
  <2>1. \A m \in Names : active'[m].gen <= pod'[m].gen
    BY <1>1, <1>3, RoutineMoves DEF ListedInv
  <2>2. ASSUME NEW m \in Names, NEW g \in Nat, <<m, g>> \in list'
        PROVE  /\ Known(m, g)' /\ g <= active'[m].gen
               /\ pc' = "evict" /\ routine'[m] = "ok" => Past(m, g)'
    <3>1. <<m, g>> \in list /\ Known(m, g) /\ g <= active[m].gen
          /\ pc = "evict" /\ active[m].gen <= pod[m].gen
      BY <1>3, <2>2, RoutineMoves DEF ListedInv
    <3>2. CASE routine[m] = "ok"
      BY <1>1, <1>3, <3>1, <3>2, <2>1, RoutineMoves, PastStays DEF ListedInv
    <3>3. CASE routine[m] # "ok"
      <4>1. ~Exists(m) \/ pod[m].gen # active[m].gen => Past(m, g)
        BY <1>1, <3>1 DEF Known, Past, Exists
      <4> QED
        BY <1>1, <1>3, <3>1, <3>3, <4>1, RoutineMoves, PastStays
    <3> QED
      BY <3>2, <3>3
  <2> QED
    BY <1>3, <2>1, <2>2, RoutineMoves DEF ListedInv
<1>4. CASE CountGPUPods
  BY <1>1, <1>4 DEF CountGPUPods, ListedInv
<1>5. CASE ListPods
  <2>1. pod' = pod /\ pc = "list"
    BY <1>5, Listing
  <2>2. CASE UNCHANGED <<list, active, routine>> /\ pc' \in {"failed", "panicked"}
    BY <1>1, <2>1, <2>2 DEF ListedInv
  <2>3. ASSUME NEW found \in SUBSET DeletableHere, Start(found) PROVE ListedInv'
    <3>1. /\ list' = {Uid(n) : n \in found} /\ pc' = "evict"
          /\ active' = [n \in Names |-> IF n \in found THEN Snapshot(n)
                                        ELSE active[n]]
          /\ routine' = [n \in Names |-> IF n \in found THEN "evict"
                                         ELSE "none"]
      BY <2>3 DEF Start
    <3>2. \A n \in Names : active'[n].gen <= pod'[n].gen
      BY <1>1, <2>1, <3>1 DEF Snapshot, ListedInv
    <3>3. ASSUME NEW n \in Names, NEW g \in Nat, <<n, g>> \in list'
          PROVE  Known(n, g)' /\ g <= active'[n].gen /\ routine'[n] = "evict"
      <4>1. n \in found /\ g = pod[n].gen
        BY <3>1, <3>3 DEF Uid
      <4> QED
        BY <1>1, <2>1, <3>1, <4>1
           DEF Snapshot, Known, DeletableHere, OnNode, Exists
    <3> QED
      BY <3>1, <3>2, <3>3 DEF ListedInv
  <2> QED
    BY <1>5, <2>2, <2>3, Listing
<1>6. CASE Join
  <2>1. ASSUME NEW n \in Names, NEW g \in Nat, <<n, g>> \in list, pc' = "ok"
        PROVE  routine[n] = "ok"
    <3>1. <<n, g>>[1] = n
      OBVIOUS
    <3> QED
      BY <1>6, <2>1, <3>1 DEF Join
  <2> QED
    BY <1>1, <1>6, <2>1, PastStays DEF Join, ListedInv, machinery
<1> QED
  BY <1>2, <1>3, <1>4, <1>5, <1>6, Elsewhere DEF Drain, machinery

LEMMA CountStep ==
  TypeOK /\ ListedInv /\ CountInv /\ [Next]_vars => CountInv'
<1> SUFFICES ASSUME TypeOK, ListedInv, CountInv, [Next]_vars PROVE CountInv'
  OBVIOUS
<1>1. CASE UNCHANGED <<pc, count, list, counted>>
  BY <1>1 DEF CountInv
<1>2. ASSUME NEW n \in Names, Routine(n) \/ RoutineFails(n)
      PROVE  UNCHANGED <<pc, count, list, counted>>
  BY <1>2, RoutineMoves
<1>3. CASE CountGPUPods
  <2>1. list' = {} /\ pc = "count" /\ Cardinality({}) = 0 /\ IsFiniteSet({})
    BY <1>3, FS_EmptySet DEF CountGPUPods, ListedInv
  <2>2. CASE counted' = {Uid(n) : n \in GPUPodsHere} /\ count' = Cardinality(counted')
             /\ pc' = IF count' = 0 THEN "ok" ELSE "list"
    <3>1. IsFiniteSet(counted')
      BY <2>2, UidsCounted DEF GPUPodsHere
    <3> QED
      BY <2>1, <2>2, <3>1 DEF CountInv
  <2>3. CASE pc' = "failed" /\ counted' = counted
    BY <2>1, <2>3 DEF CountInv
  <2> QED
    BY <1>3, <2>2, <2>3 DEF CountGPUPods
<1>4. CASE ListPods
  <2>1. pc = "list" /\ counted' = counted
    BY <1>4, Listing
  <2>2. CASE pc' \in {"failed", "panicked"} /\ list' = list
    BY <2>1, <2>2 DEF CountInv
  <2>3. ASSUME NEW found \in SUBSET DeletableHere, Cardinality(found) = count,
               Start(found)
        PROVE  CountInv'
    <3>1. pc' = "evict" /\ list' = {Uid(n) : n \in found}
      BY <2>3 DEF Start
    <3>2. IsFiniteSet(list') /\ Cardinality(list') = count
      BY <2>3, <3>1, UidsCounted DEF DeletableHere
    <3> QED
      BY <2>1, <3>1, <3>2 DEF CountInv
  <2> QED
    BY <1>4, <2>2, <2>3, Listing
<1>5. CASE Join
  BY <1>5 DEF Join, CountInv, machinery, history
<1> QED
  BY <1>1, <1>2, <1>3, <1>4, <1>5, Elsewhere DEF Drain, machinery

LEMMA StartedStep == TypeOK /\ StartedInv /\ [Next]_vars => StartedInv'
<1> SUFFICES ASSUME TypeOK, StartedInv, [Next]_vars, pc' = "evict", NEW n \in Names,
                    routine'[n] = "evict", pod'[n].gen = 0, ~pod'[n].finished
             PROVE  MayEnd(n)
  BY DEF StartedInv, MayEnd
<1>1. CASE pc = "evict" /\ routine[n] = "evict"
  BY <1>1, PodsOnward DEF Onward, StartedInv
<1>2. ASSUME NEW m \in Names, Routine(m) \/ RoutineFails(m)
      PROVE  pc = "evict" /\ routine[n] = "evict"
  BY <1>2, RoutineMoves
<1>3. CASE ListPods
  <2>1. pod' = pod
    BY <1>3, Listing
  <2>2. ASSUME NEW found \in SUBSET DeletableHere, Start(found)
        PROVE  Deletable(n)
    BY <2>2 DEF Start, DeletableHere
  <2>3. Deletable(n)
    BY <1>3, <2>2, Listing
  <2> QED
    BY <2>1, <2>3 DEF Deletable, DaemonSetFilter, MirrorPodFilter,
       LocalStorageFilter, UnreplicatedFilter, PodUsesGPU, MayEnd
<1>4. ~CountGPUPods /\ ~Join
  BY DEF CountGPUPods, Join
<1> QED
  BY <1>1, <1>2, <1>3, <1>4, Elsewhere DEF Drain, machinery

IInv == TypeOK /\ ListedInv /\ CountInv /\ StartedInv

LEMMA DrainInvariant == Spec => []IInv
<1>1. Init => CountInv /\ StartedInv
  BY FS_EmptySet DEF Init, CountInv, StartedInv
<1>2. Init => IInv
  BY <1>1, TypeInit, ListedInit DEF IInv
<1>3. IInv /\ [Next]_vars => IInv'
  BY TypeStep, ListedStep, CountStep, StartedStep DEF IInv
<1> QED
  BY <1>2, <1>3, PTL DEF Spec

-----------------------------------------------------------------------------
(* What the drain promises.                                                *)

\* Whatever pods end, are deleted and are replaced meanwhile, a drain that
\* succeeds leaves no pod that was counted and still uses a GPU, unless one of
\* those it listed arrived after the count: as many were listed as were
\* counted, so those listed are those counted, and each goroutine saw its own
\* pod gone.
THEOREM CountedPodsAreGone == Spec => []CountedAreGone
<1>1. IInv => CountedAreGone
  <2> SUFFICES ASSUME IInv, pc = "ok", list \subseteq counted,
                      NEW n \in GPUPodsHere, Uid(n) \in counted
               PROVE  FALSE
    BY DEF CountedAreGone
  <2>1. list = counted
    BY FS_Subset DEF IInv, CountInv
  <2>2. n \in Names /\ Exists(n) /\ pod[n].gen \in Nat
    BY DEF GPUPodsHere, OnNode, IInv, TypeOK, Pods
  <2>3. <<n, pod[n].gen>> \in list
    BY <2>1 DEF Uid
  <2>4. Past(n, pod[n].gen)
    BY <2>2, <2>3 DEF IInv, ListedInv
  <2> QED
    BY <2>2, <2>4 DEF Past, Exists
<1> QED
  BY <1>1, DrainInvariant, PTL

\* The drain evicts no first pod of a name that uses no GPU, no pod of a live
\* DaemonSet, no mirror pod, and unless told otherwise none with local data or
\* without a controller: between the list and the request a pod may be
\* replaced, but its kind is the one that was judged.
THEOREM DrainSparesOthers == Spec => SparesOthers
<1>1. IInv /\ [Next]_vars =>
        [\A n \in Names : Spares(n)]_vars
  BY DEF IInv, StartedInv, Spares, EvictAccepted, Running
<1> QED
  BY <1>1, DrainInvariant, PTL DEF Spec, SparesOthers

\* The drain implements the promise: it lists pods that exist, once; after that
\* pods come and go, but none of those listed comes back; and it succeeds only
\* when each of them is gone.
LEMMA PromiseStep == IInv /\ [Next]_vars => [Promise!Next]_(Promise!vars)
<1> SUFFICES ASSUME IInv, [Next]_vars PROVE [Promise!Next]_(Promise!vars)
  OBVIOUS
<1> DEFINE alive == {Uid(n) : n \in {m \in Names : Exists(m)}}
           status == CASE pc \in {"count", "list"} -> "idle"
                       [] pc = "evict" -> "draining"
                       [] pc = "ok" -> "ok"
                       [] pc \in {"failed", "panicked"} -> "failed"
<1>0. /\ \A n \in Names : pod[n].gen \in Nat /\ pod'[n].gen \in Nat /\ Onward(n)
      /\ TypeOK /\ ListedInv /\ TypeOK'
  BY PodsOnward, TypeStep DEF IInv
<1>1. CASE UNCHANGED <<pc, list>>
  <2>1. ASSUME NEW u \in alive' \cap list PROVE u \in alive
    <3>1. PICK n \in Names : Exists(n)' /\ u = <<n, pod'[n].gen>>
      BY <2>1 DEF Uid
    <3>2. Known(n, pod'[n].gen)
      BY <1>0, <2>1, <3>1 DEF ListedInv
    <3>3. pod[n].gen = pod'[n].gen /\ pod[n].phase # "pending"
      BY <1>0, <3>2 DEF Known, Onward
    <3>4. pod'[n].phase = "bound" /\ pod[n].phase # "gone"
      BY <1>0, <3>1, <3>3 DEF Exists, Onward
    <3>5. Exists(n)
      BY <1>0, <3>3, <3>4 DEF Exists, TypeOK, Pods
    <3> QED
      BY <3>1, <3>3, <3>5 DEF Uid
  <2> QED
    BY <1>1, <2>1 DEF Promise!Next, Promise!Churn, Promise!vars
<1>2. ASSUME NEW n \in Names, Routine(n) \/ RoutineFails(n)
      PROVE  UNCHANGED <<pc, list>>
  BY <1>0, <1>2, RoutineMoves
<1>3. CASE CountGPUPods
  <2>1. alive' = alive /\ list' = list /\ pc = "count"
        /\ pc' \in {"ok", "list", "failed"}
    BY <1>3 DEF CountGPUPods, Exists, Uid
  <2> QED
    BY <2>1 DEF Promise!Next, Promise!Return, Promise!vars
<1>4. CASE ListPods
  <2> DEFINE Steps == [Promise!Next]_(Promise!vars)
  <2>1. alive' = alive /\ pc = "list"
    BY <1>4, Listing DEF Exists, Uid
  <2>2. CASE pc' \in {"failed", "panicked"} /\ list' = list
    BY <2>1, <2>2 DEF Promise!Next, Promise!Return
  <2>3. ASSUME NEW found \in SUBSET DeletableHere, Start(found) PROVE Steps
    <3>1. pc' = "evict" /\ list' = {Uid(n) : n \in found}
      BY <2>3 DEF Start
    <3>2. list' \subseteq alive
      BY <3>1 DEF DeletableHere, OnNode
    <3> QED
      BY <2>1, <3>1, <3>2 DEF Promise!Next, Promise!Choose
  <2> HIDE DEF Steps
  <2> QED
    BY <1>4, <2>2, <2>3, Listing DEF Steps
<1>5. CASE Join
  <2>1. alive' = alive /\ pc = "evict" /\ list' = list /\ pc' \in {"ok", "failed"}
    BY <1>5 DEF Join, Exists, Uid, machinery
  <2>2. CASE pc' = "failed"
    BY <2>1, <2>2 DEF Promise!Next, Promise!Fail
  <2>3. CASE pc' = "ok"
    <3>1. ASSUME NEW u \in list \cap alive PROVE FALSE
      <4>1. PICK n \in Names : Exists(n) /\ u = <<n, pod[n].gen>>
        BY <3>1 DEF Uid
      <4>2. routine[n] = "ok"
        BY <1>5, <2>3, <3>1, <4>1 DEF Join
      <4>3. Past(n, pod[n].gen)
        BY <1>0, <2>1, <3>1, <4>1, <4>2 DEF ListedInv
      <4> QED
        BY <1>0, <4>1, <4>3 DEF Past, Exists
    <3> QED
      BY <2>1, <2>3, <3>1 DEF Promise!Next, Promise!Succeed
  <2> QED
    BY <2>1, <2>2, <2>3
<1> QED
  BY <1>1, <1>2, <1>3, <1>4, <1>5, Elsewhere DEF Drain, machinery

THEOREM DrainKeepsPromise == Spec => KeepsPromise
<1>1. Init => Promise!Init
  BY DEF Init, Promise!Init
<1> QED
  BY <1>1, PromiseStep, DrainInvariant, PTL DEF Spec, KeepsPromise,
     Promise!Spec
=============================================================================
