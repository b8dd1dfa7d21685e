------------------------------ MODULE PodDrain ------------------------------
(***************************************************************************)
(* nvDrainNode: kube.Client.DeleteOrEvictPods counts the pods of the node  *)
(* that use a GPU, has the drain helper list those it may delete, compares *)
(* the two numbers, and evicts the listed pods with one goroutine each,    *)
(* while pods end, are deleted and are replaced by others of their name.   *)
(* DriverManager has this as the steps from CountGPUPods to                *)
(* GPUPodsDrained, for pods that never change under the drain.             *)
(***************************************************************************)
EXTENDS Naturals, FiniteSets

CONSTANTS
  Names,       \* namespaced names of pods
  Gpu,         \* those whose pods use a GPU, by a resource or by a claim ...
  Claimed,     \* ... and those that do by a claim, which a finished pod frees
  Managed,     \* pods with a controller
  Daemon,      \* pods of a DaemonSet
  Orphaned,    \* those whose DaemonSet is gone
  Mirror,      \* mirrors of static pods
  EmptyDir,    \* pods with local storage
  Closing,     \* pods in a namespace that is being deleted
  Pending,     \* pods whose binding to the node is under way at the start
  UseForce, DeleteEmptyDirData, HasTimeout,  \* the options of the drain
  Limit        \* how often each kind of Disturbance happens at most

Disturbances == {"fault", "replace"}

ASSUME KindsAssumption ==
  /\ IsFiniteSet(Names)
  /\ Gpu \subseteq Names /\ Claimed \subseteq Gpu /\ Managed \subseteq Names
  /\ Orphaned \subseteq Daemon /\ Daemon \subseteq Managed
  /\ Pending \subseteq Names /\ Closing \subseteq Names
  /\ Limit \in [Disturbances -> Nat]

VARIABLES
  pod,       \* the pod of each name, gen telling it from its predecessors
  pc,
  count,     \* numPodsToDelete
  list,      \* podDeleteList, as pairs of a name and a gen
  active,    \* activePod of the goroutine of a name
  routine,   \* how far that goroutine is
  expired,   \* the global timeout is over
  counted,   \* history: the pods that were counted
  used       \* history: the disturbances so far

machinery == <<count, list, active, routine>>
history == <<counted, used>>
vars == <<pod, pc, count, list, active, routine, expired, counted, used>>

Pods == [gen : Nat, here : BOOLEAN, finished : BOOLEAN, marked : BOOLEAN,
         phase : {"bound", "pending", "gone"}]
TypeOK ==
  /\ pod \in [Names -> Pods]
  /\ pc \in {"count", "list", "evict", "ok", "failed", "panicked"}
  /\ count \in 0..Cardinality(Names) /\ expired \in BOOLEAN
  /\ list \subseteq Names \X Nat /\ counted \subseteq Names \X Nat
  /\ active \in [Names -> [gen : Nat, marked : BOOLEAN]]
  /\ routine \in [Names -> {"none", "evict", "wait", "ok", "error"}]

-----------------------------------------------------------------------------
(* Pods.                                                                   *)

Exists(n) == pod[n].phase = "bound"
OnNode(n) == Exists(n) /\ pod[n].here
Uid(n) == <<n, pod[n].gen>>
Snapshot(n) == [gen |-> pod[n].gen, marked |-> pod[n].marked]

\* podUsesGPU and what it calls.
PodUsesGPU(n) == n \in Gpu /\ ~(n \in Claimed /\ pod[n].finished)

\* The filters of the drain helper in their order, the client's own one last.
\* As the code would be if pods of DaemonSets passed.
DaemonSetsToo(n) == n \in Names
DaemonSetFilter(n) ==
  n \in Daemon => pod[n].finished \/ (n \in Orphaned /\ UseForce)
MirrorPodFilter(n) == n \notin Mirror
LocalStorageFilter(n) ==
  n \in EmptyDir => pod[n].finished \/ DeleteEmptyDirData
UnreplicatedFilter(n) == n \in Managed \/ pod[n].finished \/ UseForce
Deletable(n) ==
  /\ DaemonSetFilter(n) /\ MirrorPodFilter(n) /\ LocalStorageFilter(n)
  /\ UnreplicatedFilter(n) /\ PodUsesGPU(n)

Bound0 == [gen |-> 0, here |-> TRUE, finished |-> FALSE, marked |-> FALSE,
           phase |-> "bound"]
InitialPods(n) ==
  IF n \in Pending THEN {[Bound0 EXCEPT !.phase = "pending"]}
  ELSE [gen : {0}, here : {TRUE}, finished : BOOLEAN, marked : BOOLEAN,
        phase : {"bound"}]

Init ==
  /\ pod \in {f \in [Names -> UNION {InitialPods(n) : n \in Names}] :
                \A n \in Names : f[n] \in InitialPods(n)}
  /\ pc = "count" /\ count = 0 /\ list = {} /\ expired = FALSE
  /\ active = [n \in Names |-> [gen |-> 0, marked |-> FALSE]]
  /\ routine = [n \in Names |-> "none"]
  /\ counted = {} /\ used = [k \in Disturbances |-> 0]

Spend(k) == used[k] < Limit[k] /\ used' = [used EXCEPT ![k] = @ + 1]

-----------------------------------------------------------------------------
(* DeleteOrEvictPods of the client.                                        *)

GPUPodsHere == {n \in Names : OnNode(n) /\ PodUsesGPU(n)}

\* As the code would be if it counted the containers, two of each pod.
CountContainers ==
  /\ pc = "count"
  /\ \/ /\ counted' = {Uid(n) : n \in GPUPodsHere}
        /\ count' = 2 * Cardinality(counted')
        /\ pc' = IF count' = 0 THEN "ok" ELSE "list"
        /\ UNCHANGED used
     \/ Spend("fault") /\ pc' = "failed" /\ UNCHANGED <<count, counted>>
  /\ UNCHANGED <<pod, list, active, routine, expired>>
CountGPUPods ==
  /\ pc = "count"
  /\ \/ /\ counted' = {Uid(n) : n \in GPUPodsHere}
        /\ count' = Cardinality(counted')
        /\ pc' = IF count' = 0 THEN "ok" ELSE "list"
        /\ UNCHANGED used
     \/ Spend("fault") /\ pc' = "failed" /\ UNCHANGED <<count, counted>>
  /\ UNCHANGED <<pod, list, active, routine, expired>>

DeletableHere == {n \in Names : OnNode(n) /\ Deletable(n)}

\* The pods found, and a goroutine for each.
Start(found) ==
  /\ list' = {Uid(n) : n \in found} /\ pc' = "evict"
  /\ active' = [n \in Names |-> IF n \in found THEN Snapshot(n) ELSE active[n]]
  /\ routine' = [n \in Names |-> IF n \in found THEN "evict" ELSE "none"]

\* They are started when the numbers agree, whatever went wrong on the way.
StartIfAll(found) ==
  \/ Cardinality(found) = count /\ Start(found)
  \/ /\ Cardinality(found) # count /\ pc' = "failed"
     /\ UNCHANGED <<list, active, routine>>

\* As the code would be if it did not compare the numbers.
ListPodsOnly ==
  /\ pc = "list" /\ Start(DeletableHere)
  /\ UNCHANGED <<pod, count, expired, history>>
\* GetPodsForDeletion: a pod whose DaemonSet or claim cannot be looked at is
\* left out; a list that fails is nil and its use a panic.
ListPods ==
  /\ pc = "list"
  /\ \/ StartIfAll(DeletableHere) /\ UNCHANGED used
     \/ /\ Spend("fault")
        /\ \/ \E n \in DeletableHere : StartIfAll(DeletableHere \ {n})
           \/ pc' = "panicked" /\ UNCHANGED <<list, active, routine>>
  /\ UNCHANGED <<pod, count, expired, counted>>

-----------------------------------------------------------------------------
(* The goroutine of a pod in evictPods.                                    *)

Goes(n, l) == routine' = [routine EXCEPT ![n] = l]

\* An eviction that was not accepted is tried again, at once, with the pod
\* that has the name now, unless the read of it fails.
Refresh(n) ==
  \/ Exists(n) /\ active' = [active EXCEPT ![n] = Snapshot(n)] /\ UNCHANGED used
  \/ ~Exists(n) /\ UNCHANGED <<active, used>>
  \/ Spend("fault") /\ UNCHANGED active

Running(n, l) == pc = "evict" /\ routine[n] = l

\* As the code would be if only a pod that is gone ended the retries.
EvictNeverTimesOut(n) ==
  /\ Running(n, "evict") /\ expired /\ ~Exists(n) /\ Goes(n, "error")
  /\ UNCHANGED <<pod, pc, count, list, active, expired, history>>
EvictTimesOut(n) ==
  /\ Running(n, "evict") /\ expired /\ Goes(n, "error")
  /\ UNCHANGED <<pod, pc, count, list, active, expired, history>>

EvictNotFound(n) ==
  /\ Running(n, "evict") /\ ~expired /\ ~Exists(n) /\ Goes(n, "ok")
  /\ UNCHANGED <<pod, pc, count, list, active, expired, history>>

\* The request names the pod, not its UID.
EvictAccepted(n) ==
  /\ Running(n, "evict") /\ ~expired /\ Exists(n) /\ n \notin Closing
  /\ pod' = [pod EXCEPT ![n].marked = TRUE] /\ Goes(n, "wait")
  /\ UNCHANGED <<pc, count, list, active, expired, history>>

\* 429, as long as a disruption budget says so.
EvictRefused(n) ==
  /\ Running(n, "evict") /\ ~expired /\ Exists(n) /\ n \notin Closing
  /\ Refresh(n)
  /\ UNCHANGED <<pod, pc, count, list, routine, expired, counted>>

\* 403 in a namespace that is being deleted.
EvictForbidden(n) ==
  /\ Running(n, "evict") /\ ~expired /\ Exists(n) /\ n \in Closing
  /\ IF active[n].marked THEN Goes(n, "wait") /\ UNCHANGED <<active, used>>
     ELSE Refresh(n) /\ UNCHANGED routine
  /\ UNCHANGED <<pod, pc, count, list, expired, counted>>

RoutineFails(n) ==
  /\ Running(n, "evict") \/ Running(n, "wait")
  /\ Spend("fault") /\ Goes(n, "error")
  /\ UNCHANGED <<pod, pc, count, list, active, expired, counted>>

\* As the code would be if a pod that is being deleted were as good as gone.
WaitedForMark(n) ==
  /\ Running(n, "wait")
  /\ ~Exists(n) \/ pod[n].gen # active[n].gen \/ pod[n].marked
  /\ Goes(n, "ok")
  /\ UNCHANGED <<pod, pc, count, list, active, expired, history>>
\* waitForDelete of the pod the routine holds.
WaitedForDelete(n) ==
  /\ Running(n, "wait")
  /\ ~Exists(n) \/ pod[n].gen # active[n].gen
  /\ Goes(n, "ok")
  /\ UNCHANGED <<pod, pc, count, list, active, expired, history>>

WaitTimesOut(n) ==
  /\ Running(n, "wait") /\ expired /\ Goes(n, "error")
  /\ UNCHANGED <<pod, pc, count, list, active, expired, history>>

Routine(n) ==
  \/ EvictTimesOut(n) \/ EvictNotFound(n) \/ EvictAccepted(n)
  \/ EvictRefused(n) \/ EvictForbidden(n) \/ WaitedForDelete(n)
  \/ WaitTimesOut(n)

\* One result from every goroutine.
Join ==
  /\ pc = "evict" /\ \A u \in list : routine[u[1]] \in {"ok", "error"}
  /\ pc' = IF \E u \in list : routine[u[1]] = "error" THEN "failed" ELSE "ok"
  /\ UNCHANGED <<pod, machinery, expired, history>>

Drain == CountGPUPods \/ ListPods \/ Join

-----------------------------------------------------------------------------
(* The cluster.                                                            *)

Finish(n) ==
  /\ Exists(n) /\ ~pod[n].finished
  /\ pod' = [pod EXCEPT ![n].finished = TRUE]
  /\ UNCHANGED <<pc, machinery, expired, history>>

\* By its owner, its controller or the end of its namespace.
Delete(n) ==
  /\ Exists(n) /\ ~pod[n].marked
  /\ pod' = [pod EXCEPT ![n].marked = TRUE]
  /\ UNCHANGED <<pc, machinery, expired, history>>

\* The kubelet has ended its containers.
Gone(n) ==
  /\ Exists(n) /\ pod[n].marked
  /\ pod' = [pod EXCEPT ![n].phase = "gone", ![n].finished = TRUE]
  /\ UNCHANGED <<pc, machinery, expired, history>>

\* A controller makes another pod of the name; the node is cordoned, which
\* only the pods of DaemonSets tolerate.
Replace(n) ==
  /\ pod[n].phase = "gone" /\ n \in Managed \ (Closing \cup Orphaned)
  /\ Spend("replace")
  /\ pod' = [pod EXCEPT ![n] = [Bound0 EXCEPT !.gen = pod[n].gen + 1,
                                              !.here = n \in Daemon]]
  /\ UNCHANGED <<pc, machinery, expired, counted>>

\* The scheduler had chosen the node before it was cordoned.
Bind(n) ==
  /\ pod[n].phase = "pending"
  /\ pod' = [pod EXCEPT ![n].phase = "bound"]
  /\ UNCHANGED <<pc, machinery, expired, history>>

Expire ==
  /\ HasTimeout /\ pc = "evict" /\ ~expired /\ expired' = TRUE
  /\ UNCHANGED <<pod, pc, machinery, history>>

Next ==
  \/ Drain \/ Expire
  \/ \E n \in Names : \/ Routine(n) \/ RoutineFails(n)
                      \/ Finish(n) \/ Delete(n) \/ Gone(n)
                      \/ Replace(n) \/ Bind(n)

Spec == Init /\ [][Next]_vars

\* The manager's goroutines are scheduled and the timer fires; nothing is
\* assumed of the pods, and an eviction may be refused for ever.
FairSpec ==
  /\ Spec /\ WF_vars(Drain) /\ WF_vars(Expire)
  /\ \A n \in Names : WF_vars(Routine(n))

-----------------------------------------------------------------------------
(* Properties.                                                             *)

\* The drain keeps its promise for the pods it lists, whatever happens to pods
\* and names on the way: it succeeds only when each of them is gone.
Promise == INSTANCE Evacuation WITH
  alive <- {Uid(n) : n \in {m \in Names : Exists(m)}},
  chosen <- list,
  status <- CASE pc \in {"count", "list"} -> "idle"
              [] pc = "evict" -> "draining"
              [] pc = "ok" -> "ok"
              [] pc \in {"failed", "panicked"} -> "failed"
KeepsPromise == Promise!Spec

\* A drain that succeeds leaves no pod that was counted and still uses a GPU,
\* unless one of those it listed arrived after the count.
CountedAreGone ==
  pc = "ok" /\ list \subseteq counted =>
    \A n \in GPUPodsHere : Uid(n) \notin counted

\* The kinds of pods it is for the drain to end.
MayEnd(n) ==
  /\ n \in Gpu /\ n \notin Daemon \ Orphaned /\ n \notin Mirror
  /\ n \in EmptyDir => DeleteEmptyDirData
  /\ n \notin Managed => UseForce
Spares(n) ==
  EvictAccepted(n) /\ pod[n].gen = 0 /\ ~pod[n].finished => MayEnd(n)
\* The drain itself ends no pod it should leave alone: one that uses no GPU,
\* the pod of a live DaemonSet, a mirror pod, and unless told otherwise one
\* with local data or without a controller; finished pods excepted.
SparesOthers == [][\A n \in Names : Spares(n)]_vars

\* With a drain timeout the drain returns, although evictions may be refused
\* and pods linger for ever.
TimeoutEndsDrain == expired ~> pc \in {"ok", "failed"}

\* main.go:406: "Delete any GPU pods running on the node."
AllCountedAreGone == pc = "ok" => \A n \in GPUPodsHere : Uid(n) \notin counted

\* client.go:271: "Draining node %s of any GPU pods": no pod of another node
\* is evicted.
OnlyThisNode == [][\A n \in Names : EvictAccepted(n) => pod[n].here]_vars
=============================================================================
