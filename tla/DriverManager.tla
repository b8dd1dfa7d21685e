--------------------------- MODULE DriverManager ---------------------------
(***************************************************************************)
(* The uninstall_driver command of the driver-manager on one node          *)
(* (cmd/driver-manager/main.go), with the node object, the pods and the    *)
(* host it acts on, and what happens around it: the DaemonSet controller   *)
(* and the kubelet, workloads that come and go, an administrator who edits *)
(* labels, API calls that fail or whose answer is lost, timeouts, crashes, *)
(* reboots, and a new driver pod with another configuration.               *)
(*                                                                         *)
(* The command runs as an init container: when it fails the kubelet starts *)
(* it again with an empty memory, and when it succeeds the driver          *)
(* container installs the driver.  pc names the call the process is at.    *)
(***************************************************************************)
EXTENDS NodeLabels, Naturals

CONSTANTS
  Components,      \* the operands whose labels and pods are followed
  Workloads,       \* user pods that use a GPU, each one pod (one UID)
  ClaimPods,       \* the workloads that hold a ResourceClaim of the GPU driver
  DaemonPods,      \* the workloads of DaemonSets, which tolerate a cordon
  Unmanaged,       \* the workloads that the drain filters refuse to delete
  DriverModules,   \* the kernel modules unloadDriver looks for
  Gpus,            \* the devices that may be bound to vfio-pci
  Digests,         \* driver configuration digests
  Configs,         \* the environments a driver pod may start with
  Nodes,           \* the initial states of the node and its host
  PatchSteps,      \* attempts of UpdateNodeLabels (7 in the code)
  Limit            \* how many of each disturbance a behaviour has

Disturbances == {"fault", "misread", "timeout", "crash", "redeploy", "edit"}
HostFacts    == DriverModules \cup {"nouveau", "mofed", "hostDriver"}
Mounts       == {"rootfs", "pid"}
PodStates    == {"absent", "running", "stale", "terminating"}
WorkStates   == {"pending", "assigned", "running", "terminating", "gone"}

Config == [forceReinstall : BOOLEAN, gpuPodEviction : BOOLEAN,
           autoDrain : BOOLEAN, rdma : BOOLEAN, customLabel : BOOLEAN,
           drainTimeout : BOOLEAN,   \* FALSE: 0, the drain never gives up
           selected : SUBSET (Workloads \cup {"driver"}),
           digest : Digests \cup {"unset"}]

Node == [labels : [Components -> {v \in LabelValues : ~v.paused}],
         host : SUBSET HostFacts, stale : SUBSET Mounts, vfio : SUBSET Gpus,
         digest : Digests \cup {"none"}, running : SUBSET Workloads,
         cordoned : BOOLEAN,    \* by the administrator
         annotation : BOOLEAN]  \* the upgrade policy owns the drain

ASSUME DriverManagerAssumption ==
  /\ Components \subseteq Operands
  /\ ClaimPods \subseteq Workloads /\ DaemonPods \subseteq Unmanaged
  /\ Unmanaged \subseteq Workloads
  /\ "nvidia" \in DriverModules
  /\ DriverModules \cap {"nouveau", "mofed", "hostDriver"} = {}
  /\ Configs \subseteq Config /\ Nodes \subseteq Node
  \* the other modules use symbols of nvidia
  /\ \A n \in Nodes : n.host \cap DriverModules # {} => "nvidia" \in n.host
  /\ PatchSteps \in Nat \ {0}
  /\ Limit \in [Disturbances -> Nat]

VARIABLES
  pc,             \* where the process is, or why it is not running
  path,           \* which part of uninstallDriver it took
  todo,           \* what the loop it is in has not dealt with yet
  tries,          \* failed attempts of the current UpdateNodeLabels
  comps,          \* dm.components: the label values it fetched
  policy,         \* dm.components.autoUpgradePolicyEnabled = "true"
  failed,         \* an error collected by the loop it is in
  attempt,        \* calls of cleanupDriver so far
  cfg,            \* dm.config and DRIVER_CONFIG_DIGEST
  labels, unschedulable, annotation,      \* the node object
  pod, wl,                                \* pods of operands and of users
  host, stale, vfio, digest,              \* the host, digest in its state file
  want, ownCordon, inFlight,              \* history: see Init
  used                                    \* disturbances so far

process == <<path, todo, tries, comps, policy, failed, attempt, cfg>>
node    == <<labels, unschedulable, annotation>>
pods    == <<pod, wl>>
machine == <<host, stale, vfio, digest>>
history == <<want, ownCordon, inFlight>>
vars    == <<pc, process, node, pods, machine, history, used>>

Idle    == {"Failed", "Panicked", "Done", "Running", "Disabled"}
Active  == {"Start", "DisableDriver", "FetchLabels", "CheckLoaded",
            "EvictOperands", "AwaitOperands", "CordonNode", "CountGPUPods",
            "SelectGPUPods", "AwaitGPUPods", "DrainNode", "CheckHolders",
            "EvictPlugin", "AwaitPlugin", "CheckLoadedAgain", "UnloadModules",
            "DrainRetry", "UnmountRootfs", "UnloadNouveau", "UnbindVfio",
            "AwaitMofed", "Uncordon", "Reschedule", "Cleanup",
            "CleanupLabels"}
Paths   == {"none", "fresh", "skip", "full"}
-----------------------------------------------------------------------------
(* What the process and its surroundings read.                             *)

isDriverLoaded == "nvidia" \in host

isAutoDrainEnabled == cfg.autoDrain /\ ~policy
\* As the code would be if the annotation were not consulted.
EvictionIgnoresPolicy   == cfg.gpuPodEviction
isGPUPodEvictionEnabled == cfg.gpuPodEviction /\ ~policy
\* As the code would be if it asked for both features.
ManagerCanEvictBoth == ~policy /\ cfg.gpuPodEviction /\ cfg.autoDrain
managerCanEvict     == ~policy /\ (cfg.gpuPodEviction \/ cfg.autoDrain)

DraDeployed == "draDriver" \in Components /\ ~IsEmpty(comps["draDriver"])

\* The manager cordons the node and evicts GPU pods before it unloads.
EvictsUpFront ==
  isGPUPodEvictionEnabled \/ (DraDeployed /\ isAutoDrainEnabled)

shouldSkipUninstall ==
  ~cfg.forceReinstall /\ isDriverLoaded /\ cfg.digest = digest

\* The label keys fetchCurrentLabels reads.
FetchKeys ==
  {c \in Components : c = "customOperand" => cfg.customLabel}

\* The kubelet-plugin answers NodeUnprepareResources.
PluginServes ==
  /\ "draDriver" \in Components /\ isDriverLoaded
  /\ pod["draDriver"] \in {"running", "stale"}

OnNode(w)    == wl[w] \in {"running", "terminating"}
Assigned     == {w \in Workloads : wl[w] = "assigned"}
HolderPods   == {w \in ClaimPods : OnNode(w)}
HolderOperands == {c \in Components \cap ClaimOperands : pod[c] # "absent"}
GPUPods      == {w \in Workloads : OnNode(w)} \cup HolderOperands
DeletablePods == {w \in Workloads \ Unmanaged : OnNode(w)}
LoadedModules == host \cap DriverModules

\* A pod that will not go away whatever time it is given: it holds a claim
\* that nobody can release, or its DaemonSet still wants it on the node.
OperandLingers(c) ==
  \/ pod[c] = "terminating" /\ c \in ClaimOperands /\ ~PluginServes
  \/ pod[c] \in {"running", "stale"} /\ Deploys(labels[c])
WorkloadLingers(w) == wl[w] = "terminating" /\ w \in ClaimPods /\ ~PluginServes

\* Something may keep a kernel module in use.
GpuInUse == \/ \E w \in Workloads : OnNode(w)
            \/ \E c \in Components : pod[c] # "absent"

Spend(k) == used[k] < Limit[k] /\ used' = [used EXCEPT ![k] = @ + 1]
-----------------------------------------------------------------------------
Init ==
  \E n \in Nodes :
    /\ pc = "Start" /\ path = "none" /\ todo = {} /\ tries = 0
    /\ comps = [c \in Components |-> Plain("empty")]
    /\ policy = FALSE /\ failed = FALSE /\ attempt = 0
    /\ cfg \in Configs
    /\ labels = n.labels /\ unschedulable = n.cordoned
    /\ annotation = n.annotation
    /\ pod = [c \in Components |->
                IF Deploys(n.labels[c]) THEN "running" ELSE "absent"]
    /\ wl = [w \in Workloads |->
               IF w \in n.running THEN "running" ELSE "pending"]
    /\ host = n.host /\ stale = n.stale /\ vfio = n.vfio
    /\ digest = n.digest
    \* what the administrator last asked of each label, "contested" once the
    \* request raced with a running attempt
    /\ want = [c \in Components |-> Intent(n.labels[c])]
    \* the manager asked for the cordon and never tried to lift it since
    /\ ownCordon = FALSE
    \* the pods chosen for the node and not bound when this attempt's
    \* CheckHolders passed
    /\ inFlight = {}
    /\ used = [k \in Disturbances |-> 0]
-----------------------------------------------------------------------------
(* Calls shared by several steps.                                          *)

\* As the code would be if it retried one time too many.
UpdateNodeLabelsOnceMore(new, ok, err) ==
  \/ /\ labels' = new /\ tries' = 0 /\ pc' = ok
     /\ UNCHANGED used
  \/ /\ Spend("fault")
     /\ labels' \in {labels, new}
     /\ \/ tries < PatchSteps /\ tries' = tries + 1 /\ UNCHANGED pc
        \/ tries = PatchSteps /\ tries' = 0 /\ pc' = err

\* kube.Client.UpdateNodeLabels: any error is retried, and an attempt whose
\* answer was lost may have been applied.
UpdateNodeLabels(new, ok, err) ==
  \/ /\ labels' = new /\ tries' = 0 /\ pc' = ok
     /\ UNCHANGED used
  \/ /\ Spend("fault")
     /\ labels' \in {labels, new}
     /\ \/ tries + 1 < PatchSteps /\ tries' = tries + 1 /\ UNCHANGED pc
        \/ tries + 1 = PatchSteps /\ tries' = 0 /\ pc' = err

\* kube.Client.UncordonNode where the caller only logs the error, so that a
\* lost answer is as good as an answer.
UncordonNode(enabled) ==
  \/ /\ enabled /\ ownCordon' = FALSE
     /\ \/ unschedulable' = FALSE /\ UNCHANGED used
        \/ UNCHANGED unschedulable /\ Spend("fault")
  \/ /\ ~enabled /\ UNCHANGED <<unschedulable, ownCordon, used>>

\* Where an error of evictKubeletPlugin, nvDrainNode or cleanupDriver leads.
EvictPluginFailed   == IF path = "fresh" THEN "Failed" ELSE "Cleanup"
NvDrainFailed       == IF isAutoDrainEnabled THEN "DrainNode" ELSE "Cleanup"
CleanupDriverFailed ==
  IF isAutoDrainEnabled /\ attempt = 1 THEN "DrainRetry" ELSE "Cleanup"
-----------------------------------------------------------------------------
(* Before anything is changed.                                             *)

\* isHostDriver; a failing nvidia-smi counts as "no driver on the host".
DetectHostDriver ==
  /\ pc = "Start"
  /\ \/ /\ "hostDriver" \in host /\ pc' = "DisableDriver"
        /\ UNCHANGED <<todo, used>>
     \/ /\ "hostDriver" \notin host /\ UNCHANGED used
        /\ pc' = "FetchLabels" /\ todo' = FetchKeys
     \/ /\ "hostDriver" \in host /\ Spend("fault")
        /\ pc' = "FetchLabels" /\ todo' = FetchKeys
  /\ UNCHANGED <<path, tries, comps, policy, failed, attempt, cfg, node, pods,
                 machine, history>>

\* disableContainerizedDriver, whose label makes the driver's DaemonSet
\* withdraw the pod this process runs in.
DisableDriver ==
  /\ pc = "DisableDriver"
  /\ UpdateNodeLabels(labels, "Disabled", "Failed")
  /\ UNCHANGED <<path, todo, comps, policy, failed, attempt, cfg,
                 unschedulable, annotation, pods, machine, history>>

\* fetchCurrentLabels reads the node once for every label.
FetchLabel(c) ==
  /\ pc = "FetchLabels" /\ c \in todo
  /\ comps' = [comps EXCEPT ![c] = GetNodeLabelValue(labels[c])]
  /\ todo' = todo \ {c}
  /\ UNCHANGED <<pc, path, tries, policy, failed, attempt, cfg, node, pods,
                 machine, history, used>>

FetchAutoUpgradeAnnotation ==
  /\ pc = "FetchLabels" /\ todo = {}
  /\ policy' = annotation /\ pc' = "CheckLoaded"
  /\ UNCHANGED <<path, todo, tries, comps, failed, attempt, cfg, node, pods,
                 machine, history, used>>

FetchFails ==
  /\ pc = "FetchLabels" /\ Spend("fault")
  /\ pc' = "Failed" /\ todo' = {}
  /\ UNCHANGED <<path, tries, comps, policy, failed, attempt, cfg, node, pods,
                 machine, history>>

\* The fresh path skips every eviction but the kubelet-plugin's.
CheckLoaded ==
  /\ pc = "CheckLoaded"
  /\ \/ isDriverLoaded /\ pc' = "EvictOperands" /\ UNCHANGED path
     \/ ~isDriverLoaded /\ pc' = "EvictPlugin" /\ path' = "fresh"
  /\ UNCHANGED <<todo, tries, comps, policy, failed, attempt, cfg, node, pods,
                 machine, history, used>>
-----------------------------------------------------------------------------
(* Operands.                                                               *)

\* evictAllGPUOperatorComponents: the patch, then waitForPodsToTerminate.
EvictOperands ==
  /\ pc = "EvictOperands"
  /\ UpdateNodeLabels(EvictPatch(comps, labels), "AwaitOperands", "Cleanup")
  /\ todo' = IF pc' = "AwaitOperands" THEN Waited(comps) ELSE {}
  /\ UNCHANGED <<path, comps, policy, failed, attempt, cfg, unschedulable,
                 annotation, pods, machine, history>>

\* As the code would be if a pod that is being deleted were as good as gone.
OperandLeaving(c) ==
  /\ pc = "AwaitOperands" /\ c \in todo
  /\ pod[c] \in {"absent", "terminating"}
  /\ todo' = todo \ {c}
  /\ UNCHANGED <<pc, path, tries, comps, policy, failed, attempt, cfg, node,
                 pods, machine, history, used>>
OperandGone(c) ==
  /\ pc = "AwaitOperands" /\ c \in todo /\ pod[c] = "absent"
  /\ todo' = todo \ {c}
  /\ UNCHANGED <<pc, path, tries, comps, policy, failed, attempt, cfg, node,
                 pods, machine, history, used>>

\* A pod list that fails, or five minutes without the pod going away.
AwaitOperandsFails ==
  /\ pc = "AwaitOperands"
  /\ \E c \in todo :
       \/ Spend("fault")
       \/ pod[c] # "absent" /\ Spend("timeout")
       \/ OperandLingers(c) /\ UNCHANGED used
  /\ pc' = "Cleanup" /\ todo' = {}
  /\ UNCHANGED <<path, tries, comps, policy, failed, attempt, cfg, node, pods,
                 machine, history>>

\* shouldSkipUninstall; a state file that cannot be read means "changed".
CheckSkip ==
  /\ pc = "AwaitOperands" /\ todo = {}
  /\ \/ /\ shouldSkipUninstall /\ UNCHANGED used
        /\ path' = "skip" /\ pc' = "EvictPlugin"
     \/ /\ \/ ~shouldSkipUninstall /\ UNCHANGED used
           \/ shouldSkipUninstall /\ Spend("misread")
        /\ path' = "full"
        /\ pc' = IF EvictsUpFront THEN "CordonNode" ELSE "CheckHolders"
  /\ UNCHANGED <<todo, tries, comps, policy, failed, attempt, cfg, node, pods,
                 machine, history>>
-----------------------------------------------------------------------------
(* GPU workloads.                                                          *)

\* kube.Client.CordonNode; its error leaves without any cleanup.
CordonNode ==
  /\ pc = "CordonNode"
  /\ \/ pc' = "CountGPUPods" /\ unschedulable' = TRUE /\ UNCHANGED used
     \/ /\ pc' = "Failed" /\ Spend("fault")
        /\ unschedulable' \in {unschedulable, TRUE}
  /\ ownCordon' = unschedulable'
  /\ UNCHANGED <<process, labels, annotation, pods, machine, want, inFlight>>

\* DeleteOrEvictPods lists the pods twice: here it counts those that use a
\* GPU ...
CountGPUPods ==
  /\ pc = "CountGPUPods"
  /\ \/ /\ todo' = GPUPods /\ UNCHANGED used
        /\ pc' = IF GPUPods = {} THEN "CheckHolders" ELSE "SelectGPUPods"
     \/ /\ Spend("fault") /\ pc' = NvDrainFailed /\ UNCHANGED todo
  /\ UNCHANGED <<path, tries, comps, policy, failed, attempt, cfg, node, pods,
                 machine, history>>

\* ... and here it takes those that may be deleted, which must be as many.
\* A pod whose claim or owner cannot be looked at is left out; when the list
\* itself fails, the nil PodDeleteList is dereferenced.
Select(found) ==
  \/ /\ Cardinality(found) = Cardinality(todo)
     /\ todo' = found /\ pc' = "AwaitGPUPods"
  \/ /\ Cardinality(found) # Cardinality(todo)
     /\ todo' = {} /\ pc' = NvDrainFailed

SelectGPUPods ==
  /\ pc = "SelectGPUPods"
  /\ \/ Select(DeletablePods) /\ UNCHANGED used
     \/ /\ Spend("fault")
        /\ \/ \E w \in DeletablePods : Select(DeletablePods \ {w})
           \/ pc' = "Panicked" /\ todo' = {}
  /\ UNCHANGED <<path, tries, comps, policy, failed, attempt, cfg, node, pods,
                 machine, history>>

\* evictPods runs one goroutine for each pod, and joins them all.
EvictWorkload(w) ==
  /\ pc = "AwaitGPUPods" /\ w \in todo /\ wl[w] = "running"
  /\ wl' = [wl EXCEPT ![w] = "terminating"]
  /\ UNCHANGED <<pc, process, node, pod, machine, history, used>>

EvictedWorkloadGone(w) ==
  /\ pc = "AwaitGPUPods" /\ w \in todo /\ wl[w] = "gone"
  /\ todo' = todo \ {w}
  /\ UNCHANGED <<pc, path, tries, comps, policy, failed, attempt, cfg, node,
                 pods, machine, history, used>>

\* An eviction refused for good, or the drain timeout when there is one.
EvictWorkloadFails(w) ==
  /\ pc = "AwaitGPUPods" /\ w \in todo
  /\ \/ Spend("fault")
     \/ cfg.drainTimeout /\ OnNode(w) /\ Spend("timeout")
     \/ cfg.drainTimeout /\ WorkloadLingers(w) /\ UNCHANGED used
  /\ todo' = todo \ {w} /\ failed' = TRUE
  /\ UNCHANGED <<pc, path, tries, comps, policy, attempt, cfg, node, pods,
                 machine, history>>

GPUPodsDrained ==
  /\ pc = "AwaitGPUPods" /\ todo = {}
  /\ pc' = IF failed THEN NvDrainFailed ELSE "CheckHolders"
  /\ failed' = FALSE
  /\ UNCHANGED <<path, todo, tries, comps, policy, attempt, cfg, node, pods,
                 machine, history, used>>

\* kube.Client.DrainNode, which neither ignores DaemonSet pods nor sets the
\* writers that the drain helper reports to: a pod that may not be deleted is
\* an error, a pod that may be deleted makes the process panic, and only a
\* selector that matches no pod lets it succeed.
DrainedBy(sel) ==
  IF "driver" \in sel \/ \E w \in sel \cap Unmanaged : OnNode(w)
    THEN "error"
    ELSE IF \E w \in sel \ Unmanaged : OnNode(w) THEN "panic" ELSE "drained"

DrainNode(next) ==
  \/ /\ DrainedBy(cfg.selected) = "drained" /\ pc' = next /\ UNCHANGED used
  \/ /\ DrainedBy(cfg.selected) = "panic" /\ pc' = "Panicked"
     /\ UNCHANGED used
  \/ /\ DrainedBy(cfg.selected) = "error" /\ pc' = "Cleanup" /\ UNCHANGED used
  \/ Spend("fault") /\ pc' = "Cleanup"

DrainAfterEviction ==
  /\ pc = "DrainNode" /\ DrainNode("CheckHolders")
  /\ UNCHANGED <<process, node, pods, machine, history>>

DrainAfterUnload ==
  /\ pc = "DrainRetry" /\ DrainNode("UnloadModules")
  /\ IF pc' = "UnloadModules"
       THEN attempt' = 2 /\ todo' = LoadedModules
       ELSE UNCHANGED <<attempt, todo>>
  /\ failed' = FALSE
  /\ UNCHANGED <<path, tries, comps, policy, cfg, node, pods, machine,
                 history>>
-----------------------------------------------------------------------------
(* The kubelet-plugin, after everybody who needs it.                       *)

\* As the code would be if it only looked at the holders that still run.
CheckHoldersRunning ==
  /\ pc = "CheckHolders"
  /\ IF DraDeployed /\ \E w \in ClaimPods : wl[w] = "running"
       THEN pc' = "Cleanup" /\ UNCHANGED inFlight
       ELSE pc' = "EvictPlugin" /\ inFlight' = Assigned
  /\ UNCHANGED <<process, node, pods, machine, want, ownCordon, used>>

\* GetGPUResourceClaimHolders, when there is a kubelet-plugin.
CheckHolders ==
  /\ pc = "CheckHolders"
  /\ \/ /\ DraDeployed /\ HolderPods \cup HolderOperands # {}
        /\ pc' = "Cleanup" /\ UNCHANGED <<inFlight, used>>
     \/ DraDeployed /\ Spend("fault") /\ pc' = "Cleanup" /\ UNCHANGED inFlight
     \/ /\ DraDeployed => HolderPods \cup HolderOperands = {}
        /\ pc' = "EvictPlugin" /\ inFlight' = Assigned /\ UNCHANGED used
  /\ UNCHANGED <<process, node, pods, machine, want, ownCordon>>

\* evictKubeletPlugin: the patch ...
EvictPlugin ==
  /\ pc = "EvictPlugin"
  /\ \/ /\ DraDeployed
        /\ UpdateNodeLabels(PausePluginPatch(comps, labels), "AwaitPlugin",
                            EvictPluginFailed)
     \/ /\ ~DraDeployed /\ UNCHANGED <<labels, tries, used>>
        /\ pc' = IF path = "full" THEN "CheckLoadedAgain" ELSE "UnmountRootfs"
  /\ UNCHANGED <<path, todo, comps, policy, failed, attempt, cfg,
                 unschedulable, annotation, pods, machine, history>>

\* As the code would be if it did not wait for the plugin's pod.
PluginGoneUnchecked ==
  /\ pc = "AwaitPlugin"
  /\ pc' = IF path = "full" THEN "CheckLoadedAgain" ELSE "UnmountRootfs"
  /\ UNCHANGED <<process, node, pods, machine, history, used>>

\* ... and the wait.
PluginGone ==
  /\ pc = "AwaitPlugin" /\ pod["draDriver"] = "absent"
  /\ pc' = IF path = "full" THEN "CheckLoadedAgain" ELSE "UnmountRootfs"
  /\ UNCHANGED <<process, node, pods, machine, history, used>>

AwaitPluginFails ==
  /\ pc = "AwaitPlugin"
  /\ \/ Spend("fault")
     \/ pod["draDriver"] # "absent" /\ Spend("timeout")
     \/ OperandLingers("draDriver") /\ UNCHANGED used
  /\ pc' = EvictPluginFailed
  /\ UNCHANGED <<process, node, pods, machine, history>>
-----------------------------------------------------------------------------
(* The host.                                                               *)

CheckLoadedAgain ==
  /\ pc = "CheckLoadedAgain"
  /\ \/ /\ isDriverLoaded /\ pc' = "UnloadModules"
        /\ attempt' = 1 /\ todo' = LoadedModules
     \/ /\ ~isDriverLoaded /\ pc' = "UnmountRootfs"
        /\ UNCHANGED <<attempt, todo>>
  /\ UNCHANGED <<path, tries, comps, policy, failed, cfg, node, pods, machine,
                 history, used>>

\* unloadDriver tries every module in turn, nvidia last, and goes on past
\* errors; nvidia cannot leave before the modules that use it.
UnloadModule(m) ==
  /\ pc = "UnloadModules" /\ m \in todo
  /\ m = "nvidia" => todo = {m}
  /\ todo' = todo \ {m}
  /\ \/ /\ m = "nvidia" => LoadedModules = {m}
        /\ host' = host \ {m} /\ UNCHANGED <<failed, used>>
     \/ /\ GpuInUse \/ (m = "nvidia" /\ LoadedModules # {m})
        /\ failed' = TRUE /\ UNCHANGED <<host, used>>
     \/ /\ Spend("fault") /\ failed' = TRUE /\ UNCHANGED host
  /\ UNCHANGED <<pc, path, tries, comps, policy, attempt, cfg, node, pods,
                 stale, vfio, digest, history>>

\* As the code would be if the collected errors were dropped.
UnloadDriverLenient ==
  /\ pc = "UnloadModules" /\ todo = {}
  /\ pc' = "UnmountRootfs" /\ failed' = FALSE
  /\ UNCHANGED <<path, todo, tries, comps, policy, attempt, cfg, node, pods,
                 machine, history, used>>

UnloadDriver ==
  /\ pc = "UnloadModules" /\ todo = {}
  /\ pc' = IF failed THEN CleanupDriverFailed ELSE "UnmountRootfs"
  /\ failed' = FALSE
  /\ UNCHANGED <<path, todo, tries, comps, policy, attempt, cfg, node, pods,
                 machine, history, used>>

\* unmountRootfs and removePIDFile, whose error is only logged.  A pod that
\* still runs keeps a view of the driver's files that is now empty.
UnmountRootfs ==
  /\ pc = "UnmountRootfs"
  /\ \/ /\ \/ stale' = {} /\ UNCHANGED used
           \/ stale' = stale \ {"rootfs"} /\ Spend("fault")
        /\ pod' = IF "rootfs" \in stale
                    THEN [c \in Components |->
                            IF pod[c] = "running" THEN "stale" ELSE pod[c]]
                    ELSE pod
        /\ pc' = CASE path = "skip"  -> "Reschedule"
                   [] path = "fresh" -> "UnloadNouveau"
                   [] OTHER          -> "UnbindVfio"
     \/ /\ Spend("fault") /\ UNCHANGED <<stale, pod>>
        /\ pc' = CASE path # "full" -> "Failed"
                   [] attempt = 0   -> "Cleanup"
                   [] OTHER         -> CleanupDriverFailed
  /\ UNCHANGED <<process, node, wl, host, vfio, digest, history>>

\* unloadNouveau: before the devices are released on the fresh path, the very
\* last step of the full path.
UnloadNouveau ==
  /\ pc = "UnloadNouveau"
  /\ \/ /\ host' = host \ {"nouveau"} /\ UNCHANGED used
        /\ pc' = IF path = "fresh" THEN "UnbindVfio" ELSE "Done"
     \/ /\ "nouveau" \in host /\ Spend("fault")
        /\ pc' = "Failed" /\ UNCHANGED host
  /\ UNCHANGED <<process, node, pods, stale, vfio, digest, history>>

\* vfio-manage unbind --all, which goes on past the failure of a device and
\* still exits with success.
UnbindVfioPCI ==
  /\ pc = "UnbindVfio"
  /\ \/ vfio' = {} /\ pc' = "AwaitMofed" /\ UNCHANGED used
     \/ vfio' \in SUBSET vfio /\ pc' = "AwaitMofed" /\ Spend("fault")
     \/ /\ vfio' = vfio /\ Spend("fault")
        /\ pc' = IF path = "fresh" THEN "Failed" ELSE "Cleanup"
  /\ UNCHANGED <<process, node, pods, host, stale, digest, history>>

\* isGPUDirectRDMAEnabled and waitForMofedDriver, which waits for ever.
WaitForMofedDriver ==
  /\ pc = "AwaitMofed"
  /\ cfg.rdma => "mofed" \in host
  /\ pc' = "Uncordon"
  /\ UNCHANGED <<process, node, pods, machine, history, used>>
-----------------------------------------------------------------------------
(* The way out.                                                            *)

Uncordon ==
  /\ pc = "Uncordon" /\ pc' = "Reschedule"
  /\ UncordonNode(isGPUPodEvictionEnabled \/ isAutoDrainEnabled)
  /\ UNCHANGED <<process, labels, annotation, pods, machine, want, inFlight>>

RescheduleGPUOperatorComponents ==
  /\ pc = "Reschedule"
  /\ UpdateNodeLabels(ReschedulePatch(comps, labels),
                      IF path = "full" THEN "UnloadNouveau" ELSE "Done",
                      "Failed")
  /\ UNCHANGED <<path, todo, comps, policy, failed, attempt, cfg,
                 unschedulable, annotation, pods, machine, history>>

\* cleanupOnFailure: the cordon ...
CleanupOnFailure ==
  /\ pc = "Cleanup" /\ pc' = "CleanupLabels"
  /\ UncordonNode(managerCanEvict)
  /\ UNCHANGED <<process, labels, annotation, pods, machine, want, inFlight>>

\* ... and the labels; the command then fails whatever came of them.
CleanupLabels ==
  /\ pc = "CleanupLabels"
  /\ UpdateNodeLabels(ReschedulePatch(comps, labels), "Failed", "Failed")
  /\ UNCHANGED <<path, todo, comps, policy, failed, attempt, cfg,
                 unschedulable, annotation, pods, machine, history>>

Manager ==
  \/ DetectHostDriver \/ DisableDriver
  \/ \E c \in Components : FetchLabel(c) \/ OperandGone(c)
  \/ FetchAutoUpgradeAnnotation \/ FetchFails \/ CheckLoaded
  \/ EvictOperands \/ AwaitOperandsFails \/ CheckSkip
  \/ CordonNode \/ CountGPUPods \/ SelectGPUPods
  \/ \E w \in Workloads : \/ EvictWorkload(w)
                          \/ EvictedWorkloadGone(w)
                          \/ EvictWorkloadFails(w)
  \/ GPUPodsDrained \/ DrainAfterEviction \/ DrainAfterUnload
  \/ CheckHolders \/ EvictPlugin \/ PluginGone \/ AwaitPluginFails
  \/ CheckLoadedAgain \/ \E m \in DriverModules : UnloadModule(m)
  \/ UnloadDriver \/ UnmountRootfs \/ UnloadNouveau \/ UnbindVfioPCI
  \/ WaitForMofedDriver \/ Uncordon \/ RescheduleGPUOperatorComponents
  \/ CleanupOnFailure \/ CleanupLabels
-----------------------------------------------------------------------------
(* Around the process.                                                     *)

\* The memory of a process that starts.
FreshProcess ==
  /\ path' = "none" /\ todo' = {} /\ tries' = 0
  /\ comps' = [c \in Components |-> Plain("empty")]
  /\ policy' = FALSE /\ failed' = FALSE /\ attempt' = 0
  /\ inFlight' = {}

\* The kubelet restarts an init container that failed.
Restart ==
  /\ pc \in {"Failed", "Panicked"} /\ pc' = "Start"
  /\ FreshProcess
  /\ UNCHANGED <<cfg, node, pods, machine, want, ownCordon, used>>

\* The process is killed; it handles no signal.
Crash ==
  /\ pc \in Active /\ Spend("crash") /\ pc' = "Failed"
  /\ FreshProcess
  /\ UNCHANGED <<cfg, node, pods, machine, want, ownCordon>>

\* The node restarts: modules and /run are gone, the pods' containers are new.
Reboot ==
  /\ Spend("crash") /\ pc # "Disabled" /\ pc' = "Start"
  /\ FreshProcess
  /\ host' = host \ (DriverModules \cup {"mofed"})
  /\ stale' = {} /\ vfio' = {} /\ digest' = "none"
  /\ pod' = [c \in Components |->
               IF pod[c] = "stale" THEN "running" ELSE pod[c]]
  /\ UNCHANGED <<cfg, node, wl, want, ownCordon>>

\* The driver pod is replaced, its environment and the upgrade policy with it.
Redeploy ==
  /\ pc \in {"Failed", "Panicked", "Running"} /\ Spend("redeploy")
  /\ pc' = "Start" /\ cfg' \in Configs
  /\ annotation' \in {n.annotation : n \in Nodes}
  /\ FreshProcess
  /\ UNCHANGED <<labels, unschedulable, pods, machine, want, ownCordon>>

\* The driver container that follows the init container: it installs the
\* driver unless one is loaded, and records its configuration.
InstallDriver ==
  /\ pc = "Done" /\ pc' = "Running"
  /\ host' = IF isDriverLoaded THEN host ELSE host \cup DriverModules
  /\ stale' = Mounts
  /\ digest' = IF cfg.digest = "unset" THEN "none" ELSE cfg.digest
  /\ UNCHANGED <<process, node, pods, vfio, history, used>>

StartPod(c) ==
  /\ pod[c] = "absent" /\ Deploys(labels[c])
  /\ pod' = [pod EXCEPT ![c] = "running"]
  /\ UNCHANGED <<pc, process, node, wl, machine, history, used>>

StopPod(c) ==
  /\ pod[c] \in {"running", "stale"} /\ ~Deploys(labels[c])
  /\ pod' = [pod EXCEPT ![c] = "terminating"]
  /\ UNCHANGED <<pc, process, node, wl, machine, history, used>>

\* A pod that holds a claim ends only once the kubelet-plugin released it.
FinishPod(c) ==
  /\ pod[c] = "terminating"
  /\ c \in ClaimOperands /\ "draDriver" \in Components => PluginServes
  /\ pod' = [pod EXCEPT ![c] = "absent"]
  /\ UNCHANGED <<pc, process, node, wl, machine, history, used>>

\* The upgrade policy takes the drain over, or gives it back, at any time.
EditPolicy ==
  /\ Spend("redeploy") /\ annotation' = ~annotation
  /\ UNCHANGED <<pc, process, labels, unschedulable, pods, machine, history>>

\* The scheduler chooses the node for a pod (DaemonPods tolerate a cordon) ...
ScheduleWorkload(w) ==
  /\ wl[w] = "pending" /\ isDriverLoaded
  /\ w \in DaemonPods \/ ~unschedulable
  /\ w \in ClaimPods => PluginServes
  /\ wl' = [wl EXCEPT ![w] = "assigned"]
  /\ UNCHANGED <<pc, process, node, pod, machine, history, used>>

\* ... and binds it later, whatever was done to the node in between.
BindWorkload(w) ==
  /\ wl[w] = "assigned"
  /\ wl' = [wl EXCEPT ![w] = "running"]
  /\ UNCHANGED <<pc, process, node, pod, machine, history, used>>

DeleteWorkload(w) ==
  /\ wl[w] = "running"
  /\ wl' = [wl EXCEPT ![w] = "terminating"]
  /\ UNCHANGED <<pc, process, node, pod, machine, history, used>>

FinishWorkload(w) ==
  /\ wl[w] = "terminating"
  /\ w \in ClaimPods => PluginServes
  /\ wl' = [wl EXCEPT ![w] = "gone"]
  /\ UNCHANGED <<pc, process, node, pod, machine, history, used>>

MofedReady ==
  /\ cfg.rdma /\ "mofed" \notin host /\ host' = host \cup {"mofed"}
  /\ UNCHANGED <<pc, process, node, pods, stale, vfio, digest, history, used>>

\* The running attempt has read the label, and may write it back.
Tracked(c) ==
  /\ pc \in Active \ {"Start", "DisableDriver"} /\ c \in FetchKeys
  /\ ~(pc = "FetchLabels" /\ c \in todo)

EditLabel(c) ==
  /\ Spend("edit")
  /\ \E b \in Bases :
       /\ labels' = [labels EXCEPT ![c] = Plain(b)]
       /\ want' = [want EXCEPT ![c] = IF Tracked(c) THEN "contested"
                                                    ELSE Intent(Plain(b))]
  /\ UNCHANGED <<pc, process, unschedulable, annotation, pods, machine,
                 ownCordon, inFlight>>

Environment ==
  \/ Restart \/ Crash \/ Reboot \/ Redeploy \/ EditPolicy
  \/ InstallDriver \/ MofedReady
  \/ \E c \in Components : \/ StartPod(c) \/ StopPod(c) \/ FinishPod(c)
                           \/ EditLabel(c)
  \/ \E w \in Workloads : \/ ScheduleWorkload(w) \/ BindWorkload(w)
                          \/ DeleteWorkload(w) \/ FinishWorkload(w)

Next == Manager \/ Environment

Spec == Init /\ [][Next]_vars

\* The process takes its steps, the kubelet restarts it, the DaemonSet
\* controller and the kubelet do their work, MOFED gets installed.  Nothing
\* obliges a workload to come or to end by itself.
Fairness ==
  /\ WF_vars(Manager) /\ WF_vars(Restart) /\ WF_vars(InstallDriver)
  /\ WF_vars(MofedReady)
  /\ \A c \in Components : WF_vars(StartPod(c) \/ StopPod(c) \/ FinishPod(c))
  /\ \A w \in Workloads : WF_vars(FinishWorkload(w))

FairSpec == Spec /\ Fairness
-----------------------------------------------------------------------------
(* Properties.                                                             *)

\* Every variable keeps to its type; in particular UpdateNodeLabels never
\* begins an attempt past its PatchSteps.
TypeOK ==
  /\ pc \in Active \cup Idle /\ path \in Paths
  /\ todo \subseteq Components \cup Workloads \cup DriverModules
  /\ tries \in 0 .. PatchSteps - 1
  /\ comps \in [Components -> LabelValues]
  /\ policy \in BOOLEAN /\ failed \in BOOLEAN /\ attempt \in 0 .. 2
  /\ cfg \in Configs
  /\ labels \in [Components -> LabelValues]
  /\ unschedulable \in BOOLEAN /\ annotation \in BOOLEAN
  /\ pod \in [Components -> PodStates] /\ wl \in [Workloads -> WorkStates]
  /\ host \subseteq HostFacts /\ stale \subseteq Mounts /\ vfio \subseteq Gpus
  /\ digest \in Digests \cup {"none"}
  /\ want \in [Components -> Intents \cup {"contested"}]
  /\ ownCordon \in BOOLEAN /\ inFlight \subseteq Workloads
  /\ used \in [Disturbances -> Nat]

\* Whatever happens to the attempts - lost answers, crashes, other drivers -
\* a label keeps asking for what the administrator last asked for, unless the
\* request raced with a running attempt.
IntentPreserved ==
  \A c \in Components : want[c] # "contested" => Intent(labels[c]) = want[c]

\* Once the command succeeds no operand is left paused, not even one that an
\* earlier attempt paused and abandoned; the custom operand only counts while
\* the configuration names its label.
RestoredAtSuccess ==
  pc \in {"Done", "Running"} => \A c \in FetchKeys : ~labels[c].paused

\* On the loaded paths, between the wait and the rescheduling, the pods of the
\* operands that were deployed are gone and stay gone, so that modules are
\* unloaded and files unmounted with no operand on top of them.  The three in
\* NotAwaited are left out: nobody waits for the pods of nvsm and of the custom
\* operand, and the kubelet-plugin goes later.
NotAwaited == {"nvsm", "customOperand", "draDriver"}
Evicted ==
  {"CordonNode", "CountGPUPods", "SelectGPUPods", "AwaitGPUPods", "DrainNode",
   "CheckHolders", "EvictPlugin", "AwaitPlugin", "CheckLoadedAgain",
   "UnloadModules", "DrainRetry", "UnmountRootfs", "UnbindVfio",
   "AwaitMofed", "Uncordon"}
EvictedBeforeUnload ==
  pc \in Evicted /\ path \in {"skip", "full"} =>
    \A c \in Components \ NotAwaited :
      ~IsEmpty(comps[c]) /\ want[c] # "contested" => pod[c] = "absent"

\* The command implements the gate of OperandGate: it holds the driver alone
\* between the wait for the operands' pods and their rescheduling.
Gate == INSTANCE OperandGate WITH
  Readers <- Components \ NotAwaited,
  Asked   <- Intents \cup {"contested"},
  Firm    <- Intents \ {"empty"},
  Modules <- DriverModules,
  Core    <- "nvidia",
  asked   <- [c \in Components \ NotAwaited |-> want[c]],
  open    <- {c \in Components \ NotAwaited : Deploys(labels[c])},
  inside  <- {c \in Components \ NotAwaited : pod[c] # "absent"},
  held    <- pc \in Evicted /\ path \in {"skip", "full"},
  loaded  <- LoadedModules,
  mounted <- "rootfs" \in stale

\* Every step the command and its surroundings take is a step of that gate, or
\* none of its business.
ImplementsGate == Gate!Spec

\* From the check of the holders until the node is uncordoned.
HoldersChecked ==
  {"EvictPlugin", "AwaitPlugin", "CheckLoadedAgain", "UnloadModules",
   "DrainRetry", "UnmountRootfs", "UnbindVfio", "AwaitMofed"}

\* When the manager evicts up front, from the check of the holders until the
\* node is uncordoned the only claim-holders, beside the pods of DaemonSets, are
\* pods whose binding was under way when the check found nobody: all others are
\* gone, and the scheduler chooses the node for no more (main.go:406-446).
PluginOutlivesHolders ==
  path = "full" /\ EvictsUpFront /\ DraDeployed /\ pc \in HoldersChecked =>
    HolderPods \subseteq DaemonPods \cup inFlight

\* A command that succeeds leaves no kubelet-plugin bound to the driver files it
\* unmounted, nor, on the loaded paths, any pod it waited for.
NothingStale ==
  \A c \in Components :
    /\ want[c] # "contested"
    /\ \/ c = "draDriver" /\ DraDeployed
       \/ path # "fresh" /\ c \notin NotAwaited /\ ~IsEmpty(comps[c])
    => pod[c] # "stale"
Succeeds       == pc # "Done" /\ pc' = "Done"
NoStaleBinding == [][Succeeds => NothingStale']_vars

\* The modules of the driver, nouveau and the driver's files are gone when the
\* driver container is let in, except on the path that keeps the driver, and
\* so are the bindings to vfio-pci unless a call failed on the way: the failure
\* to release a device is only logged.
UninstalledAtSuccess ==
  pc = "Done" /\ path # "skip" =>
    /\ host \cap (DriverModules \cup {"nouveau"}) = {} /\ "rootfs" \notin stale
    /\ used["fault"] = 0 => vfio = {}

\* As long as the configuration stays and the state file can be read, a command
\* does not succeed before somebody has tried to lift the manager's cordon,
\* even if it was left by an attempt that was killed, panicked or failed; and
\* if no call fails either, only a killed attempt leaves it.
CordonReleased ==
  ownCordon /\ used["misread"] = 0 /\ used["redeploy"] = 0 =>
    /\ pc \notin {"Done", "Running"}
    /\ pc = "Failed" /\ used["fault"] = 0 => used["crash"] > 0

\* The calls that drain, of GPU pods or of all pods.
Drains == {"CordonNode", "CountGPUPods", "SelectGPUPods", "AwaitGPUPods",
           "DrainNode", "DrainRetry"}

\* An attempt that found the drain owned by the upgrade policy keeps off it to
\* its end, though the annotation may change: it does not touch the node's
\* schedulability, evicts no workload and calls neither form of drain.
PolicyOwnsDrain ==
  [][policy /\ policy' /\ Manager =>
       UNCHANGED <<unschedulable, wl>> /\ pc' \notin Drains]_vars

\* The upgrade is eventually done, whatever the disturbances.
Reconciles == <>(pc \in {"Done", "Disabled"})

\* A label that an attempt paused does not stay paused.
PausedIsRestored ==
  \A c \in Components : labels[c].paused ~> ~labels[c].paused
-----------------------------------------------------------------------------
(* What the documentation says and the code does not keep.                 *)

\* README.md: the node is drained "ignoring Daemonset pods", so a drain of a
\* node that has no other GPU pod does not fail.
DrainIgnoresDaemonSets ==
  [][/\ DrainAfterEviction \/ DrainAfterUnload
     /\ \A w \in Workloads \ DaemonPods : ~OnNode(w)
     /\ UNCHANGED used
     => pc' # "Cleanup"]_vars

\* "DrainNode drains a Node": it comes back, with or without an error.
DrainReturns ==
  [][DrainAfterEviction \/ DrainAfterUnload => pc' # "Panicked"]_vars

\* README.md: "Uncordon the node" is the last action of an upgrade.
UpgradeUncordons == pc \in {"Done", "Running"} => ~ownCordon

\* The kubelet-plugin "must outlive" the claim-holders evicted before it, so
\* the wait for the evicted pods comes to an end.
DrainTerminates == pc = "AwaitGPUPods" ~> pc # "AwaitGPUPods"

\* main.go:443: "Drain the kubelet-plugin after the claim-holders and GPU
\* workloads are gone": once the plugin is being drained no pod, but those of
\* DaemonSets, holds a claim that only the plugin can release.
HoldersConfirmedGone ==
  path = "full" /\ DraDeployed /\ pc \in {"AwaitPlugin", "CheckLoadedAgain"}
  => HolderPods \subseteq DaemonPods

\* "Already loaded with the desired version and configuration".
SkipKeepsWholeDriver == path = "skip" => DriverModules \subseteq host

\* "Always evict all GPU operator components across a driver restart. The DRA
\* kubelet-plugin is the exception": no other operand has a pod while modules
\* are unloaded.
AllOperandsEvicted ==
  pc = "UnloadModules" =>
    \A c \in Components \ {"draDriver"} :
      ~IsEmpty(comps[c]) /\ want[c] # "contested" => pod[c] = "absent"

\* Operands are not rescheduled onto the files of the old driver only to lose
\* them: none that was deployed is pinned to an unmounted rootfs at the end.
OperandsSeeNewRootfs ==
  pc = "Done" =>
    \A c \in Components \ NotAwaited :
      ~IsEmpty(comps[c]) /\ want[c] # "contested" => pod[c] # "stale"
=============================================================================
