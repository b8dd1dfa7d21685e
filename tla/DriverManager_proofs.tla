------------------------ MODULE DriverManager_proofs ------------------------
(***************************************************************************)
(* What is proved of DriverManager for every set of components, workloads, *)
(* modules, devices, configurations and nodes, and every number of         *)
(* disturbances.                                                           *)
(***************************************************************************)
EXTENDS DriverManager, TLAPS

Labels == [Components -> LabelValues]
PCs    == Active \cup Idle
-----------------------------------------------------------------------------
(* The rewriting of label values.                                          *)

\* The values the command computes are label values again, and ask for what
\* the value they come from asked for.
LEMMA ValueTypes ==
  ASSUME NEW v \in LabelValues
  PROVE  /\ GetNodeLabelValue(v) \in LabelValues
         /\ MaybeSetPaused(v) \in LabelValues
         /\ MaybeSetTrue(v) \in LabelValues
         /\ Intent(v) \in Intents
BY DEF LabelValues, GetNodeLabelValue, MaybeSetPaused, MaybeSetTrue, Intent,
       Plain, Bases, Intents, Pausable

LEMMA PlainType == \A b \in Bases : Plain(b) \in LabelValues
BY DEF LabelValues, Plain

\* The three patches give a node well-formed labels.
LEMMA PatchTypes ==
  ASSUME comps \in Labels, labels \in Labels
  PROVE  /\ EvictPatch(comps, labels) \in Labels
         /\ PausePluginPatch(comps, labels) \in Labels
         /\ ReschedulePatch(comps, labels) \in Labels
BY ValueTypes DEF Labels, EvictPatch, PausePluginPatch, ReschedulePatch
-----------------------------------------------------------------------------
(* Types.                                                                  *)

LEMMA SpendType ==
  ASSUME NEW k \in Disturbances, used \in [Disturbances -> Nat], Spend(k)
  PROVE  used' \in [Disturbances -> Nat]
BY DEF Spend

\* UpdateNodeLabels leaves the labels well-formed if the patch is, and never
\* counts up to PatchSteps.
LEMMA UpdateType ==
  ASSUME TypeOK, NEW new \in Labels, NEW ok \in PCs, NEW err \in PCs,
         UpdateNodeLabels(new, ok, err)
  PROVE  /\ labels' \in Labels /\ tries' \in 0 .. PatchSteps - 1
         /\ pc' \in PCs /\ used' \in [Disturbances -> Nat]
<1>1. PatchSteps \in Nat \ {0}
  BY DriverManagerAssumption
<1>2. used \in [Disturbances -> Nat] /\ tries \in 0 .. PatchSteps - 1
      /\ pc \in PCs /\ labels \in Labels
  BY DEF TypeOK, PCs, Labels
<1>3. CASE labels' = new /\ tries' = 0 /\ pc' = ok /\ UNCHANGED used
  BY <1>1, <1>2, <1>3
<1>4. CASE /\ Spend("fault") /\ labels' \in {labels, new}
           /\ \/ tries + 1 < PatchSteps /\ tries' = tries + 1 /\ UNCHANGED pc
              \/ tries + 1 = PatchSteps /\ tries' = 0 /\ pc' = err
  BY <1>1, <1>2, <1>4, SpendType DEF Disturbances
<1> QED
  BY <1>3, <1>4 DEF UpdateNodeLabels

LEMMA UncordonType ==
  ASSUME TypeOK, NEW enabled \in BOOLEAN, UncordonNode(enabled)
  PROVE  /\ unschedulable' \in BOOLEAN /\ ownCordon' \in BOOLEAN
         /\ used' \in [Disturbances -> Nat]
BY SpendType DEF UncordonNode, TypeOK, Disturbances

\* The start establishes the types.
LEMMA TypeInit == Init => TypeOK
<1> SUFFICES ASSUME Init PROVE TypeOK
  OBVIOUS
<1>1. PICK n \in Nodes : Init!(n)
  BY DEF Init
<1>2. n \in Node
  BY DriverManagerAssumption
<1>3. labels \in Labels /\ \A c \in Components : n.labels[c] \in LabelValues
  BY <1>1, <1>2 DEF Node, Labels
<1>4. want \in [Components -> Intents \cup {"contested"}]
  BY <1>1, <1>3, ValueTypes
<1>5. comps \in Labels
  BY <1>1, PlainType DEF Labels, Bases, Intents
<1>6. /\ unschedulable \in BOOLEAN /\ annotation \in BOOLEAN
      /\ host \subseteq HostFacts /\ stale \subseteq Mounts
      /\ vfio \subseteq Gpus /\ digest \in Digests \cup {"none"}
  BY <1>1, <1>2 DEF Node
<1>7. /\ pod \in [Components -> PodStates] /\ wl \in [Workloads -> WorkStates]
      /\ used \in [Disturbances -> Nat]
  BY <1>1 DEF PodStates, WorkStates
<1>8. tries \in 0 .. PatchSteps - 1 /\ attempt \in 0 .. 2
  <2>1. PatchSteps \in Nat /\ PatchSteps # 0
    BY DriverManagerAssumption
  <2>2. tries = 0 /\ attempt = 0
    BY <1>1
  <2> QED
    BY <2>1, <2>2
<1>9. /\ pc \in Active \cup Idle /\ path \in Paths /\ todo = {}
      /\ policy \in BOOLEAN /\ failed \in BOOLEAN /\ cfg \in Configs
      /\ ownCordon \in BOOLEAN /\ inFlight = {}
  BY <1>1 DEF Active, Paths
<1> QED
  BY <1>3, <1>4, <1>5, <1>6, <1>7, <1>8, <1>9
     DEF TypeOK, Labels

\* A process that starts has a well-formed memory.
LEMMA FreshType ==
  ASSUME FreshProcess
  PROVE  /\ path' \in Paths /\ todo' = {} /\ tries' \in 0 .. PatchSteps - 1
         /\ comps' \in Labels /\ policy' \in BOOLEAN /\ failed' \in BOOLEAN
         /\ attempt' \in 0 .. 2 /\ inFlight' = {}
<1>1. comps' \in Labels
  BY PlainType DEF FreshProcess, Labels, Bases, Intents
<1>2. tries' \in 0 .. PatchSteps - 1
  <2>1. PatchSteps \in Nat /\ PatchSteps # 0
    BY DriverManagerAssumption
  <2> QED
    BY <2>1 DEF FreshProcess
<1>3. path' \in Paths /\ todo' = {} /\ attempt' \in 0 .. 2
  BY DEF FreshProcess, Paths
<1>4. policy' \in BOOLEAN /\ failed' \in BOOLEAN /\ inFlight' = {}
  BY DEF FreshProcess
<1> QED
  BY <1>1, <1>2, <1>3, <1>4

\* Every step of the process keeps the types.
LEMMA TypeManager == TypeOK /\ Manager => TypeOK'
<1> SUFFICES ASSUME TypeOK, Manager PROVE TypeOK'
  OBVIOUS
<1> USE DEF TypeOK, process, node, pods, machine, history, Disturbances
<1>1. CASE DetectHostDriver
  BY <1>1, SpendType DEF DetectHostDriver, Active, FetchKeys
<1>2. CASE DisableDriver
  <2>1. labels \in Labels
    BY DEF Labels
  <2>2. "Disabled" \in PCs /\ "Failed" \in PCs
    BY DEF PCs, Idle
  <2>3. UpdateNodeLabels(labels, "Disabled", "Failed")
    BY <1>2 DEF DisableDriver
  <2>4. /\ labels' \in Labels /\ tries' \in 0 .. PatchSteps - 1
        /\ pc' \in PCs /\ used' \in [Disturbances -> Nat]
    BY <2>1, <2>2, <2>3, UpdateType
  <2> QED
    BY <1>2, <2>4 DEF DisableDriver, Labels, PCs
<1>3. CASE \E c \in Components : FetchLabel(c)
  <2>1. PICK c \in Components : FetchLabel(c)
    BY <1>3
  <2>2. comps' \in [Components -> LabelValues]
    BY <2>1, ValueTypes DEF FetchLabel
  <2> QED
    BY <2>1, <2>2 DEF FetchLabel
<1>4. CASE \E c \in Components : OperandGone(c)
  BY <1>4 DEF OperandGone
<1>5. CASE FetchAutoUpgradeAnnotation
  BY <1>5 DEF FetchAutoUpgradeAnnotation, Active
<1>6. CASE FetchFails
  BY <1>6, SpendType DEF FetchFails, Idle
<1>7. CASE CheckLoaded
  BY <1>7 DEF CheckLoaded, Active, Paths
<1>8. CASE EvictOperands
  <2>1. EvictPatch(comps, labels) \in Labels
    BY PatchTypes DEF Labels
  <2>2. "AwaitOperands" \in PCs /\ "Cleanup" \in PCs
    BY DEF PCs, Active
  <2>3. UpdateNodeLabels(EvictPatch(comps, labels), "AwaitOperands", "Cleanup")
    BY <1>8 DEF EvictOperands
  <2>4. /\ labels' \in Labels /\ tries' \in 0 .. PatchSteps - 1
        /\ pc' \in PCs /\ used' \in [Disturbances -> Nat]
    BY <2>1, <2>2, <2>3, UpdateType
  <2> QED
    BY <1>8, <2>4 DEF EvictOperands, Labels, PCs, Waited
<1>9. CASE AwaitOperandsFails
  BY <1>9, SpendType DEF AwaitOperandsFails, Active
<1>10. CASE CheckSkip
  BY <1>10, SpendType DEF CheckSkip, Active, Paths
<1>11. CASE CordonNode
  <2>1. /\ pc' \in Active \cup Idle /\ unschedulable' \in BOOLEAN
        /\ used' \in [Disturbances -> Nat]
    BY <1>11, SpendType DEF CordonNode, Active, Idle
  <2>2. ownCordon' \in BOOLEAN
    BY <1>11 DEF CordonNode
  <2> QED
    BY <1>11, <2>1, <2>2 DEF CordonNode
<1>12. CASE CountGPUPods
  BY <1>12, SpendType DEF CountGPUPods, Active, GPUPods, HolderOperands,
     NvDrainFailed
<1>13. CASE SelectGPUPods
  BY <1>13, SpendType DEF SelectGPUPods, Select, Active, Idle, DeletablePods,
     NvDrainFailed
<1>14. CASE \E w \in Workloads : EvictWorkload(w)
  BY <1>14 DEF EvictWorkload, WorkStates
<1>15. CASE \E w \in Workloads : EvictedWorkloadGone(w)
  BY <1>15 DEF EvictedWorkloadGone
<1>16. CASE \E w \in Workloads : EvictWorkloadFails(w)
  BY <1>16, SpendType DEF EvictWorkloadFails
<1>17. CASE GPUPodsDrained
  BY <1>17 DEF GPUPodsDrained, Active, NvDrainFailed
<1>18. CASE DrainAfterEviction
  BY <1>18, SpendType DEF DrainAfterEviction, Active, Idle, DrainNode
<1>19. CASE DrainAfterUnload
  <2>1. pc' \in Active \cup Idle /\ used' \in [Disturbances -> Nat]
    BY <1>19, SpendType DEF DrainAfterUnload, DrainNode, Active, Idle
  <2>2. /\ attempt' \in 0 .. 2
        /\ todo' \subseteq Components \cup Workloads \cup DriverModules
    BY <1>19 DEF DrainAfterUnload, LoadedModules
  <2> QED
    BY <1>19, <2>1, <2>2 DEF DrainAfterUnload
<1>20. CASE CheckHolders
  BY <1>20, SpendType DEF CheckHolders, Active, Assigned
<1>21. CASE EvictPlugin
  <2>1. CASE ~DraDeployed
    BY <1>21, <2>1 DEF EvictPlugin, Active
  <2>2. CASE DraDeployed
    <3>1. PausePluginPatch(comps, labels) \in Labels
      BY PatchTypes DEF Labels
    <3>2. "AwaitPlugin" \in PCs /\ EvictPluginFailed \in PCs
      BY DEF PCs, Active, Idle, EvictPluginFailed
    <3>3. UpdateNodeLabels(PausePluginPatch(comps, labels), "AwaitPlugin",
                           EvictPluginFailed)
      BY <1>21, <2>2 DEF EvictPlugin
    <3>4. /\ labels' \in Labels /\ tries' \in 0 .. PatchSteps - 1
          /\ pc' \in PCs /\ used' \in [Disturbances -> Nat]
      BY <3>1, <3>2, <3>3, UpdateType
    <3> QED
      BY <1>21, <3>4 DEF EvictPlugin, Labels, PCs
  <2> QED
    BY <2>1, <2>2
<1>22. CASE PluginGone
  BY <1>22 DEF PluginGone, Active
<1>23. CASE AwaitPluginFails
  BY <1>23, SpendType DEF AwaitPluginFails, Active, Idle, EvictPluginFailed
<1>24. CASE CheckLoadedAgain
  BY <1>24 DEF CheckLoadedAgain, Active, LoadedModules
<1>25. ASSUME NEW m \in DriverModules, UnloadModule(m)
       PROVE  TypeOK'
  <2>1. host' \subseteq HostFacts /\ failed' \in BOOLEAN
    BY <1>25 DEF UnloadModule
  <2>2. used' \in [Disturbances -> Nat]
    BY <1>25, SpendType DEF UnloadModule
  <2>3. todo' \subseteq Components \cup Workloads \cup DriverModules
    BY <1>25 DEF UnloadModule
  <2> QED
    BY <1>25, <2>1, <2>2, <2>3 DEF UnloadModule
<1>26. CASE UnloadDriver
  BY <1>26 DEF UnloadDriver, Active, CleanupDriverFailed
<1>27. CASE UnmountRootfs
  BY <1>27, SpendType DEF UnmountRootfs, Active, Idle, PodStates,
     CleanupDriverFailed
<1>28. CASE UnloadNouveau
  BY <1>28, SpendType DEF UnloadNouveau, Active, Idle
<1>29. CASE UnbindVfioPCI
  BY <1>29, SpendType DEF UnbindVfioPCI, Active, Idle
<1>30. CASE WaitForMofedDriver
  BY <1>30 DEF WaitForMofedDriver, Active
<1>31. CASE Uncordon
  <2>1. UncordonNode(isGPUPodEvictionEnabled \/ isAutoDrainEnabled)
    BY <1>31 DEF Uncordon
  <2>2. (isGPUPodEvictionEnabled \/ isAutoDrainEnabled) \in BOOLEAN
    BY DEF managerCanEvict
  <2>3. /\ unschedulable' \in BOOLEAN /\ ownCordon' \in BOOLEAN
        /\ used' \in [Disturbances -> Nat]
    BY <2>1, <2>2, UncordonType
  <2> QED
    BY <1>31, <2>3 DEF Uncordon, Active
<1>32. CASE RescheduleGPUOperatorComponents
  <2>1. ReschedulePatch(comps, labels) \in Labels
    BY PatchTypes DEF Labels
  <2>2. (IF path = "full" THEN "UnloadNouveau" ELSE "Done") \in PCs /\ "Failed" \in PCs
    BY DEF PCs, Active, Idle
  <2>3. UpdateNodeLabels(ReschedulePatch(comps, labels), (IF path = "full" THEN "UnloadNouveau" ELSE "Done"), "Failed")
    BY <1>32 DEF RescheduleGPUOperatorComponents
  <2>4. /\ labels' \in Labels /\ tries' \in 0 .. PatchSteps - 1
        /\ pc' \in PCs /\ used' \in [Disturbances -> Nat]
    BY <2>1, <2>2, <2>3, UpdateType
  <2> QED
    BY <1>32, <2>4 DEF RescheduleGPUOperatorComponents, Labels, PCs
<1>33. CASE CleanupOnFailure
  <2>1. UncordonNode(managerCanEvict)
    BY <1>33 DEF CleanupOnFailure
  <2>2. (managerCanEvict) \in BOOLEAN
    BY DEF managerCanEvict
  <2>3. /\ unschedulable' \in BOOLEAN /\ ownCordon' \in BOOLEAN
        /\ used' \in [Disturbances -> Nat]
    BY <2>1, <2>2, UncordonType
  <2> QED
    BY <1>33, <2>3 DEF CleanupOnFailure, Active
<1>34. CASE CleanupLabels
  <2>1. ReschedulePatch(comps, labels) \in Labels
    BY PatchTypes DEF Labels
  <2>2. "Failed" \in PCs /\ "Failed" \in PCs
    BY DEF PCs, Idle
  <2>3. UpdateNodeLabels(ReschedulePatch(comps, labels), "Failed", "Failed")
    BY <1>34 DEF CleanupLabels
  <2>4. /\ labels' \in Labels /\ tries' \in 0 .. PatchSteps - 1
        /\ pc' \in PCs /\ used' \in [Disturbances -> Nat]
    BY <2>1, <2>2, <2>3, UpdateType
  <2> QED
    BY <1>34, <2>4 DEF CleanupLabels, Labels, PCs
<1> QED
  BY <1>1, <1>2, <1>3, <1>4, <1>5, <1>6, <1>7, <1>8, <1>9, <1>10, <1>11,
     <1>12, <1>13, <1>14, <1>15, <1>16, <1>17, <1>18, <1>19, <1>20, <1>21,
     <1>22, <1>23, <1>24, <1>25, <1>26, <1>27, <1>28, <1>29, <1>30, <1>31,
     <1>32, <1>33, <1>34 DEF Manager

\* Nor does anything around it break them.
LEMMA TypeEnvironment == TypeOK /\ Environment => TypeOK'
<1> SUFFICES ASSUME TypeOK, Environment PROVE TypeOK'
  OBVIOUS
<1> USE DEF TypeOK, process, node, pods, machine, history, Disturbances
<1>1. CASE Restart
  BY <1>1, FreshType DEF Restart, Active, Labels
<1>2. CASE Crash
  BY <1>2, FreshType, SpendType DEF Crash, Idle, Labels
<1>3. CASE Reboot
  <2>1. /\ pod' \in [Components -> PodStates] /\ host' \subseteq HostFacts
        /\ stale' \subseteq Mounts /\ vfio' \subseteq Gpus
        /\ digest' \in Digests \cup {"none"}
    BY <1>3 DEF Reboot, PodStates
  <2>2. pc' \in Active \cup Idle /\ used' \in [Disturbances -> Nat]
    BY <1>3, SpendType DEF Reboot, Active
  <2> QED
    BY <1>3, <2>1, <2>2, FreshType DEF Reboot, Labels
<1>4. CASE Redeploy
  <2>1. annotation' \in BOOLEAN /\ cfg' \in Configs
    BY <1>4, DriverManagerAssumption DEF Redeploy, Node
  <2>2. pc' \in Active \cup Idle /\ used' \in [Disturbances -> Nat]
    BY <1>4, SpendType DEF Redeploy, Active
  <2> QED
    BY <1>4, <2>1, <2>2, FreshType DEF Redeploy, Labels
<1>5. CASE InstallDriver
  <2>1. digest' \in Digests \cup {"none"}
    BY <1>5, DriverManagerAssumption DEF InstallDriver, Config
  <2> QED
    BY <1>5, <2>1 DEF InstallDriver, HostFacts, Idle
<1>6. CASE MofedReady
  BY <1>6 DEF MofedReady, HostFacts
<1>7. CASE \E c \in Components : StartPod(c)
  BY <1>7 DEF StartPod, PodStates
<1>8. CASE \E c \in Components : StopPod(c)
  BY <1>8 DEF StopPod, PodStates
<1>9. CASE \E c \in Components : FinishPod(c)
  BY <1>9 DEF FinishPod, PodStates
<1>10. CASE \E c \in Components : EditLabel(c)
  <2>1. PICK c \in Components : EditLabel(c)
    BY <1>10
  <2>2. PICK b \in Bases :
          /\ labels' = [labels EXCEPT ![c] = Plain(b)]
          /\ want' = [want EXCEPT ![c] = IF Tracked(c) THEN "contested"
                                                     ELSE Intent(Plain(b))]
    BY <2>1 DEF EditLabel
  <2>3. Plain(b) \in LabelValues /\ Intent(Plain(b)) \in Intents
    BY PlainType, ValueTypes
  <2> QED
    BY <2>1, <2>2, <2>3, SpendType DEF EditLabel
<1>11. CASE \E w \in Workloads : ScheduleWorkload(w)
  BY <1>11 DEF ScheduleWorkload, WorkStates
<1>12. CASE \E w \in Workloads : BindWorkload(w)
  BY <1>12 DEF BindWorkload, WorkStates
<1>13. CASE \E w \in Workloads : DeleteWorkload(w)
  BY <1>13 DEF DeleteWorkload, WorkStates
<1>14. CASE \E w \in Workloads : FinishWorkload(w)
  BY <1>14 DEF FinishWorkload, WorkStates
<1>15. CASE EditPolicy
  BY <1>15, SpendType DEF EditPolicy, Labels
<1> QED
  BY <1>1, <1>2, <1>3, <1>4, <1>5, <1>6, <1>7, <1>8, <1>9, <1>10, <1>11, <1>12,
     <1>13, <1>14, <1>15 DEF Environment

\* Every reachable state is well-formed, whatever the constants; in particular
\* UpdateNodeLabels never begins an attempt past its last step.
THEOREM TypeCorrect == Spec => []TypeOK
<1>1. TypeOK /\ UNCHANGED vars => TypeOK'
  BY DEF TypeOK, vars, process, node, pods, machine, history
<1>2. TypeOK /\ [Next]_vars => TypeOK'
  BY <1>1, TypeManager, TypeEnvironment DEF Next
<1> QED
  BY TypeInit, <1>2, PTL DEF Spec
-----------------------------------------------------------------------------
(* Labels keep the administrator's intent, and success restores them.      *)

\* The patch that restores the labels has been acknowledged.
Settled == \/ pc \in {"Done", "Running"}
           \/ pc = "UnloadNouveau" /\ path # "fresh"

\* The strengthening: what the process remembers of a label it has read is
\* what the administrator wants, and a label it remembers as empty, which the
\* conditional patches leave out, is not paused.
LabelInv ==
  /\ IntentPreserved
  /\ \A c \in Components :
       Tracked(c) =>
         /\ want[c] # "contested" => Intent(comps[c]) = want[c]
         /\ IsEmpty(comps[c]) => ~labels[c].paused
  /\ pc \in Active =>
       \A c \in Components \ FetchKeys : IsEmpty(comps[c])
  /\ pc = "FetchLabels" => todo \subseteq FetchKeys
  /\ Settled => \A c \in FetchKeys : ~labels[c].paused

\* What the rewriting of a value keeps and what it establishes.
LEMMA ValueFacts ==
  ASSUME NEW v \in LabelValues
  PROVE  /\ Intent(GetNodeLabelValue(v)) = Intent(v)
         /\ Intent(MaybeSetPaused(v)) = Intent(v)
         /\ Intent(MaybeSetTrue(v)) = Intent(v)
         /\ IsEmpty(GetNodeLabelValue(v)) => ~v.paused
         /\ IsEmpty(v) => ~MaybeSetPaused(v).paused
         /\ ~MaybeSetTrue(v).paused
         /\ ~Deploys(MaybeSetPaused(v))
BY CustomBasesAssumption
   DEF LabelValues, GetNodeLabelValue, MaybeSetPaused, MaybeSetTrue, Intent,
       IsEmpty, Plain, Deploys, Bases, Intents, Pausable

\* The calls during which the process remembers every label it reads.
Fetched == Active \ {"Start", "DisableDriver", "FetchLabels"}

\* A label after any of the three patches.
LEMMA PatchedLabel ==
  ASSUME TypeOK, LabelInv, pc \in Fetched, NEW c \in Components,
         NEW new \in {EvictPatch(comps, labels),
                      PausePluginPatch(comps, labels),
                      ReschedulePatch(comps, labels)}
  PROVE  /\ want[c] # "contested" => Intent(new[c]) = want[c]
         /\ c \in FetchKeys /\ IsEmpty(comps[c]) => ~new[c].paused
<1>1. comps[c] \in LabelValues /\ labels[c] \in LabelValues
      /\ DOMAIN labels = Components /\ DOMAIN comps = Components
  BY DEF TypeOK
<1>2. Tracked(c) <=> c \in FetchKeys
  BY DEF Tracked, Fetched
<1>3. c \notin FetchKeys => IsEmpty(comps[c]) /\ c = "customOperand"
  BY DEF LabelInv, Fetched, FetchKeys
<1>4. \/ new[c] = labels[c]
      \/ /\ c \in EvictKeys(comps) \cup RescheduleKeys(comps) \cup {"draDriver"}
         /\ new[c] \in {MaybeSetPaused(comps[c]), MaybeSetTrue(comps[c])}
  BY <1>1 DEF EvictPatch, PausePluginPatch, ReschedulePatch
<1>5. c \in EvictKeys(comps) \cup RescheduleKeys(comps) \cup {"draDriver"}
      => c \in FetchKeys
  BY <1>3 DEF EvictKeys, RescheduleKeys, AlwaysPaused
<1>6. CASE new[c] = labels[c]
  BY <1>2, <1>6 DEF LabelInv, IntentPreserved
<1>7. CASE /\ c \in FetchKeys
           /\ new[c] \in {MaybeSetPaused(comps[c]), MaybeSetTrue(comps[c])}
  BY <1>1, <1>2, <1>7, ValueFacts DEF LabelInv
<1> QED
  BY <1>4, <1>5, <1>6, <1>7

\* Restoring the labels pauses none of those that were read.
LEMMA RestoredLabel ==
  ASSUME TypeOK, LabelInv, pc \in Fetched, NEW c \in FetchKeys
  PROVE  ~ReschedulePatch(comps, labels)[c].paused
<1>1. /\ comps[c] \in LabelValues /\ c \in Components /\ c \in Operands
      /\ DOMAIN labels = Components /\ DOMAIN comps = Components
  BY DriverManagerAssumption DEF TypeOK, FetchKeys
<1>2. CASE c \in RescheduleKeys(comps)
  BY <1>1, <1>2, ValueFacts DEF ReschedulePatch
<1>3. CASE c \notin RescheduleKeys(comps)
  <2>1. IsEmpty(comps[c])
    BY <1>1, <1>3 DEF RescheduleKeys, Operands
  <2>2. Tracked(c)
    BY DEF Tracked, Fetched
  <2> QED
    BY <1>1, <1>3, <2>1, <2>2 DEF LabelInv, ReschedulePatch
<1> QED
  BY <1>2, <1>3

\* A step that neither writes labels nor fetches one.
LEMMA LabelQuiet ==
  ASSUME LabelInv, UNCHANGED <<labels, want, comps, cfg>>,
         pc' \in Active => pc \in Active,
         \A c \in Components : Tracked(c)' => Tracked(c),
         pc' = "FetchLabels" => UNCHANGED <<pc, todo>>,
         Settled' => Settled
  PROVE  LabelInv'
BY DEF LabelInv, IntentPreserved, FetchKeys

\* A step that may write one of the patches.
LEMMA LabelPatch ==
  ASSUME TypeOK, LabelInv, pc \in Fetched, pc' \in Fetched \cup Idle,
         UNCHANGED <<want, comps, cfg>>,
         NEW new \in {EvictPatch(comps, labels),
                      PausePluginPatch(comps, labels),
                      ReschedulePatch(comps, labels)},
         labels' \in {labels, new},
         Settled' => labels' = ReschedulePatch(comps, labels)
  PROVE  LabelInv'
<1>1. FetchKeys' = FetchKeys
  BY DEF FetchKeys
<1>2. IntentPreserved'
  BY PatchedLabel DEF LabelInv, IntentPreserved
<1>3. ASSUME NEW c \in Components, Tracked(c)'
      PROVE  /\ want'[c] # "contested" => Intent(comps'[c]) = want'[c]
             /\ IsEmpty(comps'[c]) => ~labels'[c].paused
  <2>1. Tracked(c) /\ c \in FetchKeys
    BY <1>1, <1>3 DEF Tracked, Fetched
  <2> QED
    BY <2>1, PatchedLabel DEF LabelInv
<1>4. pc' \in Active => \A c \in Components \ FetchKeys' : IsEmpty(comps'[c])
  BY <1>1 DEF LabelInv, Fetched
<1>5. pc' # "FetchLabels"
  BY DEF Fetched, Idle
<1>6. Settled' => \A c \in FetchKeys' : ~labels'[c].paused
  BY <1>1, RestoredLabel
<1> QED
  BY <1>2, <1>3, <1>4, <1>5, <1>6 DEF LabelInv

LEMMA LabelInit == Init => LabelInv
<1> SUFFICES ASSUME Init PROVE LabelInv
  OBVIOUS
<1>1. PICK n \in Nodes : Init!(n)
  BY DEF Init
<1>2. pc = "Start" /\ \A c \in Components : IsEmpty(comps[c])
  BY <1>1 DEF IsEmpty, Plain
<1>3. IntentPreserved
  BY <1>1 DEF IntentPreserved
<1> QED
  BY <1>2, <1>3 DEF LabelInv, Tracked, Settled

\* The steps of the process, and those around it, that LabelQuiet covers.
QuietManager ==
  \/ FetchAutoUpgradeAnnotation \/ FetchFails \/ CheckLoaded
  \/ AwaitOperandsFails \/ CheckSkip \/ CordonNode \/ CountGPUPods
  \/ SelectGPUPods \/ GPUPodsDrained \/ DrainAfterEviction
  \/ DrainAfterUnload \/ CheckHolders \/ PluginGone \/ AwaitPluginFails
  \/ CheckLoadedAgain \/ UnloadDriver \/ UnmountRootfs \/ UnloadNouveau
  \/ UnbindVfioPCI \/ WaitForMofedDriver \/ Uncordon \/ CleanupOnFailure
  \/ \E c \in Components : OperandGone(c)
  \/ \E w \in Workloads : EvictWorkload(w)
  \/ \E w \in Workloads : EvictedWorkloadGone(w)
  \/ \E w \in Workloads : EvictWorkloadFails(w)
  \/ \E m \in DriverModules : UnloadModule(m)
QuietEnvironment ==
  \/ EditPolicy \/ InstallDriver \/ MofedReady
  \/ \E c \in Components : StartPod(c)
  \/ \E c \in Components : StopPod(c)
  \/ \E c \in Components : FinishPod(c)
  \/ \E w \in Workloads : ScheduleWorkload(w)
  \/ \E w \in Workloads : BindWorkload(w)
  \/ \E w \in Workloads : DeleteWorkload(w)
  \/ \E w \in Workloads : FinishWorkload(w)

LEMMA LabelQuietStep ==
  TypeOK /\ LabelInv /\ (QuietManager \/ QuietEnvironment) => LabelInv'
<1> SUFFICES ASSUME TypeOK, LabelInv, QuietManager \/ QuietEnvironment
             PROVE  LabelInv'
  OBVIOUS
<1> DEFINE Conditions == /\ UNCHANGED <<labels, want, comps, cfg>>
                         /\ pc' \in Active => pc \in Active
                         /\ \A c \in Components : Tracked(c)' => Tracked(c)
                         /\ pc' = "FetchLabels" => UNCHANGED <<pc, todo>>
                         /\ Settled' => Settled
<1>1. Conditions => LabelInv'
  BY LabelQuiet
<1>2. QuietManager \/ QuietEnvironment => Conditions
  <2> USE DEF Tracked, FetchKeys, Settled, Active, process, node, pods,
              machine, history
  <2>1. FetchAutoUpgradeAnnotation => Conditions
    BY DEF FetchAutoUpgradeAnnotation
  <2>2. FetchFails => Conditions
    BY DEF FetchFails
  <2>3. CheckLoaded => Conditions
    BY DEF CheckLoaded
  <2>4. AwaitOperandsFails => Conditions
    BY DEF AwaitOperandsFails
  <2>5. CheckSkip => Conditions
    BY DEF CheckSkip
  <2>6. CordonNode => Conditions
    BY DEF CordonNode
  <2>7. CountGPUPods => Conditions
    BY DEF CountGPUPods, NvDrainFailed
  <2>8. SelectGPUPods => Conditions
    BY DEF SelectGPUPods, Select, NvDrainFailed
  <2>9. GPUPodsDrained => Conditions
    BY DEF GPUPodsDrained, NvDrainFailed
  <2>10. DrainAfterEviction => Conditions
    BY DEF DrainAfterEviction, DrainNode
  <2>11. DrainAfterUnload => Conditions
    BY DEF DrainAfterUnload, DrainNode
  <2>12. CheckHolders => Conditions
    BY DEF CheckHolders
  <2>13. PluginGone => Conditions
    BY DEF PluginGone
  <2>14. AwaitPluginFails => Conditions
    BY DEF AwaitPluginFails, EvictPluginFailed
  <2>15. CheckLoadedAgain => Conditions
    BY DEF CheckLoadedAgain
  <2>16. UnloadDriver => Conditions
    BY DEF UnloadDriver, CleanupDriverFailed
  <2>17. UnmountRootfs => Conditions
    BY DEF UnmountRootfs, CleanupDriverFailed
  <2>18. UnloadNouveau => Conditions
    BY DEF UnloadNouveau
  <2>19. UnbindVfioPCI => Conditions
    BY DEF UnbindVfioPCI
  <2>20. WaitForMofedDriver => Conditions
    BY DEF WaitForMofedDriver
  <2>21. Uncordon => Conditions
    BY DEF Uncordon
  <2>22. CleanupOnFailure => Conditions
    BY DEF CleanupOnFailure
  <2>23. InstallDriver => Conditions
    BY DEF InstallDriver
  <2>24. MofedReady => Conditions
    BY DEF MofedReady
  <2>25. (\E c \in Components : OperandGone(c)) => Conditions
    BY DEF OperandGone
  <2>26. (\E w \in Workloads : EvictWorkload(w)) => Conditions
    BY DEF EvictWorkload
  <2>27. (\E w \in Workloads : EvictedWorkloadGone(w)) => Conditions
    BY DEF EvictedWorkloadGone
  <2>28. (\E w \in Workloads : EvictWorkloadFails(w)) => Conditions
    BY DEF EvictWorkloadFails
  <2>29. (\E m \in DriverModules : UnloadModule(m)) => Conditions
    BY DEF UnloadModule
  <2>30. (\E c \in Components : StartPod(c)) => Conditions
    BY DEF StartPod
  <2>31. (\E c \in Components : StopPod(c)) => Conditions
    BY DEF StopPod
  <2>32. (\E c \in Components : FinishPod(c)) => Conditions
    BY DEF FinishPod
  <2>33. (\E w \in Workloads : ScheduleWorkload(w)) => Conditions
    BY DEF ScheduleWorkload
  <2>34. (\E w \in Workloads : BindWorkload(w)) => Conditions
    BY DEF BindWorkload
  <2>35. (\E w \in Workloads : DeleteWorkload(w)) => Conditions
    BY DEF DeleteWorkload
  <2>36. (\E w \in Workloads : FinishWorkload(w)) => Conditions
    BY DEF FinishWorkload
  <2>37. EditPolicy => Conditions
    BY DEF EditPolicy
  <2> HIDE DEF Conditions
  <2> QED
    BY <2>1, <2>2, <2>3, <2>4, <2>5, <2>6, <2>7, <2>8, <2>9, <2>10, <2>11,
       <2>12, <2>13, <2>14, <2>15, <2>16, <2>17, <2>18, <2>19, <2>20, <2>21,
       <2>22, <2>23, <2>24, <2>25, <2>26, <2>27, <2>28, <2>29, <2>30, <2>31,
       <2>32, <2>33, <2>34, <2>35, <2>36, <2>37
       DEF QuietManager, QuietEnvironment
<1> QED
  BY <1>1, <1>2

\* A process that starts has read nothing.
LEMMA LabelFresh ==
  ASSUME LabelInv, FreshProcess, UNCHANGED <<labels, want>>,
         pc' \in {"Start", "Failed"}
  PROVE  LabelInv'
<1>1. \A c \in Components : IsEmpty(comps'[c])
  BY DEF FreshProcess, IsEmpty, Plain
<1>2. ~Settled' /\ \A c \in Components : ~Tracked(c)'
  BY DEF Settled, Tracked, Active
<1> QED
  BY <1>1, <1>2 DEF LabelInv, IntentPreserved

\* Before the fetch is over nothing is settled, and the fetch remembers what
\* the label says.
LEMMA LabelFetch ==
  TypeOK /\ LabelInv /\ (DetectHostDriver \/ \E c \in Components : FetchLabel(c))
  => LabelInv'
<1> SUFFICES ASSUME TypeOK, LabelInv,
                    DetectHostDriver \/ \E c \in Components : FetchLabel(c)
             PROVE  LabelInv'
  OBVIOUS
<1>1. CASE DetectHostDriver
  <2>1. /\ UNCHANGED <<labels, want, comps, cfg>> /\ ~Settled'
        /\ pc \in Active /\ pc' \in {"DisableDriver", "FetchLabels"}
        /\ pc' = "FetchLabels" => todo' = FetchKeys
    BY <1>1 DEF DetectHostDriver, Settled, Active, node, history
  <2>2. FetchKeys' = FetchKeys
    BY <2>1 DEF FetchKeys
  <2>3. \A c \in Components : ~Tracked(c)'
    BY <2>1, <2>2 DEF Tracked
  <2> QED
    BY <2>1, <2>2, <2>3 DEF LabelInv, IntentPreserved
<1>2. ASSUME NEW k \in Components, FetchLabel(k)
      PROVE  LabelInv'
  <2>1. /\ UNCHANGED <<labels, want, cfg, pc>> /\ ~Settled'
        /\ pc = "FetchLabels" /\ k \in todo /\ todo' = todo \ {k}
        /\ comps' = [comps EXCEPT ![k] = GetNodeLabelValue(labels[k])]
        /\ comps \in Labels /\ labels \in Labels
    BY <1>2 DEF FetchLabel, Settled, node, history, TypeOK, Labels
  <2>2. FetchKeys' = FetchKeys
    BY <2>1 DEF FetchKeys
  <2>3. IntentPreserved'
    BY <2>1 DEF LabelInv, IntentPreserved
  <2>4. ASSUME NEW c \in Components, Tracked(c)'
        PROVE  /\ want'[c] # "contested" => Intent(comps'[c]) = want'[c]
               /\ IsEmpty(comps'[c]) => ~labels'[c].paused
    <3>1. CASE c = k
      <4>1. /\ comps'[c] = GetNodeLabelValue(labels[c])
            /\ labels[c] \in LabelValues
        BY <2>1, <3>1 DEF Labels
      <4> QED
        BY <2>1, <4>1, ValueFacts DEF LabelInv, IntentPreserved
    <3>2. CASE c # k
      <4>1. comps'[c] = comps[c] /\ Tracked(c)
        BY <2>1, <2>2, <2>4, <3>2 DEF Tracked
      <4> QED
        BY <2>1, <4>1 DEF LabelInv
    <3> QED
      BY <3>1, <3>2
  <2>5. todo' \subseteq FetchKeys' /\ k \in FetchKeys
    BY <2>1, <2>2 DEF LabelInv
  <2>6. \A c \in Components \ FetchKeys' : IsEmpty(comps'[c])
    <3> SUFFICES ASSUME NEW c \in Components \ FetchKeys
                 PROVE  IsEmpty(comps'[c])
      BY <2>2
    <3>1. IsEmpty(comps[c])
      BY <2>1 DEF LabelInv, Active
    <3> QED
      BY <2>1, <2>5, <3>1
  <2> QED
    BY <2>1, <2>3, <2>4, <2>5, <2>6 DEF LabelInv
<1> QED
  BY <1>1, <1>2

\* An attempt of UpdateNodeLabels writes the patch or nothing, and goes on to
\* ok only with the patch written.
LEMMA UpdateWrites ==
  ASSUME NEW new, NEW ok, NEW err, UpdateNodeLabels(new, ok, err)
  PROVE  /\ labels' \in {labels, new} /\ pc' \in {pc, ok, err}
         /\ pc' = ok => labels' = new \/ ok \in {pc, err}
BY DEF UpdateNodeLabels

\* The steps that write labels from what was fetched.
LEMMA LabelPatchStep ==
  ASSUME TypeOK, LabelInv,
         \/ DisableDriver \/ EvictOperands \/ EvictPlugin
         \/ RescheduleGPUOperatorComponents \/ CleanupLabels
  PROVE  LabelInv'
<1> USE DEF Settled, Fetched, Active, Idle, node, history
<1>1. CASE DisableDriver
  <2>1. /\ UNCHANGED <<labels, want, comps, cfg>> /\ pc = "DisableDriver"
        /\ pc' \in {"DisableDriver", "Disabled", "Failed"}
    BY <1>1 DEF DisableDriver, UpdateNodeLabels
  <2> QED
    BY <2>1, LabelQuiet DEF Tracked
<1>2. CASE EvictOperands
  <2>1. /\ UNCHANGED <<want, comps, cfg>> /\ pc = "EvictOperands"
        /\ labels' \in {labels, EvictPatch(comps, labels)}
        /\ pc' \in {"EvictOperands", "AwaitOperands", "Cleanup"}
    BY <1>2, UpdateWrites DEF EvictOperands
  <2> QED
    BY <2>1, LabelPatch
<1>3. CASE EvictPlugin
  <2>1. /\ UNCHANGED <<want, comps, cfg>> /\ pc = "EvictPlugin"
        /\ labels' \in {labels, PausePluginPatch(comps, labels)}
        /\ pc' \in {"EvictPlugin", "AwaitPlugin", "Failed", "Cleanup",
                    "CheckLoadedAgain", "UnmountRootfs"}
    BY <1>3, UpdateWrites DEF EvictPlugin, EvictPluginFailed
  <2> QED
    BY <2>1, LabelPatch
<1>4. CASE RescheduleGPUOperatorComponents
  <2> DEFINE ok == IF path = "full" THEN "UnloadNouveau" ELSE "Done"
  <2>1. UpdateNodeLabels(ReschedulePatch(comps, labels), ok, "Failed")
        /\ pc = "Reschedule" /\ UNCHANGED <<want, comps, cfg>>
    BY <1>4 DEF RescheduleGPUOperatorComponents
  <2>2. /\ labels' \in {labels, ReschedulePatch(comps, labels)}
        /\ pc' \in {"Reschedule", ok, "Failed"}
        /\ pc' = ok => labels' = ReschedulePatch(comps, labels)
    BY <2>1, UpdateWrites
  <2>3. pc' \in Fetched \cup Idle
    BY <2>2
  <2>4. Settled' => labels' = ReschedulePatch(comps, labels)
    BY <2>2
  <2> QED
    BY <2>1, <2>2, <2>3, <2>4, LabelPatch
<1>5. CASE CleanupLabels
  <2>1. /\ UNCHANGED <<want, comps, cfg>> /\ pc = "CleanupLabels"
        /\ labels' \in {labels, ReschedulePatch(comps, labels)}
        /\ pc' \in {"CleanupLabels", "Failed"}
    BY <1>5, UpdateWrites DEF CleanupLabels
  <2> QED
    BY <2>1, LabelPatch
<1> QED
  BY <1>1, <1>2, <1>3, <1>4, <1>5

\* Processes that start or die, and the administrator's edits.
LEMMA LabelEnvironment ==
  ASSUME TypeOK, LabelInv,
         \/ Restart \/ Crash \/ Reboot \/ Redeploy
         \/ \E c \in Components : EditLabel(c)
  PROVE  LabelInv'
<1>1. CASE Restart \/ Crash \/ Reboot \/ Redeploy
  <2>1. FreshProcess /\ UNCHANGED <<labels, want>> /\ pc' \in {"Start", "Failed"}
    BY <1>1 DEF Restart, Crash, Reboot, Redeploy, node, history
  <2> QED
    BY <2>1, LabelFresh
<1>2. ASSUME NEW k \in Components, EditLabel(k)
      PROVE  LabelInv'
  <2>1. PICK b \in Bases :
          /\ labels' = [labels EXCEPT ![k] = Plain(b)]
          /\ want' = [want EXCEPT ![k] = IF Tracked(k) THEN "contested"
                                                      ELSE Intent(Plain(b))]
    BY <1>2 DEF EditLabel
  <2>2. UNCHANGED <<pc, todo, comps, cfg>>
    BY <1>2 DEF EditLabel, process
  <2>3. /\ labels \in [Components -> LabelValues]
        /\ want \in [Components -> Intents \cup {"contested"}]
    BY DEF TypeOK
  <2>4. /\ labels'[k] = Plain(b) /\ ~labels'[k].paused
        /\ want'[k] = IF Tracked(k) THEN "contested" ELSE Intent(Plain(b))
    BY <2>1, <2>3 DEF Plain
  <2>5. \A c \in Components \ {k} : labels'[c] = labels[c] /\ want'[c] = want[c]
    BY <2>1, <2>3
  <2>6. FetchKeys' = FetchKeys /\ \A c \in Components : Tracked(c)' = Tracked(c)
    BY <2>2 DEF FetchKeys, Tracked
  <2>7. IntentPreserved'
    <3> SUFFICES ASSUME NEW c \in Components, want'[c] # "contested"
                 PROVE  Intent(labels'[c]) = want'[c]
      BY DEF IntentPreserved
    <3> QED
      BY <2>4, <2>5 DEF LabelInv, IntentPreserved
  <2>8. ASSUME NEW c \in Components, Tracked(c)'
        PROVE  /\ want'[c] # "contested" => Intent(comps'[c]) = want'[c]
               /\ IsEmpty(comps'[c]) => ~labels'[c].paused
    BY <2>2, <2>4, <2>5, <2>6, <2>8 DEF LabelInv
  <2>9. Settled' => \A c \in FetchKeys' : ~labels'[c].paused
    <3>1. path' = path
      BY <1>2 DEF EditLabel, process
    <3> QED
      BY <2>2, <2>4, <2>5, <2>6, <3>1 DEF LabelInv, Settled, FetchKeys
  <2> QED
    BY <2>2, <2>6, <2>7, <2>8, <2>9 DEF LabelInv
<1> QED
  BY <1>1, <1>2

LEMMA LabelInvariant == Spec => [](TypeOK /\ LabelInv)
<1>1. TypeOK /\ LabelInv /\ Manager => LabelInv'
  BY LabelQuietStep, LabelFetch, LabelPatchStep DEF Manager, QuietManager
<1>2. TypeOK /\ LabelInv /\ Environment => LabelInv'
  BY LabelQuietStep, LabelEnvironment DEF Environment, QuietEnvironment
<1>3. LabelInv /\ UNCHANGED vars => LabelInv'
  BY LabelQuiet
     DEF vars, process, node, history, Tracked, FetchKeys, Settled
<1>4. TypeOK /\ LabelInv /\ [Next]_vars => LabelInv'
  BY <1>1, <1>2, <1>3 DEF Next
<1> QED
  BY LabelInit, TypeCorrect, <1>4, PTL DEF Spec

\* Whatever is lost, killed, retried or redeployed, a label asks for what the
\* administrator last asked for unless the request raced with an attempt.
THEOREM IntentIsPreserved == Spec => []IntentPreserved
<1>1. LabelInv => IntentPreserved
  BY DEF LabelInv
<1> QED
  BY LabelInvariant, <1>1, PTL

\* A command that succeeds leaves no operand paused.
THEOREM RestoredWhenDone == Spec => []RestoredAtSuccess
<1>1. LabelInv => RestoredAtSuccess
  BY DEF LabelInv, RestoredAtSuccess, Settled
<1> QED
  BY LabelInvariant, <1>1, PTL
-----------------------------------------------------------------------------
(* Operands stay evicted until they are rescheduled.                       *)

\* The strengthening: from the acknowledged patch on, the label of an operand
\* keeps its pod away, and the pod is gone once the wait is over.
Withdrawn ==
  pc = "AwaitOperands" \/ (pc \in Evicted /\ path \in {"skip", "full"})

EvictInv ==
  Withdrawn =>
    \A c \in Components \ NotAwaited :
      ~IsEmpty(comps[c]) /\ want[c] # "contested" =>
        /\ ~Deploys(labels[c])
        /\ (pc = "AwaitOperands" /\ c \in todo) \/ pod[c] = "absent"

\* A step that lets no operand back: what was gone or awaited still is.
HoldsBack ==
  /\ UNCHANGED <<want, comps>> /\ Withdrawn
  /\ \A c \in Components \ NotAwaited :
       /\ labels'[c] = labels[c]
       /\ pod[c] = "absent" /\ ~Deploys(labels[c]) => pod'[c] = "absent"
       /\ pc = "AwaitOperands" /\ c \in todo =>
            (pc' = "AwaitOperands" /\ c \in todo') \/ pod'[c] = "absent"

LEMMA EvictQuiet ==
  ASSUME EvictInv, Withdrawn' => HoldsBack
  PROVE  EvictInv'
BY DEF EvictInv, HoldsBack

\* The patch pauses every operand with a value, and the wait covers it.
LEMMA EvictPatched ==
  ASSUME TypeOK, LabelInv, EvictOperands
  PROVE  EvictInv'
<1> SUFFICES ASSUME Withdrawn', NEW c \in Components \ NotAwaited,
                    ~IsEmpty(comps'[c])
             PROVE  ~Deploys(labels'[c]) /\ pc' = "AwaitOperands" /\ c \in todo'
  BY DEF EvictInv
<1>1. /\ UpdateNodeLabels(EvictPatch(comps, labels), "AwaitOperands", "Cleanup")
      /\ todo' = IF pc' = "AwaitOperands" THEN Waited(comps) ELSE {}
      /\ pc = "EvictOperands" /\ comps' = comps
  BY DEF EvictOperands
<1>2. pc' = "AwaitOperands" /\ labels' = EvictPatch(comps, labels)
  BY <1>1, UpdateWrites DEF Withdrawn, Evicted
<1>3. /\ c \in Operands \ NotAwaited /\ comps[c] \in LabelValues
      /\ DOMAIN comps = Components /\ DOMAIN labels = Components
  BY DriverManagerAssumption DEF TypeOK
<1>4. c \in EvictKeys(comps) /\ c \in Waited(comps)
  BY <1>1, <1>3 DEF EvictKeys, Waited, Operands, NotAwaited, AlwaysPaused,
                    PausedIfDeployed, AlwaysWaited, WaitedIfDeployed
<1>5. labels'[c] = MaybeSetPaused(comps[c])
  BY <1>2, <1>3, <1>4 DEF EvictPatch
<1> QED
  BY <1>1, <1>2, <1>3, <1>4, <1>5, ValueFacts

\* An edit of the label of an operand that is held back is contested.
LEMMA EvictEdited ==
  ASSUME TypeOK, LabelInv, EvictInv, NEW k \in Components, EditLabel(k)
  PROVE  EvictInv'
<1>1. PICK b \in Bases :
        /\ labels' = [labels EXCEPT ![k] = Plain(b)]
        /\ want' = [want EXCEPT ![k] = IF Tracked(k) THEN "contested"
                                                    ELSE Intent(Plain(b))]
  BY DEF EditLabel
<1>2. UNCHANGED <<pc, path, todo, comps, cfg, pod>>
  BY DEF EditLabel, process, pods
<1> SUFFICES ASSUME Withdrawn, NEW c \in Components \ NotAwaited,
                    ~IsEmpty(comps[c]), want'[c] # "contested"
             PROVE  /\ ~Deploys(labels'[c])
                    /\ (pc = "AwaitOperands" /\ c \in todo) \/ pod[c] = "absent"
  BY <1>2 DEF EvictInv, Withdrawn
<1>3. pc \in Active \ {"Start", "DisableDriver", "FetchLabels"}
  BY DEF Withdrawn, Evicted, Active
<1>4. Tracked(c)
  BY <1>3 DEF Tracked, LabelInv
<1>5. c # k
  BY <1>1, <1>4 DEF TypeOK
<1>6. labels'[c] = labels[c] /\ want'[c] = want[c]
  BY <1>1, <1>5
<1> QED
  BY <1>6 DEF EvictInv

LEMMA EvictStep == TypeOK /\ LabelInv /\ EvictInv /\ [Next]_vars => EvictInv'
<1> SUFFICES ASSUME TypeOK, LabelInv, EvictInv, [Next]_vars PROVE EvictInv'
  OBVIOUS
<1> DEFINE Held == Withdrawn' => HoldsBack
<1> USE DEF Withdrawn, Evicted, HoldsBack, process, node, pods, machine,
            history
<1>1. FetchAutoUpgradeAnnotation => Held
  BY DEF FetchAutoUpgradeAnnotation
<1>2. FetchFails => Held
  BY DEF FetchFails
<1>3. CheckLoaded => Held
  BY DEF CheckLoaded
<1>4. AwaitOperandsFails => Held
  BY DEF AwaitOperandsFails
<1>5. CheckSkip => Held
  BY DEF CheckSkip
<1>6. CordonNode => Held
  BY DEF CordonNode
<1>7. CountGPUPods => Held
  BY DEF CountGPUPods, NvDrainFailed
<1>8. SelectGPUPods => Held
  BY DEF SelectGPUPods, Select, NvDrainFailed
<1>9. GPUPodsDrained => Held
  BY DEF GPUPodsDrained, NvDrainFailed
<1>10. DrainAfterEviction => Held
  BY DEF DrainAfterEviction, DrainNode
<1>11. DrainAfterUnload => Held
  BY DEF DrainAfterUnload, DrainNode
<1>12. CheckHolders => Held
  BY DEF CheckHolders
<1>13. PluginGone => Held
  BY DEF PluginGone
<1>14. AwaitPluginFails => Held
  BY DEF AwaitPluginFails, EvictPluginFailed
<1>15. CheckLoadedAgain => Held
  BY DEF CheckLoadedAgain
<1>16. UnloadDriver => Held
  BY DEF UnloadDriver, CleanupDriverFailed
<1>17. UnmountRootfs => Held
  BY DEF UnmountRootfs
<1>18. UnloadNouveau => Held
  BY DEF UnloadNouveau
<1>19. UnbindVfioPCI => Held
  BY DEF UnbindVfioPCI
<1>20. WaitForMofedDriver => Held
  BY DEF WaitForMofedDriver
<1>21. Uncordon => Held
  BY DEF Uncordon
<1>22. CleanupOnFailure => Held
  BY DEF CleanupOnFailure
<1>23. InstallDriver => Held
  BY DEF InstallDriver
<1>24. MofedReady => Held
  BY DEF MofedReady
<1>25. (\E c \in Components : OperandGone(c)) => Held
  BY DEF OperandGone
<1>26. (\E w \in Workloads : EvictWorkload(w)) => Held
  BY DEF EvictWorkload
<1>27. (\E w \in Workloads : EvictedWorkloadGone(w)) => Held
  BY DEF EvictedWorkloadGone
<1>28. (\E w \in Workloads : EvictWorkloadFails(w)) => Held
  BY DEF EvictWorkloadFails
<1>29. (\E m \in DriverModules : UnloadModule(m)) => Held
  BY DEF UnloadModule
<1>30. (\E c \in Components : StartPod(c)) => Held
  BY DEF StartPod
<1>31. (\E c \in Components : StopPod(c)) => Held
  BY DEF StopPod
<1>32. (\E c \in Components : FinishPod(c)) => Held
  BY DEF FinishPod
<1>33. (\E w \in Workloads : ScheduleWorkload(w)) => Held
  BY DEF ScheduleWorkload
<1>34. (\E w \in Workloads : BindWorkload(w)) => Held
  BY DEF BindWorkload
<1>35. (\E w \in Workloads : DeleteWorkload(w)) => Held
  BY DEF DeleteWorkload
<1>36. (\E w \in Workloads : FinishWorkload(w)) => Held
  BY DEF FinishWorkload
<1>37. EditPolicy => Held
  BY DEF EditPolicy
<1>38. DetectHostDriver => Held
  BY DEF DetectHostDriver
<1>39. DisableDriver => Held
  BY DEF DisableDriver, UpdateNodeLabels
<1>40. RescheduleGPUOperatorComponents => Held
  BY DEF RescheduleGPUOperatorComponents, UpdateNodeLabels
<1>41. CleanupLabels => Held
  BY DEF CleanupLabels, UpdateNodeLabels
<1>42. Restart => Held
  BY DEF Restart
<1>43. Crash => Held
  BY DEF Crash
<1>44. Reboot => Held
  BY DEF Reboot
<1>45. Redeploy => Held
  BY DEF Redeploy
<1>46. (\E c \in Components : FetchLabel(c)) => Held
  BY DEF FetchLabel
<1>47. EvictPlugin => Held
  <2> SUFFICES ASSUME EvictPlugin, Withdrawn' PROVE HoldsBack
    OBVIOUS
  <2>1. /\ UNCHANGED <<want, comps, path, pod>> /\ pc = "EvictPlugin"
        /\ labels' \in {labels, PausePluginPatch(comps, labels)}
    BY UpdateWrites DEF EvictPlugin
  <2>2. pc' # "AwaitOperands"
    BY DEF EvictPlugin, UpdateNodeLabels, EvictPluginFailed
  <2>3. \A c \in Components \ NotAwaited : labels'[c] = labels[c]
    BY <2>1 DEF PausePluginPatch, NotAwaited, TypeOK
  <2> QED
    BY <2>1, <2>2, <2>3
<1>48. UNCHANGED vars => Held
  BY DEF vars
<1>49. Held => EvictInv'
  BY EvictQuiet
<1> HIDE DEF Held
<1> QED
  BY <1>1, <1>2, <1>3, <1>4, <1>5, <1>6, <1>7, <1>8, <1>9, <1>10, <1>11, <1>12,
     <1>13, <1>14, <1>15, <1>16, <1>17, <1>18, <1>19, <1>20, <1>21, <1>22,
     <1>23, <1>24, <1>25, <1>26, <1>27, <1>28, <1>29, <1>30, <1>31, <1>32,
     <1>33, <1>34, <1>35, <1>36, <1>37, <1>38, <1>39, <1>40, <1>41, <1>42,
     <1>43, <1>44, <1>45, <1>46, <1>47, <1>48, <1>49, EvictPatched, EvictEdited
     DEF Next, Manager, Environment

\* On the loaded paths the modules are unloaded and the files unmounted with
\* no awaited operand on top of them.
THEOREM EvictedWhenUnloading == Spec => []EvictedBeforeUnload
<1>1. Init => EvictInv
  BY DEF Init, EvictInv, Withdrawn
<1>2. EvictInv => EvictedBeforeUnload
  BY DEF EvictInv, EvictedBeforeUnload, Withdrawn, Evicted
<1> QED
  BY LabelInvariant, EvictStep, <1>1, <1>2, PTL DEF Spec
-----------------------------------------------------------------------------
(* DriverManager implements OperandGate: every step of the command and of  *)
(* its surroundings is a step of the gate or leaves it alone.              *)

Guests    == Components \ NotAwaited
Alone     == pc \in Evicted /\ path \in {"skip", "full"}
Opened    == {c \in Guests : Deploys(labels[c])}
Present   == {c \in Guests : pod[c] # "absent"}
GateMoves == Gate!Next \/ UNCHANGED Gate!vars

\* The calls that only the path of an outdated driver makes.
Unloading == {"CordonNode", "CountGPUPods", "SelectGPUPods", "AwaitGPUPods",
              "DrainNode", "CheckHolders", "CheckLoadedAgain",
              "UnloadModules", "DrainRetry"}

\* Which path makes which call, and that no driver is loaded on the path that
\* holds nothing when it unmounts.
PathInv ==
  /\ pc \in Unloading => path = "full"
  /\ pc \in {"EvictPlugin", "AwaitPlugin", "UnmountRootfs"} =>
       /\ path \in {"fresh", "skip", "full"}
       /\ path = "fresh" => ~isDriverLoaded
-----------------------------------------------------------------------------
(* The steps of the gate, in the terms of DriverManager.                   *)

\* A step that changes nothing the gate has, or ends the writer's stay.
LEMMA GateQuiet ==
  ASSUME \A c \in Guests : /\ want'[c] = want[c] /\ labels'[c] = labels[c]
                           /\ pod'[c] = "absent" <=> pod[c] = "absent",
         "rootfs" \in stale' <=> "rootfs" \in stale,
         LoadedModules' = LoadedModules,
         Alone' => Alone
  PROVE  GateMoves
<1> DEFINE asked == [c \in Guests |-> want[c]]
<1>1. UNCHANGED <<asked, Opened, Present>>
  BY DEF Opened, Present
<1>2. CASE Alone' <=> Alone
  BY <1>1, <1>2 DEF GateMoves, Gate!vars, Alone, Opened, Present, Guests
<1>3. CASE ~Alone'
  BY <1>1, <1>3 DEF GateMoves, Gate!Next, Gate!Release, Alone, Opened, Present,
                    Guests
<1> QED
  BY <1>2, <1>3

\* The steps that are none of the gate's business, or end the writer's stay.
Apart ==
  \/ DetectHostDriver \/ DisableDriver \/ FetchAutoUpgradeAnnotation
  \/ FetchFails \/ CheckLoaded \/ AwaitOperandsFails \/ CordonNode
  \/ CountGPUPods \/ SelectGPUPods \/ GPUPodsDrained \/ DrainAfterEviction
  \/ DrainAfterUnload \/ CheckHolders \/ PluginGone \/ AwaitPluginFails
  \/ CheckLoadedAgain \/ UnloadDriver \/ UnloadNouveau \/ UnbindVfioPCI
  \/ WaitForMofedDriver \/ Uncordon \/ CleanupOnFailure \/ Restart \/ Crash
  \/ Redeploy \/ EditPolicy \/ MofedReady
  \/ \E c \in Components : FetchLabel(c)
  \/ \E c \in Components : OperandGone(c)
  \/ \E w \in Workloads : EvictWorkload(w)
  \/ \E w \in Workloads : EvictedWorkloadGone(w)
  \/ \E w \in Workloads : EvictWorkloadFails(w)
  \/ \E w \in Workloads : ScheduleWorkload(w)
  \/ \E w \in Workloads : BindWorkload(w)
  \/ \E w \in Workloads : DeleteWorkload(w)
  \/ \E w \in Workloads : FinishWorkload(w)

LEMMA GateApart == Apart => GateMoves
<1> DEFINE Conditions == /\ UNCHANGED <<want, labels, pod, stale>>
                         /\ LoadedModules' = LoadedModules
                         /\ Alone' => Alone
<1>1. Conditions => GateMoves
  BY GateQuiet
<1>2. Apart => Conditions
  <2> USE DriverManagerAssumption
      DEF LoadedModules, Alone, Evicted, process, node, pods, machine, history
  <2>1. DetectHostDriver => Conditions
    BY DEF DetectHostDriver
  <2>2. DisableDriver => Conditions
    BY DEF DisableDriver, UpdateNodeLabels
  <2>3. FetchAutoUpgradeAnnotation => Conditions
    BY DEF FetchAutoUpgradeAnnotation
  <2>4. FetchFails => Conditions
    BY DEF FetchFails
  <2>5. CheckLoaded => Conditions
    BY DEF CheckLoaded
  <2>6. AwaitOperandsFails => Conditions
    BY DEF AwaitOperandsFails
  <2>7. CordonNode => Conditions
    BY DEF CordonNode
  <2>8. CountGPUPods => Conditions
    BY DEF CountGPUPods, NvDrainFailed
  <2>9. SelectGPUPods => Conditions
    BY DEF SelectGPUPods, Select, NvDrainFailed
  <2>10. GPUPodsDrained => Conditions
    BY DEF GPUPodsDrained, NvDrainFailed
  <2>11. DrainAfterEviction => Conditions
    BY DEF DrainAfterEviction, DrainNode
  <2>12. DrainAfterUnload => Conditions
    BY DEF DrainAfterUnload, DrainNode
  <2>13. CheckHolders => Conditions
    BY DEF CheckHolders
  <2>14. PluginGone => Conditions
    BY DEF PluginGone
  <2>15. AwaitPluginFails => Conditions
    BY DEF AwaitPluginFails, EvictPluginFailed
  <2>16. CheckLoadedAgain => Conditions
    BY DEF CheckLoadedAgain
  <2>17. UnloadDriver => Conditions
    BY DEF UnloadDriver, CleanupDriverFailed
  <2>18. UnloadNouveau => Conditions
    BY DEF UnloadNouveau
  <2>19. UnbindVfioPCI => Conditions
    BY DEF UnbindVfioPCI
  <2>20. WaitForMofedDriver => Conditions
    BY DEF WaitForMofedDriver
  <2>21. Uncordon => Conditions
    BY DEF Uncordon
  <2>22. CleanupOnFailure => Conditions
    BY DEF CleanupOnFailure
  <2>23. Restart => Conditions
    BY DEF Restart, FreshProcess
  <2>24. Crash => Conditions
    BY DEF Crash, FreshProcess
  <2>25. Redeploy => Conditions
    BY DEF Redeploy, FreshProcess
  <2>26. MofedReady => Conditions
    BY DEF MofedReady
  <2>27. (\E c \in Components : FetchLabel(c)) => Conditions
    BY DEF FetchLabel
  <2>28. (\E c \in Components : OperandGone(c)) => Conditions
    BY DEF OperandGone
  <2>29. (\E w \in Workloads : EvictWorkload(w)) => Conditions
    BY DEF EvictWorkload
  <2>30. (\E w \in Workloads : EvictedWorkloadGone(w)) => Conditions
    BY DEF EvictedWorkloadGone
  <2>31. (\E w \in Workloads : EvictWorkloadFails(w)) => Conditions
    BY DEF EvictWorkloadFails
  <2>32. (\E w \in Workloads : ScheduleWorkload(w)) => Conditions
    BY DEF ScheduleWorkload
  <2>33. (\E w \in Workloads : BindWorkload(w)) => Conditions
    BY DEF BindWorkload
  <2>34. (\E w \in Workloads : DeleteWorkload(w)) => Conditions
    BY DEF DeleteWorkload
  <2>35. (\E w \in Workloads : FinishWorkload(w)) => Conditions
    BY DEF FinishWorkload
  <2>36. EditPolicy => Conditions
    BY DEF EditPolicy
  <2> HIDE DEF Conditions
  <2> QED
    BY <2>1, <2>2, <2>3, <2>4, <2>5, <2>6, <2>7, <2>8, <2>9, <2>10, <2>11,
       <2>12, <2>13, <2>14, <2>15, <2>16, <2>17, <2>18, <2>19, <2>20, <2>21,
       <2>22, <2>23, <2>24, <2>25, <2>26, <2>27, <2>28, <2>29, <2>30, <2>31,
       <2>32, <2>33, <2>34, <2>35, <2>36
       DEF Apart
<1> QED
  BY <1>1, <1>2

\* The writer comes in when the wait is over: CheckSkip.
LEMMA GateAcquire ==
  ASSUME TypeOK, LabelInv, EvictInv, CheckSkip
  PROVE  GateMoves
<1>1. /\ pc = "AwaitOperands" /\ todo = {}
      /\ UNCHANGED <<want, labels, pod, host, stale>>
      /\ pc' \in Evicted /\ path' \in {"skip", "full"}
  BY DEF CheckSkip, Evicted, node, pods, machine, history
<1>2. ASSUME NEW c \in Guests, want[c] \in Intents \ {"empty"}
      PROVE  ~Deploys(labels[c]) /\ pod[c] = "absent"
  <2>1. Tracked(c)
    BY <1>1 DEF Tracked, Active, FetchKeys, Guests, NotAwaited
  <2>2. want[c] # "contested"
    BY <1>2, CustomBasesAssumption DEF Intents, Pausable
  <2>3. ~IsEmpty(comps[c])
    BY <1>2, <2>1, <2>2 DEF LabelInv, IsEmpty, Intent, Guests
  <2> QED
    BY <1>1, <2>2, <2>3 DEF EvictInv, Withdrawn, Guests
<1>3. Gate!Excluded
  BY <1>2 DEF Gate!Excluded, Gate!Waited, Guests
<1>4. Gate!Acquire
  BY <1>1, <1>3 DEF Gate!Acquire, Evicted, LoadedModules
<1> QED
  BY <1>4 DEF GateMoves, Gate!Next

\* It unloads modules while it is in.
LEMMA GateUnload ==
  ASSUME PathInv, NEW m \in DriverModules, UnloadModule(m)
  PROVE  GateMoves
<1>1. /\ pc = "UnloadModules" /\ path = "full"
      /\ UNCHANGED <<pc, path, want, labels, pod, stale>>
      /\ host' \in {host, host \ {m}}
  BY DEF UnloadModule, PathInv, Unloading, process, node, pods, history
<1>2. Gate!Unload
  BY <1>1 DEF Gate!Unload, Evicted, LoadedModules
<1> QED
  BY <1>2 DEF GateMoves, Gate!Next

\* It unmounts while it is in, or when there is no driver.
LEMMA GateUnmount ==
  ASSUME TypeOK, PathInv, UnmountRootfs
  PROVE  GateMoves
<1>1. /\ pc = "UnmountRootfs" /\ path \in {"fresh", "skip", "full"}
      /\ path = "fresh" => "nvidia" \notin host
      /\ UNCHANGED <<path, want, labels, host>>
  BY DEF UnmountRootfs, PathInv, isDriverLoaded, process, node, history
<1>2. CASE stale' = stale /\ pod' = pod
  <2>1. Alone' => Alone
    BY <1>1 DEF Alone, Evicted
  <2> QED
    BY <1>1, <1>2, <2>1, GateQuiet DEF LoadedModules
<1>3. CASE ~(stale' = stale /\ pod' = pod)
  <2>1. /\ "rootfs" \notin stale'
        /\ pod' \in {pod, [c \in Components |->
                             IF pod[c] = "running" THEN "stale" ELSE pod[c]]}
        /\ pc' = CASE path = "skip"  -> "Reschedule"
                   [] path = "fresh" -> "UnloadNouveau"
                   [] OTHER          -> "UnbindVfio"
    BY <1>3 DEF UnmountRootfs
  <2>2. \A c \in Guests : pod'[c] = "absent" <=> pod[c] = "absent"
    BY <2>1 DEF TypeOK, Guests
  <2>3. Present' = Present /\ (~Alone' \/ (Alone' <=> Alone))
    BY <1>1, <2>1, <2>2 DEF Present, Alone, Evicted
  <2>4. Alone \/ "nvidia" \notin LoadedModules
    BY <1>1 DEF Alone, Evicted, LoadedModules
  <2>5. Gate!Unmount
    <3>1. ("rootfs" \in stale') = FALSE
      BY <2>1
    <3>2. Alone' \in {Alone, FALSE}
      BY <2>3 DEF Alone
    <3>3. /\ Opened' = Opened /\ LoadedModules' = LoadedModules
          /\ UNCHANGED [c \in Guests |-> want[c]]
      BY <1>1 DEF Opened, LoadedModules
    <3> QED
      BY <2>3, <2>4, <3>1, <3>2, <3>3
         DEF Gate!Unmount, Alone, Opened, Present, Guests
  <2> QED
    BY <2>5 DEF GateMoves, Gate!Next
<1> QED
  BY <1>2, <1>3

\* The patches that pause and restore are sent while it is out.
LEMMA GateTurn ==
  ASSUME EvictOperands \/ RescheduleGPUOperatorComponents \/ CleanupLabels
  PROVE  GateMoves
<1>1. /\ UNCHANGED <<path, want, pod, host, stale>>
      /\ pc \notin Evicted /\ pc' \notin Evicted
  BY DEF EvictOperands, RescheduleGPUOperatorComponents, CleanupLabels,
         UpdateNodeLabels, Evicted, pods, machine, history
<1>2. Gate!Turn
  BY <1>1 DEF Gate!Turn, LoadedModules
<1> QED
  BY <1>2 DEF GateMoves, Gate!Next

\* The kubelet-plugin is none of the gate's operands.
LEMMA GatePlugin ==
  ASSUME TypeOK, EvictPlugin
  PROVE  GateMoves
<1>1. /\ UNCHANGED <<path, want, pod, host, stale>> /\ pc = "EvictPlugin"
      /\ labels' \in {labels, PausePluginPatch(comps, labels)}
  BY UpdateWrites DEF EvictPlugin, pods, machine, history
<1>2. \A c \in Guests : labels'[c] = labels[c]
  BY <1>1 DEF PausePluginPatch, Guests, NotAwaited, TypeOK
<1>3. Alone' => Alone
  BY <1>1 DEF Alone, Evicted
<1> QED
  BY <1>1, <1>2, <1>3, GateQuiet DEF LoadedModules

LEMMA GateInstall == InstallDriver => GateMoves
<1> SUFFICES ASSUME InstallDriver PROVE GateMoves
  OBVIOUS
<1>1. /\ UNCHANGED <<want, labels, pod>> /\ stale' = Mounts
      /\ host' \in {host, host \cup DriverModules}
      /\ pc = "Done" /\ pc' = "Running"
  BY DEF InstallDriver, node, pods, history
<1>2. Gate!Install
  BY <1>1 DEF Gate!Install, Evicted, LoadedModules, Mounts
<1> QED
  BY <1>2 DEF GateMoves, Gate!Next

LEMMA GateReboot == TypeOK /\ Reboot => GateMoves
<1> SUFFICES ASSUME TypeOK, Reboot PROVE GateMoves
  OBVIOUS
<1>1. /\ UNCHANGED <<want, labels>> /\ stale' = {} /\ pc' = "Start"
      /\ host' = host \ (DriverModules \cup {"mofed"})
      /\ \A c \in Guests : pod'[c] = "absent" <=> pod[c] = "absent"
  BY DEF Reboot, node, history, TypeOK, Guests
<1>2. Present' = Present
  BY <1>1 DEF Present
<1>3. Gate!Reset
  BY <1>1, <1>2 DEF Gate!Reset, Evicted, LoadedModules, Present, Guests
<1> QED
  BY <1>3 DEF GateMoves, Gate!Next

\* A pod that starts enters, one that has finished has left; the pods of the
\* others are none of the gate's business.
LEMMA GatePods ==
  ASSUME TypeOK, NEW c \in Components, StartPod(c) \/ StopPod(c) \/ FinishPod(c)
  PROVE  GateMoves
<1>1. /\ UNCHANGED <<pc, path, want, labels, host, stale>>
      /\ \A d \in Components \ {c} : pod'[d] = pod[d]
      /\ DOMAIN pod = Components
  BY DEF StartPod, StopPod, FinishPod, TypeOK, process, node, machine, history
<1>2. CASE c \notin Guests \/ StopPod(c)
  <2>1. \A d \in Guests : pod'[d] = "absent" <=> pod[d] = "absent"
    BY <1>1, <1>2 DEF StopPod, Guests
  <2> QED
    BY <1>1, <2>1, GateQuiet DEF Alone, LoadedModules
<1>3. CASE c \in Guests /\ StartPod(c)
  <2>1. Deploys(labels[c]) /\ pod'[c] # "absent"
    BY <1>1, <1>3 DEF StartPod
  <2>2. Gate!Enter(c)
    BY <1>1, <1>3, <2>1 DEF Gate!Enter, LoadedModules, Guests
  <2> QED
    BY <1>3, <2>2 DEF GateMoves, Gate!Next, Guests
<1>4. CASE c \in Guests /\ FinishPod(c)
  <2>1. pod'[c] = "absent"
    BY <1>1, <1>4 DEF FinishPod
  <2>2. Gate!Leave(c)
    BY <1>1, <2>1 DEF Gate!Leave, LoadedModules, Guests
  <2> QED
    BY <1>4, <2>2 DEF GateMoves, Gate!Next, Guests
<1> QED
  BY <1>2, <1>3, <1>4

\* A label that is edited while the writer is in has been read by it, so that
\* the request is contested and not firm.
LEMMA GateEdit ==
  ASSUME TypeOK, NEW c \in Components, EditLabel(c)
  PROVE  GateMoves
<1>1. PICK b \in Bases :
        /\ labels' = [labels EXCEPT ![c] = Plain(b)]
        /\ want' = [want EXCEPT ![c] = IF Tracked(c) THEN "contested"
                                                    ELSE Intent(Plain(b))]
  BY DEF EditLabel
<1>2. /\ UNCHANGED <<pc, path, pod, host, stale>>
      /\ DOMAIN labels = Components /\ DOMAIN want = Components
  BY DEF EditLabel, TypeOK, process, pods, machine
<1>3. \A d \in Components \ {c} : labels'[d] = labels[d] /\ want'[d] = want[d]
  BY <1>1, <1>2
<1>4. CASE c \notin Guests
  BY <1>2, <1>3, <1>4, GateQuiet DEF Alone, LoadedModules, Guests
<1>5. CASE c \in Guests
  <2> DEFINE asked == [d \in Guests |-> want[d]]
  <2>1. want'[c] \in Intents \cup {"contested"}
    BY <1>1, <1>2, PlainType, ValueTypes
  <2>2. asked' = [asked EXCEPT ![c] = want'[c]]
    BY <1>3, <1>5 DEF Guests
  <2>3. Alone => want'[c] \notin Intents \ {"empty"}
    <3>1. Alone => Tracked(c)
      BY <1>5 DEF Alone, Evicted, Active, Tracked, FetchKeys, Guests,
         NotAwaited
    <3> QED
      BY <1>1, <1>2, <3>1, CustomBasesAssumption DEF Intents, Pausable
  <2>4. Opened' \in {Opened \cup {c}, Opened \ {c}}
    <3>1. CASE Deploys(labels'[c])
      BY <1>3, <1>5, <3>1 DEF Opened, Guests
    <3>2. CASE ~Deploys(labels'[c])
      BY <1>3, <1>5, <3>2 DEF Opened, Guests
    <3> QED
      BY <3>1, <3>2
  <2>5. Gate!Request(c)
    BY <1>2, <1>5, <2>1, <2>2, <2>3, <2>4
       DEF Gate!Request, Alone, Opened, LoadedModules, Guests
  <2> QED
    BY <1>5, <2>5 DEF GateMoves, Gate!Next, Guests
<1> QED
  BY <1>4, <1>5
-----------------------------------------------------------------------------
(* The refinement.                                                         *)

\* Only CheckSkip, once the operands are gone, chooses the path that unloads,
\* and nothing loads the driver on the path that found none.
LEMMA PathStep == PathInv /\ [Next]_vars => PathInv'
<1> SUFFICES ASSUME PathInv, [Next]_vars PROVE PathInv'
  OBVIOUS
<1> USE DEF PathInv, Unloading, isDriverLoaded, process, node, pods, machine,
            history
<1>1. DetectHostDriver => PathInv'
  BY DEF DetectHostDriver
<1>2. DisableDriver => PathInv'
  BY DEF DisableDriver, UpdateNodeLabels
<1>3. FetchAutoUpgradeAnnotation => PathInv'
  BY DEF FetchAutoUpgradeAnnotation
<1>4. FetchFails => PathInv'
  BY DEF FetchFails
<1>5. CheckLoaded => PathInv'
  BY DEF CheckLoaded
<1>6. EvictOperands => PathInv'
  BY DEF EvictOperands, UpdateNodeLabels
<1>7. AwaitOperandsFails => PathInv'
  BY DEF AwaitOperandsFails
<1>8. CheckSkip => PathInv'
  BY DEF CheckSkip
<1>9. CordonNode => PathInv'
  BY DEF CordonNode
<1>10. CountGPUPods => PathInv'
  BY DEF CountGPUPods, NvDrainFailed
<1>11. SelectGPUPods => PathInv'
  BY DEF SelectGPUPods, Select, NvDrainFailed
<1>12. GPUPodsDrained => PathInv'
  BY DEF GPUPodsDrained, NvDrainFailed
<1>13. DrainAfterEviction => PathInv'
  BY DEF DrainAfterEviction, DrainNode
<1>14. DrainAfterUnload => PathInv'
  BY DEF DrainAfterUnload, DrainNode
<1>15. CheckHolders => PathInv'
  BY DEF CheckHolders
<1>16. EvictPlugin => PathInv'
  BY DEF EvictPlugin, UpdateNodeLabels, EvictPluginFailed
<1>17. PluginGone => PathInv'
  BY DEF PluginGone
<1>18. AwaitPluginFails => PathInv'
  BY DEF AwaitPluginFails, EvictPluginFailed
<1>19. CheckLoadedAgain => PathInv'
  BY DEF CheckLoadedAgain
<1>20. UnloadDriver => PathInv'
  BY DEF UnloadDriver, CleanupDriverFailed
<1>21. UnmountRootfs => PathInv'
  BY DEF UnmountRootfs, CleanupDriverFailed
<1>22. UnloadNouveau => PathInv'
  BY DEF UnloadNouveau
<1>23. UnbindVfioPCI => PathInv'
  BY DEF UnbindVfioPCI
<1>24. WaitForMofedDriver => PathInv'
  BY DEF WaitForMofedDriver
<1>25. Uncordon => PathInv'
  BY DEF Uncordon
<1>26. RescheduleGPUOperatorComponents => PathInv'
  BY DEF RescheduleGPUOperatorComponents, UpdateNodeLabels
<1>27. CleanupOnFailure => PathInv'
  BY DEF CleanupOnFailure
<1>28. CleanupLabels => PathInv'
  BY DEF CleanupLabels, UpdateNodeLabels
<1>29. Restart => PathInv'
  BY DEF Restart
<1>30. Crash => PathInv'
  BY DEF Crash
<1>31. Reboot => PathInv'
  BY DEF Reboot
<1>32. Redeploy => PathInv'
  BY DEF Redeploy
<1>33. InstallDriver => PathInv'
  BY DEF InstallDriver
<1>34. MofedReady => PathInv'
  BY DEF MofedReady
<1>35. (\E c \in Components : FetchLabel(c)) => PathInv'
  BY DEF FetchLabel
<1>36. (\E c \in Components : OperandGone(c)) => PathInv'
  BY DEF OperandGone
<1>37. (\E w \in Workloads : EvictWorkload(w)) => PathInv'
  BY DEF EvictWorkload
<1>38. (\E w \in Workloads : EvictedWorkloadGone(w)) => PathInv'
  BY DEF EvictedWorkloadGone
<1>39. (\E w \in Workloads : EvictWorkloadFails(w)) => PathInv'
  BY DEF EvictWorkloadFails
<1>40. (\E m \in DriverModules : UnloadModule(m)) => PathInv'
  BY DEF UnloadModule
<1>41. (\E c \in Components : StartPod(c)) => PathInv'
  BY DEF StartPod
<1>42. (\E c \in Components : StopPod(c)) => PathInv'
  BY DEF StopPod
<1>43. (\E c \in Components : FinishPod(c)) => PathInv'
  BY DEF FinishPod
<1>44. (\E c \in Components : EditLabel(c)) => PathInv'
  BY DEF EditLabel
<1>45. (\E w \in Workloads : ScheduleWorkload(w)) => PathInv'
  BY DEF ScheduleWorkload
<1>46. (\E w \in Workloads : BindWorkload(w)) => PathInv'
  BY DEF BindWorkload
<1>47. (\E w \in Workloads : DeleteWorkload(w)) => PathInv'
  BY DEF DeleteWorkload
<1>48. (\E w \in Workloads : FinishWorkload(w)) => PathInv'
  BY DEF FinishWorkload
<1>49. EditPolicy => PathInv'
  BY DEF EditPolicy
<1>50. UNCHANGED vars => PathInv'
  BY DEF vars
<1> HIDE DEF PathInv
<1> QED
  BY <1>1, <1>2, <1>3, <1>4, <1>5, <1>6, <1>7, <1>8, <1>9, <1>10, <1>11, <1>12,
     <1>13, <1>14, <1>15, <1>16, <1>17, <1>18, <1>19, <1>20, <1>21, <1>22,
     <1>23, <1>24, <1>25, <1>26, <1>27, <1>28, <1>29, <1>30, <1>31, <1>32,
     <1>33, <1>34, <1>35, <1>36, <1>37, <1>38, <1>39, <1>40, <1>41, <1>42,
     <1>43, <1>44, <1>45, <1>46, <1>47, <1>48, <1>49, <1>50
     DEF Next, Manager, Environment

LEMMA GateStart == Init => PathInv /\ EvictInv /\ Gate!Init
<1> SUFFICES ASSUME Init PROVE PathInv /\ EvictInv /\ Gate!Init
  OBVIOUS
<1>1. TypeOK /\ pc = "Start"
  BY TypeInit DEF Init
<1>2. [c \in Guests |-> want[c]] \in [Guests -> Intents \cup {"contested"}]
  BY <1>1 DEF TypeOK, Guests
<1>3. PathInv /\ EvictInv
  BY <1>1 DEF PathInv, Unloading, EvictInv, Withdrawn, Evicted
<1>4. Gate!Init
  BY <1>1, <1>2 DEF Gate!Init, Evicted, LoadedModules, Guests
<1> QED
  BY <1>3, <1>4

LEMMA GateStep ==
  TypeOK /\ LabelInv /\ EvictInv /\ PathInv /\ [Next]_vars => GateMoves
<1> SUFFICES ASSUME TypeOK, LabelInv, EvictInv, PathInv, [Next]_vars
             PROVE  GateMoves
  OBVIOUS
<1>1. CASE UNCHANGED vars
  BY <1>1, GateQuiet DEF vars, process, node, pods, machine, history, Alone,
                         LoadedModules
<1>2. CASE Manager
  BY <1>2, GateApart, GateAcquire, GateUnload, GateUnmount, GateTurn,
     GatePlugin
     DEF Manager, Apart
<1>3. CASE Environment
  BY <1>3, GateApart, GateInstall, GateReboot, GatePods, GateEdit
     DEF Environment, Apart
<1> QED
  BY <1>1, <1>2, <1>3 DEF Next

\* uninstall_driver holds the driver alone while it takes it away: it begins
\* when the operands it waits for are withdrawn and gone, and neither it nor
\* the node lets one back before it reschedules them.
THEOREM CommandImplementsGate == Spec => ImplementsGate
<1>1. GateMoves <=> [Gate!Next]_(Gate!vars)
  BY DEF GateMoves
<1> QED
  BY LabelInvariant, EvictStep, PathStep, GateStart, GateStep, <1>1, PTL
     DEF Spec, ImplementsGate, Gate!Spec

-----------------------------------------------------------------------------
(* What the gate promises, of the command.                                 *)

GateFacts == INSTANCE OperandGate_proofs WITH
  Readers <- Components \ NotAwaited,
  Asked   <- Intents \cup {"contested"},
  Firm    <- Intents \ {"empty"},
  Modules <- DriverModules,
  Core    <- "nvidia",
  asked   <- [c \in Components \ NotAwaited |-> want[c]],
  open    <- {c \in Components \ NotAwaited : Deploys(labels[c])},
  inside  <- {c \in Components \ NotAwaited : pod[c] # "absent"},
  held    <- pc \in Evicted /\ path \in {"skip", "full"},
  loaded  <- LoadedModules,
  mounted <- "rootfs" \in stale

\* The gate of DriverManager is the one the facts are about.
LEMMA SameGate ==
  /\ Gate!Init <=> GateFacts!Init
  /\ [Gate!Next]_(Gate!vars) <=> [GateFacts!Next]_(GateFacts!vars)
  /\ Gate!Exclusive <=> GateFacts!Exclusive
<1> USE DEF Gate!Waited, GateFacts!Waited, Gate!Excluded, GateFacts!Excluded
<1>1. Gate!Init <=> GateFacts!Init
  BY DEF Gate!Init, GateFacts!Init
<1>2. [Gate!Next]_(Gate!vars) <=> [GateFacts!Next]_(GateFacts!vars)
  BY DEF Gate!Next, GateFacts!Next, Gate!vars, GateFacts!vars,
         Gate!Request, GateFacts!Request, Gate!Enter, GateFacts!Enter,
         Gate!Leave, GateFacts!Leave, Gate!Turn, GateFacts!Turn,
         Gate!Acquire, GateFacts!Acquire, Gate!Release, GateFacts!Release,
         Gate!Unload, GateFacts!Unload, Gate!Unmount, GateFacts!Unmount,
         Gate!Install, GateFacts!Install, Gate!Reset, GateFacts!Reset
<1>3. Gate!Exclusive <=> GateFacts!Exclusive
  BY DEF Gate!Exclusive, GateFacts!Exclusive
<1> QED
  BY <1>1, <1>2, <1>3

\* From the end of the waits for the operands' pods to their rescheduling, no
\* operand whose administrator asked something of it has a pod or a label that
\* would place one.
THEOREM OperandsStayOut == Spec => []Gate!Exclusive
<1>1. Gate!Spec => GateFacts!Spec
  BY SameGate, PTL DEF Gate!Spec, GateFacts!Spec
<1>2. Gate!Exclusive <=> GateFacts!Exclusive
  BY SameGate
<1> QED
  BY <1>1, <1>2, CommandImplementsGate, GateFacts!WriterIsAlone, PTL
     DEF ImplementsGate

\* A step that unloads some modules of the driver and leaves others finds none
\* of those operands with a pod.
THEOREM UnloadedUnderNobody == Spec => Gate!TakenFromNobody
<1>1. Gate!Spec => GateFacts!Spec
  BY SameGate, PTL DEF Gate!Spec, GateFacts!Spec
<1>2. GateFacts!TakenFromNobody => Gate!TakenFromNobody
  BY PTL DEF Gate!TakenFromNobody, GateFacts!TakenFromNobody, Gate!vars,
             GateFacts!vars, Gate!Waited, GateFacts!Waited
<1> QED
  BY <1>1, <1>2, CommandImplementsGate, GateFacts!NothingTakenFromUsers, PTL
     DEF ImplementsGate
=============================================================================
