------------------------- MODULE DriverManager_host -------------------------
(***************************************************************************)
(* What is proved of the steps of DriverManager on the host and on the     *)
(* node: what is left of a driver when the next one is let in, who owns    *)
(* the drain, which pods are left when the kubelet-plugin goes, and when   *)
(* the manager's cordon is lifted.                                         *)
(***************************************************************************)
EXTENDS DriverManager_proofs

FullOnly  == {"CordonNode", "CountGPUPods", "SelectGPUPods", "AwaitGPUPods",
              "DrainNode", "CheckHolders", "CheckLoadedAgain",
              "UnloadModules", "DrainRetry"}
Unmounted == {"UnloadNouveau", "UnbindVfio", "AwaitMofed", "Uncordon",
              "Reschedule", "Done"}
Halfway   == {"EvictPlugin", "AwaitPlugin", "UnmountRootfs"} \cup Unmounted

\* What a disturbance leaves of the counts.
LEMMA Spending ==
  ASSUME TypeOK
  PROVE  /\ \A k \in Disturbances : used[k] \in Nat
         /\ \A k \in Disturbances : Spend(k) => used'[k] > 0
         /\ \A k, l \in Disturbances : Spend(k) /\ k # l => used'[l] = used[l]
BY DEF TypeOK, Spend

-----------------------------------------------------------------------------
(* The driver goes by stages.                                              *)

\* Past the release of the devices.
Released == {"AwaitMofed", "Uncordon", "Reschedule", "Done"}
NoVfio   == used["fault"] = 0 => vfio = {}

\* The strengthening.  No module is loaded without nvidia; the loop over the
\* modules has unloaded those it has dealt with, unless it has collected an
\* error; and what a stage has taken from the host stays away until the driver
\* container is let in.  The devices are released after nouveau on the fresh
\* path, before it on the full one.
StageInv ==
  /\ LoadedModules # {} => isDriverLoaded
  /\ pc \in {"EvictOperands", "AwaitOperands", "CordonNode"} => isDriverLoaded
  /\ pc \in FullOnly => path = "full"
  /\ pc \in Halfway => path # "none"
  /\ failed => pc \in {"AwaitGPUPods", "UnloadModules"}
  /\ pc = "UnloadModules" =>
       /\ todo \subseteq LoadedModules
       /\ failed <=> todo # LoadedModules
  /\ path = "fresh" /\ pc \in Halfway => LoadedModules = {}
  /\ path = "full" /\ pc \in Unmounted \cup {"UnmountRootfs"} =>
       LoadedModules = {}
  /\ path # "skip" /\ pc \in Unmounted => "rootfs" \notin stale
  /\ path = "fresh" /\ pc \in Unmounted \ {"UnloadNouveau"} =>
       "nouveau" \notin host
  /\ path = "full" /\ pc = "Done" => "nouveau" \notin host
  /\ path = "fresh" /\ pc \in Released => NoVfio
  /\ path = "full" /\ pc \in Released \cup {"UnloadNouveau"} => NoVfio

LEMMA Kernel ==
  /\ "nvidia" \in DriverModules
  /\ "nouveau" \notin DriverModules /\ "mofed" \notin DriverModules
BY DriverManagerAssumption

LEMMA StageInit == Init => StageInv
<1> SUFFICES ASSUME Init PROVE StageInv
  OBVIOUS
<1>1. PICK n \in Nodes : Init!(n)
  BY DEF Init
<1>2. LoadedModules # {} => isDriverLoaded
  BY <1>1, DriverManagerAssumption DEF LoadedModules, isDriverLoaded
<1> QED
  BY <1>1, <1>2 DEF StageInv, FullOnly, Halfway, Unmounted, Released

LEMMA StageStep == TypeOK /\ StageInv /\ [Next]_vars => StageInv'
<1> SUFFICES ASSUME TypeOK, StageInv, [Next]_vars PROVE StageInv'
  OBVIOUS
<1>a. /\ vfio' = {} \/ Spend("fault") => NoVfio'
      /\ /\ UNCHANGED vfio /\ NoVfio
         /\ UNCHANGED used \/ Spend("edit") \/ Spend("redeploy")
         => NoVfio'
  BY Spending DEF NoVfio, Disturbances
<1> USE <1>a DEF StageInv, FullOnly, Unmounted, Halfway, Released,
            LoadedModules, isDriverLoaded, process, node, pods, machine,
            history
<1>1. DetectHostDriver => StageInv'
  BY DEF DetectHostDriver
<1>2. DisableDriver => StageInv'
  BY DEF DisableDriver, UpdateNodeLabels
<1>3. FetchAutoUpgradeAnnotation => StageInv'
  BY DEF FetchAutoUpgradeAnnotation
<1>4. FetchFails => StageInv'
  BY DEF FetchFails
<1>5. CheckLoaded => StageInv'
  BY DEF CheckLoaded
<1>6. EvictOperands => StageInv'
  BY DEF EvictOperands, UpdateNodeLabels
<1>7. AwaitOperandsFails => StageInv'
  BY DEF AwaitOperandsFails
<1>8. CheckSkip => StageInv'
  BY DEF CheckSkip
<1>9. CordonNode => StageInv'
  <2> SUFFICES ASSUME CordonNode PROVE StageInv'
    OBVIOUS
  <2>1. /\ UNCHANGED <<path, todo, failed, host, stale>>
        /\ pc = "CordonNode" /\ pc' \in {"CountGPUPods", "Failed"}
    BY DEF CordonNode
  <2> QED
    BY <2>1
<1>10. CountGPUPods => StageInv'
  BY DEF CountGPUPods, NvDrainFailed
<1>11. SelectGPUPods => StageInv'
  <2> SUFFICES ASSUME SelectGPUPods PROVE StageInv'
    OBVIOUS
  <2>1. /\ UNCHANGED <<path, failed, host, stale>>
        /\ pc = "SelectGPUPods"
        /\ pc' \in {"AwaitGPUPods", "DrainNode", "Cleanup", "Panicked"}
    BY DEF SelectGPUPods, Select, NvDrainFailed
  <2> QED
    BY <2>1
<1>12. GPUPodsDrained => StageInv'
  BY DEF GPUPodsDrained, NvDrainFailed
<1>13. DrainAfterEviction => StageInv'
  BY DEF DrainAfterEviction, DrainNode
<1>14. DrainAfterUnload => StageInv'
  BY DEF DrainAfterUnload, DrainNode
<1>15. CheckHolders => StageInv'
  <2> SUFFICES ASSUME CheckHolders PROVE StageInv'
    OBVIOUS
  <2>1. /\ UNCHANGED <<path, todo, failed, host, stale>>
        /\ pc = "CheckHolders" /\ pc' \in {"Cleanup", "EvictPlugin"}
    BY DEF CheckHolders
  <2> QED
    BY <2>1
<1>16. EvictPlugin => StageInv'
  BY DEF EvictPlugin, UpdateNodeLabels, EvictPluginFailed
<1>17. PluginGone => StageInv'
  BY DEF PluginGone
<1>18. AwaitPluginFails => StageInv'
  BY DEF AwaitPluginFails, EvictPluginFailed
<1>19. CheckLoadedAgain => StageInv'
  BY DEF CheckLoadedAgain
<1>20. UnloadDriver => StageInv'
  BY DEF UnloadDriver, CleanupDriverFailed
<1>21. UnmountRootfs => StageInv'
  BY DEF UnmountRootfs, CleanupDriverFailed
<1>22. UnloadNouveau => StageInv'
  BY DEF UnloadNouveau
<1>23. UnbindVfioPCI => StageInv'
  BY DEF UnbindVfioPCI
<1>24. WaitForMofedDriver => StageInv'
  BY DEF WaitForMofedDriver
<1>25. Uncordon => StageInv'
  BY DEF Uncordon, UncordonNode
<1>26. RescheduleGPUOperatorComponents => StageInv'
  BY DEF RescheduleGPUOperatorComponents, UpdateNodeLabels
<1>27. CleanupOnFailure => StageInv'
  BY DEF CleanupOnFailure
<1>28. CleanupLabels => StageInv'
  BY DEF CleanupLabels, UpdateNodeLabels
<1>29. Restart => StageInv'
  BY DEF Restart, FreshProcess
<1>30. Crash => StageInv'
  BY DEF Crash, FreshProcess
<1>31. Reboot => StageInv'
  BY DEF Reboot, FreshProcess
<1>32. Redeploy => StageInv'
  BY DEF Redeploy, FreshProcess
<1>33. InstallDriver => StageInv'
  <2> SUFFICES ASSUME InstallDriver PROVE StageInv'
    OBVIOUS
  <2>1. pc' = "Running" /\ pc = "Done" /\ UNCHANGED <<path, todo, failed>>
    BY DEF InstallDriver
  <2>2. isDriverLoaded'
    BY Kernel DEF InstallDriver
  <2> QED
    BY <2>1, <2>2
<1>34. MofedReady => StageInv'
  <2> SUFFICES ASSUME MofedReady PROVE StageInv'
    OBVIOUS
  <2>1. UNCHANGED <<pc, path, todo, failed, stale, vfio, used>>
    BY DEF MofedReady
  <2>2. LoadedModules' = LoadedModules /\ (isDriverLoaded' <=> isDriverLoaded)
        /\ ("nouveau" \in host' <=> "nouveau" \in host)
    BY Kernel DEF MofedReady
  <2> HIDE DEF LoadedModules, isDriverLoaded
  <2> QED
    BY <2>1, <2>2
<1>35. (\E c \in Components : FetchLabel(c)) => StageInv'
  BY DEF FetchLabel
<1>36. (\E c \in Components : OperandGone(c)) => StageInv'
  BY DEF OperandGone
<1>37. (\E w \in Workloads : EvictWorkload(w)) => StageInv'
  BY DEF EvictWorkload
<1>38. (\E w \in Workloads : EvictedWorkloadGone(w)) => StageInv'
  BY DEF EvictedWorkloadGone
<1>39. (\E w \in Workloads : EvictWorkloadFails(w)) => StageInv'
  BY DEF EvictWorkloadFails
<1>40. (\E m \in DriverModules : UnloadModule(m)) => StageInv'
  BY DEF UnloadModule
<1>41. (\E c \in Components : StartPod(c)) => StageInv'
  BY DEF StartPod
<1>42. (\E c \in Components : StopPod(c)) => StageInv'
  BY DEF StopPod
<1>43. (\E c \in Components : FinishPod(c)) => StageInv'
  BY DEF FinishPod
<1>44. (\E c \in Components : EditLabel(c)) => StageInv'
  BY DEF EditLabel
<1>45. (\E w \in Workloads : ScheduleWorkload(w)) => StageInv'
  BY DEF ScheduleWorkload
<1>46. (\E w \in Workloads : BindWorkload(w)) => StageInv'
  BY DEF BindWorkload
<1>47. (\E w \in Workloads : DeleteWorkload(w)) => StageInv'
  BY DEF DeleteWorkload
<1>48. (\E w \in Workloads : FinishWorkload(w)) => StageInv'
  BY DEF FinishWorkload
<1>49. EditPolicy => StageInv'
  BY DEF EditPolicy
<1>50. UNCHANGED vars => StageInv'
  BY DEF vars
<1> HIDE DEF StageInv
<1> QED
  BY <1>1, <1>2, <1>3, <1>4, <1>5, <1>6, <1>7, <1>8, <1>9, <1>10, <1>11, <1>12,
     <1>13, <1>14, <1>15, <1>16, <1>17, <1>18, <1>19, <1>20, <1>21, <1>22,
     <1>23, <1>24, <1>25, <1>26, <1>27, <1>28, <1>29, <1>30, <1>31, <1>32,
     <1>33, <1>34, <1>35, <1>36, <1>37, <1>38, <1>39, <1>40, <1>41, <1>42,
     <1>43, <1>44, <1>45, <1>46, <1>47, <1>48, <1>49, <1>50
     DEF Next, Manager, Environment

LEMMA StageInvariant == Spec => [](TypeOK /\ StageInv)
BY TypeCorrect, StageInit, StageStep, PTL DEF Spec

\* Unless the driver was kept, the driver container is let in to a host without
\* driver modules, without nouveau and without a mounted rootfs; and without a
\* device bound to vfio-pci if no call has failed so far.
THEOREM UninstalledWhenDone == Spec => []UninstalledAtSuccess
<1>1. TypeOK /\ StageInv => UninstalledAtSuccess
  BY DEF StageInv, UninstalledAtSuccess, Halfway, Unmounted, Released,
         NoVfio, LoadedModules, TypeOK, Paths
<1> QED
  BY StageInvariant, <1>1, PTL
-----------------------------------------------------------------------------
(* Who owns the drain.                                                     *)

Draining == {"CordonNode", "CountGPUPods", "SelectGPUPods", "AwaitGPUPods"}
Cordoned == {"CountGPUPods", "SelectGPUPods", "AwaitGPUPods", "DrainNode",
             "CheckHolders", "EvictPlugin", "AwaitPlugin", "CheckLoadedAgain",
             "UnloadModules", "DrainRetry", "UnmountRootfs", "UnbindVfio",
             "AwaitMofed"}

\* The strengthening: only an attempt that evicts up front drains, and its
\* cordon stays until it lifts it, so that after CheckHolders the scheduler
\* chooses the node for no further pod.
DrainInv ==
  /\ pc \in Draining => EvictsUpFront
  /\ path = "full" /\ EvictsUpFront /\ pc \in Cordoned => unschedulable
  /\ path = "full" /\ EvictsUpFront /\ pc \in HoldersChecked =>
       Assigned \subseteq DaemonPods \cup inFlight
  /\ PluginOutlivesHolders

\* While nobody edits it, an attempt past the annotation knows what it says.
PolicyInv ==
  /\ used["redeploy"] = 0
  /\ pc \in Active \ {"Start", "DisableDriver", "FetchLabels"}
  => policy = annotation

LEMMA PolicyStep == TypeOK /\ PolicyInv /\ [Next]_vars => PolicyInv'
<1> SUFFICES ASSUME TypeOK, PolicyInv, [Next]_vars PROVE PolicyInv'
  OBVIOUS
<1>a. /\ Spend("redeploy") => used'["redeploy"] # 0
      /\ \A k \in Disturbances \ {"redeploy"} :
           Spend(k) => used'["redeploy"] = used["redeploy"]
  BY Spending DEF Disturbances
<1> USE <1>a DEF PolicyInv, Active, Disturbances, process, node, pods, machine,
            history
<1>1. DetectHostDriver => PolicyInv'
  BY DEF DetectHostDriver
<1>2. DisableDriver => PolicyInv'
  BY DEF DisableDriver, UpdateNodeLabels
<1>3. FetchAutoUpgradeAnnotation => PolicyInv'
  BY DEF FetchAutoUpgradeAnnotation
<1>4. FetchFails => PolicyInv'
  BY DEF FetchFails
<1>5. CheckLoaded => PolicyInv'
  BY DEF CheckLoaded
<1>6. EvictOperands => PolicyInv'
  BY DEF EvictOperands, UpdateNodeLabels
<1>7. AwaitOperandsFails => PolicyInv'
  BY DEF AwaitOperandsFails
<1>8. CheckSkip => PolicyInv'
  BY DEF CheckSkip
<1>9. CordonNode => PolicyInv'
  BY DEF CordonNode
<1>10. CountGPUPods => PolicyInv'
  BY DEF CountGPUPods, NvDrainFailed
<1>11. SelectGPUPods => PolicyInv'
  BY DEF SelectGPUPods, Select, NvDrainFailed
<1>12. GPUPodsDrained => PolicyInv'
  BY DEF GPUPodsDrained, NvDrainFailed
<1>13. DrainAfterEviction => PolicyInv'
  BY DEF DrainAfterEviction, DrainNode
<1>14. DrainAfterUnload => PolicyInv'
  BY DEF DrainAfterUnload, DrainNode
<1>15. CheckHolders => PolicyInv'
  BY DEF CheckHolders
<1>16. EvictPlugin => PolicyInv'
  BY DEF EvictPlugin, UpdateNodeLabels, EvictPluginFailed
<1>17. PluginGone => PolicyInv'
  BY DEF PluginGone
<1>18. AwaitPluginFails => PolicyInv'
  BY DEF AwaitPluginFails, EvictPluginFailed
<1>19. CheckLoadedAgain => PolicyInv'
  BY DEF CheckLoadedAgain
<1>20. UnloadDriver => PolicyInv'
  BY DEF UnloadDriver, CleanupDriverFailed
<1>21. UnmountRootfs => PolicyInv'
  BY DEF UnmountRootfs, CleanupDriverFailed
<1>22. UnloadNouveau => PolicyInv'
  BY DEF UnloadNouveau
<1>23. UnbindVfioPCI => PolicyInv'
  BY DEF UnbindVfioPCI
<1>24. WaitForMofedDriver => PolicyInv'
  BY DEF WaitForMofedDriver
<1>25. Uncordon => PolicyInv'
  BY DEF Uncordon, UncordonNode
<1>26. RescheduleGPUOperatorComponents => PolicyInv'
  BY DEF RescheduleGPUOperatorComponents, UpdateNodeLabels
<1>27. CleanupOnFailure => PolicyInv'
  BY DEF CleanupOnFailure, UncordonNode
<1>28. CleanupLabels => PolicyInv'
  BY DEF CleanupLabels, UpdateNodeLabels
<1>29. Restart => PolicyInv'
  BY DEF Restart, FreshProcess
<1>30. Crash => PolicyInv'
  BY DEF Crash, FreshProcess
<1>31. Reboot => PolicyInv'
  BY DEF Reboot, FreshProcess
<1>32. Redeploy => PolicyInv'
  BY DEF Redeploy, FreshProcess
<1>33. InstallDriver => PolicyInv'
  BY DEF InstallDriver
<1>34. MofedReady => PolicyInv'
  BY DEF MofedReady
<1>35. (\E c \in Components : FetchLabel(c)) => PolicyInv'
  BY DEF FetchLabel
<1>36. (\E c \in Components : OperandGone(c)) => PolicyInv'
  BY DEF OperandGone
<1>37. (\E w \in Workloads : EvictWorkload(w)) => PolicyInv'
  BY DEF EvictWorkload
<1>38. (\E w \in Workloads : EvictedWorkloadGone(w)) => PolicyInv'
  BY DEF EvictedWorkloadGone
<1>39. (\E w \in Workloads : EvictWorkloadFails(w)) => PolicyInv'
  BY DEF EvictWorkloadFails
<1>40. (\E m \in DriverModules : UnloadModule(m)) => PolicyInv'
  BY DEF UnloadModule
<1>41. (\E c \in Components : StartPod(c)) => PolicyInv'
  BY DEF StartPod
<1>42. (\E c \in Components : StopPod(c)) => PolicyInv'
  BY DEF StopPod
<1>43. (\E c \in Components : FinishPod(c)) => PolicyInv'
  BY DEF FinishPod
<1>44. (\E c \in Components : EditLabel(c)) => PolicyInv'
  BY DEF EditLabel
<1>45. (\E w \in Workloads : ScheduleWorkload(w)) => PolicyInv'
  BY DEF ScheduleWorkload
<1>46. (\E w \in Workloads : BindWorkload(w)) => PolicyInv'
  BY DEF BindWorkload
<1>47. (\E w \in Workloads : DeleteWorkload(w)) => PolicyInv'
  BY DEF DeleteWorkload
<1>48. (\E w \in Workloads : FinishWorkload(w)) => PolicyInv'
  BY DEF FinishWorkload
<1>49. EditPolicy => PolicyInv'
  BY DEF EditPolicy
<1>50. UNCHANGED vars => PolicyInv'
  BY DEF vars
<1> HIDE DEF PolicyInv
<1> QED
  BY <1>1, <1>2, <1>3, <1>4, <1>5, <1>6, <1>7, <1>8, <1>9, <1>10, <1>11, <1>12,
     <1>13, <1>14, <1>15, <1>16, <1>17, <1>18, <1>19, <1>20, <1>21, <1>22,
     <1>23, <1>24, <1>25, <1>26, <1>27, <1>28, <1>29, <1>30, <1>31, <1>32,
     <1>33, <1>34, <1>35, <1>36, <1>37, <1>38, <1>39, <1>40, <1>41, <1>42,
     <1>43, <1>44, <1>45, <1>46, <1>47, <1>48, <1>49, <1>50
     DEF Next, Manager, Environment

LEMMA DrainStep == TypeOK /\ StageInv /\ DrainInv /\ [Next]_vars => DrainInv'
<1> SUFFICES ASSUME TypeOK, StageInv, DrainInv, [Next]_vars PROVE DrainInv'
  OBVIOUS
<1> USE DEF DrainInv, PluginOutlivesHolders, HoldersChecked, Draining,
            Cordoned, FullOnly, StageInv, process, node, pods, machine,
            history
<1>a. UNCHANGED <<comps, policy, cfg>> =>
        (EvictsUpFront' <=> EvictsUpFront) /\ (DraDeployed' <=> DraDeployed)
  BY DEF EvictsUpFront, DraDeployed, isAutoDrainEnabled,
         isGPUPodEvictionEnabled
<1>b. UNCHANGED wl => HolderPods' = HolderPods /\ Assigned' = Assigned
  BY DEF HolderPods, OnNode, Assigned
<1>1. DetectHostDriver => DrainInv'
  BY <1>a, <1>b DEF DetectHostDriver
<1>2. DisableDriver => DrainInv'
  BY <1>a, <1>b DEF DisableDriver, UpdateNodeLabels
<1>3. FetchAutoUpgradeAnnotation => DrainInv'
  BY <1>a, <1>b DEF FetchAutoUpgradeAnnotation
<1>4. FetchFails => DrainInv'
  BY <1>a, <1>b DEF FetchFails
<1>5. CheckLoaded => DrainInv'
  BY <1>a, <1>b DEF CheckLoaded
<1>6. EvictOperands => DrainInv'
  BY <1>a, <1>b DEF EvictOperands, UpdateNodeLabels
<1>7. AwaitOperandsFails => DrainInv'
  BY <1>a, <1>b DEF AwaitOperandsFails
<1>8. CheckSkip => DrainInv'
  BY <1>a, <1>b DEF CheckSkip
<1>9. CordonNode => DrainInv'
  BY <1>a, <1>b DEF CordonNode
<1>10. CountGPUPods => DrainInv'
  BY <1>a, <1>b DEF CountGPUPods, NvDrainFailed
<1>11. SelectGPUPods => DrainInv'
  <2> SUFFICES ASSUME SelectGPUPods PROVE DrainInv'
    OBVIOUS
  <2>1. /\ pc = "SelectGPUPods"
        /\ pc' \in {"AwaitGPUPods", "DrainNode", "Cleanup", "Panicked"}
        /\ UNCHANGED <<path, comps, policy, cfg, unschedulable, wl, inFlight>>
    BY DEF SelectGPUPods, Select, NvDrainFailed
  <2> QED
    BY <1>a, <1>b, <2>1
<1>12. GPUPodsDrained => DrainInv'
  BY <1>a, <1>b DEF GPUPodsDrained, NvDrainFailed
<1>13. DrainAfterEviction => DrainInv'
  BY <1>a, <1>b DEF DrainAfterEviction, DrainNode
<1>14. DrainAfterUnload => DrainInv'
  BY <1>a, <1>b DEF DrainAfterUnload, DrainNode
<1>15. CheckHolders => DrainInv'
  BY <1>a, <1>b DEF CheckHolders
<1>16. EvictPlugin => DrainInv'
  BY <1>a, <1>b DEF EvictPlugin, UpdateNodeLabels, EvictPluginFailed
<1>17. PluginGone => DrainInv'
  BY <1>a, <1>b DEF PluginGone
<1>18. AwaitPluginFails => DrainInv'
  BY <1>a, <1>b DEF AwaitPluginFails, EvictPluginFailed
<1>19. CheckLoadedAgain => DrainInv'
  BY <1>a, <1>b DEF CheckLoadedAgain
<1>20. UnloadDriver => DrainInv'
  BY <1>a, <1>b DEF UnloadDriver, CleanupDriverFailed
<1>21. UnmountRootfs => DrainInv'
  BY <1>a, <1>b DEF UnmountRootfs, CleanupDriverFailed
<1>22. UnloadNouveau => DrainInv'
  BY <1>a, <1>b DEF UnloadNouveau
<1>23. UnbindVfioPCI => DrainInv'
  BY <1>a, <1>b DEF UnbindVfioPCI
<1>24. WaitForMofedDriver => DrainInv'
  BY <1>a, <1>b DEF WaitForMofedDriver
<1>25. Uncordon => DrainInv'
  BY <1>a, <1>b DEF Uncordon
<1>26. RescheduleGPUOperatorComponents => DrainInv'
  BY <1>a, <1>b DEF RescheduleGPUOperatorComponents, UpdateNodeLabels
<1>27. CleanupOnFailure => DrainInv'
  BY <1>a, <1>b DEF CleanupOnFailure
<1>28. CleanupLabels => DrainInv'
  BY <1>a, <1>b DEF CleanupLabels, UpdateNodeLabels
<1>29. Restart => DrainInv'
  BY <1>a, <1>b DEF Restart, FreshProcess
<1>30. Crash => DrainInv'
  BY <1>a, <1>b DEF Crash, FreshProcess
<1>31. Reboot => DrainInv'
  BY <1>a, <1>b DEF Reboot, FreshProcess
<1>32. Redeploy => DrainInv'
  BY <1>a, <1>b DEF Redeploy, FreshProcess
<1>33. InstallDriver => DrainInv'
  BY <1>a, <1>b DEF InstallDriver
<1>34. MofedReady => DrainInv'
  BY <1>a, <1>b DEF MofedReady
<1>35. (\E c \in Components : FetchLabel(c)) => DrainInv'
  BY <1>a, <1>b DEF FetchLabel
<1>36. (\E c \in Components : OperandGone(c)) => DrainInv'
  BY <1>a, <1>b DEF OperandGone
<1>37. (\E w \in Workloads : EvictWorkload(w)) => DrainInv'
  BY <1>a, <1>b DEF EvictWorkload
<1>38. (\E w \in Workloads : EvictedWorkloadGone(w)) => DrainInv'
  BY <1>a, <1>b DEF EvictedWorkloadGone
<1>39. (\E w \in Workloads : EvictWorkloadFails(w)) => DrainInv'
  BY <1>a, <1>b DEF EvictWorkloadFails
<1>40. (\E m \in DriverModules : UnloadModule(m)) => DrainInv'
  BY <1>a, <1>b DEF UnloadModule
<1>41. (\E c \in Components : StartPod(c)) => DrainInv'
  BY <1>a, <1>b DEF StartPod
<1>42. (\E c \in Components : StopPod(c)) => DrainInv'
  BY <1>a, <1>b DEF StopPod
<1>43. (\E c \in Components : FinishPod(c)) => DrainInv'
  BY <1>a, <1>b DEF FinishPod
<1>44. (\E c \in Components : EditLabel(c)) => DrainInv'
  BY <1>a, <1>b DEF EditLabel
<1>45. (\E w \in Workloads : ScheduleWorkload(w)) => DrainInv'
  <2> SUFFICES ASSUME NEW w \in Workloads, ScheduleWorkload(w) PROVE DrainInv'
    OBVIOUS
  <2>1. /\ HolderPods' \subseteq HolderPods
        /\ unschedulable => Assigned' \subseteq Assigned \cup DaemonPods
    BY DEF ScheduleWorkload, HolderPods, Assigned, OnNode, TypeOK
  <2>2. UNCHANGED <<pc, path, unschedulable, comps, policy, cfg, inFlight>>
    BY DEF ScheduleWorkload
  <2> QED
    BY <1>a, <2>1, <2>2
<1>46. (\E w \in Workloads : BindWorkload(w)) => DrainInv'
  <2> SUFFICES ASSUME NEW w \in Workloads, BindWorkload(w) PROVE DrainInv'
    OBVIOUS
  <2>1. /\ HolderPods' \subseteq HolderPods \cup Assigned
        /\ Assigned' \subseteq Assigned
    BY DEF BindWorkload, HolderPods, Assigned, OnNode, TypeOK
  <2>2. UNCHANGED <<pc, path, unschedulable, comps, policy, cfg, inFlight>>
    BY DEF BindWorkload
  <2> QED
    BY <1>a, <2>1, <2>2
<1>47. (\E w \in Workloads : DeleteWorkload(w)) => DrainInv'
  <2> SUFFICES ASSUME NEW w \in Workloads, DeleteWorkload(w) PROVE DrainInv'
    OBVIOUS
  <2>1. /\ HolderPods' \subseteq HolderPods
        /\ Assigned' \subseteq Assigned
    BY DEF DeleteWorkload, HolderPods, Assigned, OnNode, TypeOK
  <2>2. UNCHANGED <<pc, path, unschedulable, comps, policy, cfg, inFlight>>
    BY DEF DeleteWorkload
  <2> QED
    BY <1>a, <2>1, <2>2
<1>48. (\E w \in Workloads : FinishWorkload(w)) => DrainInv'
  <2> SUFFICES ASSUME NEW w \in Workloads, FinishWorkload(w) PROVE DrainInv'
    OBVIOUS
  <2>1. /\ HolderPods' \subseteq HolderPods
        /\ Assigned' \subseteq Assigned
    BY DEF FinishWorkload, HolderPods, Assigned, OnNode, TypeOK
  <2>2. UNCHANGED <<pc, path, unschedulable, comps, policy, cfg, inFlight>>
    BY DEF FinishWorkload
  <2> QED
    BY <1>a, <2>1, <2>2
<1>49. EditPolicy => DrainInv'
  BY <1>a, <1>b DEF EditPolicy
<1>50. UNCHANGED vars => DrainInv'
  BY <1>a, <1>b DEF vars
<1> HIDE DEF DrainInv
<1> QED
  BY <1>1, <1>2, <1>3, <1>4, <1>5, <1>6, <1>7, <1>8, <1>9, <1>10, <1>11, <1>12,
     <1>13, <1>14, <1>15, <1>16, <1>17, <1>18, <1>19, <1>20, <1>21, <1>22,
     <1>23, <1>24, <1>25, <1>26, <1>27, <1>28, <1>29, <1>30, <1>31, <1>32,
     <1>33, <1>34, <1>35, <1>36, <1>37, <1>38, <1>39, <1>40, <1>41, <1>42,
     <1>43, <1>44, <1>45, <1>46, <1>47, <1>48, <1>49, <1>50
     DEF Next, Manager, Environment

LEMMA DrainInvariant == Spec => [](TypeOK /\ StageInv /\ DrainInv)
<1>1. Init => DrainInv
  BY DEF Init, DrainInv, Draining, HoldersChecked, PluginOutlivesHolders
<1> QED
  BY StageInvariant, DrainStep, <1>1, PTL DEF Spec

\* When the kubelet-plugin of an attempt that evicts up front goes, and until
\* the node is uncordoned, only pods of DaemonSets hold claims, and pods whose
\* binding was already under way when CheckHolders found nobody.
THEOREM HoldersAreGone == Spec => []PluginOutlivesHolders
<1>1. DrainInv => PluginOutlivesHolders
  BY DEF DrainInv
<1> QED
  BY DrainInvariant, <1>1, PTL

\* An attempt that found the drain owned by the policy leaves the node's
\* schedulability and the workloads alone, and drains nothing.
THEOREM PolicyDrains == Spec => PolicyOwnsDrain
<1> DEFINE Kept == UNCHANGED <<unschedulable, wl>> /\ pc' \notin Drains
<1>1. StageInv /\ DrainInv /\ policy /\ policy' /\ Manager
        => Kept
  <2> SUFFICES ASSUME StageInv, DrainInv, policy, policy', Manager
               PROVE  Kept
    OBVIOUS
  <2>1. pc \notin Draining
    BY DEF DrainInv, EvictsUpFront, isAutoDrainEnabled,
           isGPUPodEvictionEnabled
  <2>2. ~isGPUPodEvictionEnabled /\ ~isAutoDrainEnabled /\ ~managerCanEvict
    BY DEF isAutoDrainEnabled, isGPUPodEvictionEnabled, managerCanEvict
  <2> USE <2>1, <2>2 DEF Drains, Draining, process, node, pods, machine,
              history
  <2>3. DetectHostDriver => Kept
    BY DEF DetectHostDriver
  <2>4. DisableDriver => Kept
    BY DEF DisableDriver, UpdateNodeLabels
  <2>5. FetchAutoUpgradeAnnotation => Kept
    BY DEF FetchAutoUpgradeAnnotation
  <2>6. FetchFails => Kept
    BY DEF FetchFails
  <2>7. CheckLoaded => Kept
    BY DEF CheckLoaded
  <2>8. EvictOperands => Kept
    BY DEF EvictOperands, UpdateNodeLabels
  <2>9. AwaitOperandsFails => Kept
    BY DEF AwaitOperandsFails
  <2>10. CheckSkip => Kept
    BY DEF CheckSkip, EvictsUpFront
  <2>11. CordonNode => Kept
    BY DEF CordonNode
  <2>12. CountGPUPods => Kept
    BY DEF CountGPUPods, NvDrainFailed
  <2>13. SelectGPUPods => Kept
    BY DEF SelectGPUPods, Select, NvDrainFailed
  <2>14. GPUPodsDrained => Kept
    BY DEF GPUPodsDrained, NvDrainFailed
  <2>15. DrainAfterEviction => Kept
    BY DEF DrainAfterEviction, DrainNode
  <2>16. DrainAfterUnload => Kept
    BY DEF DrainAfterUnload, DrainNode
  <2>17. CheckHolders => Kept
    BY DEF CheckHolders
  <2>18. EvictPlugin => Kept
    BY DEF EvictPlugin, UpdateNodeLabels, EvictPluginFailed
  <2>19. PluginGone => Kept
    BY DEF PluginGone
  <2>20. AwaitPluginFails => Kept
    BY DEF AwaitPluginFails, EvictPluginFailed
  <2>21. CheckLoadedAgain => Kept
    BY DEF CheckLoadedAgain
  <2>22. UnloadDriver => Kept
    BY DEF UnloadDriver, CleanupDriverFailed
  <2>23. UnmountRootfs => Kept
    BY DEF UnmountRootfs, CleanupDriverFailed
  <2>24. UnloadNouveau => Kept
    BY DEF UnloadNouveau
  <2>25. UnbindVfioPCI => Kept
    BY DEF UnbindVfioPCI
  <2>26. WaitForMofedDriver => Kept
    BY DEF WaitForMofedDriver
  <2>27. Uncordon => Kept
    BY DEF Uncordon, UncordonNode
  <2>28. RescheduleGPUOperatorComponents => Kept
    BY DEF RescheduleGPUOperatorComponents, UpdateNodeLabels
  <2>29. CleanupOnFailure => Kept
    BY DEF CleanupOnFailure, UncordonNode
  <2>30. CleanupLabels => Kept
    BY DEF CleanupLabels, UpdateNodeLabels
  <2>31. (\E c \in Components : FetchLabel(c)) => Kept
    BY DEF FetchLabel
  <2>32. (\E c \in Components : OperandGone(c)) => Kept
    BY DEF OperandGone
  <2>33. (\E w \in Workloads : EvictWorkload(w)) => Kept
    BY DEF EvictWorkload
  <2>34. (\E w \in Workloads : EvictedWorkloadGone(w)) => Kept
    BY DEF EvictedWorkloadGone
  <2>35. (\E w \in Workloads : EvictWorkloadFails(w)) => Kept
    BY DEF EvictWorkloadFails
  <2>36. (\E m \in DriverModules : UnloadModule(m)) => Kept
    BY DEF UnloadModule
  <2> QED
    BY <2>3, <2>4, <2>5, <2>6, <2>7, <2>8, <2>9, <2>10, <2>11, <2>12,
       <2>13, <2>14, <2>15, <2>16, <2>17, <2>18, <2>19, <2>20, <2>21,
       <2>22, <2>23, <2>24, <2>25, <2>26, <2>27, <2>28, <2>29, <2>30,
       <2>31, <2>32, <2>33, <2>34, <2>35, <2>36
       DEF Manager
<1> QED
  BY DrainInvariant, <1>1, PTL DEF PolicyOwnsDrain

-----------------------------------------------------------------------------
(* The manager's cordon.                                                   *)

\* The configuration has stayed what it was and the state file was readable.
Steady == used["misread"] = 0 /\ used["redeploy"] = 0

\* The strengthening: while the manager's cordon is on the node, the attempt
\* that lifts it is bound to come by Uncordon or by CleanupOnFailure, because
\* the configuration evicts, the policy does not own the drain and the driver
\* is not kept; and if no call fails, without a kill the driver is still loaded
\* until the attempt that cordoned has unloaded it, so that none takes the fresh
\* path.
CordonInv ==
  Steady =>
    /\ pc = "CordonNode" => ~shouldSkipUninstall
    /\ ownCordon =>
         /\ cfg.gpuPodEviction \/ cfg.autoDrain
         /\ ~annotation /\ ~shouldSkipUninstall /\ path # "skip"
         /\ pc \notin {"Reschedule", "Done", "Running", "CleanupLabels"}
         /\ path = "full" => pc # "UnloadNouveau"
         /\ used["fault"] = 0 /\ used["crash"] = 0 =>
              /\ path # "fresh" /\ pc # "Failed"
              /\ \/ isDriverLoaded
                 \/ /\ path = "full"
                    /\ pc \in {"UnloadModules", "UnmountRootfs",
                               "UnbindVfio", "AwaitMofed", "Uncordon"}

LEMMA CordonStep ==
  /\ TypeOK /\ StageInv /\ PolicyInv /\ DrainInv /\ CordonInv /\ [Next]_vars
  => CordonInv'
<1> SUFFICES ASSUME TypeOK, StageInv, PolicyInv, DrainInv, CordonInv,
                    [Next]_vars
             PROVE  CordonInv'
  OBVIOUS
<1> USE DEF CordonInv, Steady, StageInv, FullOnly, Halfway, Unmounted,
            Disturbances, process, node, pods, machine, history
<1>a. UNCHANGED <<host, digest, cfg>> =>
        /\ shouldSkipUninstall' <=> shouldSkipUninstall
        /\ isDriverLoaded' <=> isDriverLoaded
  BY DEF shouldSkipUninstall, isDriverLoaded
<1>b. /\ Spend("misread") \/ Spend("redeploy") => ~Steady'
      /\ \A k \in Disturbances : Spend(k) /\ Steady' => Steady
      /\ Spend("fault") => used'["fault"] # 0
      /\ Spend("crash") => used'["crash"] # 0
      /\ \A k \in Disturbances :
           /\ Spend(k) /\ used'["fault"] = 0 => used["fault"] = 0
           /\ Spend(k) /\ used'["crash"] = 0 => used["crash"] = 0
  BY Spending DEF Steady, Disturbances
<1>1. DetectHostDriver => CordonInv'
  BY <1>a, <1>b DEF DetectHostDriver
<1>2. DisableDriver => CordonInv'
  BY <1>a, <1>b DEF DisableDriver, UpdateNodeLabels
<1>3. FetchAutoUpgradeAnnotation => CordonInv'
  BY <1>a, <1>b DEF FetchAutoUpgradeAnnotation
<1>4. FetchFails => CordonInv'
  BY <1>a, <1>b DEF FetchFails
<1>5. CheckLoaded => CordonInv'
  BY <1>a, <1>b DEF CheckLoaded
<1>6. EvictOperands => CordonInv'
  BY <1>a, <1>b DEF EvictOperands, UpdateNodeLabels
<1>7. AwaitOperandsFails => CordonInv'
  BY <1>a, <1>b DEF AwaitOperandsFails
<1>8. CheckSkip => CordonInv'
  BY <1>a, <1>b DEF CheckSkip
<1>9. CordonNode => CordonInv'
  <2> SUFFICES ASSUME CordonNode, Steady' PROVE CordonInv'
    OBVIOUS
  <2>1. /\ pc = "CordonNode" /\ pc' \in {"CountGPUPods", "Failed"}
        /\ pc' = "Failed" => used'["fault"] # 0
        /\ UNCHANGED <<path, annotation, host, digest, cfg>>
    BY <1>b DEF CordonNode
  <2>2. Steady
    BY <1>b DEF CordonNode
  <2>3. ~shouldSkipUninstall /\ isDriverLoaded /\ path = "full"
    BY <2>1, <2>2
  <2>4. (cfg.gpuPodEviction \/ cfg.autoDrain) /\ ~annotation
    <3>1. policy = annotation /\ EvictsUpFront
      BY <2>1, <2>2 DEF PolicyInv, DrainInv, Active, Draining
    <3> QED
      BY <3>1 DEF EvictsUpFront, isAutoDrainEnabled, isGPUPodEvictionEnabled
  <2> QED
    BY <1>a, <2>1, <2>3, <2>4
<1>10. CountGPUPods => CordonInv'
  BY <1>a, <1>b DEF CountGPUPods, NvDrainFailed
<1>11. SelectGPUPods => CordonInv'
  <2> SUFFICES ASSUME SelectGPUPods PROVE CordonInv'
    OBVIOUS
  <2>1. /\ pc = "SelectGPUPods"
        /\ pc' \in {"AwaitGPUPods", "DrainNode", "Cleanup", "Panicked"}
        /\ UNCHANGED <<path, annotation, host, digest, cfg, ownCordon>>
        /\ UNCHANGED used \/ Spend("fault")
    BY DEF SelectGPUPods, Select, NvDrainFailed
  <2> QED
    BY <1>a, <1>b, <2>1
<1>12. GPUPodsDrained => CordonInv'
  BY <1>a, <1>b DEF GPUPodsDrained, NvDrainFailed
<1>13. DrainAfterEviction => CordonInv'
  BY <1>a, <1>b DEF DrainAfterEviction, DrainNode
<1>14. DrainAfterUnload => CordonInv'
  BY <1>a, <1>b DEF DrainAfterUnload, DrainNode
<1>15. CheckHolders => CordonInv'
  BY <1>a, <1>b DEF CheckHolders
<1>16. EvictPlugin => CordonInv'
  BY <1>a, <1>b DEF EvictPlugin, UpdateNodeLabels, EvictPluginFailed
<1>17. PluginGone => CordonInv'
  BY <1>a, <1>b DEF PluginGone
<1>18. AwaitPluginFails => CordonInv'
  BY <1>a, <1>b DEF AwaitPluginFails, EvictPluginFailed
<1>19. CheckLoadedAgain => CordonInv'
  BY <1>a, <1>b DEF CheckLoadedAgain
<1>20. UnloadDriver => CordonInv'
  BY <1>a, <1>b DEF UnloadDriver, CleanupDriverFailed
<1>21. UnmountRootfs => CordonInv'
  BY <1>a, <1>b DEF UnmountRootfs, CleanupDriverFailed
<1>22. UnloadNouveau => CordonInv'
  <2> SUFFICES ASSUME UnloadNouveau, Steady' PROVE CordonInv'
    OBVIOUS
  <2>1. /\ pc = "UnloadNouveau"
        /\ \/ /\ pc' = IF path = "fresh" THEN "UnbindVfio" ELSE "Done"
              /\ UNCHANGED used
           \/ pc' = "Failed" /\ used'["fault"] # 0
        /\ Steady
        /\ UNCHANGED <<path, annotation, digest, cfg, ownCordon>>
    BY <1>b DEF UnloadNouveau
  <2>2. isDriverLoaded' <=> isDriverLoaded
    BY DEF UnloadNouveau, isDriverLoaded
  <2>3. shouldSkipUninstall' <=> shouldSkipUninstall
    BY <2>1, <2>2 DEF shouldSkipUninstall
  <2>4. path # "none"
    BY <2>1
  <2>5. ownCordon => path = "fresh"
    BY <2>1, <2>4 DEF TypeOK, Paths
  <2> QED
    BY <2>1, <2>2, <2>3, <2>5
<1>23. UnbindVfioPCI => CordonInv'
  BY <1>a, <1>b DEF UnbindVfioPCI
<1>24. WaitForMofedDriver => CordonInv'
  BY <1>a, <1>b DEF WaitForMofedDriver
<1>25. Uncordon => CordonInv'
  <2> SUFFICES ASSUME Uncordon, Steady' PROVE CordonInv'
    OBVIOUS
  <2>1. /\ pc = "Uncordon" /\ pc' = "Reschedule"
        /\ UNCHANGED <<path, policy, annotation, host, digest, cfg>>
        /\ UncordonNode(isGPUPodEvictionEnabled \/ isAutoDrainEnabled)
    BY DEF Uncordon
  <2>2. Steady
    BY <1>b, <2>1 DEF UncordonNode
  <2>3. policy = annotation
    BY <2>1, <2>2 DEF PolicyInv, Active
  <2>4. ownCordon => isGPUPodEvictionEnabled \/ isAutoDrainEnabled
    BY <2>2, <2>3 DEF isAutoDrainEnabled, isGPUPodEvictionEnabled
  <2>5. ~ownCordon'
    BY <2>1, <2>4 DEF UncordonNode
  <2> QED
    BY <2>1, <2>5
<1>26. RescheduleGPUOperatorComponents => CordonInv'
  BY <1>a, <1>b DEF RescheduleGPUOperatorComponents, UpdateNodeLabels
<1>27. CleanupOnFailure => CordonInv'
  <2> SUFFICES ASSUME CleanupOnFailure, Steady' PROVE CordonInv'
    OBVIOUS
  <2>1. /\ pc = "Cleanup" /\ pc' = "CleanupLabels"
        /\ UNCHANGED <<path, policy, annotation, host, digest, cfg>>
        /\ UncordonNode(managerCanEvict)
    BY DEF CleanupOnFailure
  <2>2. Steady
    BY <1>b, <2>1 DEF UncordonNode
  <2>3. policy = annotation
    BY <2>1, <2>2 DEF PolicyInv, Active
  <2>4. ownCordon => managerCanEvict
    BY <2>2, <2>3 DEF managerCanEvict
  <2>5. ~ownCordon'
    BY <2>1, <2>4 DEF UncordonNode
  <2> QED
    BY <2>1, <2>5
<1>28. CleanupLabels => CordonInv'
  BY <1>a, <1>b DEF CleanupLabels, UpdateNodeLabels
<1>29. Restart => CordonInv'
  BY <1>a, <1>b DEF Restart, FreshProcess
<1>30. Crash => CordonInv'
  BY <1>a, <1>b DEF Crash, FreshProcess
<1>31. Reboot => CordonInv'
  <2> SUFFICES ASSUME Reboot, Steady' PROVE CordonInv'
    OBVIOUS
  <2>1. Steady /\ used'["crash"] # 0
    BY <1>b DEF Reboot
  <2>2. /\ pc' = "Start" /\ path' = "none"
        /\ UNCHANGED <<annotation, cfg, ownCordon>>
    BY DEF Reboot, FreshProcess
  <2>3. ~isDriverLoaded'
    BY Kernel DEF Reboot, isDriverLoaded
  <2>4. ~shouldSkipUninstall'
    BY <2>3 DEF shouldSkipUninstall
  <2> QED
    BY <2>1, <2>2, <2>4
<1>32. Redeploy => CordonInv'
  BY <1>a, <1>b DEF Redeploy, FreshProcess
<1>33. InstallDriver => CordonInv'
  BY <1>a, <1>b DEF InstallDriver
<1>34. MofedReady => CordonInv'
  <2> SUFFICES ASSUME MofedReady PROVE CordonInv'
    OBVIOUS
  <2>1. UNCHANGED <<pc, path, annotation, digest, cfg, ownCordon, used>>
    BY DEF MofedReady
  <2>2. isDriverLoaded' <=> isDriverLoaded
    BY DEF MofedReady, isDriverLoaded
  <2>3. shouldSkipUninstall' <=> shouldSkipUninstall
    BY <2>1, <2>2 DEF shouldSkipUninstall
  <2> QED
    BY <2>1, <2>2, <2>3
<1>35. (\E c \in Components : FetchLabel(c)) => CordonInv'
  BY <1>a, <1>b DEF FetchLabel
<1>36. (\E c \in Components : OperandGone(c)) => CordonInv'
  BY <1>a, <1>b DEF OperandGone
<1>37. (\E w \in Workloads : EvictWorkload(w)) => CordonInv'
  BY <1>a, <1>b DEF EvictWorkload
<1>38. (\E w \in Workloads : EvictedWorkloadGone(w)) => CordonInv'
  BY <1>a, <1>b DEF EvictedWorkloadGone
<1>39. (\E w \in Workloads : EvictWorkloadFails(w)) => CordonInv'
  BY <1>a, <1>b DEF EvictWorkloadFails
<1>40. (\E m \in DriverModules : UnloadModule(m)) => CordonInv'
  <2> SUFFICES ASSUME NEW m \in DriverModules, UnloadModule(m), Steady'
               PROVE  CordonInv'
    OBVIOUS
  <2>1. /\ pc = "UnloadModules"
        /\ UNCHANGED used \/ Spend("fault")
        /\ UNCHANGED <<pc, path, annotation, digest, cfg, ownCordon>>
    BY DEF UnloadModule
  <2>2. isDriverLoaded' => isDriverLoaded
    BY DEF UnloadModule, isDriverLoaded
  <2>3. shouldSkipUninstall' => shouldSkipUninstall
    BY <2>1, <2>2 DEF shouldSkipUninstall
  <2> QED
    BY <1>b, <2>1, <2>3
<1>41. (\E c \in Components : StartPod(c)) => CordonInv'
  BY <1>a, <1>b DEF StartPod
<1>42. (\E c \in Components : StopPod(c)) => CordonInv'
  BY <1>a, <1>b DEF StopPod
<1>43. (\E c \in Components : FinishPod(c)) => CordonInv'
  BY <1>a, <1>b DEF FinishPod
<1>44. (\E c \in Components : EditLabel(c)) => CordonInv'
  BY <1>a, <1>b DEF EditLabel
<1>45. (\E w \in Workloads : ScheduleWorkload(w)) => CordonInv'
  BY <1>a, <1>b DEF ScheduleWorkload
<1>46. (\E w \in Workloads : BindWorkload(w)) => CordonInv'
  BY <1>a, <1>b DEF BindWorkload
<1>47. (\E w \in Workloads : DeleteWorkload(w)) => CordonInv'
  BY <1>a, <1>b DEF DeleteWorkload
<1>48. (\E w \in Workloads : FinishWorkload(w)) => CordonInv'
  BY <1>a, <1>b DEF FinishWorkload
<1>49. EditPolicy => CordonInv'
  BY <1>a, <1>b DEF EditPolicy
<1>50. UNCHANGED vars => CordonInv'
  BY <1>a, <1>b DEF vars
<1> HIDE DEF CordonInv
<1> QED
  BY <1>1, <1>2, <1>3, <1>4, <1>5, <1>6, <1>7, <1>8, <1>9, <1>10, <1>11, <1>12,
     <1>13, <1>14, <1>15, <1>16, <1>17, <1>18, <1>19, <1>20, <1>21, <1>22,
     <1>23, <1>24, <1>25, <1>26, <1>27, <1>28, <1>29, <1>30, <1>31, <1>32,
     <1>33, <1>34, <1>35, <1>36, <1>37, <1>38, <1>39, <1>40, <1>41, <1>42,
     <1>43, <1>44, <1>45, <1>46, <1>47, <1>48, <1>49, <1>50
     DEF Next, Manager, Environment

LEMMA CordonInvariant == Spec => [](TypeOK /\ CordonInv)
<1>1. Init => PolicyInv /\ CordonInv
  BY DEF Init, PolicyInv, CordonInv
<1> QED
  BY DrainInvariant, PolicyStep, CordonStep, <1>1, PTL DEF Spec

\* As long as the configuration and the upgrade policy stay and the state file
\* can be read, no attempt succeeds over a manager's cordon that nobody has
\* asked to be lifted; if no call fails either, no attempt ends with an error
\* over one unless a kill or a reboot came before.
THEOREM CordonIsLifted == Spec => []CordonReleased
<1>1. TypeOK /\ CordonInv => CordonReleased
  BY DEF CordonInv, CordonReleased, Steady, TypeOK, Disturbances
<1> QED
  BY CordonInvariant, <1>1, PTL
-----------------------------------------------------------------------------
(* Nothing is pinned to the files that were unmounted.                     *)

PluginAway ==
  /\ pc \in {"AwaitPlugin", "CheckLoadedAgain", "UnloadModules", "DrainRetry",
             "UnmountRootfs"}
  /\ DraDeployed

\* The strengthening for the kubelet-plugin: once its patch is acknowledged its
\* label keeps the pod away, and after the wait the pod is gone.
DraInv ==
  PluginAway /\ want["draDriver"] # "contested" =>
    /\ ~Deploys(labels["draDriver"])
    /\ pc # "AwaitPlugin" => pod["draDriver"] = "absent"

\* After the unmounting no pod that was waited for is stale, nor gets so.
Leaving  == Unmounted \ {"Done"}
StaleInv == pc \in Leaving => NothingStale

\* A step that does not let the kubelet-plugin back.
PluginStaysAway ==
  /\ UNCHANGED <<want, comps>> /\ PluginAway
  /\ labels'["draDriver"] = labels["draDriver"]
  /\ pod["draDriver"] = "absent" /\ ~Deploys(labels["draDriver"]) =>
       pod'["draDriver"] = "absent"
  /\ pc = "AwaitPlugin" =>
       pc' = "AwaitPlugin" \/ pod'["draDriver"] = "absent"

LEMMA DraQuiet ==
  ASSUME DraInv, PluginAway' => PluginStaysAway
  PROVE  DraInv'
BY DEF DraInv, PluginStaysAway

\* The patch pauses the kubelet-plugin.
LEMMA DraPatched ==
  ASSUME TypeOK, EvictPlugin
  PROVE  DraInv'
<1> SUFFICES ASSUME PluginAway' PROVE ~Deploys(labels'["draDriver"])
                                      /\ pc' = "AwaitPlugin"
  BY DEF DraInv
<1>1. pc = "EvictPlugin" /\ UNCHANGED <<comps, path>>
  BY DEF EvictPlugin
<1>2. DraDeployed /\ pc' \notin {"EvictPlugin", "Cleanup", "Failed"}
  BY <1>1 DEF PluginAway, DraDeployed
<1>3. UpdateNodeLabels(PausePluginPatch(comps, labels), "AwaitPlugin",
                       EvictPluginFailed)
  BY <1>2 DEF EvictPlugin
<1>4. pc' = "AwaitPlugin" /\ labels' = PausePluginPatch(comps, labels)
  BY <1>1, <1>2, <1>3, UpdateWrites DEF EvictPluginFailed
<1>5. /\ comps["draDriver"] \in LabelValues /\ DOMAIN labels = Components
      /\ "draDriver" \in Components
  BY <1>2 DEF TypeOK, DraDeployed
<1>6. labels'["draDriver"] = MaybeSetPaused(comps["draDriver"])
  BY <1>4, <1>5 DEF PausePluginPatch
<1> QED
  BY <1>4, <1>5, <1>6, ValueFacts

\* A process that remembers a value of a label has read it, and may write it
\* back: an edit of that label is contested.
LEMMA EditContested ==
  ASSUME TypeOK, LabelInv, pc \in Fetched, NEW c \in Components,
         ~IsEmpty(comps[c]), NEW k \in Components, EditLabel(k),
         want'[c] # "contested"
  PROVE  labels'[c] = labels[c] /\ want'[c] = want[c]
<1>1. PICK b \in Bases :
        /\ labels' = [labels EXCEPT ![k] = Plain(b)]
        /\ want' = [want EXCEPT ![k] = IF Tracked(k) THEN "contested"
                                                    ELSE Intent(Plain(b))]
  BY DEF EditLabel
<1>2. Tracked(c)
  BY DEF Tracked, LabelInv, Fetched
<1>3. c # k
  BY <1>1, <1>2 DEF TypeOK
<1> QED
  BY <1>1, <1>3

LEMMA DraEdited ==
  ASSUME TypeOK, LabelInv, DraInv, NEW k \in Components, EditLabel(k)
  PROVE  DraInv'
<1>1. UNCHANGED <<pc, path, comps, pod>>
  BY DEF EditLabel, process, pods
<1> SUFFICES ASSUME PluginAway, want'["draDriver"] # "contested"
             PROVE  /\ ~Deploys(labels'["draDriver"])
                    /\ pc # "AwaitPlugin" => pod["draDriver"] = "absent"
  BY <1>1 DEF DraInv, PluginAway, DraDeployed
<1>2. pc \in Fetched /\ "draDriver" \in Components
      /\ ~IsEmpty(comps["draDriver"])
  BY DEF PluginAway, DraDeployed, Fetched, Active
<1>3. labels'["draDriver"] = labels["draDriver"]
      /\ want'["draDriver"] = want["draDriver"]
  BY <1>2, EditContested
<1> QED
  BY <1>3 DEF DraInv

LEMMA DraStep == TypeOK /\ LabelInv /\ DraInv /\ [Next]_vars => DraInv'
<1> SUFFICES ASSUME TypeOK, LabelInv, DraInv, [Next]_vars PROVE DraInv'
  OBVIOUS
<1> DEFINE Held == PluginAway' => PluginStaysAway
<1> USE DEF PluginAway, DraDeployed, PluginStaysAway, process, node, pods,
            machine, history
<1>1. DetectHostDriver => Held
  BY DEF DetectHostDriver
<1>2. DisableDriver => Held
  BY DEF DisableDriver, UpdateNodeLabels
<1>3. FetchAutoUpgradeAnnotation => Held
  BY DEF FetchAutoUpgradeAnnotation
<1>4. FetchFails => Held
  BY DEF FetchFails
<1>5. CheckLoaded => Held
  BY DEF CheckLoaded
<1>6. EvictOperands => Held
  BY DEF EvictOperands, UpdateNodeLabels
<1>7. AwaitOperandsFails => Held
  BY DEF AwaitOperandsFails
<1>8. CheckSkip => Held
  BY DEF CheckSkip
<1>9. CordonNode => Held
  BY DEF CordonNode
<1>10. CountGPUPods => Held
  BY DEF CountGPUPods, NvDrainFailed
<1>11. SelectGPUPods => Held
  BY DEF SelectGPUPods, Select, NvDrainFailed
<1>12. GPUPodsDrained => Held
  BY DEF GPUPodsDrained, NvDrainFailed
<1>13. DrainAfterEviction => Held
  BY DEF DrainAfterEviction, DrainNode
<1>14. DrainAfterUnload => Held
  BY DEF DrainAfterUnload, DrainNode
<1>15. CheckHolders => Held
  BY DEF CheckHolders
<1>16. PluginGone => Held
  BY DEF PluginGone
<1>17. AwaitPluginFails => Held
  BY DEF AwaitPluginFails, EvictPluginFailed
<1>18. CheckLoadedAgain => Held
  BY DEF CheckLoadedAgain
<1>19. UnloadDriver => Held
  BY DEF UnloadDriver, CleanupDriverFailed
<1>20. UnmountRootfs => Held
  BY DEF UnmountRootfs, CleanupDriverFailed
<1>21. UnloadNouveau => Held
  BY DEF UnloadNouveau
<1>22. UnbindVfioPCI => Held
  BY DEF UnbindVfioPCI
<1>23. WaitForMofedDriver => Held
  BY DEF WaitForMofedDriver
<1>24. Uncordon => Held
  BY DEF Uncordon, UncordonNode
<1>25. RescheduleGPUOperatorComponents => Held
  BY DEF RescheduleGPUOperatorComponents, UpdateNodeLabels
<1>26. CleanupOnFailure => Held
  BY DEF CleanupOnFailure
<1>27. CleanupLabels => Held
  BY DEF CleanupLabels, UpdateNodeLabels
<1>28. Restart => Held
  BY DEF Restart, FreshProcess
<1>29. Crash => Held
  BY DEF Crash, FreshProcess
<1>30. Reboot => Held
  BY DEF Reboot, FreshProcess
<1>31. Redeploy => Held
  BY DEF Redeploy, FreshProcess
<1>32. InstallDriver => Held
  BY DEF InstallDriver
<1>33. MofedReady => Held
  BY DEF MofedReady
<1>34. (\E c \in Components : FetchLabel(c)) => Held
  BY DEF FetchLabel
<1>35. (\E c \in Components : OperandGone(c)) => Held
  BY DEF OperandGone
<1>36. (\E w \in Workloads : EvictWorkload(w)) => Held
  BY DEF EvictWorkload
<1>37. (\E w \in Workloads : EvictedWorkloadGone(w)) => Held
  BY DEF EvictedWorkloadGone
<1>38. (\E w \in Workloads : EvictWorkloadFails(w)) => Held
  BY DEF EvictWorkloadFails
<1>39. (\E m \in DriverModules : UnloadModule(m)) => Held
  BY DEF UnloadModule
<1>40. (\E c \in Components : StartPod(c)) => Held
  BY DEF StartPod
<1>41. (\E c \in Components : StopPod(c)) => Held
  BY DEF StopPod
<1>42. (\E c \in Components : FinishPod(c)) => Held
  BY DEF FinishPod
<1>43. (\E w \in Workloads : ScheduleWorkload(w)) => Held
  BY DEF ScheduleWorkload
<1>44. (\E w \in Workloads : BindWorkload(w)) => Held
  BY DEF BindWorkload
<1>45. (\E w \in Workloads : DeleteWorkload(w)) => Held
  BY DEF DeleteWorkload
<1>46. (\E w \in Workloads : FinishWorkload(w)) => Held
  BY DEF FinishWorkload
<1>47. EditPolicy => Held
  BY DEF EditPolicy
<1>48. UNCHANGED vars => Held
  BY DEF vars
<1>a. Held => DraInv'
  BY DraQuiet
<1> HIDE DEF Held
<1> QED
  BY <1>1, <1>2, <1>3, <1>4, <1>5, <1>6, <1>7, <1>8, <1>9, <1>10, <1>11, <1>12,
     <1>13, <1>14, <1>15, <1>16, <1>17, <1>18, <1>19, <1>20, <1>21, <1>22,
     <1>23, <1>24, <1>25, <1>26, <1>27, <1>28, <1>29, <1>30, <1>31, <1>32,
     <1>33, <1>34, <1>35, <1>36, <1>37, <1>38, <1>39, <1>40, <1>41, <1>42,
     <1>43, <1>44, <1>45, <1>46, <1>47, <1>48, <1>a, DraPatched, DraEdited
     DEF Next, Manager, Environment

\* A step on the way out that makes no pod stale.
PinsNothing ==
  /\ UNCHANGED <<want, comps, path>> /\ pc \in Leaving
  /\ \A c \in Components : pod'[c] = "stale" => pod[c] = "stale"

\* The condition under which a step may matter to NothingStale.
Goes == pc' \in Leaving \/ Succeeds

LEMMA StaleQuiet ==
  ASSUME StaleInv, Goes => PinsNothing
  PROVE  Goes => NothingStale'
<1> SUFFICES ASSUME Goes PROVE NothingStale'
  OBVIOUS
<1>1. NothingStale /\ PinsNothing
  BY DEF PinsNothing, StaleInv
<1>2. DraDeployed' <=> DraDeployed
  BY <1>1 DEF PinsNothing, DraDeployed
<1> QED
  BY <1>1, <1>2 DEF PinsNothing, NothingStale

\* When the files are unmounted, the pods that were waited for are gone.
LEMMA StaleUnmount ==
  ASSUME TypeOK, StageInv, EvictInv, DraInv, UnmountRootfs
  PROVE  Goes => NothingStale'
<1>1. /\ pc = "UnmountRootfs" /\ UNCHANGED <<want, comps, path>>
      /\ \A c \in Components : pod[c] = "absent" => pod'[c] = "absent"
  BY DEF UnmountRootfs, process, history, TypeOK
<1>2. path \in {"fresh", "skip", "full"}
  BY <1>1 DEF StageInv, Halfway, TypeOK, Paths
<1>3. DraDeployed /\ want["draDriver"] # "contested" =>
        pod["draDriver"] = "absent"
  BY <1>1 DEF DraInv, PluginAway
<1>4. path # "fresh" =>
        \A c \in Components \ NotAwaited :
          ~IsEmpty(comps[c]) /\ want[c] # "contested" => pod[c] = "absent"
  BY <1>1, <1>2 DEF EvictInv, Withdrawn, Evicted
<1>5. DraDeployed' <=> DraDeployed
  BY <1>1 DEF DraDeployed
<1>6. NothingStale'
  BY <1>1, <1>3, <1>4, <1>5 DEF NothingStale
<1> QED
  BY <1>6

LEMMA StaleEdited ==
  ASSUME TypeOK, LabelInv, StaleInv, NEW k \in Components, EditLabel(k)
  PROVE  Goes => NothingStale'
<1>1. UNCHANGED <<pc, path, comps, pod>>
  BY DEF EditLabel, process, pods
<1> SUFFICES ASSUME pc \in Leaving, NEW c \in Components,
                    want'[c] # "contested",
                    \/ c = "draDriver" /\ DraDeployed
                    \/ path # "fresh" /\ c \notin NotAwaited
                       /\ ~IsEmpty(comps[c])
             PROVE  pod[c] # "stale"
  BY <1>1 DEF Goes, Succeeds, NothingStale, DraDeployed
<1>2. pc \in Fetched /\ ~IsEmpty(comps[c])
  BY DEF Leaving, Unmounted, Fetched, Active, DraDeployed
<1>3. want'[c] = want[c]
  BY <1>2, EditContested
<1> QED
  BY <1>3 DEF StaleInv, NothingStale

LEMMA StaleStep ==
  /\ TypeOK /\ StageInv /\ LabelInv /\ EvictInv /\ DraInv /\ StaleInv
  /\ [Next]_vars
  => (Goes => NothingStale')
<1> SUFFICES ASSUME TypeOK, StageInv, LabelInv, EvictInv, DraInv, StaleInv,
                    [Next]_vars
             PROVE  Goes => NothingStale'
  OBVIOUS
<1> DEFINE Quiet == Goes => PinsNothing
<1> USE DEF Goes, Succeeds, PinsNothing, Leaving, Unmounted, process, node,
            pods, machine, history
<1>1. DetectHostDriver => Quiet
  BY DEF DetectHostDriver
<1>2. DisableDriver => Quiet
  BY DEF DisableDriver, UpdateNodeLabels
<1>3. FetchAutoUpgradeAnnotation => Quiet
  BY DEF FetchAutoUpgradeAnnotation
<1>4. FetchFails => Quiet
  BY DEF FetchFails
<1>5. CheckLoaded => Quiet
  BY DEF CheckLoaded
<1>6. EvictOperands => Quiet
  BY DEF EvictOperands, UpdateNodeLabels
<1>7. AwaitOperandsFails => Quiet
  BY DEF AwaitOperandsFails
<1>8. CheckSkip => Quiet
  BY DEF CheckSkip
<1>9. CordonNode => Quiet
  BY DEF CordonNode
<1>10. CountGPUPods => Quiet
  BY DEF CountGPUPods, NvDrainFailed
<1>11. SelectGPUPods => Quiet
  BY DEF SelectGPUPods, Select, NvDrainFailed
<1>12. GPUPodsDrained => Quiet
  BY DEF GPUPodsDrained, NvDrainFailed
<1>13. DrainAfterEviction => Quiet
  BY DEF DrainAfterEviction, DrainNode
<1>14. DrainAfterUnload => Quiet
  BY DEF DrainAfterUnload, DrainNode
<1>15. CheckHolders => Quiet
  BY DEF CheckHolders
<1>16. EvictPlugin => Quiet
  BY DEF EvictPlugin, UpdateNodeLabels, EvictPluginFailed
<1>17. PluginGone => Quiet
  BY DEF PluginGone
<1>18. AwaitPluginFails => Quiet
  BY DEF AwaitPluginFails, EvictPluginFailed
<1>19. CheckLoadedAgain => Quiet
  BY DEF CheckLoadedAgain
<1>20. UnloadDriver => Quiet
  BY DEF UnloadDriver, CleanupDriverFailed
<1>21. UnloadNouveau => Quiet
  BY DEF UnloadNouveau
<1>22. UnbindVfioPCI => Quiet
  BY DEF UnbindVfioPCI
<1>23. WaitForMofedDriver => Quiet
  BY DEF WaitForMofedDriver
<1>24. Uncordon => Quiet
  BY DEF Uncordon, UncordonNode
<1>25. RescheduleGPUOperatorComponents => Quiet
  BY DEF RescheduleGPUOperatorComponents, UpdateNodeLabels
<1>26. CleanupOnFailure => Quiet
  BY DEF CleanupOnFailure
<1>27. CleanupLabels => Quiet
  BY DEF CleanupLabels, UpdateNodeLabels
<1>28. Restart => Quiet
  BY DEF Restart, FreshProcess
<1>29. Crash => Quiet
  BY DEF Crash, FreshProcess
<1>30. Reboot => Quiet
  BY DEF Reboot, FreshProcess
<1>31. Redeploy => Quiet
  BY DEF Redeploy, FreshProcess
<1>32. InstallDriver => Quiet
  BY DEF InstallDriver
<1>33. MofedReady => Quiet
  BY DEF MofedReady
<1>34. (\E c \in Components : FetchLabel(c)) => Quiet
  BY DEF FetchLabel
<1>35. (\E c \in Components : OperandGone(c)) => Quiet
  BY DEF OperandGone
<1>36. (\E w \in Workloads : EvictWorkload(w)) => Quiet
  BY DEF EvictWorkload
<1>37. (\E w \in Workloads : EvictedWorkloadGone(w)) => Quiet
  BY DEF EvictedWorkloadGone
<1>38. (\E w \in Workloads : EvictWorkloadFails(w)) => Quiet
  BY DEF EvictWorkloadFails
<1>39. (\E m \in DriverModules : UnloadModule(m)) => Quiet
  BY DEF UnloadModule
<1>40. (\E c \in Components : StartPod(c)) => Quiet
  BY DEF StartPod, TypeOK
<1>41. (\E c \in Components : StopPod(c)) => Quiet
  BY DEF StopPod, TypeOK
<1>42. (\E c \in Components : FinishPod(c)) => Quiet
  BY DEF FinishPod, TypeOK
<1>43. (\E w \in Workloads : ScheduleWorkload(w)) => Quiet
  BY DEF ScheduleWorkload
<1>44. (\E w \in Workloads : BindWorkload(w)) => Quiet
  BY DEF BindWorkload
<1>45. (\E w \in Workloads : DeleteWorkload(w)) => Quiet
  BY DEF DeleteWorkload
<1>46. (\E w \in Workloads : FinishWorkload(w)) => Quiet
  BY DEF FinishWorkload
<1>47. EditPolicy => Quiet
  BY DEF EditPolicy
<1>48. UNCHANGED vars => Quiet
  BY DEF vars
<1>a. Quiet => (Goes => NothingStale')
  BY StaleQuiet
<1> HIDE DEF Quiet, Goes
<1> QED
  BY <1>1, <1>2, <1>3, <1>4, <1>5, <1>6, <1>7, <1>8, <1>9, <1>10, <1>11, <1>12,
     <1>13, <1>14, <1>15, <1>16, <1>17, <1>18, <1>19, <1>20, <1>21, <1>22,
     <1>23, <1>24, <1>25, <1>26, <1>27, <1>28, <1>29, <1>30, <1>31, <1>32,
     <1>33, <1>34, <1>35, <1>36, <1>37, <1>38, <1>39, <1>40, <1>41, <1>42,
     <1>43, <1>44, <1>45, <1>46, <1>47, <1>48, <1>a, StaleUnmount, StaleEdited
     DEF Next, Manager, Environment

\* A success leaves no pod that the command waited for, and no kubelet-plugin,
\* bound to the driver files it unmounted.
THEOREM NothingPinned == Spec => NoStaleBinding
<1> DEFINE AllInv == TypeOK /\ StageInv /\ LabelInv /\ EvictInv /\ DraInv
                     /\ StaleInv
<1>1. Init => StageInv /\ EvictInv /\ DraInv /\ StaleInv
  BY StageInit DEF Init, EvictInv, Withdrawn, DraInv, PluginAway, StaleInv,
                   Leaving, Unmounted
<1>2. AllInv /\ [Next]_vars => StaleInv' /\ (Succeeds => NothingStale')
  BY StaleStep DEF StaleInv, Goes
<1>3. AllInv /\ [Next]_vars => StageInv' /\ EvictInv' /\ DraInv' /\ StaleInv'
  BY <1>2, StageStep, EvictStep, DraStep
<1>4. Spec => []AllInv
  BY LabelInvariant, <1>1, <1>3, PTL DEF Spec
<1>5. AllInv /\ [Next]_vars => (Succeeds => NothingStale')
  BY <1>2
<1> QED
  BY <1>4, <1>5, PTL DEF Spec, NoStaleBinding
=============================================================================
