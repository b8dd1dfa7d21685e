SPECIFICATION Spec
CONSTANTS
  claimPod = claimPod
  plainPod = plainPod
  daemonPod = daemonPod
  gpu0 = gpu0
  d1 = d1
  d2 = d2
  team = team
  CustomBases = {team}
  Components = {"customOperand", "gpuClients"}
  Workloads <- NoWorkloads
  ClaimPods <- NoWorkloads
  DaemonPods <- NoWorkloads
  Unmanaged <- NoWorkloads
  DriverModules = {"nvidia"}
  Gpus = {gpu0}
  Digests = {d1, d2}
  Configs <- LabelConfigs
  Nodes <- LabelNodes
  PatchSteps = 2
  Limit <- LabelLimit
INVARIANTS
  TypeOK
  IntentPreserved
  RestoredAtSuccess
  EvictedBeforeUnload
PROPERTIES
  ImplementsGate
CHECK_DEADLOCK FALSE
