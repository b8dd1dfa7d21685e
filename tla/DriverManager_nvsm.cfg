SPECIFICATION Spec
CONSTANTS
  claimPod = claimPod
  plainPod = plainPod
  daemonPod = daemonPod
  gpu0 = gpu0
  d1 = d1
  d2 = d2
  team = team
  CustomBases = {}
  Components = {"nvsm"}
  Workloads <- NoWorkloads
  ClaimPods <- NoWorkloads
  DaemonPods <- NoWorkloads
  Unmanaged <- NoWorkloads
  DriverModules = {"nvidia"}
  Gpus = {gpu0}
  Digests = {d1, d2}
  Configs <- OnlyHandsOff
  Nodes <- OneUpNode
  PatchSteps = 2
  Limit <- NoLimit
INVARIANTS
  AllOperandsEvicted
CHECK_DEADLOCK FALSE
