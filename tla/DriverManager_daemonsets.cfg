SPECIFICATION Spec
CONSTANTS
  claimPod = claimPod
  plainPod = plainPod
  daemonPod = daemonPod
  gpu0 = gpu0
  d1 = d1
  d2 = d2
  team = team
  CustomBases = {}
  Components = {"draValidator", "draDriver"}
  Workloads = {claimPod, daemonPod}
  ClaimPods = {claimPod, daemonPod}
  DaemonPods = {daemonPod}
  Unmanaged = {daemonPod}
  DriverModules = {"nvidia"}
  Gpus = {gpu0}
  Digests = {d1, d2}
  Configs <- DrainConfigs
  Nodes <- OneBusyNode
  PatchSteps = 2
  Limit <- NoLimit
PROPERTIES
  DrainIgnoresDaemonSets
CHECK_DEADLOCK FALSE
