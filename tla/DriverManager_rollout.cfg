SPECIFICATION FairSpec
CONSTANTS
  claimPod = claimPod
  plainPod = plainPod
  daemonPod = daemonPod
  gpu0 = gpu0
  d1 = d1
  d2 = d2
  team = team
  CustomBases = {}
  Components = {"draValidator", "draDriver"}
  Workloads = {claimPod}
  ClaimPods = {claimPod}
  DaemonPods <- NoWorkloads
  Unmanaged <- NoWorkloads
  DriverModules = {"nvidia"}
  Gpus = {gpu0}
  Digests = {d1, d2}
  Configs <- RolloutConfigs
  Nodes <- OneBusyNode
  PatchSteps = 2
  Limit <- OneRollout
PROPERTIES
  DrainTerminates
CHECK_DEADLOCK FALSE
