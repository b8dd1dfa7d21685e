SPECIFICATION Spec
CONSTANTS
  claimPod = claimPod
  plainPod = plainPod
  daemonPod = daemonPod
  gpu0 = gpu0
  d1 = d1
  d2 = d2
  team = team
  CustomBases = {}
  Components = {"draValidator", "draDriver"}
  Workloads = {claimPod}
  ClaimPods = {claimPod}
  DaemonPods <- NoWorkloads
  Unmanaged <- NoWorkloads
  DriverModules = {"nvidia"}
  Gpus = {gpu0}
  Digests = {d1, d2}
  Configs <- RolloutConfigs
  Nodes <- OneUpNode
  PatchSteps = 2
  Limit <- OneRollout
INVARIANTS
  UpgradeUncordons
CHECK_DEADLOCK FALSE
