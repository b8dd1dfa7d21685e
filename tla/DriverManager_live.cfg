SPECIFICATION FairSpec
CONSTANTS
  claimPod = claimPod
  plainPod = plainPod
  daemonPod = daemonPod
  gpu0 = gpu0
  d1 = d1
  d2 = d2
  team = team
  CustomBases = {}
  Components = {"draValidator", "gpuClients", "draDriver"}
  Workloads = {claimPod}
  ClaimPods = {claimPod}
  DaemonPods <- NoWorkloads
  Unmanaged <- NoWorkloads
  DriverModules = {"nvidia"}
  Gpus = {gpu0}
  Digests = {d1, d2}
  Configs <- LiveConfigs
  Nodes <- LiveNodes
  PatchSteps = 2
  Limit <- LiveLimit
PROPERTIES
  Reconciles
  PausedIsRestored
CHECK_DEADLOCK FALSE
