SPECIFICATION Spec
CONSTANTS
  claimPod = claimPod
  plainPod = plainPod
  daemonPod = daemonPod
  gpu0 = gpu0
  d1 = d1
  d2 = d2
  team = team
  CustomBases = {}
  Components = {"draDriver"}
  Workloads = {plainPod, daemonPod}
  ClaimPods <- NoWorkloads
  DaemonPods = {daemonPod}
  Unmanaged = {daemonPod}
  DriverModules = {"nvidia", "nvidia_uvm"}
  Gpus = {gpu0}
  Digests = {d1, d2}
  Configs <- HostConfigs
  Nodes <- HostNodes
  PatchSteps = 2
  Limit <- HostLimit
INVARIANTS
  UninstalledAtSuccess
  CordonReleased
PROPERTIES
  PolicyOwnsDrain
CHECK_DEADLOCK FALSE
