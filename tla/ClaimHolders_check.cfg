SPECIFICATION Spec
CONSTANTS
  Pods = {"templated", "first", "second"}
  Claims = {"nic", "own", "shared"}
  Direct <- MCDirect
  Templated <- MCTemplated
  GpuClaims = {"own", "shared"}
  MaxFaults = 1
INVARIANTS
  TypeOK
  NoHolderMissed
  FailsOnlyByFault
