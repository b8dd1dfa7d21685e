SPECIFICATION Spec
CONSTANTS
  Names = {"plain"}
  Gpu = {"plain"}
  Claimed = {}
  Managed = {"plain"}
  Daemon = {}
  Orphaned = {}
  Mirror = {}
  EmptyDir = {}
  Closing = {}
  Pending = {}
  UseForce = FALSE
  DeleteEmptyDirData = FALSE
  HasTimeout = TRUE
  Limit <- Replaced
PROPERTIES
  OnlyThisNode
CHECK_DEADLOCK FALSE
