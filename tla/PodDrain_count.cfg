SPECIFICATION Spec
CONSTANTS
  Names = {"lone", "late"}
  Gpu = {"lone", "late"}
  Claimed = {}
  Managed = {"late"}
  Daemon = {}
  Orphaned = {}
  Mirror = {}
  EmptyDir = {}
  Closing = {}
  Pending = {"late"}
  UseForce = FALSE
  DeleteEmptyDirData = FALSE
  HasTimeout = TRUE
  Limit <- Calm
INVARIANTS
  AllCountedAreGone
CHECK_DEADLOCK FALSE
