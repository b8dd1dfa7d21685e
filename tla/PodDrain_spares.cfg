SPECIFICATION Spec
CONSTANTS
  Names = {"late", "other", "local", "lone", "mirror", "daemon"}
  Gpu = {"late", "local", "lone", "mirror", "daemon"}
  Claimed = {}
  Managed = {"late", "other", "local", "mirror", "daemon"}
  Daemon = {"daemon"}
  Orphaned = {}
  Mirror = {"mirror"}
  EmptyDir = {"local"}
  Closing = {}
  Pending = {"late"}
  UseForce = FALSE
  DeleteEmptyDirData = FALSE
  HasTimeout = FALSE
  Limit <- Calm
PROPERTIES
  SparesOthers
CHECK_DEADLOCK FALSE
