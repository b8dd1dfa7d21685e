SPECIFICATION FairSpec
CONSTANTS
  Names = {"claim", "lone", "daemon"}
  Gpu = {"claim", "lone", "daemon"}
  Claimed = {"claim"}
  Managed = {"claim", "daemon"}
  Daemon = {"daemon"}
  Orphaned = {}
  Mirror = {}
  EmptyDir = {"lone"}
  Closing = {"lone"}
  Pending = {"daemon"}
  UseForce = FALSE
  DeleteEmptyDirData = TRUE
  HasTimeout = TRUE
  Limit <- FaultyReplaced
INVARIANTS
  TypeOK
  CountedAreGone
PROPERTIES
  KeepsPromise
  TimeoutEndsDrain
CHECK_DEADLOCK FALSE
