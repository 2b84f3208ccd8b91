\* A lock during a password change.
CONSTANTS
  Profiles = {p, q}
  Default = p
  MaxFiles = 2
  MaxGeneration = 2
  MaxRevision = 3
  LockThreads = {"native", "worker"}
  Clients = {}
  Faults = {}
  None = None
SPECIFICATION Spec
PROPERTY LockedUntilUnlocked
CHECK_DEADLOCK FALSE
