\* A removal of protection after a relocation whose registry write failed.
CONSTANTS
  Profiles = {p, q}
  Default = p
  MaxFiles = 3
  MaxGeneration = 3
  MaxRevision = 3
  LockThreads = {"worker"}
  Clients = {}
  Faults = {"registry"}
  None = None
SPECIFICATION Spec
INVARIANT EntriesOwnTheirFiles
CHECK_DEADLOCK FALSE
