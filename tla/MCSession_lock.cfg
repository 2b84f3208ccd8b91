\* Locks racing every command that replaces the session; every command returns
\* and every lock request comes to its end.
CONSTANTS
  Profiles = {p, q}
  Default = p
  MaxFiles = 2
  MaxGeneration = 2
  MaxRevision = 3
  LockThreads = {"timer", "native", "worker"}
  Clients = {}
  Faults = {}
  None = None
SPECIFICATION FairSpec
INVARIANTS
  TypeOK
  AutoLockArmed
  PathsAgree
  NoticeOfOpenProfile
  BackupKeyMatches
PROPERTIES
  LocksOnlyItsSession
  CommandsReturn
  LockRequestsEndSession
CHECK_DEADLOCK FALSE
