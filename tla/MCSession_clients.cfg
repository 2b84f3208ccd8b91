\* A price refresh and a phone snapshot across every command, with locks and
\* every kind of error.
CONSTANTS
  Profiles = {p, q}
  Default = p
  MaxFiles = 2
  MaxGeneration = 2
  MaxRevision = 3
  LockThreads = {"native", "worker"}
  Clients = {"refresh", "phone"}
  Faults = {"registry", "open", "backup"}
  None = None
SPECIFICATION Spec
CONSTRAINT OneClient
INVARIANT RefreshWritesItsOrigin
PROPERTY PhoneGetsOpenProfile
CHECK_DEADLOCK FALSE
