CONSTANTS
  home = home
  tabA = tabA
  tabB = tabB
  Profiles = {home}
  Tabs = {tabA, tabB}
  PairLimit = 2
  DeviceLimit = 2
  MaxPairings = 2
  MaxGrants = 2
  MaxSequence = 2
  MaxOrders <- MCMaxOrders
  MaxRemovals <- MCMaxRemovals
  Scopes = {"tabs", "pairing", "desktop"}
  None = None
SPECIFICATION Spec
INVARIANTS
  ActiveIsSaved
  NoReadersOfDeleted
  OneProfilePerName
  OneSnapshotPerNumber
  OneDevicePerCode
PROPERTY SavedCopiesKept
CHECK_DEADLOCK FALSE
CONSTRAINT TwoAtATime
SYMMETRY Symmetric
