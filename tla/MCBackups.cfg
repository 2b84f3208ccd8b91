\* Two kept backups, two readings of the clock, two backups per reading.
CONSTANTS
  Keep = 2
  DueAfter = 1
  MaxTime = 1
  MaxSuffix = 2
  Contents = {a, b}
  Foreign = Foreign
  Absent = Absent
SPECIFICATION Spec
SYMMETRY Symmetric
INVARIANTS KeptOpen SkippedWhenCovered ReportedIsListed CopiedIsThere
PROPERTIES NothingReplaced RestoreReversible
CHECK_DEADLOCK FALSE
