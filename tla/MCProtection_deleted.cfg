\* One step after the commit fails.
CONSTANTS
  Deks = {k1, k2}
  Backups = {b1}
  MaxFiles = 2
  MaxEdits = 0
  Faults = {"move"}
  DeletesOpenFiles = FALSE
  Plaintext = Plaintext
  Torn = Torn
  Absent = Absent
  None = None
SPECIFICATION Spec
INVARIANT DeletedProfileKeepsFile
