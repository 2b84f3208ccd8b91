\* Kills only; no error is needed.
CONSTANTS
  Deks = {k1, k2, k3}
  Backups = {b1, b2}
  MaxFiles = 3
  MaxEdits = 0
  Faults = {}
  DeletesOpenFiles = FALSE
  Plaintext = Plaintext
  Torn = Torn
  Absent = Absent
  None = None
SPECIFICATION Spec
INVARIANT OwnBackupsNeverBlock
