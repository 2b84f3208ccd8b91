\* Kills anywhere and every error before or at the commit.
CONSTANTS
  Deks = {k1, k2, k3}
  Backups = {b1, b2}
  MaxFiles = 3
  MaxEdits = 1
  Faults = {"precommit", "registry"}
  DeletesOpenFiles = FALSE
  Plaintext = Plaintext
  Torn = Torn
  Absent = Absent
  None = None
SPECIFICATION Spec
SYMMETRY Symmetric
INVARIANTS
  NoLostWork
  NoSessionLeftBehind
  OnlyLiveDatabaseEncrypted
  NoBackupLost
  DeletedProfileKeepsFile
PROPERTY RotationCoversBackups
