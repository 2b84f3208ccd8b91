\* Every I/O error of the code, after the commit too, where a database can be
\* deleted while it is open (macOS).  No symmetry: a liveness
\* property is checked.
CONSTANTS
  Deks = {k1, k2}
  Backups = {b1}
  MaxFiles = 2
  MaxEdits = 0
  Faults = {"precommit", "registry", "config", "move", "journal", "open"}
  DeletesOpenFiles = TRUE
  Plaintext = Plaintext
  Torn = Torn
  Absent = Absent
  None = None
SPECIFICATION FairSpec
INVARIANT RegisteredFileOpens
PROPERTY LaunchResolvesJournals
