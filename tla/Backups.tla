------------------------------- MODULE Backups -------------------------------
(***************************************************************************)
(* The backups of one profile (backups.rs, commands/files.rs): a folder of *)
(* timestamped copies beside the database, trimmed to the newest Keep, and *)
(* an optional second folder every backup is also copied to, which another *)
(* profile may share.  Names are local wall-clock time, which can go back. *)
(*                                                                         *)
(* Every command holds the open session for its whole length, so commands  *)
(* do not interleave; a kill may come between any two file operations.     *)
(***************************************************************************)
EXTENDS Naturals, FiniteSets

CONSTANTS
  Keep,       \* DEFAULT_KEEP
  DueAfter,   \* AUTO_BACKUP_INTERVAL_HOURS, in ticks of the clock
  MaxTime,    \* bound: the latest reading of the clock
  MaxSuffix,  \* bound: backups named for one second
  Contents,   \* what the profile's database may hold
  Foreign,    \* the content of another profile's backup
  Absent      \* no such file

Folders == {"local", "second"}
\* vaultspend-<time>[_n].db; the plain name is n = 1.
Names == (0..MaxTime) \X (1..MaxSuffix)

ASSUME BackupsAssumption ==
  /\ Keep \in Nat \ {0} /\ DueAfter \in Nat \ {0}
  /\ MaxTime \in Nat /\ MaxSuffix \in Nat \ {0}
  /\ Foreign \notin Contents /\ Absent \notin Contents \cup {Foreign}

VARIABLES
  protected,  \* whether the profile is encrypted: a backup needs its key file
  clock,      \* local wall-clock time
  live,       \* what the open database holds
  dbs,        \* [Folders -> [Names -> content of the database file]]
  keys,       \* [Folders -> names whose key file exists]
  copyDir,    \* whether a second folder is set
  job         \* the running command

vars == <<protected, clock, live, dbs, keys, copyDir, job>>
env  == <<protected, clock>>

\* name: the backup being made or copied; saved: its content; from, chosen: the
\* backup being restored and what was extracted from it; victims: still to prune.
Idle == [kind |-> "idle", at |-> "local", step |-> "idle", name |-> <<0, 1>>, saved |-> Absent,
         keyed |-> FALSE, from |-> <<0, 1>>, chosen |-> Absent, victims |-> {}, copied |-> FALSE]

\* The order of the file names, which is the order of their times.
Later(m, n) == m[1] > n[1] \/ (m[1] = n[1] /\ m[2] > n[2])

Present(f)  == {n \in Names : dbs[f][n] # Absent}
Newer(f, n) == {m \in Present(f) : Later(m, n)}
Listed(f)   == {n \in Present(f) : protected => n \in keys[f]}

\* Mutant: no check before publication.
NeverTaken(f, n) == FALSE

\* name_is_taken, and the check before publication: a database or a key file.
Taken(f, n) == dbs[f][n] # Absent \/ n \in keys[f]

\* Mutant: one backup too few is kept.
ExcessOffByOne(f) == {n \in Present(f) : Cardinality(Newer(f, n)) >= Keep - 1}

\* prune_backups: all but the newest Keep, whether listed or not.
Excess(f) == {n \in Present(f) : Cardinality(Newer(f, n)) >= Keep}

\* should_create_backup
DueNow == \A n \in Present("local") : clock >= n[1] + DueAfter

-----------------------------------------------------------------------------
(* The beginning of each command *)

\* create_local_backup: the first free name, and a verified staged copy.
Snapshot(kind, from, chosen) ==
  /\ job = Idle
  /\ \E n \in Names :
       /\ n[1] = clock /\ ~Taken("local", n)
       /\ \A k \in 1..(n[2] - 1) : Taken("local", <<clock, k>>)
       /\ job' = [Idle EXCEPT !.kind = kind, !.step = "publish", !.name = n, !.saved = live,
                              !.keyed = protected, !.from = from, !.chosen = chosen]
  /\ UNCHANGED <<env, live, dbs, keys, copyDir>>

BackUpNow == Snapshot("backup", <<0, 1>>, Absent)

\* create_backup_if_due, when a profile is opened and before it is locked.
BackUpIfDue == DueNow /\ Snapshot("backup", <<0, 1>>, Absent)

\* restore_backup: the chosen backup is extracted before the present data is
\* backed up, since the retention of that backup may delete the chosen one.
Restore == \E n \in Listed("local") : Snapshot("restore", n, dbs["local"][n])

\* set_backup_copy_dir: the newest listed backup is copied first.
SetCopyDir ==
  /\ job = Idle
  /\ IF Listed("local") = {}
     THEN copyDir' = TRUE /\ UNCHANGED job
     ELSE \E n \in Listed("local") :
            /\ \A m \in Listed("local") : ~Later(m, n)
            /\ job' = [Idle EXCEPT !.kind = "copy", !.at = "second", !.step = "copy",
                                   !.name = n, !.saved = dbs["local"][n]]
            /\ UNCHANGED copyDir
  /\ UNCHANGED <<env, live, dbs, keys>>

ClearCopyDir ==
  /\ job = Idle /\ copyDir
  /\ copyDir' = FALSE
  /\ UNCHANGED <<env, live, dbs, keys, job>>

-----------------------------------------------------------------------------
(* publish_staged_backup and prune_to_disk, in the folder job.at *)

\* Mutant: a restore goes on without its safety backup.
FailsSoftly ==
  job' = IF job.kind \in {"backup", "copy"} THEN Idle ELSE [job EXCEPT !.step = "done"]

\* A failed local backup fails the command; a failed second copy only the copy.
Fails ==
  job' = IF job.at = "local" \/ job.kind = "copy" THEN Idle ELSE [job EXCEPT !.step = "done"]

\* Mutant: the database is published alone.
PublishWithoutKey ==
  /\ job.step = "publish" /\ ~Taken(job.at, job.name)
  /\ job' = [job EXCEPT !.step = "rename"]
  /\ UNCHANGED <<env, live, dbs, keys, copyDir>>

PublishKey ==
  /\ job.step = "publish" /\ ~Taken(job.at, job.name)
  /\ keys' = IF job.keyed THEN [keys EXCEPT ![job.at] = @ \cup {job.name}] ELSE keys
  /\ job' = [job EXCEPT !.step = "rename"]
  /\ UNCHANGED <<env, live, dbs, copyDir>>

PublishDb ==
  /\ job.step = "rename"
  /\ dbs' = [dbs EXCEPT ![job.at][job.name] = job.saved]
  /\ job' = [job EXCEPT !.step = "list"]
  /\ UNCHANGED <<env, live, keys, copyDir>>

\* An error while staging, copying the key or verifying, or the name is taken.
PublishFails ==
  /\ job.step = "publish"
  /\ Fails
  /\ UNCHANGED <<env, live, dbs, keys, copyDir>>

\* The database cannot be renamed: the key published by this attempt goes.
RenameFails ==
  /\ job.step = "rename"
  /\ keys' = IF job.keyed THEN [keys EXCEPT ![job.at] = @ \ {job.name}] ELSE keys
  /\ Fails
  /\ UNCHANGED <<env, live, dbs, copyDir>>

ListExcess ==
  /\ job.step = "list"
  /\ job' = [job EXCEPT !.step = "prune", !.victims = Excess(job.at)]
  /\ UNCHANGED <<env, live, dbs, keys, copyDir>>

\* The folder cannot be read: what was published stays.
ListFails ==
  /\ job.step = "list"
  /\ Fails
  /\ UNCHANGED <<env, live, dbs, keys, copyDir>>

Oldest(v) == v \in job.victims /\ \A n \in job.victims : ~Later(v, n)

\* Both deletions are best effort.
PruneKey ==
  /\ job.step = "prune"
  /\ \E v \in Names : Oldest(v) /\ \E gone \in SUBSET {v} : keys' = [keys EXCEPT ![job.at] = @ \ gone]
  /\ job' = [job EXCEPT !.step = "unlink"]
  /\ UNCHANGED <<env, live, dbs, copyDir>>

PruneDb ==
  /\ job.step = "unlink"
  /\ \E v \in Names :
       /\ Oldest(v)
       /\ dbs' \in {dbs, [dbs EXCEPT ![job.at][v] = Absent]}
       /\ job' = [job EXCEPT !.step = "prune", !.victims = @ \ {v}]
  /\ UNCHANGED <<env, live, keys, copyDir>>

PruneDone ==
  /\ job.step = "prune" /\ job.victims = {}
  /\ job' = IF job.at = "second" THEN [job EXCEPT !.step = "done", !.copied = TRUE]
            ELSE IF copyDir THEN [job EXCEPT !.at = "second", !.step = "copy"]
            ELSE [job EXCEPT !.step = "done"]
  /\ UNCHANGED <<env, live, dbs, keys, copyDir>>

-----------------------------------------------------------------------------
(* mirror_backup *)

SourceGone == dbs["local"][job.name] = Absent
\* Mutant: a file of that name is taken for the copy.
SameName == dbs["second"][job.name] # Absent

Identical ==
  /\ dbs["second"][job.name] = dbs["local"][job.name]
  /\ job.name \in keys["local"] => job.name \in keys["second"]

CopyAgain ==
  /\ job.step = "copy" /\ ~SourceGone /\ Identical
  /\ job' = [job EXCEPT !.step = "list"]
  /\ UNCHANGED <<env, live, dbs, keys, copyDir>>

CopyStage ==
  /\ job.step = "copy" /\ ~SourceGone /\ ~Identical
  /\ job' = [job EXCEPT !.step = "publish", !.keyed = job.name \in keys["local"]]
  /\ UNCHANGED <<env, live, dbs, keys, copyDir>>

\* The folder cannot be used, or the backup was pruned as soon as it was made.
CopyFails ==
  /\ job.step = "copy"
  /\ Fails
  /\ UNCHANGED <<env, live, dbs, keys, copyDir>>

-----------------------------------------------------------------------------
(* The end of each command *)

Return ==
  /\ job.step = "done" /\ job.kind # "restore"
  /\ copyDir' = (copyDir \/ job.kind = "copy")
  /\ job' = Idle
  /\ UNCHANGED <<env, live, dbs, keys>>

\* Mutant: the chosen backup is read after the safety backup.
RestoreReadsLate ==
  /\ job.step = "done" /\ job.kind = "restore"
  /\ live' = dbs["local"][job.from]
  /\ job' = Idle
  /\ UNCHANGED <<env, dbs, keys, copyDir>>

\* The extracted file becomes the profile's database.
RestoreReturns ==
  /\ job.step = "done" /\ job.kind = "restore"
  /\ live' = job.chosen
  /\ job' = Idle
  /\ UNCHANGED <<env, dbs, keys, copyDir>>

\* Its key file, config.json or the open fails: the old database stays.
RestoreFails ==
  /\ job.step = "done" /\ job.kind = "restore"
  /\ job' = Idle
  /\ UNCHANGED <<env, live, dbs, keys, copyDir>>

-----------------------------------------------------------------------------
(* Around the commands *)

Kill ==
  /\ job # Idle
  /\ job' = Idle
  /\ UNCHANGED <<env, live, dbs, keys, copyDir>>

Edit ==
  /\ job = Idle
  /\ live' \in Contents \ {live}
  /\ UNCHANGED <<env, dbs, keys, copyDir, job>>

\* The clock is read once per command: it may as well move between commands.
\* It goes back with daylight saving, travel and corrections.
ClockMoves ==
  /\ job = Idle
  /\ clock' \in 0..MaxTime
  /\ UNCHANGED <<protected, live, dbs, keys, copyDir, job>>

\* Another profile with the same second folder is opened and backs up; its
\* steps are those above, taken at once.
OtherProfileCopies ==
  /\ job = Idle /\ ~Taken("second", <<clock, 1>>)
  /\ LET n    == <<clock, 1>>
         held == Present("second") \cup {n}
         gone == {m \in held : Cardinality({k \in held : Later(k, m)}) >= Keep}
     IN  /\ dbs' = [dbs EXCEPT !["second"] =
                      [m \in Names |-> IF m \in gone THEN Absent ELSE IF m = n THEN Foreign ELSE @[m]]]
         /\ keys' = IF protected
                    THEN [keys EXCEPT !["second"] = (@ \cup {n}) \ gone]
                    ELSE keys
  /\ UNCHANGED <<env, live, copyDir, job>>

Init ==
  /\ protected \in BOOLEAN
  /\ clock \in 0..MaxTime
  /\ live \in Contents
  /\ dbs = [f \in Folders |-> [n \in Names |-> Absent]]
  /\ keys = [f \in Folders |-> {}]
  /\ copyDir = FALSE
  /\ job = Idle

Next ==
  \/ BackUpNow \/ BackUpIfDue \/ Restore \/ SetCopyDir \/ ClearCopyDir
  \/ PublishKey \/ PublishDb \/ PublishFails \/ RenameFails
  \/ ListExcess \/ ListFails \/ PruneKey \/ PruneDb \/ PruneDone
  \/ CopyAgain \/ CopyStage \/ CopyFails
  \/ Return \/ RestoreReturns \/ RestoreFails
  \/ Kill \/ Edit \/ ClockMoves \/ OtherProfileCopies

Spec == Init /\ [][Next]_vars

-----------------------------------------------------------------------------
(* Properties *)

Jobs ==
  [kind : {"idle", "backup", "restore", "copy"}, at : Folders,
   step : {"idle", "publish", "rename", "list", "prune", "unlink", "copy", "done"},
   name : Names, saved : Contents \cup {Absent}, keyed : BOOLEAN, from : Names,
   chosen : Contents \cup {Absent}, victims : SUBSET Names, copied : BOOLEAN]

TypeOK ==
  /\ protected \in BOOLEAN /\ copyDir \in BOOLEAN
  /\ clock \in 0..MaxTime
  /\ live \in Contents
  /\ dbs \in [Folders -> [Names -> Contents \cup {Foreign, Absent}]]
  /\ keys \in [Folders -> SUBSET Names]
  /\ job \in Jobs

\* A backup that lost its key file, or never got one, is never one of the
\* newest Keep: those are all listed, through kills and failed deletions.
KeptOpen ==
  \A n \in Present("local") \ Listed("local") : Cardinality(Newer("local", n)) >= Keep

\* The daily backup is skipped only while a listed backup is young enough:
\* a file that cannot be restored does not stand in for one.
SkippedWhenCovered ==
  DueNow \/ \E n \in Listed("local") : clock < n[1] + DueAfter

\* No file of either folder is ever replaced by another of the same name.
NothingReplaced ==
  [][\A f \in Folders, n \in Names :
       dbs[f][n] # Absent => dbs'[f][n] \in {dbs[f][n], Absent}]_vars

\* A backup reported as made is listed, unless Keep later names are there: the
\* clock has gone back.
ReportedIsListed ==
  job.step = "done" /\ job.kind # "copy" =>
    \/ job.name \in Listed("local") /\ dbs["local"][job.name] = job.saved
    \/ Cardinality(Newer("local", job.name)) >= Keep

\* A copy reported as made is there with its key file, with the same exception
\* for either folder: a backup that its own retention has just pruned, but for
\* a database that could not be deleted, is copied without a key.
CopiedIsThere ==
  job.step = "done" /\ job.copied =>
    \/ job.name \in Listed("second") /\ dbs["second"][job.name] = job.saved
    \/ \E f \in Folders : Cardinality(Newer(f, job.name)) >= Keep

\* A restore gives what the chosen backup held when it was asked for, and what
\* it replaces is a listed backup, with the same exception.
RestoreReversible ==
  [][live' # live /\ job.kind = "restore" =>
       /\ live' = job.chosen
       /\ \/ \E n \in Listed("local") : dbs["local"][n] = live
          \/ Cardinality(Newer("local", job.name)) >= Keep]_vars
=============================================================================
