---------------------------- MODULE ProfileFiles ----------------------------
(***************************************************************************)
(* The durable state of one registered profile, and the process state the  *)
(* three protection changes (enable, change password, remove) share.       *)
(*                                                                         *)
(* Every change is a sequence of single file operations.  A kill may come  *)
(* between any two of them, and in the middle of a database export; what   *)
(* survives a kill is exactly the durable variables below.                 *)
(***************************************************************************)
EXTENDS Naturals

CONSTANTS
  Deks,       \* data encryption keys a run may generate (each used once)
  Backups,    \* backup file names (timestamped, so never reused)
  MaxFiles,   \* bound: database names tried per name family
  MaxEdits,   \* bound: saved edits
  Faults,     \* the kinds of I/O error the run lets happen
  DeletesOpenFiles,  \* the platform: TRUE on macOS, FALSE on Windows
  Plaintext,  \* content of an unencrypted database
  Torn,       \* content of a half-written export
  Absent,     \* no such file
  None        \* no journal, no session, no path

\* "precommit": an export, a verification, a key or journal write before the
\* commit; "registry": the profiles.json write; "config": the config.json
\* write; "move": installing a staged file or deleting an old one; "journal":
\* deleting a journal; "open": opening the new database after the commit.
FaultKinds == {"precommit", "registry", "config", "move", "journal", "open"}

\* Database paths of the profile's folder: <<"base", n>> is vaultspend[-n].db,
\* <<"protected", n>> is vaultspend-protected[-n].db.  The names say nothing
\* about the content: a profile created protected lives at <<"base", 1>>.
Paths == {"base", "protected"} \X (1..MaxFiles)

\* The journals: what each change would have to finish or to undo.
EnableJournal  == [target : Paths, owned : SUBSET Backups]
RotateJournal  == [old : Paths, target : Paths, names : SUBSET Backups]
RemovalJournal == [old : Paths, target : Paths]

ASSUME ConstantsAssumption ==
  /\ MaxFiles \in Nat \ {0}
  /\ MaxEdits \in Nat
  /\ Faults \subseteq FaultKinds
  /\ DeletesOpenFiles \in BOOLEAN
  /\ Plaintext # Torn /\ Plaintext # Absent /\ Torn # Absent
  /\ Plaintext \notin Deks /\ Torn \notin Deks /\ Absent \notin Deks
  /\ None \notin Paths \cup Backups
  /\ None \notin EnableJournal \cup RotateJournal \cup RemovalJournal

VARIABLES
  content,   \* [Paths -> the key a database file is encrypted under, or ...]
  keyOf,     \* [Paths -> the DEK the key file beside the database wraps]
  saved,     \* [Paths -> number of edits the database holds]
  plain,     \* names present in backups/
  prot,      \* backups/protected/: per name, its database and key file
  staged,    \* backups/protected/.rotate-staging/, likewise
  registry,  \* profiles.json: the profile's entry
  config,    \* config.json: the database path it names
  ej,        \* protection-journal.json
  rj,        \* protection-rotation-journal.json
  mj,        \* protection-removal-journal.json
  session,   \* path of the open database, or None (locked / nothing open)
  pc,        \* what the process is executing
  cont,      \* where recovery returns to
  job,       \* locals of the running change
  latest,    \* history: number of edits the user was told are saved
  used,      \* history: DEKs generated so far
  made       \* history: backup names taken so far

disk    == <<content, keyOf, saved>>
copies  == <<plain, prot, staged>>
records == <<registry, config>>
journals == <<ej, rj, mj>>
process == <<session, pc, cont, job>>
history == <<latest, used, made>>
vars    == <<disk, copies, records, journals, process, history>>

-----------------------------------------------------------------------------
Content == Deks \cup {Plaintext, Torn, Absent}
KeyFile == Deks \cup {Absent}
Pair    == [db : Content, key : KeyFile]
NoPair  == [db |-> Absent, key |-> Absent]

Registry == [listed : BOOLEAN, path : Paths, protected : BOOLEAN, former : Paths \cup {None}]

Job   == [src : Paths \cup {None}, target : Paths \cup {None},
          dek : KeyFile, todo : SUBSET Backups, cur : Backups \cup {None}]
NoJob == [src |-> None, target |-> None, dek |-> Absent, todo |-> {}, cur |-> None]

EnablePc == {"enJournal", "enExport", "enKey", "enBackups", "enBackupKey",
             "enBackupJournal", "enCommit", "enConfig", "enRetire", "enSwap"}
RotatePc == {"roJournal", "roExport", "roKey", "roStage", "roStageKey",
             "roStageJournal", "roCommit", "roSwap"}
RemovePc == {"rmBackup", "rmJournal", "rmExport", "rmCommit", "rmConfig", "rmSwap"}
RecoverPc == {"recEnable", "recRotate", "recRemove",
              "move", "moveConfig", "retireOld", "retireJournal",
              "retireDb", "retireKey", "retireConfig", "retireRemoval"}
ProgramCounters == {"down", "blocked", "idle"} \cup EnablePc \cup RotatePc
                     \cup RemovePc \cup RecoverPc

\* "launch": the startup chain; "start": first step of a change; "unwind":
\* after a failed change; "install": finish_rotation before the hot swap;
\* "done": complete_committed_* after it.
Continuations == {"launch", "start", "unwind", "install", "done"}

TypeOK ==
  /\ content \in [Paths -> Content]
  /\ keyOf \in [Paths -> KeyFile]
  /\ saved \in [Paths -> Nat]
  /\ plain \subseteq Backups
  /\ prot \in [Backups -> Pair]
  /\ staged \in [Backups -> Pair]
  /\ registry \in Registry
  /\ config \in Paths
  /\ ej \in EnableJournal \cup {None}
  /\ rj \in RotateJournal \cup {None}
  /\ mj \in RemovalJournal \cup {None}
  /\ session \in Paths \cup {None}
  /\ pc \in ProgramCounters
  /\ cont \in Continuations
  /\ job \in Job
  /\ latest \in Nat
  /\ used \subseteq Deks
  /\ made \subseteq Backups

-----------------------------------------------------------------------------
\* unique_protected_path / unique_plaintext_path: the lowest-numbered name no
\* database file has.  A leftover key file beside the name is not looked at.
LowestFree(family, n) ==
  /\ n \in 1..MaxFiles
  /\ content[<<family, n>>] = Absent
  /\ \A m \in 1..(n - 1) : content[<<family, m>>] # Absent

\* Bound: some name of the family is still free.
RoomIn(family) == \E n \in 1..MaxFiles : content[<<family, n>>] = Absent

\* list_backups(dir, true): an encrypted copy counts only beside its key file.
Listed(dir) == {b \in Backups : dir[b].db # Absent /\ dir[b].key # Absent}

\* Windows refuses to delete a database this process has open; macOS does not.
Deletable(p) == session # p \/ DeletesOpenFiles

\* As deleted as a deletion that ignores its error gets.
Cleared(p) == content[p] = Absent \/ ~Deletable(p)

\* Store::open_with_key succeeds on an encrypted file only under its own key.
Opens(c, dek) == c \in Deks /\ c = dek

\* backups::create_backup of the database at p, as far as these folders see
\* it: the copy and (if encrypted) its key file appear under a fresh name.
NewBackup(p, b) ==
  /\ b \notin made
  /\ made' = made \cup {b}
  /\ IF content[p] = Plaintext
     THEN plain' = plain \cup {b} /\ UNCHANGED prot
     ELSE /\ prot' = [prot EXCEPT ![b] = [db |-> content[p], key |-> keyOf[p]]]
          /\ UNCHANGED plain

\* create_backup_if_due: whether the newest backup is a day old is not modelled.
DueBackup(p) ==
  \/ \E b \in Backups : NewBackup(p, b)
  \/ UNCHANGED <<plain, prot, made>>

Fault(kind) == kind \in Faults

Goto(label) == pc' = label

\* A command that returns Err (or Ok): the worker is free again.
Return == Goto("idle") /\ job' = NoJob /\ UNCHANGED <<session, cont>>

\* The process is killed: only the durable variables survive.
Die == Goto("down") /\ session' = None /\ job' = NoJob /\ cont' = "launch"
=============================================================================
