--------------------------- MODULE ProtectionWork ---------------------------
(***************************************************************************)
(* The second inductive invariant of the protection lifecycle: where the   *)
(* user's edits, the journals of changes that never committed, and every   *)
(* backup made are, at each program counter.  It builds on IInv.           *)
(***************************************************************************)
EXTENDS ProtectionInvariants

\* The committed changes open the new database: no error stops them between the
\* commit and the swap.
SwapsAfterCommit == Faults \cap {"config", "journal", "open"} = {}

\* An open session is on the registered database, except between a commit and
\* the swap to the target; a change works on the registered database.
SessionCurrent ==
  registry.listed =>
    /\ session # None /\ ~Swapping => session = registry.path
    /\ Swapping => registry.path = job.target
    /\ pc \in EnablePending \cup RotatePending \cup RemovePending => job.src = registry.path

\* The registered database holds every edit, and so does its exported copy.
WorkSaved ==
  registry.listed =>
    /\ saved[registry.path] = latest
    /\ pc \in Exported \cup {"rmCommit"} => saved[job.target] = latest

WorkInv == SessionCurrent /\ WorkSaved

-----------------------------------------------------------------------------
\* The I/O errors of the runs: before a commit, or of the commit itself.
EarlyFaultsOnly == Faults \subseteq {"precommit", "registry"}

RecoversAtLaunch == pc \in {"recEnable", "recRotate", "recRemove"} /\ cont = "launch"

\* A profile removed from the list is not open and nothing works on it, and no
\* journal left behind names its file as a target.
RemovedProfileRests ==
  ~registry.listed =>
    /\ session = None
    /\ pc \in {"down", "blocked", "idle"} \/ RecoversAtLaunch
    /\ content[registry.path] # Absent
    /\ ej # None => ~registry.protected /\ ej.target # registry.path
    /\ rj # None => rj.target # registry.path
    /\ mj # None => mj.target # registry.path

\* Which family of names each journal's target belongs to; the running change
\* wrote the one journal of its kind.
JournalNames ==
  /\ rj # None => rj.target \in ProtectedPaths
  /\ mj # None => mj.target \in BasePaths
  /\ pc \in EnablePending \cup {"enConfig", "enRetire"} => ej.target = job.target
  /\ pc \in {"enJournal", "enSwap"} => ej = None
  /\ pc = "roJournal" => rj = None
  /\ pc \in {"rmBackup", "rmJournal"} => mj = None

\* A launch resolves the journals in turn: enable, rotation, removal.
LaunchInOrder ==
  cont = "launch" =>
    /\ pc \notin EnablePc \cup RotatePc \cup RemovePc
    /\ pc \in Rotating \cup Retiring \cup {"recRemove"} => ej = None
    /\ pc \in Retiring \cup {"recRemove"} => rj = None

\* Only an unprotected profile is enabled.
EnablesPlain ==
  pc \in EnablePending \cup {"enJournal"} \/ (pc = "recEnable" /\ cont # "launch") =>
    (registry.listed => ~registry.protected)

\* Between the commit and the swap the session is still on the old database,
\* which the final backup of a waiting lock can copy with its key file.
OldSessionReads ==
  session # None /\ Swapping /\ pc \notin EnablePc =>
    \/ Opens(content[session], keyOf[session])
    \/ content[session] = Plaintext /\ ~registry.protected

\* A journal whose change committed is only ever seen while the process is down
\* or on its way to finish that change.
CommittedResolving ==
  registry.listed =>
    /\ ej # None /\ registry.protected =>
         /\ ej.target = registry.path
         /\ pc \in {"enConfig", "enRetire", "down"} \/ (pc = "recEnable" /\ cont = "launch")
    /\ rj # None /\ rj.target = registry.path =>
         /\ registry.protected
         /\ pc \in Installing \cup {"down"} \/ (pc \in {"recEnable", "recRotate"} /\ cont = "launch")
    /\ mj # None /\ mj.target = registry.path =>
         pc \in Retiring \cup {"down"} \/ RecoversAtLaunch
    /\ pc \in Installing => rj.target = registry.path
    /\ pc \in Retiring => mj.target = registry.path

\* A rotation whose commit failed waits for the next one or the next launch.
RotationWaits ==
  /\ rj # None
  /\ pc \notin {"down", "recRotate"} \cup RotatePending \cup Installing
  /\ ~(pc = "recEnable" /\ cont = "launch")
  /\ ~(pc = "blocked")

\* Its target keeps its name taken, so no other change uses that name.
WaitingTargetKept ==
  RotationWaits =>
    /\ content[rj.target] \in Deks
    /\ rj.target # registry.path
    /\ ej # None => rj.target # ej.target
    /\ mj # None /\ pc \in RemovePending \cup Retiring => rj.target # mj.old

\* Every encrypted or half-written database is the live one or named by a
\* journal that will delete it.
Accounted ==
  registry.listed =>
    /\ \A p \in Paths : content[p] \in Deks \cup {Torn} =>
         \/ p = registry.path
         \/ ej # None /\ p = ej.target
         \/ rj # None /\ (p = rj.target \/ (rj.target = registry.path /\ p = rj.old))
         \/ mj # None /\ (p = mj.target \/ (mj.target = registry.path /\ p = mj.old))
    /\ pc = "retireJournal" => content[rj.old] = Absent
    /\ pc \in {"retireKey", "retireConfig", "retireRemoval"} => content[mj.old] = Absent

JournalsInv ==
  /\ RemovedProfileRests
  /\ JournalNames
  /\ LaunchInOrder
  /\ EnablesPlain
  /\ OldSessionReads
  /\ CommittedResolving
  /\ WaitingTargetKept
  /\ Accounted

-----------------------------------------------------------------------------
\* The backups a committed rotation is moving out of staging.
Moving == IF rj # None /\ rj.target = registry.path THEN rj.names ELSE {}

\* Each half of a pair being moved is under the live key, staged or in place.
MovingPair(b) ==
  LET live == content[registry.path] IN
  /\ live \in {prot[b].db, staged[b].db} /\ live \in {prot[b].key, staged[b].key}
  /\ staged[b].db \in {Absent, live} /\ staged[b].key \in {Absent, live}

\* A backup readable without its plaintext copy.
KeptEncrypted(b) ==
  IF b \in Moving THEN MovingPair(b) ELSE Opens(prot[b].db, prot[b].key)

\* Staged files belong to the rotation whose journal is on disk.
StagedOwned ==
  /\ rj = None \/ pc \in {"roExport", "roKey"} => \A b \in Backups : staged[b] = NoPair
  /\ pc \in RotatePending \/ (registry.listed /\ rj # None /\ rj.target = registry.path) =>
       \A b \in Backups : staged[b] = NoPair \/ b \in rj.names
                            \/ (pc \in {"roStageKey", "roStageJournal"} /\ b = job.cur)
  /\ pc \in RotatePending => \A b \in rj.names : staged[b] = [db |-> job.dek, key |-> job.dek]
  /\ pc = "roStageKey" => staged[job.cur] = [db |-> job.dek, key |-> Absent]
  /\ pc = "roStageJournal" => staged[job.cur] = [db |-> job.dek, key |-> job.dek]
  /\ pc \in Installing \ {"move"} => \A b \in rj.names : staged[b] = NoPair

\* Only backups that were made are anywhere.
OnlyMade ==
  /\ plain \subseteq made
  /\ \A b \in Backups \ made : prot[b] = NoPair
  /\ rj # None => rj.names \subseteq made
  /\ job.todo \subseteq made
  /\ pc \in {"roStageKey", "roStageJournal"} => job.cur \in made

\* Before enabling commits, every plaintext backup has its encrypted copy.
PlainConverted ==
  pc \in {"enBackups", "enBackupKey", "enBackupJournal", "enCommit"} =>
    /\ job.todo \subseteq plain
    /\ \A b \in plain \ job.todo : Opens(prot[b].db, prot[b].key)
    /\ pc \in {"enBackupKey", "enBackupJournal"} => job.cur \in job.todo /\ prot[job.cur].db = job.dek
    /\ pc = "enBackupJournal" => prot[job.cur].key = job.dek
    /\ pc = "enCommit" => job.todo = {}

\* Before a rotation commits, every listed backup has been staged; afterwards
\* each of these is being moved.
ListedStaged ==
  /\ pc \in {"roStage", "roStageKey", "roStageJournal"} => Listed(prot) \subseteq rj.names \cup job.todo
  /\ pc = "roCommit" => Listed(prot) \subseteq rj.names
  /\ registry.listed /\ rj # None /\ rj.target = registry.path =>
       \A b \in rj.names : MovingPair(b)

\* A backup made is readable, and without its plaintext copy wherever the user
\* or a recovery may delete one of the two.
BackupsKept ==
  /\ \A b \in made : b \in plain \/ KeptEncrypted(b)
  /\ registry.protected => \A b \in made : KeptEncrypted(b)
  /\ ~registry.protected => registry.former = None
  /\ ej # None /\ ~registry.protected => ej.owned \subseteq plain

CopiesInv ==
  /\ StagedOwned
  /\ OnlyMade
  /\ PlainConverted
  /\ ListedStaged
  /\ BackupsKept
=============================================================================
