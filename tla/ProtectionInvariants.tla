------------------------ MODULE ProtectionInvariants ------------------------
(***************************************************************************)
(* The inductive invariant behind RegisteredFileOpens: what each program   *)
(* counter knows about the running change, and what every journal may name.*)
(***************************************************************************)
EXTENDS ProtectionLifecycle

BasePaths == {"base"} \X (1..MaxFiles)
ProtectedPaths == {"protected"} \X (1..MaxFiles)

\* The registry entry names this path.
Registered(p) == registry.listed /\ registry.path = p

\* Program counters by what has been done: a target chosen but not committed,
\* exported, and given its key file.
EnablePending  == {"enExport", "enKey", "enBackups", "enBackupKey", "enBackupJournal", "enCommit"}
RotatePending  == {"roExport", "roKey", "roStage", "roStageKey", "roStageJournal", "roCommit"}
RemovePending  == {"rmExport", "rmCommit"}
Exported       == (EnablePending \cup RotatePending) \ {"enExport", "roExport"}
Keyed          == Exported \ {"enKey", "roKey"}
Installing     == {"move", "moveConfig", "roSwap", "retireOld", "retireJournal"}
Retiring       == {"rmConfig", "rmSwap", "retireDb", "retireKey", "retireConfig", "retireRemoval"}
Recovering     == RecoverPc \cup {"enJournal", "roJournal", "rmBackup", "rmJournal"}
Rotating       == {"recRotate", "move", "moveConfig", "retireOld", "retireJournal"}

\* Committed, the new database not opened yet.
Swapping ==
  \/ pc \in {"enConfig", "enRetire", "enSwap", "roSwap", "rmConfig", "rmSwap"}
  \/ pc \in {"move", "moveConfig"} /\ cont = "install"

\* A change that has begun works on the open database, or (recovery by code)
\* on the registered one, and that file stays while earlier journals resolve.
SourceLive ==
  pc \in Recovering /\ (cont = "start" \/ pc \in {"enJournal", "roJournal", "rmBackup", "rmJournal"}) =>
    /\ job.src \in Paths
    /\ job.src = session \/ Registered(job.src)

\* The locals each step relies on.
LocalsSet ==
  /\ pc \in EnablePending \cup RotatePending \cup RemovePending => job.src \in Paths
  /\ pc \in EnablePending \cup RotatePending => job.target \in ProtectedPaths /\ job.dek \in Deks
  /\ pc \in RemovePending => job.target \in BasePaths
  /\ Swapping => job.target \in Paths
  /\ pc \in {"enBackupKey", "enBackupJournal", "roStageKey", "roStageJournal"} => job.cur \in Backups
  /\ pc \in {"recRotate", "retireOld", "retireJournal"} => cont # "install"

\* A change in progress has its own journal.
JournalWritten ==
  /\ pc \in EnablePending \cup {"enConfig", "enRetire"} => ej # None
  /\ pc \in RotatePending => rj # None /\ rj.old = job.src /\ rj.target = job.target
  /\ pc \in RemovePending => mj # None /\ mj.old = job.src /\ mj.target = job.target
  /\ pc \in Installing => rj # None
  /\ pc \in Retiring => mj # None

\* Before the commit the target is a file of its own, complete once exported.
TargetPrepared ==
  /\ pc \in EnablePending \cup RotatePending \cup RemovePending => ~Registered(job.target)
  /\ pc \in Exported => content[job.target] = job.dek
  /\ pc \in Keyed => keyOf[job.target] = job.dek
  /\ pc = "rmCommit" => content[job.target] = Plaintext
  /\ Swapping => content[job.target] # Absent

\* Only a protected profile is rotated.
RotatesProtected ==
  pc \in RotatePending \cup {"roJournal"} \/ (pc \in Rotating /\ cont = "start") =>
    (Registered(job.src) => registry.protected)

\* What a journal may name: recovery deletes its target or its old database.
JournalsSafe ==
  /\ ej # None => ej.target \in ProtectedPaths /\ (Registered(ej.target) => registry.protected)
  /\ rj # None => rj.old # rj.target
  /\ mj # None => mj.old # mj.target
  /\ pc \in Installing => ~Registered(rj.old)
  /\ pc \in Retiring => ~Registered(mj.old)

\* The file of an open session is not deleted under it.
SessionFileExists == session # None => content[session] # Absent

IInv ==
  /\ TypeOK
  /\ SourceLive
  /\ LocalsSet
  /\ JournalWritten
  /\ TargetPrepared
  /\ RotatesProtected
  /\ JournalsSafe
  /\ SessionFileExists
  /\ RegisteredFileOpens
=============================================================================
