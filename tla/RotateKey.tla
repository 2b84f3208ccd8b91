----------------------------- MODULE RotateKey ------------------------------
(***************************************************************************)
(* Changing the password of a protected profile, and recovering it by its  *)
(* recovery code (protection_lifecycle.rs, rotate_dek): a new DEK, a new   *)
(* live database, and every listed backup re-encrypted into a staging      *)
(* folder; one atomic profiles.json write commits; the staged files are    *)
(* then installed and the old database retired, across restarts if need be.*)
(***************************************************************************)
EXTENDS ProfileFiles

\* Mutant: config.json, written after the registry, decides.
RotateCommittedByConfig == registry.listed /\ config = rj.target

\* The registry names the journal's target: the rotation committed.
RotateCommitted == registry.listed /\ registry.path = rj.target

-----------------------------------------------------------------------------
\* change_password works on the open encrypted session, commit_recovery on
\* the locked registered profile; both must hold the current key file's DEK.
RotateBegin ==
  /\ pc = "idle"
  /\ Deks \ used # {} /\ RoomIn("protected")
  /\ \E p \in Paths :
       /\ \/ session = p
          \/ session = None /\ registry.listed /\ registry.protected /\ registry.path = p
       /\ Opens(content[p], keyOf[p])
       /\ job' = [NoJob EXCEPT !.src = p]
  /\ cont' = "start" /\ Goto("recRotate")
  /\ UNCHANGED <<disk, copies, records, journals, session, history>>

RotateWriteJournal ==
  /\ pc = "roJournal"
  /\ \E d \in Deks \ used, n \in 1..MaxFiles :
       /\ LowestFree("protected", n)
       /\ used' = used \cup {d}
       /\ rj' = [old |-> job.src, target |-> <<"protected", n>>, names |-> {}]
       /\ job' = [job EXCEPT !.target = <<"protected", n>>, !.dek = d]
  /\ Goto("roExport")
  /\ UNCHANGED <<disk, copies, records, ej, mj, session, cont, latest, made>>

RotateJournalFails ==
  /\ pc = "roJournal" /\ Fault("precommit")
  /\ Return
  /\ UNCHANGED <<disk, copies, records, journals, history>>

RotateExport ==
  /\ pc = "roExport"
  /\ content' = [content EXCEPT ![job.target] = job.dek]
  /\ saved' = [saved EXCEPT ![job.target] = saved[job.src]]
  /\ Goto("roKey")
  /\ UNCHANGED <<keyOf, copies, records, journals, session, cont, job, history>>

RotateKilledInExport ==
  /\ pc = "roExport"
  /\ content' = [content EXCEPT ![job.target] = Torn]
  /\ Die
  /\ UNCHANGED <<keyOf, saved, copies, records, journals, history>>

\* The key file, then the listing of backups/protected/ to re-encrypt.
RotateWriteKey ==
  /\ pc = "roKey"
  /\ keyOf' = [keyOf EXCEPT ![job.target] = job.dek]
  /\ job' = [job EXCEPT !.todo = Listed(prot)]
  /\ Goto("roStage")
  /\ UNCHANGED <<content, saved, copies, records, journals, session, cont, history>>

RotateStage(b) ==
  /\ pc = "roStage" /\ b \in job.todo
  /\ Opens(prot[b].db, content[job.src]) /\ staged[b].db = Absent
  /\ staged' = [staged EXCEPT ![b].db = job.dek]
  /\ job' = [job EXCEPT !.cur = b]
  /\ Goto("roStageKey")
  /\ UNCHANGED <<disk, plain, prot, records, journals, session, cont, history>>

RotateKilledInStage(b) ==
  /\ pc = "roStage" /\ b \in job.todo
  /\ Opens(prot[b].db, content[job.src]) /\ staged[b].db = Absent
  /\ staged' = [staged EXCEPT ![b].db = Torn]
  /\ Die
  /\ UNCHANGED <<disk, plain, prot, records, journals, history>>

\* A backup the live DEK does not open, or a staged leftover, ends the change.
RotateBlocked(b) ==
  /\ pc = "roStage" /\ b \in job.todo
  /\ ~Opens(prot[b].db, content[job.src]) \/ staged[b].db # Absent
  /\ cont' = "unwind" /\ Goto("recRotate")
  /\ UNCHANGED <<disk, copies, records, journals, session, job, history>>

RotateStageKey ==
  /\ pc = "roStageKey"
  /\ staged' = [staged EXCEPT ![job.cur].key = job.dek]
  /\ Goto("roStageJournal")
  /\ UNCHANGED <<disk, plain, prot, records, journals, session, cont, job, history>>

RotateOwnStaged ==
  /\ pc = "roStageJournal"
  /\ rj' = [rj EXCEPT !.names = @ \cup {job.cur}]
  /\ job' = [job EXCEPT !.todo = @ \ {job.cur}, !.cur = None]
  /\ Goto("roStage")
  /\ UNCHANGED <<disk, copies, records, ej, mj, session, cont, history>>

\* Mutant: the commit does not wait for every listed backup.
RotateStagingUnchecked ==
  /\ pc = "roStage"
  /\ Goto("roCommit")
  /\ UNCHANGED <<disk, copies, records, journals, session, cont, job, history>>

RotateStagingDone ==
  /\ pc = "roStage" /\ job.todo = {}
  /\ Goto("roCommit")
  /\ UNCHANGED <<disk, copies, records, journals, session, cont, job, history>>

RotateFails ==
  /\ Fault("precommit")
  /\ pc \in {"roExport", "roKey", "roStage", "roStageKey", "roStageJournal"}
  /\ cont' = "unwind" /\ Goto("recRotate")
  /\ UNCHANGED <<disk, copies, records, journals, session, job, history>>

\* update_active_db_path repoints the entry that names the old path; when no
\* entry does, it changes nothing and still succeeds.
RotateCommit ==
  /\ pc = "roCommit"
  /\ IF registry.listed /\ registry.path = job.src
     THEN registry' = [registry EXCEPT !.path = job.target]
     ELSE UNCHANGED registry
  /\ cont' = "install" /\ Goto("move")
  /\ UNCHANGED <<disk, copies, config, journals, session, job, latest, used, made>>

RotateCommitFails ==
  /\ pc = "roCommit" /\ Fault("registry")
  /\ Return
  /\ UNCHANGED <<disk, copies, records, journals, history>>

\* Mutant: the caller keeps the session on the old database.
RotateNoSwap ==
  /\ pc = "roSwap"
  /\ session' = job.src
  /\ DueBackup(job.target)
  /\ cont' = "done"
  /\ job' = NoJob
  /\ Goto("move")
  /\ UNCHANGED <<disk, staged, records, journals, latest, used>>

\* Hot swap to the new database; only then is the old one retired.
RotateSwap ==
  /\ pc = "roSwap"
  /\ session' = job.target
  /\ DueBackup(job.target)
  /\ cont' = "done"
  /\ job' = NoJob
  /\ Goto("move")
  /\ UNCHANGED <<disk, staged, records, journals, latest, used>>

RotateSwapFails ==
  /\ pc = "roSwap" /\ Fault("open")
  /\ Return
  /\ UNCHANGED <<disk, copies, records, journals, history>>

RotateStep ==
  \/ RotateWriteJournal \/ RotateExport \/ RotateWriteKey
  \/ \E b \in Backups : RotateStage(b) \/ RotateBlocked(b)
  \/ RotateStageKey \/ RotateOwnStaged \/ RotateStagingDone
  \/ RotateCommit \/ RotateSwap

RotateFault == RotateJournalFails \/ RotateFails \/ RotateCommitFails \/ RotateSwapFails

RotateKill == RotateKilledInExport \/ \E b \in Backups : RotateKilledInStage(b)

-----------------------------------------------------------------------------
\* finish_rotation: per journaled name, first its database and then its key
\* is moved from staging over the old file (remove, then rename).
Ready(b, part) == part = "db" \/ staged[b].db = Absent

InstallRemoveOld(b, part) ==
  /\ pc = "move" /\ b \in rj.names /\ Ready(b, part)
  /\ staged[b][part] # Absent /\ prot[b][part] # Absent
  /\ prot' = [prot EXCEPT ![b][part] = Absent]
  /\ UNCHANGED <<disk, plain, staged, records, journals, process, history>>

InstallRename(b, part) ==
  /\ pc = "move" /\ b \in rj.names /\ Ready(b, part)
  /\ staged[b][part] # Absent /\ prot[b][part] = Absent
  /\ prot' = [prot EXCEPT ![b][part] = staged[b][part]]
  /\ staged' = [staged EXCEPT ![b][part] = Absent]
  /\ UNCHANGED <<disk, plain, records, journals, process, history>>

InstallDone ==
  /\ pc = "move"
  /\ \A b \in rj.names : staged[b] = NoPair
  /\ Goto("moveConfig")
  /\ UNCHANGED <<disk, copies, records, journals, session, cont, job, history>>

\* Mutant: the old database is never retired.
InstallSkipsRetirement ==
  /\ pc = "moveConfig"
  /\ config' = rj.target
  /\ IF cont = "install" THEN Goto("roSwap") ELSE Goto("retireJournal")
  /\ UNCHANGED <<disk, copies, registry, journals, session, cont, job, history>>

InstallConfig ==
  /\ pc = "moveConfig"
  /\ config' = rj.target
  /\ IF cont = "install" THEN Goto("roSwap") ELSE Goto("retireOld")
  /\ UNCHANGED <<disk, copies, registry, journals, session, cont, job, history>>

\* Mutant: a launch stops after the rotation journal.
AfterRotateLaunchEnds ==
  IF cont = "start" THEN Goto("roJournal") /\ UNCHANGED <<session, cont, job>> ELSE Return

\* Where the rotation journal's resolution returns to.
AfterRecoverRotate ==
  CASE cont = "launch" -> Goto("recRemove") /\ UNCHANGED <<session, cont, job>>
    [] cont = "start"  -> Goto("roJournal") /\ UNCHANGED <<session, cont, job>>
    [] OTHER           -> Return

\* An error here is only logged before the swap and after it; it stops a
\* launch and a new change.
InstallFails ==
  /\ \/ pc = "move" /\ Fault("move") /\ \E b \in rj.names : staged[b] # NoPair
     \/ pc = "retireOld" /\ Fault("move") /\ <<content[rj.old], keyOf[rj.old]>> # <<Absent, Absent>>
     \/ pc = "moveConfig" /\ Fault("config")
     \/ pc = "retireJournal" /\ Fault("journal")
     \/ pc = "retireOld" /\ ~Deletable(rj.old) /\ content[rj.old] # Absent
  /\ CASE cont = "install" -> Goto("roSwap") /\ UNCHANGED <<session, cont, job>>
       [] cont = "launch"  -> Goto("blocked") /\ UNCHANGED <<session, cont, job>>
       [] OTHER            -> Return
  /\ UNCHANGED <<disk, copies, records, journals, history>>

\* retire_committed_rotation: the old database, its key file, the journal.
RetireOldDb ==
  /\ pc = "retireOld" /\ Deletable(rj.old)
  /\ content[rj.old] # Absent
  /\ content' = [content EXCEPT ![rj.old] = Absent]
  /\ UNCHANGED <<keyOf, saved, copies, records, journals, process, history>>

RetireOldKey ==
  /\ pc = "retireOld" /\ content[rj.old] = Absent
  /\ keyOf' = [keyOf EXCEPT ![rj.old] = Absent]
  /\ Goto("retireJournal")
  /\ UNCHANGED <<content, saved, copies, records, journals, session, cont, job, history>>

\* Mutant: the journal of a finished rotation stays on disk.
RetireKeepsJournal ==
  /\ pc = "retireJournal"
  /\ AfterRecoverRotate
  /\ UNCHANGED <<disk, copies, records, journals, history>>

RetireRotation ==
  /\ pc = "retireJournal"
  /\ rj' = None
  /\ AfterRecoverRotate
  /\ UNCHANGED <<disk, copies, records, ej, mj, history>>

-----------------------------------------------------------------------------
\* recover_interrupted_rotation.
RecoverRotateResume ==
  /\ pc = "recRotate" /\ rj # None /\ RotateCommitted
  /\ Goto("move")
  /\ UNCHANGED <<disk, copies, records, journals, session, cont, job, history>>

RecoverRotateDeleteDb ==
  /\ pc = "recRotate" /\ rj # None /\ ~RotateCommitted
  /\ ~Cleared(rj.target)
  /\ content' = [content EXCEPT ![rj.target] = Absent]
  /\ UNCHANGED <<keyOf, saved, copies, records, journals, process, history>>

RecoverRotateDeleteKey ==
  /\ pc = "recRotate" /\ rj # None /\ ~RotateCommitted
  /\ Cleared(rj.target) /\ keyOf[rj.target] # Absent
  /\ keyOf' = [keyOf EXCEPT ![rj.target] = Absent]
  /\ UNCHANGED <<content, saved, copies, records, journals, process, history>>

\* remove_dir_all of the staging folder, file by file in no given order.
RecoverRotateDeleteStaged(b, part) ==
  /\ pc = "recRotate" /\ rj # None /\ ~RotateCommitted
  /\ Cleared(rj.target) /\ keyOf[rj.target] = Absent
  /\ staged[b][part] # Absent
  /\ staged' = [staged EXCEPT ![b][part] = Absent]
  /\ UNCHANGED <<disk, plain, prot, records, journals, process, history>>

RotateUnwound ==
  /\ Cleared(rj.target) /\ keyOf[rj.target] = Absent
  /\ \A b \in Backups : staged[b] = NoPair

RecoverRotateDone ==
  /\ pc = "recRotate"
  /\ IF rj = None THEN UNCHANGED rj ELSE ~RotateCommitted /\ RotateUnwound /\ rj' = None
  /\ AfterRecoverRotate
  /\ UNCHANGED <<disk, copies, records, ej, mj, history>>

RecoverRotateFails ==
  /\ pc = "recRotate" /\ rj # None /\ Fault("journal")
  /\ ~RotateCommitted /\ RotateUnwound
  /\ IF cont = "launch" THEN Goto("blocked") /\ UNCHANGED <<session, cont, job>> ELSE Return
  /\ UNCHANGED <<disk, copies, records, journals, history>>

RecoverRotateStep ==
  \/ RecoverRotateResume \/ RecoverRotateDeleteDb \/ RecoverRotateDeleteKey
  \/ \E b \in Backups, part \in {"db", "key"} :
       \/ RecoverRotateDeleteStaged(b, part)
       \/ InstallRemoveOld(b, part) \/ InstallRename(b, part)
  \/ InstallDone \/ InstallConfig
  \/ RetireOldDb \/ RetireOldKey \/ RetireRotation
  \/ RecoverRotateDone
=============================================================================
