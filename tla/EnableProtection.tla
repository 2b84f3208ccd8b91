-------------------------- MODULE EnableProtection --------------------------
(***************************************************************************)
(* Turning password protection on for the open plaintext profile           *)
(* (protection_transition.rs): export an encrypted copy of the database    *)
(* and of every plaintext backup, then commit by one atomic profiles.json  *)
(* write that repoints the profile and marks it protected.                 *)
(***************************************************************************)
EXTENDS ProfileFiles

\* The registry alone decides whether an enable journal's change committed.
EnableCommitted == registry.listed /\ registry.protected

\* The first backup files a journal still owns on disk.
OwnedOnDisk == {b \in ej.owned : prot[b] # NoPair}

-----------------------------------------------------------------------------
\* enable_protection_with_recovery refuses an encrypted store, and first
\* resolves whatever journal an earlier attempt left.
EnableBegin ==
  /\ pc = "idle" /\ session # None
  /\ content[session] = Plaintext
  /\ Deks \ used # {} /\ RoomIn("protected")
  /\ job' = [NoJob EXCEPT !.src = session]
  /\ cont' = "start" /\ Goto("recEnable")
  /\ UNCHANGED <<disk, copies, records, journals, session, history>>

\* A fresh DEK, the target name, and the journal that names the target.
EnableWriteJournal ==
  /\ pc = "enJournal"
  /\ \E d \in Deks \ used, n \in 1..MaxFiles :
       /\ LowestFree("protected", n)
       /\ used' = used \cup {d}
       /\ ej' = [target |-> <<"protected", n>>, owned |-> {}]
       /\ job' = [job EXCEPT !.target = <<"protected", n>>, !.dek = d]
  /\ Goto("enExport")
  /\ UNCHANGED <<disk, copies, records, rj, mj, session, cont, latest, made>>

\* The journal could not be written: an error before anything exists.
EnableJournalFails ==
  /\ pc = "enJournal" /\ Fault("precommit")
  /\ Return
  /\ UNCHANGED <<disk, copies, records, journals, history>>

\* Export and verify the encrypted copy of the live database.
EnableExport ==
  /\ pc = "enExport"
  /\ content' = [content EXCEPT ![job.target] = job.dek]
  /\ saved' = [saved EXCEPT ![job.target] = saved[job.src]]
  /\ Goto("enKey")
  /\ UNCHANGED <<keyOf, copies, records, journals, session, cont, job, history>>

EnableKilledInExport ==
  /\ pc = "enExport"
  /\ content' = [content EXCEPT ![job.target] = Torn]
  /\ Die
  /\ UNCHANGED <<keyOf, saved, copies, records, journals, history>>

\* The key file, then the listing of backups/ that the conversion loop walks.
EnableWriteKey ==
  /\ pc = "enKey"
  /\ keyOf' = [keyOf EXCEPT ![job.target] = job.dek]
  /\ job' = [job EXCEPT !.todo = plain]
  /\ Goto("enBackups")
  /\ UNCHANGED <<content, saved, copies, records, journals, session, cont, history>>

\* Convert one more backup into backups/protected/ under the same name.  (The
\* code goes newest first; nothing below depends on the order.)
EnableConvert(b) ==
  /\ pc = "enBackups" /\ b \in job.todo
  /\ prot[b].db = Absent
  /\ prot' = [prot EXCEPT ![b].db = job.dek]
  /\ job' = [job EXCEPT !.cur = b]
  /\ Goto("enBackupKey")
  /\ UNCHANGED <<disk, plain, staged, records, journals, session, cont, history>>

EnableKilledInConvert(b) ==
  /\ pc = "enBackups" /\ b \in job.todo
  /\ prot[b].db = Absent
  /\ prot' = [prot EXCEPT ![b].db = Torn]
  /\ Die
  /\ UNCHANGED <<disk, plain, staged, records, journals, history>>

\* export_encrypted_copy never overwrites a file: the whole change fails.
EnableCollides(b) ==
  /\ pc = "enBackups" /\ b \in job.todo
  /\ prot[b].db # Absent
  /\ cont' = "unwind" /\ Goto("recEnable")
  /\ UNCHANGED <<disk, copies, records, journals, session, job, history>>

EnableBackupKey ==
  /\ pc = "enBackupKey"
  /\ prot' = [prot EXCEPT ![job.cur].key = job.dek]
  /\ Goto("enBackupJournal")
  /\ UNCHANGED <<disk, plain, staged, records, journals, session, cont, job, history>>

\* Only now does the journal own the pair.
EnableOwnBackup ==
  /\ pc = "enBackupJournal"
  /\ ej' = [ej EXCEPT !.owned = @ \cup {job.cur}]
  /\ job' = [job EXCEPT !.todo = @ \ {job.cur}, !.cur = None]
  /\ Goto("enBackups")
  /\ UNCHANGED <<disk, copies, records, rj, mj, session, cont, history>>

EnableBackupsDone ==
  /\ pc = "enBackups" /\ job.todo = {}
  /\ Goto("enCommit")
  /\ UNCHANGED <<disk, copies, records, journals, session, cont, job, history>>

\* Any pre-commit error unwinds at once, as startup recovery would.
EnableFails ==
  /\ Fault("precommit")
  /\ pc \in {"enExport", "enKey", "enBackups", "enBackupKey", "enBackupJournal"}
  /\ cont' = "unwind" /\ Goto("recEnable")
  /\ UNCHANGED <<disk, copies, records, journals, session, job, history>>

\* commit_protection_conversion: path and protection in one atomic write; a
\* profile that is no longer listed is left alone.
EnableCommit ==
  /\ pc = "enCommit"
  /\ IF registry.listed
     THEN registry' = [registry EXCEPT !.path = job.target, !.protected = TRUE,
                                       !.former = registry.path]
     ELSE UNCHANGED registry
  /\ Goto("enConfig")
  /\ UNCHANGED <<disk, copies, config, journals, session, cont, job, latest, used, made>>

\* A failed registry write is returned without unwinding: the journal stays.
EnableCommitFails ==
  /\ pc = "enCommit" /\ Fault("registry")
  /\ Return
  /\ UNCHANGED <<disk, copies, records, journals, history>>

EnableWriteConfig ==
  /\ pc = "enConfig"
  /\ config' = job.target
  /\ Goto("enRetire")
  /\ UNCHANGED <<disk, copies, registry, journals, session, cont, job, history>>

EnableRetireJournal ==
  /\ pc = "enRetire"
  /\ ej' = None
  /\ Goto("enSwap")
  /\ UNCHANGED <<disk, copies, records, rj, mj, session, cont, job, history>>

\* After the commit every error is still returned as a failure of the whole
\* change: the caller keeps the session it had.
EnableFailsAfterCommit ==
  /\ \/ pc = "enConfig" /\ Fault("config")
     \/ pc = "enRetire" /\ Fault("journal")
     \/ pc = "enSwap"   /\ Fault("open")
  /\ Return
  /\ UNCHANGED <<disk, copies, records, journals, history>>

\* Mutant: the new database is opened but never made the live one.
EnableNoSwap ==
  /\ pc = "enSwap"
  /\ DueBackup(job.target)
  /\ Goto("idle") /\ job' = NoJob
  /\ UNCHANGED <<session, disk, staged, records, journals, cont, latest, used>>

\* Unlock the new key file, open the new database, activate it.
EnableSwap ==
  /\ pc = "enSwap"
  /\ session' = job.target
  /\ DueBackup(job.target)
  /\ Goto("idle") /\ job' = NoJob
  /\ UNCHANGED <<disk, staged, records, journals, cont, latest, used>>

EnableStep ==
  \/ EnableWriteJournal \/ EnableExport \/ EnableWriteKey
  \/ \E b \in Backups : EnableConvert(b) \/ EnableCollides(b)
  \/ EnableBackupKey \/ EnableOwnBackup \/ EnableBackupsDone
  \/ EnableCommit \/ EnableWriteConfig \/ EnableRetireJournal \/ EnableSwap

EnableFault ==
  \/ EnableJournalFails \/ EnableFails \/ EnableCommitFails \/ EnableFailsAfterCommit

EnableKill == EnableKilledInExport \/ \E b \in Backups : EnableKilledInConvert(b)

-----------------------------------------------------------------------------
\* recover_interrupted_operation, one file operation at a time.  An uncommitted
\* change loses its target database, its key, then each owned pair.
RecoverEnableDeleteDb ==
  /\ pc = "recEnable" /\ ej # None /\ ~EnableCommitted
  /\ ~Cleared(ej.target)
  /\ content' = [content EXCEPT ![ej.target] = Absent]
  /\ UNCHANGED <<keyOf, saved, copies, records, journals, process, history>>

RecoverEnableDeleteKey ==
  /\ pc = "recEnable" /\ ej # None /\ ~EnableCommitted
  /\ Cleared(ej.target) /\ keyOf[ej.target] # Absent
  /\ keyOf' = [keyOf EXCEPT ![ej.target] = Absent]
  /\ UNCHANGED <<content, saved, copies, records, journals, process, history>>

RecoverEnableDeletePair(b) ==
  /\ pc = "recEnable" /\ ej # None /\ ~EnableCommitted
  /\ Cleared(ej.target) /\ keyOf[ej.target] = Absent
  /\ b \in OwnedOnDisk
  /\ prot' = [prot EXCEPT ![b] = IF @.db # Absent THEN [@ EXCEPT !.db = Absent] ELSE NoPair]
  /\ UNCHANGED <<disk, plain, staged, records, journals, process, history>>

\* Where recovery of the enable journal returns to.
AfterRecoverEnable ==
  CASE cont = "launch" -> Goto("recRotate") /\ UNCHANGED <<session, cont, job>>
    [] cont = "start"  -> Goto("enJournal") /\ UNCHANGED <<session, cont, job>>
    [] OTHER           -> Return

RecoverEnableDone ==
  /\ pc = "recEnable"
  /\ IF ej = None
     THEN UNCHANGED ej
     ELSE /\ \/ EnableCommitted
             \/ /\ Cleared(ej.target) /\ keyOf[ej.target] = Absent
                /\ OwnedOnDisk = {}
          /\ ej' = None
  /\ AfterRecoverEnable
  /\ UNCHANGED <<disk, copies, records, rj, mj, history>>

\* The journal itself cannot be deleted: the launch stops on an error page, a
\* change returns the error, an unwinding change ignores it.
RecoverEnableFails ==
  /\ pc = "recEnable" /\ ej # None /\ Fault("journal")
  /\ \/ EnableCommitted
     \/ Cleared(ej.target) /\ keyOf[ej.target] = Absent /\ OwnedOnDisk = {}
  /\ IF cont = "launch" THEN Goto("blocked") /\ UNCHANGED <<session, cont, job>> ELSE Return
  /\ UNCHANGED <<disk, copies, records, journals, history>>

RecoverEnableStep ==
  \/ RecoverEnableDeleteDb \/ RecoverEnableDeleteKey
  \/ \E b \in Backups : RecoverEnableDeletePair(b)
  \/ RecoverEnableDone
=============================================================================
