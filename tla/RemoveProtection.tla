-------------------------- MODULE RemoveProtection --------------------------
(***************************************************************************)
(* Turning password protection off (protection_lifecycle.rs): a final      *)
(* encrypted backup, a plaintext export, one atomic profiles.json write,   *)
(* then the encrypted database and its key file are deleted.               *)
(***************************************************************************)
EXTENDS ProfileFiles

\* Mutant: config.json, whose write may fail after the commit, decides.
RemovalCommittedByConfig == registry.listed /\ config = mj.target

RemovalCommitted == registry.listed /\ registry.path = mj.target

-----------------------------------------------------------------------------
RemoveBegin ==
  /\ pc = "idle" /\ session # None
  /\ Opens(content[session], keyOf[session])
  /\ RoomIn("base") /\ Backups \ made # {}
  /\ job' = [NoJob EXCEPT !.src = session]
  /\ cont' = "start" /\ Goto("recRemove")
  /\ UNCHANGED <<disk, copies, records, journals, session, history>>

\* The rollback backup is not optional: its failure ends the change.
RemoveBackup ==
  /\ pc = "rmBackup"
  /\ \E b \in Backups : NewBackup(job.src, b)
  /\ Goto("rmJournal")
  /\ UNCHANGED <<disk, staged, records, journals, session, cont, job, latest, used>>

RemoveWriteJournal ==
  /\ pc = "rmJournal"
  /\ \E n \in 1..MaxFiles :
       /\ LowestFree("base", n)
       /\ mj' = [old |-> job.src, target |-> <<"base", n>>]
       /\ job' = [job EXCEPT !.target = <<"base", n>>]
  /\ Goto("rmExport")
  /\ UNCHANGED <<disk, copies, records, ej, rj, session, cont, history>>

RemoveFailsEarly ==
  /\ pc \in {"rmBackup", "rmJournal"} /\ Fault("precommit")
  /\ Return
  /\ UNCHANGED <<disk, copies, records, journals, history>>

RemoveExport ==
  /\ pc = "rmExport"
  /\ content' = [content EXCEPT ![job.target] = Plaintext]
  /\ saved' = [saved EXCEPT ![job.target] = saved[job.src]]
  /\ Goto("rmCommit")
  /\ UNCHANGED <<keyOf, copies, records, journals, session, cont, job, history>>

RemoveKilledInExport ==
  /\ pc = "rmExport"
  /\ content' = [content EXCEPT ![job.target] = Torn]
  /\ Die
  /\ UNCHANGED <<keyOf, saved, copies, records, journals, history>>

\* A failed export leaves nothing, a failed verification leaves the export;
\* both unwind through recovery.
RemoveFails ==
  /\ pc = "rmExport" /\ Fault("precommit")
  /\ \/ UNCHANGED content
     \/ content' = [content EXCEPT ![job.target] = Plaintext]
  /\ cont' = "unwind" /\ Goto("recRemove")
  /\ UNCHANGED <<keyOf, saved, copies, records, journals, session, job, history>>

\* commit_protection_removal: one atomic write of path and protection.
RemoveCommit ==
  /\ pc = "rmCommit"
  /\ registry' = IF registry.listed
                 THEN [registry EXCEPT !.path = job.target, !.protected = FALSE, !.former = None]
                 ELSE registry
  /\ Goto("rmConfig")
  /\ UNCHANGED <<disk, copies, config, journals, session, cont, job, history>>

RemoveCommitFails ==
  /\ pc = "rmCommit" /\ Fault("registry")
  /\ Return
  /\ UNCHANGED <<disk, copies, records, journals, history>>

\* Best effort: a failure is only logged.
RemoveConfig ==
  /\ pc = "rmConfig"
  /\ config' = job.target \/ (Fault("config") /\ UNCHANGED config)
  /\ Goto("rmSwap")
  /\ UNCHANGED <<disk, copies, registry, journals, session, cont, job, history>>

RemoveSwap ==
  /\ pc = "rmSwap"
  /\ session' = job.target
  /\ DueBackup(job.target)
  /\ cont' = "done" /\ job' = NoJob
  /\ Goto("retireDb")
  /\ UNCHANGED <<disk, staged, records, journals, latest, used>>

RemoveSwapFails ==
  /\ pc = "rmSwap" /\ Fault("open")
  /\ Return
  /\ UNCHANGED <<disk, copies, records, journals, history>>

RemoveStep ==
  \/ RemoveBackup \/ RemoveWriteJournal \/ RemoveExport
  \/ RemoveCommit \/ RemoveConfig \/ RemoveSwap

RemoveFault == RemoveFailsEarly \/ RemoveFails \/ RemoveCommitFails \/ RemoveSwapFails

-----------------------------------------------------------------------------
\* Where the removal journal's resolution returns to.
AfterRecoverRemove ==
  IF cont = "start" THEN Goto("rmBackup") /\ UNCHANGED <<session, cont, job>> ELSE Return

\* retire_committed_removal: the encrypted database and key (errors ignored:
\* the session may still hold the database open), config.json, the journal.
RetireEncryptedDb ==
  /\ pc = "retireDb"
  /\ \/ Deletable(mj.old) /\ content' = [content EXCEPT ![mj.old] = Absent]
     \/ (Fault("move") \/ ~Deletable(mj.old)) /\ UNCHANGED content
  /\ Goto("retireKey")
  /\ UNCHANGED <<keyOf, saved, copies, records, journals, session, cont, job, history>>

RetireEncryptedKey ==
  /\ pc = "retireKey"
  /\ \/ keyOf' = [keyOf EXCEPT ![mj.old] = Absent]
     \/ Fault("move") /\ UNCHANGED keyOf
  /\ Goto("retireConfig")
  /\ UNCHANGED <<content, saved, copies, records, journals, session, cont, job, history>>

RetireConfig ==
  /\ pc = "retireConfig"
  /\ config' = mj.target
  /\ Goto("retireRemoval")
  /\ UNCHANGED <<disk, copies, registry, journals, session, cont, job, history>>

RetireRemoval ==
  /\ pc = "retireRemoval"
  /\ mj' = None
  /\ AfterRecoverRemove
  /\ UNCHANGED <<disk, copies, records, ej, rj, history>>

RetireRemovalFails ==
  /\ \/ pc = "retireConfig" /\ Fault("config")
     \/ pc = "retireRemoval" /\ Fault("journal")
  /\ IF cont = "launch" THEN Goto("blocked") /\ UNCHANGED <<session, cont, job>> ELSE Return
  /\ UNCHANGED <<disk, copies, records, journals, history>>

\* recover_interrupted_removal.
RecoverRemoveResume ==
  /\ pc = "recRemove" /\ mj # None /\ RemovalCommitted
  /\ Goto("retireDb")
  /\ UNCHANGED <<disk, copies, records, journals, session, cont, job, history>>

RecoverRemoveDeleteDb ==
  /\ pc = "recRemove" /\ mj # None /\ ~RemovalCommitted
  /\ ~Cleared(mj.target)
  /\ content' = [content EXCEPT ![mj.target] = Absent]
  /\ UNCHANGED <<keyOf, saved, copies, records, journals, process, history>>

RecoverRemoveDone ==
  /\ pc = "recRemove"
  /\ IF mj = None
     THEN UNCHANGED mj
     ELSE ~RemovalCommitted /\ Cleared(mj.target) /\ mj' = None
  /\ AfterRecoverRemove
  /\ UNCHANGED <<disk, copies, records, ej, rj, history>>

RecoverRemoveFails ==
  /\ pc = "recRemove" /\ mj # None /\ Fault("journal")
  /\ ~RemovalCommitted /\ Cleared(mj.target)
  /\ IF cont = "launch" THEN Goto("blocked") /\ UNCHANGED <<session, cont, job>> ELSE Return
  /\ UNCHANGED <<disk, copies, records, journals, history>>

RecoverRemoveStep ==
  \/ RecoverRemoveResume \/ RecoverRemoveDeleteDb \/ RecoverRemoveDone
  \/ RetireEncryptedDb \/ RetireEncryptedKey \/ RetireConfig \/ RetireRemoval
=============================================================================
