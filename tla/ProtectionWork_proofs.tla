------------------------ MODULE ProtectionWork_proofs -----------------------
(***************************************************************************)
(* What a change of protection, a kill or a failed write may never cost:   *)
(* an edit, a backup, or a stray encrypted copy left behind.               *)
(*                                                                         *)
(* Three layers over IInv, each inductive given the ones before: WorkInv   *)
(* (where the edits are), JournalsInv (what the journals on disk mean) and *)
(* CopiesInv (where the backups are).  One lemma per conjunct.             *)
(***************************************************************************)
EXTENDS ProtectionLifecycle_proofs, ProtectionWork

\* The first invariant, as a fact about one step.
LEMMA IInvStep == ASSUME IInv, [Next]_vars, ~DeletesOpenFiles PROVE IInv'
BY TypeOKKept, SourceLiveKept, LocalsSetKept, JournalWrittenKept, TargetPreparedKept,
   RotatesProtectedKept, JournalsSafeKept, SessionFileExistsKept, RegisteredFileOpensKept DEF IInv

\* An open session stays on the registered database through every change.
LEMMA SessionCurrentKept ==
  ASSUME IInv, WorkInv, [Next]_vars, SwapsAfterCommit, ~DeletesOpenFiles PROVE SessionCurrent'
<1> USE PathFacts, ConstantsAssumption DEF IInv, WorkInv, SwapsAfterCommit, Goto, Return, Die,
      disk, copies, records, journals, process, history
<1> USE DEF SessionCurrent, SourceLive, LocalsSet, JournalWritten, TargetPrepared, TypeOK,
      Registry, Registered, NoJob, EnablePending, RotatePending, RemovePending, Exported, Keyed,
      Installing, Retiring, Recovering, Rotating, Swapping, EnablePc, RotatePc, RemovePc,
      RecoverPc
<1>1. CASE UNCHANGED vars
  BY <1>1 DEF vars
<1>2. CASE Launch
  BY <1>2 DEF Launch
<1>3. CASE UserStep
  BY <1>3, SMTT(60) DEF
     UserStep, OpenProfile, DueBackup, NewBackup, Opens, CloseProfile, WaitingLock,
     LockMeanwhile, Edit, BackUpNow,
     DeleteLeftovers, DeleteProfile, EnableBegin, RoomIn, RotateBegin, RemoveBegin
<1>4. CASE EnableStep
  <2>1. CASE EnableWriteJournal BY <2>1, EnableJournalWritten DEF EnableJournal
  <2>2. CASE EnableExport BY <2>2 DEF EnableExport
  <2>3. CASE EnableWriteKey BY <2>3 DEF EnableWriteKey
  <2>4. ASSUME NEW b \in Backups, EnableConvert(b) PROVE SessionCurrent'
    BY <2>4 DEF EnableConvert
  <2>5. ASSUME NEW b \in Backups, EnableCollides(b) PROVE SessionCurrent'
    BY <2>5 DEF EnableCollides
  <2>6. CASE EnableBackupKey BY <2>6 DEF EnableBackupKey
  <2>7. CASE EnableOwnBackup BY <2>7 DEF EnableOwnBackup
  <2>8. CASE EnableBackupsDone BY <2>8 DEF EnableBackupsDone
  <2>9. CASE EnableCommit BY <2>9 DEF EnableCommit
  <2>10. CASE EnableWriteConfig BY <2>10 DEF EnableWriteConfig
  <2>11. CASE EnableRetireJournal BY <2>11 DEF EnableRetireJournal
  <2>12. CASE EnableSwap BY <2>12 DEF EnableSwap, DueBackup, NewBackup
  <2> QED
    BY <1>4, <2>1, <2>2, <2>3, <2>4, <2>5, <2>6, <2>7, <2>8, <2>9, <2>10, <2>11, <2>12 DEF
       EnableStep
<1>5. CASE RecoverEnableStep
  BY <1>5, SMTT(60) DEF
     RecoverEnableStep, RecoverEnableDeleteDb, EnableCommitted, OwnedOnDisk, Cleared, Deletable,
     RecoverEnableDeleteKey, RecoverEnableDeletePair, RecoverEnableDone, AfterRecoverEnable
<1>6. CASE RotateStep
  <2>1. CASE RotateWriteJournal BY <2>1, RotateJournalWritten
  <2>2. CASE RotateExport BY <2>2 DEF RotateExport
  <2>3. CASE RotateWriteKey BY <2>3 DEF RotateWriteKey, Listed
  <2>4. ASSUME NEW b \in Backups, RotateStage(b) PROVE SessionCurrent'
    BY <2>4 DEF RotateStage, Opens
  <2>5. ASSUME NEW b \in Backups, RotateBlocked(b) PROVE SessionCurrent'
    BY <2>5 DEF RotateBlocked, Opens
  <2>6. CASE RotateStageKey BY <2>6 DEF RotateStageKey
  <2>7. CASE RotateOwnStaged BY <2>7 DEF RotateOwnStaged
  <2>8. CASE RotateStagingDone BY <2>8 DEF RotateStagingDone
  <2>9. CASE RotateCommit BY <2>9 DEF RotateCommit
  <2>10. CASE RotateSwap BY <2>10 DEF RotateSwap, DueBackup, NewBackup
  <2> QED
    BY <1>6, <2>1, <2>2, <2>3, <2>4, <2>5, <2>6, <2>7, <2>8, <2>9, <2>10 DEF RotateStep
<1>7. CASE RecoverRotateStep
  BY <1>7, SMTT(60) DEF
     RecoverRotateStep, RecoverRotateResume, RotateCommitted, RecoverRotateDeleteDb, Cleared,
     Deletable, RecoverRotateDeleteKey, RecoverRotateDeleteStaged, InstallRemoveOld, Ready,
     InstallRename, InstallDone, InstallConfig, RetireOldDb, RetireOldKey, RetireRotation,
     AfterRecoverRotate, RecoverRotateDone, RotateUnwound
<1>8. CASE RemoveStep
  <2>1. CASE RemoveBackup BY <2>1 DEF RemoveBackup, NewBackup
  <2>2. CASE RemoveWriteJournal BY <2>2, RemoveJournalWritten
  <2>3. CASE RemoveExport BY <2>3 DEF RemoveExport
  <2>4. CASE RemoveCommit BY <2>4 DEF RemoveCommit
  <2>5. CASE RemoveConfig BY <2>5 DEF RemoveConfig, Fault
  <2>6. CASE RemoveSwap BY <2>6 DEF RemoveSwap, DueBackup, NewBackup
  <2> QED
    BY <1>8, <2>1, <2>2, <2>3, <2>4, <2>5, <2>6 DEF RemoveStep
<1>9. CASE RecoverRemoveStep
  BY <1>9, SMTT(60) DEF
     RecoverRemoveStep, RecoverRemoveResume, RemovalCommitted, RecoverRemoveDeleteDb, Cleared,
     Deletable, RecoverRemoveDone, AfterRecoverRemove, RetireEncryptedDb, Fault,
     RetireEncryptedKey, RetireConfig, RetireRemoval
<1>10. CASE Fails
  BY <1>10, SMTT(60) DEF
     Fails, EnableFault, RotateFault, RemoveFault, EnableJournalFails, Fault, EnableFails,
     EnableCommitFails, EnableFailsAfterCommit, RecoverEnableFails, EnableCommitted,
     OwnedOnDisk, Cleared, Deletable, RotateJournalFails, RotateFails, RotateCommitFails,
     RotateSwapFails, InstallFails, RecoverRotateFails, RotateCommitted, RotateUnwound,
     RemoveFailsEarly, RemoveFails, RemoveCommitFails, RemoveSwapFails, RetireRemovalFails,
     RecoverRemoveFails, RemovalCommitted
<1>11. CASE Kill
  BY <1>11, SMTT(60) DEF
     Kill, EnableKill, RotateKill, Crash, EnableKilledInExport, EnableKilledInConvert,
     RotateKilledInExport, RotateKilledInStage, RemoveKilledInExport
<1> QED
  BY <1>1, <1>2, <1>3, <1>4, <1>5, <1>6, <1>7, <1>8, <1>9, <1>10, <1>11 DEF Next, Work

\* The registered database and its exported copy hold every edit.
LEMMA WorkSavedKept ==
  ASSUME IInv, WorkInv, [Next]_vars, SwapsAfterCommit, ~DeletesOpenFiles PROVE WorkSaved'
<1> USE PathFacts, ConstantsAssumption DEF IInv, WorkInv, SwapsAfterCommit, Goto, Return, Die,
      disk, copies, records, journals, process, history
<1> USE DEF WorkSaved, SessionCurrent, LocalsSet, JournalWritten, TargetPrepared, TypeOK,
      Registry, Registered, NoJob, EnablePending, RotatePending, RemovePending, Exported, Keyed,
      Installing, Retiring, Recovering, Rotating, Swapping, EnablePc, RotatePc, RemovePc,
      RecoverPc
<1>1. CASE UNCHANGED vars
  BY <1>1 DEF vars
<1>2. CASE Launch
  BY <1>2 DEF Launch
<1>3. CASE UserStep
  BY <1>3, SMTT(60) DEF
     UserStep, OpenProfile, DueBackup, NewBackup, Opens, CloseProfile, WaitingLock,
     LockMeanwhile, Edit, BackUpNow,
     DeleteLeftovers, DeleteProfile, EnableBegin, RoomIn, RotateBegin, RemoveBegin
<1>4. CASE EnableStep
  <2>1. CASE EnableWriteJournal BY <2>1, EnableJournalWritten
  <2>2. CASE EnableExport BY <2>2 DEF EnableExport
  <2>3. CASE EnableWriteKey BY <2>3 DEF EnableWriteKey
  <2>4. ASSUME NEW b \in Backups, EnableConvert(b) PROVE WorkSaved' BY <2>4 DEF EnableConvert
  <2>5. ASSUME NEW b \in Backups, EnableCollides(b) PROVE WorkSaved' BY <2>5 DEF EnableCollides
  <2>6. CASE EnableBackupKey BY <2>6 DEF EnableBackupKey
  <2>7. CASE EnableOwnBackup BY <2>7 DEF EnableOwnBackup
  <2>8. CASE EnableBackupsDone BY <2>8 DEF EnableBackupsDone
  <2>9. CASE EnableCommit BY <2>9, ZenonT(40) DEF EnableCommit
  <2>10. CASE EnableWriteConfig BY <2>10 DEF EnableWriteConfig
  <2>11. CASE EnableRetireJournal BY <2>11 DEF EnableRetireJournal
  <2>12. CASE EnableSwap BY <2>12 DEF EnableSwap, DueBackup, NewBackup
  <2> QED
    BY <1>4, <2>1, <2>2, <2>3, <2>4, <2>5, <2>6, <2>7, <2>8, <2>9, <2>10, <2>11, <2>12 DEF
       EnableStep
<1>5. CASE RecoverEnableStep
  BY <1>5, SMTT(60) DEF
     RecoverEnableStep, RecoverEnableDeleteDb, EnableCommitted, OwnedOnDisk, Cleared, Deletable,
     RecoverEnableDeleteKey, RecoverEnableDeletePair, RecoverEnableDone, AfterRecoverEnable
<1>6. CASE RotateStep
  <2>1. CASE RotateWriteJournal BY <2>1, RotateJournalWritten
  <2>2. CASE RotateExport BY <2>2 DEF RotateExport
  <2>3. CASE RotateWriteKey BY <2>3 DEF RotateWriteKey, Listed
  <2>4. ASSUME NEW b \in Backups, RotateStage(b) PROVE WorkSaved' BY <2>4 DEF RotateStage, Opens
  <2>5. ASSUME NEW b \in Backups, RotateBlocked(b) PROVE WorkSaved'
    BY <2>5 DEF RotateBlocked, Opens
  <2>6. CASE RotateStageKey BY <2>6 DEF RotateStageKey
  <2>7. CASE RotateOwnStaged BY <2>7 DEF RotateOwnStaged
  <2>8. CASE RotateStagingDone BY <2>8 DEF RotateStagingDone
  <2>9. CASE RotateCommit BY <2>9 DEF RotateCommit
  <2>10. CASE RotateSwap BY <2>10 DEF RotateSwap, DueBackup, NewBackup
  <2> QED
    BY <1>6, <2>1, <2>2, <2>3, <2>4, <2>5, <2>6, <2>7, <2>8, <2>9, <2>10 DEF RotateStep
<1>7. CASE RecoverRotateStep
  BY <1>7, SMTT(60) DEF
     RecoverRotateStep, RecoverRotateResume, RotateCommitted, RecoverRotateDeleteDb, Cleared,
     Deletable, RecoverRotateDeleteKey, RecoverRotateDeleteStaged, InstallRemoveOld, Ready,
     InstallRename, InstallDone, InstallConfig, RetireOldDb, RetireOldKey, RetireRotation,
     AfterRecoverRotate, RecoverRotateDone, RotateUnwound
<1>8. CASE RemoveStep
  <2>1. CASE RemoveBackup BY <2>1 DEF RemoveBackup, NewBackup
  <2>2. CASE RemoveWriteJournal BY <2>2, RemoveJournalWritten
  <2>3. CASE RemoveExport BY <2>3 DEF RemoveExport
  <2>4. CASE RemoveCommit BY <2>4 DEF RemoveCommit
  <2>5. CASE RemoveConfig BY <2>5 DEF RemoveConfig, Fault
  <2>6. CASE RemoveSwap BY <2>6 DEF RemoveSwap, DueBackup, NewBackup
  <2> QED
    BY <1>8, <2>1, <2>2, <2>3, <2>4, <2>5, <2>6 DEF RemoveStep
<1>9. CASE RecoverRemoveStep
  BY <1>9, SMTT(60) DEF
     RecoverRemoveStep, RecoverRemoveResume, RemovalCommitted, RecoverRemoveDeleteDb, Cleared,
     Deletable, RecoverRemoveDone, AfterRecoverRemove, RetireEncryptedDb, Fault,
     RetireEncryptedKey, RetireConfig, RetireRemoval
<1>10. CASE Fails
  BY <1>10, SMTT(60) DEF
     Fails, EnableFault, RotateFault, RemoveFault, EnableJournalFails, Fault, EnableFails,
     EnableCommitFails, EnableFailsAfterCommit, RecoverEnableFails, EnableCommitted,
     OwnedOnDisk, Cleared, Deletable, RotateJournalFails, RotateFails, RotateCommitFails,
     RotateSwapFails, InstallFails, RecoverRotateFails, RotateCommitted, RotateUnwound,
     RemoveFailsEarly, RemoveFails, RemoveCommitFails, RemoveSwapFails, RetireRemovalFails,
     RecoverRemoveFails, RemovalCommitted
<1>11. CASE Kill
  BY <1>11, SMTT(60) DEF
     Kill, EnableKill, RotateKill, Crash, EnableKilledInExport, EnableKilledInConvert,
     RotateKilledInExport, RotateKilledInStage, RemoveKilledInExport
<1> QED
  BY <1>1, <1>2, <1>3, <1>4, <1>5, <1>6, <1>7, <1>8, <1>9, <1>10, <1>11 DEF Next, Work

LEMMA InitWorkInv == ASSUME Init PROVE WorkInv
BY PathFacts DEF Init, WorkInv, SessionCurrent, WorkSaved, Swapping, EnablePending, RotatePending,
   RemovePending, Exported

\* No edit is lost on the way: as long as no error strikes between a commit and
\* the swap, the session follows the registered database, which holds the edits.
THEOREM WorkKept ==
  ASSUME ~DeletesOpenFiles, SwapsAfterCommit PROVE Spec => [](IInv /\ WorkInv)
<1>1. Init => IInv /\ WorkInv
  BY InitIInv, InitWorkInv
<1>2. IInv /\ WorkInv /\ [Next]_vars => (IInv /\ WorkInv)'
  <2> SUFFICES ASSUME IInv, WorkInv, [Next]_vars PROVE (IInv /\ WorkInv)'
    OBVIOUS
  <2>1. IInv'
    BY IInvStep
  <2> QED
    BY <2>1, SessionCurrentKept, WorkSavedKept DEF WorkInv
<1> QED
  BY <1>1, <1>2, PTL DEF Spec

\* The database the profile's entry names holds every edit the user was told is
\* saved, through every change of protection and every kill.
THEOREM WorkNeverLost ==
  ASSUME ~DeletesOpenFiles, SwapsAfterCommit PROVE Spec => []NoLostWork
<1>1. WorkInv => NoLostWork
  BY DEF WorkInv, WorkSaved, NoLostWork
<1> QED
  BY <1>1, WorkKept, PTL

\* Between commands the user works on the registered database, never on the one
\* a change has left behind.
THEOREM SessionFollowsRegistry ==
  ASSUME ~DeletesOpenFiles, SwapsAfterCommit PROVE Spec => []NoSessionLeftBehind
<1>1. WorkInv => NoSessionLeftBehind
  BY DEF WorkInv, SessionCurrent, NoSessionLeftBehind, Swapping
<1> QED
  BY <1>1, WorkKept, PTL

-----------------------------------------------------------------------------
\* The errors before or at a commit, action by action.
EarlyFails ==
  \/ EnableJournalFails \/ EnableFails \/ EnableCommitFails
  \/ RotateJournalFails \/ RotateFails \/ RotateCommitFails
  \/ RemoveFailsEarly \/ RemoveFails \/ RemoveCommitFails

\* No other error happens under the assumption on Faults: in particular the old
\* database a rotation retires is never the one the session has open.
LEMMA OnlyEarlyFails ==
  ASSUME IInv, WorkInv, JournalsInv, EarlyFaultsOnly, ~DeletesOpenFiles, Fails PROVE EarlyFails
<1> USE DEF EarlyFaultsOnly, Fault
<1>1. ~InstallFails
  <2> SUFFICES ASSUME InstallFails PROVE FALSE
    OBVIOUS
  <2>1. pc = "retireOld" /\ session = rj.old /\ rj # None
    BY DEF InstallFails, Deletable, IInv, JournalWritten, Installing
  <2>2. registry.listed
    BY <2>1 DEF JournalsInv, RemovedProfileRests, RecoversAtLaunch
  <2>3. rj.old \in Paths
    BY <2>1 DEF IInv, TypeOK, RotateJournal
  <2>4. session = registry.path
    BY <2>1, <2>2, <2>3, PathFacts DEF WorkInv, SessionCurrent, Swapping
  <2> QED
    BY <2>1, <2>2, <2>4 DEF IInv, JournalsSafe, Installing, Registered
<1> QED
  BY <1>1 DEF EarlyFails, Fails, EnableFault, EnableFailsAfterCommit, RecoverEnableFails, RotateFault,
     RotateSwapFails, RecoverRotateFails, RemoveFault, RemoveSwapFails, RetireRemovalFails,
     RecoverRemoveFails

\* The target a change takes has no file, whatever journals wait.
LEMMA FreshTargets ==
  /\ EnableWriteJournal => content[ej'.target] = Absent /\ ej'.owned = {}
  /\ RotateWriteJournal => content[rj'.target] = Absent /\ rj'.names = {}
  /\ RemoveWriteJournal => content[mj'.target] = Absent
<1>1. ASSUME EnableWriteJournal PROVE content[ej'.target] = Absent /\ ej'.owned = {}
  BY <1>1 DEF EnableWriteJournal, LowestFree
<1>2. ASSUME RotateWriteJournal PROVE content[rj'.target] = Absent /\ rj'.names = {}
  BY <1>2 DEF RotateWriteJournal, LowestFree
<1>3. ASSUME RemoveWriteJournal PROVE content[mj'.target] = Absent
  BY <1>3 DEF RemoveWriteJournal, LowestFree
<1> QED
  BY <1>1, <1>2, <1>3

\* What a commit makes of the profile's entry.
LEMMA CommitsEntry ==
  ASSUME TypeOK
  PROVE  /\ EnableCommit /\ registry.listed =>
              registry'.listed /\ registry'.protected /\ registry'.path = job.target
         /\ RotateCommit => registry'.listed = registry.listed /\ registry'.protected = registry.protected
                              /\ registry'.former = registry.former
                              /\ registry'.path = IF Registered(job.src) THEN job.target ELSE registry.path
         /\ RemoveCommit /\ registry.listed =>
              registry'.listed /\ ~registry'.protected /\ registry'.path = job.target
                /\ registry'.former = None
<1>1. ASSUME EnableCommit, registry.listed
      PROVE registry'.listed /\ registry'.protected /\ registry'.path = job.target
  BY <1>1 DEF EnableCommit, TypeOK, Registry
<1>2. ASSUME RotateCommit
      PROVE registry'.listed = registry.listed /\ registry'.protected = registry.protected
              /\ registry'.former = registry.former
              /\ registry'.path = IF Registered(job.src) THEN job.target ELSE registry.path
  BY <1>2 DEF RotateCommit, Registered, TypeOK, Registry
<1>3. ASSUME RemoveCommit, registry.listed
      PROVE registry'.listed /\ ~registry'.protected /\ registry'.path = job.target
              /\ registry'.former = None
  BY <1>3 DEF RemoveCommit, TypeOK, Registry
<1> QED
  BY <1>1, <1>2, <1>3

\* A profile removed from the list stays at rest, its file unnamed by any journal.
LEMMA RemovedProfileRestsKept ==
  ASSUME IInv, WorkInv, JournalsInv, [Next]_vars, EarlyFaultsOnly, ~DeletesOpenFiles
  PROVE RemovedProfileRests'
<1> USE PathFacts, ConstantsAssumption DEF IInv, WorkInv, JournalsInv, EarlyFaultsOnly, Goto,
      Return, Die, disk, copies, records, journals, process, history
<1> USE DEF RemovedProfileRests, RecoversAtLaunch, CommittedResolving, JournalNames, SourceLive,
      SessionCurrent, SessionFileExists, JournalWritten, LocalsSet, JournalsSafe,
      RegisteredFileOpens, TypeOK, Registry, Registered, NoJob, EnablePending, RotatePending,
      RemovePending, Exported, Keyed, Installing, Retiring, Recovering, Rotating, Swapping,
      EnablePc, RotatePc, RemovePc, RecoverPc
<1>1. CASE UNCHANGED vars
  BY <1>1 DEF vars
<1>2. CASE Launch
  BY <1>2 DEF Launch
<1>3. CASE UserStep
  BY <1>3, SMTT(60) DEF
     UserStep, OpenProfile, DueBackup, NewBackup, Opens, CloseProfile, WaitingLock,
     LockMeanwhile, Edit, BackUpNow,
     DeleteLeftovers, DeleteProfile, EnableBegin, RoomIn, RotateBegin, RemoveBegin
<1>4. CASE EnableStep
  <2>1. CASE EnableWriteJournal BY <2>1, EnableJournalWritten, FreshTargets DEF EnableJournal
  <2>2. CASE EnableExport BY <2>2 DEF EnableExport
  <2>3. CASE EnableWriteKey BY <2>3 DEF EnableWriteKey
  <2>4. ASSUME NEW b \in Backups, EnableConvert(b) PROVE RemovedProfileRests'
    BY <2>4 DEF EnableConvert
  <2>5. ASSUME NEW b \in Backups, EnableCollides(b) PROVE RemovedProfileRests'
    BY <2>5 DEF EnableCollides
  <2>6. CASE EnableBackupKey BY <2>6 DEF EnableBackupKey
  <2>7. CASE EnableOwnBackup BY <2>7 DEF EnableOwnBackup
  <2>8. CASE EnableBackupsDone BY <2>8 DEF EnableBackupsDone
  <2>9. CASE EnableCommit BY <2>9, ZenonT(40) DEF EnableCommit
  <2>10. CASE EnableWriteConfig BY <2>10 DEF EnableWriteConfig
  <2>11. CASE EnableRetireJournal BY <2>11 DEF EnableRetireJournal
  <2>12. CASE EnableSwap BY <2>12 DEF EnableSwap, DueBackup, NewBackup
  <2> QED
    BY <1>4, <2>1, <2>2, <2>3, <2>4, <2>5, <2>6, <2>7, <2>8, <2>9, <2>10, <2>11, <2>12 DEF
       EnableStep
<1>5. CASE RecoverEnableStep
  BY <1>5, SMTT(60) DEF
     RecoverEnableStep, RecoverEnableDeleteDb, EnableCommitted, OwnedOnDisk, Cleared, Deletable,
     RecoverEnableDeleteKey, RecoverEnableDeletePair, RecoverEnableDone, AfterRecoverEnable
<1>6. CASE RotateStep
  <2>1. CASE RotateWriteJournal BY <2>1, RotateJournalWritten, FreshTargets DEF RotateJournal
  <2>2. CASE RotateExport BY <2>2 DEF RotateExport
  <2>3. CASE RotateWriteKey BY <2>3 DEF RotateWriteKey, Listed
  <2>4. ASSUME NEW b \in Backups, RotateStage(b) PROVE RemovedProfileRests'
    BY <2>4 DEF RotateStage, Opens
  <2>5. ASSUME NEW b \in Backups, RotateBlocked(b) PROVE RemovedProfileRests'
    BY <2>5 DEF RotateBlocked, Opens
  <2>6. CASE RotateStageKey BY <2>6 DEF RotateStageKey
  <2>7. CASE RotateOwnStaged BY <2>7 DEF RotateOwnStaged
  <2>8. CASE RotateStagingDone BY <2>8 DEF RotateStagingDone
  <2>9. CASE RotateCommit BY <2>9 DEF RotateCommit
  <2>10. CASE RotateSwap BY <2>10 DEF RotateSwap, DueBackup, NewBackup
  <2> QED
    BY <1>6, <2>1, <2>2, <2>3, <2>4, <2>5, <2>6, <2>7, <2>8, <2>9, <2>10 DEF RotateStep
<1>7. CASE RecoverRotateStep
  BY <1>7, SMTT(60) DEF
     RecoverRotateStep, RecoverRotateResume, RotateCommitted, RecoverRotateDeleteDb, Cleared,
     Deletable, RecoverRotateDeleteKey, RecoverRotateDeleteStaged, InstallRemoveOld, Ready,
     InstallRename, InstallDone, InstallConfig, RetireOldDb, RetireOldKey, RetireRotation,
     AfterRecoverRotate, RecoverRotateDone, RotateUnwound
<1>8. CASE RemoveStep
  <2>1. CASE RemoveBackup BY <2>1 DEF RemoveBackup, NewBackup
  <2>2. CASE RemoveWriteJournal BY <2>2, RemoveJournalWritten, FreshTargets DEF RemovalJournal
  <2>3. CASE RemoveExport BY <2>3 DEF RemoveExport
  <2>4. CASE RemoveCommit BY <2>4 DEF RemoveCommit
  <2>5. CASE RemoveConfig BY <2>5 DEF RemoveConfig, Fault
  <2>6. CASE RemoveSwap BY <2>6 DEF RemoveSwap, DueBackup, NewBackup
  <2> QED
    BY <1>8, <2>1, <2>2, <2>3, <2>4, <2>5, <2>6 DEF RemoveStep
<1>9. CASE RecoverRemoveStep
  BY <1>9, SMTT(60) DEF
     RecoverRemoveStep, RecoverRemoveResume, RemovalCommitted, RecoverRemoveDeleteDb, Cleared,
     Deletable, RecoverRemoveDone, AfterRecoverRemove, RetireEncryptedDb, Fault,
     RetireEncryptedKey, RetireConfig, RetireRemoval
<1>10. CASE EarlyFails
  BY <1>10, SMTT(60) DEF
     EarlyFails, EnableJournalFails, Fault, EnableFails, EnableCommitFails, RotateJournalFails,
     RotateFails, RotateCommitFails, RemoveFailsEarly, RemoveFails, RemoveCommitFails
<1>11. CASE Kill
  BY <1>11, SMTT(60) DEF
     Kill, EnableKill, RotateKill, Crash, EnableKilledInExport, EnableKilledInConvert,
     RotateKilledInExport, RotateKilledInStage, RemoveKilledInExport
<1> QED
  BY <1>1, <1>2, <1>3, <1>4, <1>5, <1>6, <1>7, <1>8, <1>9, <1>10, <1>11, OnlyEarlyFails
     DEF Next, Work

\* Each journal keeps naming a target of its own family, and belongs to the change that runs.
LEMMA JournalNamesKept ==
  ASSUME IInv, WorkInv, JournalsInv, [Next]_vars, EarlyFaultsOnly, ~DeletesOpenFiles
  PROVE JournalNames'
<1> USE PathFacts, ConstantsAssumption DEF IInv, WorkInv, JournalsInv, EarlyFaultsOnly, Goto,
      Return, Die, disk, copies, records, journals, process, history
<1> USE DEF JournalNames, JournalWritten, LocalsSet, SourceLive, TypeOK, NoJob, EnableJournal,
      RotateJournal, RemovalJournal, Job, EnablePending, RotatePending, RemovePending, Exported,
      Keyed, Installing, Retiring, Recovering, Rotating, Swapping, EnablePc, RotatePc, RemovePc,
      RecoverPc
<1>1. CASE UNCHANGED vars
  BY <1>1 DEF vars
<1>2. CASE Launch
  BY <1>2 DEF Launch
<1>3. CASE UserStep
  BY <1>3, SMTT(60) DEF
     UserStep, OpenProfile, DueBackup, NewBackup, Opens, CloseProfile, WaitingLock,
     LockMeanwhile, Edit, BackUpNow,
     DeleteLeftovers, DeleteProfile, EnableBegin, RoomIn, RotateBegin, RemoveBegin
<1>4. CASE EnableStep
  <2>1. CASE EnableWriteJournal BY <2>1, EnableJournalWritten, FreshTargets DEF EnableJournal
  <2>2. CASE EnableExport BY <2>2 DEF EnableExport
  <2>3. CASE EnableWriteKey BY <2>3 DEF EnableWriteKey
  <2>4. ASSUME NEW b \in Backups, EnableConvert(b) PROVE JournalNames' BY <2>4 DEF EnableConvert
  <2>5. ASSUME NEW b \in Backups, EnableCollides(b) PROVE JournalNames'
    BY <2>5 DEF EnableCollides
  <2>6. CASE EnableBackupKey BY <2>6 DEF EnableBackupKey
  <2>7. CASE EnableOwnBackup BY <2>7 DEF EnableOwnBackup
  <2>8. CASE EnableBackupsDone BY <2>8 DEF EnableBackupsDone
  <2>9. CASE EnableCommit BY <2>9 DEF EnableCommit
  <2>10. CASE EnableWriteConfig BY <2>10 DEF EnableWriteConfig
  <2>11. CASE EnableRetireJournal BY <2>11 DEF EnableRetireJournal
  <2>12. CASE EnableSwap BY <2>12 DEF EnableSwap, DueBackup, NewBackup
  <2> QED
    BY <1>4, <2>1, <2>2, <2>3, <2>4, <2>5, <2>6, <2>7, <2>8, <2>9, <2>10, <2>11, <2>12 DEF
       EnableStep
<1>5. CASE RecoverEnableStep
  BY <1>5, SMTT(60) DEF
     RecoverEnableStep, RecoverEnableDeleteDb, EnableCommitted, OwnedOnDisk, Cleared, Deletable,
     RecoverEnableDeleteKey, RecoverEnableDeletePair, RecoverEnableDone, AfterRecoverEnable
<1>6. CASE RotateStep
  <2>1. CASE RotateWriteJournal BY <2>1, RotateJournalWritten, FreshTargets DEF RotateJournal
  <2>2. CASE RotateExport BY <2>2 DEF RotateExport
  <2>3. CASE RotateWriteKey BY <2>3 DEF RotateWriteKey, Listed
  <2>4. ASSUME NEW b \in Backups, RotateStage(b) PROVE JournalNames'
    BY <2>4 DEF RotateStage, Opens
  <2>5. ASSUME NEW b \in Backups, RotateBlocked(b) PROVE JournalNames'
    BY <2>5 DEF RotateBlocked, Opens
  <2>6. CASE RotateStageKey BY <2>6 DEF RotateStageKey
  <2>7. CASE RotateOwnStaged BY <2>7 DEF RotateOwnStaged
  <2>8. CASE RotateStagingDone BY <2>8 DEF RotateStagingDone
  <2>9. CASE RotateCommit BY <2>9 DEF RotateCommit
  <2>10. CASE RotateSwap BY <2>10 DEF RotateSwap, DueBackup, NewBackup
  <2> QED
    BY <1>6, <2>1, <2>2, <2>3, <2>4, <2>5, <2>6, <2>7, <2>8, <2>9, <2>10 DEF RotateStep
<1>7. CASE RecoverRotateStep
  BY <1>7, SMTT(60) DEF
     RecoverRotateStep, RecoverRotateResume, RotateCommitted, RecoverRotateDeleteDb, Cleared,
     Deletable, RecoverRotateDeleteKey, RecoverRotateDeleteStaged, InstallRemoveOld, Ready,
     InstallRename, InstallDone, InstallConfig, RetireOldDb, RetireOldKey, RetireRotation,
     AfterRecoverRotate, RecoverRotateDone, RotateUnwound
<1>8. CASE RemoveStep
  <2>1. CASE RemoveBackup BY <2>1 DEF RemoveBackup, NewBackup
  <2>2. CASE RemoveWriteJournal BY <2>2, RemoveJournalWritten, FreshTargets DEF RemovalJournal
  <2>3. CASE RemoveExport BY <2>3 DEF RemoveExport
  <2>4. CASE RemoveCommit BY <2>4 DEF RemoveCommit
  <2>5. CASE RemoveConfig BY <2>5 DEF RemoveConfig, Fault
  <2>6. CASE RemoveSwap BY <2>6 DEF RemoveSwap, DueBackup, NewBackup
  <2> QED
    BY <1>8, <2>1, <2>2, <2>3, <2>4, <2>5, <2>6 DEF RemoveStep
<1>9. CASE RecoverRemoveStep
  BY <1>9, SMTT(60) DEF
     RecoverRemoveStep, RecoverRemoveResume, RemovalCommitted, RecoverRemoveDeleteDb, Cleared,
     Deletable, RecoverRemoveDone, AfterRecoverRemove, RetireEncryptedDb, Fault,
     RetireEncryptedKey, RetireConfig, RetireRemoval
<1>10. CASE EarlyFails
  BY <1>10, SMTT(60) DEF
     EarlyFails, EnableJournalFails, Fault, EnableFails, EnableCommitFails, RotateJournalFails,
     RotateFails, RotateCommitFails, RemoveFailsEarly, RemoveFails, RemoveCommitFails
<1>11. CASE Kill
  BY <1>11, SMTT(60) DEF
     Kill, EnableKill, RotateKill, Crash, EnableKilledInExport, EnableKilledInConvert,
     RotateKilledInExport, RotateKilledInStage, RemoveKilledInExport
<1> QED
  BY <1>1, <1>2, <1>3, <1>4, <1>5, <1>6, <1>7, <1>8, <1>9, <1>10, <1>11, OnlyEarlyFails
     DEF Next, Work

\* A launch resolves the enable journal, then the rotation journal, then the removal journal.
LEMMA LaunchInOrderKept ==
  ASSUME IInv, WorkInv, JournalsInv, [Next]_vars, EarlyFaultsOnly, ~DeletesOpenFiles
  PROVE LaunchInOrder'
<1> USE PathFacts, ConstantsAssumption DEF IInv, WorkInv, JournalsInv, EarlyFaultsOnly, Goto,
      Return, Die, disk, copies, records, journals, process, history
<1> USE DEF LaunchInOrder, JournalNames, LocalsSet, TypeOK, NoJob, EnablePending, RotatePending,
      RemovePending, Exported, Keyed, Installing, Retiring, Recovering, Rotating, Swapping,
      EnablePc, RotatePc, RemovePc, RecoverPc
<1>1. CASE UNCHANGED vars
  BY <1>1 DEF vars
<1>2. CASE Launch
  BY <1>2 DEF Launch
<1>3. CASE UserStep
  BY <1>3, SMTT(60) DEF
     UserStep, OpenProfile, DueBackup, NewBackup, Opens, CloseProfile, WaitingLock,
     LockMeanwhile, Edit, BackUpNow,
     DeleteLeftovers, DeleteProfile, EnableBegin, RoomIn, RotateBegin, RemoveBegin
<1>4. CASE EnableStep
  <2>1. CASE EnableWriteJournal BY <2>1, EnableJournalWritten, FreshTargets DEF EnableJournal
  <2>2. CASE EnableExport BY <2>2 DEF EnableExport
  <2>3. CASE EnableWriteKey BY <2>3 DEF EnableWriteKey
  <2>4. ASSUME NEW b \in Backups, EnableConvert(b) PROVE LaunchInOrder'
    BY <2>4 DEF EnableConvert
  <2>5. ASSUME NEW b \in Backups, EnableCollides(b) PROVE LaunchInOrder'
    BY <2>5 DEF EnableCollides
  <2>6. CASE EnableBackupKey BY <2>6 DEF EnableBackupKey
  <2>7. CASE EnableOwnBackup BY <2>7 DEF EnableOwnBackup
  <2>8. CASE EnableBackupsDone BY <2>8 DEF EnableBackupsDone
  <2>9. CASE EnableCommit BY <2>9 DEF EnableCommit
  <2>10. CASE EnableWriteConfig BY <2>10 DEF EnableWriteConfig
  <2>11. CASE EnableRetireJournal BY <2>11 DEF EnableRetireJournal
  <2>12. CASE EnableSwap BY <2>12 DEF EnableSwap, DueBackup, NewBackup
  <2> QED
    BY <1>4, <2>1, <2>2, <2>3, <2>4, <2>5, <2>6, <2>7, <2>8, <2>9, <2>10, <2>11, <2>12 DEF
       EnableStep
<1>5. CASE RecoverEnableStep
  BY <1>5, SMTT(60) DEF
     RecoverEnableStep, RecoverEnableDeleteDb, EnableCommitted, OwnedOnDisk, Cleared, Deletable,
     RecoverEnableDeleteKey, RecoverEnableDeletePair, RecoverEnableDone, AfterRecoverEnable
<1>6. CASE RotateStep
  <2>1. CASE RotateWriteJournal BY <2>1, RotateJournalWritten, FreshTargets DEF RotateJournal
  <2>2. CASE RotateExport BY <2>2 DEF RotateExport
  <2>3. CASE RotateWriteKey BY <2>3 DEF RotateWriteKey, Listed
  <2>4. ASSUME NEW b \in Backups, RotateStage(b) PROVE LaunchInOrder'
    BY <2>4 DEF RotateStage, Opens
  <2>5. ASSUME NEW b \in Backups, RotateBlocked(b) PROVE LaunchInOrder'
    BY <2>5 DEF RotateBlocked, Opens
  <2>6. CASE RotateStageKey BY <2>6 DEF RotateStageKey
  <2>7. CASE RotateOwnStaged BY <2>7 DEF RotateOwnStaged
  <2>8. CASE RotateStagingDone BY <2>8 DEF RotateStagingDone
  <2>9. CASE RotateCommit BY <2>9 DEF RotateCommit
  <2>10. CASE RotateSwap BY <2>10 DEF RotateSwap, DueBackup, NewBackup
  <2> QED
    BY <1>6, <2>1, <2>2, <2>3, <2>4, <2>5, <2>6, <2>7, <2>8, <2>9, <2>10 DEF RotateStep
<1>7. CASE RecoverRotateStep
  BY <1>7, SMTT(60) DEF
     RecoverRotateStep, RecoverRotateResume, RotateCommitted, RecoverRotateDeleteDb, Cleared,
     Deletable, RecoverRotateDeleteKey, RecoverRotateDeleteStaged, InstallRemoveOld, Ready,
     InstallRename, InstallDone, InstallConfig, RetireOldDb, RetireOldKey, RetireRotation,
     AfterRecoverRotate, RecoverRotateDone, RotateUnwound
<1>8. CASE RemoveStep
  <2>1. CASE RemoveBackup BY <2>1 DEF RemoveBackup, NewBackup
  <2>2. CASE RemoveWriteJournal BY <2>2, RemoveJournalWritten, FreshTargets DEF RemovalJournal
  <2>3. CASE RemoveExport BY <2>3 DEF RemoveExport
  <2>4. CASE RemoveCommit BY <2>4 DEF RemoveCommit
  <2>5. CASE RemoveConfig BY <2>5 DEF RemoveConfig, Fault
  <2>6. CASE RemoveSwap BY <2>6 DEF RemoveSwap, DueBackup, NewBackup
  <2> QED
    BY <1>8, <2>1, <2>2, <2>3, <2>4, <2>5, <2>6 DEF RemoveStep
<1>9. CASE RecoverRemoveStep
  BY <1>9, SMTT(60) DEF
     RecoverRemoveStep, RecoverRemoveResume, RemovalCommitted, RecoverRemoveDeleteDb, Cleared,
     Deletable, RecoverRemoveDone, AfterRecoverRemove, RetireEncryptedDb, Fault,
     RetireEncryptedKey, RetireConfig, RetireRemoval
<1>10. CASE EarlyFails
  BY <1>10, SMTT(60) DEF
     EarlyFails, EnableJournalFails, Fault, EnableFails, EnableCommitFails, RotateJournalFails,
     RotateFails, RotateCommitFails, RemoveFailsEarly, RemoveFails, RemoveCommitFails
<1>11. CASE Kill
  BY <1>11, SMTT(60) DEF
     Kill, EnableKill, RotateKill, Crash, EnableKilledInExport, EnableKilledInConvert,
     RotateKilledInExport, RotateKilledInStage, RemoveKilledInExport
<1> QED
  BY <1>1, <1>2, <1>3, <1>4, <1>5, <1>6, <1>7, <1>8, <1>9, <1>10, <1>11, OnlyEarlyFails
     DEF Next, Work

\* Enabling works on an unprotected profile throughout.
LEMMA EnablesPlainKept ==
  ASSUME IInv, WorkInv, JournalsInv, [Next]_vars, EarlyFaultsOnly, ~DeletesOpenFiles
  PROVE EnablesPlain'
<1> USE PathFacts, ConstantsAssumption DEF IInv, WorkInv, JournalsInv, EarlyFaultsOnly, Goto,
      Return, Die, disk, copies, records, journals, process, history
<1> USE DEF EnablesPlain, RegisteredFileOpens, SessionCurrent, SourceLive, LocalsSet, TypeOK,
      Registered, NoJob, Registry, EnablePending, RotatePending, RemovePending, Exported, Keyed,
      Installing, Retiring, Recovering, Rotating, Swapping, EnablePc, RotatePc, RemovePc,
      RecoverPc
<1>1. CASE UNCHANGED vars
  BY <1>1 DEF vars
<1>2. CASE Launch
  BY <1>2 DEF Launch
<1>3. CASE UserStep
  BY <1>3, SMTT(60) DEF
     UserStep, OpenProfile, DueBackup, NewBackup, Opens, CloseProfile, WaitingLock,
     LockMeanwhile, Edit, BackUpNow,
     DeleteLeftovers, DeleteProfile, EnableBegin, RoomIn, RotateBegin, RemoveBegin
<1>4. CASE EnableStep
  <2>1. CASE EnableWriteJournal BY <2>1, EnableJournalWritten, FreshTargets DEF EnableJournal
  <2>2. CASE EnableExport BY <2>2 DEF EnableExport
  <2>3. CASE EnableWriteKey BY <2>3 DEF EnableWriteKey
  <2>4. ASSUME NEW b \in Backups, EnableConvert(b) PROVE EnablesPlain' BY <2>4 DEF EnableConvert
  <2>5. ASSUME NEW b \in Backups, EnableCollides(b) PROVE EnablesPlain'
    BY <2>5 DEF EnableCollides
  <2>6. CASE EnableBackupKey BY <2>6 DEF EnableBackupKey
  <2>7. CASE EnableOwnBackup BY <2>7 DEF EnableOwnBackup
  <2>8. CASE EnableBackupsDone BY <2>8 DEF EnableBackupsDone
  <2>9. CASE EnableCommit BY <2>9 DEF EnableCommit
  <2>10. CASE EnableWriteConfig BY <2>10 DEF EnableWriteConfig
  <2>11. CASE EnableRetireJournal BY <2>11 DEF EnableRetireJournal
  <2>12. CASE EnableSwap BY <2>12 DEF EnableSwap, DueBackup, NewBackup
  <2> QED
    BY <1>4, <2>1, <2>2, <2>3, <2>4, <2>5, <2>6, <2>7, <2>8, <2>9, <2>10, <2>11, <2>12 DEF
       EnableStep
<1>5. CASE RecoverEnableStep
  BY <1>5, SMTT(60) DEF
     RecoverEnableStep, RecoverEnableDeleteDb, EnableCommitted, OwnedOnDisk, Cleared, Deletable,
     RecoverEnableDeleteKey, RecoverEnableDeletePair, RecoverEnableDone, AfterRecoverEnable
<1>6. CASE RotateStep
  <2>1. CASE RotateWriteJournal BY <2>1, RotateJournalWritten, FreshTargets DEF RotateJournal
  <2>2. CASE RotateExport BY <2>2 DEF RotateExport
  <2>3. CASE RotateWriteKey BY <2>3 DEF RotateWriteKey, Listed
  <2>4. ASSUME NEW b \in Backups, RotateStage(b) PROVE EnablesPlain'
    BY <2>4 DEF RotateStage, Opens
  <2>5. ASSUME NEW b \in Backups, RotateBlocked(b) PROVE EnablesPlain'
    BY <2>5 DEF RotateBlocked, Opens
  <2>6. CASE RotateStageKey BY <2>6 DEF RotateStageKey
  <2>7. CASE RotateOwnStaged BY <2>7 DEF RotateOwnStaged
  <2>8. CASE RotateStagingDone BY <2>8 DEF RotateStagingDone
  <2>9. CASE RotateCommit BY <2>9 DEF RotateCommit
  <2>10. CASE RotateSwap BY <2>10 DEF RotateSwap, DueBackup, NewBackup
  <2> QED
    BY <1>6, <2>1, <2>2, <2>3, <2>4, <2>5, <2>6, <2>7, <2>8, <2>9, <2>10 DEF RotateStep
<1>7. CASE RecoverRotateStep
  BY <1>7, SMTT(60) DEF
     RecoverRotateStep, RecoverRotateResume, RotateCommitted, RecoverRotateDeleteDb, Cleared,
     Deletable, RecoverRotateDeleteKey, RecoverRotateDeleteStaged, InstallRemoveOld, Ready,
     InstallRename, InstallDone, InstallConfig, RetireOldDb, RetireOldKey, RetireRotation,
     AfterRecoverRotate, RecoverRotateDone, RotateUnwound
<1>8. CASE RemoveStep
  <2>1. CASE RemoveBackup BY <2>1 DEF RemoveBackup, NewBackup
  <2>2. CASE RemoveWriteJournal BY <2>2, RemoveJournalWritten, FreshTargets DEF RemovalJournal
  <2>3. CASE RemoveExport BY <2>3 DEF RemoveExport
  <2>4. CASE RemoveCommit BY <2>4 DEF RemoveCommit
  <2>5. CASE RemoveConfig BY <2>5 DEF RemoveConfig, Fault
  <2>6. CASE RemoveSwap BY <2>6 DEF RemoveSwap, DueBackup, NewBackup
  <2> QED
    BY <1>8, <2>1, <2>2, <2>3, <2>4, <2>5, <2>6 DEF RemoveStep
<1>9. CASE RecoverRemoveStep
  BY <1>9, SMTT(60) DEF
     RecoverRemoveStep, RecoverRemoveResume, RemovalCommitted, RecoverRemoveDeleteDb, Cleared,
     Deletable, RecoverRemoveDone, AfterRecoverRemove, RetireEncryptedDb, Fault,
     RetireEncryptedKey, RetireConfig, RetireRemoval
<1>10. CASE EarlyFails
  BY <1>10, SMTT(60) DEF
     EarlyFails, EnableJournalFails, Fault, EnableFails, EnableCommitFails, RotateJournalFails,
     RotateFails, RotateCommitFails, RemoveFailsEarly, RemoveFails, RemoveCommitFails
<1>11. CASE Kill
  BY <1>11, SMTT(60) DEF
     Kill, EnableKill, RotateKill, Crash, EnableKilledInExport, EnableKilledInConvert,
     RotateKilledInExport, RotateKilledInStage, RemoveKilledInExport
<1> QED
  BY <1>1, <1>2, <1>3, <1>4, <1>5, <1>6, <1>7, <1>8, <1>9, <1>10, <1>11, OnlyEarlyFails
     DEF Next, Work

\* The database a change has just replaced still opens while the session holds it.
LEMMA OldSessionReadsKept ==
  ASSUME IInv, WorkInv, JournalsInv, [Next]_vars, EarlyFaultsOnly, ~DeletesOpenFiles
  PROVE OldSessionReads'
<1> USE PathFacts, ConstantsAssumption DEF IInv, WorkInv, JournalsInv, EarlyFaultsOnly, Goto,
      Return, Die, disk, copies, records, journals, process, history
<1> USE DEF OldSessionReads, RegisteredFileOpens, RemovedProfileRests,
      RecoversAtLaunch, RotatesProtected, Opens, SessionCurrent, SourceLive, LocalsSet, TypeOK,
      Registered, NoJob, Registry, EnablePending, RotatePending, RemovePending, Exported, Keyed,
      Installing, Retiring, Recovering, Rotating, Swapping, EnablePc, RotatePc, RemovePc,
      RecoverPc
<1>1. CASE UNCHANGED vars
  BY <1>1 DEF vars
<1>2. CASE Launch
  BY <1>2 DEF Launch
<1>3. CASE UserStep
  BY <1>3, SMTT(60) DEF
     UserStep, OpenProfile, DueBackup, NewBackup, Opens, CloseProfile, WaitingLock,
     LockMeanwhile, Edit, BackUpNow,
     DeleteLeftovers, DeleteProfile, EnableBegin, RoomIn, RotateBegin, RemoveBegin
<1>4. CASE EnableStep
  <2>1. CASE EnableWriteJournal BY <2>1, EnableJournalWritten, FreshTargets DEF EnableJournal
  <2>2. CASE EnableExport BY <2>2 DEF EnableExport
  <2>3. CASE EnableWriteKey BY <2>3 DEF EnableWriteKey
  <2>4. ASSUME NEW b \in Backups, EnableConvert(b) PROVE OldSessionReads' BY <2>4 DEF EnableConvert
  <2>5. ASSUME NEW b \in Backups, EnableCollides(b) PROVE OldSessionReads'
    BY <2>5 DEF EnableCollides
  <2>6. CASE EnableBackupKey BY <2>6 DEF EnableBackupKey
  <2>7. CASE EnableOwnBackup BY <2>7 DEF EnableOwnBackup
  <2>8. CASE EnableBackupsDone BY <2>8 DEF EnableBackupsDone
  <2>9. CASE EnableCommit BY <2>9 DEF EnableCommit
  <2>10. CASE EnableWriteConfig BY <2>10 DEF EnableWriteConfig
  <2>11. CASE EnableRetireJournal BY <2>11 DEF EnableRetireJournal
  <2>12. CASE EnableSwap BY <2>12 DEF EnableSwap, DueBackup, NewBackup
  <2> QED
    BY <1>4, <2>1, <2>2, <2>3, <2>4, <2>5, <2>6, <2>7, <2>8, <2>9, <2>10, <2>11, <2>12 DEF
       EnableStep
<1>5. CASE RecoverEnableStep
  BY <1>5, SMTT(60) DEF
     RecoverEnableStep, RecoverEnableDeleteDb, EnableCommitted, OwnedOnDisk, Cleared, Deletable,
     RecoverEnableDeleteKey, RecoverEnableDeletePair, RecoverEnableDone, AfterRecoverEnable
<1>6. CASE RotateStep
  <2>1. CASE RotateWriteJournal BY <2>1, RotateJournalWritten, FreshTargets DEF RotateJournal
  <2>2. CASE RotateExport BY <2>2 DEF RotateExport
  <2>3. CASE RotateWriteKey BY <2>3 DEF RotateWriteKey, Listed
  <2>4. ASSUME NEW b \in Backups, RotateStage(b) PROVE OldSessionReads'
    BY <2>4 DEF RotateStage, Opens
  <2>5. ASSUME NEW b \in Backups, RotateBlocked(b) PROVE OldSessionReads'
    BY <2>5 DEF RotateBlocked, Opens
  <2>6. CASE RotateStageKey BY <2>6 DEF RotateStageKey
  <2>7. CASE RotateOwnStaged BY <2>7 DEF RotateOwnStaged
  <2>8. CASE RotateStagingDone BY <2>8 DEF RotateStagingDone
  <2>9. CASE RotateCommit BY <2>9, CommitsEntry DEF RotateCommit
  <2>10. CASE RotateSwap BY <2>10 DEF RotateSwap, DueBackup, NewBackup
  <2> QED
    BY <1>6, <2>1, <2>2, <2>3, <2>4, <2>5, <2>6, <2>7, <2>8, <2>9, <2>10 DEF RotateStep
<1>7. CASE RecoverRotateStep
  BY <1>7, SMTT(60) DEF
     RecoverRotateStep, RecoverRotateResume, RotateCommitted, RecoverRotateDeleteDb, Cleared,
     Deletable, RecoverRotateDeleteKey, RecoverRotateDeleteStaged, InstallRemoveOld, Ready,
     InstallRename, InstallDone, InstallConfig, RetireOldDb, RetireOldKey, RetireRotation,
     AfterRecoverRotate, RecoverRotateDone, RotateUnwound
<1>8. CASE RemoveStep
  <2>1. CASE RemoveBackup BY <2>1 DEF RemoveBackup, NewBackup
  <2>2. CASE RemoveWriteJournal BY <2>2, RemoveJournalWritten, FreshTargets DEF RemovalJournal
  <2>3. CASE RemoveExport BY <2>3 DEF RemoveExport
  <2>4. CASE RemoveCommit BY <2>4, CommitsEntry DEF RemoveCommit
  <2>5. CASE RemoveConfig BY <2>5 DEF RemoveConfig, Fault
  <2>6. CASE RemoveSwap BY <2>6 DEF RemoveSwap, DueBackup, NewBackup
  <2> QED
    BY <1>8, <2>1, <2>2, <2>3, <2>4, <2>5, <2>6 DEF RemoveStep
<1>9. CASE RecoverRemoveStep
  BY <1>9, SMTT(60) DEF
     RecoverRemoveStep, RecoverRemoveResume, RemovalCommitted, RecoverRemoveDeleteDb, Cleared,
     Deletable, RecoverRemoveDone, AfterRecoverRemove, RetireEncryptedDb, Fault,
     RetireEncryptedKey, RetireConfig, RetireRemoval
<1>10. CASE EarlyFails
  BY <1>10, SMTT(60) DEF
     EarlyFails, EnableJournalFails, Fault, EnableFails, EnableCommitFails, RotateJournalFails,
     RotateFails, RotateCommitFails, RemoveFailsEarly, RemoveFails, RemoveCommitFails
<1>11. CASE Kill
  BY <1>11, SMTT(60) DEF
     Kill, EnableKill, RotateKill, Crash, EnableKilledInExport, EnableKilledInConvert,
     RotateKilledInExport, RotateKilledInStage, RemoveKilledInExport
<1> QED
  BY <1>1, <1>2, <1>3, <1>4, <1>5, <1>6, <1>7, <1>8, <1>9, <1>10, <1>11, OnlyEarlyFails
     DEF Next, Work

\* Nothing else runs between a commit and the end of its clean-up.
LEMMA CommittedResolvingKept ==
  ASSUME IInv, WorkInv, JournalsInv, [Next]_vars, EarlyFaultsOnly, ~DeletesOpenFiles
  PROVE CommittedResolving'
<1> USE PathFacts, ConstantsAssumption DEF IInv, WorkInv, JournalsInv, EarlyFaultsOnly, Goto,
      Return, Die, disk, copies, records, journals, process, history
<1> USE DEF CommittedResolving, EnablesPlain, LaunchInOrder, RotatesProtected,
      RemovedProfileRests, RecoversAtLaunch, JournalNames, JournalWritten, JournalsSafe,
      LocalsSet, TargetPrepared, WaitingTargetKept, RotationWaits, SessionCurrent, TypeOK,
      Registry, Registered, NoJob, EnableJournal, RotateJournal, RemovalJournal, EnablePending,
      RotatePending, RemovePending, Exported, Keyed, Installing, Retiring, Recovering, Rotating,
      Swapping, EnablePc, RotatePc, RemovePc, RecoverPc
<1>1. CASE UNCHANGED vars
  BY <1>1 DEF vars
<1>2. CASE Launch
  BY <1>2 DEF Launch
<1>3. CASE UserStep
  BY <1>3, SMTT(60) DEF
     UserStep, OpenProfile, DueBackup, NewBackup, Opens, CloseProfile, WaitingLock,
     LockMeanwhile, Edit, BackUpNow,
     DeleteLeftovers, DeleteProfile, EnableBegin, RoomIn, RotateBegin, RemoveBegin
<1>4. CASE EnableStep
  <2>1. CASE EnableWriteJournal BY <2>1, EnableJournalWritten, FreshTargets DEF EnableJournal
  <2>2. CASE EnableExport BY <2>2 DEF EnableExport
  <2>3. CASE EnableWriteKey BY <2>3 DEF EnableWriteKey
  <2>4. ASSUME NEW b \in Backups, EnableConvert(b) PROVE CommittedResolving'
    BY <2>4 DEF EnableConvert
  <2>5. ASSUME NEW b \in Backups, EnableCollides(b) PROVE CommittedResolving'
    BY <2>5 DEF EnableCollides
  <2>6. CASE EnableBackupKey BY <2>6 DEF EnableBackupKey
  <2>7. CASE EnableOwnBackup BY <2>7 DEF EnableOwnBackup
  <2>8. CASE EnableBackupsDone BY <2>8 DEF EnableBackupsDone
  <2>9. CASE EnableCommit
    <3>1. registry.listed /\ job.target \in ProtectedPaths /\ ej # None /\ ej.target = job.target
      BY <2>9 DEF EnableCommit
    <3>2. registry'.protected /\ registry'.listed /\ registry'.path = job.target
      BY <2>9, <3>1, CommitsEntry
    <3> QED
      BY <2>9, <3>1, <3>2 DEF EnableCommit
  <2>10. CASE EnableWriteConfig BY <2>10 DEF EnableWriteConfig
  <2>11. CASE EnableRetireJournal BY <2>11 DEF EnableRetireJournal
  <2>12. CASE EnableSwap BY <2>12 DEF EnableSwap, DueBackup, NewBackup
  <2> QED
    BY <1>4, <2>1, <2>2, <2>3, <2>4, <2>5, <2>6, <2>7, <2>8, <2>9, <2>10, <2>11, <2>12 DEF
       EnableStep
<1>5. CASE RecoverEnableStep
  BY <1>5, SMTT(60) DEF
     RecoverEnableStep, RecoverEnableDeleteDb, EnableCommitted, OwnedOnDisk, Cleared, Deletable,
     RecoverEnableDeleteKey, RecoverEnableDeletePair, RecoverEnableDone, AfterRecoverEnable
<1>6. CASE RotateStep
  <2>1. CASE RotateWriteJournal BY <2>1, RotateJournalWritten, FreshTargets DEF RotateJournal
  <2>2. CASE RotateExport BY <2>2 DEF RotateExport
  <2>3. CASE RotateWriteKey BY <2>3 DEF RotateWriteKey, Listed
  <2>4. ASSUME NEW b \in Backups, RotateStage(b) PROVE CommittedResolving'
    BY <2>4 DEF RotateStage, Opens
  <2>5. ASSUME NEW b \in Backups, RotateBlocked(b) PROVE CommittedResolving'
    BY <2>5 DEF RotateBlocked, Opens
  <2>6. CASE RotateStageKey BY <2>6 DEF RotateStageKey
  <2>7. CASE RotateOwnStaged BY <2>7 DEF RotateOwnStaged
  <2>8. CASE RotateStagingDone BY <2>8 DEF RotateStagingDone
  <2>9. CASE RotateCommit BY <2>9 DEF RotateCommit
  <2>10. CASE RotateSwap BY <2>10 DEF RotateSwap, DueBackup, NewBackup
  <2> QED
    BY <1>6, <2>1, <2>2, <2>3, <2>4, <2>5, <2>6, <2>7, <2>8, <2>9, <2>10 DEF RotateStep
<1>7. CASE RecoverRotateStep
  BY <1>7, SMTT(60) DEF
     RecoverRotateStep, RecoverRotateResume, RotateCommitted, RecoverRotateDeleteDb, Cleared,
     Deletable, RecoverRotateDeleteKey, RecoverRotateDeleteStaged, InstallRemoveOld, Ready,
     InstallRename, InstallDone, InstallConfig, RetireOldDb, RetireOldKey, RetireRotation,
     AfterRecoverRotate, RecoverRotateDone, RotateUnwound
<1>8. CASE RemoveStep
  <2>1. CASE RemoveBackup BY <2>1 DEF RemoveBackup, NewBackup
  <2>2. CASE RemoveWriteJournal BY <2>2, RemoveJournalWritten, FreshTargets DEF RemovalJournal
  <2>3. CASE RemoveExport BY <2>3 DEF RemoveExport
  <2>4. CASE RemoveCommit BY <2>4 DEF RemoveCommit
  <2>5. CASE RemoveConfig BY <2>5 DEF RemoveConfig, Fault
  <2>6. CASE RemoveSwap BY <2>6 DEF RemoveSwap, DueBackup, NewBackup
  <2> QED
    BY <1>8, <2>1, <2>2, <2>3, <2>4, <2>5, <2>6 DEF RemoveStep
<1>9. CASE RecoverRemoveStep
  BY <1>9, SMTT(60) DEF
     RecoverRemoveStep, RecoverRemoveResume, RemovalCommitted, RecoverRemoveDeleteDb, Cleared,
     Deletable, RecoverRemoveDone, AfterRecoverRemove, RetireEncryptedDb, Fault,
     RetireEncryptedKey, RetireConfig, RetireRemoval
<1>10. CASE EarlyFails
  BY <1>10, SMTT(60) DEF
     EarlyFails, EnableJournalFails, Fault, EnableFails, EnableCommitFails, RotateJournalFails,
     RotateFails, RotateCommitFails, RemoveFailsEarly, RemoveFails, RemoveCommitFails
<1>11. CASE Kill
  BY <1>11, SMTT(60) DEF
     Kill, EnableKill, RotateKill, Crash, EnableKilledInExport, EnableKilledInConvert,
     RotateKilledInExport, RotateKilledInStage, RemoveKilledInExport
<1> QED
  BY <1>1, <1>2, <1>3, <1>4, <1>5, <1>6, <1>7, <1>8, <1>9, <1>10, <1>11, OnlyEarlyFails
     DEF Next, Work

\* The target of a rotation that did not commit stays on disk until the rotation is resolved.
LEMMA WaitingTargetKeptKept ==
  ASSUME IInv, WorkInv, JournalsInv, [Next]_vars, EarlyFaultsOnly, ~DeletesOpenFiles
  PROVE WaitingTargetKept'
<1> USE PathFacts, ConstantsAssumption DEF IInv, WorkInv, JournalsInv, EarlyFaultsOnly, Goto,
      Return, Die, disk, copies, records, journals, process, history
<1> USE DEF WaitingTargetKept, LaunchInOrder, RotatesProtected, RotationWaits,
      RemovedProfileRests, RecoversAtLaunch, CommittedResolving, JournalNames, JournalWritten,
      JournalsSafe, LocalsSet, TargetPrepared, SessionCurrent, SourceLive, RegisteredFileOpens,
      TypeOK, Registry, Registered, NoJob, EnableJournal, RotateJournal, RemovalJournal,
      Content, EnablePending, RotatePending, RemovePending, Exported, Keyed, Installing,
      Retiring, Recovering, Rotating, Swapping, EnablePc, RotatePc, RemovePc, RecoverPc
<1>1. CASE UNCHANGED vars
  BY <1>1 DEF vars
<1>2. CASE Launch
  BY <1>2 DEF Launch
<1>3. CASE UserStep
  BY <1>3, SMTT(60) DEF
     UserStep, OpenProfile, DueBackup, NewBackup, Opens, CloseProfile, WaitingLock,
     LockMeanwhile, Edit, BackUpNow,
     DeleteLeftovers, DeleteProfile, EnableBegin, RoomIn, RotateBegin, RemoveBegin
<1>4. CASE EnableStep
  <2>1. CASE EnableWriteJournal BY <2>1, EnableJournalWritten, FreshTargets DEF EnableJournal
  <2>2. CASE EnableExport BY <2>2 DEF EnableExport
  <2>3. CASE EnableWriteKey BY <2>3 DEF EnableWriteKey
  <2>4. ASSUME NEW b \in Backups, EnableConvert(b) PROVE WaitingTargetKept'
    BY <2>4 DEF EnableConvert
  <2>5. ASSUME NEW b \in Backups, EnableCollides(b) PROVE WaitingTargetKept'
    BY <2>5 DEF EnableCollides
  <2>6. CASE EnableBackupKey BY <2>6 DEF EnableBackupKey
  <2>7. CASE EnableOwnBackup BY <2>7 DEF EnableOwnBackup
  <2>8. CASE EnableBackupsDone BY <2>8 DEF EnableBackupsDone
  <2>9. CASE EnableCommit
    <3>1. registry.listed /\ job.target \in ProtectedPaths /\ ej # None /\ ej.target = job.target
      BY <2>9 DEF EnableCommit
    <3>2. registry'.protected /\ registry'.listed /\ registry'.path = job.target
      BY <2>9, <3>1, CommitsEntry
    <3> QED
      BY <2>9, <3>1, <3>2 DEF EnableCommit
  <2>10. CASE EnableWriteConfig BY <2>10 DEF EnableWriteConfig
  <2>11. CASE EnableRetireJournal BY <2>11 DEF EnableRetireJournal
  <2>12. CASE EnableSwap BY <2>12 DEF EnableSwap, DueBackup, NewBackup
  <2> QED
    BY <1>4, <2>1, <2>2, <2>3, <2>4, <2>5, <2>6, <2>7, <2>8, <2>9, <2>10, <2>11, <2>12 DEF
       EnableStep
<1>5. CASE RecoverEnableStep
  BY <1>5, SMTT(60) DEF
     RecoverEnableStep, RecoverEnableDeleteDb, EnableCommitted, OwnedOnDisk, Cleared, Deletable,
     RecoverEnableDeleteKey, RecoverEnableDeletePair, RecoverEnableDone, AfterRecoverEnable
<1>6. CASE RotateStep
  <2>1. CASE RotateWriteJournal BY <2>1, RotateJournalWritten, FreshTargets DEF RotateJournal
  <2>2. CASE RotateExport BY <2>2 DEF RotateExport
  <2>3. CASE RotateWriteKey BY <2>3 DEF RotateWriteKey, Listed
  <2>4. ASSUME NEW b \in Backups, RotateStage(b) PROVE WaitingTargetKept'
    BY <2>4 DEF RotateStage, Opens
  <2>5. ASSUME NEW b \in Backups, RotateBlocked(b) PROVE WaitingTargetKept'
    BY <2>5 DEF RotateBlocked, Opens
  <2>6. CASE RotateStageKey BY <2>6 DEF RotateStageKey
  <2>7. CASE RotateOwnStaged BY <2>7 DEF RotateOwnStaged
  <2>8. CASE RotateStagingDone BY <2>8 DEF RotateStagingDone
  <2>9. CASE RotateCommit BY <2>9 DEF RotateCommit
  <2>10. CASE RotateSwap BY <2>10 DEF RotateSwap, DueBackup, NewBackup
  <2> QED
    BY <1>6, <2>1, <2>2, <2>3, <2>4, <2>5, <2>6, <2>7, <2>8, <2>9, <2>10 DEF RotateStep
<1>7. CASE RecoverRotateStep
  BY <1>7, SMTT(60) DEF
     RecoverRotateStep, RecoverRotateResume, RotateCommitted, RecoverRotateDeleteDb, Cleared,
     Deletable, RecoverRotateDeleteKey, RecoverRotateDeleteStaged, InstallRemoveOld, Ready,
     InstallRename, InstallDone, InstallConfig, RetireOldDb, RetireOldKey, RetireRotation,
     AfterRecoverRotate, RecoverRotateDone, RotateUnwound
<1>8. CASE RemoveStep
  <2>1. CASE RemoveBackup BY <2>1 DEF RemoveBackup, NewBackup
  <2>2. CASE RemoveWriteJournal BY <2>2, RemoveJournalWritten, FreshTargets DEF RemovalJournal
  <2>3. CASE RemoveExport BY <2>3 DEF RemoveExport
  <2>4. CASE RemoveCommit BY <2>4 DEF RemoveCommit
  <2>5. CASE RemoveConfig BY <2>5 DEF RemoveConfig, Fault
  <2>6. CASE RemoveSwap BY <2>6 DEF RemoveSwap, DueBackup, NewBackup
  <2> QED
    BY <1>8, <2>1, <2>2, <2>3, <2>4, <2>5, <2>6 DEF RemoveStep
<1>9. CASE RecoverRemoveStep
  BY <1>9, SMTT(60) DEF
     RecoverRemoveStep, RecoverRemoveResume, RemovalCommitted, RecoverRemoveDeleteDb, Cleared,
     Deletable, RecoverRemoveDone, AfterRecoverRemove, RetireEncryptedDb, Fault,
     RetireEncryptedKey, RetireConfig, RetireRemoval
<1>10. CASE EarlyFails
  BY <1>10, SMTT(60) DEF
     EarlyFails, EnableJournalFails, Fault, EnableFails, EnableCommitFails, RotateJournalFails,
     RotateFails, RotateCommitFails, RemoveFailsEarly, RemoveFails, RemoveCommitFails
<1>11. CASE Kill
  BY <1>11, SMTT(60) DEF
     Kill, EnableKill, RotateKill, Crash, EnableKilledInExport, EnableKilledInConvert,
     RotateKilledInExport, RotateKilledInStage, RemoveKilledInExport
<1> QED
  BY <1>1, <1>2, <1>3, <1>4, <1>5, <1>6, <1>7, <1>8, <1>9, <1>10, <1>11, OnlyEarlyFails
     DEF Next, Work

\* Every encrypted database stays the live one or named by a journal.
LEMMA AccountedKept ==
  ASSUME IInv, WorkInv, JournalsInv, [Next]_vars, EarlyFaultsOnly, ~DeletesOpenFiles
  PROVE Accounted'
<1> USE PathFacts, ConstantsAssumption DEF IInv, WorkInv, JournalsInv, EarlyFaultsOnly, Goto,
      Return, Die, disk, copies, records, journals, process, history
<1> USE DEF Accounted, RemovedProfileRests, RecoversAtLaunch, CommittedResolving, JournalNames,
      JournalWritten, JournalsSafe, LocalsSet, TargetPrepared, SessionCurrent, SourceLive,
      RegisteredFileOpens, TypeOK, Registry, Registered, NoJob, EnableJournal, RotateJournal,
      RemovalJournal, EnablePending, RotatePending, RemovePending, Exported, Keyed, Installing,
      Retiring, Recovering, Rotating, Swapping, EnablePc, RotatePc, RemovePc, RecoverPc
<1>1. CASE UNCHANGED vars
  BY <1>1 DEF vars
<1>2. CASE Launch
  BY <1>2 DEF Launch
<1>3. CASE UserStep
  BY <1>3, SMTT(60) DEF
     UserStep, OpenProfile, DueBackup, NewBackup, Opens, CloseProfile, WaitingLock,
     LockMeanwhile, Edit, BackUpNow,
     DeleteLeftovers, DeleteProfile, EnableBegin, RoomIn, RotateBegin, RemoveBegin
<1>4. CASE EnableStep
  <2>1. CASE EnableWriteJournal BY <2>1, EnableJournalWritten, FreshTargets DEF EnableJournal
  <2>2. CASE EnableExport BY <2>2 DEF EnableExport
  <2>3. CASE EnableWriteKey BY <2>3 DEF EnableWriteKey
  <2>4. ASSUME NEW b \in Backups, EnableConvert(b) PROVE Accounted' BY <2>4 DEF EnableConvert
  <2>5. ASSUME NEW b \in Backups, EnableCollides(b) PROVE Accounted' BY <2>5 DEF EnableCollides
  <2>6. CASE EnableBackupKey BY <2>6 DEF EnableBackupKey
  <2>7. CASE EnableOwnBackup BY <2>7 DEF EnableOwnBackup
  <2>8. CASE EnableBackupsDone BY <2>8 DEF EnableBackupsDone
  <2>9. CASE EnableCommit BY <2>9 DEF EnableCommit
  <2>10. CASE EnableWriteConfig BY <2>10 DEF EnableWriteConfig
  <2>11. CASE EnableRetireJournal BY <2>11 DEF EnableRetireJournal
  <2>12. CASE EnableSwap BY <2>12 DEF EnableSwap, DueBackup, NewBackup
  <2> QED
    BY <1>4, <2>1, <2>2, <2>3, <2>4, <2>5, <2>6, <2>7, <2>8, <2>9, <2>10, <2>11, <2>12 DEF
       EnableStep
<1>5. CASE RecoverEnableStep
  BY <1>5, SMTT(60) DEF
     RecoverEnableStep, RecoverEnableDeleteDb, EnableCommitted, OwnedOnDisk, Cleared, Deletable,
     RecoverEnableDeleteKey, RecoverEnableDeletePair, RecoverEnableDone, AfterRecoverEnable
<1>6. CASE RotateStep
  <2>1. CASE RotateWriteJournal BY <2>1, RotateJournalWritten, FreshTargets DEF RotateJournal
  <2>2. CASE RotateExport BY <2>2 DEF RotateExport
  <2>3. CASE RotateWriteKey BY <2>3 DEF RotateWriteKey, Listed
  <2>4. ASSUME NEW b \in Backups, RotateStage(b) PROVE Accounted' BY <2>4 DEF RotateStage, Opens
  <2>5. ASSUME NEW b \in Backups, RotateBlocked(b) PROVE Accounted'
    BY <2>5 DEF RotateBlocked, Opens
  <2>6. CASE RotateStageKey BY <2>6 DEF RotateStageKey
  <2>7. CASE RotateOwnStaged BY <2>7 DEF RotateOwnStaged
  <2>8. CASE RotateStagingDone BY <2>8 DEF RotateStagingDone
  <2>9. CASE RotateCommit BY <2>9 DEF RotateCommit
  <2>10. CASE RotateSwap BY <2>10 DEF RotateSwap, DueBackup, NewBackup
  <2> QED
    BY <1>6, <2>1, <2>2, <2>3, <2>4, <2>5, <2>6, <2>7, <2>8, <2>9, <2>10 DEF RotateStep
<1>7. CASE RecoverRotateStep
  BY <1>7, SMTT(60) DEF
     RecoverRotateStep, RecoverRotateResume, RotateCommitted, RecoverRotateDeleteDb, Cleared,
     Deletable, RecoverRotateDeleteKey, RecoverRotateDeleteStaged, InstallRemoveOld, Ready,
     InstallRename, InstallDone, InstallConfig, RetireOldDb, RetireOldKey, RetireRotation,
     AfterRecoverRotate, RecoverRotateDone, RotateUnwound
<1>8. CASE RemoveStep
  <2>1. CASE RemoveBackup BY <2>1 DEF RemoveBackup, NewBackup
  <2>2. CASE RemoveWriteJournal BY <2>2, RemoveJournalWritten, FreshTargets DEF RemovalJournal
  <2>3. CASE RemoveExport BY <2>3 DEF RemoveExport
  <2>4. CASE RemoveCommit BY <2>4 DEF RemoveCommit
  <2>5. CASE RemoveConfig BY <2>5 DEF RemoveConfig, Fault
  <2>6. CASE RemoveSwap BY <2>6 DEF RemoveSwap, DueBackup, NewBackup
  <2> QED
    BY <1>8, <2>1, <2>2, <2>3, <2>4, <2>5, <2>6 DEF RemoveStep
<1>9. CASE RecoverRemoveStep
  BY <1>9, SMTT(60) DEF
     RecoverRemoveStep, RecoverRemoveResume, RemovalCommitted, RecoverRemoveDeleteDb, Cleared,
     Deletable, RecoverRemoveDone, AfterRecoverRemove, RetireEncryptedDb, Fault,
     RetireEncryptedKey, RetireConfig, RetireRemoval
<1>10. CASE EarlyFails
  BY <1>10, SMTT(60) DEF
     EarlyFails, EnableJournalFails, Fault, EnableFails, EnableCommitFails, RotateJournalFails,
     RotateFails, RotateCommitFails, RemoveFailsEarly, RemoveFails, RemoveCommitFails
<1>11. CASE Kill
  BY <1>11, SMTT(60) DEF
     Kill, EnableKill, RotateKill, Crash, EnableKilledInExport, EnableKilledInConvert,
     RotateKilledInExport, RotateKilledInStage, RemoveKilledInExport
<1> QED
  BY <1>1, <1>2, <1>3, <1>4, <1>5, <1>6, <1>7, <1>8, <1>9, <1>10, <1>11, OnlyEarlyFails
     DEF Next, Work

LEMMA InitJournalsInv == ASSUME Init PROVE JournalsInv
<1> USE PathFacts, ConstantsAssumption DEF Init
<1>1. registry.listed /\ registry.path = <<"base", 1>>
  OBVIOUS
<1>2. \A p \in Paths : p # <<"base", 1>> => content[p] = Absent
  OBVIOUS
<1> QED
  BY <1>1, <1>2 DEF JournalsInv, RemovedProfileRests, JournalNames, LaunchInOrder, EnablesPlain,
     OldSessionReads, CommittedResolving, WaitingTargetKept, RotationWaits, Accounted, Rotating, Retiring,
     Installing, EnablePending, EnablePc, RotatePc, RemovePc

\* Every journal left on disk belongs to a change that is still to be finished
\* or undone, and names all that this needs.
THEOREM JournalsAccountForAll ==
  ASSUME ~DeletesOpenFiles, EarlyFaultsOnly PROVE Spec => [](IInv /\ WorkInv /\ JournalsInv)
<1> DEFINE Inv == IInv /\ WorkInv /\ JournalsInv
<1>1. Init => Inv
  BY InitIInv, InitWorkInv, InitJournalsInv
<1>2. Inv /\ [Next]_vars => Inv'
  <2> SUFFICES ASSUME Inv, [Next]_vars PROVE Inv'
    OBVIOUS
  <2>1. SwapsAfterCommit
    BY DEF SwapsAfterCommit, EarlyFaultsOnly
  <2>2. IInv' /\ WorkInv'
    BY <2>1, IInvStep, SessionCurrentKept, WorkSavedKept DEF WorkInv
  <2>3. JournalsInv'
    BY RemovedProfileRestsKept, JournalNamesKept, LaunchInOrderKept, EnablesPlainKept,
       OldSessionReadsKept, CommittedResolvingKept, WaitingTargetKeptKept, AccountedKept DEF JournalsInv
  <2> QED
    BY <2>2, <2>3
<1> QED
  BY <1>1, <1>2, PTL DEF Spec

\* Removing a profile from the list keeps its database: no journal left behind
\* makes a later launch delete it.
THEOREM RemovedProfileKeepsFile ==
  ASSUME ~DeletesOpenFiles, EarlyFaultsOnly PROVE Spec => []DeletedProfileKeepsFile
<1>1. JournalsInv => DeletedProfileKeepsFile
  BY DEF JournalsInv, RemovedProfileRests, DeletedProfileKeepsFile
<1> QED
  BY <1>1, JournalsAccountForAll, PTL

-----------------------------------------------------------------------------
\* A backup that opens appears under a new name: a pair under one key, or, of an
\* unprotected profile, a plaintext copy.
AddsBackup(b) ==
  /\ b \notin made /\ made' = made \cup {b}
  /\ \/ /\ \E k \in Deks : prot' = [prot EXCEPT ![b] = [db |-> k, key |-> k]]
        /\ UNCHANGED plain
     \/ ~registry.protected /\ plain' = plain \cup {b} /\ UNCHANGED prot

BacksUp ==
  \/ OpenProfile \/ CloseProfile \/ WaitingLock \/ BackUpNow
  \/ EnableSwap \/ RotateSwap \/ RemoveSwap \/ RemoveBackup

\* The backup of a database that opens.
Reads(p) ==
  \/ Opens(content[p], keyOf[p])
  \/ content[p] = Plaintext /\ ~registry.protected

LEMMA BackupOfReadable ==
  ASSUME NEW p \in Paths, Reads(p), NEW b \in Backups, NewBackup(p, b) PROVE AddsBackup(b)
BY ConstantsAssumption DEF Reads, NewBackup, AddsBackup, Opens

\* Every backup a command or a lock takes is one of a database that opens: the
\* registered one or, between a commit and the swap, the one it replaces.
LEMMA BackupOfOpen ==
  ASSUME IInv, WorkInv, JournalsInv, BacksUp
  PROVE  /\ registry.listed /\ UNCHANGED <<disk, staged, registry, journals>>
         /\ UNCHANGED <<plain, prot, made>> \/ \E b \in Backups : AddsBackup(b)
<1> USE PathFacts, ConstantsAssumption DEF IInv, WorkInv, JournalsInv
<1> DEFINE taken(p) == UNCHANGED <<plain, prot, made>> \/ \E b \in Backups : NewBackup(p, b)
<1>1. ASSUME NEW p \in Paths, Reads(p), taken(p)
      PROVE UNCHANGED <<plain, prot, made>> \/ \E b \in Backups : AddsBackup(b)
  BY <1>1, BackupOfReadable
<1>2. registry.path \in Paths /\ (registry.listed => Reads(registry.path))
  BY DEF TypeOK, Registry, RegisteredFileOpens, Reads, Opens
<1>3. CASE OpenProfile
  <2>1. registry.listed /\ taken(registry.path) /\ UNCHANGED <<disk, staged, registry, journals>>
    BY <1>3 DEF OpenProfile, DueBackup
  <2> QED
    BY <1>1, <1>2, <2>1
<1>4. CASE CloseProfile \/ BackUpNow
  <2>1. registry.listed
    BY <1>4 DEF CloseProfile, BackUpNow, RemovedProfileRests
  <2>2. session = registry.path
    BY <1>4, <2>1 DEF CloseProfile, BackUpNow, SessionCurrent, Swapping
  <2>3. taken(registry.path) /\ UNCHANGED <<disk, staged, registry, journals>>
    BY <1>4, <2>2 DEF CloseProfile, BackUpNow, DueBackup, records
  <2> QED
    BY <1>1, <1>2, <2>1, <2>3
<1>5. CASE EnableSwap \/ RotateSwap \/ RemoveSwap
  <2>1. Swapping /\ registry.listed
    BY <1>5 DEF EnableSwap, RotateSwap, RemoveSwap, Swapping, RemovedProfileRests, RecoversAtLaunch
  <2>2. job.target = registry.path
    BY <2>1 DEF SessionCurrent
  <2>3. taken(registry.path) /\ UNCHANGED <<disk, staged, registry, journals>>
    BY <1>5, <2>2 DEF EnableSwap, RotateSwap, RemoveSwap, DueBackup, records
  <2> QED
    BY <1>1, <1>2, <2>1, <2>3
<1>6. CASE RemoveBackup
  <2>1. pc = "rmBackup" /\ registry.listed
    BY <1>6 DEF RemoveBackup, RemovedProfileRests, RecoversAtLaunch
  <2>2. job.src = registry.path
    BY <2>1 DEF SourceLive, Recovering, Registered, SessionCurrent, Swapping
  <2>3. taken(registry.path) /\ UNCHANGED <<disk, staged, registry, journals>>
    BY <1>6, <2>2 DEF RemoveBackup, records
  <2> QED
    BY <1>1, <1>2, <2>1, <2>3
<1>7. CASE WaitingLock
  <2>1. session \in Paths /\ LockMeanwhile
    BY <1>7 DEF WaitingLock, TypeOK
  <2>2. registry.listed
    BY <1>7, <2>1 DEF WaitingLock, RemovedProfileRests
  <2>3. Reads(session)
    <3>1. CASE Swapping
      <4>1. pc \notin EnablePc
        BY <2>1 DEF LockMeanwhile, EnablePc
      <4> QED
        BY <2>1, <3>1, <4>1 DEF OldSessionReads, Reads
    <3>2. CASE ~Swapping
      BY <1>2, <2>1, <2>2, <3>2 DEF SessionCurrent
    <3> QED
      BY <3>1, <3>2
  <2>4. taken(session) /\ UNCHANGED <<disk, staged, registry, journals>>
    BY <1>7 DEF WaitingLock, DueBackup, records
  <2> QED
    BY <1>1, <2>1, <2>2, <2>3, <2>4
<1> QED
  BY <1>3, <1>4, <1>5, <1>6, <1>7 DEF BacksUp

\* What that backup changes in the folders of backups.
LEMMA BackupAdds ==
  ASSUME TypeOK, OnlyMade, NEW b \in Backups, AddsBackup(b)
  PROVE  /\ b \notin made /\ made' = made \cup {b} /\ plain \subseteq plain'
         /\ prot[b] = NoPair
         /\ \A x \in Backups : x # b => prot'[x] = prot[x]
         /\ \/ Opens(prot'[b].db, prot'[b].key)
            \/ ~registry.protected /\ b \in plain' /\ prot' = prot
BY DEF TypeOK, OnlyMade, AddsBackup, Opens

\* A pair that a finished rotation moved is in place, both halves under the live key.
LEMMA MovedPairReadable ==
  ASSUME IInv, WorkInv, JournalsInv, CopiesInv, pc \in Installing \ {"move"}, NEW b \in rj.names
  PROVE  /\ b \in Backups /\ staged[b] = NoPair /\ content[registry.path] \in Deks
         /\ prot[b].db = content[registry.path] /\ prot[b].key = content[registry.path]
<1> USE DEF IInv, JournalsInv, CopiesInv
<1>1. registry.listed /\ rj # None
  BY DEF RemovedProfileRests, RecoversAtLaunch, JournalWritten, Installing
<1>2. rj.target = registry.path /\ registry.protected
  BY <1>1 DEF CommittedResolving
<1>3. content[registry.path] \in Deks
  BY <1>1, <1>2 DEF RegisteredFileOpens
<1>4. b \in Backups
  BY <1>1 DEF TypeOK, RotateJournal
<1>5. MovingPair(b) /\ staged[b] = NoPair
  BY <1>1, <1>2 DEF ListedStaged, StagedOwned
<1> QED
  BY <1>3, <1>4, <1>5, ConstantsAssumption DEF MovingPair, NoPair

\* Staged files stay those of the rotation whose journal is on disk.
LEMMA StagedOwnedKept ==
  ASSUME IInv, WorkInv, JournalsInv, CopiesInv, [Next]_vars, EarlyFaultsOnly, ~DeletesOpenFiles
  PROVE StagedOwned'
<1> USE PathFacts, ConstantsAssumption DEF IInv, WorkInv, JournalsInv, CopiesInv,
      EarlyFaultsOnly, Goto, Return, Die, disk, copies, records, journals, process, history
<1> USE DEF StagedOwned, WaitingTargetKept, RotationWaits, CommittedResolving, JournalNames,
      JournalWritten, RemovedProfileRests, RecoversAtLaunch, TargetPrepared, SessionCurrent,
      LocalsSet, TypeOK, Registry, Registered, NoJob, Pair, NoPair, Job, RotateJournal,
      EnablePending, RotatePending, RemovePending, Exported, Keyed, Installing, Retiring,
      Recovering, Rotating, Swapping, EnablePc, RotatePc, RemovePc, RecoverPc
<1>1. CASE UNCHANGED vars
  BY <1>1 DEF vars
<1>2. CASE Launch
  BY <1>2 DEF Launch
<1>3. CASE UserStep
  <2>1. CASE OpenProfile BY <2>1, BackupOfOpen DEF BacksUp, AddsBackup, OpenProfile
  <2>2. CASE CloseProfile \/ WaitingLock
    BY <2>2, BackupOfOpen DEF BacksUp, AddsBackup, CloseProfile, WaitingLock, LockMeanwhile
  <2>3. CASE Edit BY <2>3 DEF Edit
  <2>4. CASE BackUpNow BY <2>4, BackupOfOpen DEF BacksUp, AddsBackup, BackUpNow
  <2>5. CASE DeleteLeftovers BY <2>5 DEF DeleteLeftovers
  <2>6. CASE DeleteProfile BY <2>6 DEF DeleteProfile
  <2>7. CASE EnableBegin BY <2>7 DEF EnableBegin, RoomIn
  <2>8. CASE RotateBegin BY <2>8 DEF RotateBegin, Opens, RoomIn
  <2>9. CASE RemoveBegin BY <2>9 DEF RemoveBegin, Opens, RoomIn
  <2> QED
    BY <1>3, <2>1, <2>2, <2>3, <2>4, <2>5, <2>6, <2>7, <2>8, <2>9 DEF UserStep
<1>4. CASE EnableStep
  <2>1. CASE EnableWriteJournal
    BY <2>1, EnableJournalWritten, FreshTargets DEF EnableJournal, EnableWriteJournal
  <2>2. CASE EnableExport BY <2>2 DEF EnableExport
  <2>3. CASE EnableWriteKey BY <2>3 DEF EnableWriteKey
  <2>4. ASSUME NEW b \in Backups, EnableConvert(b) PROVE StagedOwned' BY <2>4 DEF EnableConvert
  <2>5. ASSUME NEW b \in Backups, EnableCollides(b) PROVE StagedOwned'
    BY <2>5 DEF EnableCollides
  <2>6. CASE EnableBackupKey BY <2>6 DEF EnableBackupKey
  <2>7. CASE EnableOwnBackup BY <2>7 DEF EnableOwnBackup
  <2>8. CASE EnableBackupsDone BY <2>8 DEF EnableBackupsDone
  <2>9. CASE EnableCommit BY <2>9, CommitsEntry DEF EnableCommit
  <2>10. CASE EnableWriteConfig BY <2>10 DEF EnableWriteConfig
  <2>11. CASE EnableRetireJournal BY <2>11 DEF EnableRetireJournal
  <2>12. CASE EnableSwap BY <2>12, BackupOfOpen DEF BacksUp, AddsBackup, EnableSwap
  <2> QED
    BY <1>4, <2>1, <2>2, <2>3, <2>4, <2>5, <2>6, <2>7, <2>8, <2>9, <2>10, <2>11, <2>12 DEF
       EnableStep
<1>5. CASE RecoverEnableStep
  BY <1>5, SMTT(60) DEF
     RecoverEnableStep, RecoverEnableDeleteDb, EnableCommitted, OwnedOnDisk, Cleared, Deletable,
     RecoverEnableDeleteKey, RecoverEnableDeletePair, RecoverEnableDone, AfterRecoverEnable
<1>6. CASE RotateStep
  <2>1. CASE RotateWriteJournal
    BY <2>1, RotateJournalWritten, FreshTargets DEF RotateJournal, RotateWriteJournal
  <2>2. CASE RotateExport BY <2>2 DEF RotateExport
  <2>3. CASE RotateWriteKey BY <2>3 DEF RotateWriteKey, Listed
  <2>4. ASSUME NEW b \in Backups, RotateStage(b) PROVE StagedOwned'
    BY <2>4 DEF RotateStage, Opens
  <2>5. ASSUME NEW b \in Backups, RotateBlocked(b) PROVE StagedOwned'
    BY <2>5 DEF RotateBlocked, Opens
  <2>6. CASE RotateStageKey BY <2>6 DEF RotateStageKey
  <2>7. CASE RotateOwnStaged BY <2>7 DEF RotateOwnStaged
  <2>8. CASE RotateStagingDone BY <2>8 DEF RotateStagingDone
  <2>9. CASE RotateCommit BY <2>9, CommitsEntry DEF RotateCommit
  <2>10. CASE RotateSwap BY <2>10, BackupOfOpen DEF BacksUp, AddsBackup, RotateSwap
  <2> QED
    BY <1>6, <2>1, <2>2, <2>3, <2>4, <2>5, <2>6, <2>7, <2>8, <2>9, <2>10 DEF RotateStep
<1>7. CASE RecoverRotateStep
  BY <1>7, SMTT(60) DEF
     RecoverRotateStep, RecoverRotateResume, RotateCommitted, RecoverRotateDeleteDb, Cleared,
     Deletable, RecoverRotateDeleteKey, RecoverRotateDeleteStaged, InstallRemoveOld, Ready,
     InstallRename, InstallDone, InstallConfig, RetireOldDb, RetireOldKey, RetireRotation,
     AfterRecoverRotate, RecoverRotateDone, RotateUnwound
<1>8. CASE RemoveStep
  <2>1. CASE RemoveBackup BY <2>1, BackupOfOpen DEF BacksUp, AddsBackup, RemoveBackup
  <2>2. CASE RemoveWriteJournal
    BY <2>2, RemoveJournalWritten, FreshTargets DEF RemovalJournal, RemoveWriteJournal
  <2>3. CASE RemoveExport BY <2>3 DEF RemoveExport
  <2>4. CASE RemoveCommit BY <2>4, CommitsEntry DEF RemoveCommit
  <2>5. CASE RemoveConfig BY <2>5 DEF RemoveConfig, Fault
  <2>6. CASE RemoveSwap BY <2>6, BackupOfOpen DEF BacksUp, AddsBackup, RemoveSwap
  <2> QED
    BY <1>8, <2>1, <2>2, <2>3, <2>4, <2>5, <2>6 DEF RemoveStep
<1>9. CASE RecoverRemoveStep
  BY <1>9, SMTT(60) DEF
     RecoverRemoveStep, RecoverRemoveResume, RemovalCommitted, RecoverRemoveDeleteDb, Cleared,
     Deletable, RecoverRemoveDone, AfterRecoverRemove, RetireEncryptedDb, Fault,
     RetireEncryptedKey, RetireConfig, RetireRemoval
<1>10. CASE EarlyFails
  BY <1>10, SMTT(60) DEF
     EarlyFails, EnableJournalFails, Fault, EnableFails, EnableCommitFails, RotateJournalFails,
     RotateFails, RotateCommitFails, RemoveFailsEarly, RemoveFails, RemoveCommitFails
<1>11. CASE Kill
  BY <1>11, SMTT(60) DEF
     Kill, EnableKill, RotateKill, Crash, EnableKilledInExport, EnableKilledInConvert,
     RotateKilledInExport, RotateKilledInStage, RemoveKilledInExport
<1> QED
  BY <1>1, <1>2, <1>3, <1>4, <1>5, <1>6, <1>7, <1>8, <1>9, <1>10, <1>11, OnlyEarlyFails
     DEF Next, Work

\* Only backups that were made get anywhere.
LEMMA OnlyMadeKept ==
  ASSUME IInv, WorkInv, JournalsInv, CopiesInv, [Next]_vars, EarlyFaultsOnly, ~DeletesOpenFiles
  PROVE OnlyMade'
<1> USE PathFacts, ConstantsAssumption DEF IInv, WorkInv, JournalsInv, CopiesInv,
      EarlyFaultsOnly, Goto, Return, Die, disk, copies, records, journals, process, history
<1> USE DEF OnlyMade, StagedOwned, JournalWritten, LocalsSet, Listed, PlainConverted, TypeOK,
      Registry, Registered, NoJob, Pair, NoPair, Job, RotateJournal, EnablePending,
      RotatePending, RemovePending, Exported, Keyed, Installing, Retiring, Recovering, Rotating,
      Swapping, EnablePc, RotatePc, RemovePc, RecoverPc
<1>1. CASE UNCHANGED vars
  BY <1>1 DEF vars
<1>2. CASE Launch
  BY <1>2 DEF Launch
<1>3. CASE UserStep
  <2>1. CASE OpenProfile BY <2>1, BackupOfOpen DEF BacksUp, AddsBackup, OpenProfile
  <2>2. CASE CloseProfile \/ WaitingLock
    BY <2>2, BackupOfOpen DEF BacksUp, AddsBackup, CloseProfile, WaitingLock, LockMeanwhile
  <2>3. CASE Edit BY <2>3 DEF Edit
  <2>4. CASE BackUpNow BY <2>4, BackupOfOpen DEF BacksUp, AddsBackup, BackUpNow
  <2>5. CASE DeleteLeftovers BY <2>5 DEF DeleteLeftovers
  <2>6. CASE DeleteProfile BY <2>6 DEF DeleteProfile
  <2>7. CASE EnableBegin BY <2>7 DEF EnableBegin, RoomIn
  <2>8. CASE RotateBegin BY <2>8 DEF RotateBegin, Opens, RoomIn
  <2>9. CASE RemoveBegin BY <2>9 DEF RemoveBegin, Opens, RoomIn
  <2> QED
    BY <1>3, <2>1, <2>2, <2>3, <2>4, <2>5, <2>6, <2>7, <2>8, <2>9 DEF UserStep
<1>4. CASE EnableStep
  <2>1. CASE EnableWriteJournal
    BY <2>1, EnableJournalWritten, FreshTargets, ZenonT(40) DEF EnableJournal, EnableWriteJournal
  <2>2. CASE EnableExport BY <2>2 DEF EnableExport
  <2>3. CASE EnableWriteKey BY <2>3 DEF EnableWriteKey
  <2>4. ASSUME NEW b \in Backups, EnableConvert(b) PROVE OnlyMade' BY <2>4 DEF EnableConvert
  <2>5. ASSUME NEW b \in Backups, EnableCollides(b) PROVE OnlyMade' BY <2>5 DEF EnableCollides
  <2>6. CASE EnableBackupKey BY <2>6 DEF EnableBackupKey
  <2>7. CASE EnableOwnBackup BY <2>7 DEF EnableOwnBackup
  <2>8. CASE EnableBackupsDone BY <2>8 DEF EnableBackupsDone
  <2>9. CASE EnableCommit BY <2>9, CommitsEntry DEF EnableCommit
  <2>10. CASE EnableWriteConfig BY <2>10 DEF EnableWriteConfig
  <2>11. CASE EnableRetireJournal BY <2>11 DEF EnableRetireJournal
  <2>12. CASE EnableSwap BY <2>12, BackupOfOpen DEF BacksUp, AddsBackup, EnableSwap
  <2> QED
    BY <1>4, <2>1, <2>2, <2>3, <2>4, <2>5, <2>6, <2>7, <2>8, <2>9, <2>10, <2>11, <2>12 DEF
       EnableStep
<1>5. CASE RecoverEnableStep
  BY <1>5, SMTT(60) DEF
     RecoverEnableStep, RecoverEnableDeleteDb, EnableCommitted, OwnedOnDisk, Cleared, Deletable,
     RecoverEnableDeleteKey, RecoverEnableDeletePair, RecoverEnableDone, AfterRecoverEnable
<1>6. CASE RotateStep
  <2>1. CASE RotateWriteJournal
    BY <2>1, RotateJournalWritten, FreshTargets, ZenonT(40) DEF RotateJournal, RotateWriteJournal
  <2>2. CASE RotateExport BY <2>2 DEF RotateExport
  <2>3. CASE RotateWriteKey BY <2>3 DEF RotateWriteKey, Listed
  <2>4. ASSUME NEW b \in Backups, RotateStage(b) PROVE OnlyMade' BY <2>4 DEF RotateStage, Opens
  <2>5. ASSUME NEW b \in Backups, RotateBlocked(b) PROVE OnlyMade'
    BY <2>5 DEF RotateBlocked, Opens
  <2>6. CASE RotateStageKey BY <2>6 DEF RotateStageKey
  <2>7. CASE RotateOwnStaged BY <2>7 DEF RotateOwnStaged
  <2>8. CASE RotateStagingDone BY <2>8 DEF RotateStagingDone
  <2>9. CASE RotateCommit BY <2>9, CommitsEntry DEF RotateCommit
  <2>10. CASE RotateSwap BY <2>10, BackupOfOpen DEF BacksUp, AddsBackup, RotateSwap
  <2> QED
    BY <1>6, <2>1, <2>2, <2>3, <2>4, <2>5, <2>6, <2>7, <2>8, <2>9, <2>10 DEF RotateStep
<1>7. CASE RecoverRotateStep
  BY <1>7, SMTT(60) DEF
     RecoverRotateStep, RecoverRotateResume, RotateCommitted, RecoverRotateDeleteDb, Cleared,
     Deletable, RecoverRotateDeleteKey, RecoverRotateDeleteStaged, InstallRemoveOld, Ready,
     InstallRename, InstallDone, InstallConfig, RetireOldDb, RetireOldKey, RetireRotation,
     AfterRecoverRotate, RecoverRotateDone, RotateUnwound
<1>8. CASE RemoveStep
  <2>1. CASE RemoveBackup BY <2>1, BackupOfOpen DEF BacksUp, AddsBackup, RemoveBackup
  <2>2. CASE RemoveWriteJournal
    BY <2>2, RemoveJournalWritten, FreshTargets, ZenonT(40) DEF RemovalJournal, RemoveWriteJournal
  <2>3. CASE RemoveExport BY <2>3 DEF RemoveExport
  <2>4. CASE RemoveCommit BY <2>4, CommitsEntry DEF RemoveCommit
  <2>5. CASE RemoveConfig BY <2>5 DEF RemoveConfig, Fault
  <2>6. CASE RemoveSwap BY <2>6, BackupOfOpen DEF BacksUp, AddsBackup, RemoveSwap
  <2> QED
    BY <1>8, <2>1, <2>2, <2>3, <2>4, <2>5, <2>6 DEF RemoveStep
<1>9. CASE RecoverRemoveStep
  BY <1>9, SMTT(60) DEF
     RecoverRemoveStep, RecoverRemoveResume, RemovalCommitted, RecoverRemoveDeleteDb, Cleared,
     Deletable, RecoverRemoveDone, AfterRecoverRemove, RetireEncryptedDb, Fault,
     RetireEncryptedKey, RetireConfig, RetireRemoval
<1>10. CASE EarlyFails
  BY <1>10, SMTT(60) DEF
     EarlyFails, EnableJournalFails, Fault, EnableFails, EnableCommitFails, RotateJournalFails,
     RotateFails, RotateCommitFails, RemoveFailsEarly, RemoveFails, RemoveCommitFails
<1>11. CASE Kill
  BY <1>11, SMTT(60) DEF
     Kill, EnableKill, RotateKill, Crash, EnableKilledInExport, EnableKilledInConvert,
     RotateKilledInExport, RotateKilledInStage, RemoveKilledInExport
<1> QED
  BY <1>1, <1>2, <1>3, <1>4, <1>5, <1>6, <1>7, <1>8, <1>9, <1>10, <1>11, OnlyEarlyFails
     DEF Next, Work

\* Enabling converts every plaintext backup before it commits.
LEMMA PlainConvertedKept ==
  ASSUME IInv, WorkInv, JournalsInv, CopiesInv, [Next]_vars, EarlyFaultsOnly, ~DeletesOpenFiles
  PROVE PlainConverted'
<1> USE PathFacts, ConstantsAssumption DEF IInv, WorkInv, JournalsInv, CopiesInv,
      EarlyFaultsOnly, Goto, Return, Die, disk, copies, records, journals, process, history
<1> USE DEF PlainConverted, OnlyMade, Opens, RemovedProfileRests, RecoversAtLaunch,
      EnablesPlain, JournalWritten, LocalsSet, TypeOK, Registry, Registered, NoJob, Pair,
      NoPair, Job, RotateJournal, EnablePending, RotatePending, RemovePending, Exported, Keyed,
      Installing, Retiring, Recovering, Rotating, Swapping, EnablePc, RotatePc, RemovePc,
      RecoverPc
<1>1. CASE UNCHANGED vars
  BY <1>1 DEF vars
<1>2. CASE Launch
  BY <1>2 DEF Launch
<1>3. CASE UserStep
  <2>1. CASE OpenProfile BY <2>1, BackupOfOpen DEF BacksUp, AddsBackup, OpenProfile
  <2>2. CASE CloseProfile \/ WaitingLock
    BY <2>2, BackupOfOpen DEF BacksUp, AddsBackup, CloseProfile, WaitingLock, LockMeanwhile
  <2>3. CASE Edit BY <2>3 DEF Edit
  <2>4. CASE BackUpNow BY <2>4, BackupOfOpen DEF BacksUp, AddsBackup, BackUpNow
  <2>5. CASE DeleteLeftovers BY <2>5 DEF DeleteLeftovers
  <2>6. CASE DeleteProfile BY <2>6 DEF DeleteProfile
  <2>7. CASE EnableBegin BY <2>7 DEF EnableBegin, RoomIn
  <2>8. CASE RotateBegin BY <2>8 DEF RotateBegin, Opens, RoomIn
  <2>9. CASE RemoveBegin BY <2>9 DEF RemoveBegin, Opens, RoomIn
  <2> QED
    BY <1>3, <2>1, <2>2, <2>3, <2>4, <2>5, <2>6, <2>7, <2>8, <2>9 DEF UserStep
<1>4. CASE EnableStep
  <2>1. CASE EnableWriteJournal
    BY <2>1, EnableJournalWritten, FreshTargets DEF EnableJournal, EnableWriteJournal
  <2>2. CASE EnableExport BY <2>2 DEF EnableExport
  <2>3. CASE EnableWriteKey BY <2>3 DEF EnableWriteKey
  <2>4. ASSUME NEW b \in Backups, EnableConvert(b) PROVE PlainConverted'
    BY <2>4 DEF EnableConvert
  <2>5. ASSUME NEW b \in Backups, EnableCollides(b) PROVE PlainConverted'
    BY <2>5 DEF EnableCollides
  <2>6. CASE EnableBackupKey BY <2>6 DEF EnableBackupKey
  <2>7. CASE EnableOwnBackup BY <2>7 DEF EnableOwnBackup
  <2>8. CASE EnableBackupsDone BY <2>8 DEF EnableBackupsDone
  <2>9. CASE EnableCommit BY <2>9, CommitsEntry DEF EnableCommit
  <2>10. CASE EnableWriteConfig BY <2>10 DEF EnableWriteConfig
  <2>11. CASE EnableRetireJournal BY <2>11 DEF EnableRetireJournal
  <2>12. CASE EnableSwap BY <2>12, BackupOfOpen DEF BacksUp, AddsBackup, EnableSwap
  <2> QED
    BY <1>4, <2>1, <2>2, <2>3, <2>4, <2>5, <2>6, <2>7, <2>8, <2>9, <2>10, <2>11, <2>12 DEF
       EnableStep
<1>5. CASE RecoverEnableStep
  BY <1>5, SMTT(60) DEF
     RecoverEnableStep, RecoverEnableDeleteDb, EnableCommitted, OwnedOnDisk, Cleared, Deletable,
     RecoverEnableDeleteKey, RecoverEnableDeletePair, RecoverEnableDone, AfterRecoverEnable
<1>6. CASE RotateStep
  <2>1. CASE RotateWriteJournal
    BY <2>1, RotateJournalWritten, FreshTargets DEF RotateJournal, RotateWriteJournal
  <2>2. CASE RotateExport BY <2>2 DEF RotateExport
  <2>3. CASE RotateWriteKey BY <2>3 DEF RotateWriteKey, Listed
  <2>4. ASSUME NEW b \in Backups, RotateStage(b) PROVE PlainConverted'
    BY <2>4 DEF RotateStage, Opens
  <2>5. ASSUME NEW b \in Backups, RotateBlocked(b) PROVE PlainConverted'
    BY <2>5 DEF RotateBlocked, Opens
  <2>6. CASE RotateStageKey BY <2>6 DEF RotateStageKey
  <2>7. CASE RotateOwnStaged BY <2>7 DEF RotateOwnStaged
  <2>8. CASE RotateStagingDone BY <2>8 DEF RotateStagingDone
  <2>9. CASE RotateCommit BY <2>9, CommitsEntry DEF RotateCommit
  <2>10. CASE RotateSwap BY <2>10, BackupOfOpen DEF BacksUp, AddsBackup, RotateSwap
  <2> QED
    BY <1>6, <2>1, <2>2, <2>3, <2>4, <2>5, <2>6, <2>7, <2>8, <2>9, <2>10 DEF RotateStep
<1>7. CASE RecoverRotateStep
  BY <1>7, SMTT(60) DEF
     RecoverRotateStep, RecoverRotateResume, RotateCommitted, RecoverRotateDeleteDb, Cleared,
     Deletable, RecoverRotateDeleteKey, RecoverRotateDeleteStaged, InstallRemoveOld, Ready,
     InstallRename, InstallDone, InstallConfig, RetireOldDb, RetireOldKey, RetireRotation,
     AfterRecoverRotate, RecoverRotateDone, RotateUnwound
<1>8. CASE RemoveStep
  <2>1. CASE RemoveBackup BY <2>1, BackupOfOpen DEF BacksUp, AddsBackup, RemoveBackup
  <2>2. CASE RemoveWriteJournal
    BY <2>2, RemoveJournalWritten, FreshTargets DEF RemovalJournal, RemoveWriteJournal
  <2>3. CASE RemoveExport BY <2>3 DEF RemoveExport
  <2>4. CASE RemoveCommit BY <2>4, CommitsEntry DEF RemoveCommit
  <2>5. CASE RemoveConfig BY <2>5 DEF RemoveConfig, Fault
  <2>6. CASE RemoveSwap BY <2>6, BackupOfOpen DEF BacksUp, AddsBackup, RemoveSwap
  <2> QED
    BY <1>8, <2>1, <2>2, <2>3, <2>4, <2>5, <2>6 DEF RemoveStep
<1>9. CASE RecoverRemoveStep
  BY <1>9, SMTT(60) DEF
     RecoverRemoveStep, RecoverRemoveResume, RemovalCommitted, RecoverRemoveDeleteDb, Cleared,
     Deletable, RecoverRemoveDone, AfterRecoverRemove, RetireEncryptedDb, Fault,
     RetireEncryptedKey, RetireConfig, RetireRemoval
<1>10. CASE EarlyFails
  BY <1>10, SMTT(60) DEF
     EarlyFails, EnableJournalFails, Fault, EnableFails, EnableCommitFails, RotateJournalFails,
     RotateFails, RotateCommitFails, RemoveFailsEarly, RemoveFails, RemoveCommitFails
<1>11. CASE Kill
  BY <1>11, SMTT(60) DEF
     Kill, EnableKill, RotateKill, Crash, EnableKilledInExport, EnableKilledInConvert,
     RotateKilledInExport, RotateKilledInStage, RemoveKilledInExport
<1> QED
  BY <1>1, <1>2, <1>3, <1>4, <1>5, <1>6, <1>7, <1>8, <1>9, <1>10, <1>11, OnlyEarlyFails
     DEF Next, Work

\* A rotation stages every listed backup, and installs every one it staged.
LEMMA ListedStagedKept ==
  ASSUME IInv, WorkInv, JournalsInv, CopiesInv, [Next]_vars, EarlyFaultsOnly, ~DeletesOpenFiles
  PROVE ListedStaged'
<1> USE PathFacts, ConstantsAssumption DEF IInv, WorkInv, JournalsInv, CopiesInv,
      EarlyFaultsOnly, Goto, Return, Die, disk, copies, records, journals, process, history
<1>a. ASSUME BacksUp PROVE ListedStaged'
  <2>1. /\ UNCHANGED <<registry, rj, staged, content>>
        /\ UNCHANGED <<plain, prot, made>> \/ \E b \in Backups : AddsBackup(b)
    BY <1>a, BackupOfOpen
  <2>2. pc' \notin {"roStage", "roStageKey", "roStageJournal", "roCommit"}
    BY <1>a DEF BacksUp, OpenProfile, CloseProfile, WaitingLock, LockMeanwhile, BackUpNow,
       EnableSwap, RotateSwap, RemoveSwap, RemoveBackup
  <2>3. ASSUME registry.listed, rj # None, rj.target = registry.path, NEW x \in rj.names
        PROVE  MovingPair(x)'
    <3>1. x \in made /\ x \in Backups /\ MovingPair(x)
      BY <2>3 DEF OnlyMade, ListedStaged, TypeOK, RotateJournal
    <3>2. prot'[x] = prot[x]
      BY <2>1, <3>1, BackupAdds
    <3> QED
      BY <2>1, <3>1, <3>2 DEF MovingPair
  <2> QED
    BY <2>1, <2>2, <2>3 DEF ListedStaged
<1> USE DEF ListedStaged, MovingPair, Listed, StagedOwned, OnlyMade, Opens, WaitingTargetKept,
      RotationWaits, CommittedResolving, JournalNames, JournalWritten, RemovedProfileRests,
      RecoversAtLaunch, TargetPrepared, SessionCurrent, LocalsSet, JournalsSafe,
      RegisteredFileOpens, RotatesProtected, TypeOK, Registry, Registered, NoJob, Pair, NoPair,
      Job, RotateJournal, EnablePending, RotatePending, RemovePending, Exported, Keyed,
      Installing, Retiring, Recovering, Rotating, Swapping, EnablePc, RotatePc, RemovePc,
      RecoverPc
<1>1. CASE UNCHANGED vars
  BY <1>1 DEF vars
<1>2. CASE Launch
  BY <1>2 DEF Launch
<1>3. CASE UserStep
  <2>1. CASE OpenProfile BY <2>1, <1>a DEF BacksUp
  <2>2. CASE CloseProfile \/ WaitingLock BY <2>2, <1>a DEF BacksUp
  <2>3. CASE Edit BY <2>3 DEF Edit
  <2>4. CASE BackUpNow BY <2>4, <1>a DEF BacksUp
  <2>5. CASE DeleteLeftovers BY <2>5 DEF DeleteLeftovers
  <2>6. CASE DeleteProfile BY <2>6 DEF DeleteProfile
  <2>7. CASE EnableBegin BY <2>7 DEF EnableBegin, RoomIn
  <2>8. CASE RotateBegin BY <2>8 DEF RotateBegin, Opens, RoomIn
  <2>9. CASE RemoveBegin BY <2>9 DEF RemoveBegin, Opens, RoomIn
  <2> QED
    BY <1>3, <2>1, <2>2, <2>3, <2>4, <2>5, <2>6, <2>7, <2>8, <2>9 DEF UserStep
<1>4. CASE EnableStep
  <2>1. CASE EnableWriteJournal
    BY <2>1, EnableJournalWritten, FreshTargets DEF EnableJournal, EnableWriteJournal
  <2>2. CASE EnableExport BY <2>2 DEF EnableExport
  <2>3. CASE EnableWriteKey BY <2>3 DEF EnableWriteKey
  <2>4. ASSUME NEW b \in Backups, EnableConvert(b) PROVE ListedStaged' BY <2>4 DEF EnableConvert
  <2>5. ASSUME NEW b \in Backups, EnableCollides(b) PROVE ListedStaged'
    BY <2>5 DEF EnableCollides
  <2>6. CASE EnableBackupKey BY <2>6 DEF EnableBackupKey
  <2>7. CASE EnableOwnBackup BY <2>7 DEF EnableOwnBackup
  <2>8. CASE EnableBackupsDone BY <2>8 DEF EnableBackupsDone
  <2>9. CASE EnableCommit BY <2>9, CommitsEntry DEF EnableCommit
  <2>10. CASE EnableWriteConfig BY <2>10 DEF EnableWriteConfig
  <2>11. CASE EnableRetireJournal BY <2>11 DEF EnableRetireJournal
  <2>12. CASE EnableSwap BY <2>12, <1>a DEF BacksUp
  <2> QED
    BY <1>4, <2>1, <2>2, <2>3, <2>4, <2>5, <2>6, <2>7, <2>8, <2>9, <2>10, <2>11, <2>12 DEF
       EnableStep
<1>5. CASE RecoverEnableStep
  BY <1>5, SMTT(60) DEF
     RecoverEnableStep, RecoverEnableDeleteDb, EnableCommitted, OwnedOnDisk, Cleared, Deletable,
     RecoverEnableDeleteKey, RecoverEnableDeletePair, RecoverEnableDone, AfterRecoverEnable
<1>6. CASE RotateStep
  <2>1. CASE RotateWriteJournal
    BY <2>1, RotateJournalWritten, FreshTargets DEF RotateJournal, RotateWriteJournal
  <2>2. CASE RotateExport BY <2>2 DEF RotateExport
  <2>3. CASE RotateWriteKey BY <2>3 DEF RotateWriteKey, Listed
  <2>4. ASSUME NEW b \in Backups, RotateStage(b) PROVE ListedStaged'
    BY <2>4 DEF RotateStage, Opens
  <2>5. ASSUME NEW b \in Backups, RotateBlocked(b) PROVE ListedStaged'
    BY <2>5 DEF RotateBlocked, Opens
  <2>6. CASE RotateStageKey BY <2>6 DEF RotateStageKey
  <2>7. CASE RotateOwnStaged BY <2>7 DEF RotateOwnStaged
  <2>8. CASE RotateStagingDone BY <2>8 DEF RotateStagingDone
  <2>9. CASE RotateCommit BY <2>9, CommitsEntry DEF RotateCommit
  <2>10. CASE RotateSwap BY <2>10, <1>a DEF BacksUp
  <2> QED
    BY <1>6, <2>1, <2>2, <2>3, <2>4, <2>5, <2>6, <2>7, <2>8, <2>9, <2>10 DEF RotateStep
<1>7. CASE RecoverRotateStep
  <2>1. CASE RecoverRotateResume BY <2>1 DEF RecoverRotateResume, RotateCommitted
  <2>2. CASE RecoverRotateDeleteDb
    BY <2>2 DEF RecoverRotateDeleteDb, RotateCommitted, Cleared, Deletable
  <2>3. CASE RecoverRotateDeleteKey
    BY <2>3 DEF RecoverRotateDeleteKey, RotateCommitted, Cleared, Deletable
  <2>4. ASSUME NEW b \in Backups, NEW part \in {"db", "key"}, RecoverRotateDeleteStaged(b, part)
       PROVE ListedStaged'
    BY <2>4 DEF RecoverRotateDeleteStaged, RotateCommitted, Cleared, Deletable
  <2>5. ASSUME NEW b \in Backups, NEW part \in {"db", "key"}, InstallRemoveOld(b, part)
       PROVE ListedStaged'
    BY <2>5 DEF InstallRemoveOld, Ready
  <2>6. ASSUME NEW b \in Backups, NEW part \in {"db", "key"}, InstallRename(b, part)
       PROVE ListedStaged'
    BY <2>6 DEF InstallRename, Ready
  <2>7. CASE InstallDone BY <2>7 DEF InstallDone
  <2>8. CASE InstallConfig BY <2>8 DEF InstallConfig
  <2>9. CASE RetireOldDb BY <2>9 DEF RetireOldDb, Deletable
  <2>10. CASE RetireOldKey BY <2>10 DEF RetireOldKey
  <2>11. CASE RetireRotation BY <2>11 DEF RetireRotation, AfterRecoverRotate
  <2>12. CASE RecoverRotateDone
    BY <2>12 DEF
       RecoverRotateDone, RotateCommitted, Cleared, Deletable, RotateUnwound, AfterRecoverRotate
  <2> HIDE DEF ListedStaged
  <2> QED
    BY <1>7, <2>1, <2>2, <2>3, <2>4, <2>5, <2>6, <2>7, <2>8, <2>9, <2>10, <2>11, <2>12, SMTT(40) DEF
       RecoverRotateStep
<1>8. CASE RemoveStep
  <2>1. CASE RemoveBackup BY <2>1, <1>a DEF BacksUp
  <2>2. CASE RemoveWriteJournal
    BY <2>2, RemoveJournalWritten, FreshTargets DEF RemovalJournal, RemoveWriteJournal
  <2>3. CASE RemoveExport BY <2>3 DEF RemoveExport
  <2>4. CASE RemoveCommit BY <2>4, CommitsEntry DEF RemoveCommit
  <2>5. CASE RemoveConfig BY <2>5 DEF RemoveConfig, Fault
  <2>6. CASE RemoveSwap BY <2>6, <1>a DEF BacksUp
  <2> QED
    BY <1>8, <2>1, <2>2, <2>3, <2>4, <2>5, <2>6 DEF RemoveStep
<1>9. CASE RecoverRemoveStep
  BY <1>9, SMTT(60) DEF
     RecoverRemoveStep, RecoverRemoveResume, RemovalCommitted, RecoverRemoveDeleteDb, Cleared,
     Deletable, RecoverRemoveDone, AfterRecoverRemove, RetireEncryptedDb, Fault,
     RetireEncryptedKey, RetireConfig, RetireRemoval
<1>10. CASE EarlyFails
  BY <1>10, SMTT(60) DEF
     EarlyFails, EnableJournalFails, Fault, EnableFails, EnableCommitFails, RotateJournalFails,
     RotateFails, RotateCommitFails, RemoveFailsEarly, RemoveFails, RemoveCommitFails
<1>11. CASE Kill
  BY <1>11, SMTT(60) DEF
     Kill, EnableKill, RotateKill, Crash, EnableKilledInExport, EnableKilledInConvert,
     RotateKilledInExport, RotateKilledInStage, RemoveKilledInExport
<1> QED
  BY <1>1, <1>2, <1>3, <1>4, <1>5, <1>6, <1>7, <1>8, <1>9, <1>10, <1>11, OnlyEarlyFails
     DEF Next, Work

\* No backup is lost.
LEMMA BackupsKeptKept ==
  ASSUME IInv, WorkInv, JournalsInv, CopiesInv, [Next]_vars, EarlyFaultsOnly, ~DeletesOpenFiles
  PROVE BackupsKept'
<1> USE PathFacts, ConstantsAssumption DEF IInv, WorkInv, JournalsInv, CopiesInv,
      EarlyFaultsOnly, Goto, Return, Die, disk, copies, records, journals, process, history
<1> DEFINE stays == UNCHANGED <<registry, rj, ej, staged, content>>
<1>a. ASSUME BacksUp PROVE BackupsKept'
  <2>1. stays /\ (UNCHANGED <<plain, prot, made>> \/ \E b \in Backups : AddsBackup(b))
    BY <1>a, BackupOfOpen
  <2>2. Moving' = Moving /\ Moving \subseteq made
    BY <2>1 DEF Moving, OnlyMade
  <2>3. CASE UNCHANGED <<plain, prot, made>>
    BY <2>1, <2>3 DEF BackupsKept, KeptEncrypted, Moving, MovingPair
  <2>4. ASSUME NEW b \in Backups, AddsBackup(b) PROVE BackupsKept'
    <3>1. /\ b \notin made /\ made' = made \cup {b} /\ plain \subseteq plain'
          /\ \A x \in Backups : x # b => prot'[x] = prot[x]
          /\ \/ Opens(prot'[b].db, prot'[b].key)
             \/ ~registry.protected /\ b \in plain' /\ prot' = prot
      BY <2>4, BackupAdds
    <3>2. \A x \in made : x # b /\ (KeptEncrypted(x) => KeptEncrypted(x)')
      BY <2>1, <2>2, <3>1 DEF KeptEncrypted, MovingPair, TypeOK
    <3>3. b \notin Moving'
      BY <2>2, <3>1
    <3>4. KeptEncrypted(b)' \/ (~registry.protected /\ b \in plain')
      BY <3>1, <3>3 DEF KeptEncrypted, Opens
    <3> QED
      BY <2>1, <3>1, <3>2, <3>4 DEF BackupsKept
  <2> QED
    BY <2>1, <2>3, <2>4
<1>b. ASSUME RetireRotation PROVE BackupsKept'
  <2>1. pc = "retireJournal" /\ rj' = None /\ UNCHANGED <<disk, copies, records, ej, mj, history>>
    BY <1>b DEF RetireRotation
  <2>2. \A b \in rj.names : Opens(prot[b].db, prot[b].key)
    BY <2>1, MovedPairReadable DEF Installing, Opens
  <2>3. Moving' = {} /\ Moving \subseteq rj.names
    BY <2>1 DEF Moving
  <2>4. \A b \in made : KeptEncrypted(b) => KeptEncrypted(b)'
    BY <2>1, <2>2, <2>3 DEF KeptEncrypted
  <2> QED
    BY <2>1, <2>4 DEF BackupsKept
<1> USE DEF BackupsKept, KeptEncrypted, Moving, MovingPair, Listed, StagedOwned, PlainConverted,
      ListedStaged, OnlyMade, Opens, WaitingTargetKept, RotationWaits, CommittedResolving,
      JournalNames, JournalWritten, RemovedProfileRests, RecoversAtLaunch, TargetPrepared,
      SessionCurrent, LocalsSet, JournalsSafe, RegisteredFileOpens, EnablesPlain, TypeOK,
      Registry, Registered, NoJob, Pair, NoPair, Job, RotateJournal, EnablePending,
      RotatePending, RemovePending, Exported, Keyed, Installing, Retiring, Recovering, Rotating,
      Swapping, EnablePc, RotatePc, RemovePc, RecoverPc
<1>1. CASE UNCHANGED vars
  BY <1>1 DEF vars
<1>2. CASE Launch
  BY <1>2 DEF Launch
<1>3. CASE UserStep
  <2>1. CASE OpenProfile BY <2>1, <1>a DEF BacksUp
  <2>2. CASE CloseProfile \/ WaitingLock BY <2>2, <1>a DEF BacksUp
  <2>3. CASE Edit BY <2>3 DEF Edit
  <2>4. CASE BackUpNow BY <2>4, <1>a DEF BacksUp
  <2>5. CASE DeleteLeftovers BY <2>5 DEF DeleteLeftovers
  <2>6. CASE DeleteProfile BY <2>6 DEF DeleteProfile
  <2>7. CASE EnableBegin BY <2>7 DEF EnableBegin, RoomIn
  <2>8. CASE RotateBegin BY <2>8 DEF RotateBegin, Opens, RoomIn
  <2>9. CASE RemoveBegin BY <2>9 DEF RemoveBegin, Opens, RoomIn
  <2> QED
    BY <1>3, <2>1, <2>2, <2>3, <2>4, <2>5, <2>6, <2>7, <2>8, <2>9 DEF UserStep
<1>4. CASE EnableStep
  <2>1. CASE EnableWriteJournal
    BY <2>1, EnableJournalWritten, FreshTargets, ZenonT(40) DEF EnableJournal, EnableWriteJournal
  <2>2. CASE EnableExport BY <2>2 DEF EnableExport
  <2>3. CASE EnableWriteKey BY <2>3 DEF EnableWriteKey
  <2>4. ASSUME NEW b \in Backups, EnableConvert(b) PROVE BackupsKept' BY <2>4 DEF EnableConvert
  <2>5. ASSUME NEW b \in Backups, EnableCollides(b) PROVE BackupsKept'
    BY <2>5 DEF EnableCollides
  <2>6. CASE EnableBackupKey BY <2>6 DEF EnableBackupKey
  <2>7. CASE EnableOwnBackup BY <2>7 DEF EnableOwnBackup
  <2>8. CASE EnableBackupsDone BY <2>8 DEF EnableBackupsDone
  <2>9. CASE EnableCommit BY <2>9, CommitsEntry DEF EnableCommit
  <2>10. CASE EnableWriteConfig BY <2>10 DEF EnableWriteConfig
  <2>11. CASE EnableRetireJournal BY <2>11 DEF EnableRetireJournal
  <2>12. CASE EnableSwap BY <2>12, <1>a DEF BacksUp
  <2> QED
    BY <1>4, <2>1, <2>2, <2>3, <2>4, <2>5, <2>6, <2>7, <2>8, <2>9, <2>10, <2>11, <2>12 DEF
       EnableStep
<1>5. CASE RecoverEnableStep
  <2>1. CASE RecoverEnableDeleteDb
    BY <2>1 DEF RecoverEnableDeleteDb, EnableCommitted, OwnedOnDisk, Cleared, Deletable
  <2>2. CASE RecoverEnableDeleteKey
    BY <2>2 DEF RecoverEnableDeleteKey, EnableCommitted, OwnedOnDisk, Cleared, Deletable
  <2>3. ASSUME NEW b \in Backups, RecoverEnableDeletePair(b) PROVE BackupsKept'
    BY <2>3 DEF RecoverEnableDeletePair, EnableCommitted, OwnedOnDisk, Cleared, Deletable
  <2>4. CASE RecoverEnableDone
    BY <2>4 DEF
       RecoverEnableDone, EnableCommitted, OwnedOnDisk, Cleared, Deletable, AfterRecoverEnable
  <2> QED
    BY <1>5, <2>1, <2>2, <2>3, <2>4 DEF RecoverEnableStep
<1>6. CASE RotateStep
  <2>1. CASE RotateWriteJournal
    BY <2>1, RotateJournalWritten, FreshTargets, ZenonT(40) DEF RotateJournal, RotateWriteJournal
  <2>2. CASE RotateExport BY <2>2 DEF RotateExport
  <2>3. CASE RotateWriteKey BY <2>3 DEF RotateWriteKey, Listed
  <2>4. ASSUME NEW b \in Backups, RotateStage(b) PROVE BackupsKept'
    BY <2>4 DEF RotateStage, Opens
  <2>5. ASSUME NEW b \in Backups, RotateBlocked(b) PROVE BackupsKept'
    BY <2>5 DEF RotateBlocked, Opens
  <2>6. CASE RotateStageKey BY <2>6 DEF RotateStageKey
  <2>7. CASE RotateOwnStaged BY <2>7 DEF RotateOwnStaged
  <2>8. CASE RotateStagingDone BY <2>8 DEF RotateStagingDone
  <2>9. CASE RotateCommit BY <2>9, CommitsEntry DEF RotateCommit
  <2>10. CASE RotateSwap BY <2>10, <1>a DEF BacksUp
  <2> QED
    BY <1>6, <2>1, <2>2, <2>3, <2>4, <2>5, <2>6, <2>7, <2>8, <2>9, <2>10 DEF RotateStep
<1>7. CASE RecoverRotateStep
  <2>1. CASE RecoverRotateResume BY <2>1 DEF RecoverRotateResume, RotateCommitted
  <2>2. CASE RecoverRotateDeleteDb
    BY <2>2 DEF RecoverRotateDeleteDb, RotateCommitted, Cleared, Deletable
  <2>3. CASE RecoverRotateDeleteKey
    BY <2>3 DEF RecoverRotateDeleteKey, RotateCommitted, Cleared, Deletable
  <2>4. ASSUME NEW b \in Backups, NEW part \in {"db", "key"}, RecoverRotateDeleteStaged(b, part)
       PROVE BackupsKept'
    BY <2>4 DEF RecoverRotateDeleteStaged, RotateCommitted, Cleared, Deletable
  <2>5. ASSUME NEW b \in Backups, NEW part \in {"db", "key"}, InstallRemoveOld(b, part)
       PROVE BackupsKept'
    BY <2>5 DEF InstallRemoveOld, Ready
  <2>6. ASSUME NEW b \in Backups, NEW part \in {"db", "key"}, InstallRename(b, part)
       PROVE BackupsKept'
    BY <2>6 DEF InstallRename, Ready
  <2>7. CASE InstallDone BY <2>7 DEF InstallDone
  <2>8. CASE InstallConfig BY <2>8 DEF InstallConfig
  <2>9. CASE RetireOldDb BY <2>9 DEF RetireOldDb, Deletable
  <2>10. CASE RetireOldKey BY <2>10 DEF RetireOldKey
  <2>11. CASE RetireRotation BY <2>11, <1>b
  <2>12. CASE RecoverRotateDone
    BY <2>12 DEF
       RecoverRotateDone, RotateCommitted, Cleared, Deletable, RotateUnwound, AfterRecoverRotate
  <2> HIDE DEF BackupsKept
  <2> QED
    BY <1>7, <2>1, <2>2, <2>3, <2>4, <2>5, <2>6, <2>7, <2>8, <2>9, <2>10, <2>11, <2>12, SMTT(40) DEF
       RecoverRotateStep
<1>8. CASE RemoveStep
  <2>1. CASE RemoveBackup BY <2>1, <1>a DEF BacksUp
  <2>2. CASE RemoveWriteJournal
    BY <2>2, RemoveJournalWritten, FreshTargets, ZenonT(40) DEF RemovalJournal, RemoveWriteJournal
  <2>3. CASE RemoveExport BY <2>3 DEF RemoveExport
  <2>4. CASE RemoveCommit BY <2>4, CommitsEntry DEF RemoveCommit
  <2>5. CASE RemoveConfig BY <2>5 DEF RemoveConfig, Fault
  <2>6. CASE RemoveSwap BY <2>6, <1>a DEF BacksUp
  <2> QED
    BY <1>8, <2>1, <2>2, <2>3, <2>4, <2>5, <2>6 DEF RemoveStep
<1>9. CASE RecoverRemoveStep
  <2>1. CASE RecoverRemoveResume BY <2>1 DEF RecoverRemoveResume, RemovalCommitted
  <2>2. CASE RecoverRemoveDeleteDb
    BY <2>2 DEF RecoverRemoveDeleteDb, RemovalCommitted, Cleared, Deletable
  <2>3. CASE RecoverRemoveDone
    BY <2>3 DEF RecoverRemoveDone, RemovalCommitted, Cleared, Deletable, AfterRecoverRemove
  <2>4. CASE RetireEncryptedDb BY <2>4 DEF RetireEncryptedDb, Deletable, Fault
  <2>5. CASE RetireEncryptedKey BY <2>5 DEF RetireEncryptedKey, Fault
  <2>6. CASE RetireConfig BY <2>6 DEF RetireConfig
  <2>7. CASE RetireRemoval BY <2>7 DEF RetireRemoval, AfterRecoverRemove
  <2> QED
    BY <1>9, <2>1, <2>2, <2>3, <2>4, <2>5, <2>6, <2>7 DEF RecoverRemoveStep
<1>10. CASE EarlyFails
  <2>1. CASE EnableJournalFails BY <2>1 DEF EnableJournalFails, Fault
  <2>2. CASE EnableFails BY <2>2 DEF EnableFails, Fault
  <2>3. CASE EnableCommitFails BY <2>3 DEF EnableCommitFails, Fault
  <2>4. CASE RotateJournalFails BY <2>4 DEF RotateJournalFails, Fault
  <2>5. CASE RotateFails BY <2>5 DEF RotateFails, Fault
  <2>6. CASE RotateCommitFails BY <2>6 DEF RotateCommitFails, Fault
  <2>7. CASE RemoveFailsEarly BY <2>7 DEF RemoveFailsEarly, Fault
  <2>8. CASE RemoveFails BY <2>8 DEF RemoveFails, Fault
  <2>9. CASE RemoveCommitFails BY <2>9 DEF RemoveCommitFails, Fault
  <2> QED
    BY <1>10, <2>1, <2>2, <2>3, <2>4, <2>5, <2>6, <2>7, <2>8, <2>9 DEF EarlyFails
<1>11. CASE Kill
  <2>1. CASE Crash BY <2>1 DEF Crash
  <2>2. CASE EnableKilledInExport BY <2>2 DEF EnableKilledInExport
  <2>3. ASSUME NEW b \in Backups, EnableKilledInConvert(b) PROVE BackupsKept'
    BY <2>3 DEF EnableKilledInConvert
  <2>4. CASE RotateKilledInExport BY <2>4 DEF RotateKilledInExport
  <2>5. ASSUME NEW b \in Backups, RotateKilledInStage(b) PROVE BackupsKept'
    BY <2>5 DEF RotateKilledInStage
  <2>6. CASE RemoveKilledInExport BY <2>6 DEF RemoveKilledInExport
  <2> QED
    BY <1>11, <2>1, <2>2, <2>3, <2>4, <2>5, <2>6 DEF Kill, EnableKill, RotateKill
<1> QED
  BY <1>1, <1>2, <1>3, <1>4, <1>5, <1>6, <1>7, <1>8, <1>9, <1>10, <1>11, OnlyEarlyFails
     DEF Next, Work

\* Only the end of its clean-up removes the journal of a committed rotation.
LEMMA OnlyRetirementEndsCommitted ==
  ASSUME IInv, [Next]_vars, rj # None, rj' = None, RotateCommitted PROVE RetireRotation
<1> USE PathFacts, ConstantsAssumption DEF disk, copies, records, journals, process, history
<1>1. ASSUME RotateWriteJournal PROVE FALSE
  BY <1>1, RotateJournalWritten
<1>2. ASSUME RotateOwnStaged PROVE FALSE
  <2>1. rj \in RotateJournal /\ job.cur \in Backups
    BY <1>2 DEF RotateOwnStaged, IInv, TypeOK, LocalsSet
  <2>2. rj' \in RotateJournal
    BY <1>2, <2>1 DEF RotateOwnStaged, RotateJournal
  <2> QED
    BY <2>2
<1>3. ~(UNCHANGED vars) /\ ~Launch
  BY DEF vars, Launch
<1>4. ~UserStep
  BY DEF UserStep, OpenProfile, CloseProfile, WaitingLock,
     LockMeanwhile, Edit, BackUpNow, DeleteLeftovers, DeleteProfile,
     EnableBegin, RotateBegin, RemoveBegin
<1>5. ~EnableStep /\ ~RecoverEnableStep
  BY DEF EnableStep, EnableWriteJournal, EnableExport, EnableWriteKey, EnableConvert, EnableCollides,
     EnableBackupKey, EnableOwnBackup, EnableBackupsDone, EnableCommit, EnableWriteConfig,
     EnableRetireJournal, EnableSwap, RecoverEnableStep, RecoverEnableDeleteDb,
     RecoverEnableDeleteKey, RecoverEnableDeletePair, RecoverEnableDone
<1>6. ~RotateStep
  BY <1>1, <1>2 DEF RotateStep, RotateExport, RotateWriteKey, RotateStage, RotateBlocked,
     RotateStageKey, RotateStagingDone, RotateCommit, RotateSwap
<1>7. RecoverRotateStep => RetireRotation
  BY DEF RecoverRotateStep, RecoverRotateResume, RecoverRotateDeleteDb, RecoverRotateDeleteKey,
     RecoverRotateDeleteStaged, InstallRemoveOld, InstallRename, InstallDone, InstallConfig,
     RetireOldDb, RetireOldKey, RecoverRotateDone
<1>8. ~RemoveStep /\ ~RecoverRemoveStep
  BY DEF RemoveStep, RemoveBackup, RemoveWriteJournal, RemoveExport, RemoveCommit, RemoveConfig,
     RemoveSwap, RecoverRemoveStep, RecoverRemoveResume, RecoverRemoveDeleteDb,
     RecoverRemoveDone, RetireEncryptedDb, RetireEncryptedKey, RetireConfig, RetireRemoval
<1>9. ~Fails
  BY DEF Fails, EnableFault, EnableJournalFails, EnableFails, EnableCommitFails,
     EnableFailsAfterCommit, RecoverEnableFails, RotateFault, RotateJournalFails, RotateFails,
     RotateCommitFails, RotateSwapFails, InstallFails, RecoverRotateFails, RemoveFault,
     RemoveFailsEarly, RemoveFails, RemoveCommitFails, RemoveSwapFails, RetireRemovalFails,
     RecoverRemoveFails
<1>10. ~Kill
  BY DEF Kill, Crash, EnableKill, EnableKilledInExport, EnableKilledInConvert, RotateKill,
     RotateKilledInExport, RotateKilledInStage, RemoveKilledInExport
<1> QED
  BY <1>3, <1>4, <1>5, <1>6, <1>7, <1>8, <1>9, <1>10 DEF Next, Work

\* Only a commit, or removing the profile from the list, writes its entry.
LEMMA OnlyCommitsWriteEntry ==
  ASSUME [Next]_vars
  PROVE  EnableCommit \/ RotateCommit \/ RemoveCommit \/ DeleteProfile \/ registry' = registry
<1> USE DEF disk, copies, records, journals, process, history
<1>1. ASSUME UNCHANGED vars \/ Launch PROVE registry' = registry
  BY <1>1 DEF vars, Launch
<1>2. ASSUME UserStep, ~DeleteProfile PROVE registry' = registry
  BY <1>2 DEF UserStep, OpenProfile, CloseProfile, WaitingLock, Edit, BackUpNow, DeleteLeftovers,
     EnableBegin, RotateBegin, RemoveBegin
<1>3. ASSUME EnableStep \/ RecoverEnableStep, ~EnableCommit PROVE registry' = registry
  BY <1>3 DEF EnableStep, EnableWriteJournal, EnableExport, EnableWriteKey, EnableConvert,
     EnableCollides, EnableBackupKey, EnableOwnBackup, EnableBackupsDone, EnableWriteConfig,
     EnableRetireJournal, EnableSwap, RecoverEnableStep, RecoverEnableDeleteDb,
     RecoverEnableDeleteKey, RecoverEnableDeletePair, RecoverEnableDone
<1>4. ASSUME RotateStep \/ RecoverRotateStep, ~RotateCommit PROVE registry' = registry
  BY <1>4 DEF RotateStep, RotateWriteJournal, RotateExport, RotateWriteKey, RotateStage,
     RotateBlocked, RotateStageKey, RotateOwnStaged, RotateStagingDone, RotateSwap,
     RecoverRotateStep, RecoverRotateResume, RecoverRotateDeleteDb, RecoverRotateDeleteKey,
     RecoverRotateDeleteStaged, InstallRemoveOld, InstallRename, InstallDone, InstallConfig,
     RetireOldDb, RetireOldKey, RetireRotation, RecoverRotateDone
<1>5. ASSUME RemoveStep \/ RecoverRemoveStep, ~RemoveCommit PROVE registry' = registry
  BY <1>5 DEF RemoveStep, RemoveBackup, RemoveWriteJournal, RemoveExport, RemoveConfig,
     RemoveSwap, RecoverRemoveStep, RecoverRemoveResume, RecoverRemoveDeleteDb,
     RecoverRemoveDone, RetireEncryptedDb, RetireEncryptedKey, RetireConfig, RetireRemoval
<1>6. ASSUME Fails PROVE registry' = registry
  BY <1>6 DEF Fails, EnableFault, EnableJournalFails, EnableFails, EnableCommitFails,
     EnableFailsAfterCommit, RecoverEnableFails, RotateFault, RotateJournalFails, RotateFails,
     RotateCommitFails, RotateSwapFails, InstallFails, RecoverRotateFails, RemoveFault,
     RemoveFailsEarly, RemoveFails, RemoveCommitFails, RemoveSwapFails, RetireRemovalFails,
     RecoverRemoveFails
<1>7. ASSUME Kill PROVE registry' = registry
  BY <1>7 DEF Kill, Crash, EnableKill, EnableKilledInExport, EnableKilledInConvert, RotateKill,
     RotateKilledInExport, RotateKilledInStage, RemoveKilledInExport
<1> QED
  BY <1>1, <1>2, <1>3, <1>4, <1>5, <1>6, <1>7 DEF Next, Work

\* The entry comes to name the target of a waiting rotation only by its own commit.
LEMMA OnlyRotateCommits ==
  ASSUME IInv, JournalsInv, [Next]_vars, rj # None, ~RotateCommitted,
         registry'.listed, registry'.path = rj.target
  PROVE  RotateCommit
<1> USE DEF IInv, JournalsInv
<1>1. registry' # registry
  BY DEF RotateCommitted
<1>2. ASSUME EnableCommit PROVE FALSE
  <2>1. pc = "enCommit" /\ registry.listed
    BY <1>2 DEF EnableCommit, RemovedProfileRests, RecoversAtLaunch
  <2>2. ej # None /\ ej.target = job.target /\ registry'.path = job.target
    BY <1>2, <2>1, CommitsEntry DEF JournalWritten, JournalNames, EnablePending
  <2>3. RotationWaits
    BY <2>1 DEF RotationWaits, RotatePending, Installing
  <2> QED
    BY <2>2, <2>3 DEF WaitingTargetKept
<1>3. ASSUME RemoveCommit PROVE FALSE
  <2>1. pc = "rmCommit" /\ registry.listed
    BY <1>3 DEF RemoveCommit, RemovedProfileRests, RecoversAtLaunch
  <2>2. job.target \in BasePaths /\ registry'.path = job.target
    BY <1>3, <2>1, CommitsEntry DEF LocalsSet, RemovePending
  <2> QED
    BY <2>2, PathFacts DEF JournalNames
<1>4. ASSUME DeleteProfile PROVE FALSE
  BY <1>4 DEF DeleteProfile, TypeOK, Registry
<1> QED
  BY <1>1, <1>2, <1>3, <1>4, OnlyCommitsWriteEntry

LEMMA InitCopiesInv == ASSUME Init PROVE CopiesInv
<1> USE PathFacts, ConstantsAssumption DEF Init
<1>1. rj = None /\ ej = None /\ pc = "down" /\ job.todo = {} /\ plain = made
  BY DEF NoJob
<1>2. \A b \in Backups : prot[b] = NoPair /\ staged[b] = NoPair
  OBVIOUS
<1>3. Moving = {} /\ Listed(prot) = {}
  BY <1>1, <1>2 DEF Moving, Listed, NoPair
<1>4. (registry.protected => made = {}) /\ registry.former = None
  OBVIOUS
<1> QED
  BY <1>1, <1>2, <1>3, <1>4 DEF CopiesInv, StagedOwned, OnlyMade, PlainConverted, ListedStaged,
     BackupsKept, RotatePending, Installing

\* Every backup made is somewhere it can be read, whatever runs or is resolved.
THEOREM CopiesAccountedFor ==
  ASSUME ~DeletesOpenFiles, EarlyFaultsOnly
  PROVE  Spec => [](IInv /\ WorkInv /\ JournalsInv /\ CopiesInv)
<1> DEFINE Inv == IInv /\ WorkInv /\ JournalsInv /\ CopiesInv
<1>1. Init => CopiesInv
  BY InitCopiesInv
<1>2. IInv /\ WorkInv /\ JournalsInv /\ CopiesInv /\ [Next]_vars => CopiesInv'
  <2> SUFFICES ASSUME IInv, WorkInv, JournalsInv, CopiesInv, [Next]_vars PROVE CopiesInv'
    OBVIOUS
  <2> QED
    BY StagedOwnedKept, OnlyMadeKept, PlainConvertedKept, ListedStagedKept, BackupsKeptKept
       DEF CopiesInv
<1> QED
  BY <1>1, <1>2, JournalsAccountForAll, PTL DEF Spec

\* A backup once made keeps a readable copy through every change of protection,
\* every kill, and every deletion of plaintext copies the user is offered.
THEOREM BackupsNeverLost ==
  ASSUME ~DeletesOpenFiles, EarlyFaultsOnly PROVE Spec => []NoBackupLost
<1>1. IInv /\ WorkInv /\ JournalsInv /\ CopiesInv => NoBackupLost
  <2> SUFFICES ASSUME IInv, WorkInv, JournalsInv, CopiesInv, NEW b \in made, b \notin plain
               PROVE  \E db, key \in {prot[b], staged[b]} : Opens(db.db, key.key)
    BY DEF NoBackupLost
  <2>1. KeptEncrypted(b)
    BY DEF CopiesInv, BackupsKept
  <2>2. CASE b \notin Moving
    BY <2>1, <2>2 DEF KeptEncrypted
  <2>3. CASE b \in Moving
    <3>1. rj # None /\ rj.target = registry.path
      BY <2>3 DEF Moving
    <3>2. registry.listed /\ registry.protected
      BY <3>1 DEF JournalsInv, RemovedProfileRests, CommittedResolving
    <3>3. content[registry.path] \in Deks
      BY <3>2 DEF IInv, RegisteredFileOpens
    <3> QED
      BY <2>1, <2>3, <3>3 DEF KeptEncrypted, MovingPair, Opens
  <2> QED
    BY <2>2, <2>3
<1> QED
  BY <1>1, CopiesAccountedFor, PTL

\* Once every journal is resolved, the only encrypted database left is the live
\* one, and nothing is left in staging.
THEOREM NoStrayCopies ==
  ASSUME ~DeletesOpenFiles, EarlyFaultsOnly PROVE Spec => []OnlyLiveDatabaseEncrypted
<1>1. IInv /\ WorkInv /\ JournalsInv /\ CopiesInv => OnlyLiveDatabaseEncrypted
  <2> SUFFICES ASSUME IInv, WorkInv, JournalsInv, CopiesInv, Settled, registry.listed
               PROVE  /\ \A p \in Paths : content[p] \in Deks \cup {Torn} =>
                                             registry.protected /\ p = registry.path
                      /\ \A b \in Backups : staged[b] = NoPair
    BY DEF OnlyLiveDatabaseEncrypted
  <2>1. \A p \in Paths : content[p] \in Deks \cup {Torn} => p = registry.path
    BY DEF JournalsInv, Accounted, Settled
  <2>2. content[registry.path] \in Deks \cup {Torn} => registry.protected
    BY ConstantsAssumption DEF IInv, RegisteredFileOpens
  <2>3. \A b \in Backups : staged[b] = NoPair
    BY DEF CopiesInv, StagedOwned, Settled
  <2> QED
    BY <2>1, <2>2, <2>3
<1> QED
  BY <1>1, CopiesAccountedFor, PTL

\* A change of password commits with every listed backup in its journal, and its
\* journal goes only when each of these is under the key of the new database.
THEOREM PasswordChangeCoversBackups ==
  ASSUME ~DeletesOpenFiles, EarlyFaultsOnly PROVE Spec => RotationCoversBackups
<1> DEFINE Covers ==
      rj # None =>
        /\ ~RotateCommitted /\ registry'.listed /\ registry'.path = rj.target =>
             Listed(prot) \subseteq rj.names
        /\ RotateCommitted /\ rj' = None =>
             \A b \in rj.names \cap Listed(prot') : prot'[b].key = content'[registry.path]
<1>1. IInv /\ WorkInv /\ JournalsInv /\ CopiesInv /\ [Next]_vars => [Covers]_vars
  <2> SUFFICES ASSUME IInv, WorkInv, JournalsInv, CopiesInv, [Next]_vars, rj # None
               PROVE  Covers
    OBVIOUS
  <2>1. ASSUME ~RotateCommitted, registry'.listed, registry'.path = rj.target
        PROVE  Listed(prot) \subseteq rj.names
    <3>1. pc = "roCommit"
      BY <2>1, OnlyRotateCommits DEF RotateCommit
    <3> QED
      BY <3>1 DEF CopiesInv, ListedStaged
  <2>2. ASSUME RotateCommitted, rj' = None
        PROVE  \A b \in rj.names \cap Listed(prot') : prot'[b].key = content'[registry.path]
    <3>1. RetireRotation
      BY <2>2, ConstantsAssumption, OnlyRetirementEndsCommitted
    <3>2. pc = "retireJournal" /\ UNCHANGED <<prot, content>>
      BY <3>1 DEF RetireRotation, disk, copies
    <3>3. \A b \in rj.names : prot[b].key = content[registry.path]
      BY <3>2, MovedPairReadable DEF Installing
    <3> QED
      BY <3>2, <3>3
  <2> QED
    BY <2>1, <2>2
<1> QED
  BY <1>1, CopiesAccountedFor, PTL DEF Spec, RotationCoversBackups
=============================================================================
