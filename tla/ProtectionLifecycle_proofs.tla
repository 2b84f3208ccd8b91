--------------------- MODULE ProtectionLifecycle_proofs ---------------------
(***************************************************************************)
(* RegisteredFileOpens for every set of keys and backups, every number of  *)
(* file names and edits and every set of I/O faults, on a platform that    *)
(* refuses to delete an open database.                                     *)
(*                                                                         *)
(* IInv of ProtectionInvariants is inductive: one lemma below per conjunct *)
(* shows that a step keeps it, one step of that lemma per kind of action.  *)
(***************************************************************************)
EXTENDS ProtectionInvariants, TLAPS

\* The two families of database names are disjoint, and None is no path.
LEMMA PathFacts ==
  /\ BasePaths \subseteq Paths /\ ProtectedPaths \subseteq Paths
  /\ BasePaths \cap ProtectedPaths = {}
  /\ None \notin Paths /\ None \notin Backups
  /\ <<"base", 1>> \in BasePaths
  /\ \A n \in 1..MaxFiles : <<"base", n>> \in BasePaths /\ <<"protected", n>> \in ProtectedPaths
BY ConstantsAssumption DEF BasePaths, ProtectedPaths, Paths

\* Enabling takes a fresh key and a protected name no file has, and its journal
\* names that target.
LEMMA EnableJournalWritten ==
  ASSUME IInv, EnableWriteJournal
  PROVE  /\ ej' \in EnableJournal /\ ej' # None /\ ej'.target \in ProtectedPaths
         /\ job' \in Job /\ job'.src = job.src /\ job'.target = ej'.target /\ job'.dek \in Deks
         /\ used' \subseteq Deks
         /\ ~Registered(ej'.target)
         /\ pc = "enJournal" /\ pc' = "enExport"
         /\ UNCHANGED <<disk, copies, records, rj, mj, session, cont, latest, made>>
<1>1. PICK d \in Deks \ used, n \in 1..MaxFiles :
        /\ LowestFree("protected", n)
        /\ used' = used \cup {d}
        /\ ej' = [target |-> <<"protected", n>>, owned |-> {}]
        /\ job' = [job EXCEPT !.target = <<"protected", n>>, !.dek = d]
  BY DEF EnableWriteJournal
<1>2. <<"protected", n>> \in Paths /\ <<"protected", n>> \in ProtectedPaths
  BY DEF Paths, ProtectedPaths
<1>3. ej' \in EnableJournal /\ ej' # None
  BY <1>1, <1>2, ConstantsAssumption DEF EnableJournal
<1>4. job' \in Job /\ job'.src = job.src /\ job'.target = ej'.target /\ job'.dek \in Deks
  BY <1>1, <1>2 DEF IInv, TypeOK, Job, KeyFile
<1>5. ~Registered(ej'.target)
  BY <1>1, ConstantsAssumption DEF LowestFree, IInv, RegisteredFileOpens, Registered
<1> QED
  BY <1>1, <1>2, <1>3, <1>4, <1>5 DEF IInv, TypeOK, EnableWriteJournal, Goto

\* Likewise for a password change; its journal also names the old database.
LEMMA RotateJournalWritten ==
  ASSUME IInv, RotateWriteJournal
  PROVE  /\ rj' \in RotateJournal /\ rj' # None /\ rj'.target \in ProtectedPaths
         /\ rj'.old = job.src /\ rj'.old # rj'.target
         /\ job' \in Job /\ job'.src = job.src /\ job'.target = rj'.target /\ job'.dek \in Deks
         /\ used' \subseteq Deks
         /\ ~Registered(rj'.target)
         /\ pc = "roJournal" /\ pc' = "roExport"
         /\ UNCHANGED <<disk, copies, records, ej, mj, session, cont, latest, made>>
<1>1. PICK d \in Deks \ used, n \in 1..MaxFiles :
        /\ LowestFree("protected", n)
        /\ used' = used \cup {d}
        /\ rj' = [old |-> job.src, target |-> <<"protected", n>>, names |-> {}]
        /\ job' = [job EXCEPT !.target = <<"protected", n>>, !.dek = d]
  BY DEF RotateWriteJournal
<1>2. <<"protected", n>> \in Paths /\ <<"protected", n>> \in ProtectedPaths
  BY DEF Paths, ProtectedPaths
<1>3. job.src \in Paths /\ (job.src = session \/ Registered(job.src))
  BY DEF RotateWriteJournal, IInv, SourceLive, Recovering
<1>4. rj' \in RotateJournal /\ rj' # None
  BY <1>1, <1>2, <1>3, ConstantsAssumption DEF RotateJournal
<1>5. job' \in Job /\ job'.src = job.src /\ job'.target = rj'.target /\ job'.dek \in Deks
  BY <1>1, <1>2 DEF IInv, TypeOK, Job, KeyFile
<1>6. ~Registered(rj'.target)
  BY <1>1, ConstantsAssumption DEF LowestFree, IInv, RegisteredFileOpens, Registered
<1>7. content[job.src] # Absent
  BY <1>3, ConstantsAssumption, PathFacts
     DEF IInv, SessionFileExists, RegisteredFileOpens, Registered
<1> QED
  BY <1>1, <1>2, <1>3, <1>4, <1>5, <1>6, <1>7 DEF LowestFree, IInv, TypeOK, RotateWriteJournal,
     Goto

\* Likewise for turning protection off, whose target is a plain name.
LEMMA RemoveJournalWritten ==
  ASSUME IInv, RemoveWriteJournal
  PROVE  /\ mj' \in RemovalJournal /\ mj' # None /\ mj'.target \in BasePaths
         /\ mj'.old = job.src /\ mj'.old # mj'.target
         /\ job' \in Job /\ job'.src = job.src /\ job'.target = mj'.target
         /\ ~Registered(mj'.target)
         /\ pc = "rmJournal" /\ pc' = "rmExport"
         /\ UNCHANGED <<disk, copies, records, ej, rj, session, cont, history>>
<1>1. PICK n \in 1..MaxFiles :
        /\ LowestFree("base", n)
        /\ mj' = [old |-> job.src, target |-> <<"base", n>>]
        /\ job' = [job EXCEPT !.target = <<"base", n>>]
  BY DEF RemoveWriteJournal
<1>2. <<"base", n>> \in Paths /\ <<"base", n>> \in BasePaths
  BY DEF Paths, BasePaths
<1>3. job.src \in Paths /\ (job.src = session \/ Registered(job.src))
  BY DEF RemoveWriteJournal, IInv, SourceLive, Recovering
<1>4. mj' \in RemovalJournal /\ mj' # None
  BY <1>1, <1>2, <1>3, ConstantsAssumption DEF RemovalJournal
<1>5. job' \in Job /\ job'.src = job.src /\ job'.target = mj'.target
  BY <1>1, <1>2 DEF IInv, TypeOK, Job
<1>6. ~Registered(mj'.target)
  BY <1>1, ConstantsAssumption DEF LowestFree, IInv, RegisteredFileOpens, Registered
<1>7. content[job.src] # Absent
  BY <1>3, ConstantsAssumption, PathFacts
     DEF IInv, SessionFileExists, RegisteredFileOpens, Registered
<1> QED
  BY <1>1, <1>2, <1>3, <1>4, <1>5, <1>6, <1>7 DEF LowestFree, RemoveWriteJournal, Goto

\* A folder of backups stays one when one file of one backup changes.
LEMMA PairFacts ==
  ASSUME NEW dir \in [Backups -> Pair], NEW b \in Backups
  PROVE  /\ \A c \in Content : [dir EXCEPT ![b].db = c] \in [Backups -> Pair]
         /\ \A k \in KeyFile : [dir EXCEPT ![b].key = k] \in [Backups -> Pair]
         /\ \A part \in {"db", "key"} : [dir EXCEPT ![b][part] = Absent] \in [Backups -> Pair]
<1>1. dir[b] \in Pair OBVIOUS
<1>2. \A c \in Content : [dir[b] EXCEPT !.db = c] \in Pair BY <1>1 DEF Pair
<1>3. \A k \in KeyFile : [dir[b] EXCEPT !.key = k] \in Pair BY <1>1 DEF Pair
<1>4. \A part \in {"db", "key"} : [dir[b] EXCEPT ![part] = Absent] \in Pair
  BY <1>1 DEF Pair, Content, KeyFile
<1> QED
  BY <1>2, <1>3, <1>4

\* A backup of any database of the profile is a well-formed one.
LEMMA BackupTyped ==
  ASSUME TypeOK, NEW p \in Paths, NEW b \in Backups, NewBackup(p, b)
  PROVE  plain' \subseteq Backups /\ prot' \in [Backups -> Pair] /\ made' \subseteq Backups
<1>1. content[p] \in Content /\ keyOf[p] \in KeyFile
  BY DEF TypeOK
<1>2. [db |-> content[p], key |-> keyOf[p]] \in Pair
  BY <1>1 DEF Pair
<1> QED
  BY <1>2 DEF NewBackup, TypeOK

\* Likewise of a daily backup, taken or not.
LEMMA DueBackupTyped ==
  ASSUME TypeOK, NEW p \in Paths, DueBackup(p)
  PROVE  plain' \subseteq Backups /\ prot' \in [Backups -> Pair] /\ made' \subseteq Backups
BY BackupTyped DEF DueBackup, TypeOK

\* The two steps that write the target of a running change.
LEMMA RotateWriteKeyTyped ==
  ASSUME IInv, RotateWriteKey PROVE TypeOK'
<1>1. job.target \in Paths /\ job.dek \in Deks
  BY PathFacts DEF RotateWriteKey, IInv, LocalsSet, RotatePending
<1>2. keyOf' \in [Paths -> KeyFile]
  BY <1>1 DEF RotateWriteKey, IInv, TypeOK, KeyFile
<1>3. job' \in Job
  BY DEF RotateWriteKey, IInv, TypeOK, Job, Listed
<1>4. pc' \in ProgramCounters
  BY DEF RotateWriteKey, Goto, ProgramCounters, RotatePc
<1>5. UNCHANGED <<content, saved, copies, records, journals, session, cont, history>>
  BY DEF RotateWriteKey
<1> QED
  BY <1>2, <1>3, <1>4, <1>5 DEF IInv, TypeOK, copies, records, journals, history

LEMMA RemoveFailsTyped ==
  ASSUME IInv, RemoveFails PROVE TypeOK'
<1>1. job.target \in Paths
  BY PathFacts DEF RemoveFails, IInv, LocalsSet, RemovePending
<1>2. content' \in [Paths -> Content]
  BY <1>1 DEF RemoveFails, IInv, TypeOK, Content
<1>3. pc' \in ProgramCounters /\ cont' \in Continuations
  BY DEF RemoveFails, Goto, ProgramCounters, RecoverPc, Continuations
<1>4. UNCHANGED <<keyOf, saved, copies, records, journals, session, job, history>>
  BY DEF RemoveFails
<1> QED
  BY <1>2, <1>3, <1>4 DEF IInv, TypeOK, copies, records, journals, history

\* Every step keeps the variables within their types.
LEMMA TypeOKKept ==
  ASSUME IInv, [Next]_vars, ~DeletesOpenFiles PROVE TypeOK'
<1> USE PathFacts, ConstantsAssumption DEF IInv, Goto, Return, Die,
      disk, copies, records, journals, process, history
<1>1. ASSUME RemoveBackup PROVE TypeOK'
  <2>1. PICK b \in Backups : NewBackup(job.src, b)
    BY <1>1 DEF RemoveBackup
  <2>2. job.src \in Paths
    BY <1>1 DEF RemoveBackup, SourceLive, Recovering
  <2>3. plain' \subseteq Backups /\ prot' \in [Backups -> Pair] /\ made' \subseteq Backups
    BY <2>1, <2>2, BackupTyped
  <2> QED
    BY <1>1, <2>3 DEF RemoveBackup, TypeOK, ProgramCounters, RemovePc
<1>2. ASSUME RemoveCommit PROVE TypeOK'
  <2>1. registry' \in Registry
    BY <1>2 DEF RemoveCommit, TypeOK, Registry, LocalsSet, RemovePending
  <2> QED
    BY <1>2, <2>1 DEF RemoveCommit, TypeOK, ProgramCounters, RemovePc
<1>3. ASSUME EnableCommit PROVE TypeOK'
  <2>1. registry' \in Registry
    BY <1>3 DEF EnableCommit, TypeOK, Registry, LocalsSet, EnablePending
  <2> QED
    BY <1>3, <2>1 DEF EnableCommit, TypeOK, ProgramCounters, EnablePc
<1>4. ASSUME EnableOwnBackup PROVE TypeOK'
  <2>1. ej \in EnableJournal /\ job \in Job /\ job.cur \in Backups
    BY <1>4 DEF EnableOwnBackup, TypeOK, LocalsSet, JournalWritten, EnablePending
  <2>2. ej' \in EnableJournal
    BY <1>4, <2>1 DEF EnableOwnBackup, EnableJournal
  <2>3. job' \in Job
    BY <1>4, <2>1 DEF EnableOwnBackup, Job
  <2> QED
    BY <1>4, <2>2, <2>3 DEF EnableOwnBackup, TypeOK, ProgramCounters, EnablePc
<1>5. ASSUME RotateOwnStaged PROVE TypeOK'
  <2>1. rj \in RotateJournal /\ job \in Job /\ job.cur \in Backups
    BY <1>5 DEF RotateOwnStaged, TypeOK, LocalsSet, JournalWritten, RotatePending
  <2>2. rj' \in RotateJournal
    BY <1>5, <2>1 DEF RotateOwnStaged, RotateJournal
  <2>3. job' \in Job
    BY <1>5, <2>1 DEF RotateOwnStaged, Job
  <2> QED
    BY <1>5, <2>2, <2>3 DEF RotateOwnStaged, TypeOK, ProgramCounters, RotatePc
<1>6. ASSUME DeleteProfile PROVE TypeOK'
  <2>1. registry' \in Registry
    BY <1>6 DEF DeleteProfile, TypeOK, Registry
  <2> QED
    BY <1>6, <2>1 DEF DeleteProfile, TypeOK
<1>7. ASSUME OpenProfile PROVE TypeOK'
  <2>1. registry.path \in Paths /\ config' \in Paths
    BY <1>7 DEF OpenProfile, TypeOK, Registry
  <2>2. plain' \subseteq Backups /\ prot' \in [Backups -> Pair] /\ made' \subseteq Backups
    BY <1>7, <2>1, DueBackupTyped DEF OpenProfile
  <2> QED
    BY <1>7, <2>1, <2>2 DEF OpenProfile, TypeOK
<1>8. ASSUME NEW b \in Backups, EnableConvert(b) PROVE TypeOK'
  <2>1. job.dek \in KeyFile /\ prot[b] \in Pair /\ job \in Job
    BY <1>8 DEF EnableConvert, TypeOK, Job
  <2>2. [prot[b] EXCEPT !.db = job.dek] \in Pair BY <2>1 DEF Pair, Content, KeyFile
  <2>3. prot' \in [Backups -> Pair]
    BY <1>8, <2>2 DEF EnableConvert, TypeOK
  <2>4. job' \in Job
    BY <1>8, <2>1 DEF EnableConvert, Job
  <2> QED
    BY <1>8, <2>3, <2>4 DEF EnableConvert, TypeOK, ProgramCounters, EnablePc
<1>9. ASSUME NEW b \in Backups, NEW part \in {"db", "key"}, InstallRename(b, part) PROVE TypeOK'
  <2>1. prot[b] \in Pair /\ staged[b] \in Pair
    BY <1>9 DEF TypeOK
  <2>2. [prot[b] EXCEPT ![part] = staged[b][part]] \in Pair /\ [staged[b] EXCEPT ![part] = Absent] \in Pair
    BY <2>1 DEF Pair, Content, KeyFile
  <2>3. prot' \in [Backups -> Pair] /\ staged' \in [Backups -> Pair]
    BY <1>9, <2>2 DEF InstallRename, TypeOK
  <2> QED
    BY <1>9, <2>3 DEF InstallRename, TypeOK
<1>10. ASSUME BackUpNow PROVE TypeOK'
  <2>1. session \in Paths
    BY <1>10 DEF BackUpNow, TypeOK
  <2>2. plain' \subseteq Backups /\ prot' \in [Backups -> Pair] /\ made' \subseteq Backups
    BY <1>10, <2>1, BackupTyped DEF BackUpNow
  <2> QED
    BY <1>10, <2>2 DEF BackUpNow, TypeOK
<1>11. ASSUME CloseProfile \/ WaitingLock PROVE TypeOK'
  <2>1. session \in Paths
    BY <1>11 DEF CloseProfile, WaitingLock, TypeOK
  <2>2. plain' \subseteq Backups /\ prot' \in [Backups -> Pair] /\ made' \subseteq Backups
    BY <1>11, <2>1, DueBackupTyped DEF CloseProfile, WaitingLock
  <2> QED
    BY <1>11, <2>2 DEF CloseProfile, WaitingLock, TypeOK
<1>12. ASSUME EnableSwap \/ RotateSwap \/ RemoveSwap PROVE TypeOK'
  <2>1. job.target \in Paths
    BY <1>12 DEF EnableSwap, RotateSwap, RemoveSwap, LocalsSet, Swapping
  <2>2. plain' \subseteq Backups /\ prot' \in [Backups -> Pair] /\ made' \subseteq Backups
    BY <1>12, <2>1, DueBackupTyped DEF EnableSwap, RotateSwap, RemoveSwap
  <2>3. job' \in Job
    BY <1>12 DEF EnableSwap, RotateSwap, RemoveSwap, NoJob, Job, KeyFile
  <2>4. CASE EnableSwap
    BY <2>1, <2>2, <2>3, <2>4 DEF EnableSwap, TypeOK, ProgramCounters
  <2>5. CASE RotateSwap
    BY <2>1, <2>2, <2>3, <2>5 DEF RotateSwap, TypeOK, ProgramCounters, RecoverPc, Continuations
  <2>6. CASE RemoveSwap
    BY <2>1, <2>2, <2>3, <2>6 DEF RemoveSwap, TypeOK, ProgramCounters, RecoverPc, Continuations
  <2> QED
    BY <1>12, <2>4, <2>5, <2>6
<1>13. ASSUME NEW b \in Backups, NEW part \in {"db", "key"},
              RecoverRotateDeleteStaged(b, part) \/ InstallRemoveOld(b, part)
       PROVE TypeOK'
  <2>1. /\ [prot EXCEPT ![b][part] = Absent] \in [Backups -> Pair]
        /\ [staged EXCEPT ![b][part] = Absent] \in [Backups -> Pair]
    BY PairFacts DEF TypeOK
  <2>2. CASE RecoverRotateDeleteStaged(b, part)
    BY <2>1, <2>2 DEF RecoverRotateDeleteStaged, TypeOK
  <2>3. CASE InstallRemoveOld(b, part)
    BY <2>1, <2>3 DEF InstallRemoveOld, TypeOK
  <2> QED
    BY <1>13, <2>2, <2>3
<1>14. ASSUME NEW b \in Backups, EnableKilledInConvert(b) \/ RotateKilledInStage(b) PROVE TypeOK'
  <2>1. Torn \in Content /\ NoJob \in Job
    BY DEF Content, NoJob, Job, KeyFile
  <2>2. /\ [prot EXCEPT ![b].db = Torn] \in [Backups -> Pair]
        /\ [staged EXCEPT ![b].db = Torn] \in [Backups -> Pair]
    BY <2>1, PairFacts DEF TypeOK
  <2>3. CASE EnableKilledInConvert(b)
    BY <2>1, <2>2, <2>3 DEF EnableKilledInConvert, TypeOK, ProgramCounters, Continuations
  <2>4. CASE RotateKilledInStage(b)
    BY <2>1, <2>2, <2>4 DEF RotateKilledInStage, TypeOK, ProgramCounters, Continuations
  <2> QED
    BY <1>14, <2>3, <2>4
<1>15. ASSUME NEW b \in Backups, RotateStage(b) PROVE TypeOK'
  <2>1. job \in Job /\ job.dek \in Content
    BY <1>15 DEF RotateStage, TypeOK, Job, Content, KeyFile
  <2>2. staged' \in [Backups -> Pair]
    BY <1>15, <2>1, PairFacts DEF RotateStage, TypeOK
  <2>3. job' \in Job
    BY <1>15, <2>1 DEF RotateStage, Job
  <2> QED
    BY <1>15, <2>2, <2>3 DEF RotateStage, TypeOK, ProgramCounters, RotatePc
<1>16. ASSUME EnableBackupKey \/ RotateStageKey PROVE TypeOK'
  <2>1. job.cur \in Backups
    BY <1>16 DEF EnableBackupKey, RotateStageKey, LocalsSet
  <2>2. job.dek \in KeyFile
    BY DEF TypeOK, Job
  <2>3. /\ [prot EXCEPT ![job.cur].key = job.dek] \in [Backups -> Pair]
        /\ [staged EXCEPT ![job.cur].key = job.dek] \in [Backups -> Pair]
    BY <2>1, <2>2, PairFacts DEF TypeOK
  <2>4. CASE EnableBackupKey
    BY <2>3, <2>4 DEF EnableBackupKey, TypeOK, ProgramCounters, EnablePc
  <2>5. CASE RotateStageKey
    BY <2>3, <2>5 DEF RotateStageKey, TypeOK, ProgramCounters, RotatePc
  <2> QED
    BY <1>16, <2>4, <2>5
<1> USE DEF TypeOK, Registry, EnableJournal, RotateJournal, RemovalJournal, Job, NoJob, Pair, NoPair,
      Content, KeyFile, ProgramCounters, Continuations, LocalsSet, JournalWritten, SourceLive,
      EnablePending, RotatePending, RemovePending, Exported, Keyed, Installing, Retiring,
      Recovering, Rotating, Swapping, EnablePc, RotatePc, RemovePc, RecoverPc
<1>17. CASE UNCHANGED vars
  BY <1>17 DEF vars
<1>18. CASE Launch
  BY <1>18, SMTT(60) DEF Launch
<1>19. CASE UserStep
  <2>1. CASE OpenProfile BY <2>1, <1>7
  <2>2. CASE CloseProfile \/ WaitingLock BY <2>2, <1>11
  <2>3. CASE Edit BY <2>3 DEF Edit
  <2>4. CASE BackUpNow BY <2>4, <1>10
  <2>5. CASE DeleteLeftovers BY <2>5 DEF DeleteLeftovers
  <2>6. CASE DeleteProfile BY <2>6, <1>6
  <2>7. CASE EnableBegin BY <2>7 DEF EnableBegin, RoomIn
  <2>8. CASE RotateBegin BY <2>8 DEF RotateBegin, Opens, RoomIn
  <2>9. CASE RemoveBegin BY <2>9 DEF RemoveBegin, Opens, RoomIn
  <2> QED
    BY <1>19, <2>1, <2>2, <2>3, <2>4, <2>5, <2>6, <2>7, <2>8, <2>9 DEF UserStep
<1>20. CASE EnableStep
  <2>1. CASE EnableWriteJournal BY <2>1, EnableJournalWritten
  <2>2. CASE EnableExport BY <2>2 DEF EnableExport
  <2>3. CASE EnableWriteKey BY <2>3 DEF EnableWriteKey
  <2>4. ASSUME NEW b \in Backups, EnableConvert(b) PROVE TypeOK' BY <2>4, <1>8
  <2>5. ASSUME NEW b \in Backups, EnableCollides(b) PROVE TypeOK' BY <2>5 DEF EnableCollides
  <2>6. CASE EnableBackupKey BY <2>6, <1>16
  <2>7. CASE EnableOwnBackup BY <2>7, <1>4
  <2>8. CASE EnableBackupsDone BY <2>8 DEF EnableBackupsDone
  <2>9. CASE EnableCommit BY <2>9, <1>3
  <2>10. CASE EnableWriteConfig BY <2>10 DEF EnableWriteConfig
  <2>11. CASE EnableRetireJournal BY <2>11 DEF EnableRetireJournal
  <2>12. CASE EnableSwap BY <2>12, <1>12
  <2> QED
    BY <1>20, <2>1, <2>2, <2>3, <2>4, <2>5, <2>6, <2>7, <2>8, <2>9, <2>10, <2>11, <2>12 DEF
       EnableStep
<1>21. CASE RecoverEnableStep
  <2>1. CASE RecoverEnableDeleteDb
    BY <2>1 DEF RecoverEnableDeleteDb, EnableCommitted, Cleared, Deletable
  <2>2. CASE RecoverEnableDeleteKey
    BY <2>2 DEF RecoverEnableDeleteKey, EnableCommitted, Cleared, Deletable
  <2>3. ASSUME NEW b \in Backups, RecoverEnableDeletePair(b) PROVE TypeOK'
    BY <2>3 DEF RecoverEnableDeletePair, EnableCommitted, OwnedOnDisk, Cleared, Deletable
  <2>4. CASE RecoverEnableDone
    BY <2>4 DEF RecoverEnableDone, AfterRecoverEnable, EnableCommitted, OwnedOnDisk, Cleared,
       Deletable
  <2> QED
    BY <1>21, <2>1, <2>2, <2>3, <2>4 DEF RecoverEnableStep
<1>22. CASE RotateStep
  <2>1. CASE RotateWriteJournal BY <2>1, RotateJournalWritten
  <2>2. CASE RotateExport BY <2>2 DEF RotateExport
  <2>3. CASE RotateWriteKey BY <2>3, RotateWriteKeyTyped
  <2>4. ASSUME NEW b \in Backups, RotateStage(b) PROVE TypeOK' BY <2>4, <1>15
  <2>5. ASSUME NEW b \in Backups, RotateBlocked(b) PROVE TypeOK' BY <2>5 DEF RotateBlocked, Opens
  <2>6. CASE RotateStageKey BY <2>6, <1>16
  <2>7. CASE RotateOwnStaged BY <2>7, <1>5
  <2>8. CASE RotateStagingDone BY <2>8 DEF RotateStagingDone
  <2>9. CASE RotateCommit BY <2>9 DEF RotateCommit
  <2>10. CASE RotateSwap BY <2>10, <1>12
  <2> QED
    BY <1>22, <2>1, <2>2, <2>3, <2>4, <2>5, <2>6, <2>7, <2>8, <2>9, <2>10 DEF RotateStep
<1>23. CASE RecoverRotateStep
  <2>1. CASE RecoverRotateResume BY <2>1 DEF RecoverRotateResume, RotateCommitted
  <2>2. CASE RecoverRotateDeleteDb
    BY <2>2 DEF RecoverRotateDeleteDb, Cleared, RotateCommitted, Deletable
  <2>3. CASE RecoverRotateDeleteKey
    BY <2>3 DEF RecoverRotateDeleteKey, Cleared, RotateCommitted, Deletable
  <2>4. ASSUME NEW b \in Backups, NEW part \in {"db", "key"}, RecoverRotateDeleteStaged(b, part) PROVE TypeOK'
    BY <2>4, <1>13
  <2>5. ASSUME NEW b \in Backups, NEW part \in {"db", "key"}, InstallRemoveOld(b, part) PROVE TypeOK'
    BY <2>5, <1>13
  <2>6. ASSUME NEW b \in Backups, NEW part \in {"db", "key"}, InstallRename(b, part) PROVE TypeOK'
    BY <2>6, <1>9
  <2>7. CASE InstallDone BY <2>7 DEF InstallDone
  <2>8. CASE InstallConfig BY <2>8 DEF InstallConfig
  <2>9. CASE RetireOldDb BY <2>9 DEF RetireOldDb, Deletable
  <2>10. CASE RetireOldKey BY <2>10 DEF RetireOldKey
  <2>11. CASE RetireRotation BY <2>11 DEF RetireRotation, AfterRecoverRotate
  <2>12. CASE RecoverRotateDone
    BY <2>12 DEF RecoverRotateDone, AfterRecoverRotate, RotateCommitted, RotateUnwound,
       Cleared, Deletable
  <2> QED
    BY <1>23, <2>1, <2>2, <2>3, <2>4, <2>5, <2>6, <2>7, <2>8, <2>9, <2>10, <2>11, <2>12, SMTT(40) DEF
       RecoverRotateStep
<1>24. CASE RemoveStep
  <2>1. CASE RemoveBackup BY <2>1, <1>1
  <2>2. CASE RemoveWriteJournal BY <2>2, RemoveJournalWritten
  <2>3. CASE RemoveExport BY <2>3 DEF RemoveExport
  <2>4. CASE RemoveCommit BY <2>4, <1>2
  <2>5. CASE RemoveConfig BY <2>5 DEF RemoveConfig
  <2>6. CASE RemoveSwap BY <2>6, <1>12
  <2> QED
    BY <1>24, <2>1, <2>2, <2>3, <2>4, <2>5, <2>6 DEF RemoveStep
<1>25. CASE RecoverRemoveStep
  BY <1>25, SMTT(60) DEF
     RecoverRemoveStep, RecoverRemoveResume, RecoverRemoveDeleteDb, RecoverRemoveDone,
     RetireEncryptedDb, RetireEncryptedKey, RetireConfig, RetireRemoval, AfterRecoverRemove,
     RemovalCommitted, Cleared, Deletable
<1>26. CASE Fails
  <2>1. CASE EnableJournalFails BY <2>1 DEF EnableJournalFails
  <2>2. CASE EnableFails BY <2>2 DEF EnableFails
  <2>3. CASE EnableCommitFails BY <2>3 DEF EnableCommitFails
  <2>4. CASE EnableFailsAfterCommit BY <2>4 DEF EnableFailsAfterCommit
  <2>5. CASE RecoverEnableFails
    BY <2>5 DEF RecoverEnableFails, EnableCommitted, OwnedOnDisk, Cleared, Deletable
  <2>6. CASE RotateJournalFails BY <2>6 DEF RotateJournalFails
  <2>7. CASE RotateFails BY <2>7 DEF RotateFails
  <2>8. CASE RotateCommitFails BY <2>8 DEF RotateCommitFails
  <2>9. CASE RotateSwapFails BY <2>9 DEF RotateSwapFails
  <2>10. CASE InstallFails BY <2>10 DEF InstallFails, Deletable
  <2>11. CASE RecoverRotateFails
    BY <2>11 DEF RecoverRotateFails, RotateCommitted, RotateUnwound, Cleared, Deletable
  <2>12. CASE RemoveFailsEarly BY <2>12 DEF RemoveFailsEarly
  <2>13. CASE RemoveFails BY <2>13, RemoveFailsTyped
  <2>14. CASE RemoveCommitFails BY <2>14 DEF RemoveCommitFails
  <2>15. CASE RemoveSwapFails BY <2>15 DEF RemoveSwapFails
  <2>16. CASE RetireRemovalFails BY <2>16 DEF RetireRemovalFails
  <2>17. CASE RecoverRemoveFails
    BY <2>17 DEF RecoverRemoveFails, Cleared, RemovalCommitted, Deletable
  <2> QED
    BY <1>26, <2>1, <2>2, <2>3, <2>4, <2>5, <2>6, <2>7, <2>8, <2>9, <2>10, <2>11, <2>12, <2>13,
       <2>14, <2>15, <2>16, <2>17 DEF Fails, EnableFault, RotateFault, RemoveFault
<1>27. CASE Kill
  <2>1. CASE Crash BY <2>1 DEF Crash
  <2>2. CASE EnableKilledInExport BY <2>2 DEF EnableKilledInExport
  <2>3. ASSUME NEW b \in Backups, EnableKilledInConvert(b) PROVE TypeOK'
    BY <2>3, <1>14
  <2>4. CASE RotateKilledInExport BY <2>4 DEF RotateKilledInExport
  <2>5. ASSUME NEW b \in Backups, RotateKilledInStage(b) PROVE TypeOK'
    BY <2>5, <1>14
  <2>6. CASE RemoveKilledInExport BY <2>6 DEF RemoveKilledInExport
  <2> QED
    BY <1>27, <2>1, <2>2, <2>3, <2>4, <2>5, <2>6 DEF Kill, EnableKill, RotateKill
<1> QED
  BY <1>17, <1>18, <1>19, <1>20, <1>21, <1>22, <1>23, <1>24, <1>25, <1>26, <1>27 DEF Next, Work

\* A change keeps working on the open or the registered database while
\* the journals of earlier changes are resolved.
LEMMA SourceLiveKept ==
  ASSUME IInv, [Next]_vars, ~DeletesOpenFiles PROVE SourceLive'
<1> USE PathFacts, ConstantsAssumption DEF IInv, Goto, Return, Die,
      disk, copies, records, journals, process, history
<1> USE DEF SourceLive, TypeOK, NoJob, Registered, Registry, EnablePending, RotatePending,
      RemovePending, Exported, Keyed, Installing, Retiring, Recovering, Rotating, Swapping,
      EnablePc, RotatePc, RemovePc, RecoverPc
<1>1. CASE UNCHANGED vars
  BY <1>1 DEF vars
<1>2. CASE Launch
  BY <1>2, SMTT(60) DEF Launch
<1>3. CASE UserStep
  BY <1>3, SMTT(60) DEF
     UserStep, OpenProfile, CloseProfile, WaitingLock,
     LockMeanwhile, Edit, BackUpNow, DeleteLeftovers, DeleteProfile,
     EnableBegin, RotateBegin, RemoveBegin, Opens, DueBackup, NewBackup
<1>4. CASE EnableStep
  <2>1. CASE EnableWriteJournal BY <2>1, EnableJournalWritten
  <2>2. CASE EnableExport BY <2>2 DEF EnableExport
  <2>3. CASE EnableWriteKey BY <2>3 DEF EnableWriteKey
  <2>4. ASSUME NEW b \in Backups, EnableConvert(b) PROVE SourceLive' BY <2>4 DEF EnableConvert
  <2>5. ASSUME NEW b \in Backups, EnableCollides(b) PROVE SourceLive' BY <2>5 DEF EnableCollides
  <2>6. CASE EnableBackupKey BY <2>6 DEF EnableBackupKey
  <2>7. CASE EnableOwnBackup BY <2>7 DEF EnableOwnBackup
  <2>8. CASE EnableBackupsDone BY <2>8 DEF EnableBackupsDone
  <2>9. CASE EnableCommit BY <2>9 DEF EnableCommit
  <2>10. CASE EnableWriteConfig BY <2>10 DEF EnableWriteConfig
  <2>11. CASE EnableRetireJournal BY <2>11 DEF EnableRetireJournal
  <2>12. CASE EnableSwap BY <2>12 DEF EnableSwap, DueBackup, NewBackup
  <2> QED
    BY <1>4, <2>1, <2>2, <2>3, <2>4, <2>5, <2>6, <2>7, <2>8, <2>9, <2>10, <2>11, <2>12 DEF
       EnableStep
<1>5. CASE RecoverEnableStep
  BY <1>5, SMTT(60) DEF
     RecoverEnableStep, RecoverEnableDeleteDb, RecoverEnableDeleteKey, RecoverEnableDeletePair,
     RecoverEnableDone, AfterRecoverEnable, EnableCommitted, OwnedOnDisk, Cleared, Deletable
<1>6. CASE RotateStep
  <2>1. CASE RotateWriteJournal BY <2>1, RotateJournalWritten
  <2>2. CASE RotateExport BY <2>2 DEF RotateExport
  <2>3. CASE RotateWriteKey BY <2>3 DEF RotateWriteKey, Listed
  <2>4. ASSUME NEW b \in Backups, RotateStage(b) PROVE SourceLive' BY <2>4 DEF RotateStage, Opens
  <2>5. ASSUME NEW b \in Backups, RotateBlocked(b) PROVE SourceLive'
    BY <2>5 DEF RotateBlocked, Opens
  <2>6. CASE RotateStageKey BY <2>6 DEF RotateStageKey
  <2>7. CASE RotateOwnStaged BY <2>7 DEF RotateOwnStaged
  <2>8. CASE RotateStagingDone BY <2>8 DEF RotateStagingDone
  <2>9. CASE RotateCommit BY <2>9 DEF RotateCommit
  <2>10. CASE RotateSwap BY <2>10 DEF RotateSwap, DueBackup, NewBackup
  <2> QED
    BY <1>6, <2>1, <2>2, <2>3, <2>4, <2>5, <2>6, <2>7, <2>8, <2>9, <2>10 DEF RotateStep
<1>7. CASE RecoverRotateStep
  BY <1>7, SMTT(60) DEF
     RecoverRotateStep, RecoverRotateResume, RecoverRotateDeleteDb, RecoverRotateDeleteKey,
     RecoverRotateDeleteStaged, InstallRemoveOld, InstallRename, InstallDone, InstallConfig,
     RetireOldDb, RetireOldKey, RetireRotation, RecoverRotateDone, AfterRecoverRotate,
     RotateCommitted, RotateUnwound, Ready, Cleared, Deletable
<1>8. CASE RemoveStep
  <2>1. CASE RemoveBackup BY <2>1 DEF RemoveBackup, NewBackup
  <2>2. CASE RemoveWriteJournal BY <2>2, RemoveJournalWritten
  <2>3. CASE RemoveExport BY <2>3 DEF RemoveExport
  <2>4. CASE RemoveCommit BY <2>4 DEF RemoveCommit
  <2>5. CASE RemoveConfig BY <2>5 DEF RemoveConfig
  <2>6. CASE RemoveSwap BY <2>6 DEF RemoveSwap, DueBackup, NewBackup
  <2> QED
    BY <1>8, <2>1, <2>2, <2>3, <2>4, <2>5, <2>6 DEF RemoveStep
<1>9. CASE RecoverRemoveStep
  BY <1>9, SMTT(60) DEF
     RecoverRemoveStep, RecoverRemoveResume, RecoverRemoveDeleteDb, RecoverRemoveDone,
     RetireEncryptedDb, RetireEncryptedKey, RetireConfig, RetireRemoval, AfterRecoverRemove,
     RemovalCommitted, Cleared, Deletable
<1>10. CASE Fails
  BY <1>10, SMTT(60) DEF
     Fails, EnableFault, EnableJournalFails, EnableFails, EnableCommitFails,
     EnableFailsAfterCommit, RecoverEnableFails, RotateFault, RotateJournalFails, RotateFails,
     RotateCommitFails, RotateSwapFails, InstallFails, RecoverRotateFails, RemoveFault,
     RemoveFailsEarly, RemoveFails, RemoveCommitFails, RemoveSwapFails, RetireRemovalFails,
     RecoverRemoveFails, RotateUnwound, RemovalCommitted, RotateCommitted, EnableCommitted,
     OwnedOnDisk, Cleared, Deletable
<1>11. CASE Kill
  BY <1>11, SMTT(60) DEF
     Kill, Crash, EnableKill, EnableKilledInExport, EnableKilledInConvert, RotateKill,
     RotateKilledInExport, RotateKilledInStage, RemoveKilledInExport
<1> QED
  BY <1>1, <1>2, <1>3, <1>4, <1>5, <1>6, <1>7, <1>8, <1>9, <1>10, <1>11 DEF Next, Work

\* A running change has chosen its source, target and key.
LEMMA LocalsSetKept ==
  ASSUME IInv, [Next]_vars, ~DeletesOpenFiles PROVE LocalsSet'
<1> USE PathFacts, ConstantsAssumption DEF IInv, Goto, Return, Die,
      disk, copies, records, journals, process, history
<1> USE DEF LocalsSet, SourceLive, TypeOK, Job, NoJob, EnablePending, RotatePending, RemovePending,
      Exported, Keyed, Installing, Retiring, Recovering, Rotating, Swapping, EnablePc,
      RotatePc, RemovePc, RecoverPc
<1>1. CASE UNCHANGED vars
  BY <1>1 DEF vars
<1>2. CASE Launch
  BY <1>2, SMTT(60) DEF Launch
<1>3. CASE UserStep
  BY <1>3, SMTT(60) DEF
     UserStep, OpenProfile, CloseProfile, WaitingLock,
     LockMeanwhile, Edit, BackUpNow, DeleteLeftovers, DeleteProfile,
     EnableBegin, RotateBegin, RemoveBegin, Opens, DueBackup, NewBackup
<1>4. CASE EnableStep
  <2>1. CASE EnableWriteJournal BY <2>1, EnableJournalWritten
  <2>2. CASE EnableExport BY <2>2 DEF EnableExport
  <2>3. CASE EnableWriteKey BY <2>3 DEF EnableWriteKey
  <2>4. ASSUME NEW b \in Backups, EnableConvert(b) PROVE LocalsSet' BY <2>4 DEF EnableConvert
  <2>5. ASSUME NEW b \in Backups, EnableCollides(b) PROVE LocalsSet' BY <2>5 DEF EnableCollides
  <2>6. CASE EnableBackupKey BY <2>6 DEF EnableBackupKey
  <2>7. CASE EnableOwnBackup BY <2>7 DEF EnableOwnBackup
  <2>8. CASE EnableBackupsDone BY <2>8 DEF EnableBackupsDone
  <2>9. CASE EnableCommit BY <2>9 DEF EnableCommit
  <2>10. CASE EnableWriteConfig BY <2>10 DEF EnableWriteConfig
  <2>11. CASE EnableRetireJournal BY <2>11 DEF EnableRetireJournal
  <2>12. CASE EnableSwap BY <2>12 DEF EnableSwap, DueBackup, NewBackup
  <2> QED
    BY <1>4, <2>1, <2>2, <2>3, <2>4, <2>5, <2>6, <2>7, <2>8, <2>9, <2>10, <2>11, <2>12 DEF
       EnableStep
<1>5. CASE RecoverEnableStep
  BY <1>5, SMTT(60) DEF
     RecoverEnableStep, RecoverEnableDeleteDb, RecoverEnableDeleteKey, RecoverEnableDeletePair,
     RecoverEnableDone, AfterRecoverEnable, EnableCommitted, OwnedOnDisk, Cleared, Deletable
<1>6. CASE RotateStep
  <2>1. CASE RotateWriteJournal BY <2>1, RotateJournalWritten
  <2>2. CASE RotateExport BY <2>2 DEF RotateExport
  <2>3. CASE RotateWriteKey BY <2>3 DEF RotateWriteKey, Listed
  <2>4. ASSUME NEW b \in Backups, RotateStage(b) PROVE LocalsSet' BY <2>4 DEF RotateStage, Opens
  <2>5. ASSUME NEW b \in Backups, RotateBlocked(b) PROVE LocalsSet'
    BY <2>5 DEF RotateBlocked, Opens
  <2>6. CASE RotateStageKey BY <2>6 DEF RotateStageKey
  <2>7. CASE RotateOwnStaged BY <2>7 DEF RotateOwnStaged
  <2>8. CASE RotateStagingDone BY <2>8 DEF RotateStagingDone
  <2>9. CASE RotateCommit BY <2>9 DEF RotateCommit
  <2>10. CASE RotateSwap BY <2>10 DEF RotateSwap, DueBackup, NewBackup
  <2> QED
    BY <1>6, <2>1, <2>2, <2>3, <2>4, <2>5, <2>6, <2>7, <2>8, <2>9, <2>10 DEF RotateStep
<1>7. CASE RecoverRotateStep
  <2>1. CASE RecoverRotateResume BY <2>1 DEF RecoverRotateResume, RotateCommitted
  <2>2. CASE RecoverRotateDeleteDb
    BY <2>2 DEF RecoverRotateDeleteDb, Cleared, RotateCommitted, Deletable
  <2>3. CASE RecoverRotateDeleteKey
    BY <2>3 DEF RecoverRotateDeleteKey, Cleared, RotateCommitted, Deletable
  <2>4. ASSUME NEW b \in Backups, NEW part \in {"db", "key"}, RecoverRotateDeleteStaged(b, part) PROVE LocalsSet'
    BY <2>4 DEF RecoverRotateDeleteStaged, Cleared, RotateCommitted, Deletable
  <2>5. ASSUME NEW b \in Backups, NEW part \in {"db", "key"}, InstallRemoveOld(b, part) PROVE LocalsSet'
    BY <2>5 DEF InstallRemoveOld, Ready
  <2>6. ASSUME NEW b \in Backups, NEW part \in {"db", "key"}, InstallRename(b, part) PROVE LocalsSet'
    BY <2>6 DEF InstallRename, Ready
  <2>7. CASE InstallDone BY <2>7 DEF InstallDone
  <2>8. CASE InstallConfig BY <2>8 DEF InstallConfig
  <2>9. CASE RetireOldDb BY <2>9 DEF RetireOldDb, Deletable
  <2>10. CASE RetireOldKey BY <2>10 DEF RetireOldKey
  <2>11. CASE RetireRotation BY <2>11 DEF RetireRotation, AfterRecoverRotate
  <2>12. CASE RecoverRotateDone
    BY <2>12 DEF RecoverRotateDone, AfterRecoverRotate, RotateCommitted, RotateUnwound,
       Cleared, Deletable
  <2> QED
    BY <1>7, <2>1, <2>2, <2>3, <2>4, <2>5, <2>6, <2>7, <2>8, <2>9, <2>10, <2>11, <2>12, SMTT(40) DEF
       RecoverRotateStep
<1>8. CASE RemoveStep
  <2>1. CASE RemoveBackup BY <2>1 DEF RemoveBackup, NewBackup
  <2>2. CASE RemoveWriteJournal BY <2>2, RemoveJournalWritten
  <2>3. CASE RemoveExport BY <2>3 DEF RemoveExport
  <2>4. CASE RemoveCommit BY <2>4 DEF RemoveCommit
  <2>5. CASE RemoveConfig BY <2>5 DEF RemoveConfig
  <2>6. CASE RemoveSwap BY <2>6 DEF RemoveSwap, DueBackup, NewBackup
  <2> QED
    BY <1>8, <2>1, <2>2, <2>3, <2>4, <2>5, <2>6 DEF RemoveStep
<1>9. CASE RecoverRemoveStep
  BY <1>9, SMTT(60) DEF
     RecoverRemoveStep, RecoverRemoveResume, RecoverRemoveDeleteDb, RecoverRemoveDone,
     RetireEncryptedDb, RetireEncryptedKey, RetireConfig, RetireRemoval, AfterRecoverRemove,
     RemovalCommitted, Cleared, Deletable
<1>10. CASE Fails
  <2>1. CASE EnableJournalFails BY <2>1 DEF EnableJournalFails
  <2>2. CASE EnableFails BY <2>2 DEF EnableFails
  <2>3. CASE EnableCommitFails BY <2>3 DEF EnableCommitFails
  <2>4. CASE EnableFailsAfterCommit BY <2>4 DEF EnableFailsAfterCommit
  <2>5. CASE RecoverEnableFails
    BY <2>5 DEF RecoverEnableFails, EnableCommitted, OwnedOnDisk, Cleared, Deletable
  <2>6. CASE RotateJournalFails BY <2>6 DEF RotateJournalFails
  <2>7. CASE RotateFails BY <2>7 DEF RotateFails
  <2>8. CASE RotateCommitFails BY <2>8 DEF RotateCommitFails
  <2>9. CASE RotateSwapFails BY <2>9 DEF RotateSwapFails
  <2>10. CASE InstallFails BY <2>10 DEF InstallFails, Deletable
  <2>11. CASE RecoverRotateFails
    BY <2>11 DEF RecoverRotateFails, RotateCommitted, RotateUnwound, Cleared, Deletable
  <2>12. CASE RemoveFailsEarly BY <2>12 DEF RemoveFailsEarly
  <2>13. CASE RemoveFails BY <2>13 DEF RemoveFails
  <2>14. CASE RemoveCommitFails BY <2>14 DEF RemoveCommitFails
  <2>15. CASE RemoveSwapFails BY <2>15 DEF RemoveSwapFails
  <2>16. CASE RetireRemovalFails BY <2>16 DEF RetireRemovalFails
  <2>17. CASE RecoverRemoveFails
    BY <2>17 DEF RecoverRemoveFails, Cleared, RemovalCommitted, Deletable
  <2> QED
    BY <1>10, <2>1, <2>2, <2>3, <2>4, <2>5, <2>6, <2>7, <2>8, <2>9, <2>10, <2>11, <2>12, <2>13,
       <2>14, <2>15, <2>16, <2>17 DEF Fails, EnableFault, RotateFault, RemoveFault
<1>11. CASE Kill
  BY <1>11, SMTT(60) DEF
     Kill, Crash, EnableKill, EnableKilledInExport, EnableKilledInConvert, RotateKill,
     RotateKilledInExport, RotateKilledInStage, RemoveKilledInExport
<1> QED
  BY <1>1, <1>2, <1>3, <1>4, <1>5, <1>6, <1>7, <1>8, <1>9, <1>10, <1>11 DEF Next, Work

\* A running change has its own journal on disk, with its own paths in it.
LEMMA JournalWrittenKept ==
  ASSUME IInv, [Next]_vars, ~DeletesOpenFiles PROVE JournalWritten'
<1> USE PathFacts, ConstantsAssumption DEF IInv, Goto, Return, Die,
      disk, copies, records, journals, process, history
<1> USE DEF JournalWritten, LocalsSet, TypeOK, NoJob, EnableJournal, RotateJournal, RemovalJournal,
      Job, EnablePending, RotatePending, RemovePending, Exported, Keyed, Installing, Retiring,
      Recovering, Rotating, Swapping, EnablePc, RotatePc, RemovePc, RecoverPc
<1>1. CASE UNCHANGED vars
  BY <1>1 DEF vars
<1>2. CASE Launch
  BY <1>2, SMTT(60) DEF Launch
<1>3. CASE UserStep
  BY <1>3, SMTT(60) DEF
     UserStep, OpenProfile, CloseProfile, WaitingLock,
     LockMeanwhile, Edit, BackUpNow, DeleteLeftovers, DeleteProfile,
     EnableBegin, RotateBegin, RemoveBegin, Opens, DueBackup, NewBackup
<1>4. CASE EnableStep
  <2>1. CASE EnableWriteJournal BY <2>1, EnableJournalWritten
  <2>2. CASE EnableExport BY <2>2 DEF EnableExport
  <2>3. CASE EnableWriteKey BY <2>3 DEF EnableWriteKey
  <2>4. ASSUME NEW b \in Backups, EnableConvert(b) PROVE JournalWritten' BY <2>4 DEF EnableConvert
  <2>5. ASSUME NEW b \in Backups, EnableCollides(b) PROVE JournalWritten'
    BY <2>5 DEF EnableCollides
  <2>6. CASE EnableBackupKey BY <2>6 DEF EnableBackupKey
  <2>7. CASE EnableOwnBackup BY <2>7 DEF EnableOwnBackup
  <2>8. CASE EnableBackupsDone BY <2>8 DEF EnableBackupsDone
  <2>9. CASE EnableCommit BY <2>9 DEF EnableCommit
  <2>10. CASE EnableWriteConfig BY <2>10 DEF EnableWriteConfig
  <2>11. CASE EnableRetireJournal BY <2>11 DEF EnableRetireJournal
  <2>12. CASE EnableSwap BY <2>12 DEF EnableSwap, DueBackup, NewBackup
  <2> QED
    BY <1>4, <2>1, <2>2, <2>3, <2>4, <2>5, <2>6, <2>7, <2>8, <2>9, <2>10, <2>11, <2>12 DEF
       EnableStep
<1>5. CASE RecoverEnableStep
  BY <1>5, SMTT(60) DEF
     RecoverEnableStep, RecoverEnableDeleteDb, RecoverEnableDeleteKey, RecoverEnableDeletePair,
     RecoverEnableDone, AfterRecoverEnable, EnableCommitted, OwnedOnDisk, Cleared, Deletable
<1>6. CASE RotateStep
  <2>1. CASE RotateWriteJournal BY <2>1, RotateJournalWritten
  <2>2. CASE RotateExport BY <2>2 DEF RotateExport
  <2>3. CASE RotateWriteKey BY <2>3 DEF RotateWriteKey, Listed
  <2>4. ASSUME NEW b \in Backups, RotateStage(b) PROVE JournalWritten'
    BY <2>4 DEF RotateStage, Opens
  <2>5. ASSUME NEW b \in Backups, RotateBlocked(b) PROVE JournalWritten'
    BY <2>5 DEF RotateBlocked, Opens
  <2>6. CASE RotateStageKey BY <2>6 DEF RotateStageKey
  <2>7. CASE RotateOwnStaged BY <2>7 DEF RotateOwnStaged
  <2>8. CASE RotateStagingDone BY <2>8 DEF RotateStagingDone
  <2>9. CASE RotateCommit BY <2>9 DEF RotateCommit
  <2>10. CASE RotateSwap BY <2>10 DEF RotateSwap, DueBackup, NewBackup
  <2> QED
    BY <1>6, <2>1, <2>2, <2>3, <2>4, <2>5, <2>6, <2>7, <2>8, <2>9, <2>10 DEF RotateStep
<1>7. CASE RecoverRotateStep
  BY <1>7, SMTT(60) DEF
     RecoverRotateStep, RecoverRotateResume, RecoverRotateDeleteDb, RecoverRotateDeleteKey,
     RecoverRotateDeleteStaged, InstallRemoveOld, InstallRename, InstallDone, InstallConfig,
     RetireOldDb, RetireOldKey, RetireRotation, RecoverRotateDone, AfterRecoverRotate,
     RotateCommitted, RotateUnwound, Ready, Cleared, Deletable
<1>8. CASE RemoveStep
  <2>1. CASE RemoveBackup BY <2>1 DEF RemoveBackup, NewBackup
  <2>2. CASE RemoveWriteJournal BY <2>2, RemoveJournalWritten
  <2>3. CASE RemoveExport BY <2>3 DEF RemoveExport
  <2>4. CASE RemoveCommit BY <2>4 DEF RemoveCommit
  <2>5. CASE RemoveConfig BY <2>5 DEF RemoveConfig
  <2>6. CASE RemoveSwap BY <2>6 DEF RemoveSwap, DueBackup, NewBackup
  <2> QED
    BY <1>8, <2>1, <2>2, <2>3, <2>4, <2>5, <2>6 DEF RemoveStep
<1>9. CASE RecoverRemoveStep
  BY <1>9, SMTT(60) DEF
     RecoverRemoveStep, RecoverRemoveResume, RecoverRemoveDeleteDb, RecoverRemoveDone,
     RetireEncryptedDb, RetireEncryptedKey, RetireConfig, RetireRemoval, AfterRecoverRemove,
     RemovalCommitted, Cleared, Deletable
<1>10. CASE Fails
  BY <1>10, SMTT(60) DEF
     Fails, EnableFault, EnableJournalFails, EnableFails, EnableCommitFails,
     EnableFailsAfterCommit, RecoverEnableFails, RotateFault, RotateJournalFails, RotateFails,
     RotateCommitFails, RotateSwapFails, InstallFails, RecoverRotateFails, RemoveFault,
     RemoveFailsEarly, RemoveFails, RemoveCommitFails, RemoveSwapFails, RetireRemovalFails,
     RecoverRemoveFails, RotateUnwound, RemovalCommitted, RotateCommitted, EnableCommitted,
     OwnedOnDisk, Cleared, Deletable
<1>11. CASE Kill
  BY <1>11, SMTT(60) DEF
     Kill, Crash, EnableKill, EnableKilledInExport, EnableKilledInConvert, RotateKill,
     RotateKilledInExport, RotateKilledInStage, RemoveKilledInExport
<1> QED
  BY <1>1, <1>2, <1>3, <1>4, <1>5, <1>6, <1>7, <1>8, <1>9, <1>10, <1>11 DEF Next, Work

\* Until the commit no entry names the target of a change, and the target
\* is complete before the commit is reached.
LEMMA TargetPreparedKept ==
  ASSUME IInv, [Next]_vars, ~DeletesOpenFiles PROVE TargetPrepared'
<1> USE PathFacts, ConstantsAssumption DEF IInv, Goto, Return, Die,
      disk, copies, records, journals, process, history
<1> USE DEF TargetPrepared, LocalsSet, SourceLive, RegisteredFileOpens, TypeOK, Registered, NoJob,
      Registry, EnablePending, RotatePending, RemovePending, Exported, Keyed, Installing,
      Retiring, Recovering, Rotating, Swapping, EnablePc, RotatePc, RemovePc, RecoverPc
<1>1. CASE UNCHANGED vars
  BY <1>1 DEF vars
<1>2. CASE Launch
  BY <1>2, SMTT(60) DEF Launch
<1>3. CASE UserStep
  BY <1>3, SMTT(60) DEF
     UserStep, OpenProfile, CloseProfile, WaitingLock,
     LockMeanwhile, Edit, BackUpNow, DeleteLeftovers, DeleteProfile,
     EnableBegin, RotateBegin, RemoveBegin, Opens, DueBackup, NewBackup
<1>4. CASE EnableStep
  <2>1. CASE EnableWriteJournal BY <2>1, EnableJournalWritten
  <2>2. CASE EnableExport BY <2>2 DEF EnableExport
  <2>3. CASE EnableWriteKey BY <2>3 DEF EnableWriteKey
  <2>4. ASSUME NEW b \in Backups, EnableConvert(b) PROVE TargetPrepared' BY <2>4 DEF EnableConvert
  <2>5. ASSUME NEW b \in Backups, EnableCollides(b) PROVE TargetPrepared'
    BY <2>5 DEF EnableCollides
  <2>6. CASE EnableBackupKey BY <2>6 DEF EnableBackupKey
  <2>7. CASE EnableOwnBackup BY <2>7 DEF EnableOwnBackup
  <2>8. CASE EnableBackupsDone BY <2>8 DEF EnableBackupsDone
  <2>9. CASE EnableCommit BY <2>9 DEF EnableCommit
  <2>10. CASE EnableWriteConfig BY <2>10 DEF EnableWriteConfig
  <2>11. CASE EnableRetireJournal BY <2>11 DEF EnableRetireJournal
  <2>12. CASE EnableSwap BY <2>12 DEF EnableSwap, DueBackup, NewBackup
  <2> QED
    BY <1>4, <2>1, <2>2, <2>3, <2>4, <2>5, <2>6, <2>7, <2>8, <2>9, <2>10, <2>11, <2>12 DEF
       EnableStep
<1>5. CASE RecoverEnableStep
  BY <1>5, SMTT(60) DEF
     RecoverEnableStep, RecoverEnableDeleteDb, RecoverEnableDeleteKey, RecoverEnableDeletePair,
     RecoverEnableDone, AfterRecoverEnable, EnableCommitted, OwnedOnDisk, Cleared, Deletable
<1>6. CASE RotateStep
  <2>1. CASE RotateWriteJournal BY <2>1, RotateJournalWritten
  <2>2. CASE RotateExport BY <2>2 DEF RotateExport
  <2>3. CASE RotateWriteKey BY <2>3 DEF RotateWriteKey, Listed
  <2>4. ASSUME NEW b \in Backups, RotateStage(b) PROVE TargetPrepared'
    BY <2>4 DEF RotateStage, Opens
  <2>5. ASSUME NEW b \in Backups, RotateBlocked(b) PROVE TargetPrepared'
    BY <2>5 DEF RotateBlocked, Opens
  <2>6. CASE RotateStageKey BY <2>6 DEF RotateStageKey
  <2>7. CASE RotateOwnStaged BY <2>7 DEF RotateOwnStaged
  <2>8. CASE RotateStagingDone BY <2>8 DEF RotateStagingDone
  <2>9. CASE RotateCommit BY <2>9 DEF RotateCommit
  <2>10. CASE RotateSwap BY <2>10 DEF RotateSwap, DueBackup, NewBackup
  <2> QED
    BY <1>6, <2>1, <2>2, <2>3, <2>4, <2>5, <2>6, <2>7, <2>8, <2>9, <2>10 DEF RotateStep
<1>7. CASE RecoverRotateStep
  <2>1. CASE RecoverRotateResume BY <2>1 DEF RecoverRotateResume, RotateCommitted
  <2>2. CASE RecoverRotateDeleteDb
    BY <2>2 DEF RecoverRotateDeleteDb, Cleared, RotateCommitted, Deletable
  <2>3. CASE RecoverRotateDeleteKey
    BY <2>3 DEF RecoverRotateDeleteKey, Cleared, RotateCommitted, Deletable
  <2>4. ASSUME NEW b \in Backups, NEW part \in {"db", "key"}, RecoverRotateDeleteStaged(b, part) PROVE TargetPrepared'
    BY <2>4 DEF RecoverRotateDeleteStaged, Cleared, RotateCommitted, Deletable
  <2>5. ASSUME NEW b \in Backups, NEW part \in {"db", "key"}, InstallRemoveOld(b, part) PROVE TargetPrepared'
    BY <2>5 DEF InstallRemoveOld, Ready
  <2>6. ASSUME NEW b \in Backups, NEW part \in {"db", "key"}, InstallRename(b, part) PROVE TargetPrepared'
    BY <2>6 DEF InstallRename, Ready
  <2>7. CASE InstallDone BY <2>7 DEF InstallDone
  <2>8. CASE InstallConfig BY <2>8 DEF InstallConfig
  <2>9. CASE RetireOldDb BY <2>9 DEF RetireOldDb, Deletable
  <2>10. CASE RetireOldKey BY <2>10 DEF RetireOldKey
  <2>11. CASE RetireRotation BY <2>11 DEF RetireRotation, AfterRecoverRotate
  <2>12. CASE RecoverRotateDone
    BY <2>12 DEF RecoverRotateDone, AfterRecoverRotate, RotateCommitted, RotateUnwound,
       Cleared, Deletable
  <2> QED
    BY <1>7, <2>1, <2>2, <2>3, <2>4, <2>5, <2>6, <2>7, <2>8, <2>9, <2>10, <2>11, <2>12, SMTT(40) DEF
       RecoverRotateStep
<1>8. CASE RemoveStep
  <2>1. CASE RemoveBackup BY <2>1 DEF RemoveBackup, NewBackup
  <2>2. CASE RemoveWriteJournal BY <2>2, RemoveJournalWritten
  <2>3. CASE RemoveExport BY <2>3 DEF RemoveExport
  <2>4. CASE RemoveCommit BY <2>4 DEF RemoveCommit
  <2>5. CASE RemoveConfig BY <2>5 DEF RemoveConfig
  <2>6. CASE RemoveSwap BY <2>6 DEF RemoveSwap, DueBackup, NewBackup
  <2> QED
    BY <1>8, <2>1, <2>2, <2>3, <2>4, <2>5, <2>6 DEF RemoveStep
<1>9. CASE RecoverRemoveStep
  BY <1>9, SMTT(60) DEF
     RecoverRemoveStep, RecoverRemoveResume, RecoverRemoveDeleteDb, RecoverRemoveDone,
     RetireEncryptedDb, RetireEncryptedKey, RetireConfig, RetireRemoval, AfterRecoverRemove,
     RemovalCommitted, Cleared, Deletable
<1>10. CASE Fails
  <2>1. CASE EnableJournalFails BY <2>1 DEF EnableJournalFails
  <2>2. CASE EnableFails BY <2>2 DEF EnableFails
  <2>3. CASE EnableCommitFails BY <2>3 DEF EnableCommitFails
  <2>4. CASE EnableFailsAfterCommit BY <2>4 DEF EnableFailsAfterCommit
  <2>5. CASE RecoverEnableFails
    BY <2>5 DEF RecoverEnableFails, EnableCommitted, OwnedOnDisk, Cleared, Deletable
  <2>6. CASE RotateJournalFails BY <2>6 DEF RotateJournalFails
  <2>7. CASE RotateFails BY <2>7 DEF RotateFails
  <2>8. CASE RotateCommitFails BY <2>8 DEF RotateCommitFails
  <2>9. CASE RotateSwapFails BY <2>9 DEF RotateSwapFails
  <2>10. CASE InstallFails BY <2>10 DEF InstallFails, Deletable
  <2>11. CASE RecoverRotateFails
    BY <2>11 DEF RecoverRotateFails, RotateCommitted, RotateUnwound, Cleared, Deletable
  <2>12. CASE RemoveFailsEarly BY <2>12 DEF RemoveFailsEarly
  <2>13. CASE RemoveFails BY <2>13 DEF RemoveFails
  <2>14. CASE RemoveCommitFails BY <2>14 DEF RemoveCommitFails
  <2>15. CASE RemoveSwapFails BY <2>15 DEF RemoveSwapFails
  <2>16. CASE RetireRemovalFails BY <2>16 DEF RetireRemovalFails
  <2>17. CASE RecoverRemoveFails
    BY <2>17 DEF RecoverRemoveFails, Cleared, RemovalCommitted, Deletable
  <2> QED
    BY <1>10, <2>1, <2>2, <2>3, <2>4, <2>5, <2>6, <2>7, <2>8, <2>9, <2>10, <2>11, <2>12, <2>13,
       <2>14, <2>15, <2>16, <2>17 DEF Fails, EnableFault, RotateFault, RemoveFault
<1>11. CASE Kill
  BY <1>11, SMTT(60) DEF
     Kill, Crash, EnableKill, EnableKilledInExport, EnableKilledInConvert, RotateKill,
     RotateKilledInExport, RotateKilledInStage, RemoveKilledInExport
<1> QED
  BY <1>1, <1>2, <1>3, <1>4, <1>5, <1>6, <1>7, <1>8, <1>9, <1>10, <1>11 DEF Next, Work

\* Only the database of a protected entry is rotated.
LEMMA RotatesProtectedKept ==
  ASSUME IInv, [Next]_vars, ~DeletesOpenFiles PROVE RotatesProtected'
<1> USE PathFacts, ConstantsAssumption DEF IInv, Goto, Return, Die,
      disk, copies, records, journals, process, history
<1> USE DEF RotatesProtected, RegisteredFileOpens, TypeOK, Registered, NoJob, Registry,
      EnablePending, RotatePending, RemovePending, Exported, Keyed, Installing, Retiring,
      Recovering, Rotating, Swapping, EnablePc, RotatePc, RemovePc, RecoverPc
<1>1. CASE UNCHANGED vars
  BY <1>1 DEF vars
<1>2. CASE Launch
  BY <1>2, SMTT(60) DEF Launch
<1>3. CASE UserStep
  BY <1>3, SMTT(60) DEF
     UserStep, OpenProfile, CloseProfile, WaitingLock,
     LockMeanwhile, Edit, BackUpNow, DeleteLeftovers, DeleteProfile,
     EnableBegin, RotateBegin, RemoveBegin, Opens, DueBackup, NewBackup
<1>4. CASE EnableStep
  <2>1. CASE EnableWriteJournal BY <2>1, EnableJournalWritten
  <2>2. CASE EnableExport BY <2>2 DEF EnableExport
  <2>3. CASE EnableWriteKey BY <2>3 DEF EnableWriteKey
  <2>4. ASSUME NEW b \in Backups, EnableConvert(b) PROVE RotatesProtected'
    BY <2>4 DEF EnableConvert
  <2>5. ASSUME NEW b \in Backups, EnableCollides(b) PROVE RotatesProtected'
    BY <2>5 DEF EnableCollides
  <2>6. CASE EnableBackupKey BY <2>6 DEF EnableBackupKey
  <2>7. CASE EnableOwnBackup BY <2>7 DEF EnableOwnBackup
  <2>8. CASE EnableBackupsDone BY <2>8 DEF EnableBackupsDone
  <2>9. CASE EnableCommit BY <2>9 DEF EnableCommit
  <2>10. CASE EnableWriteConfig BY <2>10 DEF EnableWriteConfig
  <2>11. CASE EnableRetireJournal BY <2>11 DEF EnableRetireJournal
  <2>12. CASE EnableSwap BY <2>12 DEF EnableSwap, DueBackup, NewBackup
  <2> QED
    BY <1>4, <2>1, <2>2, <2>3, <2>4, <2>5, <2>6, <2>7, <2>8, <2>9, <2>10, <2>11, <2>12 DEF
       EnableStep
<1>5. CASE RecoverEnableStep
  BY <1>5, SMTT(60) DEF
     RecoverEnableStep, RecoverEnableDeleteDb, RecoverEnableDeleteKey, RecoverEnableDeletePair,
     RecoverEnableDone, AfterRecoverEnable, EnableCommitted, OwnedOnDisk, Cleared, Deletable
<1>6. CASE RotateStep
  <2>1. CASE RotateWriteJournal BY <2>1, RotateJournalWritten
  <2>2. CASE RotateExport BY <2>2 DEF RotateExport
  <2>3. CASE RotateWriteKey BY <2>3 DEF RotateWriteKey, Listed
  <2>4. ASSUME NEW b \in Backups, RotateStage(b) PROVE RotatesProtected'
    BY <2>4 DEF RotateStage, Opens
  <2>5. ASSUME NEW b \in Backups, RotateBlocked(b) PROVE RotatesProtected'
    BY <2>5 DEF RotateBlocked, Opens
  <2>6. CASE RotateStageKey BY <2>6 DEF RotateStageKey
  <2>7. CASE RotateOwnStaged BY <2>7 DEF RotateOwnStaged
  <2>8. CASE RotateStagingDone BY <2>8 DEF RotateStagingDone
  <2>9. CASE RotateCommit BY <2>9 DEF RotateCommit
  <2>10. CASE RotateSwap BY <2>10 DEF RotateSwap, DueBackup, NewBackup
  <2> QED
    BY <1>6, <2>1, <2>2, <2>3, <2>4, <2>5, <2>6, <2>7, <2>8, <2>9, <2>10 DEF RotateStep
<1>7. CASE RecoverRotateStep
  BY <1>7, SMTT(60) DEF
     RecoverRotateStep, RecoverRotateResume, RecoverRotateDeleteDb, RecoverRotateDeleteKey,
     RecoverRotateDeleteStaged, InstallRemoveOld, InstallRename, InstallDone, InstallConfig,
     RetireOldDb, RetireOldKey, RetireRotation, RecoverRotateDone, AfterRecoverRotate,
     RotateCommitted, RotateUnwound, Ready, Cleared, Deletable
<1>8. CASE RemoveStep
  <2>1. CASE RemoveBackup BY <2>1 DEF RemoveBackup, NewBackup
  <2>2. CASE RemoveWriteJournal BY <2>2, RemoveJournalWritten
  <2>3. CASE RemoveExport BY <2>3 DEF RemoveExport
  <2>4. CASE RemoveCommit BY <2>4 DEF RemoveCommit
  <2>5. CASE RemoveConfig BY <2>5 DEF RemoveConfig
  <2>6. CASE RemoveSwap BY <2>6 DEF RemoveSwap, DueBackup, NewBackup
  <2> QED
    BY <1>8, <2>1, <2>2, <2>3, <2>4, <2>5, <2>6 DEF RemoveStep
<1>9. CASE RecoverRemoveStep
  BY <1>9, SMTT(60) DEF
     RecoverRemoveStep, RecoverRemoveResume, RecoverRemoveDeleteDb, RecoverRemoveDone,
     RetireEncryptedDb, RetireEncryptedKey, RetireConfig, RetireRemoval, AfterRecoverRemove,
     RemovalCommitted, Cleared, Deletable
<1>10. CASE Fails
  BY <1>10, SMTT(60) DEF
     Fails, EnableFault, EnableJournalFails, EnableFails, EnableCommitFails,
     EnableFailsAfterCommit, RecoverEnableFails, RotateFault, RotateJournalFails, RotateFails,
     RotateCommitFails, RotateSwapFails, InstallFails, RecoverRotateFails, RemoveFault,
     RemoveFailsEarly, RemoveFails, RemoveCommitFails, RemoveSwapFails, RetireRemovalFails,
     RecoverRemoveFails, RotateUnwound, RemovalCommitted, RotateCommitted, EnableCommitted,
     OwnedOnDisk, Cleared, Deletable
<1>11. CASE Kill
  BY <1>11, SMTT(60) DEF
     Kill, Crash, EnableKill, EnableKilledInExport, EnableKilledInConvert, RotateKill,
     RotateKilledInExport, RotateKilledInStage, RemoveKilledInExport
<1> QED
  BY <1>1, <1>2, <1>3, <1>4, <1>5, <1>6, <1>7, <1>8, <1>9, <1>10, <1>11 DEF Next, Work

\* No journal ever names, as a file its recovery deletes, the database the
\* entry names.
LEMMA JournalsSafeKept ==
  ASSUME IInv, [Next]_vars, ~DeletesOpenFiles PROVE JournalsSafe'
<1> USE PathFacts, ConstantsAssumption DEF IInv, Goto, Return, Die,
      disk, copies, records, journals, process, history
<1>1. ASSUME EnableCommit PROVE JournalsSafe'
  <2>1. CASE registry.listed
    <3>1. registry'.protected /\ registry'.listed /\ registry'.path = job.target
      BY <1>1, <2>1 DEF EnableCommit, TypeOK, Registry
    <3> QED
      BY <1>1, <3>1 DEF EnableCommit, JournalsSafe, Registered, Installing, Retiring
  <2>2. CASE ~registry.listed
    BY <1>1, <2>2 DEF EnableCommit, JournalsSafe, Registered, Installing, Retiring
  <2> QED
    BY <2>1, <2>2
<1> USE DEF JournalsSafe, JournalWritten, LocalsSet, SourceLive, SessionFileExists, TargetPrepared,
      RegisteredFileOpens, RotatesProtected, TypeOK, Registered, Registry, EnablePending,
      RotatePending, RemovePending, Exported, Keyed, Installing, Retiring, Recovering,
      Rotating, Swapping, EnablePc, RotatePc, RemovePc, RecoverPc
<1>2. CASE UNCHANGED vars
  BY <1>2 DEF vars
<1>3. CASE Launch
  BY <1>3, SMTT(60) DEF Launch
<1>4. CASE UserStep
  BY <1>4, SMTT(60) DEF
     UserStep, OpenProfile, CloseProfile, WaitingLock,
     LockMeanwhile, Edit, BackUpNow, DeleteLeftovers, DeleteProfile,
     EnableBegin, RotateBegin, RemoveBegin, Opens, DueBackup, NewBackup
<1>5. CASE EnableStep
  <2>1. CASE EnableWriteJournal BY <2>1, EnableJournalWritten
  <2>2. CASE EnableExport BY <2>2 DEF EnableExport
  <2>3. CASE EnableWriteKey BY <2>3 DEF EnableWriteKey
  <2>4. ASSUME NEW b \in Backups, EnableConvert(b) PROVE JournalsSafe' BY <2>4 DEF EnableConvert
  <2>5. ASSUME NEW b \in Backups, EnableCollides(b) PROVE JournalsSafe' BY <2>5 DEF EnableCollides
  <2>6. CASE EnableBackupKey BY <2>6 DEF EnableBackupKey
  <2>7. CASE EnableOwnBackup BY <2>7 DEF EnableOwnBackup
  <2>8. CASE EnableBackupsDone BY <2>8 DEF EnableBackupsDone
  <2>9. CASE EnableCommit BY <2>9, <1>1
  <2>10. CASE EnableWriteConfig BY <2>10 DEF EnableWriteConfig
  <2>11. CASE EnableRetireJournal BY <2>11 DEF EnableRetireJournal
  <2>12. CASE EnableSwap BY <2>12 DEF EnableSwap, DueBackup, NewBackup
  <2> QED
    BY <1>5, <2>1, <2>2, <2>3, <2>4, <2>5, <2>6, <2>7, <2>8, <2>9, <2>10, <2>11, <2>12 DEF
       EnableStep
<1>6. CASE RecoverEnableStep
  BY <1>6, SMTT(60) DEF
     RecoverEnableStep, RecoverEnableDeleteDb, RecoverEnableDeleteKey, RecoverEnableDeletePair,
     RecoverEnableDone, AfterRecoverEnable, EnableCommitted, OwnedOnDisk, Cleared, Deletable
<1>7. CASE RotateStep
  <2>1. CASE RotateWriteJournal BY <2>1, RotateJournalWritten
  <2>2. CASE RotateExport BY <2>2 DEF RotateExport
  <2>3. CASE RotateWriteKey BY <2>3 DEF RotateWriteKey, Listed
  <2>4. ASSUME NEW b \in Backups, RotateStage(b) PROVE JournalsSafe'
    BY <2>4 DEF RotateStage, Opens
  <2>5. ASSUME NEW b \in Backups, RotateBlocked(b) PROVE JournalsSafe'
    BY <2>5 DEF RotateBlocked, Opens
  <2>6. CASE RotateStageKey BY <2>6 DEF RotateStageKey
  <2>7. CASE RotateOwnStaged BY <2>7 DEF RotateOwnStaged
  <2>8. CASE RotateStagingDone BY <2>8 DEF RotateStagingDone
  <2>9. CASE RotateCommit BY <2>9 DEF RotateCommit
  <2>10. CASE RotateSwap BY <2>10 DEF RotateSwap, DueBackup, NewBackup
  <2> QED
    BY <1>7, <2>1, <2>2, <2>3, <2>4, <2>5, <2>6, <2>7, <2>8, <2>9, <2>10 DEF RotateStep
<1>8. CASE RecoverRotateStep
  BY <1>8, SMTT(60) DEF
     RecoverRotateStep, RecoverRotateResume, RecoverRotateDeleteDb, RecoverRotateDeleteKey,
     RecoverRotateDeleteStaged, InstallRemoveOld, InstallRename, InstallDone, InstallConfig,
     RetireOldDb, RetireOldKey, RetireRotation, RecoverRotateDone, AfterRecoverRotate,
     RotateCommitted, RotateUnwound, Ready, Cleared, Deletable
<1>9. CASE RemoveStep
  <2>1. CASE RemoveBackup BY <2>1 DEF RemoveBackup, NewBackup
  <2>2. CASE RemoveWriteJournal BY <2>2, RemoveJournalWritten
  <2>3. CASE RemoveExport BY <2>3 DEF RemoveExport
  <2>4. CASE RemoveCommit BY <2>4 DEF RemoveCommit
  <2>5. CASE RemoveConfig BY <2>5 DEF RemoveConfig
  <2>6. CASE RemoveSwap BY <2>6 DEF RemoveSwap, DueBackup, NewBackup
  <2> QED
    BY <1>9, <2>1, <2>2, <2>3, <2>4, <2>5, <2>6 DEF RemoveStep
<1>10. CASE RecoverRemoveStep
  BY <1>10, SMTT(60) DEF
     RecoverRemoveStep, RecoverRemoveResume, RecoverRemoveDeleteDb, RecoverRemoveDone,
     RetireEncryptedDb, RetireEncryptedKey, RetireConfig, RetireRemoval, AfterRecoverRemove,
     RemovalCommitted, Cleared, Deletable
<1>11. CASE Fails
  BY <1>11, SMTT(60) DEF
     Fails, EnableFault, EnableJournalFails, EnableFails, EnableCommitFails,
     EnableFailsAfterCommit, RecoverEnableFails, RotateFault, RotateJournalFails, RotateFails,
     RotateCommitFails, RotateSwapFails, InstallFails, RecoverRotateFails, RemoveFault,
     RemoveFailsEarly, RemoveFails, RemoveCommitFails, RemoveSwapFails, RetireRemovalFails,
     RecoverRemoveFails, RotateUnwound, RemovalCommitted, RotateCommitted, EnableCommitted,
     OwnedOnDisk, Cleared, Deletable
<1>12. CASE Kill
  BY <1>12, SMTT(60) DEF
     Kill, Crash, EnableKill, EnableKilledInExport, EnableKilledInConvert, RotateKill,
     RotateKilledInExport, RotateKilledInStage, RemoveKilledInExport
<1> QED
  BY <1>2, <1>3, <1>4, <1>5, <1>6, <1>7, <1>8, <1>9, <1>10, <1>11, <1>12 DEF Next, Work

\* The file of an open session is not deleted (a platform that refuses to
\* delete an open database).
LEMMA SessionFileExistsKept ==
  ASSUME IInv, [Next]_vars, ~DeletesOpenFiles PROVE SessionFileExists'
<1> USE PathFacts, ConstantsAssumption DEF IInv, Goto, Return, Die,
      disk, copies, records, journals, process, history
<1> USE DEF SessionFileExists, TypeOK, LocalsSet, TargetPrepared, JournalsSafe, SourceLive,
      JournalWritten, Job, Registered, EnablePending, RotatePending, RemovePending, Exported,
      Keyed, Installing, Retiring, Recovering, Rotating, Swapping, EnablePc, RotatePc,
      RemovePc, RecoverPc
<1>1. CASE UNCHANGED vars
  BY <1>1 DEF vars
<1>2. CASE Launch
  BY <1>2, SMTT(60) DEF Launch
<1>3. CASE UserStep
  BY <1>3, SMTT(60) DEF
     UserStep, OpenProfile, CloseProfile, WaitingLock,
     LockMeanwhile, Edit, BackUpNow, DeleteLeftovers, DeleteProfile,
     EnableBegin, RotateBegin, RemoveBegin, Opens, DueBackup, NewBackup
<1>4. CASE EnableStep
  <2>1. CASE EnableWriteJournal BY <2>1 DEF EnableWriteJournal, LowestFree
  <2>2. CASE EnableExport BY <2>2 DEF EnableExport
  <2>3. CASE EnableWriteKey BY <2>3 DEF EnableWriteKey
  <2>4. ASSUME NEW b \in Backups, EnableConvert(b) PROVE SessionFileExists'
    BY <2>4 DEF EnableConvert
  <2>5. ASSUME NEW b \in Backups, EnableCollides(b) PROVE SessionFileExists'
    BY <2>5 DEF EnableCollides
  <2>6. CASE EnableBackupKey BY <2>6 DEF EnableBackupKey
  <2>7. CASE EnableOwnBackup BY <2>7 DEF EnableOwnBackup
  <2>8. CASE EnableBackupsDone BY <2>8 DEF EnableBackupsDone
  <2>9. CASE EnableCommit BY <2>9 DEF EnableCommit
  <2>10. CASE EnableWriteConfig BY <2>10 DEF EnableWriteConfig
  <2>11. CASE EnableRetireJournal BY <2>11 DEF EnableRetireJournal
  <2>12. CASE EnableSwap BY <2>12 DEF EnableSwap, DueBackup, NewBackup
  <2> QED
    BY <1>4, <2>1, <2>2, <2>3, <2>4, <2>5, <2>6, <2>7, <2>8, <2>9, <2>10, <2>11, <2>12 DEF
       EnableStep
<1>5. CASE RecoverEnableStep
  BY <1>5, SMTT(60) DEF
     RecoverEnableStep, RecoverEnableDeleteDb, RecoverEnableDeleteKey, RecoverEnableDeletePair,
     RecoverEnableDone, AfterRecoverEnable, EnableCommitted, OwnedOnDisk, Cleared, Deletable
<1>6. CASE RotateStep
  <2>1. CASE RotateWriteJournal BY <2>1 DEF RotateWriteJournal, LowestFree
  <2>2. CASE RotateExport BY <2>2 DEF RotateExport
  <2>3. CASE RotateWriteKey BY <2>3 DEF RotateWriteKey, Listed
  <2>4. ASSUME NEW b \in Backups, RotateStage(b) PROVE SessionFileExists'
    BY <2>4 DEF RotateStage, Opens
  <2>5. ASSUME NEW b \in Backups, RotateBlocked(b) PROVE SessionFileExists'
    BY <2>5 DEF RotateBlocked, Opens
  <2>6. CASE RotateStageKey BY <2>6 DEF RotateStageKey
  <2>7. CASE RotateOwnStaged BY <2>7 DEF RotateOwnStaged
  <2>8. CASE RotateStagingDone BY <2>8 DEF RotateStagingDone
  <2>9. CASE RotateCommit BY <2>9 DEF RotateCommit
  <2>10. CASE RotateSwap BY <2>10 DEF RotateSwap, DueBackup, NewBackup
  <2> QED
    BY <1>6, <2>1, <2>2, <2>3, <2>4, <2>5, <2>6, <2>7, <2>8, <2>9, <2>10 DEF RotateStep
<1>7. CASE RecoverRotateStep
  BY <1>7, SMTT(60) DEF
     RecoverRotateStep, RecoverRotateResume, RecoverRotateDeleteDb, RecoverRotateDeleteKey,
     RecoverRotateDeleteStaged, InstallRemoveOld, InstallRename, InstallDone, InstallConfig,
     RetireOldDb, RetireOldKey, RetireRotation, RecoverRotateDone, AfterRecoverRotate,
     RotateCommitted, RotateUnwound, Ready, Cleared, Deletable
<1>8. CASE RemoveStep
  <2>1. CASE RemoveBackup BY <2>1 DEF RemoveBackup, NewBackup
  <2>2. CASE RemoveWriteJournal BY <2>2 DEF RemoveWriteJournal, LowestFree
  <2>3. CASE RemoveExport BY <2>3 DEF RemoveExport
  <2>4. CASE RemoveCommit BY <2>4 DEF RemoveCommit
  <2>5. CASE RemoveConfig BY <2>5 DEF RemoveConfig
  <2>6. CASE RemoveSwap BY <2>6 DEF RemoveSwap, DueBackup, NewBackup
  <2> QED
    BY <1>8, <2>1, <2>2, <2>3, <2>4, <2>5, <2>6 DEF RemoveStep
<1>9. CASE RecoverRemoveStep
  BY <1>9, SMTT(60) DEF
     RecoverRemoveStep, RecoverRemoveResume, RecoverRemoveDeleteDb, RecoverRemoveDone,
     RetireEncryptedDb, RetireEncryptedKey, RetireConfig, RetireRemoval, AfterRecoverRemove,
     RemovalCommitted, Cleared, Deletable
<1>10. CASE Fails
  BY <1>10, SMTT(60) DEF
     Fails, EnableFault, EnableJournalFails, EnableFails, EnableCommitFails,
     EnableFailsAfterCommit, RecoverEnableFails, RotateFault, RotateJournalFails, RotateFails,
     RotateCommitFails, RotateSwapFails, InstallFails, RecoverRotateFails, RemoveFault,
     RemoveFailsEarly, RemoveFails, RemoveCommitFails, RemoveSwapFails, RetireRemovalFails,
     RecoverRemoveFails, RotateUnwound, RemovalCommitted, RotateCommitted, EnableCommitted,
     OwnedOnDisk, Cleared, Deletable
<1>11. CASE Kill
  BY <1>11, SMTT(60) DEF
     Kill, Crash, EnableKill, EnableKilledInExport, EnableKilledInConvert, RotateKill,
     RotateKilledInExport, RotateKilledInStage, RemoveKilledInExport
<1> QED
  BY <1>1, <1>2, <1>3, <1>4, <1>5, <1>6, <1>7, <1>8, <1>9, <1>10, <1>11 DEF Next, Work

\* The entry keeps naming a complete database of the kind it records.
LEMMA RegisteredFileOpensKept ==
  ASSUME IInv, [Next]_vars, ~DeletesOpenFiles PROVE RegisteredFileOpens'
<1> USE PathFacts, ConstantsAssumption DEF IInv, Goto, Return, Die,
      disk, copies, records, journals, process, history
<1>1. ASSUME EnableCommit PROVE RegisteredFileOpens'
  <2>1. CASE registry.listed
    <3>1. registry'.protected /\ registry'.listed /\ registry'.path = job.target
      BY <1>1, <2>1 DEF EnableCommit, TypeOK, Registry
    <3>2. content[job.target] = job.dek /\ keyOf[job.target] = job.dek /\ job.dek \in Deks
      BY <1>1 DEF EnableCommit, TargetPrepared, LocalsSet, Exported, Keyed, EnablePending
    <3> QED
      BY <1>1, <3>1, <3>2 DEF EnableCommit, RegisteredFileOpens
  <2>2. CASE ~registry.listed
    BY <1>1, <2>2 DEF EnableCommit, RegisteredFileOpens
  <2> QED
    BY <2>1, <2>2
<1> USE DEF RegisteredFileOpens, LocalsSet, JournalWritten, RotatesProtected, JournalsSafe,
      TargetPrepared, TypeOK, Registered, Registry, EnablePending, RotatePending,
      RemovePending, Exported, Keyed, Installing, Retiring, Recovering, Rotating, Swapping,
      EnablePc, RotatePc, RemovePc, RecoverPc
<1>2. CASE UNCHANGED vars
  BY <1>2 DEF vars
<1>3. CASE Launch
  BY <1>3, SMTT(60) DEF Launch
<1>4. CASE UserStep
  BY <1>4, SMTT(60) DEF
     UserStep, OpenProfile, CloseProfile, WaitingLock,
     LockMeanwhile, Edit, BackUpNow, DeleteLeftovers, DeleteProfile,
     EnableBegin, RotateBegin, RemoveBegin, Opens, DueBackup, NewBackup
<1>5. CASE EnableStep
  <2>1. CASE EnableWriteJournal BY <2>1 DEF EnableWriteJournal, LowestFree
  <2>2. CASE EnableExport BY <2>2 DEF EnableExport
  <2>3. CASE EnableWriteKey BY <2>3 DEF EnableWriteKey
  <2>4. ASSUME NEW b \in Backups, EnableConvert(b) PROVE RegisteredFileOpens'
    BY <2>4 DEF EnableConvert
  <2>5. ASSUME NEW b \in Backups, EnableCollides(b) PROVE RegisteredFileOpens'
    BY <2>5 DEF EnableCollides
  <2>6. CASE EnableBackupKey BY <2>6 DEF EnableBackupKey
  <2>7. CASE EnableOwnBackup BY <2>7 DEF EnableOwnBackup
  <2>8. CASE EnableBackupsDone BY <2>8 DEF EnableBackupsDone
  <2>9. CASE EnableCommit BY <2>9, <1>1
  <2>10. CASE EnableWriteConfig BY <2>10 DEF EnableWriteConfig
  <2>11. CASE EnableRetireJournal BY <2>11 DEF EnableRetireJournal
  <2>12. CASE EnableSwap BY <2>12 DEF EnableSwap, DueBackup, NewBackup
  <2> QED
    BY <1>5, <2>1, <2>2, <2>3, <2>4, <2>5, <2>6, <2>7, <2>8, <2>9, <2>10, <2>11, <2>12 DEF
       EnableStep
<1>6. CASE RecoverEnableStep
  BY <1>6, SMTT(60) DEF
     RecoverEnableStep, RecoverEnableDeleteDb, RecoverEnableDeleteKey, RecoverEnableDeletePair,
     RecoverEnableDone, AfterRecoverEnable, EnableCommitted, OwnedOnDisk, Cleared, Deletable
<1>7. CASE RotateStep
  <2>1. CASE RotateWriteJournal BY <2>1 DEF RotateWriteJournal, LowestFree
  <2>2. CASE RotateExport BY <2>2 DEF RotateExport
  <2>3. CASE RotateWriteKey BY <2>3 DEF RotateWriteKey, Listed
  <2>4. ASSUME NEW b \in Backups, RotateStage(b) PROVE RegisteredFileOpens'
    BY <2>4 DEF RotateStage, Opens
  <2>5. ASSUME NEW b \in Backups, RotateBlocked(b) PROVE RegisteredFileOpens'
    BY <2>5 DEF RotateBlocked, Opens
  <2>6. CASE RotateStageKey BY <2>6 DEF RotateStageKey
  <2>7. CASE RotateOwnStaged BY <2>7 DEF RotateOwnStaged
  <2>8. CASE RotateStagingDone BY <2>8 DEF RotateStagingDone
  <2>9. CASE RotateCommit BY <2>9 DEF RotateCommit
  <2>10. CASE RotateSwap BY <2>10 DEF RotateSwap, DueBackup, NewBackup
  <2> QED
    BY <1>7, <2>1, <2>2, <2>3, <2>4, <2>5, <2>6, <2>7, <2>8, <2>9, <2>10 DEF RotateStep
<1>8. CASE RecoverRotateStep
  BY <1>8, SMTT(60) DEF
     RecoverRotateStep, RecoverRotateResume, RecoverRotateDeleteDb, RecoverRotateDeleteKey,
     RecoverRotateDeleteStaged, InstallRemoveOld, InstallRename, InstallDone, InstallConfig,
     RetireOldDb, RetireOldKey, RetireRotation, RecoverRotateDone, AfterRecoverRotate,
     RotateCommitted, RotateUnwound, Ready, Cleared, Deletable
<1>9. CASE RemoveStep
  <2>1. CASE RemoveBackup BY <2>1 DEF RemoveBackup, NewBackup
  <2>2. CASE RemoveWriteJournal BY <2>2 DEF RemoveWriteJournal, LowestFree
  <2>3. CASE RemoveExport BY <2>3 DEF RemoveExport
  <2>4. CASE RemoveCommit BY <2>4 DEF RemoveCommit
  <2>5. CASE RemoveConfig BY <2>5 DEF RemoveConfig
  <2>6. CASE RemoveSwap BY <2>6 DEF RemoveSwap, DueBackup, NewBackup
  <2> QED
    BY <1>9, <2>1, <2>2, <2>3, <2>4, <2>5, <2>6 DEF RemoveStep
<1>10. CASE RecoverRemoveStep
  BY <1>10, SMTT(60) DEF
     RecoverRemoveStep, RecoverRemoveResume, RecoverRemoveDeleteDb, RecoverRemoveDone,
     RetireEncryptedDb, RetireEncryptedKey, RetireConfig, RetireRemoval, AfterRecoverRemove,
     RemovalCommitted, Cleared, Deletable
<1>11. CASE Fails
  BY <1>11, SMTT(60) DEF
     Fails, EnableFault, EnableJournalFails, EnableFails, EnableCommitFails,
     EnableFailsAfterCommit, RecoverEnableFails, RotateFault, RotateJournalFails, RotateFails,
     RotateCommitFails, RotateSwapFails, InstallFails, RecoverRotateFails, RemoveFault,
     RemoveFailsEarly, RemoveFails, RemoveCommitFails, RemoveSwapFails, RetireRemovalFails,
     RecoverRemoveFails, RotateUnwound, RemovalCommitted, RotateCommitted, EnableCommitted,
     OwnedOnDisk, Cleared, Deletable
<1>12. CASE Kill
  BY <1>12, SMTT(60) DEF
     Kill, Crash, EnableKill, EnableKilledInExport, EnableKilledInConvert, RotateKill,
     RotateKilledInExport, RotateKilledInStage, RemoveKilledInExport
<1> QED
  BY <1>2, <1>3, <1>4, <1>5, <1>6, <1>7, <1>8, <1>9, <1>10, <1>11, <1>12 DEF Next, Work

\* Every initial state satisfies the inductive invariant.
LEMMA InitIInv == ASSUME Init PROVE IInv
<1> USE PathFacts, ConstantsAssumption DEF Init
<1>1. TypeOK
  <2>1. <<"base", 1>> \in Paths /\ NoPair \in Pair /\ NoJob \in Job
    BY DEF Pair, NoPair, Job, NoJob, Content, KeyFile
  <2>2. registry \in Registry
    <3>1. PICK q \in BOOLEAN :
            registry = [listed |-> TRUE, path |-> <<"base", 1>>, protected |-> q, former |-> None]
      OBVIOUS
    <3> QED
      BY <2>1, <3>1 DEF Registry
  <2>3. content \in [Paths -> Content] /\ keyOf \in [Paths -> KeyFile] /\ saved \in [Paths -> Nat]
    BY <2>1 DEF Content, KeyFile
  <2>4. used \subseteq Deks /\ plain \subseteq Backups /\ made \subseteq Backups
    OBVIOUS
  <2> QED
    BY <2>1, <2>2, <2>3, <2>4 DEF TypeOK, ProgramCounters, Continuations
<1>2. SourceLive /\ LocalsSet /\ JournalWritten
  BY DEF SourceLive, LocalsSet, JournalWritten, Swapping, EnablePending, RotatePending,
     RemovePending, Installing, Retiring, Recovering, EnablePc, RotatePc, RemovePc, RecoverPc
<1>3. TargetPrepared /\ RotatesProtected
  BY DEF TargetPrepared, RotatesProtected, Swapping, EnablePending, RotatePending,
     RemovePending, Exported, Keyed, Rotating
<1>4. JournalsSafe /\ SessionFileExists
  BY DEF JournalsSafe, SessionFileExists, Installing, Retiring
<1>5. RegisteredFileOpens
  BY DEF RegisteredFileOpens
<1> QED
  BY <1>1, <1>2, <1>3, <1>4, <1>5 DEF IInv

\* The inductive invariant holds at every moment.
THEOREM Inductive == ASSUME ~DeletesOpenFiles PROVE Spec => []IInv
<1>1. Init => IInv
  BY InitIInv
<1>2. IInv /\ [Next]_vars => IInv'
  <2> SUFFICES ASSUME IInv, [Next]_vars PROVE IInv'
    OBVIOUS
  <2> QED
    BY TypeOKKept, SourceLiveKept, LocalsSetKept, JournalWrittenKept, TargetPreparedKept,
       RotatesProtectedKept, JournalsSafeKept, SessionFileExistsKept, RegisteredFileOpensKept
       DEF IInv
<1> QED
  BY <1>1, <1>2, PTL DEF Spec

\* The variables keep their types: no record written by one change is read by
\* another as something else.
THEOREM TypeCorrect == ASSUME ~DeletesOpenFiles PROVE Spec => []TypeOK
<1>1. IInv => TypeOK
  BY DEF IInv
<1> QED
  BY <1>1, Inductive, PTL

\* Whatever is killed and whatever write or deletion fails, the profile's entry
\* names a complete database of the kind it records, beside its own key file.
THEOREM RegisteredDatabaseOpens == ASSUME ~DeletesOpenFiles PROVE Spec => []RegisteredFileOpens
<1>1. IInv => RegisteredFileOpens
  BY DEF IInv
<1> QED
  BY <1>1, Inductive, PTL
=============================================================================
