--------------------------- MODULE Backups_proofs ---------------------------
(***************************************************************************)
(* KeptOpen, SkippedWhenCovered and NothingReplaced for every retention,   *)
(* every interval, every range of the clock and any contents.              *)
(***************************************************************************)
EXTENDS Backups, FiniteSetTheorems, WellFoundedInduction, TLAPS

\* The database files of a folder d that are newer than n.
NewerIn(d, n) == {m \in Names : d[m] # Absent /\ Later(m, n)}

\* What is in the profile's own folder, and what a command will put there, are
\* states its database had.
OwnBackups ==
  /\ \A n \in Names : dbs["local"][n] # Foreign
  /\ job.step # "idle" => job.saved \in Contents
  /\ job.kind = "restore" => job.chosen \in Contents

\* Between the two renames the key is there and the database is not; in the
\* profile's own folder the key is not forgotten.
HalfPublished ==
  /\ job.step = "rename" =>
       /\ dbs[job.at][job.name] = Absent
       /\ job.keyed => job.name \in keys[job.at]
  /\ job.at = "local" /\ job.step \in {"publish", "rename"} => job.keyed = protected
  /\ job.step = "copy" => job.at = "second"

\* What is still to be pruned stays older than Keep other backups.
VictimsOld ==
  job.step \in {"prune", "unlink"} =>
    \A v \in job.victims : Cardinality(Newer(job.at, v)) >= Keep

\* The inductive invariant.
BInv == TypeOK /\ OwnBackups /\ HalfPublished /\ VictimsOld /\ KeptOpen

-----------------------------------------------------------------------------
(* Names and their order *)

LEMMA LaterFacts ==
  ASSUME NEW a \in Names, NEW b \in Names, NEW c \in Names
  PROVE  /\ ~Later(a, a)
         /\ Later(a, b) /\ Later(b, c) => Later(a, c)
         /\ Later(a, b) => a[1] >= b[1]
BY BackupsAssumption DEF Later, Names

\* There are finitely many names, so the newer ones can be counted.
LEMMA NewerFinite ==
  ASSUME NEW d, NEW n
  PROVE  /\ IsFiniteSet(NewerIn(d, n)) /\ Cardinality(NewerIn(d, n)) \in Nat
<1>1. IsFiniteSet(0..MaxTime) /\ IsFiniteSet(1..MaxSuffix)
  BY FS_Interval, BackupsAssumption
<1>2. IsFiniteSet(Names)
  BY <1>1, FS_Product DEF Names
<1>3. NewerIn(d, n) \in SUBSET Names
  BY DEF NewerIn
<1>4. IsFiniteSet(NewerIn(d, n))
  BY <1>2, <1>3, FS_Subset
<1> QED
  BY <1>4, FS_CardinalityType

\* A name that has Keep newer ones keeps them when no database goes.
LEMMA AddingKeepsOld ==
  ASSUME NEW d, NEW e, NEW n,
         \A m \in Names : d[m] # Absent => e[m] # Absent,
         Cardinality(NewerIn(d, n)) >= Keep
  PROVE  Cardinality(NewerIn(e, n)) >= Keep
<1>1. NewerIn(d, n) \in SUBSET NewerIn(e, n)
  BY DEF NewerIn
<1>2. Cardinality(NewerIn(d, n)) <= Cardinality(NewerIn(e, n))
  BY <1>1, NewerFinite, FS_Subset
<1> QED
  BY <1>2, NewerFinite, BackupsAssumption

\* It also keeps them when the only one that goes has Keep newer ones itself.
LEMMA PruningKeepsOld ==
  ASSUME NEW d, NEW e, NEW n \in Names, NEW v \in Names,
         \A m \in Names \ {v} : e[m] = d[m],
         Cardinality(NewerIn(d, v)) >= Keep,
         Cardinality(NewerIn(d, n)) >= Keep
  PROVE  Cardinality(NewerIn(e, n)) >= Keep
<1>1. CASE v \in NewerIn(d, n)
  <2>1. NewerIn(d, v) \in SUBSET NewerIn(e, n)
    BY <1>1, LaterFacts DEF NewerIn
  <2>2. Cardinality(NewerIn(d, v)) <= Cardinality(NewerIn(e, n))
    BY <2>1, NewerFinite, FS_Subset
  <2> QED
    BY <2>2, NewerFinite, BackupsAssumption
<1>2. CASE v \notin NewerIn(d, n)
  <2>1. NewerIn(d, n) \in SUBSET NewerIn(e, n)
    BY <1>2 DEF NewerIn
  <2>2. Cardinality(NewerIn(d, n)) <= Cardinality(NewerIn(e, n))
    BY <2>1, NewerFinite, FS_Subset
  <2> QED
    BY <2>2, NewerFinite, BackupsAssumption
<1> QED
  BY <1>1, <1>2

LEMMA NewerIsNewerIn ==
  ASSUME NEW f, NEW n
  PROVE  Newer(f, n) = NewerIn(dbs[f], n)
BY DEF Newer, NewerIn, Present

-----------------------------------------------------------------------------
(* Every step keeps BInv *)

\* What the idle job is, which every command returns to and every kill leaves.
LEMMA IdleFacts ==
  /\ Idle.kind = "idle" /\ Idle.step = "idle" /\ Idle.at = "local" /\ Idle.victims = {}
  /\ Idle \in Jobs
<1>1. <<0, 1>> \in Names
  BY BackupsAssumption DEF Names
<1> QED
  BY <1>1 DEF Idle, Jobs, Folders

\* A command that ends or is cut short leaves nothing the invariant speaks of.
LEMMA FailsKeeps ==
  ASSUME BInv, Fails
  PROVE  /\ job'.step \in {"idle", "done"}
         /\ job'.step # "idle" => job'.saved = job.saved
         /\ job'.kind = "restore" => job.kind = "restore" /\ job'.chosen = job.chosen
         /\ job' \in Jobs
BY IdleFacts DEF BInv, TypeOK, Fails, Jobs

\* A snapshot starts in the profile's own folder, under a name nothing has, with
\* what the database holds; a restore has extracted something by then.
LEMMA SnapshotStarts ==
  ASSUME BInv, BackUpNow \/ BackUpIfDue \/ Restore
  PROVE  /\ job' \in Jobs /\ job'.step = "publish" /\ job'.at = "local"
         /\ job'.saved = live /\ job'.keyed = protected
         /\ job'.kind = "restore" => job'.chosen \in Contents
         /\ UNCHANGED <<env, live, dbs, keys, copyDir>>
<1>1. ASSUME NEW kind \in {"backup", "restore"}, NEW from \in Names,
             NEW chosen \in Contents \cup {Absent}, kind = "restore" => chosen \in Contents,
             Snapshot(kind, from, chosen)
      PROVE  /\ job' \in Jobs /\ job'.step = "publish" /\ job'.at = "local"
             /\ job'.saved = live /\ job'.keyed = protected
             /\ job'.kind = "restore" => job'.chosen \in Contents
             /\ UNCHANGED <<env, live, dbs, keys, copyDir>>
  <2>1. PICK n \in Names :
          job' = [Idle EXCEPT !.kind = kind, !.step = "publish", !.name = n, !.saved = live,
                              !.keyed = protected, !.from = from, !.chosen = chosen]
    BY <1>1 DEF Snapshot
  <2>2. live \in Contents /\ protected \in BOOLEAN
    BY DEF BInv, TypeOK
  <2> QED
    BY <1>1, <2>1, <2>2 DEF Idle, Jobs, Folders, Snapshot
<1>2. <<0, 1>> \in Names
  BY BackupsAssumption DEF Names
<1>3. CASE BackUpNow \/ BackUpIfDue
  BY <1>1, <1>2, <1>3 DEF BackUpNow, BackUpIfDue
<1>4. CASE Restore
  <2>1. PICK n \in Names : dbs["local"][n] # Absent /\ Snapshot("restore", n, dbs["local"][n])
    BY <1>4 DEF Restore, Listed, Present
  <2>2. dbs["local"][n] \in Contents
    BY <2>1 DEF BInv, TypeOK, OwnBackups, Folders
  <2> QED
    BY <1>1, <2>1, <2>2
<1> QED
  BY <1>3, <1>4

\* Choosing a second folder copies a backup the profile has, or sets it at once.
LEMMA SetCopyDirStarts ==
  ASSUME BInv, SetCopyDir
  PROVE  /\ job' \in Jobs /\ job'.kind # "restore" /\ job'.step \in {"idle", "copy"}
         /\ job'.step # "idle" => job'.saved \in Contents /\ job'.at = "second"
         /\ copyDir' \in BOOLEAN
         /\ UNCHANGED <<env, live, dbs, keys>>
<1>1. CASE Listed("local") = {}
  BY <1>1, IdleFacts DEF SetCopyDir, BInv, TypeOK
<1>2. CASE Listed("local") # {}
  <2>1. PICK n \in Names :
          /\ dbs["local"][n] # Absent
          /\ job' = [Idle EXCEPT !.kind = "copy", !.at = "second", !.step = "copy",
                                 !.name = n, !.saved = dbs["local"][n]]
    BY <1>2 DEF SetCopyDir, Listed, Present
  <2>2. dbs["local"][n] \in Contents
    BY <2>1 DEF BInv, TypeOK, OwnBackups, Folders
  <2>3. /\ job' \in Jobs /\ job'.kind = "copy" /\ job'.step = "copy" /\ job'.at = "second"
        /\ job'.saved = dbs["local"][n]
    BY <2>1, <2>2, IdleFacts DEF Jobs, Folders
  <2> QED
    BY <1>2, <2>2, <2>3 DEF SetCopyDir, BInv, TypeOK
<1> QED
  BY <1>1, <1>2

\* The other profile's step adds one name to the second folder and trims it.
LEMMA OtherProfileCopiesOne ==
  ASSUME BInv, OtherProfileCopies
  PROVE  \E gone \in SUBSET Names, n \in Names :
           /\ dbs["second"][n] = Absent
           /\ dbs' = [dbs EXCEPT !["second"] =
                        [m \in Names |-> IF m \in gone THEN Absent ELSE IF m = n THEN Foreign ELSE @[m]]]
           /\ keys' = IF protected
                      THEN [keys EXCEPT !["second"] = (@ \cup {n}) \ gone]
                      ELSE keys
<1> DEFINE n    == <<clock, 1>>
           held == Present("second") \cup {n}
           gone == {m \in held : Cardinality({k \in held : Later(k, m)}) >= Keep}
<1>1. n \in Names
  BY BackupsAssumption DEF BInv, TypeOK, Names
<1>2. gone \in SUBSET Names
  BY <1>1 DEF Present
<1>3. dbs["second"][n] = Absent
  BY DEF OtherProfileCopies, Taken
<1>4. /\ dbs' = [dbs EXCEPT !["second"] =
                   [m \in Names |-> IF m \in gone THEN Absent ELSE IF m = n THEN Foreign ELSE @[m]]]
      /\ keys' = IF protected
                 THEN [keys EXCEPT !["second"] = (@ \cup {n}) \ gone]
                 ELSE keys
  BY DEF OtherProfileCopies
<1> HIDE DEF n, gone
<1> QED
  BY <1>1, <1>2, <1>3, <1>4

\* Only three steps write a database file of the profile's own making.
LEMMA TypeOKKept ==
  ASSUME BInv, [Next]_vars
  PROVE  TypeOK'
<1> USE DEF BInv, TypeOK, env
<1>1. CASE BackUpNow \/ BackUpIfDue \/ Restore
  BY <1>1, SnapshotStarts
<1>2. CASE SetCopyDir
  BY <1>2, SetCopyDirStarts DEF SetCopyDir
<1>3. CASE PublishKey \/ ListExcess
  <2>1. CASE PublishKey
    <3>1. job.at \in Folders /\ job.name \in Names /\ job' \in Jobs
      BY <1>3, <2>1 DEF PublishKey, Jobs
    <3>2. keys' \in [Folders -> SUBSET Names]
      BY <2>1, <3>1 DEF PublishKey
    <3> QED
      BY <2>1, <3>1, <3>2 DEF PublishKey
  <2>2. CASE ListExcess
    <3>1. Excess(job.at) \subseteq Names
      BY DEF Excess, Present
    <3> QED
      BY <2>2, <3>1 DEF ListExcess, Jobs
  <2> QED
    BY <1>3, <2>1, <2>2
<1>4. CASE PublishDb
  BY <1>4 DEF PublishDb, Jobs, OwnBackups
<1>5. CASE PublishFails \/ RenameFails \/ ListFails \/ CopyFails
  BY <1>5, FailsKeeps DEF PublishFails, RenameFails, ListFails, CopyFails, Jobs
<1>6. CASE PruneKey
  BY <1>6 DEF PruneKey, Jobs
<1>7. CASE PruneDb
  <2>1. PICK v \in Names :
          /\ dbs' \in {dbs, [dbs EXCEPT ![job.at][v] = Absent]}
          /\ job' = [job EXCEPT !.step = "prune", !.victims = @ \ {v}]
    BY <1>7 DEF PruneDb
  <2>2. dbs' \in [Folders -> [Names -> Contents \cup {Foreign, Absent}]]
    <3>1. job.at \in Folders
      BY DEF Jobs
    <3>2. [dbs[job.at] EXCEPT ![v] = Absent] \in [Names -> Contents \cup {Foreign, Absent}]
      BY <3>1
    <3>3. [dbs EXCEPT ![job.at][v] = Absent] = [dbs EXCEPT ![job.at] = [dbs[job.at] EXCEPT ![v] = Absent]]
      BY <3>1
    <3> QED
      BY <2>1, <3>1, <3>2, <3>3
  <2>3. job' \in Jobs
    BY <2>1 DEF Jobs
  <2> QED
    BY <1>7, <2>2, <2>3 DEF PruneDb
<1>8. CASE PruneDone \/ CopyAgain \/ CopyStage
  <2>1. job' \in Jobs
    <3>1. CASE PruneDone
      BY <3>1 DEF PruneDone, Jobs, Folders
    <3>2. CASE CopyAgain
      BY <3>2 DEF CopyAgain, Jobs
    <3>3. CASE CopyStage
      <4>1. (job.name \in keys["local"]) \in BOOLEAN
        OBVIOUS
      <4> QED
        BY <3>3, <4>1 DEF CopyStage, Jobs
    <3> QED
      BY <1>8, <3>1, <3>2, <3>3
  <2> QED
    BY <1>8, <2>1 DEF PruneDone, CopyAgain, CopyStage
<1>9. CASE ClearCopyDir \/ Return \/ RestoreReturns \/ RestoreFails \/ Kill \/ Edit \/ ClockMoves
  BY <1>9, IdleFacts DEF ClearCopyDir, Return, RestoreReturns, RestoreFails, Kill, Edit, ClockMoves, OwnBackups
<1>10. CASE OtherProfileCopies
  <2>1. PICK gone \in SUBSET Names, n \in Names :
          /\ dbs' = [dbs EXCEPT !["second"] =
                       [m \in Names |-> IF m \in gone THEN Absent ELSE IF m = n THEN Foreign ELSE @[m]]]
          /\ keys' = IF protected
                     THEN [keys EXCEPT !["second"] = (@ \cup {n}) \ gone]
                     ELSE keys
    BY <1>10, OtherProfileCopiesOne
  <2> QED
    BY <1>10, <2>1 DEF OtherProfileCopies, Folders
<1>11. CASE UNCHANGED vars
  BY <1>11 DEF vars
<1> QED
  BY <1>1, <1>2, <1>3, <1>4, <1>5, <1>6, <1>7, <1>8, <1>9, <1>10, <1>11 DEF Next

LEMMA OwnBackupsKept ==
  ASSUME BInv, [Next]_vars
  PROVE  OwnBackups'
<1> USE DEF BInv, OwnBackups, env
<1>1. CASE BackUpNow \/ BackUpIfDue \/ Restore
  BY <1>1, SnapshotStarts DEF TypeOK
<1>2. CASE SetCopyDir
  BY <1>2, SetCopyDirStarts DEF SetCopyDir
<1>3. CASE PublishKey \/ ListExcess \/ PruneKey \/ PruneDone \/ CopyAgain
  <2>1. CASE PublishKey
    BY <2>1 DEF PublishKey, TypeOK, Jobs
  <2>2. CASE ListExcess
    BY <2>2 DEF ListExcess, TypeOK, Jobs
  <2>3. CASE PruneKey
    BY <2>3 DEF PruneKey, TypeOK, Jobs
  <2>4. CASE PruneDone
    BY <2>4 DEF PruneDone, TypeOK, Jobs
  <2>5. CASE CopyAgain
    BY <2>5 DEF CopyAgain, TypeOK, Jobs
  <2> QED
    BY <1>3, <2>1, <2>2, <2>3, <2>4, <2>5
<1>4. CASE PublishDb
  BY <1>4, BackupsAssumption DEF PublishDb, TypeOK, Jobs, Folders
<1>5. CASE PublishFails \/ RenameFails \/ ListFails \/ CopyFails
  BY <1>5, FailsKeeps DEF PublishFails, RenameFails, ListFails, CopyFails, Fails, Idle
<1>6. CASE PruneDb
  BY <1>6, BackupsAssumption DEF PruneDb, TypeOK, Jobs, Folders
<1>7. CASE CopyStage
  BY <1>7 DEF CopyStage, SourceGone, TypeOK, Jobs, Folders
<1>8. CASE ClearCopyDir \/ Return \/ RestoreReturns \/ RestoreFails \/ Kill \/ Edit \/ ClockMoves
  BY <1>8, IdleFacts DEF ClearCopyDir, Return, RestoreReturns, RestoreFails, Kill, Edit, ClockMoves
<1>9. CASE OtherProfileCopies
  BY <1>9, IdleFacts DEF OtherProfileCopies, TypeOK, Folders
<1>10. CASE UNCHANGED vars
  BY <1>10 DEF vars
<1> QED
  BY <1>1, <1>2, <1>3, <1>4, <1>5, <1>6, <1>7, <1>8, <1>9, <1>10 DEF Next

\* A half-published backup is finished or taken back by the command that began
\* it; in the profile's own folder its key was published when it is encrypted.
LEMMA HalfPublishedKept ==
  ASSUME BInv, [Next]_vars
  PROVE  HalfPublished'
<1> USE DEF BInv, HalfPublished, env
<1>1. CASE BackUpNow \/ BackUpIfDue \/ Restore
  BY <1>1, SnapshotStarts
<1>2. CASE SetCopyDir
  BY <1>2, SetCopyDirStarts
<1>3. CASE PublishKey
  BY <1>3 DEF PublishKey, Taken, TypeOK, Jobs
<1>4. CASE PublishDb \/ ListExcess \/ PruneKey \/ PruneDb \/ PruneDone \/ CopyAgain
  <2>1. /\ job'.step \in {"list", "prune", "unlink", "copy", "done"}
        /\ job'.step = "copy" => job'.at = "second"
    BY <1>4 DEF PublishDb, ListExcess, PruneKey, PruneDb, PruneDone, CopyAgain, TypeOK, Jobs
  <2> QED
    BY <2>1
<1>5. CASE PublishFails \/ RenameFails \/ ListFails \/ CopyFails
  BY <1>5, FailsKeeps DEF PublishFails, RenameFails, ListFails, CopyFails
<1>6. CASE CopyStage
  BY <1>6 DEF CopyStage, TypeOK, Jobs
<1>7. CASE Return \/ RestoreReturns \/ RestoreFails \/ Kill
  BY <1>7, IdleFacts DEF Return, RestoreReturns, RestoreFails, Kill
<1>8. CASE ClearCopyDir \/ Edit \/ ClockMoves \/ OtherProfileCopies
  BY <1>8, IdleFacts DEF ClearCopyDir, Edit, ClockMoves, OtherProfileCopies
<1>9. CASE UNCHANGED vars
  BY <1>9 DEF vars
<1> QED
  BY <1>1, <1>2, <1>3, <1>4, <1>5, <1>6, <1>7, <1>8, <1>9 DEF Next

\* The list of what to prune is computed once; deleting its members from the
\* oldest on keeps the rest of it old enough.
LEMMA VictimsOldKept ==
  ASSUME BInv, [Next]_vars
  PROVE  VictimsOld'
<1> USE DEF BInv, VictimsOld, env
<1>1. CASE BackUpNow \/ BackUpIfDue \/ Restore
  BY <1>1, SnapshotStarts
<1>2. CASE SetCopyDir
  BY <1>2, SetCopyDirStarts
<1>3. CASE PublishKey \/ PublishDb \/ CopyAgain \/ CopyStage \/ PruneDone
  BY <1>3 DEF PublishKey, PublishDb, CopyAgain, CopyStage, PruneDone, TypeOK, Jobs
<1>4. CASE ListExcess
  BY <1>4 DEF ListExcess, Excess, Newer, Present, TypeOK, Jobs
<1>5. CASE PruneKey
  BY <1>5 DEF PruneKey, Newer, Present, TypeOK, Jobs
<1>6. CASE PruneDb
  <2>1. PICK v \in Names :
          /\ v \in job.victims
          /\ dbs' \in {dbs, [dbs EXCEPT ![job.at][v] = Absent]}
          /\ job' = [job EXCEPT !.step = "prune", !.victims = @ \ {v}]
    BY <1>6 DEF PruneDb, Oldest
  <2>2. /\ job'.at = job.at /\ job'.victims \subseteq job.victims
        /\ job.victims \subseteq Names /\ job.step = "unlink"
    BY <1>6, <2>1 DEF TypeOK, Jobs, PruneDb
  <2>3. \A m \in Names \ {v} : dbs'[job.at][m] = dbs[job.at][m]
    BY <2>1 DEF TypeOK, Jobs
  <2>4. ASSUME NEW n \in job'.victims
        PROVE  Cardinality(NewerIn(dbs'[job.at], n)) >= Keep
    <3>1. /\ Cardinality(NewerIn(dbs[job.at], v)) >= Keep
          /\ Cardinality(NewerIn(dbs[job.at], n)) >= Keep
      BY <2>1, <2>2, NewerIsNewerIn
    <3> QED
      BY <2>2, <2>3, <3>1, PruningKeepsOld
  <2>5. \A n : Newer(job.at, n)' = NewerIn(dbs'[job'.at], n)
    BY <2>2 DEF Newer, NewerIn, Present
  <2> QED
    BY <2>2, <2>4, <2>5
<1>7. CASE PublishFails \/ RenameFails \/ ListFails \/ CopyFails
  BY <1>7, FailsKeeps DEF PublishFails, RenameFails, ListFails, CopyFails
<1>8. CASE Return \/ RestoreReturns \/ RestoreFails \/ Kill
  BY <1>8, IdleFacts DEF Return, RestoreReturns, RestoreFails, Kill
<1>9. CASE ClearCopyDir \/ Edit \/ ClockMoves \/ OtherProfileCopies
  BY <1>9, IdleFacts DEF ClearCopyDir, Edit, ClockMoves, OtherProfileCopies
<1>10. CASE UNCHANGED vars
  BY <1>10 DEF vars, Newer, Present
<1> QED
  BY <1>1, <1>2, <1>3, <1>4, <1>5, <1>6, <1>7, <1>8, <1>9, <1>10 DEF Next

\* A database without its key is one that pruning reached, or it would have been
\* one of those half published, which have no database yet.
LEMMA KeptOpenKept ==
  ASSUME BInv, [Next]_vars
  PROVE  KeptOpen'
<1> USE DEF BInv, env
<1>1. ASSUME UNCHANGED <<protected, dbs, keys>>
      PROVE  KeptOpen'
  BY <1>1 DEF KeptOpen, Newer, Listed, Present
<1>2. ASSUME NEW n \in Names, dbs["local"][n] # Absent, protected, n \notin keys["local"]
      PROVE  Cardinality(NewerIn(dbs["local"], n)) >= Keep
  BY <1>2, NewerIsNewerIn DEF KeptOpen, Listed, Present
<1>3. SUFFICES ASSUME NEW n \in Names, dbs'["local"][n] # Absent, protected', n \notin keys'["local"]
               PROVE  Cardinality(NewerIn(dbs'["local"], n)) >= Keep
  BY DEF KeptOpen, Newer, NewerIn, Listed, Present
<1>4. CASE BackUpNow \/ BackUpIfDue \/ Restore
  BY <1>2, <1>3, <1>4, SnapshotStarts
<1>5. CASE SetCopyDir
  BY <1>2, <1>3, <1>5, SetCopyDirStarts
<1>6. CASE PublishKey
  <2>1. protected /\ dbs' = dbs /\ keys["local"] \subseteq keys'["local"]
    BY <1>3, <1>6 DEF PublishKey, TypeOK, Jobs, Folders
  <2> QED
    BY <1>2, <1>3, <2>1
<1>7. CASE PublishDb
  <2>1. /\ protected /\ keys' = keys
        /\ dbs' = [dbs EXCEPT ![job.at][job.name] = job.saved]
    BY <1>3, <1>7 DEF PublishDb
  <2>2. job.saved # Absent /\ job.name \in Names /\ job.at \in Folders
    BY <1>7, BackupsAssumption DEF PublishDb, OwnBackups, TypeOK, Jobs
  <2>3. dbs["local"][n] # Absent
    <3>1. CASE job.at = "local" /\ job.name = n
      <4>1. job.step = "rename" /\ job.keyed
        BY <1>7, <2>1, <3>1 DEF PublishDb, HalfPublished
      <4> QED
        BY <1>3, <2>1, <3>1, <4>1 DEF HalfPublished
    <3>2. CASE ~(job.at = "local" /\ job.name = n)
      BY <1>3, <2>1, <2>2, <3>2 DEF TypeOK, Folders
    <3> QED
      BY <3>1, <3>2
  <2>4. \A m \in Names : dbs["local"][m] # Absent => dbs'["local"][m] # Absent
    BY <2>1, <2>2 DEF TypeOK, Folders
  <2>5. Cardinality(NewerIn(dbs["local"], n)) >= Keep
    BY <1>2, <1>3, <2>1, <2>3
  <2> HIDE DEF BInv
  <2> QED
    BY <2>4, <2>5, AddingKeepsOld
<1>8. CASE RenameFails
  <2>1. /\ protected /\ dbs' = dbs
        /\ keys' = IF job.keyed THEN [keys EXCEPT ![job.at] = @ \ {job.name}] ELSE keys
    BY <1>3, <1>8 DEF RenameFails
  <2>2. n \notin keys["local"]
    BY <1>3, <1>8, <2>1 DEF RenameFails, HalfPublished, TypeOK, Jobs, Folders
  <2> QED
    BY <1>2, <1>3, <2>1, <2>2
<1>9. CASE PruneKey
  <2>1. PICK v \in Names, gone \in SUBSET Names :
          v \in job.victims /\ gone \subseteq {v} /\ keys' = [keys EXCEPT ![job.at] = @ \ gone]
    BY <1>9 DEF PruneKey, Oldest
  <2>2. protected /\ dbs' = dbs /\ job.step = "prune"
    BY <1>3, <1>9 DEF PruneKey
  <2>3. CASE n \notin keys["local"]
    BY <1>2, <1>3, <2>2, <2>3
  <2>4. CASE n \in keys["local"]
    <3>1. job.at = "local" /\ n = v
      BY <1>3, <2>1, <2>4 DEF TypeOK, Jobs, Folders
    <3> QED
      BY <2>1, <2>2, <3>1, NewerIsNewerIn DEF VictimsOld
  <2> QED
    BY <2>3, <2>4
<1>10. CASE PruneDb
  <2>1. PICK v \in Names :
          v \in job.victims /\ dbs' \in {dbs, [dbs EXCEPT ![job.at][v] = Absent]}
    BY <1>10 DEF PruneDb, Oldest
  <2>2. protected /\ keys' = keys /\ job.step = "unlink"
    BY <1>3, <1>10 DEF PruneDb
  <2>3. dbs["local"][n] # Absent
    BY <1>3, <2>1 DEF TypeOK, Jobs, Folders
  <2>4. CASE dbs'["local"] = dbs["local"]
    BY <1>2, <1>3, <2>2, <2>3, <2>4
  <2>5. CASE dbs'["local"] # dbs["local"]
    <3>1. job.at = "local" /\ \A m \in Names \ {v} : dbs'["local"][m] = dbs["local"][m]
      BY <2>1, <2>5 DEF TypeOK, Jobs, Folders
    <3>2. Cardinality(NewerIn(dbs["local"], v)) >= Keep
      BY <2>1, <2>2, <3>1, NewerIsNewerIn DEF VictimsOld
    <3> QED
      BY <1>2, <1>3, <2>2, <2>3, <3>1, <3>2, PruningKeepsOld
  <2> QED
    BY <2>4, <2>5
<1>11. CASE PublishFails \/ ListExcess \/ ListFails \/ PruneDone \/ CopyAgain \/ CopyStage \/ CopyFails
  BY <1>2, <1>3, <1>11 DEF PublishFails, ListExcess, ListFails, PruneDone, CopyAgain, CopyStage, CopyFails
<1>12. CASE ClearCopyDir \/ Return \/ RestoreReturns \/ RestoreFails \/ Kill \/ Edit \/ ClockMoves
  BY <1>2, <1>3, <1>12 DEF ClearCopyDir, Return, RestoreReturns, RestoreFails, Kill, Edit, ClockMoves
<1>13. CASE OtherProfileCopies
  <2>1. protected /\ dbs'["local"] = dbs["local"] /\ keys'["local"] = keys["local"]
    BY <1>3, <1>13 DEF OtherProfileCopies, TypeOK, Folders
  <2> QED
    BY <1>2, <1>3, <2>1
<1>14. CASE UNCHANGED vars
  BY <1>2, <1>3, <1>14 DEF vars
<1> QED
  BY <1>4, <1>5, <1>6, <1>7, <1>8, <1>9, <1>10, <1>11, <1>12, <1>13, <1>14 DEF Next

LEMMA InitBInv == Init => BInv
<1> SUFFICES ASSUME Init PROVE BInv
  OBVIOUS
<1>1. TypeOK
  BY IdleFacts DEF Init, TypeOK
<1>2. OwnBackups /\ HalfPublished /\ VictimsOld
  BY IdleFacts, BackupsAssumption DEF Init, OwnBackups, HalfPublished, VictimsOld, Folders
<1>3. KeptOpen
  BY DEF Init, KeptOpen, Present, Folders
<1> QED
  BY <1>1, <1>2, <1>3 DEF BInv

-----------------------------------------------------------------------------
(* The theorems *)

\* The inductive invariant holds at every moment.
THEOREM BackupsInductive == Spec => []BInv
<1>1. BInv /\ [Next]_vars => BInv'
  BY TypeOKKept, OwnBackupsKept, HalfPublishedKept, VictimsOldKept, KeptOpenKept DEF BInv
<1> QED
  BY InitBInv, <1>1, PTL DEF Spec

\* A backup without its key file is never one of the newest Keep: publication
\* puts the key first and pruning starts from the oldest, whatever is killed and
\* whichever deletion fails.
THEOREM NewestBackupsListed == Spec => []KeptOpen
<1>1. BInv => KeptOpen
  BY DEF BInv
<1> QED
  BY <1>1, BackupsInductive, PTL

\* Among the databases of the profile's folder no older than n one is newest.
LEMMA NewestExists ==
  ASSUME NEW n \in Present("local")
  PROVE  \E m \in Present("local") : m[1] >= n[1] /\ Newer("local", m) = {}
<1> DEFINE candidates == {m \in Present("local") : m = n \/ Later(m, n)}
           sets       == {Newer("local", m) : m \in candidates}
<1>1. n \in candidates
  OBVIOUS
<1>2. sets \subseteq FiniteSubsetsOf(Names)
  <2>1. ASSUME NEW m \in candidates PROVE Newer("local", m) \in FiniteSubsetsOf(Names)
    <3>1. IsFiniteSet(Newer("local", m))
      BY NewerFinite, NewerIsNewerIn
    <3>2. Newer("local", m) \in SUBSET Names
      BY DEF Newer, Present
    <3> QED
      BY <3>1, <3>2 DEF FiniteSubsetsOf
  <2> QED
    BY <2>1
<1>3. IsWellFoundedOn(StrictSubsetOrdering(Names), FiniteSubsetsOf(Names))
  BY FS_StrictSubsetOrderingWellFounded
<1>4. sets # {}
  BY <1>1
<1> HIDE DEF sets
<1>5. PICK x \in sets : \A y \in sets : <<y, x>> \notin StrictSubsetOrdering(Names)
  BY <1>2, <1>3, <1>4, WFMin
<1>6. PICK m \in candidates : x = Newer("local", m)
  BY <1>5 DEF sets
<1>7. ASSUME NEW k \in Newer("local", m) PROVE FALSE
  <2>1. k \in candidates
    BY <1>6, LaterFacts DEF Newer, Present
  <2>2. Newer("local", k) \in sets
    BY <2>1 DEF sets
  <2>3. Newer("local", k) \subseteq x /\ k \in x /\ k \notin Newer("local", k)
    BY <1>6, LaterFacts DEF Newer, Present
  <2>4. <<Newer("local", k), x>> \in StrictSubsetOrdering(Names)
    BY <1>6, <2>3 DEF StrictSubsetOrdering, Newer, Present
  <2> QED
    BY <1>5, <2>2, <2>4
<1>8. m[1] >= n[1]
  BY <1>6, LaterFacts, BackupsAssumption DEF Present, Names
<1> QED
  BY <1>6, <1>7, <1>8

\* When the daily backup is skipped, the newest database in the folder is young
\* enough, and being the newest it is listed.
THEOREM SkippedBackupsCovered == Spec => []SkippedWhenCovered
<1>1. BInv => SkippedWhenCovered
  <2> SUFFICES ASSUME BInv, ~DueNow
               PROVE  \E n \in Listed("local") : clock < n[1] + DueAfter
    BY DEF SkippedWhenCovered
  <2>1. PICK n \in Present("local") : ~(clock >= n[1] + DueAfter)
    BY DEF DueNow
  <2>2. PICK m \in Present("local") : m[1] >= n[1] /\ Newer("local", m) = {}
    BY NewestExists
  <2>3. m \in Listed("local")
    <3>1. ~(Cardinality(Newer("local", m)) >= Keep)
      BY <2>2, FS_EmptySet, BackupsAssumption
    <3> QED
      BY <2>2, <3>1 DEF BInv, KeptOpen
  <2>4. clock < m[1] + DueAfter
    BY <2>1, <2>2, BackupsAssumption DEF BInv, TypeOK, Present, Names
  <2> QED
    BY <2>3, <2>4
<1> QED
  BY <1>1, BackupsInductive, PTL

\* No backup and no copy ever replaces another of the same name, in whichever
\* folder: the name is looked for again right before the first rename, and a
\* database appears only where there was none.
THEOREM BackupsNeverReplaced == Spec => NothingReplaced
<1>1. ASSUME BInv, [Next]_vars
      PROVE  \A f \in Folders, n \in Names :
               dbs[f][n] # Absent => dbs'[f][n] \in {dbs[f][n], Absent}
  <2>1. CASE PublishDb
    BY <1>1, <2>1 DEF PublishDb, BInv, HalfPublished, TypeOK, Jobs
  <2>2. CASE PruneDb
    BY <1>1, <2>2 DEF PruneDb, BInv, TypeOK, Jobs
  <2>3. CASE OtherProfileCopies
    <3>1. PICK gone \in SUBSET Names, n \in Names :
            /\ dbs["second"][n] = Absent
            /\ dbs' = [dbs EXCEPT !["second"] =
                         [m \in Names |-> IF m \in gone THEN Absent ELSE IF m = n THEN Foreign ELSE @[m]]]
      BY <2>3, <1>1, OtherProfileCopiesOne
    <3> QED
      BY <1>1, <3>1 DEF BInv, TypeOK, Folders
  <2>4. CASE BackUpNow \/ BackUpIfDue \/ Restore
    BY <1>1, <2>4, SnapshotStarts
  <2>5. CASE SetCopyDir \/ ClearCopyDir \/ PublishKey \/ PublishFails \/ RenameFails \/ ListExcess
             \/ ListFails \/ PruneKey \/ PruneDone \/ CopyAgain \/ CopyStage \/ CopyFails
    BY <2>5 DEF SetCopyDir, ClearCopyDir, PublishKey, PublishFails, RenameFails, ListExcess,
       ListFails, PruneKey, PruneDone, CopyAgain, CopyStage, CopyFails
  <2>6. CASE Return \/ RestoreReturns \/ RestoreFails \/ Kill \/ Edit \/ ClockMoves \/ UNCHANGED vars
    BY <2>6 DEF Return, RestoreReturns, RestoreFails, Kill, Edit, ClockMoves, vars
  <2> QED
    BY <1>1, <2>1, <2>2, <2>3, <2>4, <2>5, <2>6 DEF Next
<1>2. BInv /\ [Next]_vars =>
        [\A f \in Folders, n \in Names :
           dbs[f][n] # Absent => dbs'[f][n] \in {dbs[f][n], Absent}]_vars
  BY <1>1
<1> QED
  BY <1>2, BackupsInductive, PTL DEF NothingReplaced, Spec
-----------------------------------------------------------------------------
(* What a command reports *)

\* The running command's backup is in folder f as it was made, or has Keep later ones.
Made(f) == job.name \in Listed(f) /\ dbs[f][job.name] = job.saved
Outdated(f) == Cardinality(Newer(f, job.name)) >= Keep

\* A step past publication.
Published == job.step \in {"list", "prune", "unlink", "done"}

\* The backup a copy is made of stays what it was: a command at the second folder
\* changes nothing in the first.
LocalMade == Published \/ job.at = "second" => Made("local") \/ Outdated("local")

\* A copy of a listed backup of an encrypted profile brings the key along.
CopyKeyed ==
  job.at = "second" /\ job.step \in {"publish", "rename"} =>
    Outdated("local") \/ (protected => job.keyed)

CopyMade ==
  /\ (job.at = "second" /\ job.step \in {"list", "prune", "unlink"}) \/ job.copied =>
       Made("second") \/ \E f \in Folders : Outdated(f)
  /\ job.copied => job.step = "done" /\ job.at = "second"

\* What the safety backup of a restore holds is what the restore will replace.
SavesTheLive == job.kind = "restore" => job.saved = live

ReportInv == LocalMade /\ CopyKeyed /\ CopyMade /\ SavesTheLive

\* Nothing happens in folder f, and the command goes on with the same backup.
LEMMA UntouchedFolder ==
  ASSUME NEW f, dbs'[f] = dbs[f], keys'[f] = keys[f], UNCHANGED protected,
         job'.name = job.name, job'.saved = job.saved
  PROVE  Made(f)' = Made(f) /\ Outdated(f)' = Outdated(f)
BY DEF Made, Outdated, Newer, Listed, Present

\* No command runs: nothing is reported.
LEMMA IdleReports ==
  ASSUME job' = Idle
  PROVE  ReportInv'
<1>1. /\ Idle.step = "idle" /\ Idle.at = "local" /\ Idle.kind = "idle" /\ ~Idle.copied
  BY DEF Idle
<1> HIDE DEF Idle
<1> QED
  BY <1>1 DEF ReportInv, LocalMade, CopyKeyed, CopyMade, SavesTheLive, Published

\* Steps that leave both folders alone and go on with the same backup, not in the second
\* folder before it was in the first.
LEMMA QuietReports ==
  ASSUME ReportInv, UNCHANGED <<env, live, dbs, keys>>,
         job'.name = job.name, job'.saved = job.saved, job'.kind = job.kind,
         job'.copied = job.copied,
         Published' \/ job'.at = "second" => Published \/ job.at = "second",
         job'.at = "second" /\ job'.step \in {"publish", "rename"} =>
           Outdated("local") \/ (protected => job'.keyed),
         job'.at = "second" /\ job'.step \in {"list", "prune", "unlink"} =>
           Made("second") \/ \E f \in Folders : Outdated(f),
         job.copied => job'.step = "done" /\ job'.at = "second"
  PROVE  ReportInv'
<1>1. \A f \in Folders : Made(f)' = Made(f) /\ Outdated(f)' = Outdated(f)
  BY UntouchedFolder DEF env
<1>2. LocalMade'
  BY <1>1 DEF ReportInv, LocalMade, Folders
<1>3. CopyKeyed'
  BY <1>1 DEF ReportInv, CopyKeyed, Folders, env
<1>4. CopyMade'
  BY <1>1 DEF ReportInv, CopyMade, Folders
<1>5. SavesTheLive'
  BY DEF ReportInv, SavesTheLive
<1> QED
  BY <1>2, <1>3, <1>4, <1>5 DEF ReportInv

LEMMA SnapshotReports ==
  ASSUME BInv, BackUpNow \/ BackUpIfDue \/ Restore
  PROVE  ReportInv'
<1>1. /\ job'.step = "publish" /\ job'.at = "local" /\ job'.saved = live /\ live' = live
  BY SnapshotStarts
<1>2. ~job'.copied
  BY DEF BackUpNow, BackUpIfDue, Restore, Snapshot, Idle
<1> QED
  BY <1>1, <1>2 DEF ReportInv, LocalMade, CopyKeyed, CopyMade, SavesTheLive, Published

\* The newest listed backup is the one copied.
LEMMA SetCopyDirReports ==
  ASSUME BInv, SetCopyDir
  PROVE  ReportInv'
<1>1. CASE Listed("local") = {}
  BY <1>1, IdleReports DEF SetCopyDir
<1>2. CASE Listed("local") # {}
  <2>1. PICK n \in Listed("local") :
          job' = [Idle EXCEPT !.kind = "copy", !.at = "second", !.step = "copy",
                              !.name = n, !.saved = dbs["local"][n]]
    BY <1>2 DEF SetCopyDir
  <2>2. /\ job'.kind = "copy" /\ job'.at = "second" /\ job'.step = "copy"
        /\ job'.name = n /\ job'.saved = dbs["local"][n] /\ ~job'.copied
    BY <2>1 DEF Idle
  <2>3. UNCHANGED <<env, dbs, keys>>
    BY DEF SetCopyDir
  <2>4. Made("local")'
    BY <2>1, <2>2, <2>3 DEF Made, Listed, Present, env
  <2> QED
    BY <2>2, <2>4 DEF ReportInv, LocalMade, CopyKeyed, CopyMade, SavesTheLive, Published
<1> QED
  BY <1>1, <1>2

\* A command that fails has published nothing, or only its second copy fails.
LEMMA FailReports ==
  ASSUME BInv, ReportInv, PublishFails \/ RenameFails \/ ListFails \/ CopyFails
  PROVE  ReportInv'
<1>1. /\ Fails /\ job.step \in {"publish", "rename", "list", "copy"}
      /\ UNCHANGED <<env, live, dbs>>
  BY DEF PublishFails, RenameFails, ListFails, CopyFails
<1>2. CASE job.at = "local" \/ job.kind = "copy"
  BY <1>1, <1>2, IdleReports DEF Fails
<1>3. CASE ~(job.at = "local" \/ job.kind = "copy")
  <2>1. job' = [job EXCEPT !.step = "done"]
    BY <1>1, <1>3 DEF Fails
  <2>2. /\ job'.step = "done" /\ job'.at = "second" /\ job'.name = job.name
        /\ job'.saved = job.saved /\ job'.kind = job.kind /\ job'.copied = job.copied
    BY <1>3, <2>1 DEF BInv, TypeOK, Jobs, Folders
  <2>3. job.at = "second" /\ ~job.copied
    BY <1>1, <1>3 DEF BInv, TypeOK, Jobs, Folders, ReportInv, CopyMade
  <2>4. keys'["local"] = keys["local"]
    BY <2>3 DEF PublishFails, RenameFails, ListFails, CopyFails, BInv, TypeOK, Folders
  <2>5. Made("local")' = Made("local") /\ Outdated("local")' = Outdated("local")
    BY <1>1, <2>2, <2>4, UntouchedFolder DEF env
  <2> QED
    BY <1>1, <2>2, <2>3, <2>5 DEF ReportInv, LocalMade, CopyKeyed, CopyMade, SavesTheLive
<1> QED
  BY <1>2, <1>3

LEMMA PublishKeyReports ==
  ASSUME BInv, ReportInv, PublishKey
  PROVE  ReportInv'
<1>1. /\ job.step = "publish" /\ job' = [job EXCEPT !.step = "rename"]
      /\ UNCHANGED <<env, live, dbs>>
      /\ keys' = IF job.keyed THEN [keys EXCEPT ![job.at] = @ \cup {job.name}] ELSE keys
  BY DEF PublishKey
<1>2. /\ job'.step = "rename" /\ job'.at = job.at /\ job'.name = job.name
      /\ job'.saved = job.saved /\ job'.kind = job.kind /\ job'.copied = job.copied
      /\ job'.keyed = job.keyed /\ job.at \in Folders
  BY <1>1 DEF BInv, TypeOK, Jobs
<1>3. ~job.copied
  BY <1>1 DEF ReportInv, CopyMade
<1>4. CASE job.at = "local"
  BY <1>1, <1>2, <1>3, <1>4
     DEF ReportInv, LocalMade, CopyKeyed, CopyMade, SavesTheLive, Published
<1>5. CASE job.at = "second"
  <2>1. keys'["local"] = keys["local"]
    BY <1>1, <1>5 DEF BInv, TypeOK, Folders
  <2>2. Made("local")' = Made("local") /\ Outdated("local")' = Outdated("local")
    BY <1>1, <1>2, <2>1, UntouchedFolder DEF env
  <2> QED
    BY <1>1, <1>2, <1>3, <1>5, <2>2
       DEF ReportInv, LocalMade, CopyKeyed, CopyMade, SavesTheLive, Published, env
<1> QED
  BY <1>2, <1>4, <1>5 DEF Folders

\* The database appears beside the key published before it.
LEMMA PublishDbReports ==
  ASSUME BInv, ReportInv, PublishDb
  PROVE  ReportInv'
<1>1. /\ job.step = "rename" /\ job' = [job EXCEPT !.step = "list"]
      /\ dbs' = [dbs EXCEPT ![job.at][job.name] = job.saved]
      /\ UNCHANGED <<env, live, keys>>
  BY DEF PublishDb
<1>2. /\ job'.step = "list" /\ job'.at = job.at /\ job'.name = job.name
      /\ job'.saved = job.saved /\ job'.kind = job.kind /\ job'.copied = job.copied
      /\ job.at \in Folders /\ job.name \in Names
  BY <1>1 DEF BInv, TypeOK, Jobs
<1>3. ~job.copied
  BY <1>1 DEF ReportInv, CopyMade
<1>4. dbs'[job.at][job.name] = job.saved /\ job.saved # Absent
  BY <1>1, <1>2, BackupsAssumption DEF BInv, TypeOK, OwnBackups
<1>5. (protected => job.keyed) => Made(job.at)'
  BY <1>1, <1>2, <1>4 DEF Made, Listed, Present, BInv, HalfPublished, env
<1>6. CASE job.at = "local"
  <2>1. Made("local")'
    BY <1>1, <1>5, <1>6 DEF BInv, HalfPublished
  <2> QED
    BY <1>1, <1>2, <1>3, <1>6, <2>1
       DEF ReportInv, LocalMade, CopyKeyed, CopyMade, SavesTheLive, Published
<1>7. CASE job.at = "second"
  <2>1. dbs'["local"] = dbs["local"] /\ keys'["local"] = keys["local"]
    BY <1>1, <1>7 DEF BInv, TypeOK, Folders
  <2>2. Made("local")' = Made("local") /\ Outdated("local")' = Outdated("local")
    BY <1>1, <1>2, <2>1, UntouchedFolder DEF env
  <2>3. Outdated("local") \/ Made("second")'
    BY <1>1, <1>5, <1>7 DEF ReportInv, CopyKeyed
  <2> QED
    BY <1>1, <1>2, <1>3, <1>7, <2>2, <2>3
       DEF ReportInv, LocalMade, CopyKeyed, CopyMade, SavesTheLive, Folders
<1> QED
  BY <1>2, <1>6, <1>7 DEF Folders

\* Pruning takes the backup itself only when it has Keep later ones, and keeps those.
LEMMA PruneReports ==
  ASSUME BInv, ReportInv, PruneKey \/ PruneDb
  PROVE  ReportInv'
<1> DEFINE f == job.at
<1>1. /\ job.step \in {"prune", "unlink"} /\ job'.step \in {"prune", "unlink"}
      /\ job'.at = job.at /\ job'.name = job.name /\ job'.saved = job.saved
      /\ job'.kind = job.kind /\ job'.copied = job.copied
      /\ job.at \in Folders /\ job.name \in Names
      /\ UNCHANGED <<env, live>>
  BY DEF PruneKey, PruneDb, BInv, TypeOK, Jobs
<1>2. PICK v \in Names, gone \in SUBSET Names :
        /\ v \in job.victims /\ gone \subseteq {v}
        /\ keys' \in {keys, [keys EXCEPT ![f] = @ \ gone]}
        /\ dbs' \in {dbs, [dbs EXCEPT ![f][v] = Absent]}
  <2>1. CASE PruneKey
    BY <2>1 DEF PruneKey, Oldest
  <2>2. CASE PruneDb
    <3>1. PICK v \in Names : /\ v \in job.victims
                             /\ dbs' \in {dbs, [dbs EXCEPT ![f][v] = Absent]}
                             /\ keys' = keys
      BY <2>2 DEF PruneDb, Oldest
    <3>2. {} \in SUBSET Names /\ {} \subseteq {v}
      OBVIOUS
    <3> QED
      BY <3>1, <3>2
  <2> QED
    BY <2>1, <2>2
<1>3. Cardinality(NewerIn(dbs[f], v)) >= Keep
  BY <1>1, <1>2, NewerIsNewerIn DEF BInv, VictimsOld
<1>4. /\ \A m \in Names \ {v} : dbs'[f][m] = dbs[f][m]
      /\ \A m \in Names \ {v} : m \in keys'[f] <=> m \in keys[f]
      /\ \A g \in Folders \ {f} : dbs'[g] = dbs[g] /\ keys'[g] = keys[g]
  BY <1>1, <1>2 DEF BInv, TypeOK
<1>5. \A n \in Names : Cardinality(NewerIn(dbs[f], n)) >= Keep
                       => Cardinality(NewerIn(dbs'[f], n)) >= Keep
  <2> HIDE DEF f
  <2> QED
    BY <1>3, <1>4, PruningKeepsOld
<1>6. Newer(f, job.name)' = NewerIn(dbs'[f], job.name)
  BY <1>1 DEF Newer, NewerIn, Present
<1>7. Outdated(f) => Outdated(f)'
  BY <1>1, <1>5, <1>6, NewerIsNewerIn DEF Outdated
<1>8. Made(f) => Made(f)' \/ Outdated(f)'
  <2>1. CASE job.name = v
    BY <1>1, <1>3, <1>5, <1>6, <2>1 DEF Outdated
  <2>2. CASE job.name # v
    BY <1>1, <1>4, <2>2 DEF Made, Listed, Present, env
  <2> QED
    BY <2>1, <2>2
<1>9. \A g \in Folders \ {f} : Made(g)' = Made(g) /\ Outdated(g)' = Outdated(g)
  <2> TAKE g \in Folders \ {f}
  <2> QED
    BY <1>1, <1>4, UntouchedFolder DEF env
<1>10. LocalMade'
  BY <1>1, <1>7, <1>8, <1>9 DEF ReportInv, LocalMade, Published, Folders
<1>11. CopyMade'
  BY <1>1, <1>7, <1>8, <1>9 DEF ReportInv, CopyMade, Folders
<1>12. CopyKeyed' /\ SavesTheLive'
  BY <1>1 DEF ReportInv, CopyKeyed, SavesTheLive
<1> QED
  BY <1>10, <1>11, <1>12 DEF ReportInv

\* The copy begins with a backup that is there; it ends as a copy that was made.
LEMMA PruneDoneReports ==
  ASSUME BInv, ReportInv, PruneDone
  PROVE  ReportInv'
<1>1. job.step = "prune" /\ UNCHANGED <<env, live, dbs, keys>>
  BY DEF PruneDone
<1>2. CASE job.at = "second"
  <2>1. job' = [job EXCEPT !.step = "done", !.copied = TRUE]
    BY <1>2 DEF PruneDone
  <2>2. /\ job'.step = "done" /\ job'.at = "second" /\ job'.name = job.name
        /\ job'.saved = job.saved /\ job'.kind = job.kind
    BY <1>2, <2>1 DEF BInv, TypeOK, Jobs
  <2>3. \A f \in Folders : Made(f)' = Made(f) /\ Outdated(f)' = Outdated(f)
    BY <1>1, <2>2, UntouchedFolder DEF env
  <2> QED
    BY <1>1, <1>2, <2>2, <2>3
       DEF ReportInv, LocalMade, CopyKeyed, CopyMade, SavesTheLive, Folders
<1>3. CASE job.at # "second"
  <2>1. job' = [job EXCEPT !.at = "second", !.step = "copy"] \/ job' = [job EXCEPT !.step = "done"]
    BY <1>3 DEF PruneDone
  <2>2. /\ job'.step \in {"copy", "done"} /\ job'.name = job.name /\ job'.saved = job.saved
        /\ job'.kind = job.kind /\ job'.copied = job.copied
    BY <2>1 DEF BInv, TypeOK, Jobs
  <2> QED
    BY <1>1, <2>2, QuietReports DEF Published, ReportInv, CopyMade
<1> QED
  BY <1>2, <1>3

\* The file already in the second folder is the backup, key file included.
LEMMA CopyReports ==
  ASSUME BInv, ReportInv, CopyAgain \/ CopyStage
  PROVE  ReportInv'
<1>1. /\ job.step = "copy" /\ job.at = "second" /\ ~SourceGone /\ UNCHANGED <<env, live, dbs, keys>>
  BY DEF CopyAgain, CopyStage, BInv, HalfPublished
<1>2. Made("local") \/ Outdated("local")
  BY <1>1 DEF ReportInv, LocalMade
<1>3. CASE CopyAgain
  <2>1. /\ job'.step = "list" /\ job'.at = "second" /\ job'.name = job.name
        /\ job'.saved = job.saved /\ job'.kind = job.kind /\ job'.copied = job.copied
    BY <1>1, <1>3 DEF CopyAgain, BInv, TypeOK, Jobs
  <2>2. Made("second") \/ \E f \in Folders : Outdated(f)
    <3>1. Identical
      BY <1>3 DEF CopyAgain
    <3> QED
      BY <1>2, <3>1 DEF Identical, Made, Listed, Present, Folders
  <2> QED
    BY <1>1, <2>1, <2>2, QuietReports DEF ReportInv, CopyMade
<1>4. CASE CopyStage
  <2>1. /\ job'.step = "publish" /\ job'.at = "second" /\ job'.name = job.name
        /\ job'.saved = job.saved /\ job'.kind = job.kind /\ job'.copied = job.copied
        /\ job'.keyed = (job.name \in keys["local"])
    BY <1>1, <1>4 DEF CopyStage, BInv, TypeOK, Jobs
  <2>2. Outdated("local") \/ (protected => job'.keyed)
    BY <1>2, <2>1 DEF Made, Listed
  <2> QED
    BY <1>1, <2>1, <2>2, QuietReports DEF ReportInv, CopyMade
<1> QED
  BY <1>3, <1>4

LEMMA ReportsKept ==
  ASSUME BInv, ReportInv, [Next]_vars
  PROVE  ReportInv'
<1>1. CASE BackUpNow \/ BackUpIfDue \/ Restore
  BY <1>1, SnapshotReports
<1>2. CASE SetCopyDir
  BY <1>2, SetCopyDirReports
<1>3. CASE PublishKey \/ PublishDb
  BY <1>3, PublishKeyReports, PublishDbReports
<1>4. CASE PublishFails \/ RenameFails \/ ListFails \/ CopyFails
  BY <1>4, FailReports
<1>5. CASE ListExcess
  <2>1. /\ job.step = "list" /\ UNCHANGED <<env, live, dbs, keys>>
        /\ job'.step = "prune" /\ job'.at = job.at /\ job'.name = job.name
        /\ job'.saved = job.saved /\ job'.kind = job.kind /\ job'.copied = job.copied
    BY <1>5 DEF ListExcess, BInv, TypeOK, Jobs
  <2> QED
    BY <2>1, QuietReports DEF Published, ReportInv, CopyMade
<1>6. CASE PruneKey \/ PruneDb
  BY <1>6, PruneReports
<1>7. CASE PruneDone
  BY <1>7, PruneDoneReports
<1>8. CASE CopyAgain \/ CopyStage
  BY <1>8, CopyReports
<1>9. CASE Return \/ RestoreReturns \/ RestoreFails \/ Kill
  BY <1>9, IdleReports DEF Return, RestoreReturns, RestoreFails, Kill
<1>10. CASE ClearCopyDir \/ Edit \/ ClockMoves \/ OtherProfileCopies
  BY <1>10, IdleReports DEF ClearCopyDir, Edit, ClockMoves, OtherProfileCopies
<1>11. CASE UNCHANGED vars
  <2>1. \A f \in Folders : Made(f)' = Made(f) /\ Outdated(f)' = Outdated(f)
    BY <1>11 DEF vars, env, Made, Outdated, Newer, Listed, Present
  <2> QED
    BY <1>11, <2>1 DEF vars, env, ReportInv, LocalMade, CopyKeyed, CopyMade, SavesTheLive,
       Published, Folders
<1> QED
  BY <1>1, <1>2, <1>3, <1>4, <1>5, <1>6, <1>7, <1>8, <1>9, <1>10, <1>11 DEF Next

THEOREM ReportsInductive == Spec => [](BInv /\ ReportInv)
<1>1. Init => ReportInv
  <2> SUFFICES ASSUME Init PROVE ReportInv
    OBVIOUS
  <2>1. job = Idle
    BY DEF Init
  <2>2. Idle.step = "idle" /\ Idle.at = "local" /\ Idle.kind = "idle" /\ ~Idle.copied
    BY DEF Idle
  <2> QED
    BY <2>1, <2>2 DEF ReportInv, LocalMade, CopyKeyed, CopyMade, SavesTheLive, Published
<1>2. (BInv /\ ReportInv) /\ [Next]_vars => ReportInv'
  BY ReportsKept
<1> QED
  BY <1>1, <1>2, BackupsInductive, PTL DEF Spec

\* A backup reported as made is listed and holds what was backed up, unless Keep later
\* names are there; whatever fails at the second folder (create_local_backup).
THEOREM ReportedBackupListed == Spec => []ReportedIsListed
<1>1. ReportInv => ReportedIsListed
  BY DEF ReportInv, LocalMade, Published, Made, Outdated, ReportedIsListed
<1> QED
  BY <1>1, ReportsInductive, PTL

\* A second copy reported as made is there, with its key file, unless Keep later names are
\* in either folder: whether it was written, or found there already (mirror_backup).
THEOREM ReportedCopyThere == Spec => []CopiedIsThere
<1>1. ReportInv => CopiedIsThere
  BY DEF ReportInv, CopyMade, Made, Outdated, CopiedIsThere
<1> QED
  BY <1>1, ReportsInductive, PTL

\* A restore gives what the chosen backup held, and what it replaces is a listed backup,
\* unless Keep later names are there: nothing changes the data or that backup between the
\* two (restore_backup).
THEOREM RestoreCanBeUndone == Spec => RestoreReversible
<1>1. ASSUME BInv, ReportInv, [Next]_vars, live' # live, job.kind = "restore"
      PROVE  /\ live' = job.chosen
             /\ \/ \E n \in Listed("local") : dbs["local"][n] = live
                \/ Cardinality(Newer("local", job.name)) >= Keep
  <2>1. RestoreReturns
    <3>1. CASE Edit
      BY <1>1, <3>1, IdleFacts DEF Edit
    <3>2. CASE BackUpNow \/ BackUpIfDue \/ Restore
      BY <1>1, <3>2, SnapshotStarts
    <3>3. CASE ~(Edit \/ BackUpNow \/ BackUpIfDue \/ Restore \/ RestoreReturns)
      BY <1>1, <3>3 DEF Next, SetCopyDir, ClearCopyDir, PublishKey, PublishDb, PublishFails,
         RenameFails, ListExcess, ListFails, PruneKey, PruneDb, PruneDone, CopyAgain, CopyStage,
         CopyFails, Return, RestoreFails, Kill, ClockMoves, OtherProfileCopies, vars
    <3> QED
      BY <3>1, <3>2, <3>3
  <2>2. job.step = "done" /\ live' = job.chosen
    BY <2>1 DEF RestoreReturns
  <2>3. Made("local") \/ Outdated("local")
    BY <1>1, <2>2 DEF ReportInv, LocalMade, Published
  <2>4. job.saved = live
    BY <1>1 DEF ReportInv, SavesTheLive
  <2> QED
    BY <2>2, <2>3, <2>4 DEF Made, Outdated
<1>2. (BInv /\ ReportInv) /\ [Next]_vars =>
        [live' # live /\ job.kind = "restore" =>
           /\ live' = job.chosen
           /\ \/ \E n \in Listed("local") : dbs["local"][n] = live
              \/ Cardinality(Newer("local", job.name)) >= Keep]_vars
  BY <1>1
<1> QED
  BY <1>2, ReportsInductive, PTL DEF RestoreReversible, Spec
=============================================================================
