------------------------ MODULE ProtectionLifecycle -------------------------
(***************************************************************************)
(* One profile through any sequence of enable, change password / recover,  *)
(* remove, edits, backups, clean-up, lock, unlock, switch, delete, with a  *)
(* kill at any point and the startup recovery chain of lib.rs.             *)
(***************************************************************************)
EXTENDS EnableProtection, RotateKey, RemoveProtection

\* A profile as it can be registered: the plaintext default, or one created
\* protected (create_protected_profile registers only a finished pair).
Init ==
  /\ pc = "down" /\ cont = "launch" /\ job = NoJob /\ session = None
  /\ config = <<"base", 1>>
  /\ ej = None /\ rj = None /\ mj = None
  /\ saved = [p \in Paths |-> 0] /\ latest = 0
  /\ prot = [b \in Backups |-> NoPair] /\ staged = [b \in Backups |-> NoPair]
  /\ \/ /\ content = [p \in Paths |-> IF p = <<"base", 1>> THEN Plaintext ELSE Absent]
        /\ keyOf = [p \in Paths |-> Absent]
        /\ registry = [listed |-> TRUE, path |-> <<"base", 1>>, protected |-> FALSE, former |-> None]
        /\ used = {}
        /\ plain \in SUBSET Backups /\ made = plain
     \/ \E d \in Deks :
        /\ content = [p \in Paths |-> IF p = <<"base", 1>> THEN d ELSE Absent]
        /\ keyOf = [p \in Paths |-> IF p = <<"base", 1>> THEN d ELSE Absent]
        /\ registry = [listed |-> TRUE, path |-> <<"base", 1>>, protected |-> TRUE, former |-> None]
        /\ used = {d}
        /\ plain = {} /\ made = {}

-----------------------------------------------------------------------------
\* setup(): the process starts and resolves every journal before anything opens.
Launch ==
  /\ pc = "down"
  /\ Goto("recEnable") /\ cont' = "launch"
  /\ UNCHANGED <<disk, copies, records, journals, session, job, history>>

\* A kill, a power cut, or quitting the program.
Crash ==
  /\ pc # "down"
  /\ Die
  /\ UNCHANGED <<disk, copies, records, journals, history>>

\* open_registered_profile / unlock_profile: the path the registry names, under
\* the key file beside it; only a plaintext open records it in config.json.
OpenProfile ==
  /\ pc = "idle" /\ session = None /\ registry.listed
  /\ IF registry.protected
     THEN Opens(content[registry.path], keyOf[registry.path]) /\ UNCHANGED config
     ELSE content[registry.path] = Plaintext /\ config' = registry.path
  /\ session' = registry.path
  /\ DueBackup(registry.path)
  /\ UNCHANGED <<disk, staged, registry, journals, pc, cont, job, latest, used>>

\* Locking takes a due backup and drops the connection; switching to another
\* profile just drops it.
CloseProfile ==
  /\ pc = "idle" /\ session # None
  /\ session' = None
  /\ DueBackup(session)
  /\ UNCHANGED <<disk, staged, records, journals, pc, cont, job, latest, used>>

\* A change holds the session mutex until it has committed.  A lock thread that
\* waited for it runs before the new database is activated, when the slot still
\* holds the old one, or while complete_committed_* works after the activation.
\* (An unprotected profile is never armed, so enabling has no such thread.)
LockMeanwhile ==
  \/ pc \in {"roSwap", "rmSwap"}
  \/ /\ cont = "done"
     /\ pc \in {"move", "moveConfig", "retireOld", "retireJournal",
               "retireDb", "retireKey", "retireConfig", "retireRemoval"}

\* transition_runtime: the final backup is of the database that is open by then.
WaitingLock ==
  /\ LockMeanwhile /\ session # None
  /\ session' = None
  /\ DueBackup(session)
  /\ UNCHANGED <<disk, staged, records, journals, pc, cont, job, latest, used>>

\* Any command that saves the user's work in the open database.  Those commands
\* and the changes run on one thread; a price refresh does not, and is left out.
Edit ==
  /\ pc = "idle" /\ session # None
  /\ latest < MaxEdits
  /\ latest' = latest + 1
  /\ saved' = [saved EXCEPT ![session] = latest + 1]
  /\ UNCHANGED <<content, keyOf, copies, records, journals, process, used, made>>

BackUpNow ==
  /\ pc = "idle" /\ session # None
  /\ \E b \in Backups : NewBackup(session, b)
  /\ UNCHANGED <<disk, staged, records, journals, process, latest, used>>

\* delete_protection_leftovers: the retained plaintext original and the
\* plaintext backups, any selection of them, never the live database.
DeleteLeftovers ==
  /\ pc = "idle" /\ session # None
  /\ registry.listed /\ registry.path = session /\ registry.former # None
  /\ \E gone \in SUBSET plain, p \in {registry.former, None} :
       /\ plain' = plain \ gone
       /\ p # None => content[p] = Plaintext /\ keyOf[p] = Absent /\ p # session
       /\ content' = [q \in Paths |-> IF q = p THEN Absent ELSE content[q]]
  /\ UNCHANGED <<keyOf, saved, prot, staged, records, journals, process, history>>

\* delete_profile refuses only the profile whose database is open.
DeleteProfile ==
  /\ pc = "idle" /\ registry.listed
  /\ session # registry.path
  /\ registry' = [registry EXCEPT !.listed = FALSE]
  /\ UNCHANGED <<disk, copies, config, journals, process, history>>

UserStep ==
  \/ OpenProfile \/ CloseProfile \/ WaitingLock \/ Edit \/ BackUpNow
  \/ DeleteLeftovers \/ DeleteProfile
  \/ EnableBegin \/ RotateBegin \/ RemoveBegin

Fails ==
  \/ EnableFault \/ RecoverEnableFails
  \/ RotateFault \/ InstallFails \/ RecoverRotateFails
  \/ RemoveFault \/ RetireRemovalFails \/ RecoverRemoveFails

Kill == Crash \/ EnableKill \/ RotateKill \/ RemoveKilledInExport

\* The steps the running process takes by itself once a change has begun.
Work ==
  \/ EnableStep \/ RecoverEnableStep
  \/ RotateStep \/ RecoverRotateStep
  \/ RemoveStep \/ RecoverRemoveStep

Next == Launch \/ UserStep \/ Work \/ Fails \/ Kill

Spec == Init /\ [][Next]_vars

-----------------------------------------------------------------------------
\* Weak fairness of the worker's own steps: a launched process keeps running
\* until it is killed.  Nothing is assumed of the user, of faults or of kills.
FairSpec == Spec /\ WF_vars(Work)

-----------------------------------------------------------------------------
(* Properties *)

\* No change is running and no journal is waiting.
Settled == pc = "idle" /\ ej = None /\ rj = None /\ mj = None

\* At every instant, kills and every I/O fault included, the registry entry
\* names a complete database of the kind it records: a plaintext one, or an
\* encrypted one whose key file wraps its DEK.  (The commits of
\* commit_protection_conversion, update_active_db_path and
\* commit_protection_removal, and what the recoveries may delete.)
RegisteredFileOpens ==
  registry.listed =>
    IF registry.protected
    THEN content[registry.path] \in Deks /\ keyOf[registry.path] = content[registry.path]
    ELSE content[registry.path] = Plaintext

\* The registered database holds every edit the user was told is saved.
NoLostWork == registry.listed => saved[registry.path] = latest

\* Between commands, an open session is a session on the registered database.
NoSessionLeftBehind ==
  pc = "idle" /\ session # None /\ registry.listed => session = registry.path

\* Once the journals are resolved no second encrypted or half-written database
\* and no staged copy remains: a change either finished or left no trace of its
\* target.  (recover_interrupted_*, retire_committed_*.)
OnlyLiveDatabaseEncrypted ==
  Settled /\ registry.listed =>
    /\ \A p \in Paths : content[p] \in Deks \cup {Torn} => registry.protected /\ p = registry.path
    /\ \A b \in Backups : staged[b] = NoPair

\* A backup once made keeps a readable copy, even when the user deletes every
\* plaintext copy offered: in backups/, as a pair in backups/protected/, or as
\* the pair a pending rotation is still moving out of staging.
NoBackupLost ==
  \A b \in made :
    \/ b \in plain
    \/ \E db, key \in {prot[b], staged[b]} : Opens(db.db, key.key)

\* Removing a profile from the list never costs its data file, now or at a
\* later launch ("the file it points at is left on disk untouched").
DeletedProfileKeepsFile ==
  ~registry.listed => content[registry.path] # Absent

\* A password change is never stopped by a backup in the profile's own folder
\* ("Changing the password re-protects the backups in the profile's own
\* backups folder").
OwnBackupsNeverBlock ==
  pc = "roStage" => \A b \in job.todo : Opens(prot[b].db, content[job.src])

\* A change of password commits only when every listed backup is in its journal,
\* and when a launch or the change itself retires the journal, each of these is
\* under the DEK of the registered database.  The one old-password copy that can
\* stay is the final backup of a lock between the commit and the activation.
RotationCoversBackups ==
  [][ rj # None =>
        /\ ~RotateCommitted /\ registry'.listed /\ registry'.path = rj.target =>
             Listed(prot) \subseteq rj.names
        /\ RotateCommitted /\ rj' = None =>
             \A b \in rj.names \cap Listed(prot') : prot'[b].key = content'[registry.path] ]_vars

\* A launch ends with no journal left, unless the process is killed again or
\* stops on the error page.
LaunchResolvesJournals ==
  (pc = "recEnable" /\ cont = "launch") ~> (Settled \/ pc \in {"down", "blocked"})
=============================================================================
