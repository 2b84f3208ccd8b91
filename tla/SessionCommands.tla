--------------------------- MODULE SessionCommands ---------------------------
(***************************************************************************)
(* The commands that change which database is open, as the one command     *)
(* worker runs them: a command is a short program, and other threads run   *)
(* between any two of its steps.                                           *)
(***************************************************************************)
EXTENDS SessionState

\* Mutant: the path is recorded before the housekeeping.
ActivatePathFirst == <<"path", "settle", "generation", "install", "notice", "armCheck", "arm">>

\* startup::activate: the housekeeping, the path, the generation, the slot,
\* the notice, the timer, with no lock held across them.
Activate == <<"settle", "path", "generation", "install", "notice", "armCheck", "arm">>

\* enable, change_password, remove_protection: the conversion under the guard,
\* then the new database is opened and activated without it.
ChangeProgram == <<"commit", "open">> \o Activate

\* Mutant: relocate_data_file without its last step.
RelocateWithoutArming == <<"replace", "path", "generation", "registry", "notice", "release">>

\* Mutant: the timer is armed while the session guard is held.
RelocateArmsBeforeRelease ==
  <<"replace", "path", "generation", "registry", "notice", "armCheck", "arm", "release">>

RelocateProgram ==
  <<"replace", "path", "generation", "registry", "notice", "release", "armCheck", "arm">>

\* Mutant: restore_backup forgets AppPaths.db_path.
RestoreWithoutPath ==
  <<"replace", "registry", "generation", "notice", "release", "armCheck", "arm">>

RestoreProgram ==
  <<"replace", "registry", "path", "generation", "notice", "release", "armCheck", "arm">>

\* create_profile and switch_profile leave the timer alone (the target is
\* plaintext); add_existing_profile arms it for an encrypted one.
SwitchProgram(path) ==
  <<"replace", "path", "generation", "settle", "notice", "release">>
    \o IF Encrypted(path) THEN <<"armCheck", "arm">> ELSE <<>>

Idle == [name |-> None, steps |-> <<>>, from |-> None, path |-> None]

WorkerIdle == command = Idle

\* The current step is s; `Advance` leaves it, `Finish` leaves the command.
At(s)   == ~WorkerIdle /\ Head(command.steps) = s
Advance ==
  command' = IF Len(command.steps) = 1 THEN Idle ELSE [command EXCEPT !.steps = Tail(@)]
Finish  == command' = Idle

Begin(name, steps, path) ==
  /\ WorkerIdle /\ generation < MaxGeneration
  /\ command' = [name |-> name, steps |-> steps, from |-> dbPath, path |-> path]

\* A new database for profile p; `key` is the data key it is under.
NewFile(p, key) ==
  /\ created[p] < MaxFiles
  /\ created' = [created EXCEPT ![p] = @ + 1]
  /\ dek' = [dek EXCEPT ![<<p, created[p] + 1>>] = key]

-----------------------------------------------------------------------------
(* Starting a command *)

\* select_profile on a plaintext profile opens it, on a protected one it shows
\* the lock screen.  The page offers the selector only while nothing is open.
Select(p) ==
  /\ p \in listed /\ slot.kind = "none"
  /\ ~Encrypted(file[p])
  /\ Begin("select", Activate, file[p])
  /\ UNCHANGED <<runtime, paths, timer, registry, backups, threads, clients>>

SelectProtected(p) ==
  /\ WorkerIdle /\ p \in listed /\ slot.kind = "none" /\ Free
  /\ Encrypted(file[p]) /\ revision < MaxRevision
  /\ slot' = Locked(p) /\ revision' = revision + 1 /\ notice' = None
  /\ UNCHANGED <<holder, paths, timer, registry, backups, command, threads, clients>>

\* Mutant: the released slot still says whose it was.
SelectorKeepsProfile ==
  /\ WorkerIdle /\ slot.kind = "locked" /\ Free
  /\ revision < MaxRevision
  /\ slot' = [slot EXCEPT !.kind = "none"] /\ revision' = revision + 1
  /\ UNCHANGED <<holder, notice, paths, timer, registry, backups, command, threads, clients>>

\* show_profile_selector gives up a locked slot, never an open one.
ShowSelector ==
  /\ WorkerIdle /\ slot.kind = "locked" /\ Free
  /\ revision < MaxRevision
  /\ slot' = NoProfileOpen /\ revision' = revision + 1
  /\ UNCHANGED <<holder, notice, paths, timer, registry, backups, command, threads, clients>>

\* unlock_profile with the right password.  Nothing changes the generation
\* while no profile is open, so its second check always passes.
Unlock(p) ==
  /\ p \in listed /\ slot = Locked(p) /\ Encrypted(file[p])
  /\ Begin("unlock", Activate, file[p])
  /\ UNCHANGED <<runtime, paths, timer, registry, backups, threads, clients>>

\* The commands below take the session guard first.
Guarded(name, steps, path) ==
  /\ Free /\ holder' = "worker"
  /\ Begin(name, steps, path)

\* A change of protection gives the open database a copy under `key`.
Convert(key) ==
  LET p == slot.profile IN
    /\ NewFile(p, key)
    /\ Guarded("convert", ChangeProgram, <<p, created[p] + 1>>)
    /\ UNCHANGED <<slot, revision, notice, paths, timer, listed, file, backups, threads, clients>>

\* commit_protection_setup refuses when the profile the page asks for, the open
\* one, is not the profile the registry finds for the live path.
Enable ==
  /\ IsOpen /\ ~Encrypted(slot.db)
  /\ ProfileOf(dbPath) = slot.profile
  /\ Convert(<<slot.profile, created[slot.profile] + 1>>)

\* remove_protection has no such check.  After a removal whose plaintext copy,
\* the latest file, could not be opened, another one only retires the old pair
\* and fails.
RemoveProtection ==
  /\ IsOpen /\ Encrypted(slot.db)
  /\ Encrypted(<<slot.profile, created[slot.profile]>>)
  /\ Convert(None)

\* change_password gives it one under another data key.
ChangePassword ==
  /\ IsOpen
  /\ LET p == slot.profile IN
       /\ Encrypted(slot.db)
       /\ NewFile(p, <<p, created[p] + 1>>)
       /\ Guarded("password", ChangeProgram, <<p, created[p] + 1>>)
  /\ UNCHANGED <<slot, revision, notice, paths, timer, listed, file, backups, threads, clients>>

Relocate ==
  /\ IsOpen
  /\ LET p == slot.profile IN
       /\ Guarded("relocate", RelocateProgram, <<p, created[p] + 1>>)
       /\ NewFile(p, dek[slot.db])
  /\ UNCHANGED <<slot, revision, notice, paths, timer, listed, file, backups, threads, clients>>

\* The backup may be under the present data key or an older one.
Restore ==
  /\ IsOpen
  /\ LET p == slot.profile IN
       /\ Guarded("restore", RestoreProgram, <<p, created[p] + 1>>)
       /\ \E key \in {dek[slot.db], <<p, created[p] + 1>>} :
            /\ key # None <=> Encrypted(slot.db)
            /\ NewFile(p, key)
  /\ UNCHANGED <<slot, revision, notice, paths, timer, listed, file, backups, threads, clients>>

\* switch_profile opens a listed plaintext profile; create_profile and
\* add_existing_profile list a new one, the latter an encrypted one too.
Switch(p) ==
  /\ IsOpen
  /\ p \notin listed \/ ~Encrypted(file[p])
  /\ Guarded("switch", SwitchProgram(file[p]), file[p])
  /\ listed' = listed \cup {p}
  /\ UNCHANGED <<slot, revision, notice, paths, timer, file, dek, created, backups, threads, clients>>

\* set_auto_lock_settings re-arms the timer of the open protected profile.
SetAutoLock ==
  /\ IsOpen /\ Free /\ Encrypted(slot.db)
  /\ Begin("settings", <<"armCheck", "arm">>, None)
  /\ UNCHANGED <<runtime, paths, timer, registry, backups, threads, clients>>

\* take_notice: the page is shown what opening its profile did, once.
TakeNotice ==
  /\ WorkerIdle /\ IsOpen /\ Free /\ notice # None
  /\ notice' = None
  /\ UNCHANGED <<slot, holder, revision, paths, timer, registry, backups, command, threads, clients>>

DayPasses ==
  /\ WorkerIdle /\ ~due
  /\ due' = TRUE
  /\ UNCHANGED <<runtime, paths, timer, registry, copies, command, threads, clients>>

UserCommand ==
  \/ \E p \in Profiles : Select(p) \/ SelectProtected(p) \/ Unlock(p) \/ Switch(p)
  \/ ShowSelector \/ Enable \/ RemoveProtection \/ ChangePassword \/ Relocate \/ Restore
  \/ SetAutoLock \/ TakeNotice \/ DayPasses

-----------------------------------------------------------------------------
(* The steps *)

\* update_active_db_path: entries that name the old path follow the file.
Moved == [p \in Profiles |->
            IF p \in listed /\ file[p] = command.from THEN command.path ELSE file[p]]

\* The registry names the new database (found by profile id for a conversion,
\* by its old path for a new password); the guard is dropped with the block.
Commit ==
  /\ At("commit")
  /\ file' = IF command.name = "convert"
             THEN [file EXCEPT ![ProfileOf(command.from)] = command.path]
             ELSE Moved
  /\ holder' = None
  /\ Advance
  /\ UNCHANGED <<slot, revision, notice, paths, timer, listed, dek, created, backups, threads, clients>>

\* Opening the database the change committed.
OpenNew ==
  /\ At("open")
  /\ Advance \/ ("open" \in Faults /\ Finish)
  /\ UNCHANGED <<runtime, paths, timer, registry, backups, threads, clients>>

\* after_profile_opened: a due backup of the new database.
Settle ==
  /\ At("settle")
  /\ BackUp(dek[command.path], command.path)
  /\ Advance
  /\ UNCHANGED <<runtime, paths, timer, registry, threads, clients>>

SetPath ==
  /\ At("path")
  /\ dbPath' = command.path
  /\ Advance
  /\ UNCHANGED <<runtime, generation, timer, registry, backups, threads, clients>>

BumpGeneration ==
  /\ At("generation")
  /\ generation' = generation + 1
  /\ Advance
  /\ UNCHANGED <<runtime, dbPath, timer, registry, backups, threads, clients>>

\* AppRuntime::install.
Install ==
  /\ At("install") /\ Free
  /\ slot' = Open(command.path) /\ revision' = revision + 1 /\ notice' = None
  /\ Advance
  /\ UNCHANGED <<holder, paths, timer, registry, backups, threads, clients>>

\* OpenSession::replace, under the guard: the notice stays.
Replace ==
  /\ At("replace")
  /\ slot' = Open(command.path) /\ revision' = revision + 1
  /\ Advance
  /\ UNCHANGED <<holder, notice, paths, timer, registry, backups, threads, clients>>

\* An error of the registry write ends the command at once.
UpdateRegistry ==
  /\ At("registry")
  /\ file' = Moved
  /\ Advance
  /\ UNCHANGED <<runtime, paths, timer, listed, dek, created, backups, threads, clients>>

UpdateRegistryFails ==
  /\ At("registry") /\ "registry" \in Faults
  /\ holder' = None
  /\ Finish
  /\ UNCHANGED <<slot, revision, notice, paths, timer, registry, backups, threads, clients>>

SetNotice ==
  /\ At("notice")
  /\ notice' = command.path
  /\ Advance
  /\ UNCHANGED <<slot, holder, revision, paths, timer, registry, backups, threads, clients>>

Release ==
  /\ At("release")
  /\ holder' = None
  /\ Advance
  /\ UNCHANGED <<slot, revision, notice, paths, timer, registry, backups, threads, clients>>

\* arm_current_profile: is_open() under the mutex, then the path, the profile
\* and the generation without it.
ArmCheck ==
  /\ At("armCheck") /\ Free
  /\ IF IsOpen THEN Advance /\ UNCHANGED timer ELSE Finish /\ timer' = None
  /\ UNCHANGED <<runtime, paths, registry, backups, threads, clients>>

Arm ==
  /\ At("arm")
  /\ LET p == ProfileOf(dbPath) IN
       timer' = IF p \in listed /\ Encrypted(file[p])
                THEN [profile |-> p, generation |-> generation]
                ELSE None
  /\ Advance
  /\ UNCHANGED <<runtime, paths, registry, backups, threads, clients>>

CommandStep ==
  \/ Commit \/ OpenNew \/ Settle \/ SetPath \/ BumpGeneration \/ Install \/ Replace
  \/ UpdateRegistry \/ UpdateRegistryFails \/ SetNotice \/ Release \/ ArmCheck \/ Arm
=============================================================================
