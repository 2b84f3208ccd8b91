----------------------------- MODULE SessionState -----------------------------
(***************************************************************************)
(* What the threads of the desktop process share: the runtime slot behind  *)
(* its mutex (runtime.rs), the paths and the generation beside it          *)
(* (config.rs), the automatic-lock timer (auto_lock.rs), and as much of    *)
(* the disk as tells one database from another.                            *)
(*                                                                         *)
(* Only the slot is protected by the mutex.  The path, the generation and  *)
(* the timer are read and written around it, one at a time.                *)
(***************************************************************************)
EXTENDS Naturals, Sequences

CONSTANTS
  Profiles,       \* registered profiles
  Default,        \* the profile an unknown path is taken for
  MaxFiles,       \* bound: databases one profile ever has
  MaxGeneration,  \* bound: generation at which no command starts any more
  MaxRevision,    \* bound: revision at which the selector is left alone
  LockThreads,    \* the threads of this run that may lock a profile
  Clients,        \* the asynchronous readers of this run
  Faults,         \* the kinds of error the run lets happen
  None

Threads == {"timer", "native", "worker"}

\* "registry": profiles.json cannot be written after the swap; "open": the
\* database a change committed cannot be opened; "backup": a due backup fails.
ASSUME SessionConstants ==
  /\ Default \in Profiles
  /\ {MaxFiles, MaxGeneration, MaxRevision} \subseteq Nat /\ MaxFiles > 0
  /\ LockThreads \subseteq Threads /\ "worker" \in LockThreads
  /\ Clients \subseteq {"refresh", "phone"}
  /\ Faults \subseteq {"registry", "open", "backup"}
  /\ None \notin Threads \cup Profiles \cup (Profiles \X (1..MaxFiles))

VARIABLES
  slot,        \* the runtime slot
  holder,      \* the thread that holds the slot's mutex, or None
  revision,    \* session revision: changes with the slot
  notice,      \* database whose opening notice waits for the page, or None
  generation,  \* AppPaths.generation
  dbPath,      \* AppPaths.db_path
  timer,       \* the armed automatic-lock timer, or None
  listed,      \* profiles.json: the profiles
  file,        \* profiles.json: the database of each profile
  dek,         \* [Paths -> the database its data key was generated for, None if plaintext]
  created,     \* databases each profile ever had
  due,         \* the open profile's daily backup is due
  copies,      \* encrypted backups taken: data key of the database, of the key file beside it
  command,     \* what the command worker is executing
  threads,     \* the lock threads
  refresh,     \* a live-price refresh in flight
  phone        \* a phone snapshot in flight

runtime  == <<slot, holder, revision, notice>>
paths    == <<generation, dbPath>>
registry == <<listed, file, dek, created>>
backups  == <<due, copies>>
clients  == <<refresh, phone>>
vars     == <<runtime, paths, timer, registry, backups, command, threads, clients>>

-----------------------------------------------------------------------------
Paths == Profiles \X (1..MaxFiles)

NoProfileOpen == [kind |-> "none", profile |-> None, db |-> None]
Locked(p) == [kind |-> "locked", profile |-> p, db |-> None]
Open(path) == [kind |-> "open", profile |-> path[1], db |-> path]

Slot == {NoProfileOpen} \cup {Locked(p) : p \in Profiles} \cup {Open(path) : path \in Paths}

IsOpen == slot.kind = "open"

Timer == [profile : Profiles, generation : Nat]

Encrypted(path) == dek[path] # None

\* profile_id_for: the profile whose entry names the path, else the Default.
ProfileOf(path) ==
  IF \E p \in listed : file[p] = path
  THEN CHOOSE p \in listed : file[p] = path
  ELSE Default

\* A thread gets past runtime.lock().
Free == holder = None

\* create_backup_if_due of a database under data key d, beside the key file of
\* `source`.  A copy without a key file is an error, which callers only log.
BackUp(d, source) ==
  IF ~due THEN UNCHANGED backups
  ELSE \/ /\ d = None /\ due' = FALSE /\ UNCHANGED copies
       \/ /\ d # None /\ dek[source] # None
          /\ due' = FALSE /\ copies' = copies \cup {[db |-> d, key |-> dek[source]]}
       \/ /\ "backup" \in Faults \/ (d # None /\ dek[source] = None)
          /\ UNCHANGED backups
=============================================================================
