---------------------------- MODULE SessionRuntime ----------------------------
(***************************************************************************)
(* The open session under every thread that can replace, lock or read it.  *)
(***************************************************************************)
EXTENDS AutoLock, SessionClients

Init ==
  /\ slot = NoProfileOpen /\ holder = None /\ revision = 0 /\ notice = None
  /\ generation = 0 /\ dbPath = <<Default, 1>> /\ timer = None
  /\ \E p \in Profiles : listed \in {Profiles, Profiles \ {p}}
  /\ file = [p \in Profiles |-> <<p, 1>>]
  /\ created = [p \in Profiles |-> 1]
  /\ \E protected \in SUBSET Profiles :
       dek = [path \in Paths |-> IF path[2] = 1 /\ path[1] \in protected THEN path ELSE None]
  /\ due = TRUE /\ copies = {}
  /\ command = Idle
  /\ threads = [t \in LockThreads |-> NoRequest]
  /\ refresh = NoRefresh /\ phone = NoPhone

Locking == LockNowReturns \/ \E t \in LockThreads : LockStep(t)

Next == UserCommand \/ CommandStep \/ LockRequest \/ Locking \/ ClientStep

Spec == Init /\ [][Next]_vars

\* The worker and the lock threads keep running; a thread that waits for the
\* mutex gets it when it stays free.  The user, the timer and the clients owe
\* nothing.
FairSpec ==
  /\ Spec
  /\ WF_vars(CommandStep \/ LockNowReturns \/ PhoneRecheck)
  /\ \A t \in LockThreads : WF_vars(LockStep(t))

-----------------------------------------------------------------------------
(* Properties *)

TypeOK ==
  /\ slot \in Slot
  /\ holder \in LockThreads \cup {None}
  /\ {revision, generation} \subseteq Nat
  /\ notice \in Paths \cup {None}
  /\ dbPath \in Paths
  /\ timer \in Timer \cup {None}
  /\ listed \subseteq Profiles
  /\ file \in [Profiles -> Paths]
  /\ dek \in [Paths -> Paths \cup {None}]
  /\ created \in [Profiles -> 1..MaxFiles]
  /\ due \in BOOLEAN
  /\ copies \subseteq [db : Paths, key : Paths]
  /\ \A t \in LockThreads : threads[t].pc \in
       {"idle", "queued", "generation", "profile", "mutex", "retire", "disarm"}

\* A delayed request locks the session it was made for, or nothing ("A later
\* profile can never be locked by a delayed event because lock_profile rechecks
\* both captured values").
LocksOnlyItsSession ==
  [][ IsOpen /\ slot'.kind = "locked" =>
        slot'.profile = slot.profile
        /\ \E t \in LockThreads : threads[t].pc = "retire" /\ threads[t].profile = slot.profile ]_vars

\* While no command runs, an open protected profile can be locked: its timer is
\* armed for this session, or the lock it asked for is on its way.
AutoLockArmed ==
  WorkerIdle /\ IsOpen /\ Encrypted(slot.db) =>
    /\ ProfileOf(dbPath) = slot.profile
    /\ \/ timer = [profile |-> slot.profile, generation |-> generation]
       \/ \E t \in LockThreads :
            /\ threads[t].pc # "idle"
            /\ threads[t].profile = slot.profile /\ threads[t].generation = generation

\* While no command runs, the open database, AppPaths.db_path and the registry
\* name the same file.
PathsAgree ==
  WorkerIdle /\ IsOpen => slot.db = dbPath /\ file[slot.profile] = dbPath

\* A notice waits only for the page of the profile it is about ("it can never
\* reach another profile or a locked one").
NoticeOfOpenProfile ==
  WorkerIdle /\ notice # None => IsOpen /\ notice[1] = slot.profile

\* An encrypted backup lies beside a key file that opens it, also when a lock
\* takes its final backup while another command is changing the database.
BackupKeyMatches == \A c \in copies : c.db = c.key

\* Prices land in the database whose holdings were priced.
RefreshWritesItsOrigin ==
  refresh.pc = "written" => refresh.into = refresh.db

\* Each entry of the profile list names a database of its own profile: a change
\* of protection moves the entry of the open profile and no other ("the profile
\* being converted is always the one that's currently open").
EntriesOwnTheirFiles == \A p \in listed : file[p][1] = p

\* A phone is sent only what was built from the database that is open as the
\* frame leaves, and only of the profile it asked for, as long as the entries of
\* the list name databases of their own.
PhoneGetsOpenProfile ==
  [][ phone.pc = "built" /\ phone'.pc = "sent" =>
        /\ IsOpen /\ phone.db = slot.db
        /\ EntriesOwnTheirFiles => phone.profile = slot.profile ]_vars

\* No command waits for ever (on a mutex it holds itself, or on a thread that
\* waits for it).
CommandsReturn == ~WorkerIdle ~> WorkerIdle

\* A lock of the session that is open has been asked for and is on its way.
Requested(t) ==
  threads[t].pc # "idle" /\ IsOpen
    /\ threads[t].generation = generation /\ threads[t].profile = slot.profile

\* The running command has yet to give the session its new generation.
Replacing == \E i \in DOMAIN command.steps : command.steps[i] = "generation"

\* A lock asked for the open session ends that session: every request comes to
\* its end, and none is given up while the session it names is open, unless a
\* command is about to replace that session.
LockRequestsEndSession ==
  /\ \A t \in LockThreads : threads[t].pc # "idle" ~> threads[t].pc = "idle"
  /\ [][\A t \in LockThreads : threads'[t].pc = "idle" /\ Requested(t) => Replacing]_vars

\* A lock that has taken effect holds until somebody unlocks ("Locking closes
\* the profile's data connection and returns to the password screen").
LockedUntilUnlocked ==
  [][ slot.kind = "locked" /\ slot'.kind = "open" => command.name = "unlock" ]_vars
=============================================================================
