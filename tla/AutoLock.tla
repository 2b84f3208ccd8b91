------------------------------- MODULE AutoLock -------------------------------
(***************************************************************************)
(* Automatic and manual locking (auto_lock.rs).  The timer thread, a       *)
(* thread per native event, and the command worker all end in              *)
(* lock_profile, which checks the session it was asked to lock before and  *)
(* again inside the slot's mutex.  Deadlines and warnings are left out: an *)
(* armed timer may fire at any time.                                       *)
(***************************************************************************)
EXTENDS SessionCommands

NoRequest == [pc |-> "idle", profile |-> None, generation |-> 0, from |-> None, path |-> None]

Asked(p, g) == [NoRequest EXCEPT !.pc = "queued", !.profile = p, !.generation = g]

GoTo(t, label) == threads' = [threads EXCEPT ![t].pc = label]
Drop(t)        == threads' = [threads EXCEPT ![t] = NoRequest]

\* Mutant: what transition_runtime checked before it waited is not checked again.
CurrentWhenAsked(t) == TRUE

\* Mutant: the slot's revision is compared with the captured generation.
CurrentByRevision(t) == revision = threads[t].generation /\ dbPath = threads[t].path

\* still_current: the session is the one the request was made for.
StillCurrent(t) == generation = threads[t].generation /\ dbPath = threads[t].path

-----------------------------------------------------------------------------
(* Requests *)

\* The inactivity deadline: the timer disarms itself and asks for a lock.
TimerFires ==
  /\ "timer" \in LockThreads /\ threads["timer"] = NoRequest
  /\ timer # None
  /\ timer' = None
  /\ threads' = [threads EXCEPT !["timer"] = Asked(timer.profile, timer.generation)]
  /\ UNCHANGED <<runtime, paths, registry, backups, command, clients>>

\* queue_window_lock, queue_system_session_lock: hidden to the tray, focus
\* lost, computer locked or suspending.  The timer stays armed.
NativeEvent ==
  /\ "native" \in LockThreads /\ threads["native"] = NoRequest
  /\ timer # None
  /\ threads' = [threads EXCEPT !["native"] = Asked(timer.profile, timer.generation)]
  /\ UNCHANGED <<runtime, paths, timer, registry, backups, command, clients>>

\* lock_current_profile: the page sends the generation it last saw.
LockNow ==
  /\ \E g \in 0..generation :
       threads' = [threads EXCEPT !["worker"] = Asked(ProfileOf(dbPath), g)]
  /\ Begin("lock", <<"lock">>, None)
  /\ UNCHANGED <<runtime, paths, timer, registry, backups, clients>>

LockNowReturns ==
  /\ At("lock") /\ threads["worker"] = NoRequest
  /\ Advance
  /\ UNCHANGED <<runtime, paths, timer, registry, backups, threads, clients>>

-----------------------------------------------------------------------------
(* lock_profile, step by step *)

\* The path the final backup will be taken of.
LockReadPath(t) ==
  /\ threads[t].pc = "queued"
  /\ threads' = [threads EXCEPT ![t].pc = "generation", ![t].from = dbPath]
  /\ UNCHANGED <<runtime, paths, timer, registry, backups, command, clients>>

LockCheckGeneration(t) ==
  /\ threads[t].pc = "generation"
  /\ IF generation = threads[t].generation THEN GoTo(t, "profile") ELSE Drop(t)
  /\ UNCHANGED <<runtime, paths, timer, registry, backups, command, clients>>

LockCheckProfile(t) ==
  /\ threads[t].pc = "profile"
  /\ IF ProfileOf(dbPath) = threads[t].profile
     THEN threads' = [threads EXCEPT ![t].pc = "mutex", ![t].path = dbPath]
     ELSE Drop(t)
  /\ UNCHANGED <<runtime, paths, timer, registry, backups, command, clients>>

\* lock_open_profile waits for the mutex, then looks again.
LockAcquire(t) ==
  /\ threads[t].pc = "mutex" /\ Free
  /\ IF IsOpen /\ StillCurrent(t)
     THEN holder' = t /\ GoTo(t, "retire")
     ELSE Drop(t) /\ UNCHANGED holder
  /\ UNCHANGED <<slot, revision, notice, paths, timer, registry, backups, command, clients>>

\* Mutant: the notice of the profile that is being locked is kept.
LockKeepsNotice(t) ==
  /\ threads[t].pc = "retire"
  /\ BackUp(dek[slot.db], threads[t].from)
  /\ generation' = generation + 1
  /\ slot' = Locked(threads[t].profile) /\ revision' = revision + 1
  /\ holder' = None
  /\ GoTo(t, "disarm")
  /\ UNCHANGED <<notice, dbPath, timer, registry, command, clients>>

\* Under the mutex: the final backup, the generation, and the locked slot.
LockRetire(t) ==
  /\ threads[t].pc = "retire"
  /\ BackUp(dek[slot.db], threads[t].from)
  /\ generation' = generation + 1
  /\ slot' = Locked(threads[t].profile) /\ revision' = revision + 1 /\ notice' = None
  /\ holder' = None
  /\ GoTo(t, "disarm")
  /\ UNCHANGED <<dbPath, timer, registry, command, clients>>

LockDisarm(t) ==
  /\ threads[t].pc = "disarm"
  /\ timer' = IF timer = [profile |-> threads[t].profile, generation |-> threads[t].generation]
              THEN None ELSE timer
  /\ Drop(t)
  /\ UNCHANGED <<runtime, paths, registry, backups, command, clients>>

LockRequest == TimerFires \/ NativeEvent \/ LockNow

LockStep(t) ==
  \/ LockReadPath(t) \/ LockCheckGeneration(t) \/ LockCheckProfile(t)
  \/ LockAcquire(t) \/ LockRetire(t) \/ LockDisarm(t)
=============================================================================
