---------------------------- MODULE Session_proofs ----------------------------
(***************************************************************************)
(* The open session under every thread that can replace, lock or read it,  *)
(* for every number of profiles, databases and threads: what a client that *)
(* waits outside the mutex works on is what is open when it comes back     *)
(* (IInv, PathProfile); a lock takes the session it was asked for, or none *)
(* (MutexInv, TimerInv), and beside the right key file (KeysInv).          *)
(***************************************************************************)
EXTENDS SessionRuntime, TLAPS, SequenceTheorems

\* A refresh whose revision is still current was started on the open database.
RefreshStamped ==
  /\ refresh.pc = "network" =>
       /\ refresh.revision \in Nat /\ refresh.revision <= revision
       /\ refresh.revision = revision => refresh.db = slot.db
  /\ RefreshWritesItsOrigin

\* A snapshot whose revision is still current was read from the open database.
PhoneStamped ==
  /\ phone.pc \in {"queued", "projected", "built"} =>
       phone.revision \in Nat /\ phone.revision <= revision
  /\ phone.pc \in {"projected", "built"} /\ phone.revision = revision => phone.db = slot.db

\* The fields of the two clients.
ClientFields ==
  /\ refresh = [pc |-> refresh.pc, generation |-> refresh.generation,
                revision |-> refresh.revision, db |-> refresh.db, into |-> refresh.into]
  /\ phone = [pc |-> phone.pc, generation |-> phone.generation,
              revision |-> phone.revision, profile |-> phone.profile, db |-> phone.db]

IInv == revision \in Nat /\ ClientFields /\ RefreshStamped /\ PhoneStamped

-----------------------------------------------------------------------------
\* The steps that give the slot another content.
Swap == Install \/ Replace \/ ShowSelector \/ (\E p \in Profiles : SelectProtected(p))
          \/ \E t \in LockThreads : LockRetire(t)

\* A new content of the slot has a new revision.
LEMMA SwapRevises == Swap => revision' = revision + 1 /\ UNCHANGED clients
  BY DEF Swap, Install, Replace, ShowSelector, SelectProtected, LockRetire, clients

\* No other command or lock step touches the slot or the clients.
LEMMA CommandFrame ==
  ASSUME UserCommand \/ CommandStep, ~Swap
  PROVE  UNCHANGED <<slot, revision, clients>>
<1>1. CASE UserCommand
  BY <1>1 DEF UserCommand, Swap, Select, Unlock, Switch, Enable, RemoveProtection, Convert,
       ChangePassword, Relocate, Restore, SetAutoLock, TakeNotice, DayPasses, runtime, clients
<1>2. CASE CommandStep
  BY <1>2 DEF CommandStep, Swap, Commit, OpenNew, Settle, SetPath, BumpGeneration,
       UpdateRegistry, UpdateRegistryFails, SetNotice, Release, ArmCheck, Arm, runtime, clients
<1> QED BY <1>1, <1>2

\* No request for a lock, and no lock step but the last, touches the slot or the clients.
LEMMA LockFrame ==
  ASSUME LockRequest \/ Locking, ~Swap
  PROVE  UNCHANGED <<slot, revision, clients>>
<1>1. CASE LockRequest
  BY <1>1 DEF LockRequest, TimerFires, NativeEvent, LockNow, runtime, clients
<1>2. CASE Locking
  BY <1>2 DEF Locking, LockStep, Swap, LockNowReturns, LockReadPath, LockCheckGeneration,
       LockCheckProfile, LockAcquire, LockDisarm, runtime, clients
<1> QED BY <1>1, <1>2

-----------------------------------------------------------------------------
\* A client that asked before the swap is left with an old revision.
LEMMA SwapKeeps == ASSUME IInv, Swap PROVE IInv'
<1>1. revision' = revision + 1 /\ UNCHANGED clients BY SwapRevises
<1>2. revision' \in Nat BY <1>1 DEF IInv
<1>3. RefreshStamped'
  BY <1>1 DEF IInv, RefreshStamped, RefreshWritesItsOrigin, clients
<1>4. PhoneStamped'
  BY <1>1 DEF IInv, PhoneStamped, clients
<1>5. ClientFields' BY <1>1 DEF IInv, ClientFields, clients
<1> QED BY <1>2, <1>3, <1>4, <1>5 DEF IInv

\* A step that leaves slot, revision and clients alone.
LEMMA FrameKeeps == ASSUME IInv, UNCHANGED <<slot, revision, clients>> PROVE IInv'
  BY DEF IInv, ClientFields, RefreshStamped, RefreshWritesItsOrigin, PhoneStamped, clients

\* The steps of the refresh: it writes only under the revision it asked under.
LEMMA RefreshKeeps ==
  ASSUME IInv, RefreshStart \/ RefreshWrite \/ RefreshReturn
  PROVE  IInv'
<1>1. UNCHANGED <<slot, revision, phone>>
  BY DEF RefreshStart, RefreshWrite, RefreshReturn, runtime
<1>2. PhoneStamped' BY <1>1 DEF IInv, PhoneStamped
<1>3. RefreshStamped' /\ ClientFields'
  <2>1. CASE RefreshStart
    BY <2>1, <1>1 DEF RefreshStart, IInv, ClientFields, RefreshStamped, RefreshWritesItsOrigin
  <2>2. CASE RefreshWrite
    <3>1. CASE IsOpen /\ SameSession(refresh)
      <4>1. refresh' = [pc |-> "written", generation |-> refresh.generation,
                        revision |-> refresh.revision, db |-> refresh.db, into |-> slot.db]
        BY <2>2, <3>1 DEF RefreshWrite, IInv, ClientFields
      <4>2. refresh.db = slot.db
        BY <2>2, <3>1 DEF RefreshWrite, SameSession, IInv, RefreshStamped
      <4> QED BY <1>1, <4>1, <4>2 DEF IInv, ClientFields, RefreshStamped, RefreshWritesItsOrigin
    <3>2. CASE ~(IsOpen /\ SameSession(refresh))
      <4>1. refresh' = NoRefresh BY <2>2, <3>2 DEF RefreshWrite
      <4> QED BY <1>1, <4>1
           DEF NoRefresh, IInv, ClientFields, RefreshStamped, RefreshWritesItsOrigin
    <3> QED BY <3>1, <3>2
  <2>3. CASE RefreshReturn
    BY <2>3 DEF RefreshReturn, NoRefresh, IInv, ClientFields, RefreshStamped, RefreshWritesItsOrigin
  <2> QED BY <2>1, <2>2, <2>3
<1> QED BY <1>1, <1>2, <1>3 DEF IInv

\* The steps of the phone: the session is compared before and after it is read.
LEMMA PhoneKeeps ==
  ASSUME IInv, (\E p \in Profiles : PhoneAsk(p)) \/ PhoneStamp \/ PhoneProject
                 \/ PhoneRecheck \/ PhoneDeliver \/ PhoneEnds
  PROVE  IInv'
<1>1. UNCHANGED <<slot, revision, refresh>>
  BY DEF PhoneAsk, PhoneStamp, PhoneProject, PhoneRecheck, PhoneDeliver, PhoneEnds, runtime
<1>2. RefreshStamped' BY <1>1 DEF IInv, RefreshStamped, RefreshWritesItsOrigin
<1>3. PhoneStamped' /\ ClientFields'
  <2>1. CASE \E p \in Profiles : PhoneAsk(p)
    BY <2>1 DEF PhoneAsk, NoPhone, IInv, ClientFields, PhoneStamped
  <2>2. CASE PhoneStamp
    <3>1. phone' = [pc |-> "queued", generation |-> phone.generation, revision |-> revision,
                    profile |-> phone.profile, db |-> phone.db]
      BY <2>2 DEF PhoneStamp, IInv, ClientFields
    <3> QED BY <1>1, <3>1 DEF IInv, ClientFields, PhoneStamped
  <2>3. CASE PhoneProject
    <3>1. CASE ValidSession
      <4>1. phone' = [pc |-> "projected", generation |-> phone.generation,
                      revision |-> phone.revision, profile |-> phone.profile, db |-> slot.db]
        <5>1. phone' = [phone EXCEPT !.pc = "projected", !.db = slot.db]
          BY <2>3, <3>1, Zenon DEF PhoneProject
        <5> QED BY <5>1 DEF IInv, ClientFields
      <4>2. phone.revision = revision BY <3>1 DEF ValidSession, SameSession
      <4> QED BY <1>1, <4>1, <4>2 DEF IInv, ClientFields, PhoneStamped
    <3>2. CASE ~ValidSession
      <4>1. phone' = NoPhone BY <2>3, <3>2, Zenon DEF PhoneProject
      <4> QED BY <1>1, <4>1 DEF NoPhone, IInv, ClientFields, PhoneStamped
    <3> QED BY <3>1, <3>2
  <2>4. CASE PhoneRecheck
    BY <2>4, <1>1 DEF PhoneRecheck, NoPhone, IInv, ClientFields, PhoneStamped
  <2>5. CASE PhoneDeliver
    BY <2>5 DEF PhoneDeliver, NoPhone, IInv, ClientFields, PhoneStamped
  <2>6. CASE PhoneEnds
    BY <2>6 DEF PhoneEnds, NoPhone, IInv, ClientFields, PhoneStamped
  <2> QED BY <2>1, <2>2, <2>3, <2>4, <2>5, <2>6
<1> QED BY <1>1, <1>2, <1>3 DEF IInv

\* The stamps stay true under every thread that replaces, locks or reads the
\* session.
THEOREM StampsInductive == Spec => []IInv
<1>1. Init => IInv
  BY DEF Init, IInv, ClientFields, RefreshStamped, RefreshWritesItsOrigin, PhoneStamped,
         NoRefresh, NoPhone
<1>2. IInv /\ [Next]_vars => IInv'
  <2> SUFFICES ASSUME IInv, [Next]_vars PROVE IInv'
    OBVIOUS
  <2>1. CASE Swap BY <2>1, SwapKeeps
  <2>2. CASE (UserCommand \/ CommandStep) /\ ~Swap BY <2>2, CommandFrame, FrameKeeps
  <2>3. CASE (LockRequest \/ Locking) /\ ~Swap BY <2>3, LockFrame, FrameKeeps
  <2>4. CASE ClientStep
    BY <2>4, RefreshKeeps, PhoneKeeps DEF ClientStep
  <2>5. CASE UNCHANGED vars
    <3>1. UNCHANGED <<slot, revision, clients>> BY <2>5 DEF vars, runtime
    <3> QED BY <3>1, FrameKeeps
  <2> QED BY <2>1, <2>2, <2>3, <2>4, <2>5 DEF Next
<1> QED BY <1>1, <1>2, PTL DEF Spec

\* Prices land in the database whose holdings were priced, whatever replaced or
\* locked the session during the wait for the network.
THEOREM PricesReachTheirOrigin == Spec => []RefreshWritesItsOrigin
<1>1. IInv => RefreshWritesItsOrigin BY DEF IInv, RefreshStamped
<1> QED BY <1>1, StampsInductive, PTL

-----------------------------------------------------------------------------
(* The program of a command *)

\* The step the running command is at.
Now == IF WorkerIdle THEN "idle" ELSE Head(command.steps)

\* The commands that install a database, and those that replace the open one.
Activates == command.name \in {"select", "unlock", "convert", "password"}
Replaces  == command.name \in {"relocate", "restore", "switch"}
Targeted  == ~WorkerIdle /\ (Activates \/ Replaces)

\* Which step follows which.
Order(name) ==
  CASE name \in {"select", "unlock", "convert", "password"} ->
         {<<"commit", "open">>, <<"open", "settle">>, <<"settle", "path">>,
          <<"path", "generation">>, <<"generation", "install">>, <<"install", "notice">>,
          <<"notice", "armCheck">>, <<"armCheck", "arm">>}
    [] name = "relocate" ->
         {<<"replace", "path">>, <<"path", "generation">>, <<"generation", "registry">>,
          <<"registry", "notice">>, <<"notice", "release">>, <<"release", "armCheck">>,
          <<"armCheck", "arm">>}
    [] name = "restore" ->
         {<<"replace", "registry">>, <<"registry", "path">>, <<"path", "generation">>,
          <<"generation", "notice">>, <<"notice", "release">>, <<"release", "armCheck">>,
          <<"armCheck", "arm">>}
    [] name = "switch" ->
         {<<"replace", "path">>, <<"path", "generation">>, <<"generation", "settle">>,
          <<"settle", "notice">>, <<"notice", "release">>, <<"release", "armCheck">>,
          <<"armCheck", "arm">>}
    [] name = "settings" -> {<<"armCheck", "arm">>}
    [] OTHER -> {}

\* The step a command ends with.
LastStep ==
  CASE command.name = "lock"    -> "lock"
    [] command.name = "project" -> "recheck"
    [] command.name = "switch"  -> IF Encrypted(command.path) THEN "arm" ELSE "release"
    [] OTHER                    -> "arm"

Names == {"select", "unlock", "convert", "password", "relocate", "restore", "switch",
          "settings", "lock", "project"}

Steps == {"commit", "open", "settle", "path", "generation", "install", "notice", "replace",
          "registry", "release", "armCheck", "arm", "lock", "recheck"}

InOrder(name, steps) ==
  /\ steps \in Seq(Steps) /\ steps # <<>>
  /\ \A i \in 1..(Len(steps) - 1) : <<steps[i], steps[i + 1]>> \in Order(name)

\* What is left of the running command's program.
Program ==
  ~WorkerIdle =>
    /\ command = [name |-> command.name, steps |-> command.steps,
                  from |-> command.from, path |-> command.path]
    /\ command.name \in Names
    /\ Targeted => command.from \in Paths /\ command.path \in Paths
    /\ InOrder(command.name, command.steps)
    /\ command.steps[Len(command.steps)] = LastStep

\* The step is one that runs under the session guard.
GuardHeld == Now = "commit" \/ (Replaces /\ Now \notin {"idle", "armCheck", "arm"})

\* The steps after the session got its new generation.
Renewed ==
  \/ command.name # "settings" /\ Now \in {"install", "notice", "release", "armCheck", "arm"}
  \/ Now = "registry" /\ command.name = "relocate"
  \/ Now = "settle" /\ command.name = "switch"

\* The steps after the slot got the new database.
Placed ==
  \/ Activates /\ Now \in {"notice", "armCheck", "arm"}
  \/ Replaces /\ Now \notin {"idle", "replace"}

-----------------------------------------------------------------------------
(* The mutex and the generation *)

RequestPcs == {"idle", "queued", "generation", "profile", "mutex", "retire", "disarm"}

Requests ==
  [pc : RequestPcs, profile : Profiles \cup {None}, generation : Nat,
   from : Paths \cup {None}, path : Paths \cup {None}]

\* A request that was made knows its profile, and its path once it has read it.
RequestsMade ==
  /\ threads \in [LockThreads -> Requests]
  /\ \A t \in LockThreads :
       /\ threads[t].pc # "idle" => threads[t].profile \in Profiles
       /\ threads[t].pc \in {"generation", "profile", "mutex", "retire"} =>
            threads[t].from \in Paths

Typed == TypeOK /\ RequestsMade /\ Program

\* Who retires a session holds the mutex, and the session is open; the worker's
\* own request is part of its lock command.
Holding ==
  /\ \A t \in LockThreads : threads[t].pc = "retire" => holder = t /\ IsOpen
  /\ GuardHeld => holder = "worker"
  /\ threads["worker"].pc # "idle" => Now = "lock"

\* What a command replaces is older than the generation it gave the session.
Older(g) == g <= generation /\ (Renewed => g < generation)

Dated ==
  /\ timer # None => Older(timer.generation)
  /\ \A t \in LockThreads :
       threads[t].pc # "idle" =>
         /\ Older(threads[t].generation)
         /\ threads[t].pc = "disarm" => threads[t].generation < generation

\* Nobody locks the new database before its command is through.
InPlace ==
  /\ Placed => slot = Open(command.path) /\ \A t \in LockThreads : threads[t].pc # "retire"
  /\ Now = "replace" /\ command.name \in {"relocate", "restore"} =>
       IsOpen /\ slot.profile = command.path[1]

\* switch_profile replaces the notice with the database.
Noticed ==
  notice # None
    /\ ~(command.name = "switch" /\ Placed /\ Now \notin {"release", "armCheck", "arm"}) =>
    IsOpen /\ notice[1] = slot.profile

MutexParts == Holding /\ Dated /\ InPlace /\ Noticed

MutexInv == Typed /\ MutexParts

-----------------------------------------------------------------------------
(* The keys of a final backup *)

\* A path in use is of a database that exists.
Known(path) == path[2] <= created[path[1]]

FilesKnown ==
  /\ Known(dbPath) /\ (IsOpen => Known(slot.db)) /\ \A p \in Profiles : Known(file[p])
  /\ Targeted => Known(command.path)
  /\ \A t \in LockThreads : threads[t].from # None => Known(threads[t].from)

\* The steps after the new path.
Pathed == Now = "generation" \/ Renewed

\* The new path is known, the new database not yet installed.
Installing == Activates /\ Now \in {"generation", "install"}

\* The slot has the new database, or the path is the new one, but not both.
Between ==
  \/ Installing
  \/ Replaces /\ Now = "path"
  \/ command.name = "restore" /\ Now = "registry"

PathFollows ==
  /\ Pathed => dbPath = command.path
  /\ IsOpen /\ ~Between => slot.db = dbPath

\* The daily backup is taken before the path is the new one.
Settled == Activates /\ Now \in {"path", "generation", "install"} => ~due

\* A replacement that has yet to get its generation.
Replaced == Replaces /\ Now \in {"path", "registry", "generation"}

\* The key file a lock would put beside its backup is that of the open database.
SameKey(t) == due \/ ~Installing => dek[threads[t].from] = dek[slot.db]

KeysFollow ==
  \A t \in LockThreads :
    /\ threads[t].pc \in {"generation", "profile", "mutex"} /\ threads[t].generation = generation
         /\ IsOpen /\ ~Replaced => SameKey(t)
    /\ threads[t].pc = "retire" => SameKey(t)

KeysInv == FilesKnown /\ PathFollows /\ Settled /\ KeysFollow /\ BackupKeyMatches

-----------------------------------------------------------------------------
(* The registry and the timer *)

\* The registry has yet to name the new database.
Unregistered ==
  \/ Now = "commit"
  \/ command.name = "relocate" /\ Now \in {"replace", "path", "generation", "registry"}
  \/ command.name = "restore" /\ Now \in {"replace", "registry"}

\* The command changes no path.
Resting == Now \in {"idle", "lock", "recheck"}

Registered ==
  /\ \A p \in Profiles : file[p][1] = p
  /\ IsOpen => slot.profile \in listed
  /\ Targeted => command.path[1] \in listed
  /\ Targeted => file[command.path[1]] = IF Unregistered THEN command.from ELSE command.path
  /\ Resting \/ command.name = "settings" =>
       file[dbPath[1]] = dbPath /\ dbPath[1] \in listed \cup {Default}

\* A request of this generation is of the open profile, and knows the path.
RequestsMatch ==
  /\ timer # None /\ timer.generation = generation /\ IsOpen /\ ~Replaced =>
       timer.profile = slot.profile
  /\ \A t \in LockThreads :
       /\ threads[t].pc # "idle" /\ threads[t].generation = generation /\ IsOpen /\ ~Replaced =>
            threads[t].profile = slot.profile
       /\ threads[t].pc = "retire" => threads[t].profile = slot.profile
       /\ threads[t].pc = "mutex" /\ threads[t].generation = generation /\ Now # "generation" =>
            threads[t].path = dbPath

Armed ==
  Resting /\ IsOpen /\ Encrypted(slot.db) =>
    \/ timer = [profile |-> slot.profile, generation |-> generation]
    \/ \E t \in LockThreads :
         /\ threads[t].pc # "idle"
         /\ threads[t].profile = slot.profile /\ threads[t].generation = generation

TimerInv == PathFollows /\ Registered /\ RequestsMatch /\ Armed

-----------------------------------------------------------------------------
\* The programs are in order.
LEMMA Ordered ==
  /\ \A name \in {"select", "unlock", "convert", "password"} :
       InOrder(name, Activate) /\ Activate[1] = "settle" /\ Activate[Len(Activate)] = "arm"
  /\ \A name \in {"convert", "password"} :
       /\ InOrder(name, ChangeProgram) /\ ChangeProgram[1] = "commit"
       /\ ChangeProgram[Len(ChangeProgram)] = "arm"
  /\ /\ InOrder("relocate", RelocateProgram) /\ RelocateProgram[1] = "replace"
     /\ RelocateProgram[Len(RelocateProgram)] = "arm"
  /\ /\ InOrder("restore", RestoreProgram) /\ RestoreProgram[1] = "replace"
     /\ RestoreProgram[Len(RestoreProgram)] = "arm"
  /\ /\ InOrder("settings", <<"armCheck", "arm">>)
     /\ InOrder("lock", <<"lock">>) /\ InOrder("project", <<"recheck">>)
<1>1. \A name \in {"select", "unlock", "convert", "password"} :
        InOrder(name, Activate) /\ Activate[1] = "settle" /\ Activate[Len(Activate)] = "arm"
  BY DEF InOrder, Activate, Order, Steps
<1>2. \A name \in {"convert", "password"} :
        /\ InOrder(name, ChangeProgram) /\ ChangeProgram[1] = "commit"
        /\ ChangeProgram[Len(ChangeProgram)] = "arm"
  BY DEF InOrder, ChangeProgram, Activate, Order, Steps
<1>3. /\ InOrder("relocate", RelocateProgram) /\ RelocateProgram[1] = "replace"
      /\ RelocateProgram[Len(RelocateProgram)] = "arm"
  BY DEF InOrder, RelocateProgram, Order, Steps
<1>4. /\ InOrder("restore", RestoreProgram) /\ RestoreProgram[1] = "replace"
      /\ RestoreProgram[Len(RestoreProgram)] = "arm"
  BY DEF InOrder, RestoreProgram, Order, Steps
<1>5. /\ InOrder("settings", <<"armCheck", "arm">>)
      /\ InOrder("lock", <<"lock">>) /\ InOrder("project", <<"recheck">>)
  BY DEF InOrder, Order, Steps
<1> QED
  BY <1>1, <1>2, <1>3, <1>4, <1>5

\* The guard of switch_profile is dropped last, or the timer armed last.
LEMMA SwitchOrdered ==
  ASSUME NEW path
  PROVE  /\ InOrder("switch", SwitchProgram(path)) /\ SwitchProgram(path)[1] = "replace"
         /\ SwitchProgram(path)[Len(SwitchProgram(path))]
              = IF Encrypted(path) THEN "arm" ELSE "release"
<1> DEFINE s == <<"replace", "path", "generation", "settle", "notice", "release">>
<1>1. /\ InOrder("switch", s \o <<"armCheck", "arm">>)
      /\ (s \o <<"armCheck", "arm">>)[1] = "replace"
      /\ (s \o <<"armCheck", "arm">>)[Len(s \o <<"armCheck", "arm">>)] = "arm"
  BY DEF InOrder, Order, Steps
<1>2. /\ InOrder("switch", s \o <<>>)
      /\ (s \o <<>>)[1] = "replace" /\ (s \o <<>>)[Len(s \o <<>>)] = "release"
  BY DEF InOrder, Order, Steps
<1>3. SwitchProgram(path) = IF Encrypted(path) THEN s \o <<"armCheck", "arm">> ELSE s \o <<>>
  BY DEF SwitchProgram
<1> HIDE DEF s
<1> QED
  BY <1>1, <1>2, <1>3

\* A command in order is at one of the steps.
LEMMA NowIsStep ==
  ASSUME Program
  PROVE  /\ ~WorkerIdle => Now \in Steps /\ Now = command.steps[1]
         /\ Now = "idle" <=> WorkerIdle
         /\ \A s \in Steps : At(s) <=> Now = s
<1>1. ~WorkerIdle => Head(command.steps) = command.steps[1] /\ command.steps[1] \in Steps
  BY DEF Program, InOrder
<1> QED
  BY <1>1 DEF Now, At, Steps

\* A command begins with the first step of its program.
LEMMA Begun ==
  ASSUME NEW name \in Names, NEW steps, NEW path, Begin(name, steps, path),
         InOrder(name, steps), steps[Len(steps)] = LastStep',
         Targeted' => dbPath \in Paths /\ path \in Paths
  PROVE  /\ Program' /\ WorkerIdle /\ ~WorkerIdle' /\ Now' = steps[1]
         /\ command'.name = name /\ command'.from = dbPath /\ command'.path = path
<1>1. WorkerIdle /\ command' = [name |-> name, steps |-> steps, from |-> dbPath, path |-> path]
  BY DEF Begin
<1>2. ~WorkerIdle'
  BY <1>1 DEF WorkerIdle, Idle, InOrder
<1>3. Now' = steps[1]
  BY <1>1, <1>2 DEF Now, InOrder
<1> QED
  BY <1>1, <1>2, <1>3 DEF Program

\* A command goes on with the next step of its program, or ends after the last.
LEMMA Advances ==
  ASSUME Program, ~WorkerIdle, Advance, Targeted => dek'[command.path] = dek[command.path]
  PROVE  /\ Program'
         /\ \/ command' = Idle /\ Now' = "idle" /\ Now = LastStep
            \/ /\ ~WorkerIdle' /\ Now' \in Steps /\ <<Now, Now'>> \in Order(command.name)
               /\ command'.name = command.name /\ command'.from = command.from
               /\ command'.path = command.path
<1> DEFINE s == command.steps
<1>1. s \in Seq(Steps) /\ s # <<>> /\ Len(s) \in Nat \ {0} /\ Now = s[1]
  BY NowIsStep, HeadTailProperties DEF Program, InOrder
<1>2. CASE Len(s) = 1
  <2>1. command' = Idle /\ Now = LastStep
    BY <1>1, <1>2 DEF Program, Advance
  <2> QED
    BY <2>1 DEF Program, WorkerIdle, Now
<1>3. CASE Len(s) # 1
  <2>1. command' = [name |-> command.name, steps |-> Tail(s),
                    from |-> command.from, path |-> command.path]
    BY <1>3 DEF Advance, Program
  <2>2. /\ Tail(s) \in Seq(Steps) /\ Len(Tail(s)) = Len(s) - 1
        /\ \A i \in 1..Len(Tail(s)) : Tail(s)[i] = s[i + 1]
    BY <1>1, HeadTailProperties
  <2>3. Tail(s) # <<>> /\ Len(Tail(s)) \in Nat \ {0}
    <3>1. Len(Tail(s)) \in Nat \ {0}
      BY <1>1, <1>3, <2>2
    <3> QED
      BY <3>1, <2>2, EmptySeq
  <2>4. \A i \in 1..(Len(Tail(s)) - 1) : <<Tail(s)[i], Tail(s)[i + 1]>> \in Order(command.name)
    BY <1>1, <2>2, <2>3 DEF Program, InOrder
  <2>5. InOrder(command'.name, command'.steps)
    BY <2>1, <2>2, <2>3, <2>4 DEF InOrder
  <2>6. Tail(s)[Len(Tail(s))] = s[Len(s)]
    BY <1>1, <2>2, <2>3
  <2>7. ~WorkerIdle' /\ Now' = Tail(s)[1]
    <3>1. ~WorkerIdle'
      BY <2>1, <2>3 DEF WorkerIdle, Idle
    <3> QED
      BY <3>1, <2>1, <2>2, <2>3 DEF Now
  <2>8. Now' \in Steps /\ <<Now, Now'>> \in Order(command.name)
    <3>1. <<s[1], s[2]>> \in Order(command.name)
      <4>1. \A i \in 1..(Len(s) - 1) : <<s[i], s[i + 1]>> \in Order(command.name)
        BY DEF Program, InOrder
      <4> DEFINE n == Len(s)
      <4>2. n \in Nat \ {0} /\ n # 1
        BY <1>1, <1>3
      <4>3. \A i \in 1..(n - 1) : <<s[i], s[i + 1]>> \in Order(command.name)
        BY <4>1
      <4> HIDE DEF s, n
      <4>4. 1 \in 1..(n - 1) /\ 1 + 1 = 2
        BY <4>2
      <4> QED
        BY <4>3, <4>4
    <3>2. Now' = s[2] /\ s[2] \in Steps
      BY <1>1, <1>3, <2>2, <2>3, <2>7
    <3> QED
      BY <1>1, <3>1, <3>2
  <2>9. LastStep' = LastStep
    BY <2>1 DEF LastStep, Encrypted, Targeted, Activates, Replaces, Program
  <2>10. Program'
    BY <2>1, <2>5, <2>6, <2>7, <2>9 DEF Program, Targeted, Activates, Replaces
  <2> QED
    BY <2>1, <2>7, <2>8, <2>10
<1> QED
  BY <1>2, <1>3

-----------------------------------------------------------------------------
(* The types *)

\* What the slot holds says what it is the slot of.
LEMMA SlotFacts ==
  ASSUME slot \in Slot
  PROVE  /\ IsOpen => slot = Open(slot.db) /\ slot.db \in Paths /\ slot.profile = slot.db[1]
         /\ slot.kind = "none" => slot = NoProfileOpen
         /\ slot.kind = "locked" => slot.profile \in Profiles
BY DEF Slot, IsOpen, Open, Locked, NoProfileOpen

\* An open database is a content of the slot.
LEMMA OpenIsSlot ==
  ASSUME NEW path \in Paths
  PROVE  /\ Open(path) \in Slot /\ Open(path).kind = "open"
         /\ Open(path).db = path /\ Open(path).profile = path[1]
BY DEF Open, Slot

\* profile_id_for always names a profile.
LEMMA ProfileOfIsProfile ==
  ASSUME listed \subseteq Profiles, NEW path
  PROVE  ProfileOf(path) \in Profiles
BY SessionConstants DEF ProfileOf

\* A new database is of its profile, and every other keeps its key.
LEMMA NewFileTyped ==
  ASSUME created \in [Profiles -> 1..MaxFiles], dek \in [Paths -> Paths \cup {None}],
         NEW p \in Profiles, NEW key \in Paths \cup {None} \cup {<<p, created[p] + 1>>},
         NewFile(p, key)
  PROVE  /\ <<p, created[p] + 1>> \in Paths
         /\ created' \in [Profiles -> 1..MaxFiles] /\ dek' \in [Paths -> Paths \cup {None}]
         /\ created' = [created EXCEPT ![p] = created[p] + 1]
         /\ dek' = [dek EXCEPT ![<<p, created[p] + 1>>] = key]
<1>1. created[p] \in 1..MaxFiles /\ created[p] < MaxFiles /\ MaxFiles \in Nat
  BY SessionConstants DEF NewFile
<1>2. created[p] + 1 \in 1..MaxFiles
  BY <1>1
<1>3. <<p, created[p] + 1>> \in Paths
  BY <1>2 DEF Paths
<1> QED
  BY <1>2, <1>3 DEF NewFile

\* What a thread asked for stays typed.
LEMMA ThreadTyped ==
  ASSUME RequestsMade, NEW t \in LockThreads, NEW r \in Requests,
         threads' = [threads EXCEPT ![t] = r],
         r.pc # "idle" => r.profile \in Profiles,
         r.pc \in {"generation", "profile", "mutex", "retire"} => r.from \in Paths
  PROVE  RequestsMade'
BY DEF RequestsMade

\* Starting a command.
LEMMA SelectStarts ==
  ASSUME Typed, NEW p \in Profiles, Select(p) \/ Unlock(p)
  PROVE  /\ Typed' /\ WorkerIdle /\ ~WorkerIdle' /\ Now' = "settle"
         /\ command'.name \in {"select", "unlock"} /\ command'.path = file[p]
         /\ p \in listed /\ ~IsOpen
         /\ UNCHANGED <<runtime, paths, timer, registry, backups, threads>>
<1>1. PICK name \in {"select", "unlock"} : Begin(name, Activate, file[p])
  BY DEF Select, Unlock
<1>2. /\ UNCHANGED <<runtime, paths, timer, registry, backups, threads>>
      /\ p \in listed /\ ~IsOpen
  BY DEF Select, Unlock, IsOpen, Locked
<1>3. command'.name = name
  BY <1>1 DEF Begin
<1>4. InOrder(name, Activate) /\ Activate[1] = "settle" /\ Activate[Len(Activate)] = LastStep'
  BY <1>3, Ordered DEF LastStep
<1>5. /\ Program' /\ WorkerIdle /\ ~WorkerIdle' /\ Now' = "settle" /\ command'.path = file[p]
  BY <1>1, <1>4, Begun DEF Names, Typed, TypeOK
<1> QED
  BY <1>2, <1>3, <1>5 DEF Typed, TypeOK, RequestsMade, runtime, paths, registry, backups, IsOpen

\* Commands that make a new database begin under the guard.
LEMMA ChangeStarts ==
  ASSUME Typed, Enable \/ RemoveProtection \/ ChangePassword \/ Relocate \/ Restore
  PROVE  /\ Typed' /\ WorkerIdle /\ ~WorkerIdle' /\ Free /\ IsOpen /\ holder' = "worker"
         /\ \/ command'.name \in {"convert", "password"} /\ Now' = "commit"
            \/ command'.name \in {"relocate", "restore"} /\ Now' = "replace"
         /\ command'.from = dbPath
         /\ command'.path = <<slot.profile, created[slot.profile] + 1>>
         /\ slot.profile \in Profiles /\ slot.db \in Paths
         /\ command'.path \in Paths
         /\ created' = [created EXCEPT ![slot.profile] = @ + 1]
         /\ \E key \in Paths \cup {None} :
              /\ dek' = [dek EXCEPT ![command'.path] = key]
              /\ command'.name = "relocate" => key = dek[slot.db]
         /\ Enable => ProfileOf(dbPath) = slot.profile
         /\ UNCHANGED <<slot, revision, notice, paths, timer, listed, file, backups, threads>>
<1> DEFINE p == slot.profile
<1> DEFINE path == <<p, created[p] + 1>>
<1>1. PICK name \in {"convert", "password", "relocate", "restore"},
           key \in {None, path, dek[slot.db]} :
        /\ NewFile(p, key)
        /\ Guarded(name, CASE name = "relocate" -> RelocateProgram
                           [] name = "restore"  -> RestoreProgram
                           [] OTHER             -> ChangeProgram, path)
        /\ name = "relocate" => key = dek[slot.db]
  <2>1. CASE Enable
    BY <2>1 DEF Enable, Convert
  <2>2. CASE RemoveProtection
    BY <2>2 DEF RemoveProtection, Convert
  <2>3. CASE ChangePassword
    BY <2>3 DEF ChangePassword
  <2>4. CASE Relocate
    BY <2>4 DEF Relocate
  <2>5. CASE Restore
    BY <2>5 DEF Restore
  <2> QED
    BY <2>1, <2>2, <2>3, <2>4, <2>5
<1>2. /\ IsOpen
      /\ UNCHANGED <<slot, revision, notice, paths, timer, listed, file, backups, threads>>
  BY DEF Enable, RemoveProtection, Convert, ChangePassword, Relocate, Restore
<1>3. p \in Profiles /\ slot.db \in Paths
  BY <1>2, SlotFacts DEF Typed, TypeOK, Paths
<1>4. key \in Paths \cup {None} \cup {path}
  BY <1>1, <1>3 DEF Typed, TypeOK
<1>5. /\ path \in Paths
      /\ created' \in [Profiles -> 1..MaxFiles] /\ dek' \in [Paths -> Paths \cup {None}]
      /\ created' = [created EXCEPT ![p] = created[p] + 1]
      /\ dek' = [dek EXCEPT ![path] = key]
  BY <1>1, <1>3, <1>4, NewFileTyped DEF Typed, TypeOK
<1>6. Free /\ holder' = "worker" /\ WorkerIdle /\ command'.name = name
  BY <1>1 DEF Guarded, Begin
<1>7. /\ Program' /\ ~WorkerIdle' /\ command'.from = dbPath /\ command'.path = path
      /\ \/ name \in {"convert", "password"} /\ Now' = "commit"
         \/ name \in {"relocate", "restore"} /\ Now' = "replace"
  <2> HIDE DEF path
  <2>1. dbPath \in Paths
    BY DEF Typed, TypeOK
  <2>2. CASE name \in {"convert", "password"}
    <3>1. Begin(name, ChangeProgram, path)
      BY <1>1, <2>2 DEF Guarded
    <3>2. /\ InOrder(name, ChangeProgram) /\ ChangeProgram[1] = "commit"
          /\ ChangeProgram[Len(ChangeProgram)] = LastStep'
      BY <1>6, <2>2, Ordered DEF LastStep
    <3> QED
      BY <2>1, <2>2, <3>1, <3>2, <1>5, Begun DEF Names
  <2>3. CASE name = "relocate"
    <3>1. Begin(name, RelocateProgram, path)
      BY <1>1, <2>3 DEF Guarded
    <3>2. /\ InOrder(name, RelocateProgram) /\ RelocateProgram[1] = "replace"
          /\ RelocateProgram[Len(RelocateProgram)] = LastStep'
      BY <1>6, <2>3, Ordered DEF LastStep
    <3> QED
      BY <2>1, <2>3, <3>1, <3>2, <1>5, Begun DEF Names
  <2>4. CASE name = "restore"
    <3>1. Begin(name, RestoreProgram, path)
      BY <1>1, <2>4 DEF Guarded
    <3>2. /\ InOrder(name, RestoreProgram) /\ RestoreProgram[1] = "replace"
          /\ RestoreProgram[Len(RestoreProgram)] = LastStep'
      BY <1>6, <2>4, Ordered DEF LastStep
    <3> QED
      BY <2>1, <2>4, <3>1, <3>2, <1>5, Begun DEF Names
  <2> QED
    BY <2>2, <2>3, <2>4
<1>8. Typed'
  <2> HIDE DEF path, p
  <2>1. holder' \in LockThreads \cup {None}
    BY <1>6, SessionConstants
  <2> QED
    BY <1>2, <1>5, <1>7, <2>1 DEF Typed, TypeOK, RequestsMade, paths, backups
<1>9. Enable => ProfileOf(dbPath) = p
  BY DEF Enable
<1>10. \E k \in Paths \cup {None} :
         dek' = [dek EXCEPT ![path] = k] /\ (name = "relocate" => k = dek[slot.db])
  BY <1>1, <1>4, <1>5
<1>11. command'.path = <<slot.profile, created[slot.profile] + 1>>
  BY <1>7
<1>12. created' = [created EXCEPT ![slot.profile] = @ + 1]
  BY <1>5
<1>13. \E k \in Paths \cup {None} :
         /\ dek' = [dek EXCEPT ![command'.path] = k]
         /\ command'.name = "relocate" => k = dek[slot.db]
  <2> HIDE DEF path
  <2> QED
    BY <1>6, <1>7, <1>10
<1> HIDE DEF path
<1> QED
  BY <1>2, <1>3, <1>5, <1>6, <1>7, <1>8, <1>9, <1>11, <1>12, <1>13

\* switch_profile, create_profile and add_existing_profile begin under the guard.
LEMMA SwitchStarts ==
  ASSUME Typed, NEW p \in Profiles, Switch(p)
  PROVE  /\ Typed' /\ WorkerIdle /\ ~WorkerIdle' /\ Now' = "replace" /\ command'.name = "switch"
         /\ Free /\ IsOpen /\ holder' = "worker" /\ command'.path = file[p]
         /\ listed' = listed \cup {p}
         /\ UNCHANGED <<slot, revision, notice, paths, timer, file, dek, created, backups, threads>>
<1>1. /\ Guarded("switch", SwitchProgram(file[p]), file[p]) /\ IsOpen /\ listed' = listed \cup {p}
      /\ UNCHANGED <<slot, revision, notice, paths, timer, file, dek, created, backups, threads>>
  BY DEF Switch
<1>2. /\ Free /\ holder' = "worker" /\ WorkerIdle /\ command'.name = "switch"
      /\ command'.path = file[p] /\ Begin("switch", SwitchProgram(file[p]), file[p])
  BY <1>1 DEF Guarded, Begin
<1>3. /\ InOrder("switch", SwitchProgram(file[p])) /\ SwitchProgram(file[p])[1] = "replace"
      /\ SwitchProgram(file[p])[Len(SwitchProgram(file[p]))] = LastStep'
  BY <1>1, <1>2, SwitchOrdered DEF LastStep, Encrypted
<1>4. Program' /\ ~WorkerIdle' /\ Now' = "replace"
  BY <1>2, <1>3, Begun DEF Names, Typed, TypeOK
<1>5. holder' \in LockThreads \cup {None}
  BY <1>2, SessionConstants
<1> QED
  BY <1>1, <1>2, <1>4, <1>5 DEF Typed, TypeOK, RequestsMade, paths, backups

\* set_auto_lock_settings begins without the guard.
LEMMA SettingsStarts ==
  ASSUME Typed, SetAutoLock
  PROVE  /\ Typed' /\ WorkerIdle /\ ~WorkerIdle' /\ Now' = "armCheck"
         /\ command'.name = "settings"
         /\ UNCHANGED <<runtime, paths, timer, registry, backups, threads>>
<1>1. /\ Begin("settings", <<"armCheck", "arm">>, None)
      /\ UNCHANGED <<runtime, paths, timer, registry, backups, threads>>
  BY DEF SetAutoLock
<1>2. command'.name = "settings"
  BY <1>1 DEF Begin
<1>3. /\ InOrder("settings", <<"armCheck", "arm">>)
      /\ <<"armCheck", "arm">>[Len(<<"armCheck", "arm">>)] = LastStep'
      /\ <<"armCheck", "arm">>[1] = "armCheck"
  BY <1>2, Ordered DEF LastStep
<1>4. ~Targeted'
  BY <1>2 DEF Targeted, Activates, Replaces
<1>5. Program' /\ WorkerIdle /\ ~WorkerIdle' /\ Now' = "armCheck"
  BY <1>1, <1>3, <1>4, Begun DEF Names
<1> QED
  BY <1>1, <1>2, <1>5 DEF Typed, TypeOK, RequestsMade, runtime, paths, registry, backups, IsOpen

\* lock_current_profile asks for a lock of the profile the path is found under.
LEMMA LockStarts ==
  ASSUME Typed, LockNow
  PROVE  /\ Typed' /\ WorkerIdle /\ ~WorkerIdle' /\ Now' = "lock" /\ command'.name = "lock"
         /\ \E g \in 0..generation :
              threads' = [threads EXCEPT !["worker"] = Asked(ProfileOf(dbPath), g)]
         /\ \A t \in LockThreads \ {"worker"} : threads'[t] = threads[t]
         /\ threads'["worker"].pc = "queued" /\ threads'["worker"].profile = ProfileOf(dbPath)
         /\ threads'["worker"].generation \in 0..generation /\ threads'["worker"].from = None
         /\ UNCHANGED <<runtime, paths, timer, registry, backups>>
<1>1. PICK g \in 0..generation :
        threads' = [threads EXCEPT !["worker"] = Asked(ProfileOf(dbPath), g)]
  BY DEF LockNow
<1>2. /\ Begin("lock", <<"lock">>, None) /\ UNCHANGED <<runtime, paths, timer, registry, backups>>
  BY DEF LockNow
<1>3. command'.name = "lock"
  BY <1>2 DEF Begin
<1>4. /\ InOrder("lock", <<"lock">>)
      /\ <<"lock">>[Len(<<"lock">>)] = LastStep' /\ <<"lock">>[1] = "lock"
  BY <1>3, Ordered DEF LastStep
<1>5. ~Targeted'
  BY <1>3 DEF Targeted, Activates, Replaces
<1>6. Program' /\ WorkerIdle /\ ~WorkerIdle' /\ Now' = "lock"
  BY <1>2, <1>4, <1>5, Begun DEF Names
<1>7. /\ Asked(ProfileOf(dbPath), g) \in Requests
      /\ Asked(ProfileOf(dbPath), g).pc = "queued" /\ Asked(ProfileOf(dbPath), g).generation = g
      /\ Asked(ProfileOf(dbPath), g).profile = ProfileOf(dbPath)
      /\ Asked(ProfileOf(dbPath), g).from = None
      /\ ProfileOf(dbPath) \in Profiles
  <2>1. ProfileOf(dbPath) \in Profiles
    BY ProfileOfIsProfile DEF Typed, TypeOK
  <2>2. g \in Nat
    BY DEF Typed, TypeOK
  <2> QED
    BY <2>1, <2>2 DEF Asked, NoRequest, Requests, RequestPcs
<1> HIDE DEF Asked
<1>8. "worker" \in LockThreads
  BY SessionConstants
<1>9. RequestsMade'
  BY <1>1, <1>7, <1>8, ThreadTyped DEF Typed
<1>10. TypeOK'
  <2>1. \A t \in LockThreads : threads'[t].pc \in RequestPcs
    BY <1>9 DEF RequestsMade, Requests
  <2> QED
    BY <1>2, <2>1 DEF Typed, TypeOK, runtime, paths, registry, backups, RequestPcs
<1> QED
  BY <1>1, <1>2, <1>3, <1>6, <1>7, <1>8, <1>9, <1>10 DEF Typed, RequestsMade

\* A phone snapshot takes the worker between two commands, or is refused.
LEMMA ProjectStarts ==
  ASSUME Typed, PhoneProject
  PROVE  /\ Typed'
         /\ \/ UNCHANGED command
            \/ /\ WorkerIdle /\ ~WorkerIdle' /\ Now' = "recheck" /\ command'.name = "project"
         /\ UNCHANGED <<runtime, paths, timer, registry, backups, threads>>
<1>1. UNCHANGED <<runtime, paths, timer, registry, backups, threads>> /\ WorkerIdle
  BY DEF PhoneProject
<1>2. CASE UNCHANGED command
  BY <1>1, <1>2 DEF Typed, TypeOK, RequestsMade, runtime, paths, registry, backups, IsOpen,
     Program, WorkerIdle
<1>3. CASE ~(UNCHANGED command)
  <2>1. command' = [Idle EXCEPT !.name = "project", !.steps = <<"recheck">>]
    BY <1>3 DEF PhoneProject
  <2>2. command' = [name |-> "project", steps |-> <<"recheck">>, from |-> None, path |-> None]
    BY <2>1 DEF Idle
  <2>3. ~WorkerIdle' /\ Now' = "recheck"
    BY <2>2 DEF WorkerIdle, Idle, Now
  <2>4. InOrder("project", <<"recheck">>)
    BY Ordered
  <2>5. Program'
    BY <2>2, <2>4 DEF Program, Names, LastStep, Targeted, Activates, Replaces
  <2> QED
    BY <1>1, <2>2, <2>3, <2>5
       DEF Typed, TypeOK, RequestsMade, runtime, paths, registry, backups, IsOpen
<1> QED
  BY <1>2, <1>3

\* The steps of a command: which one comes next.
LEMMA CommandMoves ==
  ASSUME Program, CommandStep
  PROVE  /\ Program' /\ ~WorkerIdle /\ Now \in Steps /\ UNCHANGED <<dek, created, listed, threads>>
         /\ \/ /\ command' = Idle /\ Now' = "idle"
               /\ \/ Now = LastStep
                  \/ Now = "armCheck" /\ ~IsOpen
                  \/ Now = "open" /\ "open" \in Faults
                  \/ Now = "registry" /\ "registry" \in Faults
            \/ /\ ~WorkerIdle' /\ <<Now, Now'>> \in Order(command.name) /\ Now' \in Steps
               /\ command'.name = command.name /\ command'.from = command.from
               /\ command'.path = command.path
<1>1. ~WorkerIdle /\ Now \in Steps
  BY NowIsStep DEF CommandStep, Commit, OpenNew, Settle, SetPath, BumpGeneration, Install, Replace,
     UpdateRegistry, UpdateRegistryFails, SetNotice, Release, ArmCheck, Arm, At
<1>2. UNCHANGED <<dek, created, listed, threads>>
  BY DEF CommandStep, Commit, OpenNew, Settle, SetPath, BumpGeneration, Install, Replace,
     UpdateRegistry, UpdateRegistryFails, SetNotice, Release, ArmCheck, Arm, registry
<1>3. CASE Advance
  <2>1. Targeted => dek'[command.path] = dek[command.path]
    BY <1>2
  <2>2. /\ Program'
        /\ \/ command' = Idle /\ Now' = "idle" /\ Now = LastStep
           \/ /\ ~WorkerIdle' /\ Now' \in Steps /\ <<Now, Now'>> \in Order(command.name)
              /\ command'.name = command.name /\ command'.from = command.from
              /\ command'.path = command.path
    BY <1>1, <1>3, <2>1, Advances
  <2> QED
    BY <1>1, <1>2, <2>2
<1>4. CASE ~Advance
  <2>1. /\ Finish
        /\ \/ At("armCheck") /\ ~IsOpen
           \/ At("open") /\ "open" \in Faults
           \/ At("registry") /\ "registry" \in Faults
    BY <1>4 DEF CommandStep, Commit, OpenNew, Settle, SetPath, BumpGeneration, Install, Replace,
       UpdateRegistry, UpdateRegistryFails, SetNotice, Release, ArmCheck, Arm
  <2>2. command' = Idle /\ Now' = "idle" /\ Program'
    BY <2>1 DEF Finish, Now, WorkerIdle, Program
  <2>3. /\ At("armCheck") => Now = "armCheck"
        /\ At("open") => Now = "open"
        /\ At("registry") => Now = "registry"
    BY NowIsStep DEF Steps
  <2> QED
    BY <1>1, <1>2, <2>1, <2>2, <2>3
<1> QED
  BY <1>3, <1>4

\* The command whose step it is.
LEMMA CommandOf ==
  ASSUME Program, ~WorkerIdle
  PROVE  /\ Now \in {"commit", "open", "install"} => Activates
         /\ Now \in {"replace", "release", "registry"} => Replaces
         /\ Now \in {"settle", "path", "generation", "notice"} => Activates \/ Replaces
         /\ Now \in {"armCheck", "arm"} => Activates \/ Replaces \/ command.name = "settings"
         /\ Now = "registry" => command.name # "switch"
         /\ Now = "lock" => command.name = "lock"
         /\ Now = "recheck" => command.name = "project"
<1> DEFINE s == command.steps
<1> DEFINE n == Len(s)
<1>1. s \in Seq(Steps) /\ n \in Nat \ {0} /\ Now = s[1] /\ command.name \in Names
  BY NowIsStep, HeadTailProperties DEF Program, InOrder
<1>2. n = 1 => Now = LastStep
  BY <1>1 DEF Program
<1>3. n # 1 => \E u : <<Now, u>> \in Order(command.name)
  <2>1. \A i \in 1..(n - 1) : <<s[i], s[i + 1]>> \in Order(command.name)
    BY DEF Program, InOrder
  <2> HIDE DEF s, n
  <2>2. n # 1 => 1 \in 1..(n - 1)
    BY <1>1
  <2> QED
    BY <1>1, <2>1, <2>2
<1>4. n = 1 \/ n # 1
  OBVIOUS
<1> HIDE DEF n
<1>5. CASE Now = LastStep
  BY <1>1, <1>5 DEF LastStep, Names, Activates, Replaces
<1>6. CASE \E u : <<Now, u>> \in Order(command.name)
  BY <1>1, <1>6 DEF Order, Names, Activates, Replaces
<1> QED
  BY <1>2, <1>3, <1>5, <1>6

\* A backup is of a data key, beside a key file.
LEMMA BackUpTyped ==
  ASSUME Typed, NEW d \in Paths \cup {None}, NEW source \in Paths, BackUp(d, source)
  PROVE  due' \in BOOLEAN /\ copies' \subseteq [db : Paths, key : Paths]
<1>1. dek[source] \in Paths \cup {None}
  BY DEF Typed, TypeOK
<1>2. due \in BOOLEAN /\ copies \subseteq [db : Paths, key : Paths]
  BY DEF Typed, TypeOK
<1>3. CASE UNCHANGED backups
  BY <1>2, <1>3 DEF backups
<1>4. CASE d # None /\ dek[source] # None /\ due' = FALSE
             /\ copies' = copies \cup {[db |-> d, key |-> dek[source]]}
  <2>1. d \in Paths /\ dek[source] \in Paths
    BY <1>1, <1>4
  <2>2. [db |-> d, key |-> dek[source]] \in [db : Paths, key : Paths]
    BY <2>1
  <2> QED
    BY <1>2, <1>4, <2>2
<1>5. CASE due' = FALSE /\ UNCHANGED copies
  BY <1>2, <1>5
<1> QED
  BY <1>3, <1>4, <1>5 DEF BackUp

\* The steps of a command keep the types.
LEMMA CommandTyped ==
  ASSUME Typed, CommandStep
  PROVE  Typed'
<1>1. /\ Program' /\ ~WorkerIdle /\ UNCHANGED <<dek, created, listed, threads>>
  BY CommandMoves DEF Typed
<1>2. Now \in {"settle", "path", "install", "replace", "notice", "commit", "registry"} =>
        command.path \in Paths
  BY <1>1, CommandOf DEF Typed, Program, Targeted, Activates, Replaces
<1>3. \A s \in Steps : At(s) => Now = s
  BY NowIsStep DEF Typed
<1>4. RequestsMade' /\ \A t \in LockThreads : threads'[t].pc \in RequestPcs
  BY <1>1 DEF Typed, RequestsMade, TypeOK, RequestPcs
<1>5. {revision', generation'} \subseteq Nat
  BY DEF Typed, TypeOK, CommandStep, Commit, OpenNew, Settle, SetPath, BumpGeneration, Install,
     Replace, UpdateRegistry, UpdateRegistryFails, SetNotice, Release, ArmCheck, Arm, runtime, paths
<1>6. slot' \in Slot
  <2>1. CASE Install \/ Replace
    <3>1. command.path \in Paths /\ slot' = Open(command.path)
      BY <1>2, <1>3, <2>1 DEF Install, Replace, Steps
    <3> QED
      BY <3>1, OpenIsSlot
  <2>2. CASE ~(Install \/ Replace)
    BY <2>2 DEF Typed, TypeOK, CommandStep, Commit, OpenNew, Settle, SetPath, BumpGeneration,
       UpdateRegistry, UpdateRegistryFails, SetNotice, Release, ArmCheck, Arm, runtime
  <2> QED
    BY <2>1, <2>2
<1>7. holder' \in LockThreads \cup {None}
  BY DEF Typed, TypeOK, CommandStep, Commit, OpenNew, Settle, SetPath, BumpGeneration, Install,
     Replace, UpdateRegistry, UpdateRegistryFails, SetNotice, Release, ArmCheck, Arm, runtime
<1>8. notice' \in Paths \cup {None}
  <2>1. CASE SetNotice
    BY <1>2, <1>3, <2>1 DEF SetNotice, Steps
  <2>2. CASE ~SetNotice
    BY <2>2 DEF Typed, TypeOK, CommandStep, Commit, OpenNew, Settle, SetPath, BumpGeneration,
       Install, Replace, UpdateRegistry, UpdateRegistryFails, Release, ArmCheck, Arm, runtime
  <2> QED
    BY <2>1, <2>2
<1>9. dbPath' \in Paths
  <2>1. CASE SetPath
    BY <1>2, <1>3, <2>1 DEF SetPath, Steps
  <2>2. CASE ~SetPath
    BY <2>2 DEF Typed, TypeOK, CommandStep, Commit, OpenNew, Settle, BumpGeneration, Install,
       Replace, UpdateRegistry, UpdateRegistryFails, SetNotice, Release, ArmCheck, Arm, paths
  <2> QED
    BY <2>1, <2>2
<1>10. timer' \in Timer \cup {None}
  <2>1. CASE Arm
    <3>1. ProfileOf(dbPath) \in Profiles /\ generation \in Nat
      BY ProfileOfIsProfile DEF Typed, TypeOK
    <3> QED
      BY <2>1, <3>1 DEF Arm, Timer
  <2>2. CASE ~Arm
    BY <2>2 DEF Typed, TypeOK, CommandStep, Commit, OpenNew, Settle, SetPath, BumpGeneration,
       Install, Replace, UpdateRegistry, UpdateRegistryFails, SetNotice, Release, ArmCheck
  <2> QED
    BY <2>1, <2>2
<1>11. file' \in [Profiles -> Paths]
  <2>1. CASE Commit \/ UpdateRegistry
    <3>1. command.path \in Paths
      BY <1>2, <1>3, <2>1 DEF Commit, UpdateRegistry, Steps
    <3>2. ProfileOf(command.from) \in Profiles
      BY ProfileOfIsProfile DEF Typed, TypeOK
    <3>3. Moved \in [Profiles -> Paths]
      BY <3>1 DEF Moved, Typed, TypeOK
    <3> QED
      BY <2>1, <3>1, <3>2, <3>3 DEF Commit, UpdateRegistry, Typed, TypeOK
  <2>2. CASE ~(Commit \/ UpdateRegistry)
    BY <2>2 DEF Typed, TypeOK, CommandStep, OpenNew, Settle, SetPath, BumpGeneration, Install,
       Replace, UpdateRegistryFails, SetNotice, Release, ArmCheck, Arm, registry
  <2> QED
    BY <2>1, <2>2
<1>12. due' \in BOOLEAN /\ copies' \subseteq [db : Paths, key : Paths]
  <2>1. CASE Settle
    <3>1. command.path \in Paths
      BY <1>2, <1>3, <2>1 DEF Settle, Steps
    <3>2. dek[command.path] \in Paths \cup {None}
      BY <3>1 DEF Typed, TypeOK
    <3> QED
      BY <2>1, <3>1, <3>2, BackUpTyped DEF Settle
  <2>2. CASE ~Settle
    BY <2>2 DEF Typed, TypeOK, CommandStep, Commit, OpenNew, SetPath, BumpGeneration, Install,
       Replace, UpdateRegistry, UpdateRegistryFails, SetNotice, Release, ArmCheck, Arm, backups
  <2> QED
    BY <2>1, <2>2
<1> QED
  BY <1>1, <1>4, <1>5, <1>6, <1>7, <1>8, <1>9, <1>10, <1>11, <1>12
     DEF Typed, TypeOK, RequestPcs

\* A step of one thread: the fields it leaves, and the other threads.
LEMMA GoToFacts ==
  ASSUME RequestsMade, NEW t \in LockThreads, NEW label \in RequestPcs,
         \/ GoTo(t, label)
         \/ \E path \in Paths : threads' = [threads EXCEPT ![t].pc = label, ![t].path = path]
         \/ \E from \in Paths : threads' = [threads EXCEPT ![t].pc = label, ![t].from = from]
  PROVE  /\ threads' \in [LockThreads -> Requests]
         /\ \A u \in LockThreads \ {t} : threads'[u] = threads[u]
         /\ threads'[t].pc = label /\ threads'[t].profile = threads[t].profile
         /\ threads'[t].generation = threads[t].generation
<1>1. threads[t] \in Requests /\ threads \in [LockThreads -> Requests]
  BY DEF RequestsMade
<1>2. CASE GoTo(t, label)
  BY <1>1, <1>2 DEF GoTo, Requests
<1>3. CASE \E path \in Paths : threads' = [threads EXCEPT ![t].pc = label, ![t].path = path]
  <2>1. PICK path \in Paths : threads' = [threads EXCEPT ![t].pc = label, ![t].path = path]
    BY <1>3
  <2>2. path \in Paths \cup {None}
    OBVIOUS
  <2> QED
    BY <1>1, <2>1, <2>2 DEF Requests
<1>4. CASE \E from \in Paths : threads' = [threads EXCEPT ![t].pc = label, ![t].from = from]
  <2>1. PICK from \in Paths : threads' = [threads EXCEPT ![t].pc = label, ![t].from = from]
    BY <1>4
  <2>2. from \in Paths \cup {None}
    OBVIOUS
  <2> QED
    BY <1>1, <2>1, <2>2 DEF Requests
<1> QED
  BY <1>2, <1>3, <1>4

\* A request that is given up leaves nothing behind.
LEMMA DropFacts ==
  ASSUME RequestsMade, NEW t \in LockThreads, Drop(t)
  PROVE  /\ threads' \in [LockThreads -> Requests]
         /\ \A u \in LockThreads \ {t} : threads'[u] = threads[u]
         /\ threads'[t].pc = "idle" /\ threads'[t].from = None
<1>1. NoRequest \in Requests /\ NoRequest.pc = "idle" /\ NoRequest.from = None
  BY DEF NoRequest, Requests, RequestPcs
<1> HIDE DEF NoRequest
<1> QED
  BY <1>1 DEF RequestsMade, Drop

\* A thread that looks at the session, and goes on or gives its request up.
Looks(t) == LockReadPath(t) \/ LockCheckGeneration(t) \/ LockCheckProfile(t)

\* Why a look gives a request up, and what it remembers when it does not.
LEMMA LookFacts ==
  ASSUME Typed, NEW t \in LockThreads, Looks(t)
  PROVE  /\ RequestsMade'
         /\ UNCHANGED <<runtime, paths, timer, registry, backups, command>>
         /\ \A u \in LockThreads \ {t} : threads'[u] = threads[u]
         /\ \/ threads'[t].pc = "idle" /\ threads'[t].from = None
            \/ /\ threads'[t].profile = threads[t].profile
               /\ threads'[t].generation = threads[t].generation
               /\ \/ /\ threads[t].pc = "queued" /\ threads'[t].pc = "generation"
                     /\ threads'[t].from = dbPath
                  \/ /\ threads[t].pc = "generation" /\ threads'[t].pc = "profile"
                     /\ threads'[t].from = threads[t].from
                  \/ /\ threads[t].pc = "profile" /\ threads'[t].pc = "mutex"
                     /\ threads'[t].from = threads[t].from /\ threads'[t].path = dbPath
         /\ threads'[t].pc = "idle" =>
              \/ threads[t].generation # generation
              \/ threads[t].pc = "profile" /\ ProfileOf(dbPath) # threads[t].profile
<1>1. UNCHANGED <<runtime, paths, timer, registry, backups, command>>
  BY DEF Looks, LockReadPath, LockCheckGeneration, LockCheckProfile
<1>2. RequestsMade /\ threads[t] \in Requests /\ dbPath \in Paths
  BY DEF Typed, RequestsMade, TypeOK
<1>3. CASE LockReadPath(t)
  <2>1. /\ threads[t].pc = "queued"
        /\ threads' = [threads EXCEPT ![t].pc = "generation", ![t].from = dbPath]
    BY <1>3 DEF LockReadPath
  <2>2. threads'[t].from = dbPath
    BY <1>2, <2>1 DEF RequestsMade, Requests
  <2>3. /\ threads' \in [LockThreads -> Requests]
        /\ \A u \in LockThreads \ {t} : threads'[u] = threads[u]
        /\ threads'[t].pc = "generation" /\ threads'[t].profile = threads[t].profile
        /\ threads'[t].generation = threads[t].generation
    BY <1>2, <2>1, GoToFacts DEF RequestPcs
  <2> QED
    BY <1>1, <1>2, <2>1, <2>2, <2>3 DEF RequestsMade
<1>4. CASE LockCheckGeneration(t) /\ GoTo(t, "profile")
  <2>1. threads[t].pc = "generation"
    BY <1>4 DEF LockCheckGeneration
  <2>2. threads'[t].from = threads[t].from
    BY <1>2, <1>4 DEF RequestsMade, Requests, GoTo
  <2>3. /\ threads' \in [LockThreads -> Requests]
        /\ \A u \in LockThreads \ {t} : threads'[u] = threads[u]
        /\ threads'[t].pc = "profile" /\ threads'[t].profile = threads[t].profile
        /\ threads'[t].generation = threads[t].generation
    BY <1>2, <1>4, GoToFacts DEF RequestPcs
  <2> QED
    BY <1>1, <1>2, <2>1, <2>2, <2>3 DEF RequestsMade
<1>5. CASE LockCheckProfile(t) /\ ~Drop(t)
  <2>1. /\ threads[t].pc = "profile"
        /\ threads' = [threads EXCEPT ![t].pc = "mutex", ![t].path = dbPath]
    BY <1>5 DEF LockCheckProfile
  <2>2. threads'[t].from = threads[t].from /\ threads'[t].path = dbPath
    BY <1>2, <2>1 DEF RequestsMade, Requests
  <2>3. /\ threads' \in [LockThreads -> Requests]
        /\ \A u \in LockThreads \ {t} : threads'[u] = threads[u]
        /\ threads'[t].pc = "mutex" /\ threads'[t].profile = threads[t].profile
        /\ threads'[t].generation = threads[t].generation
    BY <1>2, <2>1, GoToFacts DEF RequestPcs
  <2> QED
    BY <1>1, <1>2, <2>1, <2>2, <2>3 DEF RequestsMade
<1>6. CASE Drop(t) /\ ~(LockReadPath(t) \/ (LockCheckGeneration(t) /\ GoTo(t, "profile")))
  <2>1. /\ threads' \in [LockThreads -> Requests]
        /\ \A u \in LockThreads \ {t} : threads'[u] = threads[u]
        /\ threads'[t].pc = "idle" /\ threads'[t].from = None
    BY <1>2, <1>6, DropFacts
  <2>2. \/ threads[t].generation # generation
        \/ threads[t].pc = "profile" /\ ProfileOf(dbPath) # threads[t].profile
    <3>1. CASE LockCheckGeneration(t)
      BY <1>6, <3>1 DEF LockCheckGeneration
    <3>2. CASE LockCheckProfile(t)
      <4>1. ProfileOf(dbPath) = threads[t].profile =>
              threads' = [threads EXCEPT ![t].pc = "mutex", ![t].path = dbPath]
        BY <3>2 DEF LockCheckProfile
      <4>2. ProfileOf(dbPath) = threads[t].profile => threads'[t].pc = "mutex"
        BY <1>2, <4>1 DEF RequestsMade, Requests
      <4> QED
        BY <2>1, <3>2, <4>2 DEF LockCheckProfile
    <3> QED
      BY <1>6, <3>1, <3>2 DEF Looks
  <2> QED
    BY <1>1, <1>2, <2>1, <2>2 DEF RequestsMade
<1> QED
  BY <1>3, <1>4, <1>5, <1>6 DEF Looks, LockCheckGeneration

\* The timer, and a native event, ask for a lock of the session the timer knows.
LEMMA AskFacts ==
  ASSUME Typed, TimerFires \/ NativeEvent
  PROVE  /\ Typed' /\ timer \in Timer /\ timer' \in {timer, None}
         /\ UNCHANGED <<runtime, paths, registry, backups, command>>
         /\ \E t \in LockThreads \ {"worker"} :
              /\ threads[t].pc = "idle"
              /\ \A u \in LockThreads \ {t} : threads'[u] = threads[u]
              /\ threads'[t].pc = "queued" /\ threads'[t].from = None
              /\ threads'[t].profile = timer.profile /\ threads'[t].generation = timer.generation
<1> DEFINE r == Asked(timer.profile, timer.generation)
<1>1. PICK t \in LockThreads \ {"worker"} :
        threads[t] = NoRequest /\ threads' = [threads EXCEPT ![t] = r]
  <2>1. CASE TimerFires
    BY <2>1 DEF TimerFires
  <2>2. CASE NativeEvent
    BY <2>2 DEF NativeEvent
  <2> QED
    BY <2>1, <2>2
<1>2. /\ timer \in Timer /\ timer' \in {timer, None}
      /\ UNCHANGED <<runtime, paths, registry, backups, command>>
  BY DEF TimerFires, NativeEvent, Typed, TypeOK
<1>3. /\ r \in Requests /\ r.pc = "queued" /\ r.from = None
      /\ r.profile = timer.profile /\ r.generation = timer.generation /\ r.profile \in Profiles
  BY <1>2 DEF Asked, NoRequest, Requests, RequestPcs, Timer
<1>4. threads[t].pc = "idle"
  BY <1>1 DEF NoRequest
<1> HIDE DEF r
<1>5. RequestsMade'
  BY <1>1, <1>3, ThreadTyped DEF Typed
<1>6. /\ threads'[t] = r
      /\ \A u \in LockThreads \ {t} : threads'[u] = threads[u]
  BY <1>1 DEF Typed, RequestsMade
<1>7. Program'
  BY <1>2 DEF Typed, Program, WorkerIdle, InOrder, LastStep, Targeted, Activates, Replaces,
     Encrypted, registry
<1>8. TypeOK'
  <2>1. \A u \in LockThreads : threads'[u].pc \in RequestPcs
    BY <1>5 DEF RequestsMade, Requests
  <2> QED
    BY <1>2, <2>1 DEF Typed, TypeOK, runtime, paths, registry, backups, RequestPcs
<1> QED
  BY <1>1, <1>2, <1>3, <1>4, <1>5, <1>6, <1>7, <1>8 DEF Typed

\* Typed looks at nothing but what these conjuncts name.
LEMMA QuietTyped ==
  ASSUME Typed, RequestsMade', UNCHANGED <<registry, command>>,
         slot' \in Slot, holder' \in LockThreads \cup {None},
         {revision', generation'} \subseteq Nat,
         notice' \in Paths \cup {None}, UNCHANGED dbPath, timer' \in {timer, None},
         due' \in BOOLEAN, copies' \subseteq [db : Paths, key : Paths]
  PROVE  Typed'
<1>1. Program'
  BY DEF Typed, Program, WorkerIdle, InOrder, LastStep, Targeted, Activates, Replaces,
     Encrypted, registry
<1>2. \A u \in LockThreads : threads'[u].pc \in RequestPcs
  BY DEF RequestsMade, Requests
<1> QED
  BY <1>1, <1>2 DEF Typed, TypeOK, registry, RequestPcs

\* Inside the mutex a request is looked at once more.
LEMMA AcquireFacts ==
  ASSUME Typed, NEW t \in LockThreads, LockAcquire(t)
  PROVE  /\ Typed' /\ threads[t].pc = "mutex" /\ Free
         /\ UNCHANGED <<slot, revision, notice, paths, timer, registry, backups, command>>
         /\ \A u \in LockThreads \ {t} : threads'[u] = threads[u]
         /\ \/ /\ IsOpen /\ StillCurrent(t) /\ holder' = t /\ threads'[t].pc = "retire"
               /\ threads'[t].profile = threads[t].profile
               /\ threads'[t].generation = threads[t].generation
               /\ threads'[t].from = threads[t].from
            \/ /\ ~(IsOpen /\ StillCurrent(t)) /\ holder' = holder
               /\ threads'[t].pc = "idle" /\ threads'[t].from = None
<1>1. /\ threads[t].pc = "mutex" /\ Free
      /\ UNCHANGED <<slot, revision, notice, paths, timer, registry, backups, command>>
  BY DEF LockAcquire
<1>2. RequestsMade /\ threads[t] \in Requests
  BY DEF Typed, RequestsMade
<1>3. CASE IsOpen /\ StillCurrent(t)
  <2>1. holder' = t /\ GoTo(t, "retire")
    BY <1>3 DEF LockAcquire
  <2>2. /\ threads' \in [LockThreads -> Requests]
        /\ \A u \in LockThreads \ {t} : threads'[u] = threads[u]
        /\ threads'[t].pc = "retire" /\ threads'[t].profile = threads[t].profile
        /\ threads'[t].generation = threads[t].generation
    BY <1>2, <2>1, GoToFacts DEF RequestPcs
  <2>3. threads'[t].from = threads[t].from
    BY <1>2, <2>1 DEF GoTo, RequestsMade, Requests
  <2>4. RequestsMade'
    BY <1>1, <1>2, <2>2, <2>3 DEF RequestsMade
  <2>5. Typed'
    BY <1>1, <2>1, <2>4, QuietTyped DEF Typed, TypeOK, paths, backups
  <2> QED
    BY <1>1, <1>3, <2>1, <2>2, <2>3, <2>5
<1>4. CASE ~(IsOpen /\ StillCurrent(t))
  <2>1. Drop(t) /\ holder' = holder
    BY <1>4 DEF LockAcquire
  <2>2. /\ threads' \in [LockThreads -> Requests]
        /\ \A u \in LockThreads \ {t} : threads'[u] = threads[u]
        /\ threads'[t].pc = "idle" /\ threads'[t].from = None
    BY <1>2, <2>1, DropFacts
  <2>3. RequestsMade'
    BY <1>2, <2>2 DEF RequestsMade
  <2>4. Typed'
    BY <1>1, <2>1, <2>3, QuietTyped DEF Typed, TypeOK, paths, backups
  <2> QED
    BY <1>1, <1>4, <2>1, <2>2, <2>4
<1> QED
  BY <1>3, <1>4

\* The last step of a lock retires the session and its generation.
LEMMA RetireFacts ==
  ASSUME Typed, IsOpen, NEW t \in LockThreads, LockRetire(t)
  PROVE  /\ Typed' /\ threads[t].pc = "retire"
         /\ slot' = Locked(threads[t].profile) /\ ~IsOpen' /\ notice' = None /\ holder' = None
         /\ generation' = generation + 1
         /\ BackUp(dek[slot.db], threads[t].from)
         /\ UNCHANGED <<dbPath, timer, registry, command>>
         /\ \A u \in LockThreads \ {t} : threads'[u] = threads[u]
         /\ threads'[t].pc = "disarm" /\ threads'[t].from = threads[t].from
         /\ threads'[t].profile = threads[t].profile
         /\ threads'[t].generation = threads[t].generation
<1>1. /\ threads[t].pc = "retire" /\ GoTo(t, "disarm")
      /\ slot' = Locked(threads[t].profile) /\ notice' = None /\ holder' = None
      /\ generation' = generation + 1 /\ revision' = revision + 1
      /\ BackUp(dek[slot.db], threads[t].from)
      /\ UNCHANGED <<dbPath, timer, registry, command>>
  BY DEF LockRetire
<1>2. RequestsMade /\ threads[t] \in Requests /\ threads[t].profile \in Profiles
      /\ threads[t].from \in Paths
  BY <1>1 DEF Typed, RequestsMade
<1>3. slot' \in Slot /\ ~IsOpen'
  BY <1>1, <1>2 DEF Slot, Locked, IsOpen
<1>4. /\ threads' \in [LockThreads -> Requests]
      /\ \A u \in LockThreads \ {t} : threads'[u] = threads[u]
      /\ threads'[t].pc = "disarm" /\ threads'[t].profile = threads[t].profile
      /\ threads'[t].generation = threads[t].generation
  BY <1>1, <1>2, GoToFacts DEF RequestPcs
<1>5. threads'[t].from = threads[t].from
  BY <1>1, <1>2 DEF GoTo, RequestsMade, Requests
<1>6. RequestsMade'
  BY <1>2, <1>4, <1>5 DEF RequestsMade
<1>7. slot.db \in Paths
  BY SlotFacts DEF Typed, TypeOK
<1>8. dek[slot.db] \in Paths \cup {None}
  BY <1>7 DEF Typed, TypeOK
<1>9. due' \in BOOLEAN /\ copies' \subseteq [db : Paths, key : Paths]
  BY <1>1, <1>2, <1>8, BackUpTyped
<1>10. Typed'
  <2>1. {revision', generation'} \subseteq Nat
    BY <1>1 DEF Typed, TypeOK
  <2> QED
    BY <1>1, <1>3, <1>6, <1>9, <2>1, QuietTyped
<1> QED
  BY <1>1, <1>3, <1>4, <1>5, <1>10

\* A lock that is through disarms only the timer it was made for.
LEMMA DisarmFacts ==
  ASSUME Typed, NEW t \in LockThreads, LockDisarm(t)
  PROVE  /\ Typed' /\ threads[t].pc = "disarm"
         /\ UNCHANGED <<runtime, paths, registry, backups, command>>
         /\ \A u \in LockThreads \ {t} : threads'[u] = threads[u]
         /\ threads'[t].pc = "idle" /\ threads'[t].from = None
         /\ timer' = IF timer = [profile |-> threads[t].profile,
                                 generation |-> threads[t].generation]
                     THEN None ELSE timer
<1>1. /\ threads[t].pc = "disarm" /\ Drop(t)
      /\ UNCHANGED <<runtime, paths, registry, backups, command>>
      /\ timer' = IF timer = [profile |-> threads[t].profile,
                              generation |-> threads[t].generation]
                  THEN None ELSE timer
  BY DEF LockDisarm
<1>2. /\ threads' \in [LockThreads -> Requests]
      /\ \A u \in LockThreads \ {t} : threads'[u] = threads[u]
      /\ threads'[t].pc = "idle" /\ threads'[t].from = None
  BY <1>1, DropFacts DEF Typed
<1>3. RequestsMade'
  BY <1>2 DEF RequestsMade, Typed
<1>4. Typed'
  BY <1>1, <1>3, QuietTyped DEF Typed, TypeOK, runtime, paths, backups
<1> QED
  BY <1>1, <1>2, <1>4

\* lock_current_profile returns when its own request has come to its end.
LEMMA LockReturnFacts ==
  ASSUME Typed, LockNowReturns
  PROVE  /\ Typed' /\ Now = "lock" /\ WorkerIdle' /\ threads["worker"].pc = "idle" /\ Now' = "idle"
         /\ UNCHANGED <<runtime, paths, timer, registry, backups, threads>>
<1>1. /\ At("lock") /\ threads["worker"] = NoRequest /\ Advance
      /\ UNCHANGED <<runtime, paths, timer, registry, backups, threads>>
  BY DEF LockNowReturns
<1>2. Now = "lock" /\ ~WorkerIdle
  BY <1>1, NowIsStep DEF At, Typed, Steps
<1>3. command.name = "lock"
  BY <1>2, CommandOf DEF Typed
<1>4. Program' /\ command' = Idle /\ Now' = "idle"
  BY <1>1, <1>2, <1>3, Advances DEF Order, Typed, registry
<1>5. threads["worker"].pc = "idle"
  BY <1>1 DEF NoRequest
<1> QED
  BY <1>1, <1>2, <1>4, <1>5
     DEF Typed, TypeOK, RequestsMade, runtime, paths, registry, backups, IsOpen, WorkerIdle

\* The second check of a phone snapshot ends its turn on the worker.
LEMMA RecheckFacts ==
  ASSUME Typed, PhoneRecheck
  PROVE  /\ Typed' /\ Now = "recheck" /\ WorkerIdle' /\ Now' = "idle"
         /\ UNCHANGED <<runtime, paths, timer, registry, backups, threads>>
<1>1. /\ At("recheck") /\ Advance
      /\ UNCHANGED <<runtime, paths, timer, registry, backups, threads>>
  BY DEF PhoneRecheck
<1>2. Now = "recheck" /\ ~WorkerIdle
  BY <1>1, NowIsStep DEF At, Typed, Steps
<1>3. command.name = "project"
  BY <1>2, CommandOf DEF Typed
<1>4. Program' /\ command' = Idle /\ Now' = "idle"
  BY <1>1, <1>2, <1>3, Advances DEF Order, Typed, registry
<1> QED
  BY <1>1, <1>2, <1>4
     DEF Typed, TypeOK, RequestsMade, runtime, paths, registry, backups, IsOpen, WorkerIdle

-----------------------------------------------------------------------------
(* The mutex and the generation: what each step leaves *)

\* Between commands nothing is under the guard.
LEMMA IdleNow ==
  ASSUME WorkerIdle
  PROVE  Now = "idle" /\ ~GuardHeld /\ ~Placed /\ ~Renewed
BY DEF Now, GuardHeld, Placed, Renewed

\* Nobody retires a session under the guard, or while the mutex is free.
LEMMA NobodyRetires ==
  ASSUME MutexInv, GuardHeld \/ Free, NEW t \in LockThreads
  PROVE  threads[t].pc # "retire"
<1> SUFFICES ASSUME threads[t].pc = "retire" PROVE FALSE
  OBVIOUS
<1>1. holder = t
  BY DEF MutexInv, MutexParts, Holding
<1>2. GuardHeld
  BY <1>1, SessionConstants DEF Free
<1>3. t = "worker" /\ Now = "lock"
  BY <1>1, <1>2 DEF MutexInv, MutexParts, Holding
<1>4. ~WorkerIdle /\ command.name = "lock"
  BY <1>3, CommandOf, IdleNow DEF MutexInv, Typed
<1> QED
  BY <1>2, <1>3, <1>4 DEF GuardHeld, Replaces

\* A command that starts leaves the open session alone.
LEMMA StartKeeps ==
  ASSUME MutexInv, WorkerIdle, UNCHANGED <<slot, notice, generation, timer>>,
         \A t \in LockThreads :
           \/ threads'[t] = threads[t]
           \/ /\ t = "worker" /\ Now' = "lock" /\ threads'[t].pc = "queued"
              /\ threads'[t].generation \in 0..generation,
         \/ holder' = holder
         \/ Free /\ holder' = "worker",
         GuardHeld' => holder' = "worker", ~Renewed', ~Placed',
         Now' = "replace" /\ command'.name \in {"relocate", "restore"} =>
           IsOpen /\ slot.profile = command'.path[1]
  PROVE  MutexParts'
<1>1. Now = "idle" /\ ~GuardHeld /\ ~Placed /\ ~Renewed
  BY IdleNow
<1>2. threads["worker"].pc = "idle" /\ "worker" \in LockThreads
  BY <1>1, SessionConstants DEF MutexInv, MutexParts, Holding
<1>3. IsOpen' = IsOpen
  BY DEF IsOpen
<1>4. generation \in Nat
  BY DEF MutexInv, Typed, TypeOK
<1>5. Holding'
  <2>1. ASSUME NEW t \in LockThreads, threads'[t].pc = "retire" PROVE holder' = t /\ IsOpen'
    <3>1. threads'[t] = threads[t]
      BY <2>1
    <3>2. holder = t /\ IsOpen
      BY <2>1, <3>1 DEF MutexInv, MutexParts, Holding
    <3> QED
      BY <1>3, <3>2, SessionConstants DEF Free
  <2>2. threads'["worker"].pc # "idle" => Now' = "lock"
    BY <1>2
  <2> QED
    BY <2>1, <2>2 DEF Holding
<1>6. Dated'
  BY <1>1, <1>4 DEF MutexInv, MutexParts, Dated, Older
<1>7. InPlace'
  BY <1>3 DEF InPlace
<1>8. Noticed'
  BY <1>1, <1>3 DEF MutexInv, MutexParts, Noticed, Placed
<1> QED
  BY <1>5, <1>6, <1>7, <1>8 DEF MutexParts

\* A command that goes on, gives up, or ends, the session it left as it was.
LEMMA StepKeeps ==
  ASSUME MutexInv, UNCHANGED <<slot, notice, generation, threads>>,
         timer' \in {timer, None},
         \/ holder' = holder
         \/ GuardHeld /\ ~GuardHeld' /\ holder' = None,
         threads["worker"].pc # "idle" => Now' = "lock",
         GuardHeld' => GuardHeld, Renewed' => Renewed,
         Placed' => Placed /\ command'.path = command.path,
         Now' # "replace",
         command.name = "switch" /\ Placed /\ Now \notin {"release", "armCheck", "arm"} =>
           /\ command'.name = "switch" /\ Placed' /\ Now' \notin {"release", "armCheck", "arm"}
  PROVE  MutexParts'
<1>1. IsOpen' = IsOpen
  BY DEF IsOpen
<1>2. Holding'
  <2>1. ASSUME NEW t \in LockThreads, threads'[t].pc = "retire" PROVE holder' = t /\ IsOpen'
    BY <1>1, <2>1, NobodyRetires DEF MutexInv, MutexParts, Holding
  <2>2. GuardHeld' => holder' = "worker"
    BY DEF MutexInv, MutexParts, Holding
  <2> QED
    BY <2>1, <2>2 DEF Holding
<1>3. Dated'
  BY DEF MutexInv, MutexParts, Dated, Older
<1>4. InPlace'
  BY <1>1 DEF MutexInv, MutexParts, InPlace
<1>5. Noticed'
  BY <1>1 DEF MutexInv, MutexParts, Noticed
<1> QED
  BY <1>2, <1>3, <1>4, <1>5 DEF MutexParts

\* Steps that leave the session, the threads and the command alone.
LEMMA FrameMutex ==
  ASSUME MutexInv, UNCHANGED <<runtime, paths, timer, registry, command, threads>>,
         due' \in BOOLEAN, UNCHANGED copies
  PROVE  MutexInv'
<1>1. Typed'
  <2>1. RequestsMade'
    BY DEF MutexInv, Typed, RequestsMade
  <2> QED
    BY <2>1, QuietTyped DEF MutexInv, Typed, TypeOK, runtime, paths
<1> QED
  BY <1>1 DEF MutexInv, MutexParts, Holding, Dated, Older, InPlace, Noticed, runtime, paths,
     GuardHeld, Placed, Renewed, Now, WorkerIdle, Activates, Replaces, IsOpen

\* A command that starts keeps the invariant of the mutex.
LEMMA UserMutex ==
  ASSUME MutexInv, UserCommand
  PROVE  MutexInv'
<1>1. ASSUME NEW p \in Profiles, Select(p) \/ Unlock(p) PROVE MutexInv'
  <2>1. /\ Typed' /\ WorkerIdle /\ ~WorkerIdle' /\ Now' = "settle"
        /\ command'.name \in {"select", "unlock"}
        /\ UNCHANGED <<runtime, paths, timer, threads>>
    BY <1>1, SelectStarts DEF MutexInv
  <2>2. ~GuardHeld' /\ ~Renewed' /\ ~Placed'
    BY <2>1 DEF GuardHeld, Renewed, Placed, Replaces
  <2>3. MutexParts'
    BY <2>1, <2>2, StartKeeps DEF runtime, paths
  <2> QED
    BY <2>1, <2>3 DEF MutexInv
<1>2. CASE Enable \/ RemoveProtection \/ ChangePassword \/ Relocate \/ Restore
  <2>1. /\ Typed' /\ WorkerIdle /\ ~WorkerIdle' /\ Free /\ IsOpen /\ holder' = "worker"
        /\ \/ command'.name \in {"convert", "password"} /\ Now' = "commit"
           \/ command'.name \in {"relocate", "restore"} /\ Now' = "replace"
        /\ slot.profile = command'.path[1]
        /\ UNCHANGED <<slot, notice, paths, timer, threads>>
    BY <1>2, ChangeStarts DEF MutexInv
  <2>2. ~Renewed' /\ ~Placed'
    BY <2>1 DEF Renewed, Placed, Replaces, Activates
  <2>3. MutexParts'
    BY <2>1, <2>2, StartKeeps DEF paths
  <2> QED
    BY <2>1, <2>3 DEF MutexInv
<1>3. ASSUME NEW p \in Profiles, Switch(p) PROVE MutexInv'
  <2>1. /\ Typed' /\ WorkerIdle /\ ~WorkerIdle' /\ Free /\ holder' = "worker"
        /\ command'.name = "switch" /\ Now' = "replace"
        /\ UNCHANGED <<slot, notice, paths, timer, threads>>
    BY <1>3, SwitchStarts DEF MutexInv
  <2>2. ~Renewed' /\ ~Placed'
    BY <2>1 DEF Renewed, Placed, Replaces, Activates
  <2>3. MutexParts'
    BY <2>1, <2>2, StartKeeps DEF paths
  <2> QED
    BY <2>1, <2>3 DEF MutexInv
<1>4. CASE SetAutoLock
  <2>1. /\ Typed' /\ WorkerIdle /\ ~WorkerIdle' /\ Now' = "armCheck" /\ command'.name = "settings"
        /\ UNCHANGED <<runtime, paths, timer, threads>>
    BY <1>4, SettingsStarts DEF MutexInv
  <2>2. ~GuardHeld' /\ ~Renewed' /\ ~Placed'
    BY <2>1 DEF GuardHeld, Renewed, Placed, Replaces, Activates
  <2>3. MutexParts'
    BY <2>1, <2>2, StartKeeps DEF runtime, paths
  <2> QED
    BY <2>1, <2>3 DEF MutexInv
<1>5. ASSUME NEW p \in Profiles, SelectProtected(p) \/ ShowSelector PROVE MutexInv'
  <2>1. /\ WorkerIdle /\ Free /\ slot.kind \in {"none", "locked"}
        /\ slot' \in {Locked(p), NoProfileOpen} /\ revision' = revision + 1
        /\ \/ notice' = None
           \/ notice' = notice
        /\ UNCHANGED <<holder, paths, timer, registry, backups, command, threads>>
    BY <1>5 DEF SelectProtected, ShowSelector
  <2>2. slot' \in Slot /\ ~IsOpen' /\ ~IsOpen
    BY <2>1 DEF Slot, IsOpen, Locked, NoProfileOpen
  <2>3. notice' = None
    <3>1. ~Placed
      BY <2>1, IdleNow
    <3> QED
      BY <2>1, <2>2, <3>1 DEF MutexInv, MutexParts, Noticed
  <2>4. Typed'
    <3>1. RequestsMade'
      BY <2>1 DEF MutexInv, Typed, RequestsMade
    <3>2. {revision', generation'} \subseteq Nat
      BY <2>1 DEF MutexInv, Typed, TypeOK, paths
    <3> QED
      BY <2>1, <2>2, <2>3, <3>1, <3>2, QuietTyped DEF MutexInv, Typed, TypeOK, paths, backups
  <2>5. Now' = Now /\ Now = "idle" /\ WorkerIdle'
    BY <2>1 DEF Now, WorkerIdle
  <2>6. ~GuardHeld' /\ ~Renewed' /\ ~Placed'
    BY <2>5 DEF GuardHeld, Renewed, Placed
  <2>7. Holding'
    BY <2>1, <2>5, <2>6, NobodyRetires DEF MutexInv, MutexParts, Holding
  <2>8. Dated'
    BY <2>1, <2>6 DEF MutexInv, MutexParts, Dated, Older, paths
  <2>9. InPlace' /\ Noticed'
    BY <2>3, <2>5, <2>6 DEF InPlace, Noticed
  <2> QED
    BY <2>4, <2>7, <2>8, <2>9 DEF MutexInv, MutexParts
<1>6. CASE TakeNotice
  <2>1. /\ notice' = None
        /\ UNCHANGED <<slot, holder, revision, paths, timer, registry, backups, command, threads>>
    BY <1>6 DEF TakeNotice
  <2>2. Typed'
    <3>1. RequestsMade'
      BY <2>1 DEF MutexInv, Typed, RequestsMade
    <3> QED
      BY <2>1, <3>1, QuietTyped DEF MutexInv, Typed, TypeOK, paths, backups
  <2> QED
    BY <2>1, <2>2 DEF MutexInv, MutexParts, Holding, Dated, Older, InPlace, Noticed, paths,
       GuardHeld, Placed, Renewed, Now, WorkerIdle, Activates, Replaces, IsOpen
<1>7. CASE DayPasses
  BY <1>7, FrameMutex DEF DayPasses
<1>8. Default \in Profiles
  BY SessionConstants
<1> QED
  BY <1>1, <1>2, <1>3, <1>4, <1>5, <1>6, <1>7, <1>8 DEF UserCommand

\* Which steps the guard, the generation and the database last to.
LEMMA Going ==
  ASSUME Program, Program', ~WorkerIdle, Now \in Steps,
         \/ command' = Idle /\ Now' = "idle"
         \/ /\ ~WorkerIdle' /\ <<Now, Now'>> \in Order(command.name) /\ Now' \in Steps
            /\ command'.name = command.name /\ command'.path = command.path
  PROVE  /\ GuardHeld' => GuardHeld
         /\ Renewed' => Renewed \/ Now = "generation"
         /\ Placed' => command'.path = command.path /\ (Placed \/ Now \in {"install", "replace"})
         /\ Now' \notin {"replace", "commit"}
         /\ Renewed /\ ~WorkerIdle' => Renewed'
         /\ Placed /\ ~WorkerIdle' => Placed'
<1>1. CASE command' = Idle
  BY <1>1 DEF GuardHeld, Renewed, Placed, WorkerIdle, Steps
<1>2. CASE command' # Idle
  <2>1. command.name \in Names
    BY DEF Program
  <2>2. /\ <<Now, Now'>> \in Order(command.name) /\ ~WorkerIdle'
        /\ command'.name = command.name /\ command'.path = command.path
    BY <1>2 DEF WorkerIdle
  <2>3. CASE command.name \in {"select", "unlock", "convert", "password"}
    BY <2>2, <2>3 DEF Order, GuardHeld, Renewed, Placed, Activates, Replaces
  <2>4. CASE command.name \in {"relocate", "restore"}
    BY <2>2, <2>4 DEF Order, GuardHeld, Renewed, Placed, Activates, Replaces
  <2>5. CASE command.name \in {"switch", "settings", "lock", "project"}
    BY <2>2, <2>5 DEF Order, GuardHeld, Renewed, Placed, Activates, Replaces
  <2> QED
    BY <2>1, <2>3, <2>4, <2>5 DEF Names
<1> QED
  BY <1>1, <1>2

\* The steps of a command keep the invariant of the mutex.
LEMMA CommandMutex ==
  ASSUME MutexInv, CommandStep
  PROVE  MutexInv'
<1>1. Typed'
  BY CommandTyped DEF MutexInv
<1>2. /\ Program /\ Program' /\ ~WorkerIdle /\ Now \in Steps /\ UNCHANGED threads
      /\ \/ command' = Idle /\ Now' = "idle"
         \/ /\ ~WorkerIdle' /\ <<Now, Now'>> \in Order(command.name) /\ Now' \in Steps
            /\ command'.name = command.name /\ command'.path = command.path
  BY CommandMoves DEF MutexInv, Typed
<1>3. /\ GuardHeld' => GuardHeld
      /\ Renewed' => Renewed \/ Now = "generation"
      /\ Placed' => command'.path = command.path /\ (Placed \/ Now \in {"install", "replace"})
      /\ Now' \notin {"replace", "commit"}
      /\ Renewed /\ ~WorkerIdle' => Renewed'
      /\ Placed /\ ~WorkerIdle' => Placed'
  BY <1>2, Going
<1>4. \A s \in Steps : At(s) => Now = s
  BY NowIsStep DEF MutexInv, Typed
<1>5. threads["worker"].pc = "idle"
  <2>1. Now # "lock"
    BY <1>4 DEF Steps, CommandStep, Commit, OpenNew, Settle, SetPath, BumpGeneration, Install,
       Replace, UpdateRegistry, UpdateRegistryFails, SetNotice, Release, ArmCheck, Arm
  <2> QED
    BY <2>1 DEF MutexInv, MutexParts, Holding
<1>6. WorkerIdle' => Now \in {"arm", "release", "lock", "recheck", "armCheck", "open", "registry"}
  BY CommandMoves DEF LastStep, MutexInv, Typed, WorkerIdle
<1>7. command.name = "switch" /\ Placed /\ Now \notin {"notice", "release", "armCheck", "arm"} =>
        /\ command'.name = "switch" /\ Placed' /\ Now' \notin {"release", "armCheck", "arm"}
  <2> SUFFICES ASSUME command.name = "switch", Placed,
                      Now \notin {"notice", "release", "armCheck", "arm"}
               PROVE  /\ command'.name = "switch" /\ Placed'
                      /\ Now' \notin {"release", "armCheck", "arm"}
    OBVIOUS
  <2>1. ~WorkerIdle'
    BY <1>2, <1>6, CommandOf DEF Activates
  <2> QED
    BY <1>2, <1>3, <2>1 DEF Order, WorkerIdle
<1>8. ASSUME UNCHANGED <<slot, notice, generation>>, timer' \in {timer, None},
             \/ holder' = holder
             \/ GuardHeld /\ ~GuardHeld' /\ holder' = None,
             ~(Now \in {"generation", "install", "replace", "notice"})
      PROVE  MutexParts'
  <2>1. Renewed' => Renewed
    BY <1>3, <1>8
  <2>2. Placed' => Placed /\ command'.path = command.path
    BY <1>3, <1>8
  <2> QED
    BY <1>2, <1>3, <1>5, <1>7, <1>8, <2>1, <2>2, StepKeeps
<1>9. CASE OpenNew \/ Settle \/ SetPath \/ UpdateRegistry \/ ArmCheck
  <2>1. /\ UNCHANGED <<slot, notice, generation, holder>> /\ timer' \in {timer, None}
        /\ Now \in {"open", "settle", "path", "registry", "armCheck"}
    BY <1>4, <1>9 DEF OpenNew, Settle, SetPath, UpdateRegistry, ArmCheck, runtime, paths, Steps
  <2>2. ~(Now \in {"generation", "install", "replace", "notice"})
    BY <2>1
  <2>3. MutexParts'
    BY <1>8, <2>1, <2>2
  <2> QED
    BY <1>1, <2>3 DEF MutexInv
<1>10. CASE Commit \/ UpdateRegistryFails \/ Release
  <2>1. /\ UNCHANGED <<slot, notice, generation, timer>> /\ holder' = None
        /\ Now \in {"commit", "registry", "release"}
    BY <1>4, <1>10 DEF Commit, UpdateRegistryFails, Release, paths, Steps
  <2>2. GuardHeld
    BY <1>2, <2>1, CommandOf DEF GuardHeld
  <2>3. ~GuardHeld'
    <3>1. CASE WorkerIdle'
      BY <3>1 DEF WorkerIdle, Now, GuardHeld
    <3>2. CASE ~WorkerIdle'
      <4>1. Now = "registry" => WorkerIdle'
        BY <1>4, <1>10 DEF Commit, UpdateRegistryFails, Release, Steps, Finish, WorkerIdle
      <4> QED
        BY <1>2, <2>1, <3>2, <4>1, CommandOf DEF Order, GuardHeld, Activates, Replaces, WorkerIdle
    <3> QED
      BY <3>1, <3>2
  <2>4. ~(Now \in {"generation", "install", "replace", "notice"})
    BY <2>1
  <2>5. MutexParts'
    BY <1>8, <2>1, <2>2, <2>3, <2>4
  <2> QED
    BY <1>1, <2>5 DEF MutexInv
<1>11. CASE BumpGeneration
  <2>1. /\ UNCHANGED <<slot, notice, timer, holder>> /\ generation' = generation + 1
        /\ Now = "generation"
    BY <1>4, <1>11 DEF BumpGeneration, runtime, Steps
  <2>2. IsOpen' = IsOpen /\ generation \in Nat
    BY <2>1 DEF IsOpen, MutexInv, Typed, TypeOK
  <2>3. \A t \in LockThreads : threads[t].generation \in Nat
    BY DEF MutexInv, Typed, RequestsMade, Requests
  <2>4. timer # None => timer.generation \in Nat
    BY DEF MutexInv, Typed, TypeOK, Timer
  <2>5. Dated'
    BY <1>2, <2>1, <2>2, <2>3, <2>4 DEF MutexInv, MutexParts, Dated, Older
  <2>6. Holding'
    BY <1>2, <1>3, <1>5, <2>1, <2>2 DEF MutexInv, MutexParts, Holding
  <2>7. InPlace'
    BY <1>2, <1>3, <2>1, <2>2 DEF MutexInv, MutexParts, InPlace
  <2>8. Noticed'
    BY <1>7, <2>1, <2>2 DEF MutexInv, MutexParts, Noticed
  <2> QED
    BY <1>1, <2>5, <2>6, <2>7, <2>8 DEF MutexInv, MutexParts
<1>12. CASE Install
  <2>1. /\ UNCHANGED <<holder, generation, timer>> /\ Free /\ notice' = None
        /\ slot' = Open(command.path) /\ Now = "install"
    BY <1>4, <1>12 DEF Install, paths, Steps
  <2>2. \A t \in LockThreads : threads[t].pc # "retire"
    BY <2>1, NobodyRetires
  <2>3. Renewed
    BY <1>2, <2>1, CommandOf DEF Renewed, Activates
  <2>4. Dated'
    BY <1>2, <2>1, <2>3 DEF MutexInv, MutexParts, Dated, Older
  <2>5. Holding'
    BY <1>2, <1>3, <1>5, <2>1, <2>2 DEF MutexInv, MutexParts, Holding
  <2>6. InPlace'
    BY <1>2, <1>3, <2>1, <2>2 DEF InPlace
  <2>7. Noticed'
    BY <2>1 DEF Noticed
  <2> QED
    BY <1>1, <2>4, <2>5, <2>6, <2>7 DEF MutexInv, MutexParts
<1>13. CASE Replace
  <2>1. /\ UNCHANGED <<holder, generation, timer, notice>>
        /\ slot' = Open(command.path) /\ Now = "replace"
    BY <1>4, <1>13 DEF Replace, paths, Steps
  <2>2. Replaces /\ GuardHeld
    BY <1>2, <2>1, CommandOf DEF GuardHeld
  <2>3. \A t \in LockThreads : threads[t].pc # "retire"
    BY <2>2, NobodyRetires
  <2>4. ~WorkerIdle' /\ Now' \in {"path", "registry"}
    BY <1>2, <1>6, <2>1, <2>2 DEF Order, Replaces, WorkerIdle
  <2>5. Dated'
    BY <1>2, <1>3, <2>1 DEF MutexInv, MutexParts, Dated, Older
  <2>6. Holding'
    BY <1>2, <1>3, <1>5, <2>1, <2>3 DEF MutexInv, MutexParts, Holding
  <2>7. InPlace'
    BY <1>2, <1>3, <2>1, <2>3 DEF InPlace
  <2>8. IsOpen' /\ slot'.profile = command.path[1]
    BY <2>1 DEF Open, IsOpen
  <2>9. Noticed'
    <3>1. CASE command.name = "switch"
      BY <1>2, <2>4, <3>1 DEF Noticed, Placed, Replaces, WorkerIdle
    <3>2. CASE command.name # "switch"
      BY <2>1, <2>2, <2>8, <3>2 DEF MutexInv, MutexParts, Noticed, InPlace, Replaces
    <3> QED
      BY <3>1, <3>2
  <2> QED
    BY <1>1, <2>5, <2>6, <2>7, <2>9 DEF MutexInv, MutexParts
<1>14. CASE SetNotice
  <2>1. /\ UNCHANGED <<slot, holder, generation, timer>>
        /\ notice' = command.path /\ Now = "notice"
    BY <1>4, <1>14 DEF SetNotice, paths, Steps
  <2>2. Placed
    BY <1>2, <2>1, CommandOf DEF Placed
  <2>3. slot = Open(command.path)
    BY <2>2 DEF MutexInv, MutexParts, InPlace
  <2>4. IsOpen' /\ IsOpen /\ slot'.profile = command.path[1]
    BY <2>1, <2>3 DEF Open, IsOpen
  <2>5. Dated'
    BY <1>2, <1>3, <2>1 DEF MutexInv, MutexParts, Dated, Older
  <2>6. Holding'
    BY <1>2, <1>3, <1>5, <2>1, <2>4 DEF MutexInv, MutexParts, Holding
  <2>7. InPlace'
    BY <1>2, <1>3, <2>1, <2>2 DEF MutexInv, MutexParts, InPlace
  <2>8. Noticed'
    BY <2>1, <2>4 DEF Noticed
  <2> QED
    BY <1>1, <2>5, <2>6, <2>7, <2>8 DEF MutexInv, MutexParts
<1>15. CASE Arm
  <2>1. /\ UNCHANGED <<slot, holder, generation, notice>> /\ Now = "arm"
        /\ timer' \in {None, [profile |-> ProfileOf(dbPath), generation |-> generation]}
    BY <1>4, <1>15 DEF Arm, runtime, paths, Steps
  <2>2. WorkerIdle' /\ ~GuardHeld' /\ ~Renewed' /\ ~Placed' /\ Now' = "idle"
    <3>1. WorkerIdle'
      BY <1>2, <2>1 DEF Order, WorkerIdle
    <3> QED
      BY <3>1 DEF WorkerIdle, Now, GuardHeld, Renewed, Placed
  <2>3. generation \in Nat
    BY DEF MutexInv, Typed, TypeOK
  <2>4. Dated'
    BY <1>2, <2>1, <2>2, <2>3 DEF MutexInv, MutexParts, Dated, Older
  <2>5. IsOpen' = IsOpen
    BY <2>1 DEF IsOpen
  <2>6. Holding'
    BY <1>2, <1>5, <2>1, <2>2, <2>5 DEF MutexInv, MutexParts, Holding
  <2>7. InPlace'
    BY <2>2 DEF InPlace
  <2>8. Noticed'
    BY <2>1, <2>5 DEF MutexInv, MutexParts, Noticed
  <2> QED
    BY <1>1, <2>4, <2>6, <2>7, <2>8 DEF MutexInv, MutexParts
<1> QED
  BY <1>1, <1>9, <1>10, <1>11, <1>12, <1>13, <1>14, <1>15 DEF CommandStep, MutexInv

\* The steps of a lock: the holder's own session is the one it ends.
LEMMA LockMutex ==
  ASSUME MutexInv, LockRequest \/ Locking
  PROVE  MutexInv'
<1>1. CASE TimerFires \/ NativeEvent
  <2>1. /\ Typed' /\ timer \in Timer /\ timer' \in {timer, None}
        /\ UNCHANGED <<runtime, paths, registry, backups, command>>
    BY <1>1, AskFacts DEF MutexInv
  <2>2. PICK t \in LockThreads \ {"worker"} :
          /\ threads[t].pc = "idle"
          /\ \A u \in LockThreads \ {t} : threads'[u] = threads[u]
          /\ threads'[t].pc = "queued" /\ threads'[t].generation = timer.generation
    BY <1>1, AskFacts DEF MutexInv
  <2>3. timer # None
    BY <1>1 DEF TimerFires, NativeEvent
  <2>4. Now' = Now /\ IsOpen' = IsOpen /\ GuardHeld' = GuardHeld /\ Renewed' = Renewed
        /\ Placed' = Placed
    BY <2>1 DEF Now, WorkerIdle, IsOpen, GuardHeld, Renewed, Placed, Activates, Replaces, runtime
  <2>5. Holding'
    BY <2>1, <2>2, <2>4, SessionConstants DEF MutexInv, MutexParts, Holding, runtime
  <2>6. Dated'
    BY <2>1, <2>2, <2>3, <2>4 DEF MutexInv, MutexParts, Dated, Older, paths
  <2>7. InPlace'
    BY <2>1, <2>2, <2>4 DEF MutexInv, MutexParts, InPlace, runtime
  <2>8. Noticed'
    BY <2>1, <2>4 DEF MutexInv, MutexParts, Noticed, runtime
  <2> QED
    BY <2>1, <2>5, <2>6, <2>7, <2>8 DEF MutexInv, MutexParts
<1>2. CASE LockNow
  <2>1. /\ Typed' /\ WorkerIdle /\ ~WorkerIdle' /\ Now' = "lock" /\ command'.name = "lock"
        /\ \A t \in LockThreads \ {"worker"} : threads'[t] = threads[t]
        /\ threads'["worker"].pc = "queued" /\ threads'["worker"].generation \in 0..generation
        /\ UNCHANGED <<runtime, paths, timer>>
    BY <1>2, LockStarts DEF MutexInv
  <2>2. ~GuardHeld' /\ ~Renewed' /\ ~Placed'
    BY <2>1 DEF GuardHeld, Renewed, Placed, Replaces, Activates
  <2>3. MutexParts'
    BY <2>1, <2>2, StartKeeps DEF runtime, paths
  <2> QED
    BY <2>1, <2>3 DEF MutexInv
<1>3. CASE LockNowReturns
  <2>1. /\ Typed' /\ Now = "lock" /\ WorkerIdle' /\ threads["worker"].pc = "idle" /\ Now' = "idle"
        /\ UNCHANGED <<runtime, paths, timer, threads>>
    BY <1>3, LockReturnFacts DEF MutexInv
  <2>2. ~GuardHeld' /\ ~Renewed' /\ ~Placed'
    BY <2>1 DEF GuardHeld, Renewed, Placed
  <2>3. command.name = "lock"
    BY <2>1, CommandOf, IdleNow DEF MutexInv, Typed
  <2>4. MutexParts'
    BY <2>1, <2>2, <2>3, StepKeeps DEF runtime, paths
  <2> QED
    BY <2>1, <2>4 DEF MutexInv
<1>4. ASSUME NEW t \in LockThreads, LockStep(t) PROVE MutexInv'
  <2>0. Now' = Now /\ WorkerIdle' = WorkerIdle /\ command' = command
    BY <1>4 DEF LockStep, LockReadPath, LockCheckGeneration, LockCheckProfile, LockAcquire,
       LockRetire, LockDisarm, Now, WorkerIdle
  <2>1. GuardHeld' = GuardHeld /\ Renewed' = Renewed /\ Placed' = Placed
    BY <2>0 DEF GuardHeld, Renewed, Placed, Activates, Replaces
  <2>2. threads[t].generation \in Nat /\ generation \in Nat
    BY DEF MutexInv, Typed, TypeOK, RequestsMade, Requests
  <2>3. CASE Looks(t)
    <3>1. /\ RequestsMade'
          /\ UNCHANGED <<runtime, paths, timer, registry, backups, command>>
          /\ \A u \in LockThreads \ {t} : threads'[u] = threads[u]
          /\ \/ threads'[t].pc = "idle"
             \/ /\ threads'[t].generation = threads[t].generation
                /\ threads[t].pc # "idle" /\ threads'[t].pc \in {"generation", "profile", "mutex"}
      BY <2>3, LookFacts DEF MutexInv
    <3>2. Typed'
      BY <3>1, QuietTyped DEF MutexInv, Typed, TypeOK, runtime, paths, backups
    <3>3. IsOpen' = IsOpen
      BY <3>1 DEF IsOpen, runtime
    <3>4. Holding'
      BY <2>0, <2>1, <3>1, <3>3, SessionConstants
         DEF MutexInv, MutexParts, Holding, runtime
    <3>5. Dated'
      BY <2>1, <3>1 DEF MutexInv, MutexParts, Dated, Older, paths
    <3>6. InPlace' /\ Noticed'
      BY <2>0, <2>1, <3>1, <3>3 DEF MutexInv, MutexParts, InPlace, Noticed, runtime
    <3> QED
      BY <3>2, <3>4, <3>5, <3>6 DEF MutexInv, MutexParts
  <2>4. CASE LockAcquire(t)
    <3>1. /\ Typed' /\ threads[t].pc = "mutex" /\ Free
          /\ UNCHANGED <<slot, notice, paths, timer>>
          /\ \A u \in LockThreads \ {t} : threads'[u] = threads[u]
          /\ \/ /\ IsOpen /\ StillCurrent(t) /\ holder' = t /\ threads'[t].pc = "retire"
                /\ threads'[t].generation = threads[t].generation
             \/ holder' = holder /\ threads'[t].pc = "idle"
      BY <2>4, AcquireFacts DEF MutexInv
    <3>2. IsOpen' = IsOpen
      BY <3>1 DEF IsOpen
    <3>3. ~GuardHeld
      BY <3>1, SessionConstants DEF MutexInv, MutexParts, Holding, Free
    <3>4. \A u \in LockThreads : threads[u].pc # "retire"
      BY <3>1, NobodyRetires
    <3>5. Holding'
      BY <2>0, <2>1, <3>1, <3>2, <3>3, <3>4, SessionConstants
         DEF MutexInv, MutexParts, Holding
    <3>6. Dated'
      BY <2>1, <3>1 DEF MutexInv, MutexParts, Dated, Older, paths
    <3>7. Placed => threads'[t].pc # "retire"
      <4>1. SUFFICES ASSUME Placed, threads'[t].pc = "retire" PROVE FALSE
        OBVIOUS
      <4>2. threads[t].generation = generation
        BY <3>1, <4>1 DEF StillCurrent
      <4>3. ~Renewed
        BY <2>2, <3>1, <4>2 DEF MutexInv, MutexParts, Dated, Older
      <4>4. Program /\ ~WorkerIdle /\ Now \in Steps
        BY <4>1, IdleNow, NowIsStep DEF MutexInv, Typed
      <4> QED
        BY <3>3, <4>1, <4>3, <4>4 DEF Placed, GuardHeld, Renewed, Activates, Replaces
    <3>8. InPlace' /\ Noticed'
      BY <2>0, <2>1, <3>1, <3>2, <3>4, <3>7 DEF MutexInv, MutexParts, InPlace, Noticed
    <3> QED
      BY <3>1, <3>5, <3>6, <3>8 DEF MutexInv, MutexParts
  <2>5. CASE LockRetire(t)
    <3>1. threads[t].pc = "retire" /\ IsOpen /\ holder = t
      BY <2>5 DEF LockRetire, MutexInv, MutexParts, Holding
    <3>2. /\ Typed' /\ ~IsOpen' /\ notice' = None /\ generation' = generation + 1
          /\ UNCHANGED timer
          /\ \A u \in LockThreads \ {t} : threads'[u] = threads[u]
          /\ threads'[t].pc = "disarm" /\ threads'[t].generation = threads[t].generation
      BY <2>5, <3>1, RetireFacts DEF MutexInv
    <3>3. ~GuardHeld /\ ~Placed
      BY <3>1, NobodyRetires DEF MutexInv, MutexParts, InPlace
    <3>4. ~(Now = "replace" /\ command.name \in {"relocate", "restore"})
      BY <3>3 DEF GuardHeld, Replaces
    <3>5. \A u \in LockThreads : threads[u].pc = "retire" => u = t
      BY <3>1 DEF MutexInv, MutexParts, Holding
    <3>6. Holding'
      BY <2>0, <2>1, <3>1, <3>2, <3>3, <3>5, SessionConstants
         DEF MutexInv, MutexParts, Holding
    <3>7. \A u \in LockThreads : threads[u].generation \in Nat
      BY DEF MutexInv, Typed, RequestsMade, Requests
    <3>8. timer # None => timer.generation \in Nat
      BY DEF MutexInv, Typed, TypeOK, Timer
    <3>9. Dated'
      BY <2>1, <2>2, <3>1, <3>2, <3>7, <3>8 DEF MutexInv, MutexParts, Dated, Older
    <3>10. InPlace' /\ Noticed'
      BY <2>0, <2>1, <3>2, <3>3, <3>4 DEF InPlace, Noticed
    <3> QED
      BY <3>2, <3>6, <3>9, <3>10 DEF MutexInv, MutexParts
  <2>6. CASE LockDisarm(t)
    <3>1. /\ Typed' /\ UNCHANGED <<runtime, paths>> /\ timer' \in {timer, None}
          /\ \A u \in LockThreads \ {t} : threads'[u] = threads[u]
          /\ threads'[t].pc = "idle"
      BY <2>6, DisarmFacts DEF MutexInv
    <3>2. IsOpen' = IsOpen
      BY <3>1 DEF IsOpen, runtime
    <3>3. Holding'
      BY <2>0, <2>1, <3>1, <3>2, SessionConstants
         DEF MutexInv, MutexParts, Holding, runtime
    <3>4. Dated'
      BY <2>1, <3>1 DEF MutexInv, MutexParts, Dated, Older, paths
    <3>5. InPlace' /\ Noticed'
      BY <2>0, <2>1, <3>1, <3>2 DEF MutexInv, MutexParts, InPlace, Noticed, runtime
    <3> QED
      BY <3>1, <3>3, <3>4, <3>5 DEF MutexInv, MutexParts
  <2> QED
    BY <1>4, <2>3, <2>4, <2>5, <2>6 DEF LockStep, Looks
<1> QED
  BY <1>1, <1>2, <1>3, <1>4 DEF LockRequest, Locking

\* The clients run on the command worker, but leave the session alone.
LEMMA ClientMutex ==
  ASSUME MutexInv, ClientStep
  PROVE  MutexInv'
<1>1. CASE PhoneProject
  <2>1. /\ Typed' /\ UNCHANGED <<runtime, paths, timer, registry, backups, threads>>
        /\ \/ UNCHANGED command
           \/ WorkerIdle /\ Now' = "recheck" /\ command'.name = "project"
    BY <1>1, ProjectStarts DEF MutexInv
  <2>2. CASE UNCHANGED command
    BY <2>1, <2>2, FrameMutex DEF backups, MutexInv, Typed, TypeOK
  <2>3. CASE WorkerIdle /\ Now' = "recheck" /\ command'.name = "project"
    <3>1. ~GuardHeld' /\ ~Renewed' /\ ~Placed'
      BY <2>3 DEF GuardHeld, Renewed, Placed, Replaces, Activates
    <3>2. MutexParts'
      BY <2>1, <2>3, <3>1, StartKeeps DEF runtime, paths
    <3> QED
      BY <2>1, <3>2 DEF MutexInv
  <2> QED
    BY <2>1, <2>2, <2>3
<1>2. CASE PhoneRecheck
  <2>1. /\ Typed' /\ Now = "recheck" /\ WorkerIdle' /\ Now' = "idle"
        /\ UNCHANGED <<runtime, paths, timer, threads>>
    BY <1>2, RecheckFacts DEF MutexInv
  <2>2. ~GuardHeld' /\ ~Renewed' /\ ~Placed'
    BY <2>1 DEF GuardHeld, Renewed, Placed
  <2>3. command.name = "project" /\ threads["worker"].pc = "idle"
    BY <2>1, CommandOf, IdleNow DEF MutexInv, MutexParts, Typed, Holding
  <2>4. MutexParts'
    BY <2>1, <2>2, <2>3, StepKeeps DEF runtime, paths
  <2> QED
    BY <2>1, <2>4 DEF MutexInv
<1>3. CASE ~(PhoneProject \/ PhoneRecheck)
  <2>1. UNCHANGED <<runtime, paths, timer, registry, backups, command, threads>>
    BY <1>3 DEF ClientStep, RefreshStart, RefreshWrite, RefreshReturn, PhoneAsk, PhoneStamp,
       PhoneDeliver, PhoneEnds
  <2> QED
    BY <2>1, FrameMutex DEF backups, MutexInv, Typed, TypeOK
<1> QED
  BY <1>1, <1>2, <1>3

\* Who retires a session holds the mutex, what is replaced is older than its successor, and
\* nobody locks a new database before its command is through: whatever goes wrong.
THEOREM MutexInductive == Spec => []MutexInv
<1>1. Init => MutexInv
  <2> SUFFICES ASSUME Init PROVE MutexInv
    OBVIOUS
  <2>1. WorkerIdle /\ Program
    BY DEF Init, WorkerIdle, Program
  <2>2. NoRequest \in Requests /\ NoRequest.pc = "idle" /\ NoRequest.from = None
    BY DEF NoRequest, Requests, RequestPcs
  <2>3. RequestsMade /\ \A t \in LockThreads : threads[t].pc = "idle"
    <3> HIDE DEF NoRequest
    <3> QED
      BY <2>2 DEF Init, RequestsMade
  <2>4. slot \in Slot /\ ~IsOpen
    BY DEF Init, Slot, IsOpen, NoProfileOpen
  <2>5. 1 \in 1..MaxFiles
    BY SessionConstants
  <2>6. dbPath \in Paths /\ file \in [Profiles -> Paths] /\ created \in [Profiles -> 1..MaxFiles]
    BY <2>5, SessionConstants DEF Init, Paths
  <2>7. dek \in [Paths -> Paths \cup {None}] /\ listed \subseteq Profiles
    BY DEF Init
  <2>8. TypeOK
    BY <2>3, <2>4, <2>6, <2>7 DEF Init, TypeOK
  <2>9. MutexParts
    BY <2>1, <2>3, IdleNow, SessionConstants
       DEF Init, MutexParts, Holding, Dated, InPlace, Noticed
  <2> QED
    BY <2>1, <2>3, <2>8, <2>9 DEF MutexInv, Typed
<1>2. MutexInv /\ [Next]_vars => MutexInv'
  <2> SUFFICES ASSUME MutexInv, [Next]_vars PROVE MutexInv'
    OBVIOUS
  <2>1. CASE UserCommand
    BY <2>1, UserMutex
  <2>2. CASE CommandStep
    BY <2>2, CommandMutex
  <2>3. CASE LockRequest \/ Locking
    BY <2>3, LockMutex
  <2>4. CASE ClientStep
    BY <2>4, ClientMutex
  <2>5. CASE UNCHANGED vars
    BY <2>5, FrameMutex DEF vars, backups, MutexInv, Typed, TypeOK
  <2> QED
    BY <2>1, <2>2, <2>3, <2>4, <2>5 DEF Next
<1> QED
  BY <1>1, <1>2, PTL DEF Spec

\* The types of the session, whatever goes wrong.
THEOREM SessionTypesCorrect == Spec => []TypeOK
<1>1. MutexInv => TypeOK
  BY DEF MutexInv, Typed
<1> QED
  BY <1>1, MutexInductive, PTL

\* A notice never reaches another profile or a locked one.
THEOREM NoticeReachesItsProfile == Spec => []NoticeOfOpenProfile
<1>1. MutexInv => NoticeOfOpenProfile
  BY IdleNow DEF MutexInv, MutexParts, Noticed, NoticeOfOpenProfile
<1> QED
  BY <1>1, MutexInductive, PTL

-----------------------------------------------------------------------------
(* The keys of a final backup, when the registry and the backups can be written *)

RegistryAndBackupsWork == Faults \cap {"registry", "backup"} = {}

\* No database loses its key or its number.
LEMMA KnownGrows ==
  ASSUME created \in [Profiles -> 1..MaxFiles],
         NEW p \in Profiles, NEW key, NEW path \in Paths, Known(path),
         created' = [created EXCEPT ![p] = @ + 1],
         dek \in [Paths -> Paths \cup {None}],
         dek' = [dek EXCEPT ![<<p, created[p] + 1>>] = key]
  PROVE  Known(path)' /\ dek'[path] = dek[path]
<1>1. path[1] \in Profiles /\ path[2] \in Nat /\ path = <<path[1], path[2]>>
  BY DEF Paths
<1>2. created[p] \in Nat /\ created[path[1]] \in Nat
  BY <1>1, SessionConstants
<1>3. Known(path)'
  BY <1>1, <1>2 DEF Known
<1>4. path # <<p, created[p] + 1>>
  BY <1>1, <1>2 DEF Known
<1> QED
  BY <1>3, <1>4

\* A command that starts has changed no database in use.
LEMMA StartKeys ==
  ASSUME MutexInv, KeysInv, WorkerIdle, ~WorkerIdle', Typed',
         UNCHANGED <<slot, dbPath, generation, file, backups>>,
         \/ Now' \in {"settle", "commit", "replace", "lock", "recheck"}
         \/ Now' = "armCheck" /\ command'.name = "settings",
         Now' = "settle" => command'.name # "switch",
         \A path \in Paths : Known(path) => Known(path)' /\ dek'[path] = dek[path],
         Targeted' => Known(command.path)',
         \A t \in LockThreads :
           \/ threads'[t] = threads[t]
           \/ threads'[t].pc = "queued" /\ threads'[t].from = None
  PROVE  KeysInv'
<1>1. Now = "idle"
  BY IdleNow
<1>2. /\ IsOpen' = IsOpen /\ dbPath \in Paths /\ (IsOpen => slot.db \in Paths)
      /\ \A p \in Profiles : file[p] \in Paths
  BY SlotFacts DEF IsOpen, MutexInv, Typed, TypeOK
<1>3. \A t \in LockThreads :
        /\ threads[t].from # None => threads[t].from \in Paths
        /\ threads[t].pc \in {"generation", "profile", "mutex", "retire"} =>
            threads[t].from \in Paths
        /\ threads[t].pc = "retire" => IsOpen
  BY DEF MutexInv, MutexParts, Holding, Typed, RequestsMade, Requests
<1>4. FilesKnown'
  <2>1. Known(dbPath)' /\ (IsOpen' => Known(slot.db)') /\ \A p \in Profiles : Known(file[p])'
    BY <1>2 DEF KeysInv, FilesKnown, Known
  <2>2. \A t \in LockThreads : threads'[t].from # None => Known(threads[t].from)'
    BY <1>3 DEF KeysInv, FilesKnown, Known
  <2>3. Targeted' => Known(command.path)'
    BY DEF Known
  <2> QED
    BY <2>1, <2>2, <2>3 DEF FilesKnown
<1>5. ~Pathed' /\ ~Between' /\ ~Installing' /\ ~Replaced' /\ ~Installing /\ ~Between /\ ~Replaced
  BY <1>1 DEF Pathed, Renewed, Between, Installing, Replaced
<1>6. PathFollows'
  BY <1>2, <1>5 DEF KeysInv, PathFollows
<1>7. Settled'
  BY DEF Settled
<1>8. KeysFollow'
  <2>1. ASSUME NEW t \in LockThreads, threads'[t] = threads[t], IsOpen,
               threads[t].pc \in {"generation", "profile", "mutex", "retire"},
               threads[t].pc # "retire" => threads[t].generation = generation
        PROVE  SameKey(t)'
    <3>1. threads[t].from \in Paths /\ threads[t].from # None
      BY <1>3, <2>1, SessionConstants DEF Paths
    <3>2. Known(threads[t].from) /\ Known(slot.db) /\ slot.db \in Paths
      BY <1>2, <2>1, <3>1 DEF KeysInv, FilesKnown
    <3>3. dek[threads[t].from] = dek[slot.db]
      BY <1>5, <2>1 DEF KeysInv, KeysFollow, SameKey
    <3> QED
      BY <2>1, <3>1, <3>2, <3>3 DEF SameKey
  <2> QED
    BY <1>2, <1>3, <2>1 DEF KeysFollow
<1>9. BackupKeyMatches'
  BY DEF KeysInv, BackupKeyMatches, backups
<1> QED
  BY <1>4, <1>6, <1>7, <1>8, <1>9 DEF KeysInv

\* Nothing but the notice, the timer, a finished command or a new day.
LEMMA FrameKeys ==
  ASSUME KeysInv, UNCHANGED <<slot, dbPath, generation, file, dek, created, copies, threads>>,
         \/ UNCHANGED command /\ (UNCHANGED due \/ Now = "idle")
         \/ /\ Now \in {"idle", "lock", "recheck"} /\ Now' \in {"idle", "lock", "recheck"}
            /\ ~Targeted' /\ UNCHANGED due
  PROVE  KeysInv'
<1>1. IsOpen' = IsOpen
  BY DEF IsOpen
<1>2. CASE UNCHANGED command
  <2>1. /\ Now' = Now /\ Targeted' = Targeted /\ Pathed' = Pathed /\ Between' = Between
        /\ Replaced' = Replaced /\ Installing' = Installing /\ Activates' = Activates
    BY <1>2 DEF Now, WorkerIdle, Targeted, Activates, Replaces, Pathed, Renewed, Between,
       Replaced, Installing
  <2>2. UNCHANGED due \/ Now = "idle"
    BY <1>2
  <2>3. FilesKnown' /\ PathFollows' /\ BackupKeyMatches'
    BY <1>1, <1>2, <2>1 DEF KeysInv, FilesKnown, Known, PathFollows, BackupKeyMatches
  <2>4. Settled'
    BY <2>1, <2>2 DEF KeysInv, Settled
  <2>5. Now = "idle" => ~Installing
    BY DEF Installing
  <2>6. KeysFollow'
    BY <1>1, <2>1, <2>2, <2>5 DEF KeysInv, KeysFollow, SameKey
  <2> QED
    BY <2>3, <2>4, <2>6 DEF KeysInv
<1>3. CASE /\ Now \in {"idle", "lock", "recheck"} /\ Now' \in {"idle", "lock", "recheck"}
           /\ ~Targeted' /\ UNCHANGED due
  <2>1. /\ ~Pathed' /\ ~Between' /\ ~Replaced' /\ ~Installing'
        /\ ~Between /\ ~Replaced /\ ~Installing
    BY <1>3 DEF Pathed, Renewed, Between, Replaced, Installing
  <2>2. FilesKnown' /\ PathFollows' /\ BackupKeyMatches' /\ Settled'
    BY <1>1, <1>3, <2>1
       DEF KeysInv, FilesKnown, Known, PathFollows, BackupKeyMatches, Settled
  <2>3. KeysFollow'
    BY <1>1, <1>3, <2>1 DEF KeysInv, KeysFollow, SameKey
  <2> QED
    BY <2>2, <2>3 DEF KeysInv
<1> QED
  BY <1>2, <1>3

\* A command that starts keeps the keys.
LEMMA UserKeys ==
  ASSUME MutexInv, KeysInv, UserCommand
  PROVE  KeysInv'
<1>0. /\ created \in [Profiles -> 1..MaxFiles] /\ dek \in [Paths -> Paths \cup {None}]
      /\ \A p \in Profiles : Known(file[p])
  BY DEF MutexInv, Typed, TypeOK, KeysInv, FilesKnown
<1>1. ASSUME NEW p \in Profiles, Select(p) \/ Unlock(p) PROVE KeysInv'
  <2>1. /\ Typed' /\ WorkerIdle /\ ~WorkerIdle' /\ Now' = "settle"
        /\ command'.name \in {"select", "unlock"} /\ command'.path = file[p]
        /\ UNCHANGED <<runtime, paths, registry, backups, threads>>
    BY <1>1, SelectStarts DEF MutexInv
  <2>2. Known(command.path)' /\ \A path \in Paths : Known(path) => Known(path)'
    BY <1>0, <2>1 DEF Known, registry
  <2> QED
    BY <2>1, <2>2, StartKeys DEF runtime, paths, registry
<1>2. CASE Enable \/ RemoveProtection \/ ChangePassword \/ Relocate \/ Restore
  <2>1. /\ Typed' /\ WorkerIdle /\ ~WorkerIdle'
        /\ Now' \in {"commit", "replace"}
        /\ command'.path = <<slot.profile, created[slot.profile] + 1>>
        /\ slot.profile \in Profiles
        /\ created' = [created EXCEPT ![slot.profile] = @ + 1]
        /\ UNCHANGED <<slot, paths, file, backups, threads>>
    BY <1>2, ChangeStarts DEF MutexInv
  <2>2. PICK key \in Paths \cup {None} : dek' = [dek EXCEPT ![command'.path] = key]
    BY <1>2, ChangeStarts DEF MutexInv
  <2>3. \A path \in Paths : Known(path) => Known(path)' /\ dek'[path] = dek[path]
    BY <1>0, <2>1, <2>2, KnownGrows
  <2>4. Known(command.path)'
    BY <1>0, <2>1, SessionConstants DEF Known
  <2> QED
    BY <2>1, <2>3, <2>4, StartKeys DEF paths
<1>3. ASSUME NEW p \in Profiles, Switch(p) PROVE KeysInv'
  <2>1. /\ Typed' /\ WorkerIdle /\ ~WorkerIdle' /\ Now' = "replace" /\ command'.path = file[p]
        /\ UNCHANGED <<slot, paths, file, dek, created, backups, threads>>
    BY <1>3, SwitchStarts DEF MutexInv
  <2>2. Known(command.path)' /\ \A path \in Paths : Known(path) => Known(path)'
    BY <1>0, <2>1 DEF Known
  <2> QED
    BY <2>1, <2>2, StartKeys DEF paths
<1>4. CASE SetAutoLock
  <2>1. /\ Typed' /\ WorkerIdle /\ ~WorkerIdle' /\ Now' = "armCheck" /\ command'.name = "settings"
        /\ UNCHANGED <<runtime, paths, registry, backups, threads>>
    BY <1>4, SettingsStarts DEF MutexInv
  <2>2. ~Targeted' /\ \A path \in Paths : Known(path) => Known(path)'
    BY <2>1 DEF Targeted, Activates, Replaces, Known, registry
  <2> QED
    BY <2>1, <2>2, StartKeys DEF runtime, paths, registry
<1>5. ASSUME NEW p \in Profiles, SelectProtected(p) \/ ShowSelector PROVE KeysInv'
  <2>1. /\ WorkerIdle /\ Free /\ slot' \in {Locked(p), NoProfileOpen}
        /\ UNCHANGED <<paths, registry, backups, command, threads>>
    BY <1>5 DEF SelectProtected, ShowSelector
  <2>2. ~IsOpen' /\ \A t \in LockThreads : threads[t].pc # "retire"
    BY <2>1, NobodyRetires DEF IsOpen, Locked, NoProfileOpen
  <2>3. Now' = "idle" /\ Targeted' = Targeted
    BY <2>1 DEF Now, WorkerIdle, Targeted, Activates, Replaces
  <2> QED
    BY <2>1, <2>2, <2>3 DEF KeysInv, FilesKnown, Known, PathFollows, Pathed, Renewed, Settled,
       KeysFollow, BackupKeyMatches, paths, registry, backups
<1>6. CASE TakeNotice \/ DayPasses
  <2>1. /\ WorkerIdle /\ UNCHANGED <<slot, paths, registry, copies, command, threads>>
    BY <1>6 DEF TakeNotice, DayPasses, runtime, backups
  <2> QED
    BY <2>1, IdleNow, FrameKeys DEF paths, registry
<1>7. Default \in Profiles
  BY SessionConstants
<1> QED
  BY <1>1, <1>2, <1>3, <1>4, <1>5, <1>6, <1>7 DEF UserCommand

\* How the windows of a command follow each other.
LEMMA GoingBetween ==
  ASSUME Program, Program', ~WorkerIdle, Now \in Steps,
         \/ command' = Idle /\ Now' = "idle"
         \/ /\ ~WorkerIdle' /\ <<Now, Now'>> \in Order(command.name) /\ Now' \in Steps
            /\ command'.name = command.name /\ command'.path = command.path,
         WorkerIdle' => Now \in {"arm", "release", "lock", "recheck", "armCheck", "open"}
  PROVE  /\ Targeted' => Targeted /\ command'.path = command.path
         /\ Pathed' => (Pathed \/ Now = "path") /\ Targeted
         /\ Installing => Installing' \/ Now = "install"
         /\ Installing' => Installing \/ Now = "path"
         /\ Between => Between' \/ Now \in {"install", "path"}
         /\ Replaced => Replaced' \/ Renewed \/ Now = "generation"
         /\ Activates' /\ Now' \in {"path", "generation", "install"} =>
              Activates /\ Now \in {"settle", "path", "generation"}
<1>1. CASE WorkerIdle'
  <2>1. command' = Idle /\ Now' = "idle"
    BY <1>1 DEF WorkerIdle
  <2> QED
    BY <1>1, <2>1, CommandOf
       DEF Targeted, Pathed, Renewed, Installing, Between, Replaced, Activates, Replaces
<1>2. CASE ~WorkerIdle'
  <2>1. command.name \in Names
    BY DEF Program
  <2>2. /\ <<Now, Now'>> \in Order(command.name)
        /\ command'.name = command.name /\ command'.path = command.path
    BY <1>2 DEF WorkerIdle
  <2>3. Targeted' => Targeted
    BY <1>2, <2>2 DEF Targeted, Activates, Replaces
  <2>4. CASE command.name \in {"select", "unlock", "convert", "password"}
    BY <1>2, <2>2, <2>3, <2>4 DEF Order, Targeted, Pathed, Renewed, Installing, Between, Replaced,
       Activates, Replaces
  <2>5. CASE command.name \in {"relocate", "restore"}
    BY <1>2, <2>2, <2>3, <2>5 DEF Order, Targeted, Pathed, Renewed, Installing, Between, Replaced,
       Activates, Replaces
  <2>6. CASE command.name \in {"switch", "settings", "lock", "project"}
    BY <1>2, <2>2, <2>3, <2>6 DEF Order, Targeted, Pathed, Renewed, Installing, Between, Replaced,
       Activates, Replaces
  <2> QED
    BY <2>1, <2>4, <2>5, <2>6 DEF Names
<1> QED
  BY <1>1, <1>2

\* What the steps of a command change, and when.
LEMMA CommandFacts ==
  ASSUME "registry" \notin Faults, Typed, CommandStep
  PROVE  /\ Program /\ Program' /\ ~WorkerIdle /\ Now \in Steps \ {"lock", "recheck"}
         /\ UNCHANGED <<dek, created, listed, threads>>
         /\ \/ command' = Idle /\ Now' = "idle"
            \/ /\ ~WorkerIdle' /\ <<Now, Now'>> \in Order(command.name) /\ Now' \in Steps
               /\ command'.name = command.name /\ command'.from = command.from
               /\ command'.path = command.path
         /\ WorkerIdle' => Now \in {"arm", "release", "lock", "recheck", "armCheck", "open"}
         /\ Now \in {"settle", "path", "install", "replace", "commit", "registry"} => Targeted
         /\ dbPath' # dbPath => Now = "path"
         /\ slot' # slot => Now \in {"install", "replace"}
         /\ generation' # generation => Now = "generation"
         /\ file' # file => Now \in {"commit", "registry"}
         /\ timer' # timer => Now \in {"armCheck", "arm"}
         /\ Now = "path" => dbPath' = command.path
         /\ Now \in {"install", "replace"} => slot' = Open(command.path)
         /\ Now = "install" => Free
         /\ Now = "generation" => generation' = generation + 1
         /\ Now = "settle" => BackUp(dek[command.path], command.path)
         /\ Now # "settle" => UNCHANGED backups
         /\ Now = "commit" =>
              file' = IF command.name = "convert"
                      THEN [file EXCEPT ![ProfileOf(command.from)] = command.path]
                      ELSE Moved
         /\ Now = "registry" => file' = Moved
         /\ Now = "armCheck" /\ IsOpen => ~WorkerIdle' /\ timer' = timer
         /\ Now = "arm" =>
              timer' = IF ProfileOf(dbPath) \in listed /\ Encrypted(file[ProfileOf(dbPath)])
                       THEN [profile |-> ProfileOf(dbPath), generation |-> generation]
                       ELSE None
         /\ WorkerIdle' =>
              Now = LastStep \/ (Now = "armCheck" /\ ~IsOpen) \/ "open" \in Faults
<1>1. /\ Program' /\ ~WorkerIdle /\ Now \in Steps
      /\ UNCHANGED <<dek, created, listed, threads>>
      /\ \/ command' = Idle /\ Now' = "idle"
         \/ /\ ~WorkerIdle' /\ <<Now, Now'>> \in Order(command.name) /\ Now' \in Steps
            /\ command'.name = command.name /\ command'.from = command.from
            /\ command'.path = command.path
  BY CommandMoves DEF Typed
<1>2. \A s \in Steps : At(s) => Now = s
  BY NowIsStep DEF Typed
<1>3. WorkerIdle' => Now \in {"arm", "release", "lock", "recheck", "armCheck", "open"}
  BY CommandMoves DEF LastStep, Typed, WorkerIdle
<1>12. WorkerIdle' => Now = LastStep \/ (Now = "armCheck" /\ ~IsOpen) \/ "open" \in Faults
  BY CommandMoves DEF Typed, WorkerIdle
<1>4. Now \in {"settle", "path", "install", "replace", "commit", "registry"} => Targeted
  BY <1>1, CommandOf DEF Targeted, Typed
<1>5. CASE Commit \/ UpdateRegistry
  BY <1>1, <1>2, <1>3, <1>4, <1>12, <1>5 DEF Commit, UpdateRegistry, Steps, runtime, paths, Typed
<1>6. CASE OpenNew \/ SetNotice \/ Release
  BY <1>1, <1>2, <1>3, <1>4, <1>12, <1>6
     DEF OpenNew, SetNotice, Release, Steps, runtime, paths, registry, Typed
<1>7. CASE Settle
  BY <1>1, <1>2, <1>3, <1>4, <1>12, <1>7 DEF Settle, Steps, runtime, paths, registry, Typed
<1>8. CASE SetPath \/ BumpGeneration
  BY <1>1, <1>2, <1>3, <1>4, <1>12, <1>8
     DEF SetPath, BumpGeneration, Steps, runtime, registry, Typed
<1>9. CASE Install \/ Replace
  BY <1>1, <1>2, <1>3, <1>4, <1>12, <1>9 DEF Install, Replace, Steps, paths, registry, Typed
<1>10. CASE Arm
  BY <1>1, <1>2, <1>3, <1>4, <1>12, <1>10 DEF Arm, Steps, runtime, paths, registry, Typed
<1>13. CASE ArmCheck
  <2>1. IsOpen => ~WorkerIdle'
    <3>1. LastStep # "armCheck"
      BY DEF LastStep
    <3>2. IsOpen /\ WorkerIdle' => "open" \in Faults /\ Advance
      BY <1>2, <1>12, <1>13, <3>1 DEF ArmCheck, Steps
    <3>3. Advance /\ WorkerIdle' => Now = LastStep
      BY <1>1, Advances DEF Typed, WorkerIdle
    <3> QED
      BY <1>2, <1>13, <3>1, <3>2, <3>3 DEF ArmCheck, Steps
  <2> QED
    BY <1>1, <1>2, <1>3, <1>4, <1>12, <1>13, <2>1
       DEF ArmCheck, Steps, runtime, paths, registry, Typed
<1>11. ~UpdateRegistryFails
  BY DEF UpdateRegistryFails
<1> QED
  BY <1>5, <1>6, <1>7, <1>8, <1>9, <1>10, <1>11, <1>13 DEF CommandStep

\* The path and the slot get the new database one after the other.
LEMMA CommandPaths ==
  ASSUME "registry" \notin Faults, MutexInv, PathFollows, CommandStep
  PROVE  PathFollows'
<1>1. Typed
  BY DEF MutexInv
<1>2. /\ Program /\ Program' /\ ~WorkerIdle /\ Now \in Steps
      /\ \/ command' = Idle /\ Now' = "idle"
         \/ /\ ~WorkerIdle' /\ <<Now, Now'>> \in Order(command.name) /\ Now' \in Steps
            /\ command'.name = command.name /\ command'.path = command.path
  BY <1>1, CommandFacts
<1>3. WorkerIdle' => Now \in {"arm", "release", "lock", "recheck", "armCheck", "open"}
  BY <1>1, CommandFacts
<1>4. /\ Targeted' => Targeted /\ command'.path = command.path
      /\ Pathed' => (Pathed \/ Now = "path") /\ Targeted
      /\ Between => Between' \/ Now \in {"install", "path"}
  BY <1>2, <1>3, GoingBetween
<1>5. Now \in {"settle", "path", "install", "replace", "commit", "registry"} => Targeted
  BY <1>1, CommandFacts
<1>6. /\ dbPath' # dbPath => Now = "path"
      /\ slot' # slot => Now \in {"install", "replace"}
      /\ Now = "path" => dbPath' = command.path
      /\ Now \in {"install", "replace"} => slot' = Open(command.path)
  BY <1>1, CommandFacts
<1>7. Pathed' => dbPath' = command'.path
  <2> SUFFICES ASSUME Pathed' PROVE dbPath' = command'.path
    OBVIOUS
  <2>1. command'.path = command.path /\ (Pathed \/ Now = "path")
    BY <1>2, <1>4 DEF Pathed, Renewed, WorkerIdle
  <2> QED
    BY <1>6, <2>1 DEF PathFollows
<1>8. ASSUME IsOpen', ~Between' PROVE slot'.db = dbPath'
  <2>1. CASE Now = "path"
    <3>1. Replaces
      <4>1. ~Installing'
        BY <1>8 DEF Between
      <4>2. Activates => Now' = "generation" /\ Activates'
        BY <1>2, <1>3, <2>1 DEF Order, Activates, WorkerIdle
      <4> QED
        BY <1>5, <2>1, <4>1, <4>2 DEF Targeted, Installing
    <3>2. slot = Open(command.path)
      BY <2>1, <3>1 DEF MutexInv, MutexParts, InPlace, Placed
    <3> QED
      BY <1>6, <2>1, <3>2 DEF Open
  <2>2. CASE Now = "install"
    <3>1. Pathed
      BY <1>2, <2>2, CommandOf DEF Pathed, Renewed, Activates
    <3> QED
      BY <1>6, <2>2, <3>1 DEF Open, PathFollows
  <2>3. CASE Now = "replace"
    <3>1. Replaces /\ ~WorkerIdle'
      BY <1>2, <1>3, <2>3, CommandOf
    <3> QED
      BY <1>2, <1>8, <2>3, <3>1 DEF Order, Replaces, Between, Installing, WorkerIdle
  <2>4. CASE Now \notin {"path", "install", "replace"}
    <3>1. slot' = slot /\ dbPath' = dbPath /\ ~Between
      BY <1>4, <1>6, <1>8, <2>4
    <3> QED
      BY <1>8, <3>1 DEF IsOpen, PathFollows
  <2> QED
    BY <2>1, <2>2, <2>3, <2>4
<1> QED
  BY <1>7, <1>8 DEF PathFollows

\* A backup of a database beside its own key file can be opened.
LEMMA BackUpSame ==
  ASSUME NEW d, NEW source, BackUp(d, source), BackupKeyMatches, due => dek[source] = d,
         due \in BOOLEAN
  PROVE  BackupKeyMatches' /\ (due' => due)
<1>1. CASE UNCHANGED backups
  BY <1>1 DEF BackupKeyMatches, backups
<1>2. CASE due /\ due' = FALSE /\ UNCHANGED copies
  BY <1>2 DEF BackupKeyMatches
<1>3. CASE due /\ due' = FALSE /\ copies' = copies \cup {[db |-> d, key |-> dek[source]]}
  BY <1>3 DEF BackupKeyMatches
<1> QED
  BY <1>1, <1>2, <1>3 DEF BackUp

\* Without an error, a due backup of a database with its key is taken.
LEMMA BackUpDone ==
  ASSUME NEW d, BackUp(d, command.path), d = dek[command.path], "backup" \notin Faults,
         due \in BOOLEAN
  PROVE  ~due'
BY DEF BackUp, backups

\* The steps of a command keep the keys: the path goes to the new database after the due backup.
LEMMA CommandKeys ==
  ASSUME RegistryAndBackupsWork, MutexInv, KeysInv, CommandStep
  PROVE  KeysInv'
<1>1. Typed /\ "registry" \notin Faults
  BY DEF MutexInv, RegistryAndBackupsWork
<1>2. /\ Program /\ Program' /\ ~WorkerIdle /\ Now \in Steps
      /\ UNCHANGED <<dek, created, threads>>
      /\ \/ command' = Idle /\ Now' = "idle"
         \/ /\ ~WorkerIdle' /\ <<Now, Now'>> \in Order(command.name) /\ Now' \in Steps
            /\ command'.name = command.name /\ command'.path = command.path
  BY <1>1, CommandFacts
<1>3. WorkerIdle' => Now \in {"arm", "release", "lock", "recheck", "armCheck", "open"}
  BY <1>1, CommandFacts
<1>4. /\ Targeted' => Targeted /\ command'.path = command.path
      /\ Pathed' => (Pathed \/ Now = "path") /\ Targeted
      /\ Installing => Installing' \/ Now = "install"
      /\ Installing' => Installing \/ Now = "path"
      /\ Between => Between' \/ Now \in {"install", "path"}
      /\ Replaced => Replaced' \/ Renewed \/ Now = "generation"
      /\ Activates' /\ Now' \in {"path", "generation", "install"} =>
           Activates /\ Now \in {"settle", "path", "generation"}
  BY <1>2, <1>3, GoingBetween
<1>5. Now \in {"settle", "path", "install", "replace", "commit", "registry"} => Targeted
  BY <1>1, CommandFacts
<1>6. due \in BOOLEAN
  BY DEF MutexInv, Typed, TypeOK
<1>7. /\ dbPath' # dbPath => Now = "path"
      /\ slot' # slot => Now \in {"install", "replace"}
      /\ generation' # generation => Now = "generation"
      /\ file' # file => Now \in {"commit", "registry"}
  BY <1>1, CommandFacts
<1>8. /\ Now = "path" => dbPath' = command.path
      /\ Now \in {"install", "replace"} => slot' = Open(command.path)
      /\ Now = "install" => Free
      /\ Now = "generation" => generation' = generation + 1
      /\ Now = "settle" => BackUp(dek[command.path], command.path)
      /\ Now # "settle" => UNCHANGED backups
      /\ Now = "commit" =>
           file' \in {[file EXCEPT ![ProfileOf(command.from)] = command.path], Moved}
      /\ Now = "registry" => file' = Moved
  BY <1>1, CommandFacts
<1>9. BackupKeyMatches' /\ (due' => due)
  <2>1. CASE Now = "settle"
    BY <1>6, <1>8, <2>1, BackUpSame DEF KeysInv
  <2>2. CASE Now # "settle"
    BY <1>8, <2>2 DEF KeysInv, BackupKeyMatches, backups
  <2> QED
    BY <2>1, <2>2
<1>10. Settled'
  <2> SUFFICES ASSUME Activates', Now' \in {"path", "generation", "install"} PROVE ~due'
    BY DEF Settled
  <2>1. Activates /\ Now \in {"settle", "path", "generation"}
    BY <1>4
  <2>2. CASE Now = "settle"
    BY <1>6, <1>8, <2>2, BackUpDone DEF RegistryAndBackupsWork
  <2>3. CASE Now # "settle"
    BY <1>9, <2>1, <2>3 DEF KeysInv, Settled
  <2> QED
    BY <2>2, <2>3
<1>11. FilesKnown'
  <2>1. Known(dbPath)'
    BY <1>2, <1>5, <1>7, <1>8 DEF KeysInv, FilesKnown, Known
  <2>2. IsOpen' => Known(slot.db)'
    BY <1>2, <1>5, <1>7, <1>8 DEF KeysInv, FilesKnown, Known, Open, IsOpen
  <2>3. \A p \in Profiles : Known(file[p])'
    <3>1. \A p \in Profiles : file'[p] \in {file[p], command.path}
      BY <1>7, <1>8 DEF Moved, MutexInv, Typed, TypeOK
    <3> QED
      BY <1>2, <1>5, <1>7, <3>1 DEF KeysInv, FilesKnown, Known
  <2>4. (Targeted' => Known(command.path)')
    BY <1>2, <1>4 DEF KeysInv, FilesKnown, Known
  <2>5. \A t \in LockThreads : threads'[t].from # None => Known(threads[t].from)'
    BY <1>2 DEF KeysInv, FilesKnown, Known
  <2> QED
    BY <2>1, <2>2, <2>3, <2>4, <2>5 DEF FilesKnown
<1>12. PathFollows'
  BY <1>1, CommandPaths DEF KeysInv
<1>13. KeysFollow'
  <2>1. ASSUME NEW t \in LockThreads, IsOpen', ~Replaced', threads[t].generation = generation',
               threads[t].pc \in {"generation", "profile", "mutex"}
        PROVE  SameKey(t)'
    <3>1. threads[t].generation \in Nat /\ generation \in Nat
      BY DEF MutexInv, Typed, TypeOK, RequestsMade, Requests
    <3>2. threads[t].generation <= generation /\ (Renewed => threads[t].generation < generation)
      BY <2>1 DEF MutexInv, MutexParts, Dated, Older
    <3>3. generation' = generation /\ ~Renewed /\ Now # "generation"
      BY <1>7, <1>8, <2>1, <3>1, <3>2
    <3>4. ~Replaced
      BY <1>4, <2>1, <3>3
    <3>5. Now # "install"
      BY <1>2, <3>3, CommandOf DEF Renewed, Activates
    <3>6. Now # "replace"
      <4> SUFFICES ASSUME Now = "replace" PROVE FALSE
        OBVIOUS
      <4>1. Replaces /\ ~WorkerIdle'
        BY <1>2, <1>3, CommandOf
      <4> QED
        BY <1>2, <2>1, <4>1 DEF Order, Replaces, Replaced, WorkerIdle
    <3>7. slot' = slot /\ IsOpen
      BY <1>7, <1>8, <2>1, <3>5, <3>6 DEF IsOpen
    <3>8. SameKey(t)
      BY <2>1, <3>3, <3>4, <3>7 DEF KeysInv, KeysFollow
    <3> QED
      BY <1>2, <1>4, <1>9, <3>5, <3>7, <3>8 DEF SameKey
  <2>2. ASSUME NEW t \in LockThreads, threads[t].pc = "retire"
        PROVE  SameKey(t)'
    <3>1. ~Free /\ ~GuardHeld
      BY <2>2, NobodyRetires
    <3>2. Now # "install" /\ Now # "replace"
      BY <1>2, <1>8, <3>1, CommandOf DEF GuardHeld
    <3>3. slot' = slot
      BY <1>7, <1>8, <3>2
    <3>4. SameKey(t)
      BY <2>2 DEF KeysInv, KeysFollow
    <3> QED
      BY <1>2, <1>4, <1>9, <3>2, <3>3, <3>4 DEF SameKey
  <2> QED
    BY <1>2, <2>1, <2>2 DEF KeysFollow
<1> QED
  BY <1>9, <1>10, <1>11, <1>12, <1>13 DEF KeysInv

\* The steps of a lock keep the keys: its last look is at a session nobody is replacing.
LEMMA LockKeys ==
  ASSUME RegistryAndBackupsWork, MutexInv, KeysInv, LockRequest \/ Locking
  PROVE  KeysInv'
<1>1. CASE LockNow
  <2>1. /\ Typed' /\ WorkerIdle /\ ~WorkerIdle' /\ Now' = "lock" /\ command'.name = "lock"
        /\ \A t \in LockThreads \ {"worker"} : threads'[t] = threads[t]
        /\ threads'["worker"].pc = "queued" /\ threads'["worker"].from = None
        /\ UNCHANGED <<runtime, paths, registry, backups>>
    BY <1>1, LockStarts DEF MutexInv
  <2>2. ~Targeted' /\ \A path \in Paths : Known(path) => Known(path)'
    BY <2>1 DEF Targeted, Activates, Replaces, Known, registry
  <2>3. \A t \in LockThreads :
          \/ threads'[t] = threads[t]
          \/ threads'[t].pc = "queued" /\ threads'[t].from = None
    BY <2>1
  <2> QED
    BY <2>1, <2>2, <2>3, StartKeys DEF runtime, paths, registry
<1>2. CASE LockNowReturns
  <2>1. /\ Now = "lock" /\ WorkerIdle' /\ Now' = "idle"
        /\ UNCHANGED <<runtime, paths, registry, backups, threads>>
    BY <1>2, LockReturnFacts DEF MutexInv
  <2> QED
    BY <2>1, FrameKeys DEF runtime, paths, registry, backups, Targeted
<1>3. ASSUME NEW t \in LockThreads, UNCHANGED <<runtime, paths, registry, backups, command>>,
             \A u \in LockThreads \ {t} : threads'[u] = threads[u],
             threads'[t].pc \in {"idle", "queued"}, threads'[t].from = None
      PROVE  KeysInv'
  <2>1. /\ Now' = Now /\ Targeted' = Targeted /\ Pathed' = Pathed /\ Between' = Between
        /\ Replaced' = Replaced /\ Installing' = Installing /\ Activates' = Activates
        /\ IsOpen' = IsOpen
    BY <1>3 DEF Now, WorkerIdle, Targeted, Activates, Replaces, Pathed, Renewed, Between,
       Replaced, Installing, runtime, IsOpen
  <2>2. FilesKnown'
    BY <1>3, <2>1 DEF KeysInv, FilesKnown, Known, runtime, paths, registry
  <2>3. PathFollows' /\ Settled' /\ BackupKeyMatches'
    BY <1>3, <2>1 DEF KeysInv, PathFollows, Settled, BackupKeyMatches, runtime, paths, backups
  <2>4. KeysFollow'
    BY <1>3, <2>1 DEF KeysInv, KeysFollow, SameKey, runtime, paths, registry, backups
  <2> QED
    BY <2>2, <2>3, <2>4 DEF KeysInv
<1>4. CASE TimerFires \/ NativeEvent
  <2>1. UNCHANGED <<runtime, paths, registry, backups, command>>
    BY <1>4, AskFacts DEF MutexInv
  <2>2. PICK t \in LockThreads :
          /\ \A u \in LockThreads \ {t} : threads'[u] = threads[u]
          /\ threads'[t].pc = "queued" /\ threads'[t].from = None
    BY <1>4, AskFacts DEF MutexInv
  <2> QED
    BY <1>3, <2>1, <2>2
<1>5. ASSUME NEW t \in LockThreads, Looks(t) PROVE KeysInv'
  <2>1. /\ UNCHANGED <<runtime, paths, registry, backups, command>>
        /\ \A u \in LockThreads \ {t} : threads'[u] = threads[u]
        /\ \/ threads'[t].pc = "idle" /\ threads'[t].from = None
           \/ /\ threads'[t].generation = threads[t].generation
              /\ \/ threads'[t].pc = "generation" /\ threads'[t].from = dbPath
                 \/ /\ threads[t].pc \in {"generation", "profile"}
                    /\ threads'[t].pc \in {"profile", "mutex"}
                    /\ threads'[t].from = threads[t].from
    BY <1>5, LookFacts DEF MutexInv
  <2>2. /\ Now' = Now /\ Targeted' = Targeted /\ Pathed' = Pathed /\ Between' = Between
        /\ Replaced' = Replaced /\ Installing' = Installing /\ Activates' = Activates
        /\ IsOpen' = IsOpen
    BY <2>1 DEF Now, WorkerIdle, Targeted, Activates, Replaces, Pathed, Renewed, Between,
       Replaced, Installing, runtime, IsOpen
  <2>3. FilesKnown'
    BY <2>1, <2>2 DEF KeysInv, FilesKnown, Known, runtime, paths, registry
  <2>4. PathFollows' /\ Settled' /\ BackupKeyMatches'
    BY <2>1, <2>2 DEF KeysInv, PathFollows, Settled, BackupKeyMatches, runtime, paths, backups
  <2>5. IsOpen /\ ~Replaced => (due \/ ~Installing => dek[dbPath] = dek[slot.db])
    <3> SUFFICES ASSUME IsOpen, ~Replaced, due \/ ~Installing PROVE dbPath = slot.db
      OBVIOUS
    <3>1. ~Installing
      BY DEF KeysInv, Settled, Installing
    <3>2. ~Between
      BY <3>1 DEF Between, Replaced, Replaces
    <3> QED
      BY <3>2 DEF KeysInv, PathFollows
  <2>6. KeysFollow'
    BY <2>1, <2>2, <2>5 DEF KeysInv, KeysFollow, SameKey, runtime, paths, registry, backups
  <2> QED
    BY <2>3, <2>4, <2>6 DEF KeysInv
<1>6. ASSUME NEW t \in LockThreads, LockAcquire(t) PROVE KeysInv'
  <2>1. /\ threads[t].pc = "mutex" /\ Free
        /\ UNCHANGED <<slot, paths, registry, backups, command>>
        /\ \A u \in LockThreads \ {t} : threads'[u] = threads[u]
        /\ \/ /\ IsOpen /\ StillCurrent(t) /\ threads'[t].pc = "retire"
              /\ threads'[t].generation = threads[t].generation
              /\ threads'[t].from = threads[t].from
           \/ threads'[t].pc = "idle" /\ threads'[t].from = None
    BY <1>6, AcquireFacts DEF MutexInv
  <2>2. /\ Now' = Now /\ Targeted' = Targeted /\ Pathed' = Pathed /\ Between' = Between
        /\ Replaced' = Replaced /\ Installing' = Installing /\ Activates' = Activates
        /\ IsOpen' = IsOpen
    BY <2>1 DEF Now, WorkerIdle, Targeted, Activates, Replaces, Pathed, Renewed, Between,
       Replaced, Installing, IsOpen
  <2>3. FilesKnown'
    BY <2>1, <2>2 DEF KeysInv, FilesKnown, Known, paths, registry
  <2>4. PathFollows' /\ Settled' /\ BackupKeyMatches'
    BY <2>1, <2>2 DEF KeysInv, PathFollows, Settled, BackupKeyMatches, paths, backups
  <2>5. ~Replaced
    <3>1. ~GuardHeld
      BY <2>1, SessionConstants DEF MutexInv, MutexParts, Holding, Free
    <3> QED
      BY <3>1 DEF GuardHeld, Replaced
  <2>6. IsOpen /\ StillCurrent(t) => SameKey(t)
    BY <2>1, <2>5 DEF KeysInv, KeysFollow, StillCurrent
  <2>7. KeysFollow'
    BY <2>1, <2>2, <2>6 DEF KeysInv, KeysFollow, SameKey, paths, registry, backups
  <2> QED
    BY <2>3, <2>4, <2>7 DEF KeysInv
<1>7. ASSUME NEW t \in LockThreads, LockRetire(t) PROVE KeysInv'
  <2>1. threads[t].pc = "retire" /\ IsOpen /\ holder = t
    BY <1>7 DEF LockRetire, MutexInv, MutexParts, Holding
  <2>2. /\ ~IsOpen' /\ generation' = generation + 1 /\ BackUp(dek[slot.db], threads[t].from)
        /\ UNCHANGED <<dbPath, registry, command>>
        /\ \A u \in LockThreads \ {t} : threads'[u] = threads[u]
        /\ threads'[t].pc = "disarm" /\ threads'[t].from = threads[t].from
    BY <1>7, <2>1, RetireFacts DEF MutexInv
  <2>3. /\ Now' = Now /\ Targeted' = Targeted /\ Pathed' = Pathed /\ Activates' = Activates
    BY <2>2 DEF Now, WorkerIdle, Targeted, Activates, Replaces, Pathed, Renewed
  <2>4. FilesKnown'
    BY <2>2, <2>3 DEF KeysInv, FilesKnown, Known, registry
  <2>5. BackupKeyMatches' /\ (due' => due)
    <3>1. due => dek[threads[t].from] = dek[slot.db]
      BY <2>1 DEF KeysInv, KeysFollow, SameKey
    <3>2. due \in BOOLEAN
      BY DEF MutexInv, Typed, TypeOK
    <3> QED
      BY <2>2, <3>1, <3>2, BackUpSame DEF KeysInv
  <2>6. PathFollows' /\ Settled'
    BY <2>2, <2>3, <2>5 DEF KeysInv, PathFollows, Settled
  <2>7. \A u \in LockThreads \ {t} : threads'[u].pc # "retire"
    BY <2>1, <2>2 DEF MutexInv, MutexParts, Holding
  <2>8. KeysFollow'
    BY <2>2, <2>7 DEF KeysFollow
  <2> QED
    BY <2>4, <2>5, <2>6, <2>8 DEF KeysInv
<1>8. ASSUME NEW t \in LockThreads, LockDisarm(t) PROVE KeysInv'
  <2>1. /\ UNCHANGED <<runtime, paths, registry, backups, command>>
        /\ \A u \in LockThreads \ {t} : threads'[u] = threads[u]
        /\ threads'[t].pc = "idle" /\ threads'[t].from = None
    BY <1>8, DisarmFacts DEF MutexInv
  <2> QED
    BY <1>3, <2>1
<1> QED
  BY <1>1, <1>2, <1>4, <1>5, <1>6, <1>7, <1>8 DEF LockRequest, Locking, LockStep, Looks

\* The clients keep the keys.
LEMMA ClientKeys ==
  ASSUME MutexInv, KeysInv, ClientStep
  PROVE  KeysInv'
<1>1. CASE PhoneProject
  <2>1. /\ UNCHANGED <<runtime, paths, registry, backups, threads>>
        /\ \/ UNCHANGED command
           \/ WorkerIdle /\ Now' = "recheck" /\ command'.name = "project"
    BY <1>1, ProjectStarts DEF MutexInv
  <2>2. WorkerIdle => Now = "idle"
    BY IdleNow
  <2>3. command'.name = "project" => ~Targeted'
    BY DEF Targeted, Activates, Replaces
  <2> QED
    BY <2>1, <2>2, <2>3, FrameKeys DEF runtime, paths, registry, backups
<1>2. CASE PhoneRecheck
  <2>1. /\ Now = "recheck" /\ WorkerIdle' /\ Now' = "idle"
        /\ UNCHANGED <<runtime, paths, registry, backups, threads>>
    BY <1>2, RecheckFacts DEF MutexInv
  <2> QED
    BY <2>1, FrameKeys DEF runtime, paths, registry, backups, Targeted
<1>3. CASE ~(PhoneProject \/ PhoneRecheck)
  <2>1. UNCHANGED <<runtime, paths, registry, backups, command, threads>>
    BY <1>3 DEF ClientStep, RefreshStart, RefreshWrite, RefreshReturn, PhoneAsk, PhoneStamp,
       PhoneDeliver, PhoneEnds
  <2> QED
    BY <2>1, FrameKeys DEF runtime, paths, registry, backups
<1> QED
  BY <1>1, <1>2, <1>3

\* A lock finds its path and the open database under the same data key, or no backup due.
THEOREM KeysInductive == RegistryAndBackupsWork /\ Spec => [](MutexInv /\ KeysInv)
<1> SUFFICES ASSUME RegistryAndBackupsWork PROVE Spec => [](MutexInv /\ KeysInv)
  OBVIOUS
<1>1. Init => KeysInv
  <2> SUFFICES ASSUME Init PROVE KeysInv
    OBVIOUS
  <2>1. WorkerIdle /\ ~IsOpen
    BY DEF Init, WorkerIdle, IsOpen, NoProfileOpen
  <2>2. Now = "idle" /\ ~Pathed /\ ~Targeted
    BY <2>1, IdleNow DEF Pathed, Targeted
  <2>3. \A t \in LockThreads : threads[t].pc = "idle" /\ threads[t].from = None
    BY DEF Init, NoRequest
  <2>4. FilesKnown
    BY <2>1, <2>2, <2>3, SessionConstants DEF Init, FilesKnown, Known
  <2>5. PathFollows /\ Settled /\ KeysFollow /\ BackupKeyMatches
    BY <2>1, <2>2, <2>3 DEF Init, PathFollows, Settled, KeysFollow, BackupKeyMatches
  <2> QED
    BY <2>4, <2>5 DEF KeysInv
<1>2. (MutexInv /\ KeysInv) /\ [Next]_vars => KeysInv'
  <2> SUFFICES ASSUME MutexInv, KeysInv, [Next]_vars PROVE KeysInv'
    OBVIOUS
  <2>1. CASE UserCommand
    BY <2>1, UserKeys
  <2>2. CASE CommandStep
    BY <2>2, CommandKeys
  <2>3. CASE LockRequest \/ Locking
    BY <2>3, LockKeys
  <2>4. CASE ClientStep
    BY <2>4, ClientKeys
  <2>5. CASE UNCHANGED vars
    BY <2>5, FrameKeys DEF vars, runtime, paths, registry, backups
  <2> QED
    BY <2>1, <2>2, <2>3, <2>4, <2>5 DEF Next
<1> QED
  BY <1>1, <1>2, MutexInductive, PTL DEF Spec

\* An encrypted backup lies beside the key file that opens it, also when a lock takes its
\* final backup while a command is changing the database: as long as neither the registry
\* write after a swap nor a due backup fails.
THEOREM FinalBackupOpens == RegistryAndBackupsWork /\ Spec => []BackupKeyMatches
<1>1. KeysInv => BackupKeyMatches
  BY DEF KeysInv
<1> QED
  BY <1>1, KeysInductive, PTL

-----------------------------------------------------------------------------
(* The registry and the timer, when every change of database is carried through *)

ChangesComplete == Faults \cap {"registry", "open"} = {}

\* An entry that names a database of its own profile is found by it.
LEMMA OwnEntry ==
  ASSUME listed \subseteq Profiles, \A p \in Profiles : file[p][1] = p,
         NEW path \in Paths, file[path[1]] = path, path[1] \in listed \cup {Default}
  PROVE  ProfileOf(path) = path[1]
<1>1. \A p \in listed : file[p] = path => p = path[1]
  OBVIOUS
<1> QED
  BY <1>1 DEF ProfileOf

\* Between commands, and when the timer is armed, the path, the slot and the registry agree.
LEMMA OpenNamed ==
  ASSUME MutexInv, TimerInv, IsOpen,
         Resting \/ (~WorkerIdle /\ (command.name = "settings" \/ Now = "arm"))
  PROVE  /\ slot.db = dbPath /\ slot.profile = dbPath[1] /\ file[slot.profile] = dbPath
         /\ slot.profile \in listed /\ ProfileOf(dbPath) = slot.profile
<1>1. slot.profile = slot.db[1] /\ slot.db \in Paths /\ listed \subseteq Profiles
  BY SlotFacts DEF MutexInv, Typed, TypeOK
<1>2. slot.db = dbPath
  <2>1. ~Between
    BY DEF Resting, Between, Installing, Activates, Replaces
  <2> QED
    BY <2>1 DEF TimerInv, PathFollows
<1>3. slot.profile \in listed /\ \A p \in Profiles : file[p][1] = p
  BY DEF TimerInv, Registered
<1>4. file[dbPath[1]] = dbPath
  <2>1. CASE Resting \/ command.name = "settings"
    BY <2>1 DEF TimerInv, Registered
  <2>2. CASE Now = "arm" /\ ~WorkerIdle /\ command.name # "settings"
    <3>1. Activates \/ Replaces
      BY <2>2, CommandOf DEF MutexInv, Typed
    <3>2. Targeted /\ Pathed /\ ~Unregistered
      BY <2>2, <3>1 DEF Targeted, Pathed, Renewed, Unregistered
    <3> QED
      BY <3>2 DEF TimerInv, Registered, PathFollows
  <2> QED
    BY <2>1, <2>2
<1> QED
  BY <1>1, <1>2, <1>3, <1>4, OwnEntry

\* The session, the registry and the requests are what they were.
LEMMA FrameTimer ==
  ASSUME TimerInv, UNCHANGED <<slot, dbPath, generation, file, listed, dek, timer, threads>>,
         \/ UNCHANGED command
         \/ Resting /\ Resting' /\ ~Targeted'
  PROVE  TimerInv'
<1>1. IsOpen' = IsOpen
  BY DEF IsOpen
<1>2. CASE UNCHANGED command
  <2>1. /\ Now' = Now /\ Targeted' = Targeted /\ Pathed' = Pathed /\ Between' = Between
        /\ Replaced' = Replaced /\ Unregistered' = Unregistered /\ Resting' = Resting
    BY <1>2 DEF Now, WorkerIdle, Targeted, Activates, Replaces, Pathed, Renewed, Between,
       Replaced, Installing, Unregistered, Resting
  <2>2. PathFollows' /\ Registered'
    BY <1>1, <1>2, <2>1 DEF TimerInv, PathFollows, Registered
  <2>3. RequestsMatch'
    BY <1>1, <1>2, <2>1 DEF TimerInv, RequestsMatch
  <2>4. Armed'
    BY <1>1, <1>2, <2>1 DEF TimerInv, Armed, Encrypted
  <2> QED
    BY <2>2, <2>3, <2>4 DEF TimerInv
<1>3. CASE Resting /\ Resting' /\ ~Targeted'
  <2>1. ~Pathed' /\ ~Between' /\ ~Replaced' /\ ~Between /\ ~Replaced
        /\ Now # "generation" /\ Now' # "generation"
    BY <1>3 DEF Resting, Pathed, Renewed, Between, Replaced, Installing
  <2>2. PathFollows' /\ Registered'
    BY <1>1, <1>3, <2>1 DEF TimerInv, PathFollows, Registered
  <2>3. RequestsMatch'
    BY <1>1, <1>3, <2>1 DEF TimerInv, RequestsMatch
  <2>4. Armed'
    BY <1>1, <1>3, <2>1 DEF TimerInv, Armed, Encrypted
  <2> QED
    BY <2>2, <2>3, <2>4 DEF TimerInv
<1> QED
  BY <1>2, <1>3

\* A command that starts names the database its profile's entry has, or will have.
LEMMA StartTimer ==
  ASSUME MutexInv, TimerInv, WorkerIdle, ~WorkerIdle',
         UNCHANGED <<slot, dbPath, generation, file, timer>>, listed \subseteq listed',
         \/ Now' \in {"settle", "commit", "replace"} /\ Targeted' /\ UNCHANGED threads
         \/ /\ Now' = "armCheck" /\ command'.name = "settings" /\ UNCHANGED <<listed, threads>>
            /\ ~Targeted'
         \/ /\ Now' = "lock" /\ ~Targeted' /\ UNCHANGED <<listed, dek>>
            /\ threads["worker"].pc = "idle" /\ threads'["worker"].pc = "queued"
            /\ threads'["worker"].profile = ProfileOf(dbPath)
            /\ \A t \in LockThreads \ {"worker"} : threads'[t] = threads[t],
         Now' = "settle" => command'.name # "switch",
         Now' \in {"settle", "commit", "replace"} => command'.name # "settings",
         Targeted' =>
           /\ command'.path[1] \in listed'
           /\ file[command'.path[1]] = IF Unregistered' THEN command'.from ELSE command'.path
  PROVE  TimerInv'
<1>1. IsOpen' = IsOpen /\ Now = "idle"
  BY IdleNow DEF IsOpen
<1>2. /\ ~Pathed' /\ ~Between' /\ ~Replaced' /\ ~Between /\ ~Replaced
      /\ Now # "generation" /\ Now' # "generation" /\ Resting
  BY <1>1 DEF Resting, Pathed, Renewed, Between, Replaced, Installing
<1>3. PathFollows'
  BY <1>1, <1>2 DEF TimerInv, PathFollows
<1>4. Registered'
  <2>1. /\ \A p \in Profiles : file[p][1] = p
        /\ IsOpen => slot.profile \in listed
        /\ file[dbPath[1]] = dbPath /\ dbPath[1] \in listed \cup {Default}
    BY <1>2 DEF TimerInv, Registered
  <2>2. Resting' \/ command'.name = "settings" => UNCHANGED listed
    BY DEF Resting
  <2> QED
    BY <1>1, <2>1, <2>2 DEF Registered
<1>5. RequestsMatch'
  <2>1. IsOpen => ProfileOf(dbPath) = slot.profile
    BY <1>2, OpenNamed
  <2>2. \A t \in LockThreads :
          \/ threads'[t] = threads[t]
          \/ threads'[t].pc = "queued" /\ threads'[t].profile = ProfileOf(dbPath)
    OBVIOUS
  <2> QED
    BY <1>1, <1>2, <2>1, <2>2 DEF TimerInv, RequestsMatch
<1>6. Armed'
  <2> SUFFICES ASSUME Resting', IsOpen', Encrypted(slot.db)' PROVE Armed'
    BY DEF Armed
  <2>1. Now' = "lock"
    BY DEF Resting
  <2>2. Encrypted(slot.db)
    BY <2>1 DEF Encrypted
  <2>3. CASE timer = [profile |-> slot.profile, generation |-> generation]
    BY <2>3 DEF Armed
  <2>4. CASE timer # [profile |-> slot.profile, generation |-> generation]
    <3>1. PICK t \in LockThreads :
            /\ threads[t].pc # "idle"
            /\ threads[t].profile = slot.profile /\ threads[t].generation = generation
      BY <1>1, <1>2, <2>2, <2>4 DEF TimerInv, Armed
    <3>2. threads'[t] = threads[t]
      BY <2>1, <3>1
    <3> QED
      BY <3>1, <3>2 DEF Armed
  <2> QED
    BY <2>3, <2>4
<1> QED
  BY <1>3, <1>4, <1>5, <1>6 DEF TimerInv

\* A command that starts keeps the registry and the requests.
LEMMA UserTimer ==
  ASSUME MutexInv, TimerInv, UserCommand
  PROVE  TimerInv'
<1>0. /\ \A p \in Profiles : file[p][1] = p /\ file[p] \in Paths
      /\ listed \subseteq Profiles
  BY DEF MutexInv, Typed, TypeOK, TimerInv, Registered
<1>1. ASSUME NEW p \in Profiles, Select(p) \/ Unlock(p) PROVE TimerInv'
  <2>1. /\ Typed' /\ WorkerIdle /\ ~WorkerIdle' /\ Now' = "settle"
        /\ command'.name \in {"select", "unlock"} /\ command'.path = file[p] /\ p \in listed
        /\ UNCHANGED <<runtime, paths, timer, registry, threads>>
    BY <1>1, SelectStarts DEF MutexInv
  <2>2. Targeted' /\ ~Unregistered'
    BY <2>1 DEF Targeted, Activates, Unregistered
  <2> QED
    BY <1>0, <2>1, <2>2, StartTimer DEF runtime, paths, registry
<1>2. CASE Enable \/ RemoveProtection \/ ChangePassword \/ Relocate \/ Restore
  <2>1. /\ Typed' /\ WorkerIdle /\ ~WorkerIdle' /\ IsOpen
        /\ \/ command'.name \in {"convert", "password"} /\ Now' = "commit"
           \/ command'.name \in {"relocate", "restore"} /\ Now' = "replace"
        /\ command'.from = dbPath /\ command'.path[1] = slot.profile
        /\ UNCHANGED <<slot, paths, timer, listed, file, threads>>
    BY <1>2, ChangeStarts DEF MutexInv
  <2>2. Targeted' /\ Unregistered'
    BY <2>1 DEF Targeted, Activates, Replaces, Unregistered
  <2>3. Resting
    BY <2>1, IdleNow DEF Resting
  <2>4. slot.profile \in listed /\ file[slot.profile] = dbPath
    BY <2>1, <2>3, OpenNamed
  <2> QED
    BY <2>1, <2>2, <2>4, StartTimer DEF paths
<1>3. ASSUME NEW p \in Profiles, Switch(p) PROVE TimerInv'
  <2>1. /\ Typed' /\ WorkerIdle /\ ~WorkerIdle' /\ Now' = "replace" /\ command'.name = "switch"
        /\ command'.path = file[p] /\ listed' = listed \cup {p}
        /\ UNCHANGED <<slot, paths, timer, file, threads>>
    BY <1>3, SwitchStarts DEF MutexInv
  <2>2. Targeted' /\ ~Unregistered'
    BY <2>1 DEF Targeted, Replaces, Unregistered
  <2> QED
    BY <1>0, <2>1, <2>2, StartTimer DEF paths
<1>4. CASE SetAutoLock
  <2>1. /\ Typed' /\ WorkerIdle /\ ~WorkerIdle' /\ Now' = "armCheck" /\ command'.name = "settings"
        /\ UNCHANGED <<runtime, paths, timer, registry, threads>>
    BY <1>4, SettingsStarts DEF MutexInv
  <2>2. ~Targeted'
    BY <2>1 DEF Targeted, Activates, Replaces
  <2> QED
    BY <2>1, <2>2, StartTimer DEF runtime, paths, registry
<1>5. ASSUME NEW p \in Profiles, SelectProtected(p) \/ ShowSelector PROVE TimerInv'
  <2>1. /\ WorkerIdle /\ Free /\ slot' \in {Locked(p), NoProfileOpen}
        /\ UNCHANGED <<paths, timer, registry, command, threads>>
    BY <1>5 DEF SelectProtected, ShowSelector
  <2>2. ~IsOpen' /\ \A t \in LockThreads : threads[t].pc # "retire"
    BY <2>1, NobodyRetires DEF IsOpen, Locked, NoProfileOpen
  <2>3. Now' = "idle" /\ Now = "idle" /\ Targeted' = Targeted /\ ~Targeted
    BY <2>1 DEF Now, WorkerIdle, Targeted, Activates, Replaces
  <2>4. ~Pathed' /\ Resting
    BY <2>3 DEF Pathed, Renewed, Resting
  <2>5. PathFollows' /\ Armed'
    BY <2>2, <2>4 DEF PathFollows, Armed
  <2>6. Registered'
    BY <2>1, <2>2, <2>3, <2>4 DEF TimerInv, Registered, paths, registry
  <2>7. RequestsMatch'
    BY <2>1, <2>2, <2>3 DEF TimerInv, RequestsMatch, paths
  <2> QED
    BY <2>5, <2>6, <2>7 DEF TimerInv
<1>6. CASE TakeNotice \/ DayPasses
  <2>1. UNCHANGED <<slot, paths, registry, timer, command, threads>>
    BY <1>6 DEF TakeNotice, DayPasses, runtime
  <2> QED
    BY <2>1, FrameTimer DEF paths, registry
<1>7. Default \in Profiles
  BY SessionConstants
<1> QED
  BY <1>1, <1>2, <1>3, <1>4, <1>5, <1>6, <1>7 DEF UserCommand

\* A command gives the entry of its own profile its database, and leaves the others alone.
LEMMA EntryMoves ==
  ASSUME Typed, TimerInv, Targeted, Unregistered,
         \/ file' = [file EXCEPT ![ProfileOf(command.from)] = command.path]
         \/ file' = Moved
  PROVE  file' = [file EXCEPT ![command.path[1]] = command.path]
<1> DEFINE p == command.path[1]
<1>1. /\ p \in listed /\ p \in Profiles /\ file[p] = command.from /\ command.from \in Paths
      /\ command.from[1] = p /\ listed \subseteq Profiles /\ file \in [Profiles -> Paths]
      /\ \A q \in Profiles : file[q][1] = q
  BY DEF Typed, TypeOK, TimerInv, Registered, Program, Targeted
<1>2. ProfileOf(command.from) = p
  BY <1>1, OwnEntry
<1>3. \A q \in Profiles : q \in listed /\ file[q] = command.from <=> q = p
  BY <1>1
<1>4. Moved = [q \in Profiles |-> IF q = p THEN command.path ELSE file[q]]
  BY <1>3 DEF Moved
<1> QED
  BY <1>1, <1>2, <1>4

\* How the registry's window follows a command.
LEMMA GoingRegistered ==
  ASSUME Program, Program', ~WorkerIdle, Now \in Steps,
         \/ command' = Idle /\ Now' = "idle"
         \/ /\ ~WorkerIdle' /\ <<Now, Now'>> \in Order(command.name) /\ Now' \in Steps
            /\ command'.name = command.name /\ command'.path = command.path
  PROVE  /\ Unregistered' => Unregistered /\ Now \notin {"commit", "registry"}
         /\ Unregistered /\ Now \notin {"commit", "registry"} /\ ~WorkerIdle' => Unregistered'
         /\ Now \in {"commit", "registry"} => Unregistered
         /\ Now = "path" /\ ~WorkerIdle' => Now' = "generation"
         /\ Now' = "generation" => Now = "path"
         /\ Now = "replace" /\ ~WorkerIdle' => Replaced'
         /\ Resting' => WorkerIdle'
         /\ ~WorkerIdle' => command'.name = command.name
<1>1. CASE WorkerIdle'
  <2>1. Now' = "idle" /\ command' = Idle
    BY <1>1 DEF WorkerIdle
  <2> QED
    BY <1>1, <2>1, CommandOf DEF Unregistered, Resting, Idle, Replaces
<1>2. CASE ~WorkerIdle'
  <2>1. command.name \in Names
    BY DEF Program
  <2>2. /\ <<Now, Now'>> \in Order(command.name)
        /\ command'.name = command.name /\ command'.path = command.path
    BY <1>2 DEF WorkerIdle
  <2>3. CASE command.name \in {"select", "unlock", "convert", "password"}
    BY <1>2, <2>2, <2>3, CommandOf DEF Order, Unregistered, Replaced, Replaces, Resting
  <2>4. CASE command.name \in {"relocate", "restore"}
    BY <1>2, <2>2, <2>4 DEF Order, Unregistered, Replaced, Replaces, Resting
  <2>5. CASE command.name \in {"switch", "settings", "lock", "project"}
    BY <1>2, <2>2, <2>5, CommandOf DEF Order, Unregistered, Replaced, Replaces, Resting
  <2> QED
    BY <2>1, <2>3, <2>4, <2>5 DEF Names
<1> QED
  BY <1>1, <1>2

\* The steps of a command keep the registry and the requests, and leave the timer armed.
LEMMA CommandTimer ==
  ASSUME ChangesComplete, MutexInv, TimerInv, CommandStep
  PROVE  TimerInv'
<1>0. Typed /\ "registry" \notin Faults /\ "open" \notin Faults
  BY DEF MutexInv, ChangesComplete
<1>1. /\ Program /\ Program' /\ ~WorkerIdle /\ Now \in Steps \ {"lock", "recheck"}
      /\ UNCHANGED <<dek, listed, threads>>
      /\ \/ command' = Idle /\ Now' = "idle"
         \/ /\ ~WorkerIdle' /\ <<Now, Now'>> \in Order(command.name) /\ Now' \in Steps
            /\ command'.name = command.name /\ command'.from = command.from
            /\ command'.path = command.path
  BY <1>0, CommandFacts
<1>2. WorkerIdle' => Now \in {"arm", "release", "lock", "recheck", "armCheck", "open"}
  BY <1>0, CommandFacts
<1>3. /\ dbPath' # dbPath => Now = "path"
      /\ slot' # slot => Now \in {"install", "replace"}
      /\ generation' # generation => Now = "generation"
      /\ file' # file => Now \in {"commit", "registry"}
      /\ timer' # timer => Now \in {"armCheck", "arm"}
      /\ Now \in {"install", "replace"} => slot' = Open(command.path)
      /\ Now = "install" => Free
      /\ Now = "generation" => generation' = generation + 1
      /\ Now = "commit" =>
           file' \in {[file EXCEPT ![ProfileOf(command.from)] = command.path], Moved}
      /\ Now = "registry" => file' = Moved
  BY <1>0, CommandFacts
<1>4. /\ Now = "armCheck" /\ IsOpen => ~WorkerIdle' /\ timer' = timer
      /\ Now = "arm" =>
           timer' = IF ProfileOf(dbPath) \in listed /\ Encrypted(file[ProfileOf(dbPath)])
                    THEN [profile |-> ProfileOf(dbPath), generation |-> generation]
                    ELSE None
      /\ WorkerIdle' => Now = LastStep \/ (Now = "armCheck" /\ ~IsOpen)
  BY <1>0, CommandFacts
<1>5. /\ Targeted' => Targeted /\ command'.path = command.path
      /\ Replaced => Replaced' \/ Renewed \/ Now = "generation"
  BY <1>1, <1>2, GoingBetween
<1>6. /\ Unregistered' => Unregistered /\ Now \notin {"commit", "registry"}
      /\ Unregistered /\ Now \notin {"commit", "registry"} /\ ~WorkerIdle' => Unregistered'
      /\ Now \in {"commit", "registry"} => Unregistered
      /\ Now = "path" /\ ~WorkerIdle' => Now' = "generation"
      /\ Now' = "generation" => Now = "path"
      /\ Now = "replace" /\ ~WorkerIdle' => Replaced'
      /\ Resting' => WorkerIdle'
      /\ ~WorkerIdle' => command'.name = command.name
  BY <1>1, GoingRegistered
<1>7. Now \in {"settle", "path", "install", "replace", "commit", "registry"} => Targeted
  BY <1>0, CommandFacts
<1>8. PathFollows'
  BY <1>0, CommandPaths DEF TimerInv
<1>9. Targeted => command.path \in Paths /\ command.path[1] \in listed
  BY <1>0, <1>1 DEF Typed, Program, TimerInv, Registered
<1>10. Registered'
  <2>1. Now \in {"commit", "registry"} => file' = [file EXCEPT ![command.path[1]] = command.path]
    BY <1>0, <1>3, <1>6, <1>7, EntryMoves
  <2>2. file \in [Profiles -> Paths] /\ listed \subseteq Profiles
    BY <1>0 DEF Typed, TypeOK
  <2>3. \A p \in Profiles : file'[p][1] = p
    BY <1>3, <1>7, <1>9, <2>1, <2>2 DEF TimerInv, Registered
  <2>4. IsOpen' => slot'.profile \in listed'
    BY <1>1, <1>3, <1>7, <1>9 DEF TimerInv, Registered, IsOpen, Open
  <2>5. Targeted' => command'.path[1] \in listed'
    BY <1>1, <1>5 DEF TimerInv, Registered
  <2>6. ASSUME Targeted'
        PROVE  file'[command'.path[1]] = IF Unregistered' THEN command'.from ELSE command'.path
    <3>1. /\ Targeted /\ ~WorkerIdle' /\ command'.path = command.path
          /\ command'.from = command.from
      BY <1>1, <1>5, <2>6 DEF Targeted, WorkerIdle
    <3>2. CASE Now \in {"commit", "registry"}
      BY <1>6, <1>9, <2>1, <2>2, <3>1, <3>2
    <3>3. CASE Now \notin {"commit", "registry"}
      <4>1. file' = file /\ (Unregistered' <=> Unregistered)
        BY <1>3, <1>6, <3>1, <3>3
      <4> QED
        BY <3>1, <4>1 DEF TimerInv, Registered
    <3> QED
      BY <3>2, <3>3
  <2>7. ASSUME Resting' \/ command'.name = "settings"
        PROVE  file'[dbPath'[1]] = dbPath' /\ dbPath'[1] \in listed' \cup {Default}
    <3>1. CASE command.name = "settings"
      <4>1. ~Targeted
        BY <3>1 DEF Targeted, Activates, Replaces
      <4> QED
        BY <1>1, <1>3, <1>7, <3>1, <4>1 DEF TimerInv, Registered
    <3>2. CASE command.name # "settings"
      <4>1. WorkerIdle'
        BY <1>6, <2>7, <3>2
      <4>2. Now \in {"arm", "release", "armCheck"}
        <5>1. LastStep \in {"arm", "release", "lock", "recheck"}
          BY DEF LastStep
        <5> QED
          BY <1>1, <1>4, <4>1, <5>1
      <4>3. Targeted /\ Pathed /\ ~Unregistered
        BY <1>1, <3>2, <4>2, CommandOf DEF Targeted, Pathed, Renewed, Unregistered
      <4> QED
        BY <1>1, <1>3, <1>9, <4>2, <4>3 DEF TimerInv, Registered, PathFollows
    <3> QED
      BY <3>1, <3>2
  <2> QED
    BY <2>3, <2>4, <2>5, <2>6, <2>7 DEF Registered
<1>11. timer # None => timer.generation \in Nat
  BY <1>0 DEF Typed, TypeOK, Timer
<1>12. ASSUME NEW g \in Nat, g <= generation, Renewed => g < generation, g = generation',
              IsOpen', ~Replaced'
       PROVE  /\ g = generation /\ IsOpen /\ ~Replaced /\ slot' = slot
              /\ Now \notin {"generation", "install", "replace"}
  <2>1. generation \in Nat
    BY <1>0 DEF Typed, TypeOK
  <2>2. generation' = generation /\ ~Renewed /\ Now # "generation"
    BY <1>3, <1>12, <2>1
  <2>3. ~Replaced /\ Now # "replace"
    BY <1>1, <1>2, <1>5, <1>6, <1>12, <2>2
  <2>4. Now # "install"
    BY <1>1, <2>2, CommandOf DEF Renewed, Activates
  <2> QED
    BY <1>3, <1>12, <2>2, <2>3, <2>4 DEF IsOpen
<1>13. RequestsMatch'
  <2>1. ASSUME timer' # None, timer'.generation = generation', IsOpen', ~Replaced'
        PROVE  timer'.profile = slot'.profile
    <3>1. CASE Now = "arm"
      <4>1. slot' = slot /\ IsOpen
        BY <1>3, <2>1, <3>1 DEF IsOpen
      <4>2. ProfileOf(dbPath) = slot.profile
        BY <1>1, <3>1, <4>1, OpenNamed
      <4>3. timer' = [profile |-> ProfileOf(dbPath), generation |-> generation]
        BY <1>4, <2>1, <3>1
      <4> QED
        BY <4>1, <4>2, <4>3
    <3>2. CASE Now # "arm"
      <4>1. timer' = timer
        <5>1. Now = "armCheck" => slot' = slot
          BY <1>3
        <5> QED
          BY <1>3, <1>4, <2>1, <3>2, <5>1 DEF IsOpen
      <4>2. timer.generation <= generation /\ (Renewed => timer.generation < generation)
        BY <2>1, <4>1 DEF MutexInv, MutexParts, Dated, Older
      <4>3. timer.generation = generation /\ IsOpen /\ ~Replaced /\ slot' = slot
        BY <1>11, <1>12, <2>1, <4>1, <4>2
      <4> QED
        BY <2>1, <4>1, <4>3 DEF TimerInv, RequestsMatch
    <3> QED
      BY <3>1, <3>2
  <2>2. ASSUME NEW t \in LockThreads, threads[t].pc # "idle", threads[t].generation = generation',
               IsOpen', ~Replaced'
        PROVE  threads[t].profile = slot'.profile
    <3>1. /\ threads[t].generation \in Nat /\ threads[t].generation <= generation
          /\ Renewed => threads[t].generation < generation
      BY <1>0, <2>2 DEF Typed, RequestsMade, Requests, MutexInv, MutexParts, Dated, Older
    <3>2. threads[t].generation = generation /\ IsOpen /\ ~Replaced /\ slot' = slot
      BY <1>12, <2>2, <3>1
    <3> QED
      BY <2>2, <3>2 DEF TimerInv, RequestsMatch
  <2>3. ASSUME NEW t \in LockThreads, threads[t].pc = "retire"
        PROVE  threads[t].profile = slot'.profile
    <3>1. ~Free /\ ~GuardHeld
      BY <2>3, NobodyRetires
    <3>2. slot' = slot
      BY <1>1, <1>3, <3>1, CommandOf DEF GuardHeld
    <3> QED
      BY <2>3, <3>2 DEF TimerInv, RequestsMatch
  <2>4. ASSUME NEW t \in LockThreads, threads[t].pc = "mutex",
               threads[t].generation = generation', Now' # "generation"
        PROVE  threads[t].path = dbPath'
    <3>1. /\ threads[t].generation \in Nat /\ generation \in Nat
          /\ threads[t].generation <= generation
      BY <1>0, <2>4 DEF Typed, TypeOK, RequestsMade, Requests, MutexInv, MutexParts, Dated, Older
    <3>2. generation' = generation /\ Now # "generation"
      BY <1>3, <2>4, <3>1
    <3>3. Now # "path"
      BY <1>2, <1>6, <2>4
    <3> QED
      BY <1>3, <2>4, <3>2, <3>3 DEF TimerInv, RequestsMatch
  <2> QED
    BY <1>1, <2>1, <2>2, <2>3, <2>4 DEF RequestsMatch
<1>14. Armed'
  <2> SUFFICES ASSUME Resting', IsOpen', Encrypted(slot.db)'
               PROVE  timer' = [profile |-> slot'.profile, generation |-> generation']
    BY DEF Armed
  <2>1. WorkerIdle' /\ Now \in {"arm", "release", "armCheck", "open"}
    BY <1>1, <1>2, <1>6
  <2>2. UNCHANGED <<slot, dbPath, generation>> /\ IsOpen /\ Encrypted(slot.db)
    BY <1>1, <1>3, <2>1 DEF IsOpen, Encrypted
  <2>3. Now = LastStep
    BY <1>4, <2>1, <2>2
  <2>4. Now # "release"
    <3> SUFFICES ASSUME Now = "release" PROVE FALSE
      OBVIOUS
    <3>1. command.name = "switch" /\ ~Encrypted(command.path)
      BY <2>3 DEF LastStep
    <3>2. slot = Open(command.path)
      BY <3>1 DEF Placed, Replaces, MutexInv, MutexParts, InPlace
    <3> QED
      BY <2>2, <3>1, <3>2 DEF Open
  <2>5. Now = "arm"
    BY <2>1, <2>3, <2>4 DEF LastStep
  <2>6. /\ slot.db = dbPath /\ file[slot.profile] = dbPath
        /\ slot.profile \in listed /\ ProfileOf(dbPath) = slot.profile
    BY <1>1, <2>2, <2>5, OpenNamed
  <2> QED
    BY <1>4, <2>2, <2>5, <2>6 DEF Encrypted
<1> QED
  BY <1>8, <1>10, <1>13, <1>14 DEF TimerInv

\* A lock asked for takes the session it was asked for, or none.
LEMMA LockTimer ==
  ASSUME MutexInv, TimerInv, LockRequest \/ Locking
  PROVE  TimerInv'
<1>1. CASE LockNow
  <2>1. /\ Typed' /\ WorkerIdle /\ ~WorkerIdle' /\ Now' = "lock" /\ command'.name = "lock"
        /\ \A t \in LockThreads \ {"worker"} : threads'[t] = threads[t]
        /\ threads'["worker"].pc = "queued" /\ threads'["worker"].profile = ProfileOf(dbPath)
        /\ UNCHANGED <<runtime, paths, timer, registry>>
    BY <1>1, LockStarts DEF MutexInv
  <2>2. ~Targeted'
    BY <2>1 DEF Targeted, Activates, Replaces
  <2>3. threads["worker"].pc = "idle"
    BY <2>1, IdleNow DEF MutexInv, MutexParts, Holding
  <2> QED
    BY <2>1, <2>2, <2>3, StartTimer DEF runtime, paths, registry
<1>2. CASE LockNowReturns
  <2>1. /\ Now = "lock" /\ WorkerIdle' /\ Now' = "idle"
        /\ UNCHANGED <<runtime, paths, timer, registry, threads>>
    BY <1>2, LockReturnFacts DEF MutexInv
  <2> QED
    BY <2>1, FrameTimer DEF runtime, paths, registry, Targeted, Resting
<1>3. ASSUME UNCHANGED <<slot, dbPath, generation, file, listed, dek, command>>
      PROVE  /\ IsOpen' = IsOpen /\ Replaced' = Replaced /\ Resting' = Resting /\ Now' = Now
             /\ PathFollows' /\ Registered' /\ (Encrypted(slot.db))' = Encrypted(slot.db)
  <2>1. /\ Now' = Now /\ Targeted' = Targeted /\ Pathed' = Pathed /\ Between' = Between
        /\ Replaced' = Replaced /\ Unregistered' = Unregistered /\ Resting' = Resting
        /\ IsOpen' = IsOpen
    BY <1>3 DEF Now, WorkerIdle, Targeted, Activates, Replaces, Pathed, Renewed, Between,
       Replaced, Installing, Unregistered, Resting, IsOpen
  <2> QED
    BY <1>3, <2>1 DEF TimerInv, PathFollows, Registered, Encrypted
<1>4. CASE TimerFires \/ NativeEvent
  <2>1. /\ UNCHANGED <<slot, dbPath, generation, file, listed, dek, command>>
        /\ timer \in Timer /\ timer' \in {timer, None}
    BY <1>4, AskFacts DEF MutexInv, runtime, paths, registry
  <2>2. PICK t \in LockThreads :
          /\ threads[t].pc = "idle"
          /\ \A u \in LockThreads \ {t} : threads'[u] = threads[u]
          /\ threads'[t].pc = "queued" /\ threads'[t].profile = timer.profile
          /\ threads'[t].generation = timer.generation
    BY <1>4, AskFacts DEF MutexInv
  <2>3. timer # None
    BY <1>4 DEF TimerFires, NativeEvent
  <2>4. RequestsMatch'
    BY <1>3, <2>1, <2>2, <2>3 DEF TimerInv, RequestsMatch
  <2>5. Armed'
    <3> SUFFICES ASSUME Resting, IsOpen, Encrypted(slot.db)
                 PROVE  \E u \in LockThreads :
                          /\ threads'[u].pc # "idle"
                          /\ threads'[u].profile = slot.profile
                          /\ threads'[u].generation = generation
      BY <1>3, <2>1 DEF Armed
    <3>1. CASE timer = [profile |-> slot.profile, generation |-> generation]
      BY <2>2, <3>1
    <3>2. CASE timer # [profile |-> slot.profile, generation |-> generation]
      <4>1. PICK u \in LockThreads :
              /\ threads[u].pc # "idle"
              /\ threads[u].profile = slot.profile /\ threads[u].generation = generation
        BY <3>2 DEF TimerInv, Armed
      <4> QED
        BY <2>2, <4>1
    <3> QED
      BY <3>1, <3>2
  <2> QED
    BY <1>3, <2>1, <2>4, <2>5 DEF TimerInv
\* A thread that does not give up a request of the open session keeps the timer's promise.
<1>5. ASSUME NEW t \in LockThreads,
             UNCHANGED <<slot, dbPath, generation, file, listed, dek, command>>,
             \A u \in LockThreads \ {t} : threads'[u] = threads[u], threads[t].pc # "idle",
             timer' = timer
             \/ (timer'= None /\ timer # [profile |-> slot.profile, generation |-> generation]),
             \/ /\ threads'[t].pc # "idle" /\ threads'[t].profile = threads[t].profile
                /\ threads'[t].generation = threads[t].generation
             \/ /\ threads'[t].pc = "idle"
                /\ Resting /\ IsOpen =>
                     threads[t].profile # slot.profile \/ threads[t].generation # generation
      PROVE  Armed'
  <2> SUFFICES ASSUME Resting, IsOpen, Encrypted(slot.db) PROVE Armed'
    BY <1>3, <1>5 DEF Armed
  <2>1. CASE timer = [profile |-> slot.profile, generation |-> generation]
    BY <1>5, <2>1 DEF Armed
  <2>2. CASE timer # [profile |-> slot.profile, generation |-> generation]
    <3>1. PICK u \in LockThreads :
            /\ threads[u].pc # "idle"
            /\ threads[u].profile = slot.profile /\ threads[u].generation = generation
      BY <2>2 DEF TimerInv, Armed
    <3>2. threads'[u].pc # "idle" /\ threads'[u].profile = slot.profile
          /\ threads'[u].generation = generation
      BY <1>5, <3>1
    <3> QED
      BY <1>5, <3>1, <3>2 DEF Armed
  <2> QED
    BY <2>1, <2>2
<1>6. ASSUME NEW t \in LockThreads, Looks(t) PROVE TimerInv'
  <2>1. /\ UNCHANGED <<slot, dbPath, generation, file, listed, dek, command, timer>>
        /\ \A u \in LockThreads \ {t} : threads'[u] = threads[u]
        /\ \/ threads'[t].pc = "idle"
           \/ /\ threads'[t].profile = threads[t].profile
              /\ threads'[t].generation = threads[t].generation
              /\ threads[t].pc # "idle"
              /\ threads'[t].pc \in {"generation", "profile", "mutex"}
              /\ threads'[t].pc = "mutex" => threads'[t].path = dbPath
        /\ threads'[t].pc = "idle" =>
             threads[t].generation # generation \/ ProfileOf(dbPath) # threads[t].profile
    BY <1>6, LookFacts DEF MutexInv, runtime, paths, registry
  <2>2. threads[t].pc # "idle"
    BY <1>6 DEF Looks, LockReadPath, LockCheckGeneration, LockCheckProfile
  <2>3. RequestsMatch'
    BY <1>3, <2>1, <2>2 DEF TimerInv, RequestsMatch
  <2>4. Resting /\ IsOpen => ProfileOf(dbPath) = slot.profile
    BY OpenNamed
  <2>5. Armed'
    BY <1>5, <2>1, <2>2, <2>4
  <2> QED
    BY <1>3, <2>1, <2>3, <2>5 DEF TimerInv
<1>7. ASSUME NEW t \in LockThreads, LockAcquire(t) PROVE TimerInv'
  <2>1. /\ threads[t].pc = "mutex" /\ Free
        /\ UNCHANGED <<slot, dbPath, generation, file, listed, dek, command, timer>>
        /\ \A u \in LockThreads \ {t} : threads'[u] = threads[u]
        /\ \/ /\ IsOpen /\ StillCurrent(t) /\ threads'[t].pc = "retire"
              /\ threads'[t].profile = threads[t].profile
              /\ threads'[t].generation = threads[t].generation
           \/ ~(IsOpen /\ StillCurrent(t)) /\ threads'[t].pc = "idle"
    BY <1>7, AcquireFacts DEF MutexInv, paths, registry
  <2>2. ~Replaced
    <3>1. ~GuardHeld
      BY <2>1, SessionConstants DEF MutexInv, MutexParts, Holding, Free
    <3> QED
      BY <3>1 DEF GuardHeld, Replaced
  <2>3. IsOpen /\ StillCurrent(t) => threads[t].profile = slot.profile
    BY <2>1, <2>2 DEF StillCurrent, TimerInv, RequestsMatch
  <2>4. RequestsMatch'
    BY <1>3, <2>1, <2>3 DEF TimerInv, RequestsMatch
  <2>5. Resting /\ IsOpen /\ threads[t].generation = generation => StillCurrent(t)
    BY <2>1 DEF Resting, StillCurrent, TimerInv, RequestsMatch
  <2>6. Armed'
    BY <1>5, <2>1, <2>5
  <2> QED
    BY <1>3, <2>1, <2>4, <2>6 DEF TimerInv
<1>8. ASSUME NEW t \in LockThreads, LockRetire(t) PROVE TimerInv'
  <2>1. threads[t].pc = "retire" /\ IsOpen /\ holder = t
    BY <1>8 DEF LockRetire, MutexInv, MutexParts, Holding
  <2>2. /\ ~IsOpen' /\ generation' = generation + 1
        /\ UNCHANGED <<dbPath, timer, file, listed, command>>
        /\ \A u \in LockThreads \ {t} : threads'[u] = threads[u]
        /\ threads'[t].pc = "disarm"
    BY <1>8, <2>1, RetireFacts DEF MutexInv, registry
  <2>3. /\ Now' = Now /\ Targeted' = Targeted /\ Pathed' = Pathed
        /\ Unregistered' = Unregistered /\ Resting' = Resting
    BY <2>2 DEF Now, WorkerIdle, Targeted, Activates, Replaces, Pathed, Renewed, Unregistered,
       Resting
  <2>4. PathFollows' /\ Registered' /\ Armed'
    BY <2>2, <2>3 DEF TimerInv, PathFollows, Registered, Armed
  <2>5. \A u \in LockThreads : threads'[u].pc # "retire"
    BY <2>1, <2>2 DEF MutexInv, MutexParts, Holding
  <2>6. ASSUME NEW u \in LockThreads, threads'[u].pc = "mutex"
        PROVE  threads'[u].generation # generation'
    <3>1. threads'[u] = threads[u] /\ threads[u].pc # "idle"
      BY <2>2, <2>6
    <3>2. threads[u].generation <= generation
      BY <3>1 DEF MutexInv, MutexParts, Dated, Older
    <3>3. threads[u].generation \in Nat /\ generation \in Nat
      BY DEF MutexInv, Typed, TypeOK, RequestsMade, Requests
    <3> QED
      BY <2>2, <3>1, <3>2, <3>3
  <2>7. RequestsMatch'
    BY <2>2, <2>5, <2>6 DEF RequestsMatch
  <2> QED
    BY <2>4, <2>7 DEF TimerInv
<1>9. ASSUME NEW t \in LockThreads, LockDisarm(t) PROVE TimerInv'
  <2>1. /\ threads[t].pc = "disarm"
        /\ UNCHANGED <<slot, dbPath, generation, file, listed, dek, command>>
        /\ \A u \in LockThreads \ {t} : threads'[u] = threads[u]
        /\ threads'[t].pc = "idle"
        /\ timer' = IF timer = [profile |-> threads[t].profile,
                                generation |-> threads[t].generation]
                    THEN None ELSE timer
    BY <1>9, DisarmFacts DEF MutexInv, runtime, paths, registry
  <2>2. threads[t].generation # generation
    <3>1. threads[t].generation \in Nat /\ generation \in Nat
      BY DEF MutexInv, Typed, TypeOK, RequestsMade, Requests
    <3> QED
      BY <2>1, <3>1 DEF MutexInv, MutexParts, Dated
  <2>3. timer' \in {timer, None}
    BY <2>1
  <2>4. RequestsMatch'
    BY <1>3, <2>1, <2>3 DEF TimerInv, RequestsMatch
  <2>5. Armed'
    BY <1>5, <2>1, <2>2
  <2> QED
    BY <1>3, <2>1, <2>4, <2>5 DEF TimerInv
<1> QED
  BY <1>1, <1>2, <1>4, <1>6, <1>7, <1>8, <1>9 DEF LockRequest, Locking, LockStep, Looks

\* The clients keep the registry and the requests.
LEMMA ClientTimer ==
  ASSUME MutexInv, TimerInv, ClientStep
  PROVE  TimerInv'
<1>1. CASE PhoneProject
  <2>1. /\ UNCHANGED <<runtime, paths, timer, registry, threads>>
        /\ \/ UNCHANGED command
           \/ WorkerIdle /\ Now' = "recheck" /\ command'.name = "project"
    BY <1>1, ProjectStarts DEF MutexInv
  <2>2. WorkerIdle => Resting
    BY IdleNow DEF Resting
  <2>3. command'.name = "project" => ~Targeted'
    BY DEF Targeted, Activates, Replaces
  <2>4. Now' = "recheck" => Resting'
    BY DEF Resting
  <2> QED
    BY <2>1, <2>2, <2>3, <2>4, FrameTimer DEF runtime, paths, registry
<1>2. CASE PhoneRecheck
  <2>1. /\ Now = "recheck" /\ WorkerIdle' /\ Now' = "idle"
        /\ UNCHANGED <<runtime, paths, timer, registry, threads>>
    BY <1>2, RecheckFacts DEF MutexInv
  <2> QED
    BY <2>1, FrameTimer DEF runtime, paths, registry, Targeted, Resting
<1>3. CASE ~(PhoneProject \/ PhoneRecheck)
  <2>1. UNCHANGED <<runtime, paths, timer, registry, command, threads>>
    BY <1>3 DEF ClientStep, RefreshStart, RefreshWrite, RefreshReturn, PhoneAsk, PhoneStamp,
       PhoneDeliver, PhoneEnds
  <2> QED
    BY <2>1, FrameTimer DEF runtime, paths, registry
<1> QED
  BY <1>1, <1>2, <1>3

\* The registry names the open database when no command runs, every request of the present
\* generation is of the open profile, and an open protected profile has one or its timer.
THEOREM TimerInductive == ChangesComplete /\ Spec => [](MutexInv /\ TimerInv)
<1> SUFFICES ASSUME ChangesComplete PROVE Spec => [](MutexInv /\ TimerInv)
  OBVIOUS
<1>1. Init => TimerInv
  <2> SUFFICES ASSUME Init PROVE TimerInv
    OBVIOUS
  <2>1. WorkerIdle /\ ~IsOpen
    BY DEF Init, WorkerIdle, IsOpen, NoProfileOpen
  <2>2. Now = "idle" /\ ~Pathed /\ ~Targeted
    BY <2>1, IdleNow DEF Pathed, Targeted
  <2>3. \A t \in LockThreads : threads[t].pc = "idle"
    BY DEF Init, NoRequest
  <2>4. \A p \in Profiles : file[p] = <<p, 1>>
    BY DEF Init
  <2>5. dbPath = <<Default, 1>> /\ Default \in Profiles
    BY SessionConstants DEF Init
  <2>6. Registered
    BY <2>1, <2>2, <2>4, <2>5 DEF Registered
  <2>7. PathFollows /\ RequestsMatch /\ Armed
    BY <2>1, <2>2, <2>3 DEF Init, PathFollows, RequestsMatch, Armed
  <2> QED
    BY <2>6, <2>7 DEF TimerInv
<1>2. (MutexInv /\ TimerInv) /\ [Next]_vars => TimerInv'
  <2> SUFFICES ASSUME MutexInv, TimerInv, [Next]_vars PROVE TimerInv'
    OBVIOUS
  <2>1. CASE UserCommand
    BY <2>1, UserTimer
  <2>2. CASE CommandStep
    BY <2>2, CommandTimer
  <2>3. CASE LockRequest \/ Locking
    BY <2>3, LockTimer
  <2>4. CASE ClientStep
    BY <2>4, ClientTimer
  <2>5. CASE UNCHANGED vars
    BY <2>5, FrameTimer DEF vars, runtime, paths, registry
  <2> QED
    BY <2>1, <2>2, <2>3, <2>4, <2>5 DEF Next
<1> QED
  BY <1>1, <1>2, MutexInductive, PTL DEF Spec

\* While no command runs, the open database, AppPaths.db_path and the registry name the
\* same file: as long as no change of database fails half way.
THEOREM PathsFollowTheSession == ChangesComplete /\ Spec => []PathsAgree
<1>1. MutexInv /\ TimerInv => PathsAgree
  BY IdleNow, OpenNamed DEF Resting, PathsAgree
<1> QED
  BY <1>1, TimerInductive, PTL

\* While no command runs, an open protected profile has its timer armed for this session, or
\* the lock that timer asked for is on its way.
THEOREM OpenProfileWillLock == ChangesComplete /\ Spec => []AutoLockArmed
<1>1. MutexInv /\ TimerInv => AutoLockArmed
  <2> SUFFICES ASSUME MutexInv, TimerInv, WorkerIdle, IsOpen, Encrypted(slot.db)
               PROVE  AutoLockArmed
    BY DEF AutoLockArmed
  <2>1. Resting
    BY IdleNow DEF Resting
  <2> QED
    BY <2>1, OpenNamed DEF TimerInv, Armed, AutoLockArmed
<1> QED
  BY <1>1, TimerInductive, PTL

\* A delayed request locks the session it was made for, or nothing: whatever was opened,
\* replaced or locked between the request and the lock.
THEOREM LocksWhatItAskedFor == ChangesComplete /\ Spec => LocksOnlyItsSession
<1>1. MutexInv /\ TimerInv /\ [Next]_vars =>
        [IsOpen /\ slot'.kind = "locked" =>
           slot'.profile = slot.profile
           /\ \E t \in LockThreads :
                threads[t].pc = "retire" /\ threads[t].profile = slot.profile]_vars
  <2> SUFFICES ASSUME MutexInv, TimerInv, [Next]_vars, IsOpen, slot'.kind = "locked"
               PROVE  /\ slot'.profile = slot.profile
                      /\ \E t \in LockThreads :
                           threads[t].pc = "retire" /\ threads[t].profile = slot.profile
    OBVIOUS
  <2>1. slot' # slot
    BY DEF IsOpen
  <2>2. PICK t \in LockThreads : LockRetire(t)
    <3>1. ~ClientStep /\ ~(UNCHANGED vars)
      BY <2>1 DEF vars, runtime, ClientStep, RefreshStart, RefreshWrite, RefreshReturn, PhoneAsk,
         PhoneStamp, PhoneProject, PhoneRecheck, PhoneDeliver, PhoneEnds
    <3>2. Swap
      BY <2>1, <3>1, CommandFrame, LockFrame DEF Next
    <3> QED
      BY <3>2 DEF Swap, Install, Replace, Open, ShowSelector, SelectProtected, IsOpen
  <2> QED
    BY <2>2 DEF LockRetire, Locked, TimerInv, RequestsMatch
<1> QED
  BY <1>1, TimerInductive, PTL DEF Spec, LocksOnlyItsSession

-----------------------------------------------------------------------------
(* The profile of the path, whatever goes wrong *)

\* The path is of the open profile, except inside a switch, which holds the mutex.
PathProfile ==
  /\ Pathed => dbPath = command.path
  /\ ~WorkerIdle /\ Activates /\ IsOpen => slot.profile = command.path[1]
  /\ IsOpen /\ ~(command.name = "switch" /\ Now = "path") => slot.profile = dbPath[1]

\* A command that starts, or a client, changes neither the path nor the slot.
LEMMA KeepProfile ==
  ASSUME PathProfile, UNCHANGED dbPath, ~IsOpen' \/ UNCHANGED slot,
         \/ UNCHANGED command
         \/ ~Pathed' /\ ~Pathed /\ Now # "path"
            /\ (~WorkerIdle' /\ Activates' /\ IsOpen' => slot'.profile = command'.path[1])
  PROVE  PathProfile'
<1>1. IsOpen' => IsOpen /\ slot' = slot
  BY DEF IsOpen
<1>2. CASE UNCHANGED command
  <2>1. /\ Now' = Now /\ Pathed' = Pathed /\ Activates' = Activates /\ WorkerIdle' = WorkerIdle
    BY <1>2 DEF Now, WorkerIdle, Activates, Pathed, Renewed
  <2> QED
    BY <1>1, <1>2, <2>1 DEF PathProfile
<1>3. CASE ~(UNCHANGED command)
  BY <1>1, <1>3 DEF PathProfile
<1> QED
  BY <1>2, <1>3

\* A command that starts keeps the profile of the path.
LEMMA UserProfile ==
  ASSUME MutexInv, PathProfile, UserCommand
  PROVE  PathProfile'
<1>1. WorkerIdle /\ UNCHANGED dbPath
  BY DEF UserCommand, Select, SelectProtected, Unlock, Switch, ShowSelector, Enable,
     RemoveProtection, Convert, ChangePassword, Relocate, Restore, SetAutoLock, TakeNotice,
     DayPasses, Guarded, Begin, paths
<1>2. Now # "path" /\ ~Pathed
  BY <1>1, IdleNow DEF Pathed
<1>3. ASSUME NEW p \in Profiles, Select(p) \/ Unlock(p) PROVE PathProfile'
  <2>1. /\ Now' = "settle" /\ command'.name \in {"select", "unlock"} /\ ~IsOpen
        /\ UNCHANGED slot
    BY <1>3, SelectStarts DEF MutexInv, runtime
  <2>2. ~Pathed' /\ ~IsOpen'
    BY <2>1 DEF Pathed, Renewed, IsOpen
  <2> QED
    BY <1>1, <1>2, <2>1, <2>2, KeepProfile
<1>4. CASE Enable \/ RemoveProtection \/ ChangePassword \/ Relocate \/ Restore
  <2>1. /\ Now' \in {"commit", "replace"} /\ command'.path[1] = slot.profile
        /\ UNCHANGED slot
    BY <1>4, ChangeStarts DEF MutexInv
  <2>2. ~Pathed'
    BY <2>1 DEF Pathed, Renewed
  <2> QED
    BY <1>1, <1>2, <2>1, <2>2, KeepProfile
<1>5. ASSUME NEW p \in Profiles, Switch(p) PROVE PathProfile'
  <2>1. Now' = "replace" /\ command'.name = "switch" /\ UNCHANGED slot
    BY <1>5, SwitchStarts DEF MutexInv
  <2>2. ~Pathed' /\ ~Activates'
    BY <2>1 DEF Pathed, Renewed, Activates
  <2> QED
    BY <1>1, <1>2, <2>1, <2>2, KeepProfile
<1>6. CASE SetAutoLock
  <2>1. Now' = "armCheck" /\ command'.name = "settings" /\ UNCHANGED slot
    BY <1>6, SettingsStarts DEF MutexInv, runtime
  <2>2. ~Pathed' /\ ~Activates'
    BY <2>1 DEF Pathed, Renewed, Activates
  <2> QED
    BY <1>1, <1>2, <2>1, <2>2, KeepProfile
<1>7. ASSUME NEW p \in Profiles, SelectProtected(p) \/ ShowSelector PROVE PathProfile'
  <2>1. UNCHANGED command /\ ~IsOpen'
    BY <1>7 DEF SelectProtected, ShowSelector, IsOpen, Locked, NoProfileOpen
  <2> QED
    BY <1>1, <2>1, KeepProfile
<1>8. CASE TakeNotice \/ DayPasses
  BY <1>1, <1>8, KeepProfile DEF TakeNotice, DayPasses, runtime
<1>9. Default \in Profiles
  BY SessionConstants
<1> QED
  BY <1>3, <1>4, <1>5, <1>6, <1>7, <1>8, <1>9 DEF UserCommand

\* The steps of a command keep the profile of the path.
LEMMA CommandProfile ==
  ASSUME MutexInv, PathProfile, CommandStep
  PROVE  PathProfile'
<1>1. /\ Program /\ Program' /\ ~WorkerIdle /\ Now \in Steps
      /\ \/ command' = Idle /\ Now' = "idle"
         \/ /\ ~WorkerIdle' /\ <<Now, Now'>> \in Order(command.name) /\ Now' \in Steps
            /\ command'.name = command.name /\ command'.path = command.path
  BY CommandMoves DEF MutexInv, Typed
<1>2. Renewed' => Renewed \/ Now = "generation"
  BY <1>1, Going
<1>3. /\ Now' = "generation" => Now = "path"
      /\ ~WorkerIdle' => command'.name = command.name
  BY <1>1, GoingRegistered
<1>4. \A s \in Steps : At(s) => Now = s
  BY NowIsStep DEF MutexInv, Typed
<1>5. /\ dbPath' # dbPath => Now = "path" /\ dbPath' = command.path
      /\ slot' # slot => Now \in {"install", "replace"} /\ slot' = Open(command.path)
      /\ Now = "path" => dbPath' = command.path
      /\ Now = "install" => slot' = Open(command.path)
  BY <1>4 DEF CommandStep, Commit, OpenNew, Settle, SetPath, BumpGeneration, Install, Replace,
     UpdateRegistry, UpdateRegistryFails, SetNotice, Release, ArmCheck, Arm, runtime, paths, Steps
<1>6. Pathed' => dbPath' = command'.path
  <2> SUFFICES ASSUME Pathed' PROVE dbPath' = command'.path
    OBVIOUS
  <2>1. command'.path = command.path
    BY <1>1 DEF Pathed, Renewed
  <2>2. Pathed \/ Now = "path"
    BY <1>2, <1>3 DEF Pathed
  <2> QED
    BY <1>5, <2>1, <2>2 DEF PathProfile
<1>7. ASSUME ~WorkerIdle', Activates', IsOpen' PROVE slot'.profile = command'.path[1]
  <2>1. Activates /\ command'.path = command.path
    BY <1>1, <1>3, <1>7 DEF Activates, WorkerIdle
  <2>2. slot' = slot \/ slot' = Open(command.path)
    BY <1>5
  <2> QED
    BY <1>1, <1>7, <2>1, <2>2 DEF PathProfile, Open, IsOpen
<1>8. ASSUME IsOpen', ~(command'.name = "switch" /\ Now' = "path")
      PROVE  slot'.profile = dbPath'[1]
  <2>1. CASE Now = "path"
    <3>1. slot' = slot /\ dbPath' = command.path /\ IsOpen
      BY <1>5, <1>8, <2>1 DEF IsOpen
    <3>2. slot.profile = command.path[1]
      <4>1. CASE Activates
        BY <1>1, <3>1, <4>1 DEF PathProfile
      <4>2. CASE Replaces
        BY <2>1, <4>2 DEF Placed, MutexInv, MutexParts, InPlace, Open
      <4> QED
        BY <1>1, <2>1, <4>1, <4>2, CommandOf
    <3> QED
      BY <3>1, <3>2
  <2>2. CASE Now = "install"
    <3>1. Pathed
      BY <1>1, <2>2, CommandOf DEF Pathed, Renewed, Activates
    <3> QED
      BY <1>5, <2>2, <3>1 DEF PathProfile, Open
  <2>3. CASE Now = "replace"
    <3>1. Replaces
      BY <1>1, <2>3, CommandOf
    <3>2. command.name # "switch"
      BY <1>1, <1>8, <2>3, CommandMoves DEF Order, LastStep, MutexInv, Typed
    <3>3. IsOpen /\ slot.profile = command.path[1] /\ slot.profile = dbPath[1]
      BY <2>3, <3>1, <3>2 DEF Replaces, MutexInv, MutexParts, InPlace, PathProfile
    <3> QED
      BY <1>5, <2>3, <3>3 DEF Open
  <2>4. CASE Now \notin {"path", "install", "replace"}
    BY <1>5, <1>8, <2>4 DEF PathProfile, IsOpen
  <2> QED
    BY <2>1, <2>2, <2>3, <2>4
<1> QED
  BY <1>6, <1>7, <1>8 DEF PathProfile

\* Locks and clients keep the profile of the path.
LEMMA OtherProfile ==
  ASSUME MutexInv, PathProfile, LockRequest \/ Locking \/ ClientStep \/ UNCHANGED vars
  PROVE  PathProfile'
<1>1. UNCHANGED dbPath /\ (~IsOpen' \/ UNCHANGED slot)
  <2>1. CASE LockRequest
    BY <2>1 DEF LockRequest, TimerFires, NativeEvent, LockNow, runtime, paths
  <2>2. CASE Locking
    <3>1. ASSUME NEW t \in LockThreads, LockStep(t), ~LockRetire(t) PROVE UNCHANGED <<dbPath, slot>>
      BY <3>1 DEF LockStep, LockReadPath, LockCheckGeneration, LockCheckProfile, LockAcquire,
         LockDisarm, runtime, paths
    <3>2. ASSUME NEW t \in LockThreads, LockRetire(t) PROVE UNCHANGED dbPath /\ ~IsOpen'
      BY <3>2 DEF LockRetire, IsOpen, Locked
    <3> QED
      BY <2>2, <3>1, <3>2 DEF Locking, LockNowReturns, runtime, paths
  <2>3. CASE ClientStep \/ UNCHANGED vars
    BY <2>3 DEF ClientStep, RefreshStart, RefreshWrite, RefreshReturn, PhoneAsk, PhoneStamp,
       PhoneProject, PhoneRecheck, PhoneDeliver, PhoneEnds, vars, runtime, paths
  <2> QED
    BY <2>1, <2>2, <2>3
<1>2. CASE LockNow \/ LockNowReturns \/ PhoneProject \/ PhoneRecheck
  <2>1. CASE LockNow
    BY <1>1, <2>1, LockStarts, IdleNow, KeepProfile
       DEF MutexInv, Pathed, Renewed, Activates
  <2>2. CASE LockNowReturns
    <3>1. Now = "lock" /\ Now' = "idle" /\ WorkerIdle'
      BY <2>2, LockReturnFacts DEF MutexInv
    <3> QED
      BY <1>1, <3>1, KeepProfile DEF Pathed, Renewed
  <2>3. CASE PhoneRecheck
    <3>1. Now = "recheck" /\ Now' = "idle" /\ WorkerIdle'
      BY <2>3, RecheckFacts DEF MutexInv
    <3> QED
      BY <1>1, <3>1, KeepProfile DEF Pathed, Renewed
  <2>4. CASE PhoneProject
    <3>1. \/ UNCHANGED command
          \/ WorkerIdle /\ Now' = "recheck" /\ command'.name = "project"
      BY <2>4, ProjectStarts DEF MutexInv
    <3> QED
      BY <1>1, <3>1, IdleNow, KeepProfile DEF Pathed, Renewed, Activates
  <2> QED
    BY <1>2, <2>1, <2>2, <2>3, <2>4
<1>3. CASE ~(LockNow \/ LockNowReturns \/ PhoneProject \/ PhoneRecheck)
  <2>1. UNCHANGED command
    BY <1>3 DEF LockRequest, TimerFires, NativeEvent, Locking, LockStep,
       LockReadPath, LockCheckGeneration, LockCheckProfile, LockAcquire, LockRetire, LockDisarm,
       ClientStep, RefreshStart, RefreshWrite, RefreshReturn, PhoneAsk, PhoneStamp,
       PhoneDeliver, PhoneEnds, vars
  <2> QED
    BY <1>1, <2>1, KeepProfile
<1> QED
  BY <1>2, <1>3

\* The path is of the open profile, whatever goes wrong and however many profiles, databases
\* and threads there are.
THEOREM ProfileInductive == Spec => [](MutexInv /\ PathProfile)
<1>1. Init => PathProfile
  BY IdleNow DEF Init, PathProfile, Pathed, WorkerIdle, IsOpen, NoProfileOpen
<1>2. (MutexInv /\ PathProfile) /\ [Next]_vars => PathProfile'
  BY UserProfile, CommandProfile, OtherProfile DEF Next
<1> QED
  BY <1>1, <1>2, MutexInductive, PTL DEF Spec

\* A phone is sent only what was built from the database that is open as the frame leaves, and
\* only of the profile it asked for, as long as the entries name databases of their own.
THEOREM PhoneSentItsProfile == Spec => PhoneGetsOpenProfile
<1>1. IInv /\ MutexInv /\ PathProfile /\ [Next]_vars =>
        [phone.pc = "built" /\ phone'.pc = "sent" =>
           /\ IsOpen /\ phone.db = slot.db
           /\ EntriesOwnTheirFiles => phone.profile = slot.profile]_vars
  <2> SUFFICES ASSUME IInv, MutexInv, PathProfile, [Next]_vars,
                      phone.pc = "built", phone'.pc = "sent"
               PROVE  /\ IsOpen /\ phone.db = slot.db
                      /\ EntriesOwnTheirFiles => phone.profile = slot.profile
    OBVIOUS
  <2>1. PhoneDeliver
    <3>1. ~(UNCHANGED phone)
      OBVIOUS
    <3>2. ~UserCommand /\ ~CommandStep /\ ~LockRequest /\ ~Locking
      BY <3>1, SwapRevises, CommandFrame, LockFrame DEF clients
    <3> QED
      BY <3>1, <3>2 DEF Next, vars, clients, ClientStep, RefreshStart, RefreshWrite,
         RefreshReturn, PhoneAsk, PhoneStamp, PhoneProject, PhoneRecheck, PhoneEnds, NoPhone,
         IInv, ClientFields
  <2>2. Free /\ ValidSession
    BY <2>1 DEF PhoneDeliver, NoPhone
  <2>3. IsOpen /\ phone.db = slot.db
    BY <2>2 DEF ValidSession, SameSession, IInv, PhoneStamped
  <2>4. phone.profile \in listed /\ file[phone.profile] = dbPath
    BY <2>2 DEF ValidSession
  <2>5. ~(command.name = "switch" /\ Now = "path")
    BY <2>2, SessionConstants DEF MutexInv, MutexParts, Holding, GuardHeld, Replaces, Free
  <2> QED
    BY <2>3, <2>4, <2>5 DEF PathProfile, EntriesOwnTheirFiles
<1> QED
  BY <1>1, ProfileInductive, StampsInductive, PTL DEF Spec, PhoneGetsOpenProfile
===============================================================================
