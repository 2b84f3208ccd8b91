---------------------------- MODULE SessionClients ----------------------------
(***************************************************************************)
(* Two readers that work outside the slot's mutex and come back to it: the *)
(* live-price refresh (commands/investments.rs), which waits for the       *)
(* network between reading and writing, and the phone's snapshot request   *)
(* (mobile_api.rs), which waits for the command queue and for the network. *)
(***************************************************************************)
EXTENDS SessionCommands

NoRefresh == [pc |-> "idle", generation |-> 0, revision |-> 0, db |-> None, into |-> None]
NoPhone   == [pc |-> "idle", generation |-> 0, revision |-> 0, profile |-> None, db |-> None]

\* Mutant: only the generation is compared.
SameGeneration(c) == generation = c.generation

\* The session a client started from is the open one.
SameSession(c) == generation = c.generation /\ revision = c.revision

-----------------------------------------------------------------------------
(* refresh_live_prices *)

RefreshStart ==
  /\ "refresh" \in Clients /\ refresh.pc = "idle"
  /\ IsOpen /\ Free
  /\ refresh' = [pc |-> "network", generation |-> generation, revision |-> revision,
                 db |-> slot.db, into |-> None]
  /\ UNCHANGED <<runtime, paths, timer, registry, backups, command, threads, phone>>

\* The answers arrive.  Nothing is written unless the session is still the one
\* that asked; the prices go to whatever database is open.
RefreshWrite ==
  /\ refresh.pc = "network" /\ Free
  /\ IF IsOpen /\ SameSession(refresh)
     THEN refresh' = [refresh EXCEPT !.pc = "written", !.into = slot.db]
     ELSE refresh' = NoRefresh
  /\ UNCHANGED <<runtime, paths, timer, registry, backups, command, threads, phone>>

RefreshReturn ==
  /\ refresh.pc = "written"
  /\ refresh' = NoRefresh
  /\ UNCHANGED <<runtime, paths, timer, registry, backups, command, threads, phone>>

-----------------------------------------------------------------------------
(* GET /api/snapshot *)

\* The two stamps are read one after the other, without the mutex.
PhoneAsk(p) ==
  /\ "phone" \in Clients /\ phone.pc = "idle"
  /\ p \in listed
  /\ phone' = [NoPhone EXCEPT !.pc = "stamp", !.profile = p, !.generation = generation]
  /\ UNCHANGED <<runtime, paths, timer, registry, backups, command, threads, refresh>>

PhoneStamp ==
  /\ phone.pc = "stamp"
  /\ phone' = [phone EXCEPT !.pc = "queued", !.revision = revision]
  /\ UNCHANGED <<runtime, paths, timer, registry, backups, command, threads, refresh>>

\* valid_session: the stamps are current and the requested profile is active.
ValidSession ==
  /\ IsOpen /\ SameSession(phone)
  /\ phone.profile \in listed /\ file[phone.profile] = dbPath

\* project, on the command worker between two commands: the session is checked
\* and read under the mutex, the snapshot built, and the session checked again.
PhoneProject ==
  /\ phone.pc = "queued" /\ WorkerIdle /\ Free
  /\ IF ValidSession
     THEN /\ phone' = [phone EXCEPT !.pc = "projected", !.db = slot.db]
          /\ command' = [Idle EXCEPT !.name = "project", !.steps = <<"recheck">>]
     ELSE phone' = NoPhone /\ UNCHANGED command
  /\ UNCHANGED <<runtime, paths, timer, registry, backups, threads, refresh>>

\* A request given up in the meantime leaves its job nobody to answer.
PhoneRecheck ==
  /\ At("recheck") /\ Free
  /\ phone' = IF phone.pc # "projected" THEN phone
              ELSE IF ValidSession THEN [phone EXCEPT !.pc = "built"] ELSE NoPhone
  /\ Advance
  /\ UNCHANGED <<runtime, paths, timer, registry, backups, threads, refresh>>

\* Mutant: the built frame is sent as it is.
PhoneDeliverUnchecked ==
  /\ phone.pc = "built" /\ Free
  /\ phone' = [phone EXCEPT !.pc = "sent"]
  /\ UNCHANGED <<runtime, paths, timer, registry, backups, command, threads, refresh>>

\* The first frame leaves only after one more check under the mutex.
PhoneDeliver ==
  /\ phone.pc = "built" /\ Free
  /\ phone' = IF ValidSession THEN [phone EXCEPT !.pc = "sent"] ELSE NoPhone
  /\ UNCHANGED <<runtime, paths, timer, registry, backups, command, threads, refresh>>

\* The 15-second limit, a closed connection, or the end of the response.
PhoneEnds ==
  /\ phone.pc # "idle"
  /\ phone' = NoPhone
  /\ UNCHANGED <<runtime, paths, timer, registry, backups, command, threads, refresh>>

ClientStep ==
  \/ RefreshStart \/ RefreshWrite \/ RefreshReturn
  \/ \E p \in Profiles : PhoneAsk(p)
  \/ PhoneStamp \/ PhoneProject \/ PhoneRecheck \/ PhoneDeliver \/ PhoneEnds
=============================================================================
