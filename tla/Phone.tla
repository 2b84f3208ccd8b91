--------------------------------- MODULE Phone ---------------------------------
(* The phone and its desktop: every interleaving of the tabs' steps with the   *)
(* desktop's commands.                                                          *)
EXTENDS PhoneTabs

\* A phone that was never paired, or one that is, with the profiles it may read.
NeverPaired ==
    /\ devices = {} /\ names = [p \in Profiles |-> None] /\ cookie = None /\ remembered = FALSE
    /\ named = 0 /\ tokens = 0 /\ pairings = 0
Paired ==
    /\ Profiles # {} /\ MaxGrants > 0 /\ MaxPairings > 0
    /\ \E p \in Profiles :
           /\ listed = {p}
           /\ devices = {[nr |-> 1, token |-> 1, grants |-> {p}, lapsed |-> FALSE]}
           /\ names = [q \in Profiles |-> IF q = p THEN Name(1) ELSE None]
    /\ cookie = 1 /\ remembered = TRUE
    /\ named = 1 /\ tokens = 1 /\ pairings = 1

Init ==
    /\ scope \in Scopes
    /\ listed \in (SUBSET Profiles) \ {{}}
    /\ born = [p \in Profiles |-> 1] /\ bearer = born /\ lost = {}
    /\ backup \in {None} \cup {[p \in S |-> 1] : S \in SUBSET listed}
    /\ onDisk = (backup # None)
    /\ pairs = {} /\ permit = "free" /\ orders = 0
    /\ copies = [id \in Ids |-> None] /\ active = None
    /\ fence = 0 /\ revisions = 0 /\ notice = {}
    /\ refresh = [t \in Tabs |-> NoRefresh]
    /\ user = [t \in Tabs |-> NoUser]
    /\ NeverPaired \/ Paired

Next ==
    \/ DesktopStep
    \/ \E t \in Tabs : RefreshStep(t) \/ UserStep(t)
    \/ \E id \in Ids : ShowCopy(id)

Spec == Init /\ [][Next]_vars
-------------------------------------------------------------------------------
\* What the desktop and the tabs keep, and the requests under way.
DesktopOK ==
    /\ listed \subseteq Profiles /\ born \in [Profiles -> Nat] /\ bearer \in [Profiles -> Nat]
    /\ \/ backup = None
       \/ DOMAIN backup \subseteq Profiles /\ \A p \in DOMAIN backup : backup[p] \in Nat
    /\ names \in [Profiles -> Grant \cup {None}]
    /\ tokens \in Nat /\ pairings \in Nat
    /\ pairs \subseteq [nr : Nat, claimed : BOOLEAN, grants : (SUBSET Profiles) \cup {None}]

RefreshRecord ==
    [pc : RefreshSteps \cup {"idle", "approve"}, fence : Nat, token : Nat \cup {None},
     seen : SUBSET Grant, id : Ids \cup {None}, epoch : Ids \cup {None}, guard : Nat,
     got : Snapshot \cup {None}, old : Copy \cup {None}, retired : BOOLEAN]
UserRecord ==
    [pc : {"idle", "old", "redeem", "poll", "paired", "remember", "remove", "forget", "logout"},
     fence : Nat, nr : Nat \cup {None}, id : Nat \cup {None}]

TypeOK ==
    /\ DesktopOK
    /\ copies \in [Ids -> Copy \cup {None}] /\ revisions \in Nat
    /\ fence \in Nat /\ active \in Ids \cup {None} /\ remembered \in BOOLEAN
    /\ cookie \in Nat \cup {None}
    /\ refresh \in [Tabs -> RefreshRecord] /\ user \in [Tabs -> UserRecord]
    /\ \A t \in Tabs : user[t].pc = "remove" => user[t].id \in Ids

\* Attempts that no removal ended: refreshes and pairings begun since the last one.
Live == {a \in Tabs \X {"refresh", "pairing"} :
            IF a[2] = "refresh" THEN ~At(a[1], "idle") /\ refresh[a[1]].fence = fence
            ELSE /\ user[a[1]].pc \in {"old", "redeem", "poll", "paired", "remember"}
                 /\ user[a[1]].fence = fence}

\* What a removal took stays away and access stays off until a new pairing; copies are
\* saved only for a phone that is remembered, and never replaced by an older one
\* (mobileRepository.ts, mobileSession.ts, mobileConnection.ts).
Saved == INSTANCE CopyRegister WITH
             Attempts <- Tabs \X {"refresh", "pairing"}, Copies <- Copy, attempts <- Live
SavedCopiesKept == Saved!Spec

\* The copy shown first is one that is saved, whichever tabs removed, replaced and
\* selected meanwhile (mobileIndexedDb.ts).
ActiveIsSaved == active # None => copies[active] # None

\* Nothing may read a profile that was deleted, nor will after an approval under way, so
\* a later profile with its id starts without readers (delete_profile, reset_grants).
\* Only an earlier list put back can leave readers of a profile that is off the list.
NotDeleted == {p \in Profiles : p \in listed \/ <<p, bearer[p]>> \in lost}
NoReadersOfDeleted ==
    /\ \A d \in devices : d.grants \subseteq NotDeleted \cap Granted
    /\ \A pair \in pairs : pair.grants = None \/ pair.grants \subseteq NotDeleted

Snapshots == {refresh[t].got : t \in Tabs} \ {None}
SavedOf(id) == IF copies[id] = None THEN {} ELSE {copies[id].of}
\* The profiles a name stands for: of its saved copy, on the way, and at the desktop.
Origins(id) == SavedOf(id) \cup {s.of : s \in {x \in Snapshots : x.id = id}}
                           \cup {<<p, bearer[p]>> : p \in {q \in Granted : names[q].id = id}}
\* A name under which copies are saved stands for one profile for ever, whatever profile
\* has the internal id later: copies of two profiles never replace each other, unless an
\* earlier list put back took the first of them off the list.
OneProfilePerName == \A id \in Ids : Cardinality(Origins(id) \ lost) <= 1

\* A number is given to one snapshot of a profile: the tabs tell an equal number from a
\* newer snapshot (next, in mobile_devices.rs).
OneSnapshotPerNumber ==
    \A t, u \in Tabs : LET r == refresh[t].got  s == refresh[u].got
                       IN  t # u /\ r # None /\ s # None => r # s

\* A code is used up with the device it makes, whether or not the answer reaches the phone,
\* so it never makes a second one (complete).
OneDevicePerCode ==
    /\ \A d, e \in devices : d.nr = e.nr => d = e
    /\ \A d \in devices, pair \in pairs : pair.nr # d.nr
===============================================================================
