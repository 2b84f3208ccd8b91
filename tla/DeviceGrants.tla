----------------------------- MODULE DeviceGrants -----------------------------
(* The desktop's side: pairings, devices, grants.  Every operation of Devices  *)
(* holds its mutex; the desktop's commands also run one at a time.             *)
EXTENDS PhoneState

\* One device answers to a token, unless it lapsed (its 365 days ended unused).
Authenticates(token) == \E d \in devices : d.token = token /\ ~d.lapsed
DeviceOf(token) == CHOOSE d \in devices : d.token = token /\ ~d.lapsed
\* authorize: the profile that the name stands for, if the device may read it.
Authorized(token, id) ==
    /\ Authenticates(token)
    /\ \E p \in Granted : names[p].id = id /\ p \in DeviceOf(token).grants
Named(id) == CHOOSE p \in Granted : names[p].id = id

Order ==
    /\ orders < MaxOrders[scope]
    /\ orders' = orders + 1
    /\ UNCHANGED <<storageVars, cookie, refresh, user, scope>>

BeginPairing ==
    /\ Order
    /\ pairings < MaxPairings /\ Cardinality(pairs) < PairLimit
    /\ pairings' = pairings + 1
    /\ pairs' = pairs \cup {[nr |-> pairings + 1, claimed |-> FALSE, grants |-> None]}
    /\ UNCHANGED <<listVars, devices, names, named, tokens, permit>>

\* The person at the desktop approves profiles that are still listed, or refuses.
Decide ==
    /\ Order
    /\ \E pair \in pairs :
           /\ pair.claimed /\ pair.grants = None
           /\ \/ pairs' = pairs \ {pair}
              \/ \E g \in (SUBSET listed) \ {{}} :
                     pairs' = (pairs \ {pair}) \cup {[pair EXCEPT !.grants = g]}
    /\ UNCHANGED <<listVars, devices, names, pairings, named, tokens, permit>>

\* cancel: pairing is closed, the server stops, or the desktop does.
CancelPairings ==
    /\ Order
    /\ pairs' = {}
    /\ UNCHANGED <<listVars, devices, names, pairings, named, tokens, permit>>

Without(p) == {[d EXCEPT !.grants = @ \ {p}] : d \in devices}

\* Mutant: approvals under way keep the profile.
DropProfileKeepingPairs(p) ==
    /\ pairs' = pairs
    /\ devices' = Without(p)
    /\ names' = [names EXCEPT ![p] = None]

\* Mutant: the name of the profile is kept for the next profile with its id.
DropProfileKeepingName(p) ==
    /\ pairs' = {pair \in pairs : pair.grants = None \/ p \notin pair.grants}
    /\ devices' = Without(p)
    /\ names' = names

\* remove_profile: approvals under way go first, then the grants and the name.
DropProfile(p) ==
    /\ pairs' = {pair \in pairs : pair.grants = None \/ p \notin pair.grants}
    /\ devices' = Without(p)
    /\ names' = [names EXCEPT ![p] = None]

\* write_registry: the list as it was is kept as profiles.json.bak.
WriteList ==
    /\ backup' = IF onDisk THEN Listing ELSE backup
    /\ onDisk' = TRUE

\* A profile with this id that was not there before.
Bear(p) ==
    /\ born' = [born EXCEPT ![p] = @ + 1]
    /\ bearer' = [bearer EXCEPT ![p] = born'[p]]

\* delete_profile: the grants go before the list entry; either save can fail, and a
\* profile that is open stays listed.
DeleteProfile(p) ==
    /\ Order
    /\ p \in listed
    /\ \/ /\ pairs' = {pair \in pairs : pair.grants = None \/ p \notin pair.grants}
          /\ UNCHANGED <<devices, names, listed, onDisk, backup>>
       \/ DropProfile(p) /\ UNCHANGED <<listed, onDisk, backup>>
       \/ DropProfile(p) /\ listed' = listed \ {p} /\ WriteList
    /\ UNCHANGED <<bearer, born, lost, pairings, named, tokens, permit>>

CreateProfile(p) ==
    /\ Order
    /\ p \notin listed
    /\ listed' = listed \cup {p} /\ Bear(p) /\ WriteList
    /\ UNCHANGED <<lost, devices, names, pairs, pairings, named, tokens, permit>>

\* Any other write of the list (rename_profile, a change of protection or of a path), or
\* one that failed after the copy was made.
RewriteList ==
    /\ Order
    /\ WriteList
    /\ UNCHANGED <<listed, bearer, born, lost, devices, names, pairs, pairings, named,
                   tokens, permit>>

\* A damaged profile list is set aside and the program goes on with one Default profile
\* (start_with_new_profile_list); the trust reset (reset_trust) does the same to the
\* registry and leaves the list.
ResetRegistry ==
    /\ Order
    /\ devices' = {} /\ names' = [p \in Profiles |-> None] /\ pairs' = {}
    /\ \/ UNCHANGED <<listed, bearer, born, onDisk>>
       \/ \E p \in Profiles : listed' = {p} /\ Bear(p) /\ onDisk' = FALSE
    /\ UNCHANGED <<backup, lost, pairings, named, tokens, permit>>

\* The other remedy for a damaged list (restore_registry_backup): the earlier list comes
\* back; devices, grants, names and pairings stay as they are.
RestoreList ==
    /\ Order
    /\ backup # None
    /\ listed' = DOMAIN backup
    /\ bearer' = [p \in Profiles |-> IF p \in DOMAIN backup THEN backup[p] ELSE bearer[p]]
    /\ onDisk' = TRUE
    /\ lost' = lost \cup {<<p, bearer[p]>> : p \in
                   {q \in listed : q \notin DOMAIN backup \/ backup[q] # bearer[q]}}
    /\ UNCHANGED <<born, backup, devices, names, pairs, pairings, named, tokens, permit>>

Revoke(token) == devices' = {d \in devices : d.token # token}

RevokeDevice ==
    /\ Order
    /\ \E d \in devices : Revoke(d.token)
    /\ UNCHANGED <<listVars, names, pairs, pairings, named, tokens, permit>>

RemoveGrant ==
    /\ Order
    /\ \E d \in devices, p \in Profiles :
           devices' = (devices \ {d}) \cup {[d EXCEPT !.grants = @ \ {p}]}
    /\ UNCHANGED <<listVars, names, pairs, pairings, named, tokens, permit>>

\* Time passes: a pairing ends after five minutes, an unused device after a year.
TimePasses ==
    /\ Order
    /\ \/ \E pair \in pairs : pairs' = pairs \ {pair} /\ UNCHANGED devices
       \/ \E d \in devices :
              /\ devices' = (devices \ {d}) \cup {[d EXCEPT !.lapsed = TRUE]}
              /\ UNCHANGED pairs
    /\ UNCHANGED <<listVars, names, pairings, named, tokens, permit>>

\* The job of a request that was given up runs at last, and releases its permit.
AbandonedJob ==
    /\ permit = "left"
    /\ permit' = "free"
    /\ UNCHANGED <<grantVars, orders, storageVars, cookie, refresh, user, scope>>

DesktopStep ==
    \/ BeginPairing \/ Decide \/ CancelPairings
    \/ RewriteList \/ ResetRegistry \/ RestoreList
    \/ \E p \in Profiles : DeleteProfile(p) \/ CreateProfile(p)
    \/ RevokeDevice \/ RemoveGrant \/ TimePasses \/ AbandonedJob
-------------------------------------------------------------------------------
(* What the phone's requests do.  A save that fails changes nothing. *)

Redeem(n) ==
    /\ \E pair \in pairs :
           /\ pair.nr = n /\ ~pair.claimed
           /\ pairs' = (pairs \ {pair}) \cup {[pair EXCEPT !.claimed = TRUE]}
    /\ UNCHANGED <<listVars, devices, names, pairings, named, tokens>>

\* The names of profiles granted for the first time: all new, all different.
NewNames(g) ==
    {f \in [g \ Granted -> Ids \cap (named + 1 .. named + Cardinality(g \ Granted))] :
        \A p, q \in g \ Granted : f[p] = f[q] => p = q}
Name(id) == [id |-> id, epoch |-> id, sequence |-> 0]
InUse == {d \in devices : ~d.lapsed}

\* A device is registered with the approved profiles; g is what was approved.
Register(n, g) ==
    /\ Cardinality(InUse) < DeviceLimit
    /\ tokens' = tokens + 1
    /\ \E f \in NewNames(g) :
           /\ named' = named + Cardinality(DOMAIN f)
           /\ names' = [p \in Profiles |-> IF p \in DOMAIN f THEN Name(f[p]) ELSE names[p]]
    /\ devices' = InUse \cup {[nr |-> n, token |-> tokens', grants |-> g, lapsed |-> FALSE]}

\* Mutant: the pairing stays open until it times out.
CompleteKeepingPair(n) ==
    /\ \E pair \in pairs : pair.nr = n /\ pair.grants # None /\ Register(n, pair.grants)
    /\ UNCHANGED <<listVars, pairs, pairings>>

\* complete: the pairing is used up with the device it made.
Complete(n) ==
    /\ \E pair \in pairs :
           /\ pair.nr = n /\ pair.grants # None
           /\ Register(n, pair.grants)
           /\ pairs' = pairs \ {pair}
    /\ UNCHANGED <<listVars, pairings>>

\* Mutant: the sequence is not counted up.
SameNumber(p) == UNCHANGED names

\* next: the number of a snapshot is saved before the snapshot is built.
NextNumber(p) ==
    names' = [names EXCEPT ![p].sequence = @ + 1]

Logout(token) ==
    /\ Revoke(token)
    /\ UNCHANGED <<listVars, names, pairs, pairings, named, tokens>>
===============================================================================
