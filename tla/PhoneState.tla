------------------------------ MODULE PhoneState ------------------------------
(* A phone's browser and the desktop it is paired with.  The desktop keeps the *)
(* devices it trusts and the profiles each may read (mobile_devices.rs); the   *)
(* browser keeps one cookie, whether access is remembered, and one saved copy  *)
(* of each profile, shared by its tabs (mobileIndexedDb.ts).                    *)
EXTENDS Integers, FiniteSets

CONSTANTS
    Profiles,       \* internal profile ids; the id of a deleted profile can come back
    Tabs,           \* tabs of the phone's browser
    PairLimit,      \* pairings open at a time (4 in the code)
    DeviceLimit,    \* devices registered (32 in the code)
    MaxPairings,    \* bound: pairings ever begun
    MaxGrants,      \* bound: profile grants ever made
    MaxSequence,    \* bound: snapshots of one grant
    MaxOrders,      \* bound: commands given at the desktop, for each scope
    MaxRemovals,    \* bound: removals of saved copies, for each scope
    Scopes,         \* the histories of a run
    None

\* Which commands a history has: the bounds differ.
Histories == {"tabs", "pairing", "desktop"}

VARIABLES
    listed,      \* profiles in the desktop's list
    bearer,      \* which profile has each id, or had it last
    born,        \* how many profiles have had each id
    onDisk,      \* profiles.json exists; without it the list is one Default profile
    backup,      \* profiles.json.bak, the list before its last write, if any
    lost,        \* history: profiles that a restored earlier list took off the list
    devices,     \* the devices the desktop trusts, and
    names,       \* the name each granted profile is known by: the registry it saves
    pairs,       \* pairings open in memory
    pairings,    \* pairings begun so far; names their codes and claims
    named,       \* names given to profile grants so far
    tokens,      \* device tokens drawn so far
    permit,      \* the one snapshot the desktop builds at a time
    orders,      \* commands given at the desktop
    copies,      \* the saved copy of each grant
    fence,       \* changes with every removal
    active,      \* the copy to show first
    remembered,  \* the phone may download
    cookie,      \* the token the browser holds
    revisions,   \* copies written so far; names their revisions
    notice,      \* tabs that have not heard of a removal yet
    refresh,     \* the refresh of each tab
    user,        \* the pairing or removal of each tab
    scope        \* what this history is about

listVars    == <<listed, bearer, born, onDisk, backup, lost>>
grantVars   == <<listVars, devices, names, pairs, pairings, named, tokens>>
desktopVars == <<grantVars, permit, orders>>
storageVars == <<copies, fence, active, remembered, revisions, notice>>
vars == <<desktopVars, storageVars, cookie, refresh, user, scope>>

\* The name and the epoch a grant gives a profile are drawn together: one number.
Ids == 1 .. MaxGrants

Grant == [id : Ids, epoch : Ids, sequence : 0 .. MaxSequence]
\* A profile and which bearer of its id it is, for the properties.
Origin == Profiles \X Nat
Snapshot == [id : Ids, epoch : Ids, sequence : 1 .. MaxSequence, of : Origin]
Copy == [epoch : Ids, sequence : 1 .. MaxSequence, of : Origin, revision : Nat \ {0}]

ASSUME PhoneAssumption ==
    /\ {PairLimit, DeviceLimit, MaxPairings, MaxGrants, MaxSequence} \subseteq Nat
    /\ {MaxOrders, MaxRemovals} \subseteq [Histories -> Nat] /\ Scopes \subseteq Histories
    /\ None \notin Nat \cup Grant \cup Snapshot \cup Copy

RefreshSteps == {"remembered", "status", "answer", "prepare", "ask", "queued",
                 "built", "received", "encrypt", "select"}
NoRefresh == [pc |-> "idle", fence |-> 0, token |-> None, seen |-> {}, id |-> None,
              epoch |-> None, guard |-> 0, got |-> None, old |-> None, retired |-> FALSE]
NoUser == [pc |-> "idle", fence |-> 0, nr |-> None, id |-> None]

\* The list as profiles.json holds it.
Listing == [p \in listed |-> bearer[p]]
Granted == {p \in Profiles : names[p] # None}
===============================================================================
