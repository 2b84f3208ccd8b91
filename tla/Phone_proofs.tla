---------------------------- MODULE Phone_proofs -----------------------------
(* The phone's storage keeps what CopyRegister promises, and what the desktop     *)
(* granted stays what it was: nobody reads a profile that was deleted, a code     *)
(* makes one device, a name stands for one profile for ever, but for profiles     *)
(* that a restored earlier list took off; for every number of tabs, devices,      *)
(* profiles, pairings, grants and removals.                                       *)
EXTENDS Phone, FiniteSetTheorems, TLAPS

(* -- Saved copies --------------------------------------------------------- *)

\* What a refresh passed through before it may save.
Asking  == {"status", "answer", "prepare", "ask", "queued", "built", "received", "encrypt"}
Guarded == {"ask", "queued", "built", "received", "encrypt"}

\* No attempt is ahead of the storage: a removal ends them all.
Behind(x) == x.fence <= fence
\* A refresh that no removal ended found access remembered, and it still is.
RememberedSince(r) == r.pc \in Asking /\ r.fence = fence => remembered
\* A refresh saves under the fence it began under.
GuardKept(r) ==
    /\ r.pc \in Guarded => r.guard = r.fence
    /\ r.pc \in Guarded \cup {"prepare"} => r.id \in Ids
Received(r) == r.pc \in {"built", "received", "encrypt"} => r.got \in Snapshot
\* What was read is older than what came, and its revision names it alone.
ReadBefore(r) ==
    r.pc = "encrypt" /\ r.old # None =>
        /\ r.old.epoch = r.got.epoch /\ r.got.sequence > r.old.sequence
        /\ r.old.revision <= revisions
        /\ copies[r.id] # None /\ copies[r.id].revision = r.old.revision => copies[r.id] = r.old

RecordOK(r) == Behind(r) /\ RememberedSince(r) /\ GuardKept(r) /\ Received(r) /\ ReadBefore(r)
RefreshesOK == \A t \in Tabs : RecordOK(refresh[t])
UsersOK == \A t \in Tabs : Behind(user[t])
RevisionsUsed == \A id \in Ids : copies[id] # None => copies[id].revision <= revisions

IInv == TypeOK /\ RefreshesOK /\ UsersOK /\ RevisionsUsed /\ ActiveIsSaved
-------------------------------------------------------------------------------
(* Types *)

\* A command at the desktop leaves the phone alone.
LEMMA DesktopFrame == DesktopStep => UNCHANGED <<storageVars, cookie, refresh, user>>
  BY DEF DesktopStep, BeginPairing, Decide, CancelPairings, RewriteList, ResetRegistry,
         RestoreList, DeleteProfile, CreateProfile, RevokeDevice, RemoveGrant, TimePasses,
         AbandonedJob, Order, storageVars

\* A command at the desktop keeps what it keeps well formed.
LEMMA DesktopTypes == DesktopOK /\ DesktopStep => DesktopOK'
<1> SUFFICES ASSUME DesktopOK, DesktopStep PROVE DesktopOK'
  OBVIOUS
\* The list is written: the copy is the list as it was, or the copy there was.
<1>0. WriteList => backup' = None \/ (DOMAIN backup' \subseteq Profiles
                                      /\ \A p \in DOMAIN backup' : backup'[p] \in Nat)
  BY DEF DesktopOK, WriteList, Listing
<1>1. CASE BeginPairing
  <2>0. pairings + 1 \in Nat
    BY DEF DesktopOK
  <2>1. [nr |-> pairings + 1, claimed |-> FALSE, grants |-> None]
            \in [nr : Nat, claimed : BOOLEAN, grants : (SUBSET Profiles) \cup {None}]
    BY <2>0
  <2>2. /\ UNCHANGED <<listVars, names, tokens>> /\ pairings' = pairings + 1
        /\ pairs' = pairs \cup {[nr |-> pairings + 1, claimed |-> FALSE, grants |-> None]}
    BY <1>1 DEF BeginPairing
  <2> QED
    BY <2>1, <2>2 DEF DesktopOK, listVars
<1>2. CASE Decide
  <2>1. PICK pair \in pairs :
            \/ pairs' = pairs \ {pair}
            \/ \E g \in (SUBSET listed) \ {{}} :
                   pairs' = (pairs \ {pair}) \cup {[pair EXCEPT !.grants = g]}
    BY <1>2 DEF Decide
  <2>2. \A g \in SUBSET listed : [pair EXCEPT !.grants = g]
            \in [nr : Nat, claimed : BOOLEAN, grants : (SUBSET Profiles) \cup {None}]
    BY DEF DesktopOK
  <2> QED
    BY <1>2, <2>1, <2>2 DEF DesktopOK, Decide, listVars
<1>3. CASE CancelPairings
  BY <1>3 DEF DesktopOK, CancelPairings, listVars
<1>4. CASE ResetRegistry
  BY <1>4 DEF DesktopOK, ResetRegistry, Bear
<1>5. ASSUME NEW p \in Profiles, DeleteProfile(p) PROVE DesktopOK'
  BY <1>0, <1>5 DEF DesktopOK, DeleteProfile, DropProfile
<1>6. ASSUME NEW p \in Profiles, CreateProfile(p) PROVE DesktopOK'
  BY <1>0, <1>6 DEF DesktopOK, CreateProfile, Bear
<1>7. CASE RevokeDevice
  BY <1>7 DEF DesktopOK, RevokeDevice, listVars
<1>8. CASE RemoveGrant
  BY <1>8 DEF DesktopOK, RemoveGrant, listVars
<1>9. CASE TimePasses
  BY <1>9 DEF DesktopOK, TimePasses, listVars
<1>10. CASE AbandonedJob
  BY <1>10 DEF DesktopOK, AbandonedJob, grantVars, listVars
<1>11. CASE RewriteList
  BY <1>0, <1>11 DEF DesktopOK, RewriteList
<1>12. CASE RestoreList
  BY <1>12 DEF DesktopOK, RestoreList
<1> QED
  BY <1>1, <1>2, <1>3, <1>4, <1>5, <1>6, <1>7, <1>8, <1>9, <1>10, <1>11, <1>12 DEF DesktopStep

\* So do the phone's requests.
LEMMA RequestTypes ==
    ASSUME DesktopOK, NEW n, Redeem(n) \/ Complete(n) \/ Logout(n)
    PROVE  DesktopOK'
<1>1. CASE Redeem(n)
  <2>1. PICK pair \in pairs :
            pairs' = (pairs \ {pair}) \cup {[pair EXCEPT !.claimed = TRUE]}
    BY <1>1 DEF Redeem
  <2>2. [pair EXCEPT !.claimed = TRUE]
            \in [nr : Nat, claimed : BOOLEAN, grants : (SUBSET Profiles) \cup {None}]
    BY DEF DesktopOK
  <2> QED
    BY <1>1, <2>1, <2>2 DEF DesktopOK, Redeem, listVars
<1>2. CASE Complete(n)
  <2>1. PICK pair \in pairs : /\ pair.nr = n /\ pair.grants # None
                              /\ Register(n, pair.grants)
                              /\ pairs' = pairs \ {pair}
    BY <1>2 DEF Complete
  <2>2. PICK f \in NewNames(pair.grants) :
            names' = [p \in Profiles |-> IF p \in DOMAIN f THEN Name(f[p]) ELSE names[p]]
    BY <2>1 DEF Register
  <2>3. \A p \in DOMAIN f : f[p] \in Ids
    BY <2>2 DEF NewNames
  <2>4. \A id \in Ids : Name(id) \in Grant
    BY PhoneAssumption DEF Name, Grant
  <2>5. names' \in [Profiles -> Grant \cup {None}]
    BY <2>2, <2>3, <2>4 DEF DesktopOK
  <2>6. tokens' \in Nat
    BY <2>1 DEF Register, DesktopOK
  <2> QED
    BY <1>2, <2>1, <2>5, <2>6 DEF DesktopOK, Complete, listVars
<1>3. CASE Logout(n)
  BY <1>3 DEF DesktopOK, Logout, listVars
<1> QED
  BY <1>1, <1>2, <1>3
-------------------------------------------------------------------------------
(* The record of a tab's refresh *)

\* A refresh that changes goes on as the invariant says.
ChangesTo(t, r) == r \in RefreshRecord /\ RecordOK(r) /\ Set(t, r)

LEMMA NoRefreshOK == IInv => NoRefresh \in RefreshRecord /\ RecordOK(NoRefresh)
  BY DEF IInv, TypeOK, NoRefresh, RefreshRecord, RecordOK, Behind, RememberedSince, GuardKept,
         Received, ReadBefore, Asking, Guarded, DesktopOK

\* A profile is read under the name the request asked for, and its number is new.
LEMMA Built ==
    ASSUME IInv, NEW t \in Tabs, BuildSnapshot(t)
    PROVE  /\ \E r : ChangesTo(t, r)
           /\ DesktopOK'
<1> DEFINE p == Named(refresh[t].id)
           new == [names[p] EXCEPT !.sequence = @ + 1]
           got == [id |-> new.id, epoch |-> new.epoch, sequence |-> new.sequence,
                   of |-> <<p, bearer[p]>>]
           r == [refresh[t] EXCEPT !.pc = "built", !.got = got]
<1>1. p \in Granted
  BY DEF BuildSnapshot, Authorized, Named
<1>2. names[p] \in Grant /\ p \in Profiles /\ bearer[p] \in Nat
  BY <1>1 DEF IInv, TypeOK, DesktopOK, Granted
<1>3. /\ names[p].sequence < MaxSequence
      /\ names' = [names EXCEPT ![p] = new]
  BY <1>2 DEF BuildSnapshot, NextNumber
<1>4. new \in Grant /\ new.sequence \in 1 .. MaxSequence
  BY <1>2, <1>3, PhoneAssumption DEF Grant
<1>5. names'[p] = new
  BY <1>2, <1>3 DEF IInv, TypeOK, DesktopOK
<1>6. got \in Snapshot
  BY <1>2, <1>4 DEF Snapshot, Grant, Origin
<1>7. Set(t, r)
  BY <1>5 DEF BuildSnapshot
<1>8. refresh[t] \in RefreshRecord /\ RecordOK(refresh[t]) /\ refresh[t].pc = "queued"
  BY DEF IInv, TypeOK, RefreshesOK, BuildSnapshot, At
<1>9. r \in RefreshRecord
  BY <1>6, <1>8 DEF RefreshRecord, RefreshSteps
<1>10. /\ r.pc = "built" /\ r.got = got /\ r.fence = refresh[t].fence
       /\ r.guard = refresh[t].guard /\ r.id = refresh[t].id
  BY <1>8 DEF RefreshRecord
<1>11. RecordOK(r)
  BY <1>6, <1>8, <1>10 DEF RecordOK, Behind, RememberedSince, GuardKept, Received, ReadBefore,
                           Asking, Guarded
<1>12. DesktopOK'
  BY <1>2, <1>3, <1>4 DEF BuildSnapshot, IInv, TypeOK, DesktopOK, listVars
<1> QED
  BY <1>7, <1>9, <1>11, <1>12 DEF ChangesTo

\* What a status answer chooses is a refresh of the grant it names.
LEMMA ChooseOK ==
    ASSUME NEW r \in RefreshRecord, NEW name \in Grant
    PROVE  /\ Choose(r, name) \in RefreshRecord
           /\ Choose(r, name).pc \in {"prepare", "approve"}
           /\ Choose(r, name).fence = r.fence /\ Choose(r, name).id \in Ids
<1>1. PICK pc \in {"prepare", "approve"} :
          Choose(r, name) = [r EXCEPT !.id = name.id, !.epoch = name.epoch, !.seen = {},
                                      !.token = None, !.pc = pc]
  BY DEF Choose
<1>2. name.id \in Ids /\ name.epoch \in Ids
  BY DEF Grant
<1> QED
  BY <1>1, <1>2 DEF RefreshRecord, RefreshSteps

\* Each step of a refresh but the saving leads to a record the invariant allows.
LEMMA Goes ==
    ASSUME IInv, NEW t \in Tabs, RefreshStep(t), ~Save(t)
    PROVE  \E r : ChangesTo(t, r)
<1> USE DEF ChangesTo, Go
<1>1. refresh[t] \in RefreshRecord /\ RecordOK(refresh[t])
  BY DEF IInv, TypeOK, RefreshesOK
<1>2. ASSUME Refreshed(t) PROVE \E r : ChangesTo(t, r)
  BY <1>2, NoRefreshOK DEF Refreshed
<1> USE DEF At, RecordOK, Behind, RememberedSince, GuardKept, Received, ReadBefore, Asking, Guarded
<1>3. CASE StartRefresh(t)
  <2> DEFINE r == [NoRefresh EXCEPT !.pc = "remembered", !.fence = fence]
  <2>1. r \in RefreshRecord
    BY NoRefreshOK DEF RefreshRecord, RefreshSteps, IInv, TypeOK
  <2>2. r.pc = "remembered" /\ r.fence = fence
    BY NoRefreshOK DEF RefreshRecord
  <2>3. Set(t, r)
    BY <1>3 DEF StartRefresh
  <2> HIDE DEF r
  <2>4. RecordOK(r)
    BY <2>2 DEF IInv, TypeOK
  <2> QED
    BY <2>1, <2>3, <2>4
<1>4. CASE CheckRemembered(t)
  <2>1. [refresh[t] EXCEPT !.pc = "status"] \in RefreshRecord
    BY <1>1 DEF RefreshRecord, RefreshSteps
  <2> QED
    BY <1>1, <1>2, <1>4, <2>1 DEF CheckRemembered, RefreshRecord
<1>5. CASE AskStatus(t)
  <2> DEFINE seen == {names[p] : p \in DeviceOf(cookie).grants \cap listed \cap Granted}
  <2>1. seen \subseteq Grant
    BY DEF IInv, TypeOK, DesktopOK, Granted
  <2>2. [refresh[t] EXCEPT !.pc = "answer", !.token = cookie, !.seen = seen] \in RefreshRecord
    BY <1>1, <2>1 DEF RefreshRecord, RefreshSteps, IInv, TypeOK
  <2> QED
    BY <1>1, <1>2, <1>5, <2>2 DEF AskStatus, RefreshRecord
<1>6. CASE StatusArrives(t)
  <2>1. CASE Refreshed(t)
    BY <1>2, <2>1
  <2>2. CASE remembered /\ \E name \in refresh[t].seen : Set(t, Choose(refresh[t], name))
    <3>1. PICK name \in Grant : Set(t, Choose(refresh[t], name))
      BY <1>1, <2>2 DEF RefreshRecord
    <3>2. /\ Choose(refresh[t], name) \in RefreshRecord
          /\ Choose(refresh[t], name).pc \in {"prepare", "approve"}
          /\ Choose(refresh[t], name).fence = refresh[t].fence
          /\ Choose(refresh[t], name).id \in Ids
      BY ONLY <1>1, ChooseOK, name \in Grant
    <3> QED
      BY <1>1, <2>2, <3>1, <3>2
  <2> QED
    BY <1>6, <2>1, <2>2 DEF StatusArrives
<1>7. CASE Prepare(t)
  <2>1. [refresh[t] EXCEPT !.pc = "ask", !.guard = fence] \in RefreshRecord
    BY <1>1 DEF RefreshRecord, RefreshSteps, IInv, TypeOK
  <2> QED
    BY <1>1, <1>2, <1>7, <2>1 DEF Prepare, RefreshRecord
<1>8. CASE AskSnapshot(t)
  <2>1. [refresh[t] EXCEPT !.pc = "queued", !.token = cookie] \in RefreshRecord
    BY <1>1 DEF RefreshRecord, RefreshSteps, IInv, TypeOK
  <2> QED
    BY <1>1, <1>2, <1>8, <2>1 DEF AskSnapshot, RefreshRecord
<1>9. CASE BuildSnapshot(t)
  BY <1>9, Built
<1>10. CASE DeliverSnapshot(t)
  <2>1. [refresh[t] EXCEPT !.pc = "received", !.token = None, !.retired = FALSE] \in RefreshRecord
    BY <1>1 DEF RefreshRecord, RefreshSteps
  <2> QED
    BY <1>1, <1>2, <1>10, <2>1 DEF DeliverSnapshot, RefreshRecord
<1>11. CASE ReadSaved(t)
  <2> DEFINE old == copies[refresh[t].id]
             r == [refresh[t] EXCEPT !.pc = "encrypt", !.old = old]
  <2>1. CASE Refreshed(t)
    BY <1>2, <2>1
  <2>2. CASE Set(t, r) /\ MayReplace(refresh[t]) /\ At(t, "received")
    <3>1. refresh[t].id \in Ids /\ old \in Copy \cup {None}
      BY <1>1, <2>2 DEF IInv, TypeOK
    <3>2. r \in RefreshRecord
      BY <1>1, <3>1 DEF RefreshRecord, RefreshSteps
    <3>3. r.pc = "encrypt" /\ r.old = old /\ r.fence = refresh[t].fence
          /\ r.guard = refresh[t].guard /\ r.id = refresh[t].id /\ r.got = refresh[t].got
      BY <1>1 DEF RefreshRecord
    <3>4. old # None => /\ old.epoch = r.got.epoch /\ r.got.sequence > old.sequence
                        /\ old.revision <= revisions
      BY <2>2, <3>1, <3>3 DEF MayReplace, IInv, RevisionsUsed
    <3>5. r.got \in Snapshot
      BY <1>1, <2>2, <3>3
    <3> HIDE DEF r, old
    <3>6. old = copies[r.id]
      BY <3>3 DEF old
    <3>7. RecordOK(r)
      BY <1>1, <2>2, <3>1, <3>3, <3>4, <3>5, <3>6
    <3> QED
      BY <2>2, <3>2, <3>7
  <2> QED
    BY <1>11, <2>1, <2>2 DEF ReadSaved
<1>12. CASE ShowRefreshed(t)
  BY <1>2, <1>12 DEF ShowRefreshed
<1>13. CASE GiveUp(t)
  BY <1>2, <1>13 DEF GiveUp
<1> QED
  BY <1>3, <1>4, <1>5, <1>6, <1>7, <1>8, <1>9, <1>10, <1>11, <1>12, <1>13 DEF RefreshStep
-------------------------------------------------------------------------------
(* Every step keeps the invariant, and is a step of the register or none of its own *)

StepOK == IInv' /\ [Saved!Next]_(Saved!vars)

\* Attempts that go on or end one at a time.
LEMMA OneAttempt ==
    ASSUME NEW a \in Tabs \X {"refresh", "pairing"}, UNCHANGED <<copies, remembered>>,
           \A b \in (Tabs \X {"refresh", "pairing"}) \ {a} : b \in Live' <=> b \in Live
    PROVE  [Saved!Next]_(Saved!vars)
<1>1. Live \subseteq Tabs \X {"refresh", "pairing"} /\ Live' \subseteq Tabs \X {"refresh", "pairing"}
  BY DEF Live
<1>2. CASE a \in Live'
  <2>1. Live' = Live \cup {a}
    BY <1>1, <1>2
  <2>2. Saved!Begin(a)
    BY <2>1 DEF Saved!Begin
  <2> QED
    BY <2>2 DEF Saved!Next
<1>3. CASE a \notin Live'
  <2>1. Live' = Live \ {a}
    BY <1>1, <1>3
  <2>2. Saved!End(a)
    BY <2>1 DEF Saved!End
  <2> QED
    BY <2>2 DEF Saved!Next
<1> QED
  BY <1>2, <1>3

\* A refresh that changes with nothing saved.
LEMMA RefreshChanges ==
    ASSUME IInv, NEW t \in Tabs, NEW r, ChangesTo(t, r),
           UNCHANGED <<copies, fence, remembered, revisions, user>>,
           DesktopOK', active' \in Ids \cup {None}, ActiveIsSaved', cookie' \in Nat \cup {None}
    PROVE  StepOK
<1>1. /\ refresh' \in [Tabs -> RefreshRecord] /\ refresh'[t] = r
      /\ \A u \in Tabs \ {t} : refresh'[u] = refresh[u]
  BY DEF ChangesTo, Set, IInv, TypeOK
<1>2. TypeOK'
  BY <1>1 DEF IInv, TypeOK
<1>3. RecordOK(r) /\ \A u \in Tabs : RecordOK(refresh[u])
  BY DEF IInv, RefreshesOK, ChangesTo
<1>4. RefreshesOK'
  BY <1>1, <1>3 DEF RefreshesOK, RecordOK, Behind, RememberedSince, GuardKept, Received, ReadBefore
<1>5. UsersOK' /\ RevisionsUsed'
  BY DEF IInv, UsersOK, RevisionsUsed, Behind
<1>6. \A b \in (Tabs \X {"refresh", "pairing"}) \ {<<t, "refresh">>} : b \in Live' <=> b \in Live
  BY <1>1 DEF Live, At
<1>7. [Saved!Next]_(Saved!vars)
  <2>1. <<t, "refresh">> \in Tabs \X {"refresh", "pairing"}
    OBVIOUS
  <2> QED
    BY <1>6, <2>1, OneAttempt
<1> QED
  BY <1>2, <1>4, <1>5, <1>7 DEF StepOK, IInv

LEMMA RefreshStepOK ==
    ASSUME IInv, NEW t \in Tabs, RefreshStep(t), ~Save(t)
    PROVE  StepOK
<1>1. PICK r : ChangesTo(t, r)
  BY Goes
<1>2. UNCHANGED <<copies, fence, remembered, revisions, user>>
  BY DEF RefreshStep, StartRefresh, CheckRemembered, AskStatus, StatusArrives, Prepare,
         AskSnapshot, BuildSnapshot, DeliverSnapshot, ReadSaved, ShowRefreshed, GiveUp,
         SelectCopy, storageVars
<1>3. active' \in Ids \cup {None} /\ ActiveIsSaved'
  <2>1. refresh[t] \in RefreshRecord
    BY DEF IInv, TypeOK
  <2>2. active' = active \/ (active' = refresh[t].id /\ copies[refresh[t].id] # None)
    BY DEF RefreshStep, StartRefresh, CheckRemembered, AskStatus, StatusArrives, Prepare,
           AskSnapshot, BuildSnapshot, DeliverSnapshot, ReadSaved, ShowRefreshed, GiveUp,
           SelectCopy, storageVars
  <2> QED
    BY <1>2, <2>1, <2>2 DEF RefreshRecord, IInv, TypeOK, ActiveIsSaved
<1>4. cookie' \in Nat \cup {None}
  <2>1. refresh[t] \in RefreshRecord
    BY DEF IInv, TypeOK
  <2>2. cookie' = cookie \/ cookie' = refresh[t].token
    BY DEF RefreshStep, StartRefresh, CheckRemembered, AskStatus, StatusArrives, Prepare,
           AskSnapshot, BuildSnapshot, DeliverSnapshot, ReadSaved, ShowRefreshed, GiveUp
  <2> QED
    BY <2>1, <2>2 DEF RefreshRecord, IInv, TypeOK
<1>5. DesktopOK'
  <2>1. CASE BuildSnapshot(t)
    BY <2>1, Built
  <2>2. CASE ~BuildSnapshot(t)
    <3>1. UNCHANGED grantVars
      BY <2>2 DEF RefreshStep, StartRefresh, CheckRemembered, AskStatus, StatusArrives, Prepare,
             AskSnapshot, DeliverSnapshot, ReadSaved, ShowRefreshed, GiveUp,
             desktopVars, grantVars
    <3> QED
      BY <3>1 DEF grantVars, listVars, DesktopOK, IInv, TypeOK
  <2> QED
    BY <2>1, <2>2
<1> QED
  BY <1>1, <1>2, <1>3, <1>4, <1>5, RefreshChanges

\* Saving: what was read is still there, so it is older; the refresh began after the last
\* removal, so access is remembered.
LEMMA SaveStepOK ==
    ASSUME IInv, NEW t \in Tabs, At(t, "encrypt"), StillAsRead(refresh[t]), SaveCopy(refresh[t]),
           Set(t, [NoRefresh EXCEPT !.pc = "select", !.fence = refresh[t].fence,
                                    !.id = refresh[t].id]),
           UNCHANGED <<desktopVars, cookie, user>>
    PROVE  StepOK
<1> DEFINE r == refresh[t]
           c == [epoch |-> r.got.epoch, sequence |-> r.got.sequence, of |-> r.got.of,
                 revision |-> revisions + 1]
           s == [NoRefresh EXCEPT !.pc = "select", !.fence = r.fence, !.id = r.id]
<1>1. r \in RefreshRecord /\ RecordOK(r) /\ r.pc = "encrypt"
  BY DEF IInv, TypeOK, RefreshesOK, At
<1>2. r.got \in Snapshot /\ r.id \in Ids /\ r.guard = r.fence /\ fence = r.fence /\ remembered
  BY <1>1 DEF RecordOK, Received, GuardKept, RememberedSince, Guarded, Asking, StillAsRead
<1>3. s \in RefreshRecord /\ s.pc = "select" /\ s.fence = r.fence
  BY <1>1, NoRefreshOK DEF RefreshRecord, RefreshSteps
<1>4. c \in Copy /\ c # None /\ c.revision = revisions + 1
  BY <1>2, PhoneAssumption DEF Copy, Snapshot, IInv, TypeOK
<1>5. /\ copies' = [copies EXCEPT ![r.id] = c]
      /\ revisions' = revisions + 1
      /\ active' = IF active = None THEN r.id ELSE active
      /\ UNCHANGED <<fence, remembered, notice>>
  BY DEF SaveCopy
<1>6. refresh' = [refresh EXCEPT ![t] = s]
  BY DEF Set
<1>7. UNCHANGED <<listVars, names, tokens, pairs, pairings, cookie, user>>
  BY DEF desktopVars, grantVars
<1>8. copies[r.id] # None => /\ copies[r.id].epoch = c.epoch
                             /\ c.sequence > copies[r.id].sequence
  BY <1>1, <1>2 DEF RecordOK, ReadBefore, StillAsRead
<1> HIDE DEF r, c, s
<1>9. copies' \in [Ids -> Copy \cup {None}] /\ copies'[r.id] = c
      /\ \A id \in Ids \ {r.id} : copies'[id] = copies[id]
  BY <1>2, <1>4, <1>5 DEF IInv, TypeOK
<1>10. refresh' \in [Tabs -> RefreshRecord] /\ refresh'[t] = s
       /\ \A u \in Tabs \ {t} : refresh'[u] = refresh[u]
  BY <1>3, <1>6 DEF IInv, TypeOK
<1>11. TypeOK'
  BY <1>2, <1>5, <1>7, <1>9, <1>10 DEF IInv, TypeOK, DesktopOK, listVars
<1>12. RefreshesOK'
  <2> SUFFICES ASSUME NEW u \in Tabs PROVE RecordOK(refresh[u])'
    BY DEF RefreshesOK
  <2>1. CASE u = t
    <3>1. Behind(r)
      BY <1>1 DEF RecordOK
    <3> QED
      BY <1>3, <1>5, <1>10, <2>1, <3>1
         DEF RecordOK, Behind, RememberedSince, GuardKept, Received, ReadBefore, Asking, Guarded
  <2>2. CASE u # t
    <3>1. RecordOK(refresh[u]) /\ refresh'[u] = refresh[u] /\ refresh[u] \in RefreshRecord
      BY <1>10, <2>2 DEF IInv, RefreshesOK, TypeOK
    <3>2. ReadBefore(refresh[u])'
      <4> SUFFICES ASSUME refresh[u].pc = "encrypt", refresh[u].old # None
                   PROVE  ReadBefore(refresh[u])'
        BY <3>1 DEF ReadBefore
      <4>1. refresh[u].id \in Ids /\ refresh[u].old \in Copy
        BY <3>1 DEF RecordOK, GuardKept, Guarded, RefreshRecord
      <4>2. refresh[u].old.revision \in Nat /\ revisions \in Nat
        BY <4>1 DEF Copy, IInv, TypeOK
      <4>3. refresh[u].old.revision <= revisions
        BY <3>1 DEF RecordOK, ReadBefore
      <4>4. CASE refresh[u].id = r.id
        BY <1>4, <1>5, <1>9, <3>1, <4>2, <4>3, <4>4 DEF RecordOK, ReadBefore
      <4>5. CASE refresh[u].id # r.id
        BY <1>5, <1>9, <3>1, <4>1, <4>2, <4>3, <4>5 DEF RecordOK, ReadBefore
      <4> QED
        BY <4>4, <4>5
    <3> QED
      BY <1>5, <3>1, <3>2 DEF RecordOK, Behind, RememberedSince, GuardKept, Received
  <2> QED
    BY <2>1, <2>2
<1>13. UsersOK'
  BY <1>5, <1>7 DEF IInv, UsersOK, Behind
<1>14. RevisionsUsed'
  <2> SUFFICES ASSUME NEW id \in Ids, copies'[id] # None
               PROVE  copies'[id].revision <= revisions'
    BY DEF RevisionsUsed
  <2>1. revisions \in Nat
    BY DEF IInv, TypeOK
  <2>2. CASE id = r.id
    BY <1>4, <1>5, <1>9, <2>1, <2>2
  <2>3. CASE id # r.id
    <3>1. copies[id] \in Copy /\ copies[id].revision <= revisions
      BY <1>9, <2>3 DEF IInv, TypeOK, RevisionsUsed
    <3>2. copies[id].revision \in Nat
      BY <3>1 DEF Copy
    <3> QED
      BY <1>5, <1>9, <2>1, <2>3, <3>1, <3>2
  <2> QED
    BY <2>2, <2>3
<1>15. ActiveIsSaved'
  BY <1>2, <1>4, <1>5, <1>9 DEF IInv, TypeOK, ActiveIsSaved
<1>16. [Saved!Next]_(Saved!vars)
  <2> DEFINE a == <<t, "refresh">>
  <2>1. a \in Live
    BY <1>1, <1>2 DEF Live, At, r
  <2>2. Live' = Live
    BY <1>1, <1>2, <1>3, <1>5, <1>7, <1>10 DEF Live, At, r
  <2>3. copies' = [copies EXCEPT ![r.id] = copies'[r.id]]
    BY <1>5, <1>9
  <2>4. Saved!Newer(copies'[r.id], copies[r.id])
    BY <1>8, <1>9 DEF Saved!Newer
  <2>5. Saved!Save(a, r.id)
    BY <1>2, <1>4, <1>5, <1>9, <2>1, <2>2, <2>3, <2>4 DEF Saved!Save
  <2>6. a \in Tabs \X {"refresh", "pairing"}
    OBVIOUS
  <2> QED
    BY <1>2, <2>5, <2>6 DEF Saved!Next
<1> QED
  BY <1>11, <1>12, <1>13, <1>14, <1>15, <1>16 DEF StepOK, IInv

UserOK(u) == u \in UserRecord /\ Behind(u) /\ (u.pc = "remove" => u.id \in Ids)
\* The refreshes are the same but for being retired.
Retired == /\ refresh' \in [Tabs -> RefreshRecord]
           /\ \A v \in Tabs : \/ refresh'[v] = refresh[v]
                              \/ refresh'[v] = [refresh[v] EXCEPT !.retired = TRUE]

LEMMA NoUserOK == IInv => UserOK(NoUser) /\ NoUser.pc = "idle"
  BY DEF IInv, TypeOK, NoUser, UserOK, UserRecord, Behind

LEMMA RetireOK == ASSUME IInv, NEW T, refresh' = Retire(T) PROVE Retired
<1> SUFFICES ASSUME NEW v \in Tabs
             PROVE  /\ refresh'[v] \in RefreshRecord
                    /\ \/ refresh'[v] = refresh[v]
                       \/ refresh'[v] = [refresh[v] EXCEPT !.retired = TRUE]
  BY DEF Retired, Retire
<1>1. refresh[v] \in RefreshRecord
  BY DEF IInv, TypeOK
<1>2. [refresh[v] EXCEPT !.retired = TRUE] \in RefreshRecord
  BY <1>1 DEF RefreshRecord
<1> QED
  BY <1>1, <1>2 DEF Retire

\* What the invariant says of a refresh does not depend on its being retired.
LEMMA RetiredOK ==
    ASSUME IInv, Retired, NEW v \in Tabs
    PROVE  /\ refresh'[v].pc = refresh[v].pc /\ refresh'[v].fence = refresh[v].fence
           /\ refresh'[v].guard = refresh[v].guard /\ refresh'[v].id = refresh[v].id
           /\ refresh'[v].got = refresh[v].got /\ refresh'[v].old = refresh[v].old
<1>1. refresh[v] \in RefreshRecord
  BY DEF IInv, TypeOK
<1> QED
  BY <1>1 DEF RefreshRecord, Retired

\* A pairing or a removal that changes, with nothing saved or removed.
LEMMA UserChanges ==
    ASSUME IInv, NEW t \in Tabs, NEW u, UserOK(u), user' = [user EXCEPT ![t] = u], Retired,
           UNCHANGED <<copies, fence, remembered, revisions, active>>,
           DesktopOK', cookie' \in Nat \cup {None}
    PROVE  StepOK
<1>1. /\ user' \in [Tabs -> UserRecord] /\ user'[t] = u
      /\ \A v \in Tabs \ {t} : user'[v] = user[v]
  BY DEF UserOK, IInv, TypeOK
<1>2. TypeOK'
  BY <1>1 DEF IInv, TypeOK, Retired, UserOK
<1>3. RefreshesOK'
  <2> SUFFICES ASSUME NEW v \in Tabs PROVE RecordOK(refresh[v])'
    BY DEF RefreshesOK
  <2>1. RecordOK(refresh[v])
    BY DEF IInv, RefreshesOK
  <2> QED
    BY <2>1, RetiredOK
       DEF RecordOK, Behind, RememberedSince, GuardKept, Received, ReadBefore
<1>4. UsersOK' /\ RevisionsUsed' /\ ActiveIsSaved'
  BY <1>1 DEF IInv, UsersOK, UserOK, RevisionsUsed, ActiveIsSaved, Behind
<1>5. \A b \in (Tabs \X {"refresh", "pairing"}) \ {<<t, "pairing">>} : b \in Live' <=> b \in Live
  BY <1>1, RetiredOK DEF Live, At
<1>6. [Saved!Next]_(Saved!vars)
  <2>1. <<t, "pairing">> \in Tabs \X {"refresh", "pairing"}
    OBVIOUS
  <2> QED
    BY <1>5, <2>1, OneAttempt
<1> QED
  BY <1>2, <1>3, <1>4, <1>6 DEF StepOK, IInv

\* Access is remembered for a pairing that began after the last removal.
LEMMA RememberStepOK ==
    ASSUME IInv, NEW t \in Tabs, Doing(t, "remember"), Done(t), Remember(user[t].fence),
           UNCHANGED <<copies, fence, active, revisions, desktopVars, cookie, refresh>>
    PROVE  StepOK
<1>1. UserOK(NoUser) /\ NoUser.pc = "idle"
  BY NoUserOK
<1>2. /\ user' \in [Tabs -> UserRecord] /\ user'[t] = NoUser
      /\ \A v \in Tabs \ {t} : user'[v] = user[v]
  BY <1>1 DEF Done, SetUser, UserOK, IInv, TypeOK
<1>3. UNCHANGED <<listVars, names, tokens, pairs, pairings>> /\ remembered' = TRUE
  BY DEF desktopVars, grantVars, Remember
<1>4. TypeOK'
  BY <1>1, <1>2, <1>3 DEF IInv, TypeOK, DesktopOK, listVars, UserOK
<1>5. RefreshesOK'
  BY <1>3 DEF IInv, RefreshesOK, RecordOK, Behind, RememberedSince, GuardKept, Received, ReadBefore
<1>6. UsersOK' /\ RevisionsUsed' /\ ActiveIsSaved'
  BY <1>1, <1>2 DEF IInv, UsersOK, UserOK, RevisionsUsed, ActiveIsSaved, Behind
<1>7. Saved!Remember(<<t, "pairing">>)
  <2>1. <<t, "pairing">> \in Live
    BY DEF Live, Doing, Remember
  <2>2. Live' = Live \ {<<t, "pairing">>}
    <3>1. \A b \in Tabs \X {"refresh", "pairing"} :
              b \in Live' <=> b \in Live \ {<<t, "pairing">>}
      BY <1>1, <1>2 DEF Live, At
    <3> QED
      BY <3>1 DEF Live
  <2> QED
    BY <1>3, <2>1, <2>2 DEF Saved!Remember
<1>8. <<t, "pairing">> \in Tabs \X {"refresh", "pairing"}
  OBVIOUS
<1> QED
  BY <1>4, <1>5, <1>6, <1>7, <1>8 DEF StepOK, IInv, Saved!Next

\* A removal is ahead of every attempt under way.
LEMMA RemovalStepOK ==
    ASSUME IInv, NEW t \in Tabs, NEW u, UserOK(u), u.pc \in {"idle", "logout"},
           user' = [user EXCEPT ![t] = u], fence' = fence + 1,
           UNCHANGED <<revisions, desktopVars, cookie, refresh>>,
           \/ \E id \in Ids : /\ copies' = [copies EXCEPT ![id] = None]
                              /\ active' = IF active = id THEN None ELSE active
                              /\ UNCHANGED remembered
           \/ /\ copies' = [id \in Ids |-> None]
              /\ active' = None /\ remembered' = FALSE
    PROVE  StepOK
<1>1. /\ user' \in [Tabs -> UserRecord] /\ user'[t] = u
      /\ \A v \in Tabs \ {t} : user'[v] = user[v]
  BY DEF UserOK, IInv, TypeOK
<1>2. copies' \in [Ids -> Copy \cup {None}] /\ \A id \in Ids : copies'[id] \in {copies[id], None}
  BY DEF IInv, TypeOK
<1>3. active' \in Ids \cup {None} /\ remembered' \in BOOLEAN /\ fence' \in Nat
  <2>1. active' \in Ids \cup {None} /\ fence' \in Nat
    BY DEF IInv, TypeOK
  <2>2. remembered' = remembered \/ remembered' = FALSE
    OBVIOUS
  <2>3. remembered' \in BOOLEAN
    BY <2>2, Zenon DEF IInv, TypeOK
  <2> QED
    BY <2>1, <2>3
<1>4. UNCHANGED <<listVars, names, tokens, pairs, pairings>>
  BY DEF desktopVars, grantVars
<1>5. TypeOK'
  BY <1>1, <1>2, <1>3, <1>4 DEF IInv, TypeOK, DesktopOK, listVars, UserOK
<1>6. \A v \in Tabs : Behind(refresh[v]) /\ refresh[v].fence \in Nat
                      /\ user'[v].fence <= fence /\ user'[v].fence \in Nat
  <2> SUFFICES ASSUME NEW v \in Tabs PROVE Behind(refresh[v]) /\ refresh[v].fence \in Nat
                      /\ user'[v].fence <= fence /\ user'[v].fence \in Nat
    OBVIOUS
  <2>1. refresh[v] \in RefreshRecord /\ user'[v] \in UserRecord
    BY <1>1 DEF IInv, TypeOK
  <2>2. Behind(refresh[v]) /\ user'[v].fence <= fence
    BY <1>1 DEF IInv, RefreshesOK, UsersOK, RecordOK, UserOK, Behind
  <2> QED
    BY <2>1, <2>2 DEF RefreshRecord, UserRecord
<1>7. fence \in Nat
  BY DEF IInv, TypeOK
<1>8. RefreshesOK'
  <2> SUFFICES ASSUME NEW v \in Tabs PROVE RecordOK(refresh[v])'
    BY DEF RefreshesOK
  <2>1. RecordOK(refresh[v]) /\ refresh[v] \in RefreshRecord
    BY DEF IInv, RefreshesOK, TypeOK
  <2>2. ReadBefore(refresh[v])'
    BY <1>2, <2>1 DEF RecordOK, ReadBefore, GuardKept, Guarded
  <2> QED
    BY <1>6, <1>7, <2>1, <2>2 DEF RecordOK, Behind, RememberedSince, GuardKept, Received
<1>9. UsersOK' /\ RevisionsUsed'
  BY <1>2, <1>6, <1>7 DEF UsersOK, Behind, IInv, RevisionsUsed
<1>10. ActiveIsSaved'
  BY <1>2 DEF IInv, TypeOK, ActiveIsSaved
<1>11. Live' = {}
  BY <1>1, <1>6, <1>7 DEF Live, Behind
<1>12. Saved!Next
  BY <1>11 DEF Saved!Next, Saved!Remove, Saved!Forget
<1> QED
  BY <1>5, <1>8, <1>9, <1>10, <1>12 DEF StepOK, IInv

LEMMA UserStepOK ==
    ASSUME IInv, NEW t \in Tabs, UserStep(t)
    PROVE  StepOK
<1>1. user[t] \in UserRecord /\ Behind(user[t])
  BY DEF IInv, TypeOK, UsersOK
<1>2. UserOK(NoUser) /\ NoUser.pc = "idle"
  BY NoUserOK
<1>3. UNCHANGED refresh => Retired
  BY DEF Retired, IInv, TypeOK
<1>4. DesktopOK /\ (UNCHANGED grantVars => DesktopOK')
  BY DEF IInv, TypeOK, DesktopOK, grantVars, listVars
\* What most of these steps have in common.
<1>5. ASSUME NEW u, UserOK(u), SetUser(t, u), Retired, DesktopOK', cookie' \in Nat \cup {None},
             UNCHANGED <<copies, fence, remembered, revisions, active>>
      PROVE  StepOK
  BY <1>5, UserChanges DEF SetUser
<1>6. ASSUME NEW pc \in {"old", "redeem", "poll", "paired", "remember"}, NEW n \in Nat \cup {None},
             NEW id \in Nat \cup {None}
      PROVE  /\ UserOK([user[t] EXCEPT !.pc = pc])
             /\ UserOK([user[t] EXCEPT !.pc = pc, !.nr = n])
             /\ UserOK([user[t] EXCEPT !.pc = pc, !.id = id])
             /\ UserOK([NoUser EXCEPT !.pc = pc, !.fence = fence])
  <2>1. ASSUME NEW r \in UserRecord, Behind(r)
        PROVE  /\ UserOK([r EXCEPT !.pc = pc]) /\ UserOK([r EXCEPT !.pc = pc, !.nr = n])
               /\ UserOK([r EXCEPT !.pc = pc, !.id = id])
    <3>1. UserOK([r EXCEPT !.pc = pc])
      BY <2>1 DEF UserOK, UserRecord, Behind
    <3>2. UserOK([r EXCEPT !.pc = pc, !.nr = n])
      BY <2>1 DEF UserOK, UserRecord, Behind
    <3>3. UserOK([r EXCEPT !.pc = pc, !.id = id])
      BY <2>1 DEF UserOK, UserRecord, Behind
    <3> QED
      BY <3>1, <3>2, <3>3
  <2>2. ASSUME NEW r \in UserRecord PROVE UserOK([r EXCEPT !.pc = pc, !.fence = fence])
    <3>1. fence \in Nat
      BY DEF IInv, TypeOK
    <3>2. [r EXCEPT !.pc = pc, !.fence = fence] \in UserRecord
      BY <2>2, <3>1 DEF UserRecord
    <3>3. /\ [r EXCEPT !.pc = pc, !.fence = fence].fence = fence
          /\ [r EXCEPT !.pc = pc, !.fence = fence].pc # "remove"
      BY <2>2 DEF UserRecord
    <3> QED
      BY <3>1, <3>2, <3>3 DEF UserOK, Behind
  <2>3. NoUser \in UserRecord
    BY <1>2 DEF UserOK
  <2> QED
    BY <1>1, <2>1, <2>2, <2>3
<1>7. cookie \in Nat \cup {None}
  BY DEF IInv, TypeOK
<1>8. CASE StartPairing(t)
  BY <1>3, <1>4, <1>5, <1>6, <1>7, <1>8 DEF StartPairing, desktopVars, storageVars
<1>9. CASE LeaveOldAccess(t)
  <2>1. UserOK([user[t] EXCEPT !.pc = "redeem"])
    BY <1>6
  <2>2. /\ SetUser(t, [user[t] EXCEPT !.pc = "redeem"]) \/ SetUser(t, NoUser)
        /\ cookie' \in {None, cookie} /\ UNCHANGED <<refresh, storageVars>>
        /\ Logout(cookie) \/ UNCHANGED grantVars
    BY <1>9 DEF LeaveOldAccess, Done, Turn
  <2>3. DesktopOK'
    BY <1>4, <2>2, RequestTypes
  <2> QED
    BY <1>2, <1>3, <1>5, <1>7, <2>1, <2>2, <2>3 DEF storageVars
<1>10. ASSUME NEW n \in 1 .. pairings, RedeemCode(t, n) PROVE StepOK
  <2>1. n \in Nat
    BY DEF IInv, TypeOK, DesktopOK
  <2>2. UserOK([user[t] EXCEPT !.pc = "poll", !.nr = n])
    BY <1>6, <2>1
  <2>3. /\ SetUser(t, [user[t] EXCEPT !.pc = "poll", !.nr = n]) \/ SetUser(t, NoUser)
        /\ UNCHANGED <<storageVars, cookie, refresh>> /\ Redeem(n)
    BY <1>10 DEF RedeemCode, Done
  <2>4. DesktopOK'
    BY <1>4, <2>3, RequestTypes
  <2> QED
    BY <1>2, <1>3, <1>5, <1>7, <2>2, <2>3, <2>4 DEF storageVars
<1>11. CASE PollPairing(t)
  <2>1. /\ SetUser(t, [user[t] EXCEPT !.pc = "paired", !.id = tokens']) \/ SetUser(t, NoUser)
        /\ UNCHANGED <<storageVars, cookie, refresh>> /\ Complete(user[t].nr)
    BY <1>11 DEF PollPairing, Done
  <2>2. DesktopOK'
    BY <1>4, <2>1, RequestTypes
  <2>3. tokens' \in Nat
    BY <2>2 DEF DesktopOK
  <2>4. UserOK([user[t] EXCEPT !.pc = "paired", !.id = tokens'])
    BY <1>1, <2>3 DEF UserOK, UserRecord, Behind
  <2> QED
    BY <1>2, <1>3, <1>5, <1>7, <2>1, <2>2, <2>4 DEF storageVars
<1>12. CASE PairingArrives(t)
  <2>1. UserOK([user[t] EXCEPT !.pc = "remember"])
    BY <1>6
  <2>2. /\ SetUser(t, [user[t] EXCEPT !.pc = "remember"]) \/ SetUser(t, NoUser)
        /\ cookie' = user[t].id /\ UNCHANGED <<storageVars, refresh, grantVars>>
    BY <1>12 DEF PairingArrives, Done, Turn, desktopVars
  <2>3. cookie' \in Nat \cup {None}
    BY <1>1, <2>2 DEF UserRecord
  <2> QED
    BY <1>2, <1>3, <1>4, <1>5, <2>1, <2>2, <2>3 DEF storageVars
<1>13. CASE RememberAccess(t)
  <2>1. CASE UNCHANGED storageVars
    BY <1>2, <1>3, <1>4, <1>5, <1>7, <1>13, <2>1
       DEF RememberAccess, Done, storageVars, desktopVars
  <2>2. CASE Remember(user[t].fence) /\ UNCHANGED <<copies, fence, active, revisions, notice>>
    BY <1>13, <2>2, RememberStepOK DEF RememberAccess
  <2> QED
    BY <1>13, <2>1, <2>2 DEF RememberAccess
<1>14. CASE AskRemoval(t)
  <2>1. PICK u : UserOK(u) /\ SetUser(t, u)
    <3>0. ASSUME NEW r \in UserRecord, Behind(r), NEW id \in Ids
          PROVE  UserOK([r EXCEPT !.pc = "remove", !.id = id])
      <4>1. id \in Nat
        BY DEF Ids
      <4> QED
        BY <3>0, <4>1 DEF UserOK, UserRecord, Behind
    <3>1. ASSUME NEW id \in Ids PROVE UserOK([NoUser EXCEPT !.pc = "remove", !.id = id])
      BY <1>2, <3>0 DEF UserOK
    <3>2. UserOK([NoUser EXCEPT !.pc = "forget"])
      BY <1>2 DEF UserOK, UserRecord, Behind
    <3> QED
      BY <1>14, <3>1, <3>2 DEF AskRemoval
  <2>2. Retired
    BY <1>14, RetireOK DEF AskRemoval
  <2> QED
    BY <1>4, <1>5, <1>7, <1>14, <2>1, <2>2 DEF AskRemoval, storageVars, desktopVars
<1>15. CASE DoRemove(t)
  <2>1. user[t].id \in Ids
    BY <1>15 DEF DoRemove, Doing, IInv, TypeOK
  <2> QED
    BY <1>2, <1>15, <2>1, RemovalStepOK DEF DoRemove, RemoveCopy, Removed, Done, SetUser
<1>16. CASE DoForget(t)
  <2> DEFINE u == [user[t] EXCEPT !.pc = "logout"]
  <2>1. UserOK(u) /\ u.pc = "logout"
    BY <1>1 DEF UserOK, UserRecord, Behind
  <2> HIDE DEF u
  <2>2. user' = [user EXCEPT ![t] = u]
    BY <1>16 DEF DoForget, Turn, SetUser, u
  <2> QED
    BY <1>16, <2>1, <2>2, RemovalStepOK DEF DoForget, ForgetCopies, Removed
<1>17. CASE LogoutForgotten(t)
  <2>1. DesktopOK'
    BY <1>4, <1>17, RequestTypes DEF LogoutForgotten
  <2> QED
    BY <1>2, <1>3, <1>5, <1>7, <1>17, <2>1 DEF LogoutForgotten, Done, storageVars
<1>18. CASE EndUser(t)
  BY <1>2, <1>3, <1>4, <1>5, <1>7, <1>18 DEF EndUser, Done, storageVars, desktopVars
<1>19. CASE HearRemoval(t)
  <2>1. UserOK(user[t]) /\ SetUser(t, user[t])
    BY <1>1, <1>19 DEF HearRemoval, SetUser, UserOK, IInv, TypeOK
  <2>2. Retired
    BY <1>19, RetireOK DEF HearRemoval
  <2> QED
    BY <1>4, <1>5, <1>7, <1>19, <2>1, <2>2 DEF HearRemoval, desktopVars
<1> QED
  BY <1>8, <1>9, <1>10, <1>11, <1>12, <1>13, <1>14, <1>15, <1>16, <1>17, <1>18, <1>19 DEF UserStep

\* Nothing that the register speaks of changes.
LEMMA QuietStepOK ==
    ASSUME IInv, DesktopOK', UNCHANGED <<copies, fence, remembered, revisions, cookie, refresh, user>>,
           active' \in Ids \cup {None}, ActiveIsSaved'
    PROVE  StepOK
<1>1. TypeOK'
  BY DEF IInv, TypeOK
<1>2. RefreshesOK' /\ UsersOK' /\ RevisionsUsed'
  BY DEF IInv, RefreshesOK, RecordOK, Behind, RememberedSince, GuardKept, Received, ReadBefore,
         UsersOK, RevisionsUsed
<1>3. Live' = Live
  BY DEF Live, At
<1> QED
  BY <1>1, <1>2, <1>3 DEF StepOK, IInv, Saved!vars
-------------------------------------------------------------------------------
(* The theorems *)

LEMMA Starts == Init => IInv /\ Saved!Init
<1> SUFFICES ASSUME Init PROVE IInv /\ Saved!Init
  OBVIOUS
<1>1. NoRefresh \in RefreshRecord /\ NoUser \in UserRecord
  BY DEF NoRefresh, RefreshRecord, NoUser, UserRecord
<1>2. NoRefresh.pc = "idle" /\ NoRefresh.fence = 0 /\ NoUser.pc = "idle" /\ NoUser.fence = 0
  BY DEF NoRefresh, NoUser
<1>3. DesktopOK
  <2>1. names \in [Profiles -> Grant \cup {None}]
    BY PhoneAssumption DEF Init, NeverPaired, Paired, Name, Grant, Ids
  <2>2. tokens \in Nat /\ pairings \in Nat /\ listed \subseteq Profiles
    BY DEF Init, NeverPaired, Paired
  <2>3. bearer \in [Profiles -> Nat] /\ born \in [Profiles -> Nat]
    BY DEF Init
  <2>4. \/ backup = None
        \/ DOMAIN backup \subseteq Profiles /\ \A p \in DOMAIN backup : backup[p] \in Nat
    BY <2>2 DEF Init
  <2> QED
    BY <2>1, <2>2, <2>3, <2>4 DEF Init, DesktopOK
<1>4. cookie \in Nat \cup {None} /\ remembered \in BOOLEAN
  <2>1. cookie \in Nat \cup {None}
    BY DEF Init, NeverPaired, Paired
  <2>2. remembered \in BOOLEAN
    BY Zenon DEF Init, NeverPaired, Paired
  <2> QED
    BY <2>1, <2>2
<1>5. TypeOK
  BY <1>1, <1>2, <1>3, <1>4 DEF Init, TypeOK
<1>6. RefreshesOK /\ UsersOK
  <2>1. \A t \in Tabs : refresh[t] = NoRefresh /\ user[t] = NoUser
    BY DEF Init
  <2>2. fence = 0
    BY DEF Init
  <2>3. RecordOK(NoRefresh) /\ Behind(NoUser)
    BY <1>2, <2>2 DEF RecordOK, Behind, RememberedSince, GuardKept, Received, ReadBefore,
                      Asking, Guarded
  <2> QED
    BY <2>1, <2>3 DEF RefreshesOK, UsersOK
<1>7. RevisionsUsed /\ ActiveIsSaved
  BY DEF Init, RevisionsUsed, ActiveIsSaved
<1>8. Live = {}
  BY <1>2 DEF Init, Live, At
<1> QED
  BY <1>4, <1>5, <1>6, <1>7, <1>8 DEF IInv, Saved!Init, Init

LEMMA Steps == IInv /\ [Next]_vars => IInv' /\ [Saved!Next]_(Saved!vars)
<1> SUFFICES ASSUME IInv, [Next]_vars PROVE StepOK
  BY DEF StepOK
<1>1. CASE UNCHANGED vars
  BY <1>1, QuietStepOK
     DEF vars, desktopVars, grantVars, listVars, storageVars, IInv, TypeOK, DesktopOK,
         ActiveIsSaved
<1>2. CASE DesktopStep
  <2>1. DesktopOK'
    BY <1>2, DesktopTypes DEF IInv, TypeOK
  <2> QED
    BY <1>2, <2>1, DesktopFrame, QuietStepOK DEF storageVars, IInv, TypeOK, ActiveIsSaved
<1>3. ASSUME NEW t \in Tabs, RefreshStep(t) PROVE StepOK
  <2>1. CASE Save(t)
    <3>1. CASE UNCHANGED storageVars /\ Refreshed(t)
      <4>1. ChangesTo(t, NoRefresh)
        BY <3>1, NoRefreshOK DEF ChangesTo, Refreshed
      <4> QED
        BY <2>1, <3>1, <4>1, RefreshChanges
           DEF Save, storageVars, desktopVars, grantVars, listVars, IInv, TypeOK, DesktopOK,
               ActiveIsSaved
    <3>2. CASE ~(UNCHANGED storageVars /\ Refreshed(t))
      BY <2>1, <3>2, SaveStepOK DEF Save
    <3> QED
      BY <3>1, <3>2
  <2>2. CASE ~Save(t)
    BY <1>3, <2>2, RefreshStepOK
  <2> QED
    BY <2>1, <2>2
<1>4. ASSUME NEW t \in Tabs, UserStep(t) PROVE StepOK
  BY <1>4, UserStepOK
<1>5. ASSUME NEW id \in Ids, ShowCopy(id) PROVE StepOK
  BY <1>5, QuietStepOK
     DEF ShowCopy, SelectCopy, desktopVars, grantVars, listVars, IInv, TypeOK, DesktopOK,
         ActiveIsSaved
<1> QED
  BY <1>1, <1>2, <1>3, <1>4, <1>5 DEF Next

\* The copy shown first is one that is saved, whatever the tabs do (mobileIndexedDb.ts).
THEOREM ShownCopyIsSaved == Spec => []ActiveIsSaved
<1>1. IInv => ActiveIsSaved
  BY DEF IInv
<1> QED
  BY <1>1, Starts, Steps, PTL DEF Spec

\* The phone implements the register: what was removed stays away until a refresh begun
\* after it, access that was forgotten stays off until a pairing begun after it, and a copy
\* is replaced by a newer one of its identity only (mobileRepository.ts, mobileSession.ts).
THEOREM PhoneKeepsCopies == Spec => SavedCopiesKept
  BY Starts, Steps, PTL DEF Spec, SavedCopiesKept, Saved!Spec

(* -- Devices, grants and names -------------------------------------------- *)

Device == [nr : Nat, token : Nat, grants : SUBSET Profiles, lapsed : BOOLEAN]
\* A pairing and the device it makes carry its number, which no other has had.
CodesOnce ==
    /\ \A pair \in pairs : pair.nr <= pairings
    /\ \A d \in devices : d.nr <= pairings
    /\ \A a, b \in pairs : a.nr = b.nr => a = b

\* A name is kept for profiles that were not deleted: an id comes back without one, but
\* for a profile that an earlier list, put back, took off the list.
GrantsInv ==
    /\ devices \subseteq Device
    /\ CodesOnce /\ OneDevicePerCode
    /\ NoReadersOfDeleted /\ Granted \subseteq NotDeleted

\* A name in use was given.
NamesUsed == \A id \in Ids : Origins(id) # {} => id <= named
OriginsAgree == \A id \in Ids : \A x, y \in Origins(id) \ lost : x = y
\* Two profiles have two names.
NamesDiffer == \A p, q \in Granted : names[p].id = names[q].id => p = q
\* What a name in use stood for is what it stands for now, or left with an earlier list.
NamesTheirBearer ==
    \A id \in Ids, p \in Granted : names[p].id = id =>
        \A o \in Origins(id) : o \in lost \/ o = <<p, bearer[p]>>
\* The number of a profile is ahead of every snapshot under its name.
NumbersBehind ==
    \A t \in Tabs, p \in Granted :
        refresh[t].got # None /\ refresh[t].got.id = names[p].id
            => refresh[t].got.sequence <= names[p].sequence
\* What is about to be saved is saved under its own name.
SavesUnderItsName ==
    \A t \in Tabs : refresh[t].pc = "encrypt" => refresh[t].got.id = refresh[t].id

NamesInv ==
    /\ named \in Nat
    /\ NamesUsed /\ OriginsAgree /\ NamesDiffer /\ NamesTheirBearer
    /\ NumbersBehind /\ OneSnapshotPerNumber
    /\ SavesUnderItsName
-------------------------------------------------------------------------------
(* Grants *)

LEMMA GrantsStart == Init => GrantsInv
<1> SUFFICES ASSUME Init PROVE GrantsInv
  OBVIOUS
<1>1. CASE NeverPaired
  BY <1>1 DEF Init, NeverPaired, GrantsInv, Device, CodesOnce, OneDevicePerCode,
              NoReadersOfDeleted, NotDeleted, Granted
<1>2. CASE Paired
  <2>1. PICK p \in Profiles :
            /\ listed = {p}
            /\ devices = {[nr |-> 1, token |-> 1, grants |-> {p}, lapsed |-> FALSE]}
            /\ names = [q \in Profiles |-> IF q = p THEN Name(1) ELSE None]
    BY <1>2 DEF Paired
  <2>2. Name(1) # None
    <3>1. Name(1) \in Grant
      BY <1>2, PhoneAssumption DEF Paired, Name, Grant, Ids
    <3> QED
      BY <3>1, PhoneAssumption
  <2>3. Granted = {p}
    BY <2>1, <2>2 DEF Granted
  <2>4. pairings = 1 /\ pairs = {}
    BY <1>2 DEF Paired, Init
  <2>5. devices \subseteq Device
    BY <2>1 DEF Device
  <2> QED
    BY <2>1, <2>3, <2>4, <2>5 DEF GrantsInv, CodesOnce, OneDevicePerCode, NoReadersOfDeleted, NotDeleted
<1> QED
  BY <1>1, <1>2 DEF Init

\* A command at the desktop, with the pairings and devices it leaves.
LEMMA GrantsOrder ==
    ASSUME IInv, GrantsInv, DesktopStep
    PROVE  GrantsInv'
<1>1. /\ pairings \in Nat /\ names \in [Profiles -> Grant \cup {None}] /\ listed \subseteq Profiles
      /\ pairs \subseteq [nr : Nat, claimed : BOOLEAN, grants : (SUBSET Profiles) \cup {None}]
  BY DEF IInv, TypeOK, DesktopOK
<1>2. \A pair \in pairs : pair.nr \in Nat
  BY <1>1
<1>3. \A d \in devices : d \in Device /\ d.nr \in Nat
  BY DEF GrantsInv, Device
<1>4. UNCHANGED listVars => NotDeleted' = NotDeleted
  BY DEF listVars, NotDeleted
<1>5. UNCHANGED <<devices, names, pairings>> /\ CodesOnce' /\ OneDevicePerCode'
          /\ NotDeleted \subseteq NotDeleted'
          /\ (\A pair \in pairs' : pair.grants = None \/ pair.grants \subseteq NotDeleted)
      => GrantsInv'
  BY DEF GrantsInv, NoReadersOfDeleted, Granted
<1>6. CASE BeginPairing
  <2> DEFINE new == [nr |-> pairings + 1, claimed |-> FALSE, grants |-> None]
  <2>1. /\ UNCHANGED <<devices, names>> /\ NotDeleted' = NotDeleted /\ pairings' = pairings + 1
        /\ pairs' = pairs \cup {new}
    BY <1>4, <1>6 DEF BeginPairing
  <2>0. new.nr = pairings + 1 /\ new.grants = None
    OBVIOUS
  <2> HIDE DEF new
  <2>2. CodesOnce'
    <3>1. \A pair \in pairs' : pair.nr <= pairings'
      BY <1>1, <1>2, <2>0, <2>1 DEF GrantsInv, CodesOnce
    <3>2. \A d \in devices' : d.nr <= pairings'
      BY <1>1, <1>3, <2>1 DEF GrantsInv, CodesOnce
    <3>3. \A a, b \in pairs' : a.nr = b.nr => a = b
      BY <1>1, <1>2, <2>0, <2>1 DEF GrantsInv, CodesOnce
    <3> QED
      BY <3>1, <3>2, <3>3 DEF CodesOnce
  <2>3. OneDevicePerCode'
    BY <1>1, <1>2, <1>3, <2>0, <2>1 DEF GrantsInv, OneDevicePerCode, CodesOnce
  <2>4. \A pair \in pairs' : pair.grants = None \/ pair.grants \subseteq NotDeleted
    BY <2>0, <2>1 DEF GrantsInv, NoReadersOfDeleted
  <2> QED
    BY <2>1, <2>2, <2>3, <2>4 DEF GrantsInv, NoReadersOfDeleted, Granted
<1>7. CASE Decide
  <2>0. UNCHANGED <<devices, names, pairings>> /\ NotDeleted' = NotDeleted
    BY <1>4, <1>7 DEF Decide
  <2>1. PICK pair \in pairs :
            \/ pairs' = pairs \ {pair}
            \/ \E g \in (SUBSET listed) \ {{}} :
                   pairs' = (pairs \ {pair}) \cup {[pair EXCEPT !.grants = g]}
    BY <1>7 DEF Decide
  <2>2. CASE pairs' = pairs \ {pair}
    BY <1>5, <2>0, <2>2 DEF GrantsInv, CodesOnce, OneDevicePerCode, NoReadersOfDeleted
  <2>3. ASSUME NEW g \in SUBSET listed, pairs' = (pairs \ {pair}) \cup {[pair EXCEPT !.grants = g]}
        PROVE  GrantsInv'
    <3> DEFINE new == [pair EXCEPT !.grants = g]
    <3>0. g \subseteq NotDeleted
      BY <1>1 DEF NotDeleted
    <3>1. new.nr = pair.nr /\ new.grants = g
      BY <1>1
    <3> HIDE DEF new
    <3>2. pairs' = (pairs \ {pair}) \cup {new}
      BY <2>3 DEF new
    <3> QED
      BY <1>5, <2>0, <3>0, <3>1, <3>2 DEF GrantsInv, CodesOnce, OneDevicePerCode, NoReadersOfDeleted
  <2> QED
    BY <2>1, <2>2, <2>3
<1>8. CASE CancelPairings
  BY <1>4, <1>5, <1>8 DEF CancelPairings, GrantsInv, CodesOnce, OneDevicePerCode
<1>9. CASE ResetRegistry
  BY <1>9 DEF ResetRegistry, GrantsInv, CodesOnce, OneDevicePerCode, NoReadersOfDeleted, Granted
<1>10. ASSUME NEW p \in Profiles, DeleteProfile(p) PROVE GrantsInv'
  <2>1. pairs' \subseteq pairs /\ \A pair \in pairs' : pair.grants = None \/ p \notin pair.grants
    BY <1>10 DEF DeleteProfile, DropProfile
  <2>2. pairings' = pairings
    BY <1>10 DEF DeleteProfile
  <2>3. CASE UNCHANGED <<devices, names, listed>>
    <3>1. NotDeleted' = NotDeleted
      BY <1>10, <2>3 DEF DeleteProfile, NotDeleted
    <3> QED
      BY <1>5, <2>1, <2>2, <2>3, <3>1 DEF GrantsInv, CodesOnce, OneDevicePerCode, NoReadersOfDeleted
  <2>4. CASE DropProfile(p) /\ listed' \in {listed, listed \ {p}}
    <3>1. Granted' = Granted \ {p}
      BY <1>1, <2>4 DEF DropProfile, Granted
    <3>2. \A d \in devices : /\ [d EXCEPT !.grants = @ \ {p}] \in Device
                             /\ [d EXCEPT !.grants = @ \ {p}].nr = d.nr
                             /\ [d EXCEPT !.grants = @ \ {p}].grants = d.grants \ {p}
      BY <1>3 DEF Device
    <3>3. \A e \in devices' : \E d \in devices : e = [d EXCEPT !.grants = @ \ {p}]
      BY <2>4 DEF DropProfile, Without
    <3>4. \A e \in devices' : \E d \in devices : /\ e = [d EXCEPT !.grants = @ \ {p}]
                                                 /\ e \in Device /\ e.nr = d.nr
                                                 /\ e.grants = d.grants \ {p}
      <4> TAKE e \in devices'
      <4>1. PICK d \in devices : e = [d EXCEPT !.grants = @ \ {p}]
        BY <3>3
      <4> QED
        BY <3>2, <4>1
    <3>5. CodesOnce' /\ devices' \subseteq Device
      <4>1. devices' \subseteq Device
        BY <3>4
      <4>2. \A e \in devices' : e.nr <= pairings'
        BY <2>2, <3>4 DEF GrantsInv, CodesOnce
      <4> QED
        BY <2>1, <2>2, <4>1, <4>2 DEF GrantsInv, CodesOnce
    <3>6. OneDevicePerCode'
      <4>1. ASSUME NEW a \in devices', NEW b \in devices', a.nr = b.nr PROVE a = b
        <5>1. PICK c \in devices, d \in devices :
                  /\ a = [c EXCEPT !.grants = @ \ {p}] /\ a.nr = c.nr
                  /\ b = [d EXCEPT !.grants = @ \ {p}] /\ b.nr = d.nr
          BY <3>4
        <5>2. c = d
          BY <4>1, <5>1 DEF GrantsInv, OneDevicePerCode
        <5> QED
          BY <5>1, <5>2
      <4>2. \A a \in devices', pair \in pairs' : pair.nr # a.nr
        BY <2>1, <3>4 DEF GrantsInv, OneDevicePerCode
      <4> QED
        BY <4>1, <4>2 DEF OneDevicePerCode
    <3>7. NotDeleted \ {p} \subseteq NotDeleted'
      BY <1>10, <2>4 DEF DeleteProfile, NotDeleted
    <3>8. NoReadersOfDeleted' /\ (Granted \subseteq NotDeleted)'
      BY <2>1, <3>1, <3>4, <3>7 DEF GrantsInv, NoReadersOfDeleted
    <3> QED
      BY <3>5, <3>6, <3>8 DEF GrantsInv
  <2> QED
    BY <1>10, <2>3, <2>4 DEF DeleteProfile
\* The list changes and nothing else.
<1>11. ASSUME UNCHANGED <<devices, names, pairs, pairings>>, NotDeleted \subseteq NotDeleted'
       PROVE  GrantsInv'
  BY <1>11 DEF GrantsInv, CodesOnce, OneDevicePerCode, NoReadersOfDeleted, Granted
<1>12. ASSUME NEW p \in Profiles, CreateProfile(p) PROVE GrantsInv'
  <2>1. bearer \in [Profiles -> Nat]
    BY DEF IInv, TypeOK, DesktopOK
  <2>2. \A q \in Profiles \ {p} : bearer'[q] = bearer[q]
    BY <1>12, <2>1 DEF CreateProfile, Bear
  <2>3. listed' = listed \cup {p} /\ lost' = lost
    BY <1>12 DEF CreateProfile
  <2>4. NotDeleted \subseteq NotDeleted'
    BY <2>2, <2>3 DEF NotDeleted
  <2>5. UNCHANGED <<devices, names, pairs, pairings>>
    BY <1>12 DEF CreateProfile
  <2> QED
    BY <1>11, <2>4, <2>5
<1>13. CASE RevokeDevice
  BY <1>4, <1>13 DEF RevokeDevice, Revoke, GrantsInv, CodesOnce, OneDevicePerCode, NoReadersOfDeleted,
                     Granted
\* A device keeps its number and loses grants.
<1>14. ASSUME NEW d \in devices, NEW e \in Device, e.nr = d.nr, e.grants \subseteq d.grants,
              devices' = (devices \ {d}) \cup {e},
              UNCHANGED <<names, pairings, pairs>>, NotDeleted' = NotDeleted
       PROVE  GrantsInv'
  BY <1>14 DEF GrantsInv, CodesOnce, OneDevicePerCode, NoReadersOfDeleted, Granted
<1>15. CASE RemoveGrant
  <2>1. PICK d \in devices, p \in Profiles :
            devices' = (devices \ {d}) \cup {[d EXCEPT !.grants = @ \ {p}]}
    BY <1>15 DEF RemoveGrant
  <2> DEFINE e == [d EXCEPT !.grants = @ \ {p}]
  <2>2. e \in Device /\ e.nr = d.nr /\ e.grants \subseteq d.grants
    BY <1>3 DEF Device
  <2> HIDE DEF e
  <2>3. devices' = (devices \ {d}) \cup {e}
    BY <2>1 DEF e
  <2> QED
    BY <1>4, <1>14, <1>15, <2>2, <2>3 DEF RemoveGrant
<1>16. CASE TimePasses
  <2>1. UNCHANGED <<names, pairings>> /\ NotDeleted' = NotDeleted
    BY <1>4, <1>16 DEF TimePasses
  <2>2. ASSUME NEW pair \in pairs, pairs' = pairs \ {pair}, UNCHANGED devices PROVE GrantsInv'
    BY <1>5, <2>1, <2>2 DEF GrantsInv, CodesOnce, OneDevicePerCode, NoReadersOfDeleted
  <2>3. ASSUME NEW d \in devices, devices' = (devices \ {d}) \cup {[d EXCEPT !.lapsed = TRUE]},
               UNCHANGED pairs
        PROVE  GrantsInv'
    <3> DEFINE e == [d EXCEPT !.lapsed = TRUE]
    <3>1. e \in Device /\ e.nr = d.nr /\ e.grants = d.grants
      BY <1>3 DEF Device
    <3> HIDE DEF e
    <3>2. devices' = (devices \ {d}) \cup {e}
      BY <2>3 DEF e
    <3> QED
      BY <1>14, <2>1, <2>3, <3>1, <3>2
  <2> QED
    BY <1>16, <2>2, <2>3 DEF TimePasses
<1>17. CASE AbandonedJob
  <2>1. UNCHANGED <<devices, names, pairs, pairings>> /\ NotDeleted' = NotDeleted
    BY <1>4, <1>17 DEF AbandonedJob, grantVars
  <2> QED
    BY <1>11, <2>1
<1>18. CASE RewriteList
  <2>1. UNCHANGED <<devices, names, pairs, pairings>> /\ NotDeleted' = NotDeleted
    BY <1>18 DEF RewriteList, NotDeleted
  <2> QED
    BY <1>11, <2>1
\* What an earlier list takes off the list is remembered as lost.
<1>19. CASE RestoreList
  <2>1. UNCHANGED <<devices, names, pairs, pairings>>
    BY <1>19 DEF RestoreList
  <2>2. NotDeleted \subseteq NotDeleted'
    <3> SUFFICES ASSUME NEW q \in Profiles, q \in listed \/ <<q, bearer[q]>> \in lost
                 PROVE  q \in listed' \/ <<q, bearer'[q]>> \in lost'
      BY DEF NotDeleted
    <3>1. CASE q \in DOMAIN backup
      BY <1>19, <3>1 DEF RestoreList
    <3>2. CASE q \notin DOMAIN backup
      <4>1. bearer'[q] = bearer[q]
        BY <1>19, <3>2 DEF RestoreList
      <4> QED
        BY <1>19, <3>2, <4>1 DEF RestoreList
    <3> QED
      BY <3>1, <3>2
  <2> QED
    BY <1>11, <2>1, <2>2
<1> QED
  BY <1>6, <1>7, <1>8, <1>9, <1>10, <1>12, <1>13, <1>15, <1>16, <1>17, <1>18, <1>19 DEF DesktopStep

\* A request of the phone: a code redeemed, a device made, a device given up.
LEMMA GrantsRequest ==
    ASSUME IInv, GrantsInv, NEW n, Redeem(n) \/ Complete(n) \/ Logout(n)
    PROVE  GrantsInv'
<1>1. /\ pairings \in Nat /\ names \in [Profiles -> Grant \cup {None}] /\ listed \subseteq Profiles
      /\ pairs \subseteq [nr : Nat, claimed : BOOLEAN, grants : (SUBSET Profiles) \cup {None}]
      /\ tokens \in Nat
  BY DEF IInv, TypeOK, DesktopOK
<1>0. UNCHANGED listVars => NotDeleted' = NotDeleted
  BY DEF listVars, NotDeleted
<1>2. CASE Redeem(n)
  <2>1. PICK pair \in pairs : pairs' = (pairs \ {pair}) \cup {[pair EXCEPT !.claimed = TRUE]}
    BY <1>2 DEF Redeem
  <2> DEFINE new == [pair EXCEPT !.claimed = TRUE]
  <2>2. new.nr = pair.nr /\ new.grants = pair.grants
    BY <1>1
  <2> HIDE DEF new
  <2>3. pairs' = (pairs \ {pair}) \cup {new}
    BY <2>1 DEF new
  <2>4. UNCHANGED <<devices, names, pairings>> /\ NotDeleted' = NotDeleted
    BY <1>0, <1>2 DEF Redeem
  <2> QED
    BY <2>2, <2>3, <2>4 DEF GrantsInv, CodesOnce, OneDevicePerCode, NoReadersOfDeleted, Granted
<1>3. CASE Complete(n)
  <2>1. PICK pair \in pairs : /\ pair.nr = n /\ pair.grants # None
                              /\ Register(n, pair.grants)
                              /\ pairs' = pairs \ {pair}
    BY <1>3 DEF Complete
  <2> DEFINE new == [nr |-> n, token |-> tokens', grants |-> pair.grants, lapsed |-> FALSE]
  <2>2. pairings' = pairings /\ NotDeleted' = NotDeleted
    BY <1>0, <1>3 DEF Complete
  <2>3. PICK f \in NewNames(pair.grants) :
            names' = [p \in Profiles |-> IF p \in DOMAIN f THEN Name(f[p]) ELSE names[p]]
    BY <2>1 DEF Register
  <2>4. DOMAIN f = pair.grants \ Granted /\ \A p \in DOMAIN f : f[p] \in Ids
    BY <2>3 DEF NewNames
  <2>5. \A id \in Ids : Name(id) # None
    BY PhoneAssumption DEF Name, Grant
  <2>6. pair.grants \subseteq NotDeleted /\ pair.grants \subseteq Profiles
    BY <1>1, <2>1 DEF GrantsInv, NoReadersOfDeleted
  <2>7. Granted' = Granted \cup pair.grants
    BY <2>3, <2>4, <2>5, <2>6 DEF Granted
  <2>8. tokens' \in Nat /\ devices' = InUse \cup {new}
    BY <1>1, <2>1 DEF Register
  <2>9. new \in Device /\ new.nr = pair.nr /\ new.grants = pair.grants
    BY <1>1, <2>1, <2>6, <2>8 DEF Device
  <2>10. InUse \subseteq devices
    BY DEF InUse
  <2> HIDE DEF new
  <2>11. CodesOnce' /\ OneDevicePerCode'
    BY <2>1, <2>2, <2>8, <2>9, <2>10 DEF GrantsInv, CodesOnce, OneDevicePerCode
  <2>12. NoReadersOfDeleted' /\ (Granted \subseteq NotDeleted)'
    BY <2>1, <2>2, <2>6, <2>7, <2>8, <2>9, <2>10 DEF GrantsInv, NoReadersOfDeleted
  <2> QED
    BY <2>8, <2>9, <2>10, <2>11, <2>12 DEF GrantsInv
<1>4. CASE Logout(n)
  BY <1>0, <1>4 DEF Logout, Revoke, GrantsInv, CodesOnce, OneDevicePerCode, NoReadersOfDeleted, Granted
<1> QED
  BY <1>2, <1>3, <1>4

\* A snapshot carries the name of one profile and the number after the profile's last.
LEMMA Numbered ==
    ASSUME IInv, NEW t \in Tabs, BuildSnapshot(t)
    PROVE  \E p \in Granted, new \in Grant, r \in RefreshRecord :
               /\ names' = [names EXCEPT ![p] = new]
               /\ new.id = names[p].id /\ new.sequence = names[p].sequence + 1
               /\ refresh' = [refresh EXCEPT ![t] = r]
               /\ r.pc = "built" /\ r.got \in Snapshot
               /\ r.got.id = new.id /\ r.got.sequence = new.sequence /\ r.got.of = <<p, bearer[p]>>
<1> DEFINE p == Named(refresh[t].id)
           new == [names[p] EXCEPT !.sequence = @ + 1]
           got == [id |-> new.id, epoch |-> new.epoch, sequence |-> new.sequence,
                   of |-> <<p, bearer[p]>>]
           r == [refresh[t] EXCEPT !.pc = "built", !.got = got]
<1>1. p \in Granted
  BY DEF BuildSnapshot, Authorized, Named
<1>2. names[p] \in Grant /\ p \in Profiles /\ bearer[p] \in Nat
  BY <1>1 DEF IInv, TypeOK, DesktopOK, Granted
<1>3. names[p].sequence < MaxSequence /\ names' = [names EXCEPT ![p] = new]
  BY <1>2 DEF BuildSnapshot, NextNumber
<1>4. /\ new \in Grant /\ new.sequence \in 1 .. MaxSequence
      /\ new.id = names[p].id /\ new.sequence = names[p].sequence + 1
  BY <1>2, <1>3, PhoneAssumption DEF Grant
<1>5. names'[p] = new
  BY <1>2, <1>3 DEF IInv, TypeOK, DesktopOK
<1>6. got \in Snapshot
  BY <1>2, <1>4 DEF Snapshot, Grant, Origin
<1>7. Set(t, r)
  BY <1>5 DEF BuildSnapshot
<1>8. refresh[t] \in RefreshRecord
  BY DEF IInv, TypeOK
<1>9. r \in RefreshRecord /\ r.pc = "built" /\ r.got = got
  BY <1>6, <1>8 DEF RefreshRecord, RefreshSteps
<1>10. got.id = new.id /\ got.sequence = new.sequence /\ got.of = <<p, bearer[p]>>
  OBVIOUS
<1> HIDE DEF p, new, got, r
<1> QED
  BY <1>1, <1>3, <1>4, <1>6, <1>7, <1>9, <1>10 DEF Set

\* Numbers of snapshots do not touch what is granted.
LEMMA GrantsSameNames ==
    ASSUME GrantsInv, UNCHANGED <<listVars, devices, pairs, pairings>>, Granted' = Granted
    PROVE  GrantsInv'
<1>1. NotDeleted' = NotDeleted
  BY DEF listVars, NotDeleted
<1> QED
  BY <1>1 DEF GrantsInv, CodesOnce, OneDevicePerCode, NoReadersOfDeleted

LEMMA GrantsStep == IInv /\ GrantsInv /\ [Next]_vars => GrantsInv'
<1> SUFFICES ASSUME IInv, GrantsInv, [Next]_vars PROVE GrantsInv'
  OBVIOUS
<1>1. UNCHANGED grantVars => GrantsInv'
  BY GrantsSameNames DEF grantVars, Granted
<1>2. CASE UNCHANGED vars
  BY <1>1, <1>2 DEF vars, desktopVars
<1>3. CASE DesktopStep
  BY <1>3, GrantsOrder
<1>4. ASSUME NEW t \in Tabs, RefreshStep(t) PROVE GrantsInv'
  <2>1. CASE BuildSnapshot(t)
    <3>1. PICK p \in Granted, new \in Grant : names' = [names EXCEPT ![p] = new]
      BY <2>1, Numbered
    <3>2. names \in [Profiles -> Grant \cup {None}]
      BY DEF IInv, TypeOK, DesktopOK
    <3>3. Granted' = Granted
      BY <3>1, <3>2, PhoneAssumption DEF Granted
    <3> QED
      BY <2>1, <3>3, GrantsSameNames DEF BuildSnapshot
  <2>2. CASE ~BuildSnapshot(t)
    BY <1>1, <1>4, <2>2
       DEF RefreshStep, StartRefresh, CheckRemembered, AskStatus, StatusArrives, Prepare,
           AskSnapshot, DeliverSnapshot, ReadSaved, Save, ShowRefreshed, GiveUp, desktopVars
  <2> QED
    BY <2>1, <2>2
<1>5. ASSUME NEW t \in Tabs, UserStep(t) PROVE GrantsInv'
  <2>1. \/ UNCHANGED grantVars
        \/ \E n : Redeem(n) \/ Complete(n) \/ Logout(n)
    BY <1>5 DEF UserStep, StartPairing, LeaveOldAccess, RedeemCode, PollPairing, PairingArrives,
                RememberAccess, AskRemoval, DoRemove, DoForget, LogoutForgotten, EndUser,
                HearRemoval, desktopVars
  <2> QED
    BY <1>1, <2>1, GrantsRequest
<1>6. ASSUME NEW id \in Ids, ShowCopy(id) PROVE GrantsInv'
  BY <1>1, <1>6 DEF ShowCopy, desktopVars
<1> QED
  BY <1>2, <1>3, <1>4, <1>5, <1>6 DEF Next

\* What the desktop trusts and what is under way there (mobile_devices.rs).
THEOREM GrantsKept == Spec => [](IInv /\ GrantsInv)
  BY Starts, Steps, GrantsStart, GrantsStep, PTL DEF Spec

\* Nothing may read a profile that was deleted, nor will after an approval under way
\* (delete_profile, reset_grants): a later profile with its id starts without readers,
\* unless an earlier list put back (restore_registry_backup) took the profile off the list.
THEOREM DeletedHaveNoReaders == Spec => []NoReadersOfDeleted
<1>1. GrantsInv => NoReadersOfDeleted
  BY DEF GrantsInv
<1> QED
  BY <1>1, GrantsKept, PTL

\* A code registers one device, whether or not the answer reaches the phone (complete).
THEOREM CodeMakesOneDevice == Spec => []OneDevicePerCode
<1>1. GrantsInv => OneDevicePerCode
  BY DEF GrantsInv
<1> QED
  BY <1>1, GrantsKept, PTL
-------------------------------------------------------------------------------
(* Names *)

LEMMA OriginsAre ==
    ASSUME NEW id, NEW o
    PROVE  o \in Origins(id) <=>
               \/ copies[id] # None /\ o = copies[id].of
               \/ \E t \in Tabs : /\ refresh[t].got # None /\ refresh[t].got.id = id
                                  /\ o = refresh[t].got.of
               \/ \E p \in Granted : names[p].id = id /\ o = <<p, bearer[p]>>
  BY DEF Origins, SavedOf, Snapshots

\* Primed, for a step.
LEMMA OriginsBecome ==
    ASSUME NEW id, NEW o
    PROVE  o \in Origins(id)' <=>
               \/ copies'[id] # None /\ o = copies'[id].of
               \/ \E t \in Tabs : /\ refresh'[t].got # None /\ refresh'[t].got.id = id
                                  /\ o = refresh'[t].got.of
               \/ \E p \in Granted' : names'[p].id = id /\ o = <<p, bearer'[p]>>
  BY DEF Origins, SavedOf, Snapshots

LEMMA NamesStart == Init => NamesInv
<1> SUFFICES ASSUME Init PROVE NamesInv
  OBVIOUS
<1>1. /\ \A t \in Tabs : refresh[t].got = None /\ refresh[t].pc = "idle"
      /\ \A id \in Ids : copies[id] = None
  BY DEF Init, NoRefresh
<1>2. \A id \in Ids : \A o : o \in Origins(id) <=>
          \E p \in Granted : names[p].id = id /\ o = <<p, bearer[p]>>
  BY <1>1, OriginsAre
<1>3. NumbersBehind /\ OneSnapshotPerNumber /\ SavesUnderItsName
  BY <1>1 DEF NumbersBehind, OneSnapshotPerNumber, SavesUnderItsName
<1>4. CASE NeverPaired
  <2>1. Granted = {} /\ named = 0
    BY <1>4 DEF NeverPaired, Granted
  <2> QED
    BY <1>2, <1>3, <2>1 DEF NamesInv, NamesUsed, OriginsAgree, NamesDiffer, NamesTheirBearer
<1>5. CASE Paired
  <2>1. PICK p \in Profiles : names = [q \in Profiles |-> IF q = p THEN Name(1) ELSE None]
    BY <1>5 DEF Paired
  <2>2. Granted \subseteq {p} /\ names[p].id = 1 /\ named = 1
    BY <1>5, <2>1 DEF Paired, Granted, Name
  <2> QED
    <3>1. NamesUsed /\ OriginsAgree
      BY <1>2, <2>2 DEF NamesUsed, OriginsAgree
    <3>2. NamesDiffer
      BY <2>2 DEF NamesDiffer
    <3>3. NamesTheirBearer
      BY <1>2, <2>2 DEF NamesTheirBearer
    <3> QED
      BY <1>3, <2>2, <3>1, <3>2, <3>3 DEF NamesInv
<1> QED
  BY <1>4, <1>5 DEF Init

\* A step that gives no name and no number: what stood for a name may stop standing for it,
\* a copy is saved of what already stood for its name, and a profile with a name keeps its
\* place, or an earlier list took it off.
LEMMA NothingNamed ==
    ASSUME NamesInv, named' = named, lost \subseteq lost', Granted' \subseteq Granted,
           \A p \in Granted' :
               names'[p] = names[p] /\ (bearer'[p] = bearer[p] \/ <<p, bearer[p]>> \in lost'),
           \A t \in Tabs : refresh'[t].got \in {refresh[t].got, None},
           \A id \in Ids : copies'[id] # None => copies'[id].of \in Origins(id),
           SavesUnderItsName'
    PROVE  NamesInv'
<1>1. ASSUME NEW id \in Ids, NEW o \in Origins(id)'
      PROVE  o \in Origins(id) \/ \E p \in Granted' : names[p].id = id /\ o = <<p, bearer'[p]>>
  <2>1. CASE copies'[id] # None /\ o = copies'[id].of
    BY <2>1
  <2>2. ASSUME NEW t \in Tabs, refresh'[t].got # None, refresh'[t].got.id = id,
               o = refresh'[t].got.of
        PROVE  o \in Origins(id)
    BY <2>2, OriginsAre
  <2>3. ASSUME NEW p \in Granted', names'[p].id = id, o = <<p, bearer'[p]>>
        PROVE  names[p].id = id
    BY <2>3
  <2> QED
    BY <2>1, <2>2, <2>3, OriginsBecome
<1>2. NamesUsed'
  <2> SUFFICES ASSUME NEW id \in Ids, NEW o \in Origins(id)' PROVE id <= named
    BY DEF NamesUsed
  <2>1. CASE o \in Origins(id)
    BY <2>1 DEF NamesInv, NamesUsed
  <2>2. ASSUME NEW p \in Granted', names[p].id = id PROVE id <= named
    <3>1. <<p, bearer[p]>> \in Origins(id)
      BY <2>2, OriginsAre
    <3> QED
      BY <3>1 DEF NamesInv, NamesUsed
  <2> QED
    BY <1>1, <2>1, <2>2
<1>3. NamesDiffer'
  BY DEF NamesInv, NamesDiffer
<1>4. NamesTheirBearer'
  <2> SUFFICES ASSUME NEW id \in Ids, NEW p \in Granted', names'[p].id = id, NEW o \in Origins(id)'
               PROVE  o \in lost' \/ o = <<p, bearer'[p]>>
    BY DEF NamesTheirBearer
  <2>1. names[p].id = id
    OBVIOUS
  <2>2. CASE o \in Origins(id)
    BY <2>1, <2>2 DEF NamesInv, NamesTheirBearer
  <2>3. ASSUME NEW q \in Granted', names[q].id = id, o = <<q, bearer'[q]>>
        PROVE  o = <<p, bearer'[p]>>
    BY <2>1, <2>3 DEF NamesInv, NamesDiffer
  <2> QED
    BY <1>1, <2>2, <2>3
<1>5. OriginsAgree'
  <2> SUFFICES ASSUME NEW id \in Ids, NEW x \in Origins(id)' \ lost', NEW y \in Origins(id)' \ lost'
               PROVE  x = y
    BY DEF OriginsAgree
  <2>1. ASSUME NEW p \in Granted', names[p].id = id PROVE x = y
    <3>1. names'[p].id = id
      BY <2>1
    <3> QED
      BY <1>4, <3>1 DEF NamesTheirBearer
  <2>2. CASE ~\E p \in Granted' : names[p].id = id
    <3>1. x \in Origins(id) \ lost /\ y \in Origins(id) \ lost
      BY <1>1, <2>2
    <3> QED
      BY <3>1 DEF NamesInv, OriginsAgree
  <2> QED
    BY <2>1, <2>2
<1>6. NumbersBehind'
  BY DEF NamesInv, NumbersBehind
<1>7. OneSnapshotPerNumber'
  BY DEF NamesInv, OneSnapshotPerNumber
<1>8. named' \in Nat
  BY DEF NamesInv
<1> QED
  BY <1>2, <1>3, <1>4, <1>5, <1>6, <1>7, <1>8 DEF NamesInv

\* A snapshot is built under a name its profile already has, with a number nobody got.
LEMMA NamesBuilt ==
    ASSUME IInv, NamesInv, NEW t \in Tabs, BuildSnapshot(t)
    PROVE  NamesInv'
<1>1. PICK p \in Granted, new \in Grant, r \in RefreshRecord :
               /\ names' = [names EXCEPT ![p] = new]
               /\ new.id = names[p].id /\ new.sequence = names[p].sequence + 1
               /\ refresh' = [refresh EXCEPT ![t] = r]
               /\ r.pc = "built" /\ r.got \in Snapshot
               /\ r.got.id = new.id /\ r.got.sequence = new.sequence /\ r.got.of = <<p, bearer[p]>>
  BY Numbered
<1>2. UNCHANGED <<named, bearer, lost, copies>>
  BY DEF BuildSnapshot, listVars, storageVars
<1>3. /\ names \in [Profiles -> Grant \cup {None}] /\ refresh \in [Tabs -> RefreshRecord]
      /\ names[p] \in Grant /\ p \in Profiles
  BY DEF IInv, TypeOK, DesktopOK, Granted
<1>4. /\ refresh'[t] = r /\ \A u \in Tabs \ {t} : refresh'[u] = refresh[u]
      /\ names'[p] = new /\ \A q \in Profiles \ {p} : names'[q] = names[q]
  BY <1>1, <1>3
<1>5. Granted' = Granted
  BY <1>1, <1>3, <1>4, PhoneAssumption DEF Granted
<1>6. \A q \in Granted : q \in Profiles /\ names'[q].id = names[q].id
  BY <1>1, <1>4 DEF Granted
<1>7. ASSUME NEW id \in Ids, NEW o \in Origins(id)' PROVE o \in Origins(id)
  <2>1. CASE copies'[id] # None /\ o = copies'[id].of
    BY <1>2, <2>1, OriginsAre
  <2>2. ASSUME NEW u \in Tabs, refresh'[u].got # None, refresh'[u].got.id = id,
               o = refresh'[u].got.of
        PROVE  o \in Origins(id)
    <3>1. CASE u = t
      <4>1. id = names[p].id /\ o = <<p, bearer[p]>>
        BY <1>1, <1>4, <2>2, <3>1
      <4> QED
        BY <4>1, OriginsAre
    <3>2. CASE u # t
      BY <1>4, <2>2, <3>2, OriginsAre
    <3> QED
      BY <3>1, <3>2
  <2>3. ASSUME NEW q \in Granted', names'[q].id = id, o = <<q, bearer'[q]>>
        PROVE  o \in Origins(id)
    BY <1>2, <1>5, <1>6, <2>3, OriginsAre
  <2> QED
    BY <2>1, <2>2, <2>3, OriginsBecome
<1>8. NamesUsed' /\ OriginsAgree' /\ NamesDiffer' /\ NamesTheirBearer'
  <2>1. NamesUsed' /\ OriginsAgree'
    BY <1>2, <1>7 DEF NamesInv, NamesUsed, OriginsAgree
  <2>2. NamesDiffer'
    BY <1>5, <1>6 DEF NamesInv, NamesDiffer
  <2>3. NamesTheirBearer'
    BY <1>2, <1>5, <1>6, <1>7 DEF NamesInv, NamesTheirBearer
  <2> QED
    BY <2>1, <2>2, <2>3
<1>9. \A q \in Granted : names[q].id = names[p].id => q = p
  BY DEF NamesInv, NamesDiffer
<1>10. \A u \in Tabs \ {t} : refresh[u].got # None /\ refresh[u].got.id = new.id
                                 => refresh[u].got.sequence < new.sequence
  <2> SUFFICES ASSUME NEW u \in Tabs \ {t}, refresh[u].got # None, refresh[u].got.id = new.id
               PROVE  refresh[u].got.sequence < new.sequence
    OBVIOUS
  <2>1. refresh[u].got.sequence <= names[p].sequence
    BY <1>1 DEF NamesInv, NumbersBehind
  <2>2. refresh[u] \in RefreshRecord
    BY <1>3
  <2>3. refresh[u].got \in Snapshot
    BY <2>2 DEF RefreshRecord
  <2>4. refresh[u].got.sequence \in Int /\ names[p].sequence \in Int
    BY <1>3, <2>3 DEF Snapshot, Grant
  <2> QED
    BY <1>1, <2>1, <2>4
<1>11. NumbersBehind'
  <2> SUFFICES ASSUME NEW u \in Tabs, NEW q \in Granted, refresh'[u].got # None,
                      refresh'[u].got.id = names'[q].id
               PROVE  refresh'[u].got.sequence <= names'[q].sequence
    BY <1>5 DEF NumbersBehind
  <2>1. new.sequence \in Int
    BY DEF Grant
  <2>2. CASE q = p
    <3>1. CASE u = t
      BY <1>1, <1>4, <2>1, <2>2, <3>1
    <3>2. CASE u # t
      <4>1. refresh[u] \in RefreshRecord
        BY <1>3
      <4>2. refresh[u].got \in Snapshot
        BY <1>4, <3>2, <4>1 DEF RefreshRecord
      <4>3. refresh[u].got.sequence \in Int
        BY <4>2 DEF Snapshot
      <4> QED
        BY <1>4, <1>10, <2>1, <2>2, <3>2, <4>3
    <3> QED
      BY <3>1, <3>2
  <2>3. CASE q # p
    <3>1. names'[q] = names[q] /\ names[q].id # names[p].id
      BY <1>4, <1>6, <1>9, <2>3
    <3>2. u # t
      BY <1>1, <1>4, <3>1
    <3> QED
      BY <1>4, <3>1, <3>2 DEF NamesInv, NumbersBehind
  <2> QED
    BY <2>2, <2>3
<1>12. OneSnapshotPerNumber'
  <2> SUFFICES ASSUME NEW u \in Tabs, NEW v \in Tabs, u # v,
                      refresh'[u].got # None, refresh'[u].got = refresh'[v].got
               PROVE  FALSE
    BY DEF OneSnapshotPerNumber
  <2>1. new.sequence \in Int
    BY DEF Grant
  <2>2. CASE u = t
    BY <1>1, <1>4, <1>10, <2>1, <2>2
  <2>3. CASE v = t
    BY <1>1, <1>4, <1>10, <2>1, <2>3
  <2>4. CASE u # t /\ v # t
    BY <1>4, <2>4 DEF NamesInv, OneSnapshotPerNumber
  <2> QED
    BY <2>2, <2>3, <2>4
<1>13. SavesUnderItsName'
  BY <1>1, <1>4 DEF NamesInv, SavesUnderItsName
<1> QED
  BY <1>2, <1>8, <1>11, <1>12, <1>13 DEF NamesInv

\* Approved profiles that had no name get one each, that nothing ever stood under.
LEMMA NamesRegistered ==
    ASSUME IInv, NamesInv, NEW n, NEW g \in SUBSET Profiles, Register(n, g),
           UNCHANGED <<bearer, lost, copies, refresh>>
    PROVE  NamesInv'
<1>1. PICK f \in NewNames(g) :
          /\ named' = named + Cardinality(DOMAIN f)
          /\ names' = [p \in Profiles |-> IF p \in DOMAIN f THEN Name(f[p]) ELSE names[p]]
  BY DEF Register
<1>2. /\ f \in [g \ Granted -> Ids] /\ DOMAIN f = g \ Granted
      /\ \A p, q \in DOMAIN f : f[p] = f[q] => p = q
      /\ \A p \in DOMAIN f : f[p] \in named + 1 .. named + Cardinality(DOMAIN f)
  BY <1>1 DEF NewNames
<1>3. named \in Nat /\ Cardinality(DOMAIN f) \in Nat
  <2>1. IsFiniteSet(Ids)
    BY FS_Interval, PhoneAssumption DEF Ids
  <2>2. f \in Injection(DOMAIN f, Ids)
    BY <1>2 DEF Injection, IsInjective
  <2>3. IsFiniteSet(DOMAIN f)
    BY <2>1, <2>2, FS_Injection
  <2> QED
    BY <2>3, FS_CardinalityType DEF NamesInv
<1>4. /\ named' \in Nat /\ named <= named'
      /\ \A p \in DOMAIN f : p \in Profiles /\ f[p] \in Ids /\ named < f[p] /\ f[p] <= named'
  <2>1. named' \in Nat /\ named <= named'
    BY <1>1, <1>3
  <2>2. ASSUME NEW p \in DOMAIN f
        PROVE  p \in Profiles /\ f[p] \in Ids /\ named < f[p] /\ f[p] <= named'
    <3>1. p \in Profiles /\ f[p] \in Ids
      BY <1>2, <2>2
    <3>2. f[p] \in named + 1 .. named'
      BY <1>1, <1>2, <2>2
    <3> QED
      BY <1>3, <2>1, <3>1, <3>2
  <2> QED
    BY <2>1, <2>2
<1>5. \A p \in DOMAIN f : names'[p] = Name(f[p]) /\ names'[p].id = f[p]
  BY <1>1, <1>4 DEF Name
<1>6. Granted' \subseteq Granted \cup DOMAIN f
  BY <1>1 DEF Granted
<1>7. \A p \in Granted : names'[p] = names[p]
  BY <1>1, <1>2 DEF Granted
<1>8. \A p \in DOMAIN f : Origins(f[p]) = {}
  <2> SUFFICES ASSUME NEW p \in DOMAIN f, Origins(f[p]) # {} PROVE FALSE
    OBVIOUS
  <2>1. f[p] <= named
    BY <1>4 DEF NamesInv, NamesUsed
  <2> QED
    BY <1>3, <1>4, <2>1 DEF Ids
<1>9. ASSUME NEW id \in Ids, NEW o \in Origins(id)'
      PROVE  o \in Origins(id) \/ \E p \in DOMAIN f : f[p] = id /\ o = <<p, bearer[p]>>
  <2>1. CASE copies'[id] # None /\ o = copies'[id].of
    BY <2>1, OriginsAre
  <2>2. ASSUME NEW t \in Tabs, refresh'[t].got # None, refresh'[t].got.id = id,
               o = refresh'[t].got.of
        PROVE  o \in Origins(id)
    BY <2>2, OriginsAre
  <2>3. ASSUME NEW p \in Granted', names'[p].id = id, o = <<p, bearer'[p]>>
        PROVE  o \in Origins(id) \/ \E q \in DOMAIN f : f[q] = id /\ o = <<q, bearer[q]>>
    <3>1. CASE p \in DOMAIN f
      BY <1>5, <2>3, <3>1
    <3>2. CASE p \in Granted
      BY <1>7, <2>3, <3>2, OriginsAre
    <3> QED
      BY <1>6, <3>1, <3>2
  <2> QED
    BY <2>1, <2>2, <2>3, OriginsBecome
<1>10. NamesUsed'
  <2> SUFFICES ASSUME NEW id \in Ids, NEW o \in Origins(id)' PROVE id <= named'
    BY DEF NamesUsed
  <2>1. CASE o \in Origins(id)
    BY <1>3, <1>4, <2>1 DEF NamesInv, NamesUsed, Ids
  <2>2. CASE \E p \in DOMAIN f : f[p] = id
    BY <1>4, <2>2
  <2> QED
    BY <1>9, <2>1, <2>2
<1>11. OriginsAgree'
  <2> SUFFICES ASSUME NEW id \in Ids, NEW x \in Origins(id)' \ lost, NEW y \in Origins(id)' \ lost
               PROVE  x = y
    BY DEF OriginsAgree
  <2>1. CASE \E p \in DOMAIN f : f[p] = id
    <3>1. Origins(id) = {}
      BY <1>8, <2>1
    <3> QED
      BY <1>2, <1>9, <3>1
  <2>2. CASE ~\E p \in DOMAIN f : f[p] = id
    <3>1. x \in Origins(id) \ lost /\ y \in Origins(id) \ lost
      BY <1>9, <2>2
    <3> QED
      BY <3>1 DEF NamesInv, OriginsAgree
  <2> QED
    BY <2>1, <2>2
<1>12. NumbersBehind'
  <2> SUFFICES ASSUME NEW t \in Tabs, NEW p \in Granted', refresh[t].got # None,
                      refresh[t].got.id = names'[p].id
               PROVE  refresh[t].got.sequence <= names'[p].sequence
    BY DEF NumbersBehind
  <2>1. CASE p \in DOMAIN f
    <3>1. refresh[t].got.of \in Origins(f[p])
      BY <1>5, <2>1, OriginsAre
    <3> QED
      BY <1>8, <2>1, <3>1
  <2>2. CASE p \in Granted
    BY <1>7, <2>2 DEF NamesInv, NumbersBehind
  <2> QED
    BY <1>6, <2>1, <2>2
<1>13. OneSnapshotPerNumber' /\ SavesUnderItsName'
  BY DEF NamesInv, OneSnapshotPerNumber, SavesUnderItsName
\* A profile that had a name has one that is not new.
<1>14. \A p \in Granted : names[p].id \in Ids /\ ~\E q \in DOMAIN f : f[q] = names[p].id
  <2> SUFFICES ASSUME NEW p \in Granted
               PROVE  names[p].id \in Ids /\ ~\E q \in DOMAIN f : f[q] = names[p].id
    OBVIOUS
  <2>1. names[p].id \in Ids
    BY DEF IInv, TypeOK, DesktopOK, Granted, Grant
  <2>2. <<p, bearer[p]>> \in Origins(names[p].id)
    BY OriginsAre
  <2> QED
    BY <1>8, <2>1, <2>2
<1>15. NamesDiffer'
  <2> SUFFICES ASSUME NEW p \in Granted', NEW q \in Granted', names'[p].id = names'[q].id
               PROVE  p = q
    BY DEF NamesDiffer
  <2>1. CASE p \in DOMAIN f /\ q \in DOMAIN f
    BY <1>2, <1>5, <2>1
  <2>2. CASE p \in Granted /\ q \in Granted
    BY <1>7, <2>2 DEF NamesInv, NamesDiffer
  <2>3. CASE p \in DOMAIN f /\ q \in Granted
    BY <1>5, <1>7, <1>14, <2>3
  <2>4. CASE p \in Granted /\ q \in DOMAIN f
    BY <1>5, <1>7, <1>14, <2>4
  <2> QED
    BY <1>6, <2>1, <2>2, <2>3, <2>4
<1>16. NamesTheirBearer'
  <2> SUFFICES ASSUME NEW id \in Ids, NEW p \in Granted', names'[p].id = id, NEW o \in Origins(id)'
               PROVE  o \in lost \/ o = <<p, bearer[p]>>
    BY DEF NamesTheirBearer
  <2>1. CASE p \in DOMAIN f
    <3>1. f[p] = id /\ Origins(id) = {}
      BY <1>5, <1>8, <2>1
    <3>2. \E q \in DOMAIN f : f[q] = f[p] /\ o = <<q, bearer[q]>>
      BY <1>9, <3>1
    <3> QED
      BY <1>2, <2>1, <3>2
  <2>2. CASE p \in Granted
    <3>1. names[p].id = id /\ o \in Origins(id)
      BY <1>7, <1>9, <1>14, <2>2
    <3> QED
      BY <2>2, <3>1 DEF NamesInv, NamesTheirBearer
  <2> QED
    BY <1>6, <2>1, <2>2
<1> QED
  BY <1>4, <1>10, <1>11, <1>12, <1>13, <1>15, <1>16 DEF NamesInv

\* A command at the desktop takes names away, makes a profile that has none, or puts an
\* earlier list back: a profile that this takes off, or replaces, is lost with its name.
OrderNames ==
    /\ named' = named /\ lost \subseteq lost' /\ Granted' \subseteq Granted
    /\ \A p \in Granted' :
           names'[p] = names[p] /\ (bearer'[p] = bearer[p] \/ <<p, bearer[p]>> \in lost')

LEMMA NamesOrdered == ASSUME IInv, GrantsInv, DesktopStep PROVE OrderNames
<1>1. /\ names \in [Profiles -> Grant \cup {None}] /\ bearer \in [Profiles -> Nat]
      /\ Granted \subseteq NotDeleted
  BY DEF IInv, TypeOK, DesktopOK, GrantsInv
<1>2. UNCHANGED <<named, names, bearer, lost>> => OrderNames
  BY DEF OrderNames, Granted
<1>3. ASSUME NEW p \in Profiles, DeleteProfile(p) PROVE OrderNames
  <2>1. UNCHANGED <<named, bearer, lost>> /\ names' \in {names, [names EXCEPT ![p] = None]}
    BY <1>3 DEF DeleteProfile, DropProfile
  <2> QED
    BY <1>1, <2>1 DEF OrderNames, Granted
\* A profile with a name that is not listed was lost.
<1>4. ASSUME NEW p \in Profiles, CreateProfile(p) PROVE OrderNames
  <2>1. UNCHANGED <<named, names, lost>> /\ p \notin listed
    BY <1>4 DEF CreateProfile
  <2>2. \A q \in Profiles \ {p} : bearer'[q] = bearer[q]
    BY <1>1, <1>4 DEF CreateProfile, Bear
  <2>3. p \in Granted => <<p, bearer[p]>> \in lost
    BY <1>1, <2>1 DEF NotDeleted
  <2> QED
    BY <2>1, <2>2, <2>3 DEF OrderNames, Granted
<1>5. CASE ResetRegistry
  <2>1. named' = named /\ lost' = lost /\ Granted' = {}
    BY <1>5 DEF ResetRegistry, Granted
  <2> QED
    BY <2>1 DEF OrderNames
<1>6. CASE RestoreList
  <2>1. UNCHANGED <<named, names>> /\ lost \subseteq lost'
    BY <1>6 DEF RestoreList
  <2>2. ASSUME NEW p \in Granted PROVE bearer'[p] = bearer[p] \/ <<p, bearer[p]>> \in lost'
    <3>1. p \in listed \/ <<p, bearer[p]>> \in lost
      BY <1>1 DEF NotDeleted
    <3>2. p \in Profiles
      BY DEF Granted
    <3>3. CASE p \in DOMAIN backup
      BY <1>6, <3>1, <3>2, <3>3 DEF RestoreList
    <3>4. CASE p \notin DOMAIN backup
      BY <1>6, <3>2, <3>4 DEF RestoreList
    <3> QED
      BY <3>3, <3>4
  <2> QED
    BY <2>1, <2>2 DEF OrderNames, Granted
<1>7. CASE RewriteList
  BY <1>2, <1>7 DEF RewriteList
<1> QED
  BY <1>2, <1>3, <1>4, <1>5, <1>6, <1>7
     DEF DesktopStep, BeginPairing, Decide, CancelPairings, RevokeDevice, RemoveGrant, TimePasses,
         AbandonedJob, grantVars, listVars

LEMMA NamesOrder ==
    ASSUME IInv, GrantsInv, NamesInv, DesktopStep
    PROVE  NamesInv'
<1>1. UNCHANGED <<copies, refresh>>
  BY DesktopFrame DEF storageVars
<1>2. /\ named' = named /\ lost \subseteq lost' /\ Granted' \subseteq Granted
      /\ \A p \in Granted' :
             names'[p] = names[p] /\ (bearer'[p] = bearer[p] \/ <<p, bearer[p]>> \in lost')
  BY NamesOrdered DEF OrderNames
<1>3. \A id \in Ids : copies'[id] # None => copies'[id].of \in Origins(id)
  BY <1>1, OriginsAre
<1>4. SavesUnderItsName'
  BY <1>1 DEF NamesInv, SavesUnderItsName
<1>5. \A t \in Tabs : refresh'[t].got \in {refresh[t].got, None}
  BY <1>1
<1> QED
  BY <1>2, <1>3, <1>4, <1>5, NothingNamed

\* A step of a refresh brings no snapshot but the one built for it, and one is prepared for
\* saving under its own name.
LEMMA Moves ==
    ASSUME IInv, NEW t \in Tabs, RefreshStep(t), ~BuildSnapshot(t)
    PROVE  \E r : /\ refresh' = [refresh EXCEPT ![t] = r]
                  /\ r.got \in {refresh[t].got, None}
                  /\ r.pc = "encrypt" => r.got.id = r.id
<1> DEFINE Allowed(r) == r.got \in {refresh[t].got, None} /\ (r.pc = "encrypt" => r.got.id = r.id)
<1>1. refresh[t] \in RefreshRecord /\ NoRefresh \in RefreshRecord /\ NoRefresh.got = None
      /\ NoRefresh.pc = "idle"
  BY NoRefreshOK DEF IInv, TypeOK, NoRefresh
<1>2. Refreshed(t) => \E r : refresh' = [refresh EXCEPT ![t] = r] /\ Allowed(r)
  BY <1>1 DEF Refreshed, Set
<1>3. CASE StartRefresh(t)
  <2> DEFINE r == [NoRefresh EXCEPT !.pc = "remembered", !.fence = fence]
  <2>1. Allowed(r)
    BY <1>1 DEF RefreshRecord
  <2>2. refresh' = [refresh EXCEPT ![t] = r]
    BY <1>3 DEF StartRefresh, Set
  <2> HIDE DEF r
  <2> QED
    BY <1>2, <2>1, <2>2
<1>4. CASE CheckRemembered(t)
  <2> DEFINE r == [refresh[t] EXCEPT !.pc = "status"]
  <2>1. Allowed(r)
    BY <1>1 DEF RefreshRecord
  <2>2. Refreshed(t) \/ refresh' = [refresh EXCEPT ![t] = r]
    BY <1>4 DEF CheckRemembered, Set, Go
  <2> HIDE DEF r
  <2> QED
    BY <1>2, <2>1, <2>2
<1>5. CASE AskStatus(t)
  <2> DEFINE r == [refresh[t] EXCEPT !.pc = "answer", !.token = cookie,
                    !.seen = {names[p] : p \in DeviceOf(cookie).grants \cap listed \cap Granted}]
  <2>1. Allowed(r)
    BY <1>1 DEF RefreshRecord
  <2>2. Refreshed(t) \/ refresh' = [refresh EXCEPT ![t] = r]
    BY <1>5 DEF AskStatus, Set
  <2> HIDE DEF r
  <2> QED
    BY <1>2, <2>1, <2>2
<1>6. CASE StatusArrives(t)
  <2>1. CASE Refreshed(t)
    BY <1>2, <2>1
  <2>2. CASE \E name \in refresh[t].seen : Set(t, Choose(refresh[t], name))
    <3>1. PICK name \in refresh[t].seen : Set(t, Choose(refresh[t], name))
      BY <2>2
    <3>2. Choose(refresh[t], name).got = refresh[t].got /\ Choose(refresh[t], name).pc # "encrypt"
      <4>1. PICK pc \in {"prepare", "approve"} :
                Choose(refresh[t], name) = [refresh[t] EXCEPT !.id = name.id, !.epoch = name.epoch,
                                            !.seen = {}, !.token = None, !.pc = pc]
        BY DEF Choose
      <4> QED
        BY <1>1, <4>1 DEF RefreshRecord
    <3> QED
      BY <3>1, <3>2 DEF Set
  <2> QED
    BY <1>6, <2>1, <2>2 DEF StatusArrives
<1>7. CASE Prepare(t)
  <2> DEFINE r == [refresh[t] EXCEPT !.pc = "ask", !.guard = fence]
  <2>1. Allowed(r)
    BY <1>1 DEF RefreshRecord
  <2>2. Refreshed(t) \/ refresh' = [refresh EXCEPT ![t] = r]
    BY <1>7 DEF Prepare, Set
  <2> HIDE DEF r
  <2> QED
    BY <1>2, <2>1, <2>2
<1>8. CASE AskSnapshot(t)
  <2> DEFINE r == [refresh[t] EXCEPT !.pc = "queued", !.token = cookie]
  <2>1. Allowed(r)
    BY <1>1 DEF RefreshRecord
  <2>2. Refreshed(t) \/ refresh' = [refresh EXCEPT ![t] = r]
    BY <1>8 DEF AskSnapshot, Set
  <2> HIDE DEF r
  <2> QED
    BY <1>2, <2>1, <2>2
<1>9. CASE DeliverSnapshot(t)
  <2> DEFINE r == [refresh[t] EXCEPT !.pc = "received", !.token = None, !.retired = FALSE]
  <2>1. Allowed(r)
    BY <1>1 DEF RefreshRecord
  <2>2. Refreshed(t) \/ refresh' = [refresh EXCEPT ![t] = r]
    BY <1>9 DEF DeliverSnapshot, Set
  <2> HIDE DEF r
  <2> QED
    BY <1>2, <2>1, <2>2
<1>10. CASE ReadSaved(t)
  <2> DEFINE r == [refresh[t] EXCEPT !.pc = "encrypt", !.old = copies[refresh[t].id]]
  <2>1. r.got = refresh[t].got /\ r.id = refresh[t].id
    BY <1>1 DEF RefreshRecord
  <2>2. Refreshed(t) \/ (MayReplace(refresh[t]) /\ refresh' = [refresh EXCEPT ![t] = r])
    BY <1>10 DEF ReadSaved, Set
  <2>3. MayReplace(refresh[t]) => Allowed(r)
    BY <2>1 DEF MayReplace
  <2> HIDE DEF r
  <2> QED
    BY <1>2, <2>2, <2>3
<1>11. CASE Save(t)
  <2> DEFINE r == [NoRefresh EXCEPT !.pc = "select", !.fence = refresh[t].fence,
                                         !.id = refresh[t].id]
  <2>1. Allowed(r)
    BY <1>1 DEF RefreshRecord
  <2>2. Refreshed(t) \/ refresh' = [refresh EXCEPT ![t] = r]
    BY <1>11 DEF Save, Set
  <2> HIDE DEF r
  <2> QED
    BY <1>2, <2>1, <2>2
<1>12. CASE ShowRefreshed(t)
  BY <1>2, <1>12 DEF ShowRefreshed
<1>13. CASE GiveUp(t)
  BY <1>2, <1>13 DEF GiveUp
<1> QED
  BY <1>3, <1>4, <1>5, <1>6, <1>7, <1>8, <1>9, <1>10, <1>11, <1>12, <1>13 DEF RefreshStep

LEMMA NamesStep == IInv /\ GrantsInv /\ NamesInv /\ [Next]_vars => NamesInv'
<1> SUFFICES ASSUME IInv, GrantsInv, NamesInv, [Next]_vars PROVE NamesInv'
  OBVIOUS
<1>0. refresh \in [Tabs -> RefreshRecord] /\ copies \in [Ids -> Copy \cup {None}]
  BY DEF IInv, TypeOK
\* What most of the phone's steps have in common.
<1>1. ASSUME UNCHANGED <<names, bearer, lost, named>>,
             \A t \in Tabs : /\ refresh'[t].got \in {refresh[t].got, None}
                             /\ refresh'[t].pc = "encrypt" => refresh'[t].got.id = refresh'[t].id,
             \A id \in Ids : copies'[id] # None => copies'[id].of \in Origins(id)
      PROVE  NamesInv'
  <2>1. SavesUnderItsName'
    BY <1>1 DEF SavesUnderItsName
  <2>2. Granted' = Granted
    BY <1>1 DEF Granted
  <2> QED
    BY <1>1, <2>1, <2>2, NothingNamed
<1>2. ASSUME NEW id \in Ids, copies'[id] \in {copies[id], None}, copies'[id] # None
      PROVE  copies'[id].of \in Origins(id)
  BY <1>2, OriginsAre
<1>3. UNCHANGED refresh \/ Retired =>
          \A t \in Tabs : /\ refresh'[t].got \in {refresh[t].got, None}
                          /\ refresh'[t].pc = "encrypt" => refresh'[t].got.id = refresh'[t].id
  BY RetiredOK DEF NamesInv, SavesUnderItsName
<1>4. CASE UNCHANGED vars
  BY <1>1, <1>2, <1>3, <1>4 DEF vars, desktopVars, storageVars, grantVars, listVars
<1>5. CASE DesktopStep
  BY <1>5, NamesOrder
<1>6. ASSUME NEW t \in Tabs, RefreshStep(t) PROVE NamesInv'
  <2>1. CASE BuildSnapshot(t)
    BY <2>1, NamesBuilt
  <2>2. CASE ~BuildSnapshot(t)
    <3>1. PICK r : /\ refresh' = [refresh EXCEPT ![t] = r]
                   /\ r.got \in {refresh[t].got, None}
                   /\ r.pc = "encrypt" => r.got.id = r.id
      BY <1>6, <2>2, Moves
    <3>2. \A u \in Tabs : /\ refresh'[u].got \in {refresh[u].got, None}
                          /\ refresh'[u].pc = "encrypt" => refresh'[u].got.id = refresh'[u].id
      BY <1>0, <3>1 DEF NamesInv, SavesUnderItsName
    <3>3. UNCHANGED <<names, bearer, lost, named>>
      BY <1>6, <2>2
         DEF RefreshStep, StartRefresh, CheckRemembered, AskStatus, StatusArrives, Prepare,
             AskSnapshot, DeliverSnapshot, ReadSaved, Save, ShowRefreshed, GiveUp, desktopVars,
             grantVars, listVars
    <3>4. UNCHANGED copies \/ (Save(t) /\ SaveCopy(refresh[t]))
      BY <1>6, <2>2
         DEF RefreshStep, StartRefresh, CheckRemembered, AskStatus, StatusArrives, Prepare,
             AskSnapshot, DeliverSnapshot, ReadSaved, Save, ShowRefreshed, GiveUp, SelectCopy,
             storageVars
    <3>5. CASE UNCHANGED copies
      BY <1>1, <1>2, <3>2, <3>3, <3>5
    <3>6. CASE Save(t) /\ SaveCopy(refresh[t])
      <4>1. /\ refresh[t].got \in Snapshot /\ refresh[t].got.id = refresh[t].id
            /\ refresh[t].id \in Ids /\ refresh[t].got # None
        BY <3>6, PhoneAssumption DEF Save, At, IInv, RefreshesOK, RecordOK, Received, GuardKept,
                    Guarded, NamesInv, SavesUnderItsName
      <4>2. copies'[refresh[t].id].of = refresh[t].got.of
            /\ \A id \in Ids \ {refresh[t].id} : copies'[id] = copies[id]
        BY <1>0, <3>6, <4>1 DEF SaveCopy
      <4>3. refresh[t].got.of \in Origins(refresh[t].id)
        BY <4>1, OriginsAre
      <4> QED
        BY <1>1, <1>2, <3>2, <3>3, <4>1, <4>2, <4>3
    <3> QED
      BY <3>4, <3>5, <3>6
  <2> QED
    BY <2>1, <2>2
<1>7. ASSUME NEW t \in Tabs, UserStep(t) PROVE NamesInv'
  <2>1. \A id \in Ids : copies'[id] \in {copies[id], None}
    BY <1>0, <1>7
       DEF UserStep, StartPairing, LeaveOldAccess, RedeemCode, PollPairing, PairingArrives,
           RememberAccess, AskRemoval, DoRemove, RemoveCopy, DoForget, ForgetCopies,
           LogoutForgotten, EndUser, HearRemoval, storageVars
  <2>2. UNCHANGED refresh \/ Retired
    BY <1>7, RetireOK
       DEF UserStep, StartPairing, LeaveOldAccess, RedeemCode, PollPairing, PairingArrives,
           RememberAccess, AskRemoval, DoRemove, DoForget, LogoutForgotten, EndUser, HearRemoval
  <2>3. \/ UNCHANGED <<names, bearer, lost, named>>
        \/ Complete(user[t].nr) /\ UNCHANGED <<storageVars, refresh>>
    BY <1>7
       DEF UserStep, StartPairing, LeaveOldAccess, RedeemCode, PollPairing, PairingArrives,
           RememberAccess, AskRemoval, DoRemove, DoForget, LogoutForgotten, EndUser, HearRemoval,
           Redeem, Logout, desktopVars, grantVars, listVars
  <2>4. CASE UNCHANGED <<names, bearer, lost, named>>
    BY <1>1, <1>2, <1>3, <2>1, <2>2, <2>4
  <2>5. CASE Complete(user[t].nr) /\ UNCHANGED <<storageVars, refresh>>
    <3>1. PICK pair \in pairs : pair.grants # None /\ Register(user[t].nr, pair.grants)
      BY <2>5 DEF Complete
    <3>2. pair.grants \in SUBSET Profiles
      BY <3>1 DEF IInv, TypeOK, DesktopOK
    <3> QED
      BY <2>5, <3>1, <3>2, NamesRegistered DEF Complete, listVars, storageVars
  <2> QED
    BY <2>3, <2>4, <2>5
<1>8. ASSUME NEW id \in Ids, ShowCopy(id) PROVE NamesInv'
  BY <1>1, <1>2, <1>3, <1>8 DEF ShowCopy, SelectCopy, desktopVars, grantVars, listVars
<1> QED
  BY <1>4, <1>5, <1>6, <1>7, <1>8 DEF Next

\* The names grants give and the numbers snapshots carry (mobile_devices.rs).
THEOREM NamesKept == Spec => [](IInv /\ GrantsInv /\ NamesInv)
  BY Starts, Steps, GrantsStart, GrantsStep, NamesStart, NamesStep, PTL DEF Spec

\* A name under which copies are saved stands for one profile for ever, whatever profile has
\* the internal id later: copies of two profiles never replace each other, unless an earlier
\* list put back took the first of them off the list.
THEOREM NameStandsForOne == Spec => []OneProfilePerName
<1>1. NamesInv => OneProfilePerName
  <2> SUFFICES ASSUME NamesInv, NEW id \in Ids PROVE Cardinality(Origins(id) \ lost) <= 1
    BY DEF OneProfilePerName
  <2>1. CASE Origins(id) \ lost = {}
    BY <2>1, FS_EmptySet
  <2>2. ASSUME NEW o \in Origins(id) \ lost PROVE Cardinality(Origins(id) \ lost) <= 1
    <3>1. Origins(id) \ lost = {o}
      BY DEF NamesInv, OriginsAgree
    <3> QED
      BY <3>1, FS_Singleton
  <2> QED
    BY <2>1, <2>2
<1> QED
  BY <1>1, NamesKept, PTL

\* A number is given to one snapshot of a profile, so an equal number is the same snapshot
\* and a greater one is newer (next, in mobile_devices.rs).
THEOREM NumberGivenOnce == Spec => []OneSnapshotPerNumber
<1>1. NamesInv => OneSnapshotPerNumber
  BY DEF NamesInv
<1> QED
  BY <1>1, NamesKept, PTL
==============================================================================
