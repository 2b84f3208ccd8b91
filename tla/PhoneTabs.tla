------------------------------- MODULE PhoneTabs -------------------------------
(* What a tab does: refreshing a copy (mobileSession.ts, mobileConnection.ts),  *)
(* pairing, removing and forgetting (MobileOfflineApp.tsx).  Every await is a   *)
(* boundary between two actions; every request can be lost, and so can its      *)
(* answer after the desktop acted on it.  The answer of a request sets the      *)
(* cookie to the token the request was made with.                               *)
EXTENDS DeviceGrants, SavedCopies

At(t, pc) == refresh[t].pc = pc
Set(t, r) == refresh' = [refresh EXCEPT ![t] = r]
Refreshed(t) == Set(t, NoRefresh)
Go(t, pc) == Set(t, [refresh[t] EXCEPT !.pc = pc])

\* refreshLock: one refresh in a tab.
StartRefresh(t) ==
    /\ At(t, "idle")
    /\ Set(t, [NoRefresh EXCEPT !.pc = "remembered", !.fence = fence])
    /\ UNCHANGED <<desktopVars, storageVars, cookie, user, scope>>

CheckRemembered(t) ==
    /\ At(t, "remembered")
    /\ IF remembered THEN Go(t, "status") ELSE Refreshed(t)
    /\ UNCHANGED <<desktopVars, storageVars, cookie, user, scope>>

\* GET /api/status: the profiles this device may read, as they are named now.
AskStatus(t) ==
    /\ At(t, "status")
    /\ IF Authenticates(cookie)
       THEN Set(t, [refresh[t] EXCEPT !.pc = "answer", !.token = cookie,
                     !.seen = {names[p] : p \in DeviceOf(cookie).grants \cap listed \cap Granted}])
       ELSE Refreshed(t)
    /\ UNCHANGED <<desktopVars, storageVars, cookie, user, scope>>

\* Access must still be remembered, and nothing removed, when the answer arrives; a
\* saved copy under another epoch waits for the person's approval.
Choose(r, name) == [r EXCEPT !.id = name.id, !.epoch = name.epoch, !.seen = {}, !.token = None,
    !.pc = IF copies[name.id] # None /\ copies[name.id].epoch # name.epoch THEN "approve" ELSE "prepare"]

StatusArrives(t) ==
    /\ At(t, "answer")
    /\ cookie' = refresh[t].token
    /\ IF remembered /\ fence = refresh[t].fence
       THEN \E name \in refresh[t].seen : Set(t, Choose(refresh[t], name))
       ELSE Refreshed(t)
    /\ UNCHANGED <<desktopVars, storageVars, user, scope>>

\* prepareRefresh: the fence the answer will be saved under is still the one the
\* refresh began under.
Prepare(t) ==
    /\ At(t, "prepare")
    /\ IF fence = refresh[t].fence
       THEN Set(t, [refresh[t] EXCEPT !.pc = "ask", !.guard = fence])
       ELSE Refreshed(t)
    /\ UNCHANGED <<desktopVars, storageVars, cookie, user, scope>>

\* GET /api/snapshot: authorized, then one at a time.
AskSnapshot(t) ==
    /\ At(t, "ask")
    /\ IF Authorized(cookie, refresh[t].id) /\ permit = "free"
       THEN /\ Set(t, [refresh[t] EXCEPT !.pc = "queued", !.token = cookie])
            /\ permit' = "held"
       ELSE Refreshed(t) /\ UNCHANGED permit
    /\ UNCHANGED <<grantVars, orders, storageVars, cookie, user, scope>>

\* project, on the command worker; every reason for which the session does not allow
\* it ends the request (see GiveUp).
BuildSnapshot(t) ==
    /\ At(t, "queued") /\ permit = "held"
    /\ Authorized(refresh[t].token, refresh[t].id)
    /\ LET p == Named(refresh[t].id)
       IN  /\ p \in listed /\ names[p].sequence < MaxSequence
           /\ NextNumber(p)
           /\ LET grant == names'[p]
              IN  Set(t, [refresh[t] EXCEPT !.pc = "built", !.got =
                      [id |-> grant.id, epoch |-> grant.epoch, sequence |-> grant.sequence,
                       of |-> <<p, bearer[p]>>]])
    /\ UNCHANGED <<listVars, devices, pairs, pairings, named, tokens, permit, orders,
                   storageVars, cookie, user, scope>>

\* The first frame leaves only while the device may still read the profile.
DeliverSnapshot(t) ==
    /\ At(t, "built")
    /\ permit' = "free"
    /\ IF Authorized(refresh[t].token, refresh[t].id) /\ Named(refresh[t].id) \in listed
       THEN /\ Set(t, [refresh[t] EXCEPT !.pc = "received", !.token = None, !.retired = FALSE])
            /\ cookie' = refresh[t].token
       ELSE Refreshed(t) /\ UNCHANGED cookie
    /\ UNCHANGED <<grantVars, orders, storageVars, user, scope>>

ReadSaved(t) ==
    /\ At(t, "received")
    /\ IF MayReplace(refresh[t])
       THEN Set(t, [refresh[t] EXCEPT !.pc = "encrypt", !.old = copies[refresh[t].id]])
       ELSE Refreshed(t)
    /\ UNCHANGED <<desktopVars, storageVars, cookie, user, scope>>

Save(t) ==
    /\ At(t, "encrypt")
    /\ IF ~refresh[t].retired /\ StillAsRead(refresh[t])
       THEN /\ SaveCopy(refresh[t])
            /\ Set(t, [NoRefresh EXCEPT !.pc = "select", !.fence = refresh[t].fence,
                                        !.id = refresh[t].id])
       ELSE Refreshed(t) /\ UNCHANGED storageVars
    /\ UNCHANGED <<desktopVars, cookie, user, scope>>

\* The refreshed profile becomes the one shown, unless it was removed meanwhile.
ShowRefreshed(t) ==
    /\ At(t, "select")
    /\ Refreshed(t)
    /\ SelectCopy(refresh[t].id) \/ (copies[refresh[t].id] = None /\ UNCHANGED storageVars)
    /\ UNCHANGED <<desktopVars, cookie, user, scope>>

\* A refusal, a lost request or answer, a time limit, an I/O error, the desktop's end.
GiveUp(t) ==
    /\ ~At(t, "idle")
    /\ Refreshed(t)
    /\ permit' = CASE At(t, "queued") -> "left" [] At(t, "built") -> "free" [] OTHER -> permit
    /\ UNCHANGED <<grantVars, orders, storageVars, cookie, user, scope>>

RefreshStep(t) ==
    \/ StartRefresh(t) \/ CheckRemembered(t) \/ AskStatus(t) \/ StatusArrives(t)
    \/ Prepare(t) \/ AskSnapshot(t) \/ BuildSnapshot(t) \/ DeliverSnapshot(t)
    \/ ReadSaved(t) \/ Save(t) \/ ShowRefreshed(t) \/ GiveUp(t)
-------------------------------------------------------------------------------
(* Pairing, removing, forgetting: one of them at a time in a tab *)

Doing(t, pc) == user[t].pc = pc
SetUser(t, u) == user' = [user EXCEPT ![t] = u]
Done(t) == SetUser(t, NoUser)
Turn(t, pc) == SetUser(t, [user[t] EXCEPT !.pc = pc])

StartPairing(t) ==
    /\ Doing(t, "idle") /\ At(t, "idle")
    /\ SetUser(t, [NoUser EXCEPT !.pc = "old", !.fence = fence])
    /\ UNCHANGED <<desktopVars, storageVars, cookie, refresh, scope>>

\* The access the phone still has is given up first; a phone without any goes on.
LeaveOldAccess(t) ==
    /\ Doing(t, "old")
    /\ IF Authenticates(cookie)
       THEN Logout(cookie) /\ \/ cookie' = None /\ Turn(t, "redeem")
                              \/ cookie' = cookie /\ Done(t)
       ELSE Turn(t, "redeem") /\ UNCHANGED <<grantVars, cookie>>
    /\ UNCHANGED <<permit, orders, storageVars, refresh, scope>>

RedeemCode(t, n) ==
    /\ Doing(t, "redeem")
    /\ Redeem(n)
    /\ SetUser(t, [user[t] EXCEPT !.pc = "poll", !.nr = n]) \/ Done(t)
    /\ UNCHANGED <<permit, orders, storageVars, cookie, refresh, scope>>

\* completeMobilePairing, asked again until the desktop has decided.
PollPairing(t) ==
    /\ Doing(t, "poll")
    /\ Complete(user[t].nr)
    /\ \/ SetUser(t, [user[t] EXCEPT !.pc = "paired", !.id = tokens'])
       \/ Done(t)
    /\ UNCHANGED <<permit, orders, storageVars, cookie, refresh, scope>>

\* The new token arrives, for a pairing the person cancelled too.
PairingArrives(t) ==
    /\ Doing(t, "paired")
    /\ cookie' = user[t].id
    /\ Turn(t, "remember") \/ Done(t)
    /\ UNCHANGED <<desktopVars, storageVars, refresh, scope>>

\* Access is remembered unless saved copies were removed since the pairing began.
RememberAccess(t) ==
    /\ Doing(t, "remember")
    /\ Done(t)
    /\ \/ /\ Remember(user[t].fence)
          /\ UNCHANGED <<copies, fence, active, revisions, notice>>
       \/ fence # user[t].fence /\ UNCHANGED storageVars
    /\ UNCHANGED <<desktopVars, cookie, refresh, scope>>

\* The person asks for a removal; a pairing under way in the tab is cancelled, and a
\* replacement being prepared there.
AskRemoval(t) ==
    /\ user[t].pc \notin {"remove", "forget", "logout"}
    /\ \/ \E id \in Ids : /\ copies[id] # None
                          /\ SetUser(t, [NoUser EXCEPT !.pc = "remove", !.id = id])
       \/ SetUser(t, [NoUser EXCEPT !.pc = "forget"])
    /\ refresh' = Retire({t})
    /\ UNCHANGED <<desktopVars, storageVars, cookie, scope>>

DoRemove(t) ==
    /\ Doing(t, "remove")
    /\ RemoveCopy(t, user[t].id)
    /\ Done(t)
    /\ UNCHANGED <<desktopVars, cookie, refresh, scope>>

DoForget(t) ==
    /\ Doing(t, "forget")
    /\ ForgetCopies(t)
    /\ Turn(t, "logout")
    /\ UNCHANGED <<desktopVars, cookie, refresh, scope>>

\* Revoking on the desktop is tried; it revokes whatever the cookie holds by then.
LogoutForgotten(t) ==
    /\ Doing(t, "logout")
    /\ Authenticates(cookie)
    /\ Logout(cookie) /\ cookie' \in {None, cookie} /\ Done(t)
    /\ UNCHANGED <<permit, orders, storageVars, refresh, scope>>

\* The person cancels, or an error ends it.
EndUser(t) ==
    /\ ~Doing(t, "idle")
    /\ Done(t)
    /\ UNCHANGED <<desktopVars, storageVars, cookie, refresh, scope>>

HearRemoval(t) ==
    /\ t \in notice
    /\ notice' = notice \ {t}
    /\ refresh' = Retire({t})
    /\ UNCHANGED <<desktopVars, copies, fence, active, remembered, revisions, cookie, user, scope>>

ShowCopy(id) ==
    /\ active # id
    /\ SelectCopy(id)
    /\ UNCHANGED <<desktopVars, cookie, refresh, user, scope>>

UserStep(t) ==
    \/ StartPairing(t) \/ LeaveOldAccess(t) \/ \E n \in 1 .. pairings : RedeemCode(t, n)
    \/ PollPairing(t) \/ PairingArrives(t) \/ RememberAccess(t)
    \/ AskRemoval(t) \/ DoRemove(t) \/ DoForget(t) \/ LogoutForgotten(t)
    \/ EndUser(t) \/ HearRemoval(t)
===============================================================================
