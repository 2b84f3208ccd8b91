------------------------------ MODULE SavedCopies ------------------------------
(* The browser's storage and what the tabs do with it: every backend operation *)
(* is one IndexedDB transaction; between two of them anything can happen in    *)
(* another tab (mobileIndexedDb.ts, mobileRepository.ts).                       *)
EXTENDS PhoneState

\* A removal changes the fence and is announced to the other tabs.
Removed(t) ==
    /\ fence < MaxRemovals[scope]
    /\ fence' = fence + 1
    /\ notice' = notice \cup (Tabs \ {t})
    /\ UNCHANGED revisions

\* Mutant: the removed copy stays the one to show.
RemoveKeepingActive(t, id) ==
    /\ Removed(t)
    /\ copies' = [copies EXCEPT ![id] = None]
    /\ UNCHANGED <<active, remembered>>

RemoveCopy(t, id) ==
    /\ Removed(t)
    /\ copies' = [copies EXCEPT ![id] = None]
    /\ active' = IF active = id THEN None ELSE active
    /\ UNCHANGED remembered

\* remove without a name: every copy and what is remembered goes.
ForgetCopies(t) ==
    /\ Removed(t)
    /\ copies' = [id \in Ids |-> None]
    /\ active' = None /\ remembered' = FALSE

Remember(since) == fence = since /\ remembered' = TRUE

SelectCopy(id) ==
    /\ copies[id] # None
    /\ active' = id
    /\ UNCHANGED <<copies, fence, remembered, revisions, notice>>
-------------------------------------------------------------------------------
(* replace: a received snapshot becomes the saved copy *)

\* Its own tab's removals, and the others' once announced, end a replacement.
Retire(T) == [t \in Tabs |-> IF t \in T THEN [refresh[t] EXCEPT !.retired = TRUE]
                             ELSE refresh[t]]

\* What is read must allow the replacement: no removal since the request, the same
\* identity, a newer number.
MayReplace(r) ==
    LET old == copies[r.id]
    IN  /\ r.got.id = r.id /\ r.got.epoch = r.epoch
        /\ r.guard = fence
        /\ old # None => old.epoch = r.epoch /\ r.got.sequence > old.sequence

\* Mutant: only the fence is compared.
UnchangedSince(r) == fence = r.guard

\* Nothing was removed or replaced while the copy was encrypted.
StillAsRead(r) ==
    /\ fence = r.guard
    /\ IF r.old = None THEN copies[r.id] = None
       ELSE copies[r.id] # None /\ copies[r.id].revision = r.old.revision

SaveCopy(r) ==
    /\ revisions' = revisions + 1
    /\ copies' = [copies EXCEPT ![r.id] =
                     [epoch |-> r.got.epoch, sequence |-> r.got.sequence, of |-> r.got.of,
                      revision |-> revisions']]
    /\ active' = IF active = None THEN r.id ELSE active
    /\ UNCHANGED <<fence, remembered, notice>>
===============================================================================
