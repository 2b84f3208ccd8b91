------------------------------ MODULE LedgerRows ------------------------------
(* Commands on single transactions: adding, correcting, deleting, restoring   *)
(* and flipping them (store/transactions.rs, store/sign_flip.rs).             *)
EXTENDS Checkpoints

CreateTransaction(a, d, amount) ==
    /\ Command({"balances", "reconcile"})
    /\ a \in accounts
    /\ InsertRow(a, d, amount, "entry")
    /\ UNCHANGED <<accounts, balanceVars, pairVars, otherVars>>

\* Corrections ask only that the row exists: a deleted one can be corrected too.
ChangeRow(new) ==
    /\ UpdateRows(new)
    /\ UNCHANGED <<accounts, balanceVars, pairVars, otherVars>>

UpdateAmount(i, amount) ==
    /\ Command(Scopes)
    /\ Exists(i) /\ rows[i].amount # amount
    /\ ChangeRow([j \in {i} |-> [rows[j] EXCEPT !.amount = amount]])

UpdateDate(i, d) ==
    /\ Command({"balances", "pairs"})
    /\ Exists(i) /\ rows[i].day # d
    /\ ChangeRow([j \in {i} |-> [rows[j] EXCEPT !.day = d]])

Generated(i) == {p.generated : p \in {q \in payments : q.source = i}}

\* For a negative check: only the payment's own row is looked up.
PartnerOfSource(i) == Generated(i)

\* The other side of an applied debt payment, if i is one of its sides; of two
\* payments the one made from i.
Partner(i) == IF Generated(i) # {} THEN Generated(i)
              ELSE {p.source : p \in {q \in payments : q.generated = i}}

\* Both sides of an applied payment leave and come back together.
SetLive(ids, b) == ChangeRow([i \in ids |-> [rows[i] EXCEPT !.live = b]])

DeleteTransaction(i) ==
    /\ Command(Scopes)
    /\ Live(i)
    /\ SetLive({i} \cup Partner(i), FALSE)

RestoreTransaction(i) ==
    /\ Command(Scopes)
    /\ Exists(i) /\ ~rows[i].live
    /\ SetLive({i} \cup Partner(i), TRUE)

\* Refused when a row is a side of a linked transfer or an applied payment.
FlipSigns(ids) ==
    /\ Command({"balances", "pairs"})
    /\ ids # {} /\ \A i \in ids : Live(i)
    /\ ids \cap (LinkedRows \cup PaymentRows) = {}
    /\ UpdateRows([i \in ids |-> [rows[i] EXCEPT !.amount = -@]])
    /\ CorrectCheckpoints(ids)
    /\ UNCHANGED <<accounts, opening, pairVars, otherVars>>
=============================================================================
