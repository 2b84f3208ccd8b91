------------------------------ MODULE Transfers ------------------------------
(* Two rows as the legs of one transfer, suggested, linked by hand or by the  *)
(* application, and payments applied to a debt (store/transfers.rs,           *)
(* store/transactions.rs).                                                    *)
EXTENDS LedgerRows

SettleWithin == 3    \* days between the legs of a suggested transfer

Pair(o, n) == [out |-> o, in |-> n]

\* For a negative check: a row that is linked already can be linked again.
LinkableAgain(o, n) ==
    /\ Live(o) /\ Live(n)
    /\ rows[o].account # rows[n].account
    /\ rows[o].amount < 0 /\ rows[n].amount > 0

\* A leg each way, in different accounts, neither linked: what a person may link.
Linkable(o, n) ==
    /\ Live(o) /\ Live(n)
    /\ rows[o].account # rows[n].account
    /\ rows[o].amount < 0 /\ rows[n].amount > 0
    /\ {o, n} \cap LinkedRows = {}

LinkRow(p, auto) == [out |-> p.out, in |-> p.in, auto |-> auto, reviewed |-> ~auto]

LinkTransfer(o, n) ==
    /\ Command({"pairs"})
    /\ Linkable(o, n)
    /\ links' = links \cup {LinkRow(Pair(o, n), FALSE)}
    /\ UNCHANGED <<accounts, rows, revision, rejected, dismissed, payments, balanceVars, otherVars>>

\* Remembered, so that the application never links the pair again by itself.
UnlinkTransfer(i) ==
    /\ Command({"pairs"})
    /\ LET mine == {l \in links : i \in {l.out, l.in}}
       IN  /\ mine # {}
           /\ links' = links \ mine
           /\ rejected' = rejected \cup {Pair(l.out, l.in) : l \in mine}
    /\ UNCHANGED <<accounts, rows, revision, dismissed, payments, balanceVars, otherVars>>

\* Pairs that look like one transfer: generated payments never do.
CandidatePairs ==
    LET generated == {p.generated : p \in payments}
        near(o, n) == rows[o].day - rows[n].day \in -SettleWithin .. SettleWithin
    IN  {p \in [out : Ids, in : Ids] : /\ Linkable(p.out, p.in)
                                      /\ rows[p.out].amount = -rows[p.in].amount
                                      /\ near(p.out, p.in)
                                      /\ {p.out, p.in} \cap generated = {}}

Suggestible == CandidatePairs \ dismissed

\* Each row in one suggestion only: the nearest dates first, then the lower ids.
Suggested ==
    LET days(p) == LET d == rows[p.out].day - rows[p.in].day IN IF d < 0 THEN -d ELSE d
        before(p, q) == \/ days(p) < days(q)
                        \/ days(p) = days(q) /\ p.out < q.out
                        \/ days(p) = days(q) /\ p.out = q.out /\ p.in < q.in
        order == SetToSortSeq(Suggestible, before)
        overlap(p, q) == {p.out, p.in} \cap {q.out, q.in} # {}
        taken[n \in 0 .. Len(order)] ==
            IF n = 0 THEN {}
            ELSE IF \E p \in taken[n - 1] : overlap(p, order[n]) THEN taken[n - 1]
            ELSE taken[n - 1] \cup {order[n]}
    IN  taken[Len(order)]

DismissCandidates(S) ==
    /\ Command({"pairs"})
    /\ S # {}
    /\ dismissed' = dismissed \cup
         {p \in S : {p.out, p.in} \cap LinkedRows = {} /\ Live(p.out) /\ Live(p.in)}
    /\ UNCHANGED <<accounts, rows, revision, links, rejected, payments, balanceVars, otherVars>>

RestoreCandidates(S) ==
    /\ Command({"pairs"})
    /\ S # {}
    /\ dismissed' = dismissed \ S
    /\ UNCHANGED <<accounts, rows, revision, links, rejected, payments, balanceVars, otherVars>>

\* Only where neither leg has another possible match.
ClearCut ==
    LET pairs == Suggestible \ rejected
    IN  {p \in pairs : \A q \in pairs : q # p => q.out # p.out /\ q.in # p.in}

AutoLink ==
    /\ Command({"pairs"})
    /\ ClearCut # {}
    /\ links' = links \cup {LinkRow(p, TRUE) : p \in ClearCut}
    /\ UNCHANGED <<accounts, rows, revision, rejected, dismissed, payments, balanceVars, otherVars>>

ToReview == {l \in links : l.auto /\ ~l.reviewed /\ Live(l.out) /\ Live(l.in)}

MarkReviewed(l) ==
    /\ Command({"pairs"})
    /\ l \in ToReview
    /\ links' = (links \ {l}) \cup {[l EXCEPT !.reviewed = TRUE]}
    /\ UNCHANGED <<accounts, rows, revision, rejected, dismissed, payments, balanceVars, otherVars>>

(* -- Payments applied to a debt ------------------------------------------- *)

Sources == {p.source : p \in payments}

\* Records the payment as a row of the debt account, then what it was made from.
\* A source has one record: a second one is refused, after the row is written.
ApplyDebtPayment(i, debt, amount) ==
    /\ Command({"pairs"})
    /\ Exists(i) /\ debt \in accounts
    /\ InsertRow(debt, rows[i].day, amount, "payment")
    /\ payments' = IF i \in Sources THEN payments
                   ELSE payments \cup {[source |-> i, generated |-> Len(rows) + 1]}
    /\ UNCHANGED <<accounts, links, rejected, dismissed, balanceVars, otherVars>>

\* The record goes first; the row goes too, unless a transfer link or another
\* payment still refers to it: that refusal leaves the record deleted.
UnapplyDebtPayment(p) ==
    /\ Command({"pairs"})
    /\ p \in payments
    /\ payments' = payments \ {p}
    /\ IF p.generated \in LinkedRows \cup Sources THEN UNCHANGED <<rows, revision>>
       ELSE rows' = [rows EXCEPT ![p.generated] = None] /\ revision' = revision + 1
    /\ UNCHANGED <<accounts, links, rejected, dismissed, balanceVars, otherVars>>

(* -- Deleting an account -------------------------------------------------- *)

Records(a) == {k \in DOMAIN recons : recons[k].account = a}
RowsOf(a) == {i \in Ids : Exists(i) /\ rows[i].account = a}
Twins(a) == {p.generated : p \in {q \in payments : q.source \in RowsOf(a)}}

Cascade(a) == RowsOf(a) \cup Twins(a)

\* What is left of a deleted record: its id.
NoRecord == [account |-> None, settles |-> <<>>]

\* All or nothing; a row that a transfer link refers to cannot go, nor can a
\* generated row while a payment made from it is recorded.
DeleteAccount(a) ==
    /\ Command({"pairs"})
    /\ a \in accounts
    /\ Cascade(a) \cap LinkedRows = {} /\ Twins(a) \cap Sources = {}
    /\ accounts' = accounts \ {a}
    /\ rows' = [i \in Ids |-> IF i \in Cascade(a) THEN None ELSE rows[i]]
    /\ revision' = revision + Cardinality(Cascade(a))
    /\ payments' = {p \in payments : {p.source, p.generated} \cap Cascade(a) = {}}
    /\ resets' = [c \in DOMAIN resets |-> IF c \in Checkpoints(a) THEN None ELSE resets[c]]
    /\ versions' = [v \in DOMAIN versions |->
                      IF versions[v] # None /\ versions[v].account = a THEN None
                      ELSE versions[v]]
    /\ recons' = [k \in DOMAIN recons |-> IF k \in Records(a) THEN NoRecord ELSE recons[k]]
    /\ UNCHANGED <<opening, links, rejected, dismissed, today, review, statement, moved, scope>>
=============================================================================
