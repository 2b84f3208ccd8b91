----------------------------- MODULE Reconciling -----------------------------
(* Checking an account against its statement: ticking rows by hand, finishing *)
(* when nothing is left over, and the review of a statement that was read from *)
(* a file (store/reconcile.rs, commands/statements.rs).                        *)
EXTENDS AccountMoves

Leeway == 1     \* bound: days around the statement's period, for seven

\* How a row moves the balance a statement prints: what is owed, on a debt.
Change(a, amount) == IF Kind[a] \in {"cash", "investment"} THEN amount ELSE -amount
ChangeOf(a, ids) == Change(a, Total(ids))

Ticked(a, table) == {i \in DOMAIN table : /\ table[i] # None
                                          /\ table[i].account = a /\ table[i].live
                                          /\ table[i].cleared /\ table[i].settled = 0}

\* The latest record stating a balance up to day d: an investment statement's
\* record states none.
BalanceRecords(a, d) == {k \in Records(a) : recons[k].checked = None /\ recons[k].day <= d}
After(k, n) == \/ recons[k].day > recons[n].day
               \/ recons[k].day = recons[n].day /\ k > n
LastRecord(a, d) == CHOOSE k \in BalanceRecords(a, d) :
                        \A n \in BalanceRecords(a, d) : n = k \/ After(k, n)

\* For a negative check: what investment statements settled is forgotten.
SettledSinceNothing(a, n, d) == {}

\* Rows settled since by investment statements, as they are now, deleted or not.
SettledSince(a, n, d) ==
    {i \in Ids : /\ Exists(i) /\ rows[i].settled # 0
                 /\ LET k == rows[i].settled
                    IN  /\ k \in Records(a) /\ recons[k].checked # None
                        /\ After(k, n) /\ recons[k].day <= d}

StartingPoint(a, d) ==
    IF BalanceRecords(a, d) = {} THEN None
    ELSE LET n == LastRecord(a, d) IN recons[n].end + ChangeOf(a, SettledSince(a, n, d))

StartFrom(a, d, typed) == IF StartingPoint(a, d) = None THEN typed ELSE StartingPoint(a, d)

\* History: every row a record of this account settled still amounts to that.
AsSettled(a) == \A k \in Records(a) : \A i \in DOMAIN recons[k].settles :
                    Exists(i) /\ rows[i].amount = recons[k].settles[i]

\* A finished reconciliation, with what each row it settled amounted to, and whether
\* those settled before still did.
Record(a, d, start, end, checked, ids, table) ==
    [account |-> a, day |-> d, start |-> start, end |-> end, checked |-> checked,
     settles |-> [i \in ids |-> table[i].amount], asSettled |-> AsSettled(a)]

Settle(table, ids) ==
    [i \in DOMAIN table |-> IF i \in ids THEN [table[i] EXCEPT !.settled = Len(recons) + 1]
                            ELSE table[i]]

\* A row is ticked or unticked whatever it is, settled rows included.
Tick(i, b) ==
    /\ Command({"reconcile"})
    /\ Exists(i) /\ rows[i].cleared # b
    /\ rows' = [rows EXCEPT ![i].cleared = b]
    /\ UNCHANGED <<accounts, revision, balanceVars, pairVars, otherVars>>

\* Nothing is left over: the statement ends where its start and the ticked rows
\* lead to.  A start is asked for only while the account has no record.
FinishManual(a, d, typed) ==
    /\ Command({"reconcile"})
    /\ a \in accounts
    /\ LET ticked == Ticked(a, rows)
           start == StartFrom(a, d, typed)
       IN  /\ rows' = Settle(rows, ticked)
           /\ recons' = Append(recons, Record(a, d, start, start + ChangeOf(a, ticked),
                                              None, ticked, rows))
    /\ UNCHANGED <<accounts, revision, balanceVars, pairVars, today, review, statement,
                   moved, scope>>

(* -- A statement read from a file ----------------------------------------- *)

\* Bound: a statement covers the days of one month.
Covers(d) == {e \in Days : Month(e) = Month(d)}
Near(d) == {e \in Days : \E f \in Covers(d) : e - f \in -Leeway .. Leeway}

Candidates(a, d) == {i \in LiveRows(a) : rows[i].settled = 0 /\ rows[i].day \in Near(d)}

\* What a review relies on: the account's rows, deleted ones too, and its records.
Signature(a) ==
    LET shown(r) == [day |-> r.day, what |-> r.what, amount |-> r.amount, live |-> r.live,
                     cleared |-> r.cleared, settled |-> r.settled]
    IN  <<[i \in RowsOf(a) |-> shown(rows[i])],
          [k \in Records(a) |-> <<recons[k].day, recons[k].end>>]>>

\* A new review ends the one before it.
ReviewStatement(a, d, lines) ==
    /\ Command({"reconcile"})
    /\ a \in accounts
    /\ \A n \in DOMAIN lines : lines[n].day \in Near(d)
    /\ statement' = [account |-> a, day |-> d, lines |-> lines, signature |-> Signature(a),
                     shown |-> [i \in Candidates(a, d) |-> rows[i]]]
    /\ UNCHANGED <<accounts, rows, revision, balanceVars, pairVars, today, recons, review,
                   moved, scope>>

\* One decision for every line: the row it is, that it is added, or skipped.
Add == 0
Skip == -1
Decisions(lines, ids) == [DOMAIN lines -> ids \cup {Add, Skip}]
MatchedBy(decide) == {decide[n] : n \in DOMAIN decide} \ {Add, Skip}
AddedBy(decide) == {n \in DOMAIN decide : decide[n] = Add}

\* No row is two lines, and a line is the row it is matched with.
Agrees(s, decide) ==
    \A n \in DOMAIN decide : decide[n] \notin {Add, Skip} =>
        /\ rows[decide[n]].amount = s.lines[n].amount
        /\ \A m \in DOMAIN decide : decide[m] = decide[n] => m = n

\* A line that is already a row of the account is added only beside its match.
AlreadyHere(s, decide) ==
    \E n \in DOMAIN decide : decide[n] = Add
        /\ \E i \in LiveRows(s.account) \ MatchedBy(decide) :
               Fingerprint(rows[i]) = <<s.account, s.lines[n].day, "entry", s.lines[n].amount>>

\* A balance is reconciled once for a date; share counts can be again.
AlreadyReconciled(s) ==
    /\ Kind[s.account] # "investment"
    /\ \E k \in Records(s.account) : recons[k].day = s.day /\ recons[k].checked = None

\* For a negative check: rows ticked before stay ticked.
UntickedNone(a) == rows

\* The statement decides what is ticked, everywhere in the account.
Unticked(a) == [i \in Ids |-> IF Exists(i) /\ rows[i].account = a /\ rows[i].settled = 0
                              THEN [rows[i] EXCEPT !.cleared = FALSE] ELSE rows[i]]

WithStatement(s, decide) ==
    LET add == AddedBy(decide)
        ticked(r) == [r EXCEPT !.cleared = TRUE]
        old == Unticked(s.account)
        row(n) == LET line == s.lines[Nth(add, n)]
                  IN  NewRow(s.account, line.day, line.amount, "entry", revision + n)
    IN  [i \in Ids |-> IF i \in MatchedBy(decide) THEN ticked(old[i]) ELSE old[i]]
        \o [n \in 1 .. Cardinality(add) |-> ticked(row(n))]

FinishStatement(decide, typed, checked) ==
    /\ statement # None
    /\ Command({"reconcile"})
    /\ LET s == statement
           a == s.account
           table == WithStatement(s, decide)
           ids == Ticked(a, table)
           change == Change(a, SumFunction([i \in ids |-> table[i].amount]))
           start == StartFrom(a, s.day, typed)
           record == IF Kind[a] = "investment"
                     THEN Record(a, s.day, None, 0, checked, ids, table)
                     ELSE Record(a, s.day, start, start + change, None, ids, table)
       IN  /\ a \in accounts /\ Signature(a) = s.signature
           /\ MatchedBy(decide) \subseteq Candidates(a, s.day)
           /\ Agrees(s, decide) /\ ~AlreadyHere(s, decide) /\ ~AlreadyReconciled(s)
           /\ Len(table) <= MaxRows
           /\ rows' = Settle(table, ids)
           /\ recons' = Append(recons, record)
           /\ revision' = revision + Cardinality(AddedBy(decide))
    /\ statement' = None
    /\ UNCHANGED <<accounts, balanceVars, pairVars, today, review, moved, scope>>
=============================================================================
