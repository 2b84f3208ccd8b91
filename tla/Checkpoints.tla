----------------------------- MODULE Checkpoints -----------------------------
(* Saved balances: the monthly roll-forward, balances a person types, and the *)
(* versions that record what each saved balance counted                       *)
(* (store/accounts.rs, store/checkpoints.rs).                                 *)
EXTENDS LedgerState

\* Bound: two days make a month.
Month(d) == d \div 2

Version(c, r, kind, opens, parent, integrity, members) ==
    [reset |-> c, account |-> r.account, kind |-> kind, cutoff |-> r.cutoff,
     effective |-> r.effective, balance |-> r.balance, opens |-> opens,
     parent |-> IF parent = 0 THEN 0 ELSE resets[parent].version,
     parentBalance |-> IF parent = 0 THEN None ELSE resets[parent].balance,
     parentCutoff |-> Since(parent), integrity |-> integrity,
     capture |-> revision, members |-> members]

\* Versions built, directly or not, on a version of checkpoint c.
Descendants(c) ==
    LET built[v \in 0 .. Len(versions)] ==
            /\ v # 0 /\ versions[v] # None /\ versions[v].parent # 0
            /\ \/ versions[versions[v].parent].reset = c
               \/ built[versions[v].parent]
    IN  {v \in DOMAIN versions : built[v]}

\* The versions once those in S can no longer be relied on.
Distrust(S) == [v \in DOMAIN versions |->
                  IF v \in S THEN [versions[v] EXCEPT !.integrity = "untrusted"]
                             ELSE versions[v]]

PeriodRow(a, period) == {c \in Checkpoints(a) : resets[c].period = period}

(* A number a person typed or confirmed: it stands, what it counted is        *)
(* unknown.  The same period replaces the number and distrusts what was built *)
(* on it.                                                                     *)
AnchorRow(a, period, cutoff, effective, balance) ==
    [account |-> a, period |-> period, cutoff |-> cutoff, effective |-> effective,
     balance |-> balance, version |-> Len(versions) + 1]

ReplaceAnchor(c, r, kind) ==
    /\ resets' = [resets EXCEPT ![c] = r]
    /\ versions' = Append(Distrust(Descendants(c) \cup {resets[c].version}),
                          Version(c, r, kind, None, 0, "opaque", <<>>))

AddAnchor(r, kind) ==
    /\ resets' = Append(resets, r)
    /\ versions' = Append(versions,
                          Version(Len(resets) + 1, r, kind, None, 0, "opaque", <<>>))

RecordAnchor(a, period, cutoff, effective, balance, kind) ==
    LET r == AnchorRow(a, period, cutoff, effective, balance)
    IN  \/ PeriodRow(a, period) = {} /\ AddAnchor(r, kind)
        \/ \E c \in PeriodRow(a, period) : ReplaceAnchor(c, r, kind)

(* -- The monthly roll-forward --------------------------------------------- *)

Contribution(a, i) == [rev |-> rows[i].rev, day |-> rows[i].day,
                       quantity |-> Dir(a) * rows[i].amount]
Members(a, ids) == [i \in ids |-> Contribution(a, i)]

\* For a negative check: today's rows are counted although the day is not over.
MonthlyRowWithToday(a, n) ==
    [account |-> a, period |-> <<"month", Month(today)>>, cutoff |-> today - 1,
     effective |-> today - 1, balance |-> BalanceAsOf(a, today),
     version |-> Len(versions) + n]

MonthlyRow(a, n) ==
    [account |-> a, period |-> <<"month", Month(today)>>, cutoff |-> today - 1,
     effective |-> today - 1, balance |-> BalanceAsOf(a, today - 1),
     version |-> Len(versions) + n]

MonthlyVersion(a, c, n) ==
    LET parent == LatestCheckpoint(a, today - 1)
        opens == IF parent = 0 THEN opening[a] ELSE None
    IN  Version(c, MonthlyRow(a, n), "automatic", opens, parent, "trusted",
                Members(a, IntervalRows(a, Since(parent), today - 1)))

Unrolled == {a \in accounts : PeriodRow(a, <<"month", Month(today)>>) = {}}
RollOrder == SetToSeq(Unrolled)

\* Every account without a saved balance of this month gets one through yesterday.
RollForward ==
    /\ Within({"balances"})
    /\ Unrolled # {}
    /\ resets' = resets \o [n \in DOMAIN RollOrder |-> MonthlyRow(RollOrder[n], n)]
    /\ versions' = versions \o
         [n \in DOMAIN RollOrder |-> MonthlyVersion(RollOrder[n], Len(resets) + n, n)]
    /\ UNCHANGED <<accounts, rows, revision, opening, pairVars, otherVars, work>>

(* -- Balances a person types ---------------------------------------------- *)

SetStartingBalance(a, balance) ==
    /\ Command({"balances"})
    /\ a \in accounts
    /\ opening' = [opening EXCEPT ![a] = balance]
    /\ UNCHANGED <<accounts, rows, revision, resets, versions, pairVars, otherVars>>

\* A correction for the same day replaces the earlier one, unless a newer saved
\* balance has superseded it: then it is a row of its own.
OverridePeriod(a) ==
    LET same == PeriodRow(a, <<"manual", today, 0>>)
    IN  IF same # {} /\ LatestCheckpoint(a, today) \notin same \cup {0}
        THEN <<"manual", today, Len(resets) + 1>> ELSE <<"manual", today, 0>>

\* For a negative check: a newer saved balance keeps its place.
OverrideEffectiveYesterday(a, period) == today - 1

\* The typed number outranks every other saved balance already in place.
OverrideEffective(a, period) ==
    LET others == {resets[c].effective : c \in {e \in Checkpoints(a) :
                      resets[e].period # period /\ resets[e].cutoff <= today - 1}}
    IN  Max({today - 1} \cup others)

\* The number typed, less what is already posted today.
OverrideBaseline(a, balance) ==
    balance - Dir(a) * Total(IntervalRows(a, today - 1, today))

Override(a, balance) ==
    /\ Command({"balances"})
    /\ a \in accounts
    /\ RecordAnchor(a, OverridePeriod(a), today - 1,
                    OverrideEffective(a, OverridePeriod(a)),
                    OverrideBaseline(a, balance), "manual")
    /\ UNCHANGED <<accounts, rows, revision, opening, pairVars, otherVars>>

(* -- Flipped signs -------------------------------------------------------- *)

\* How much flipping `ids` changes the sum of what checkpoint c's interval
\* (after, through] holds, as the date alone tells.
FlippedBetween(a, ids, after, through) ==
    -2 * Dir(a) * Total({i \in ids : rows[i].account = a /\ rows[i].day <= through
                                     /\ rows[i].day > after})

\* A checkpoint's correction: its anchor's plus that of its own interval; none
\* for a number a person entered.
FlipCorrection(a, ids) ==
    LET mine(c) == {e \in Checkpoints(a) : e < c /\ resets[e].cutoff <= resets[c].cutoff}
        anchor(c) == IF mine(c) = {} THEN 0
                     ELSE CHOOSE e \in mine(c) : \A f \in mine(c) :
                            resets[e].cutoff > resets[f].cutoff
                            \/ (resets[e].cutoff = resets[f].cutoff /\ e >= f)
        fix[c \in 0 .. Len(resets)] ==
            IF c \notin Checkpoints(a) \/ resets[c].period[1] = "manual" THEN 0
            ELSE fix[anchor(c)]
                 + FlippedBetween(a, ids, Since(anchor(c)), resets[c].cutoff)
    IN  fix

Correction(ids) == [c \in DOMAIN resets |->
                      IF resets[c] = None THEN 0
                      ELSE FlipCorrection(resets[c].account, ids)[c]]

\* The corrections are written outside the guard: the update trigger distrusts
\* what was built on the old number and records a version of unknown content.
CorrectCheckpoints(ids) ==
    LET fix == Correction(ids)
        hit == {c \in DOMAIN resets : fix[c] # 0}
        new(c) == [resets[c] EXCEPT !.balance = @ + fix[c],
                                    !.version = Len(versions) + Rank(hit, c)]
        typed(c) == [Version(c, new(c), "legacy", None, 0, "opaque", <<>>)
                     EXCEPT !.capture = revision']
    IN  /\ resets' = [c \in DOMAIN resets |-> IF c \in hit THEN new(c) ELSE resets[c]]
        /\ versions' = Distrust({resets[c].version : c \in hit}
                                 \cup UNION {Descendants(c) : c \in hit})
                       \o [n \in 1 .. Cardinality(hit) |-> typed(Nth(hit, n))]
=============================================================================
