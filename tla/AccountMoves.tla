----------------------------- MODULE AccountMoves -----------------------------
(* Moving transactions to another account: what a move would do to the saved  *)
(* balances, the review of it, and the commit of what was reviewed            *)
(* (store/historical_move.rs, store/transaction_account_move.rs).             *)
EXTENDS Transfers

V(c) == versions[resets[c].version]
Recorded(c) == V(c).kind = "automatic" /\ V(c).integrity = "trusted"

(* -- Is a saved balance what its record says? ----------------------------- *)

\* The version describes another checkpoint, or other dates.
Mislabelled(a) ==
    \E c \in Checkpoints(a) :
        \/ V(c) = None
        \/ V(c).reset # c \/ V(c).account # a
        \/ V(c).cutoff # resets[c].cutoff \/ V(c).effective # resets[c].effective

\* A version some version is built on is missing or is another account's.
BrokenChain(a, v) ==
    LET broken[w \in 0 .. Len(versions)] ==
            w # 0 /\ (versions[w] = None \/ versions[w].account # a
                      \/ broken[versions[w].parent])
    IN  broken[v]

ParentMoved(c) ==
    /\ V(c).parent # 0
    /\ LET p == versions[V(c).parent].reset
       IN  \/ resets[p] = None
           \/ resets[p].version # V(c).parent
           \/ resets[p].cutoff # V(c).parentCutoff
           \/ resets[p].balance # V(c).parentBalance

MembersDisagree(a, c) ==
    LET m == V(c).members
        quantity == [i \in DOMAIN m |-> m[i].quantity]
        base == IF V(c).parent = 0 THEN V(c).opens ELSE V(c).parentBalance
    IN  \/ \E i \in DOMAIN m : m[i].day > V(c).cutoff \/ m[i].day <= V(c).parentCutoff
        \/ base + SumFunction(quantity) # resets[c].balance

Damaged(a, c) ==
    \/ V(c).balance # resets[c].balance
    \/ BrokenChain(a, V(c).parent)
    \/ Recorded(c) /\ (ParentMoved(c) \/ MembersDisagree(a, c))

\* Only a checkpoint that recorded what it counted, for this account as it is,
\* can be corrected from its record.
Uncertain(a, c) ==
    \/ ~Recorded(c)
    \/ V(c).parent = 0 /\ V(c).opens # opening[a]

(* -- What a move does to one account's saved balances --------------------- *)

Affected(a, ids) == {c \in Checkpoints(a) : \E i \in ids : resets[c].cutoff >= rows[i].day}
Inside(c, ids) == {i \in ids : rows[i].day <= V(c).cutoff /\ rows[i].day > V(c).parentCutoff}
Counts(c, i) == i \in DOMAIN V(c).members

\* The record contradicts the rows: not something a confirmation could cover.
Contradicted(a, ids, incoming) ==
    \E c \in Affected(a, ids) : \E i \in Inside(c, ids) :
        IF incoming THEN Counts(c, i)
        ELSE ~Counts(c, i) /\ rows[i].rev <= V(c).capture

\* A counted row was edited since: what the balance holds of it is not recorded.
EditedSince(a, ids) ==
    \E c \in Affected(a, ids) : \E i \in Inside(c, ids) :
        Counts(c, i) /\ V(c).members[i].rev # rows[i].rev

Verdict(a, ids, incoming) ==
    LET S == Affected(a, ids)
    IN  IF Mislabelled(a) \/ \E c \in S : Damaged(a, c) THEN "integrity"
        ELSE IF \E c \in S : Uncertain(a, c) THEN "confirm"
        ELSE IF Contradicted(a, ids, incoming) THEN "integrity"
        ELSE IF ~incoming /\ EditedSince(a, ids) THEN "confirm"
        ELSE "automatic"

Gone(c, ids) == {i \in Inside(c, ids) : Counts(c, i)}
ParentReset(c) == IF V(c).parent = 0 THEN 0 ELSE versions[V(c).parent].reset

\* What a saved balance gains from the rows that arrive in its own interval, or loses
\* with the rows it counted.
OwnDelta(c, a, ids, incoming) ==
    IF incoming THEN Dir(a) * Total(Inside(c, ids))
    ELSE -SumFunction([i \in Gone(c, ids) |-> V(c).members[i].quantity])

\* For a negative check: balances built on a corrected one keep their number.
DeltasAlone(a, ids, incoming) ==
    [c \in 0 .. Len(resets) |->
        IF c \notin Affected(a, ids) THEN 0 ELSE OwnDelta(c, a, ids, incoming)]

\* How much each saved balance changes: its own interval's rows, and whatever
\* the balance it was built on changes by.
Deltas(a, ids, incoming) ==
    LET delta[c \in 0 .. Len(resets)] ==
            IF c \notin Affected(a, ids) THEN 0
            ELSE delta[ParentReset(c)] + OwnDelta(c, a, ids, incoming)
    IN  delta

\* The saved balances that get a new version; those built on them follow.
Corrected(a, ids, incoming) ==
    LET touched(c) == IF incoming THEN Inside(c, ids) # {} ELSE Gone(c, ids) # {}
        hit[c \in 0 .. Len(resets)] ==
            /\ c \in Affected(a, ids)
            /\ \/ touched(c)
               \/ Deltas(a, ids, incoming)[c] # 0
               \/ hit[ParentReset(c)]
    IN  {c \in Affected(a, ids) : hit[c]}

(* -- The plan ------------------------------------------------------------- *)

Effective(ids, to) == {i \in ids : rows[i].account # to}
Leaving(ids, a) == {i \in ids : rows[i].account = a}
Touched(ids, to) == IF Effective(ids, to) = {} THEN {}
                    ELSE {to} \cup {rows[i].account : i \in Effective(ids, to)}
Moving(a, ids, to) == IF a = to THEN Effective(ids, to) ELSE Leaving(ids, a)
VerdictFor(a, ids, to) == Verdict(a, Moving(a, ids, to), a = to)

NeedsBalances(ids, to) == \E a \in Touched(ids, to) : VerdictFor(a, ids, to) = "confirm"
LooksDamaged(ids, to) == \E a \in Touched(ids, to) : VerdictFor(a, ids, to) = "integrity"

FutureCheckpoint(a) ==
    \E c \in Checkpoints(a) : resets[c].cutoff > today \/ resets[c].effective > today

Arriving(i, to) == Fingerprint([rows[i] EXCEPT !.account = to])

\* For a negative check: settled rows move too.
BlockersNotSettled(ids, to) ==
    IF LooksDamaged(ids, to) THEN {"checkpoint_integrity"} ELSE {}

Blockers(ids, to) ==
    LET E == Effective(ids, to)
        code(name, on) == IF on THEN {name} ELSE {}
    IN  code("settled", \E i \in E : rows[i].settled # 0)
        \cup code("linked_transfer", E \cap LinkedRows # {})
        \cup code("applied_debt_payment", E \cap PaymentRows # {})
        \cup code("checkpoint_integrity", LooksDamaged(ids, to))
        \cup code("future_checkpoint",
                  /\ NeedsBalances(ids, to) /\ ~LooksDamaged(ids, to)
                  /\ \E a \in Touched(ids, to) : FutureCheckpoint(a))
        \cup code("duplicate_in_destination",
                  \E i \in E, j \in LiveRows(to) : Fingerprint(rows[j]) = Arriving(i, to))
        \cup code("duplicate_across_accounts",
                  \E i, j \in E : /\ rows[i].account # rows[j].account
                                  /\ Arriving(i, to) = Arriving(j, to))

\* Balances are shown, and typed, in the account's own terms.
Shown(a, raw) == IF Kind[a] = "credit" THEN opening[a] - raw ELSE raw

\* inputs: what the person says of every balance to confirm: nothing yet, the
\* one shown, or a number typed.
Confirmed(a, inputs) ==
    IF inputs[1] = "keep" THEN BalanceAsOf(a, today) ELSE Shown(a, inputs[2])

\* For a negative check: today's rows are those there before the move.
ActivityTodayBefore(a, ids, to) == Total(IntervalRows(a, today - 1, today))

ActivityToday(a, ids, to) ==
    LET now == Total(IntervalRows(a, today - 1, today))
        moves == Total({i \in Moving(a, Effective(ids, to), to) : rows[i].day = today})
    IN  IF a = to THEN now + moves ELSE now - moves

Baseline(a, ids, to, inputs) ==
    Confirmed(a, inputs) - Dir(a) * ActivityToday(a, ids, to)

\* The balance of a today if the saved balances are corrected from their record.
AutomaticProjection(a, ids, to) ==
    LET used == LatestCheckpoint(a, today)
        E == Effective(ids, to)
        after == {i \in Moving(a, E, to) : rows[i].day <= today /\ rows[i].day > Since(used)}
        fix == IF used = 0 THEN 0 ELSE Deltas(a, Moving(a, E, to), a = to)[used]
    IN  BalanceAsOf(a, today) + fix
        + Dir(a) * (IF a = to THEN 1 ELSE -1) * Total(after)

Projected(ids, to, inputs) ==
    [a \in Touched(ids, to) |->
        IF ~NeedsBalances(ids, to) THEN AutomaticProjection(a, ids, to)
        ELSE IF inputs[1] = "none" THEN BalanceAsOf(a, today)
        ELSE Confirmed(a, inputs)]

CanCommit(ids, to, inputs) ==
    /\ Effective(ids, to) # {}
    /\ Blockers(ids, to) = {}
    /\ NeedsBalances(ids, to) => inputs[1] # "none"

\* Everything shown, the moved rows as they are and the saved balances of the
\* accounts involved: what the review's token stands for.
Token(ids, to, inputs) ==
    [day |-> today, blockers |-> Blockers(ids, to),
     confirm |-> NeedsBalances(ids, to), projected |-> Projected(ids, to, inputs),
     moving |-> [i \in Effective(ids, to) |-> rows[i]],
     opening |-> [a \in Touched(ids, to) |-> opening[a]],
     saved |-> [a \in Touched(ids, to) |-> [c \in Checkpoints(a) |-> resets[c]]]]

(* -- The commit ----------------------------------------------------------- *)

MovedRow(i, to) == [rows[i] EXCEPT !.account = to, !.cleared = FALSE]

\* For a negative check: a corrected balance still names the old version below it.
CorrectedVersionOldParent(c, a, ids, to, at) ==
    LET mine == Moving(a, ids, to)
        old == V(c)
        came == IF a = to THEN Inside(c, mine) ELSE {}
        left == IF a = to THEN {} ELSE Gone(c, mine)
    IN  [old EXCEPT
           !.balance = resets[c].balance + Deltas(a, mine, a = to)[c],
           !.members = [i \in (DOMAIN old.members \cup came) \ left |->
               IF i \in came
               THEN [rev |-> rows'[i].rev, day |-> rows[i].day,
                     quantity |-> Dir(a) * rows[i].amount]
               ELSE old.members[i]]]

\* The corrected version of c: what it counted, less what left, plus what came.
CorrectedVersion(c, a, ids, to, at) ==
    LET mine == Moving(a, ids, to)
        old == V(c)
        came == IF a = to THEN Inside(c, mine) ELSE {}
        left == IF a = to THEN {} ELSE Gone(c, mine)
        p == ParentReset(c)
        follows == p # 0 /\ p \in Corrected(a, mine, a = to)
        delta == Deltas(a, mine, a = to)
    IN  [old EXCEPT
           !.balance = resets[c].balance + delta[c],
           !.parent = IF follows THEN at[p] ELSE @,
           !.parentBalance = IF follows THEN resets[p].balance + delta[p] ELSE @,
           !.members = [i \in (DOMAIN old.members \cup came) \ left |->
               IF i \in came
               THEN [rev |-> rows'[i].rev, day |-> rows[i].day,
                     quantity |-> Dir(a) * rows[i].amount]
               ELSE old.members[i]]]

CorrectSavedBalances(ids, to) ==
    LET mine(a) == Corrected(a, Moving(a, ids, to), a = to)
        hit == UNION {mine(a) : a \in Touched(ids, to)}
        at == [c \in hit |-> Len(versions) + Rank(hit, c)]
        new(c) == CorrectedVersion(c, resets[c].account, ids, to, at)
    IN  /\ resets' = [c \in DOMAIN resets |->
                        IF c \in hit
                        THEN [resets[c] EXCEPT !.balance = new(c).balance, !.version = at[c]]
                        ELSE resets[c]]
        /\ versions' = versions \o [n \in 1 .. Cardinality(hit) |-> new(Nth(hit, n))]

\* A balance confirmed for every account of the move, through yesterday.
ConfirmBalances(ids, to, inputs) ==
    LET order == SetToSeq(Touched(ids, to))
        row(n) == [AnchorRow(order[n], <<"move", moved + 1>>, today - 1, today,
                             Baseline(order[n], ids, to, inputs))
                   EXCEPT !.version = Len(versions) + n]
    IN  /\ resets' = resets \o [n \in DOMAIN order |-> row(n)]
        /\ versions' = versions \o
             [n \in DOMAIN order |-> [Version(Len(resets) + n, row(n), "confirmation",
                                              None, 0, "opaque", <<>>)
                                      EXCEPT !.capture = revision']]

\* Decisions made about the moved rows in their old account are forgotten.
ForgetPairs(ids) ==
    LET about(p) == p.out \in ids \/ p.in \in ids
    IN  /\ rejected' = {p \in rejected : ~about(p)}
        /\ dismissed' = {p \in dismissed : ~about(p)}

ApplyMove(ids, to, inputs) ==
    LET E == Effective(ids, to)
    IN  /\ UpdateRows([i \in E |-> MovedRow(i, to)])
        /\ IF NeedsBalances(ids, to) THEN ConfirmBalances(E, to, inputs)
           ELSE CorrectSavedBalances(E, to)
        /\ ForgetPairs(E)
        /\ moved' = moved + 1

ReviewMove(ids, to, inputs) ==
    /\ Within({"balances"}) /\ work < MaxWork[scope]
    /\ ids # {} /\ to \in accounts
    /\ \A i \in ids : Live(i)
    /\ ~NeedsBalances(ids, to) => inputs = <<"none">>
    /\ CanCommit(ids, to, inputs)
    /\ review' = [ids |-> ids, to |-> to, inputs |-> inputs,
                  token |-> Token(ids, to, inputs)]
    /\ UNCHANGED <<accounts, rows, revision, balanceVars, pairVars, today, recons,
                   statement, moved, scope, work>>

\* Only what was reviewed is written: anything else asks for a new review.
CommitMove ==
    /\ review # None
    /\ Command({"balances"})
    /\ review' = None
    /\ IF /\ review.to \in accounts /\ \A i \in review.ids : Live(i)
          /\ Token(review.ids, review.to, review.inputs) = review.token
       THEN ApplyMove(review.ids, review.to, review.inputs)
       ELSE UNCHANGED <<rows, revision, resets, versions, rejected, dismissed, moved>>
    /\ UNCHANGED <<accounts, opening, links, payments, today, recons, statement, scope>>

\* The one-row command: only when no saved balance is involved.
MoveOne(i, to) ==
    /\ Command(Scopes)
    /\ Live(i) /\ to \in accounts
    /\ CanCommit({i}, to, <<"none">>)
    /\ \A a \in Touched({i}, to) : Corrected(a, {i}, a = to) = {}
    /\ ApplyMove({i}, to, <<"none">>)
    /\ UNCHANGED <<accounts, opening, links, payments, today, recons, review, statement, scope>>
=============================================================================
