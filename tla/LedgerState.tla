----------------------------- MODULE LedgerState -----------------------------
(* The tables of one open database that the ledger operations share: the      *)
(* transactions, the balance checkpoints with the versions recording what      *)
(* each of them counted, transfer links, applied debt payments and finished    *)
(* reconciliations.  The lock on the state is held for a whole operation, so   *)
(* an operation is one step.                                                   *)
EXTENDS Integers, Sequences, FiniteSets, FiniteSetsExt, SequencesExt

CONSTANTS
    Accounts,      \* the accounts the database starts with
    Kind,          \* the account type of each
    Amounts,       \* amounts a person or a file can bring
    Typed,         \* balances a person can type
    LastDay,       \* bound: days are 0..LastDay
    MaxRows,       \* bound: transactions ever created
    MaxWork,       \* bound: commands in a history, for each group
    Scopes,        \* the groups of operations the histories of a run use
    None

Kinds == {"cash", "credit", "loan", "investment"}
\* What a history is made of: one group of commands, or all of them.
Groups == {"balances", "pairs", "reconcile", "all"}

\* A transaction: the columns the ledger operations read.
Transactions == [account : Accounts, day : Int, amount : Int, what : {"entry", "payment"},
        live : BOOLEAN, rev : Int, cleared : BOOLEAN, settled : Int]

\* A balance checkpoint, and a version of one: what it was built on and what it counted.
SavedBalances == [account : Accounts, period : Seq(Int \cup {"month", "manual", "move"}),
        cutoff : Int, effective : Int, balance : Int, version : Nat]
Counted == [rev : Int, day : Int, quantity : Int]
SavedVersions == [reset : Nat, account : Accounts, cutoff : Int, effective : Int, balance : Int,
        kind : {"automatic", "manual", "confirmation", "legacy"}, opens : Int \cup {None},
        parent : Nat, parentBalance : Int \cup {None}, parentCutoff : Int,
        integrity : {"trusted", "untrusted", "opaque"}, capture : Int,
        members : UNION {[ids -> Counted] : ids \in SUBSET (1 .. MaxRows)}]

ASSUME LedgerAssumption ==
    /\ Kind \in [Accounts -> Kinds]
    /\ Amounts \subseteq Int \ {0}
    /\ Typed \subseteq Int
    /\ LastDay \in Nat /\ MaxRows \in Nat /\ MaxWork \in [Groups -> Nat]
    /\ Scopes \subseteq Groups
    /\ None \notin Accounts \cup Transactions \cup SavedBalances \cup SavedVersions
    /\ None \notin Int \cup BOOLEAN

VARIABLES
    accounts,    \* accounts that exist
    rows,        \* transactions by id; None once the row is really deleted
    revision,    \* the financial revision counter
    opening,     \* starting balance (credit: the limit) of each account
    resets,      \* balance checkpoints by id; None once deleted
    versions,    \* every version ever recorded of a checkpoint
    today,
    links,       \* transfer links
    rejected,    \* pairs a person unlinked
    dismissed,   \* pairs a person no longer wants suggested
    payments,    \* applied debt payments
    recons,      \* finished reconciliations by id; nobody's once deleted
    review,      \* the move a person is reviewing
    statement,   \* the statement a person is reviewing
    moved,       \* how many moves were recorded
    scope,       \* the operations this history is about
    work         \* commands used so far (see MaxWork)

vars == <<accounts, rows, revision, opening, resets, versions, today, links, rejected,
          dismissed, payments, recons, review, statement, moved, scope, work>>

pairVars   == <<links, rejected, dismissed, payments>>
balanceVars == <<opening, resets, versions>>
otherVars  == <<today, recons, review, statement, moved, scope>>

Days == 0 .. LastDay
Ids == DOMAIN rows
\* The place of m among the numbers in S, and the number at a place.
Rank(S, m) == Cardinality({k \in S : k <= m})
Nth(S, n) == CHOOSE m \in S : Rank(S, m) = n

\* What the rows amount to together.
Total(ids) == SumFunction([i \in ids |-> rows[i].amount])

\* One more command of the groups g.
Within(g) == scope \in g \cup {"all"}
Command(g) == /\ Within(g)
              /\ work < MaxWork[scope]
              /\ work' = work + 1

Exists(i) == i \in Ids /\ rows[i] # None
Live(i) == Exists(i) /\ rows[i].live
LiveRows(a) == {i \in Ids : Live(i) /\ rows[i].account = a}

\* The duplicate key: account, date, description and amount.  Rows a person or a
\* file brings share one description; a generated payment has its own.
Fingerprint(r) == <<r.account, r.day, r.what, r.amount>>

\* A row as the insert trigger leaves it.
NewRow(a, d, amount, what, rev) ==
    [account |-> a, day |-> d, amount |-> amount, what |-> what, live |-> TRUE,
     rev |-> rev, cleared |-> FALSE, settled |-> 0]

\* The update trigger: a change of account, date, amount or deletion gives the
\* row the next revision.  `new` maps the ids of changed rows to their new
\* values; ids are stamped in ascending order.
Financial(r) == <<r.account, r.day, r.amount, r.live>>
Changed(new) == {i \in DOMAIN new : Financial(new[i]) # Financial(rows[i])}
Stamp(new, i) == revision + Rank(Changed(new), i)
Updated(new) ==
    [i \in Ids |-> IF i \notin DOMAIN new THEN rows[i]
                   ELSE IF i \in Changed(new) THEN [new[i] EXCEPT !.rev = Stamp(new, i)]
                   ELSE new[i]]

UpdateRows(new) ==
    /\ rows' = Updated(new)
    /\ revision' = revision + Cardinality(Changed(new))

\* Inserts a row; the counter gives it the next revision.
InsertRow(a, d, amount, what) ==
    /\ Len(rows) < MaxRows
    /\ rows' = Append(rows, NewRow(a, d, amount, what, revision + 1))
    /\ revision' = revision + 1

(* -- Balances ------------------------------------------------------------- *)

\* A loan's balance is what is owed, so its transactions count the other way.
Dir(a) == IF Kind[a] = "loan" THEN -1 ELSE 1
Checkpoints(a) == {c \in DOMAIN resets : resets[c] # None /\ resets[c].account = a}

\* Order in which checkpoints supersede each other.
Supersedes(c, d) ==
    \/ resets[c].effective > resets[d].effective
    \/ /\ resets[c].effective = resets[d].effective
       /\ \/ resets[c].cutoff > resets[d].cutoff
          \/ resets[c].cutoff = resets[d].cutoff /\ c >= d

Eligible(a, d) == {c \in Checkpoints(a) : resets[c].cutoff <= d /\ resets[c].effective <= d}

\* The checkpoint a balance as of d starts from (0: the opening balance).
LatestCheckpoint(a, d) ==
    IF Eligible(a, d) = {} THEN 0
    ELSE CHOOSE c \in Eligible(a, d) : \A e \in Eligible(a, d) : Supersedes(c, e)

Since(c) == IF c = 0 THEN -1 ELSE resets[c].cutoff
Base(a, c) == IF c = 0 THEN opening[a] ELSE resets[c].balance

\* Live rows of an account dated in (after, through].
IntervalRows(a, after, through) ==
    {i \in LiveRows(a) : rows[i].day > after /\ rows[i].day <= through}

BalanceAsOf(a, d) ==
    LET c == LatestCheckpoint(a, d)
    IN  Base(a, c) + Dir(a) * Total(IntervalRows(a, Since(c), d))

LinkedRows == UNION {{l.out, l.in} : l \in links}
PaymentRows == UNION {{p.source, p.generated} : p \in payments}
=============================================================================
