-------------------------------- MODULE Ledger --------------------------------
(* One profile's ledger: every command on transactions, saved balances, linked *)
(* pairs, moves and reconciliations, in any order a person can give them.      *)
EXTENDS Reconciling

CONSTANTS
    Tables,        \* the rows a history may start with, as already imported
    Lines,         \* what a statement may list
    Ends           \* the days statements end on

\* One balance an account is typed a day at most: the table's key.
ASSUME TablesAssumption ==
    /\ \A table \in Tables :
           /\ table.accounts \subseteq Accounts /\ IsFiniteSet(table.accounts)
           /\ table.rows \in Seq([account : Accounts, day : Days, amount : Int])
           /\ Len(table.rows) <= MaxRows
           /\ table.typed \in Seq([account : table.accounts, balance : Int])
           /\ \A c, d \in DOMAIN table.typed :
                  table.typed[c].account = table.typed[d].account => c = d
    /\ Lines \subseteq Seq([day : Int, amount : Int])
    /\ Ends \subseteq Int

Imported(table) == [i \in DOMAIN table |->
                      NewRow(table[i].account, table[i].day, table[i].amount, "entry", i)]

\* Balances typed today before the history begins.
TypedBefore(typed) ==
    [c \in DOMAIN typed |->
        [account |-> typed[c].account, period |-> <<"manual", 1, 0>>, cutoff |-> 0,
         effective |-> 0, balance |-> typed[c].balance, version |-> c]]

Init ==
    /\ scope \in Scopes
    /\ \E table \in Tables :
           /\ table.scope = scope
           /\ rows = Imported(table.rows)
           /\ revision = Len(table.rows)
           /\ accounts = table.accounts
           /\ resets = TypedBefore(table.typed)
    /\ opening = [a \in Accounts |-> 0]
    /\ versions = [c \in DOMAIN resets |->
                     Version(c, resets[c], "manual", None, 0, "opaque", <<>>)]
    /\ today = 1
    /\ links = {} /\ rejected = {} /\ dismissed = {} /\ payments = {}
    /\ recons = <<>>
    /\ review = None /\ statement = None
    /\ moved = 0 /\ work = 0

NextDay ==
    /\ Within({"balances"}) /\ today < LastDay
    /\ today' = today + 1
    /\ UNCHANGED <<accounts, rows, revision, balanceVars, pairVars, recons, review, statement,
                   moved, scope, work>>

Confirmations == {<<"none">>, <<"keep">>} \cup {<<"set", b>> : b \in Typed}

BalanceStep ==
    \/ RollForward
    \/ NextDay
    \/ \E a \in accounts, b \in Typed : SetStartingBalance(a, b) \/ Override(a, b)
    \/ \E ids \in SUBSET Ids, to \in accounts, inputs \in Confirmations :
           ReviewMove(ids, to, inputs)
    \/ CommitMove

RowStep ==
    \/ \E a \in accounts, d \in {0, today}, x \in Amounts : CreateTransaction(a, d, x)
    \/ \E i \in Ids, x \in Amounts : UpdateAmount(i, x)
    \/ \E i \in Ids, d \in Days : UpdateDate(i, d)
    \/ \E i \in Ids : DeleteTransaction(i) \/ RestoreTransaction(i)
    \/ \E ids \in SUBSET Ids : FlipSigns(ids)
    \/ \E i \in Ids, to \in accounts : MoveOne(i, to)

PairStep ==
    \/ \E o, n \in Ids : LinkTransfer(o, n)
    \/ \E i \in Ids : UnlinkTransfer(i)
    \/ DismissCandidates(Suggested)
    \/ \E p \in Suggested : DismissCandidates({p})
    \/ \E p \in dismissed : RestoreCandidates({p})
    \/ AutoLink
    \/ \E l \in links : MarkReviewed(l)
    \/ \E i \in Ids, debt \in accounts, x \in Amounts : x > 0 /\ ApplyDebtPayment(i, debt, x)
    \/ \E p \in payments : UnapplyDebtPayment(p)
    \/ \E a \in accounts : DeleteAccount(a)

ReconcileStep ==
    \/ \E i \in Ids, b \in BOOLEAN : Tick(i, b)
    \/ \E a \in accounts, d \in Ends, b \in Typed : FinishManual(a, d, b)
    \/ \E a \in accounts, d \in Ends, lines \in Lines : ReviewStatement(a, d, lines)
    \/ /\ statement # None
       /\ \E decide \in Decisions(statement.lines, Ids), b \in Typed, checked \in BOOLEAN :
              FinishStatement(decide, b, checked)

Next == BalanceStep \/ RowStep \/ PairStep \/ ReconcileStep

Spec == Init /\ [][Next]_vars

-------------------------------------------------------------------------------
\* Types, and every reference leads to something that was recorded.
RowOK(r) == /\ r.account \in Accounts /\ r.day \in Days /\ r.amount \in Int
            /\ r.rev \in 1 .. revision /\ r.settled \in 0 .. Len(recons)
TypeOK ==
    /\ accounts \subseteq Accounts
    /\ \A i \in Ids : rows[i] = None \/ RowOK(rows[i])
    /\ \A c \in DOMAIN resets :
           resets[c] # None => resets[c].account \in accounts
                               /\ resets[c].version \in DOMAIN versions
    /\ today \in Days /\ work \in 0 .. MaxWork[scope]

\* After any history of edits, moves, typed balances and roll-forwards a saved balance
\* still is what its record says it counted, built on what it says it was built on: a
\* record that no longer is has been distrusted (historical_move.rs).
SavedBalancesHold ==
    \A a \in accounts : ~Mislabelled(a) /\ \A c \in Checkpoints(a) : ~Damaged(a, c)

\* A balance a person typed is the balance shown at once, whatever was saved before
\* (accounts.rs, override_account_balance).
TypedBalanceShown ==
    [][\A a \in Accounts, b \in Typed : Override(a, b) => BalanceAsOf(a, today)' = b]_vars

\* The roll-forward moves the starting point of every balance and changes none
\* (accounts.rs, roll_forward_balances).
RolloverKeepsBalances ==
    [][resets' # resets /\ UNCHANGED <<rows, work>> =>
           \A a \in accounts, d \in Days : BalanceAsOf(a, d)' = BalanceAsOf(a, d)]_vars

\* What was reviewed is what the move leaves: today's balance of every account involved
\* is the one the review showed (transaction_account_move.rs; the read-back that makes
\* a difference fail the whole move is left out of the model).
MoveShowsItsResult ==
    [][moved' > moved /\ review # None /\ review' = None =>
           \A a \in DOMAIN review.token.projected :
               BalanceAsOf(a, today)' = review.token.projected[a]]_vars

\* A corrected move leaves the destination, on every day, as if the rows had always been
\* there (historical_move.rs).
Arrived(d) == {i \in DOMAIN review.token.moving : rows[i].day <= d}
HistoryFollowsMove ==
    [][moved' > moved /\ review # None /\ review' = None
       /\ ~review.token.confirm =>
           \A a \in {review.to}, d \in Days :
               BalanceAsOf(a, d)' = BalanceAsOf(a, d) + Dir(a) * Total(Arrived(d))]_vars
-------------------------------------------------------------------------------
\* A row is in one transfer at most, a transfer joins two accounts' rows, and both sides
\* of an applied payment are there (transfers.rs, transactions.rs).
PairsIntact ==
    /\ \A l \in links : /\ Exists(l.out) /\ Exists(l.in)
                        /\ rows[l.out].account # rows[l.in].account
    /\ \A k, l \in links : {k.out, k.in} \cap {l.out, l.in} # {} => k = l
    /\ \A p \in payments : Exists(p.source) /\ Exists(p.generated)

\* Both sides of an applied payment leave and come back together (delete_transaction),
\* unless only one of them was there, or one is a side of another payment too: of two
\* partners only one follows.
OnlyPayment(p) == \A q \in payments : {q.source, q.generated} \cap {p.source, p.generated} # {}
                                        => q = p
TwinsFollow ==
    [][\A p \in payments \cap payments' :
           OnlyPayment(p) /\ rows[p.source].live = rows[p.generated].live
           => (rows'[p.source].live # rows[p.source].live
                 <=> rows'[p.generated].live # rows[p.generated].live)]_vars

\* A generated row that is shown belongs to the one payment it was made for.
\* transactions.rs:930-932: "One source transaction can be applied to one debt account
\* at a time"; the second of two presses is refused only after its row is written.
EveryPaymentRecorded ==
    \A i \in Ids : Live(i) /\ rows[i].what = "payment" =>
        \E p \in payments : p.generated = i
-------------------------------------------------------------------------------
\* A settled row stays with the account whose statement settled it, and is settled once
\* (transaction_account_move.rs, reconcile.rs).
SettledOnce ==
    /\ \A i \in Ids : Exists(i) /\ rows[i].settled # 0 =>
           /\ rows[i].settled \in Records(rows[i].account)
           /\ i \in DOMAIN recons[rows[i].settled].settles
    /\ \A j, k \in DOMAIN recons :
           j # k => DOMAIN recons[j].settles \cap DOMAIN recons[k].settles = {}

\* Statements finished in the order of their dates add up: a balance leads to a later one
\* by what was settled in between, each row once.  What investment statements settled is
\* read from the rows as they are, so it holds as long as nobody edited such a row before
\* the next statement was finished (change_settled_since).
InOrder(a) == \A j, k \in Records(a) : j < k => recons[j].day <= recons[k].day
SettledBy(k) == SumFunction(recons[k].settles)
EndingBalancesAddUp ==
    \A a \in Accounts : \A j, k \in Records(a) :
        /\ j <= k /\ recons[j].checked = None /\ recons[k].checked = None
        /\ InOrder(a) /\ \A n \in Records(a) : recons[n].asSettled
        => LET between == Records(a) \cap j .. k
           IN  recons[k].end = recons[j].start
                               + Change(a, SumFunction([n \in between |-> SettledBy(n)]))

\* A statement settles the rows its review showed, as it showed them, and those it added
\* (finish_statement_reconciliation).
SettlesWhatItShowed ==
    [][statement # None /\ recons' # recons /\ statement' = None =>
           \A i \in DOMAIN recons'[Len(recons')].settles :
               \/ i > Len(rows)
               \/ i \in DOMAIN statement.shown
                  /\ Fingerprint(rows[i]) = Fingerprint(statement.shown[i])]_vars
===============================================================================
