---------------------------- MODULE Ledger_proofs ----------------------------
(* What commands do to rows that something else counts on, for every set of      *)
(* accounts, amounts, starting tables and bounds: pairs stay whole (PairsIntact), *)
(* a settled row stays on the one record that settled it (SettledOnce), a         *)
(* statement settles what its review showed (SettlesWhatItShowed), the sides of a *)
(* payment leave and come back together (TwinsFollow).                            *)
EXTENDS Ledger, FiniteSetTheorems, SequenceTheorems, TLAPS

(* -- Pairs ---------------------------------------------------------------- *)

(* -- The inductive invariant ---------------------------------------------- *)

RowOrNone == Transactions \cup {None}
IsSeq(s) == s \in Seq({s[i] : i \in DOMAIN s})

\* The rows are a table, and what other state says of them is well formed.
TableOK ==
    /\ rows \in Seq(RowOrNone)
    /\ revision \in Int
    /\ IsSeq(recons)
    /\ accounts \subseteq Accounts

PairsTyped ==
    /\ links \subseteq [out : Nat, in : Nat, auto : BOOLEAN, reviewed : BOOLEAN]
    /\ payments \subseteq [source : Nat, generated : Nat]

\* A review that can be committed had no blocker: its token says so.
ReviewClear == review # None => review.token.blockers = {}

StatementRead == statement # None => statement.lines \in Seq([day : Int, amount : Int])

\* A generated row belongs to one payment.
OneOrigin == \A p, q \in payments : p.generated = q.generated => p = q

IInv ==
    /\ TableOK
    /\ PairsTyped
    /\ ReviewClear
    /\ StatementRead
    /\ OneOrigin
    /\ PairsIntact

(* -- Lemmas on the table --------------------------------------------------- *)

\* Row ids are numbers, and a row that exists is a transaction.
LEMMA RowFacts ==
    ASSUME TableOK
    PROVE  /\ Len(rows) \in Nat
           /\ Ids = 1 .. Len(rows)
           /\ \A i \in Ids : rows[i] \in RowOrNone
           /\ \A i : Exists(i) => i \in Ids /\ rows[i] \in Transactions /\ rows[i] # None
           /\ None \notin Transactions
<1>1. rows \in Seq(RowOrNone)
  BY DEF TableOK
<1>2. Len(rows) \in Nat /\ DOMAIN rows = 1 .. Len(rows) /\ rows \in [1 .. Len(rows) -> RowOrNone]
  BY <1>1, LenProperties
<1>3. None \notin Transactions
  BY LedgerAssumption DEF LedgerAssumption
<1> QED
  BY <1>2, <1>3 DEF Ids, Exists, RowOrNone

\* A sequence stays one when an element is appended, and when its elements change.
LEMMA AppendKeepsSeq ==
    ASSUME NEW s, IsSeq(s), NEW e
    PROVE  IsSeq(Append(s, e))
<1> DEFINE R == {s[i] : i \in DOMAIN s}
<1> DEFINE T == R \cup {e}
<1> DEFINE t == Append(s, e)
<1>1. s \in Seq(T)
  BY SeqMonotonic DEF IsSeq
<1>2. t \in Seq(T)
  BY <1>1
<1>3. Len(t) \in Nat /\ DOMAIN t = 1 .. Len(t) /\ t \in [1 .. Len(t) -> T]
  <2> HIDE DEF t
  <2> QED BY <1>2, LenProperties
<1>4. t \in [1 .. Len(t) -> {t[i] : i \in DOMAIN t}]
  <2> HIDE DEF t
  <2> QED BY <1>3
<1>5. t \in Seq({t[i] : i \in DOMAIN t})
  <2> HIDE DEF t
  <2> QED BY <1>3, <1>4, SeqDef
<1> QED
  BY <1>5 DEF IsSeq

LEMMA MapKeepsSeq ==
    ASSUME NEW s, IsSeq(s), NEW t, DOMAIN t = DOMAIN s, t = [i \in DOMAIN t |-> t[i]]
    PROVE  IsSeq(t)
<1>1. Len(s) \in Nat /\ DOMAIN s = 1 .. Len(s)
  BY LenProperties DEF IsSeq
<1>2. t \in [1 .. Len(s) -> {t[i] : i \in DOMAIN t}]
  BY <1>1
<1>3. t \in Seq({t[i] : i \in DOMAIN t})
  BY <1>1, <1>2, SeqDef
<1> QED
  BY <1>3 DEF IsSeq

\* A new table over the same ids, or longer, is a table if its rows are.
LEMMA TableFromRows ==
    ASSUME NEW n \in Nat, NEW t, DOMAIN t = 1 .. n, t = [i \in DOMAIN t |-> t[i]],
           \A i \in 1 .. n : t[i] \in RowOrNone
    PROVE  t \in Seq(RowOrNone)
<1>1. t \in [1 .. n -> RowOrNone]
  OBVIOUS
<1> QED
  BY <1>1, SeqDef

\* The update trigger changes only the rows named, in all but their revision.
LEMMA UpdateRowsFacts ==
    ASSUME TableOK, NEW new, UpdateRows(new),
           DOMAIN new \subseteq Ids, \A i \in DOMAIN new : new[i] \in Transactions
    PROVE  /\ rows' \in Seq(RowOrNone) /\ revision' \in Int
           /\ Ids' = Ids
           /\ \A i \in Ids : i \notin DOMAIN new => rows'[i] = rows[i]
           /\ \A i \in DOMAIN new : rows'[i] \in Transactions
                                    /\ rows'[i].account = new[i].account
<1>1. /\ Len(rows) \in Nat
      /\ Ids = 1 .. Len(rows)
      /\ \A i \in Ids : rows[i] \in RowOrNone
  BY RowFacts
<1>2. IsFiniteSet(Changed(new)) /\ Cardinality(Changed(new)) \in Nat
  <2>1. IsFiniteSet(1 .. Len(rows))
    BY <1>1, FS_Interval
  <2>2. Changed(new) \in SUBSET (1 .. Len(rows))
    BY <1>1 DEF Changed
  <2> QED BY <2>1, <2>2, FS_Subset, FS_CardinalityType
<1>3. \A i : Stamp(new, i) \in Int
  <2> TAKE i
  <2>1. {j \in Changed(new) : j <= i} \in SUBSET Changed(new)
    OBVIOUS
  <2>2. Cardinality({j \in Changed(new) : j <= i}) \in Nat
    BY <1>2, <2>1, FS_Subset, FS_CardinalityType
  <2> QED BY <2>2 DEF Stamp, Rank, TableOK
<1>4. revision' \in Int
  BY <1>2 DEF UpdateRows, TableOK
<1>5. rows' = Updated(new)
  BY DEF UpdateRows
<1>6. \A i \in DOMAIN new : [new[i] EXCEPT !.rev = Stamp(new, i)] \in Transactions
                             /\ [new[i] EXCEPT !.rev = Stamp(new, i)].account = new[i].account
  BY <1>3 DEF Transactions
<1>7. DOMAIN rows' = 1 .. Len(rows) /\ rows' = [i \in DOMAIN rows' |-> rows'[i]]
  BY <1>1, <1>5 DEF Updated
<1>8. \A i \in Ids : i \notin DOMAIN new => rows'[i] = rows[i]
  BY <1>5 DEF Updated
<1>9. \A i \in DOMAIN new : rows'[i] \in Transactions /\ rows'[i].account = new[i].account
  <2> TAKE i \in DOMAIN new
  <2>1. rows'[i] = [new[i] EXCEPT !.rev = Stamp(new, i)] \/ rows'[i] = new[i]
    BY <1>5 DEF Updated
  <2> QED BY <2>1, <1>6
<1>10. \A i \in 1 .. Len(rows) : rows'[i] \in RowOrNone
  BY <1>1, <1>8, <1>9 DEF RowOrNone
<1>11. rows' \in Seq(RowOrNone)
  BY <1>1, <1>7, <1>10, TableFromRows
<1> QED
  BY <1>1, <1>4, <1>7, <1>8, <1>9, <1>11 DEF Ids

\* A new row has the next id; the others stay.
LEMMA InsertRowFacts ==
    ASSUME TableOK, NEW a \in Accounts, NEW d \in Int, NEW amount \in Int,
           NEW what \in {"entry", "payment"}, InsertRow(a, d, amount, what)
    PROVE  /\ rows' \in Seq(RowOrNone) /\ revision' \in Int
           /\ Len(rows) \in Nat /\ Ids = 1 .. Len(rows) /\ Ids' = 1 .. Len(rows) + 1
           /\ \A i \in Ids : rows'[i] = rows[i]
           /\ rows'[Len(rows) + 1] \in Transactions
<1> DEFINE r == NewRow(a, d, amount, what, revision + 1)
<1>1. r \in Transactions
  BY DEF NewRow, Transactions, TableOK
<1>2. rows' = Append(rows, r) /\ revision' = revision + 1
  BY DEF InsertRow
<1>3. /\ Len(rows) \in Nat
      /\ Ids = 1 .. Len(rows)
  BY RowFacts
<1> HIDE DEF r
<1> QED
  BY <1>1, <1>2, <1>3 DEF TableOK, RowOrNone, Ids

(* -- What leaves the pairs alone ------------------------------------------- *)

\* A step that changes none of the state the invariant is about.
LEMMA ElsewhereKeeps ==
    ASSUME IInv,
           UNCHANGED <<accounts, rows, revision, recons, review, statement, links, payments>>
    PROVE  IInv'
BY DEF IInv, TableOK, PairsTyped, ReviewClear, StatementRead, OneOrigin, PairsIntact,
       Exists, Ids, IsSeq

\* A step that changes rows, but removes none, and moves no linked row.
LEMMA RowsKeepPairs ==
    ASSUME IInv, TableOK', ReviewClear', StatementRead',
           UNCHANGED <<links, payments>>,
           \A i : Exists(i) => Exists(i)',
           \A i \in LinkedRows : rows'[i].account = rows[i].account
    PROVE  IInv'
<1>1. PairsTyped' /\ OneOrigin'
  BY DEF IInv, PairsTyped, OneOrigin
<1>2. \A l \in links : l.out \in LinkedRows /\ l.in \in LinkedRows
  BY DEF LinkedRows
<1>3. PairsIntact'
  BY <1>2 DEF IInv, PairsIntact
<1> QED
  BY <1>1, <1>3 DEF IInv

\* The same for a step that goes through the update trigger.
LEMMA UpdateKeepsPairs ==
    ASSUME IInv, NEW new, UpdateRows(new),
           DOMAIN new \subseteq Ids, \A i \in DOMAIN new : new[i] \in Transactions,
           \A i \in DOMAIN new \cap LinkedRows : new[i].account = rows[i].account,
           UNCHANGED <<accounts, links, payments, recons, statement>>, ReviewClear'
    PROVE  IInv'
<1>1. TableOK
  BY DEF IInv
<1>2. /\ rows' \in Seq(RowOrNone) /\ revision' \in Int
      /\ Ids' = Ids
      /\ \A i \in Ids : i \notin DOMAIN new => rows'[i] = rows[i]
      /\ \A i \in DOMAIN new : rows'[i] \in Transactions
                               /\ rows'[i].account = new[i].account
  BY <1>1, UpdateRowsFacts
<1>3. TableOK'
  BY <1>1, <1>2 DEF TableOK, IsSeq
<1>4. \A i : Exists(i) => Exists(i)'
  <2>1. None \notin Transactions
    BY <1>1, RowFacts
  <2> QED BY <1>2, <2>1 DEF Exists
<1>5. \A i \in LinkedRows : rows'[i].account = rows[i].account
  <2> TAKE i \in LinkedRows
  <2>1. i \in Ids
    BY DEF LinkedRows, IInv, PairsIntact, Exists
  <2> QED BY <1>2, <2>1
<1>6. StatementRead'
  BY DEF IInv, StatementRead
<1> QED
  BY <1>3, <1>4, <1>5, <1>6, RowsKeepPairs

(* -- Balances --------------------------------------------------------------- *)

LEMMA BalanceCommandsKeep ==
    ASSUME IInv, NEW a, NEW b,
           RollForward \/ NextDay \/ SetStartingBalance(a, b) \/ Override(a, b)
    PROVE  IInv'
<1>1. UNCHANGED <<accounts, rows, revision, recons, review, statement, links, payments>>
  BY DEF RollForward, NextDay, SetStartingBalance, Override, otherVars, pairVars
<1> QED
  BY <1>1, ElsewhereKeeps

LEMMA ReviewMoveKeeps ==
    ASSUME IInv, NEW ids, NEW to, NEW inputs, ReviewMove(ids, to, inputs)
    PROVE  IInv'
<1>1. UNCHANGED <<accounts, rows, revision, recons, statement, links, payments>>
  BY DEF ReviewMove, pairVars
<1>2. review'.token.blockers = {}
  BY DEF ReviewMove, CanCommit, Token
<1>3. ReviewClear'
  BY <1>2 DEF ReviewClear
<1>4. TableOK' /\ StatementRead'
  BY <1>1 DEF IInv, TableOK, StatementRead, IsSeq
<1>5. (\A i : Exists(i) => Exists(i)') /\ \A i \in LinkedRows : rows'[i].account = rows[i].account
  BY <1>1 DEF Exists, Ids
<1> QED
  BY <1>1, <1>3, <1>4, <1>5, RowsKeepPairs

\* What blocks a move: a row that is a leg of a transfer among others.
LEMMA MoveLeavesLinked ==
    ASSUME NEW ids, NEW to, Blockers(ids, to) = {}
    PROVE  Effective(ids, to) \cap LinkedRows = {}
BY DEF Blockers

LEMMA ApplyMoveKeeps ==
    ASSUME IInv, NEW ids, NEW to \in accounts, NEW inputs, ApplyMove(ids, to, inputs),
           \A i \in ids : Live(i), Blockers(ids, to) = {},
           UNCHANGED <<accounts, links, payments, recons, statement>>, ReviewClear'
    PROVE  IInv'
<1> DEFINE E == Effective(ids, to)
<1> DEFINE new == [i \in E |-> MovedRow(i, to)]
<1>1. UpdateRows(new)
  BY DEF ApplyMove
<1>2. \A i \in E : i \in Ids /\ rows[i] \in Transactions
  BY RowFacts DEF IInv, Effective, Live
<1>3. \A i \in E : MovedRow(i, to) \in Transactions
  BY <1>2 DEF MovedRow, Transactions, IInv, TableOK
<1>4. E \cap LinkedRows = {}
  BY MoveLeavesLinked
<1>5. DOMAIN new = E /\ \A i \in E : new[i] = MovedRow(i, to)
  OBVIOUS
<1> HIDE DEF new, E
<1>6. DOMAIN new \subseteq Ids /\ \A i \in DOMAIN new : new[i] \in Transactions
  BY <1>2, <1>3, <1>5
<1>7. \A i \in DOMAIN new \cap LinkedRows : new[i].account = rows[i].account
  BY <1>4, <1>5
<1> QED
  BY <1>1, <1>6, <1>7, UpdateKeepsPairs

\* What is committed is what was reviewed, so nothing blocks it now.
LEMMA CommitMoveKeeps ==
    ASSUME IInv, CommitMove
    PROVE  IInv'
<1>1. UNCHANGED <<accounts, links, payments, recons, statement>> /\ review # None /\ review' = None
  BY DEF CommitMove
<1>2. ReviewClear'
  BY <1>1 DEF ReviewClear
<1> DEFINE Same == /\ review.to \in accounts
                   /\ \A i \in review.ids : Live(i)
                   /\ Token(review.ids, review.to, review.inputs) = review.token
<1>3. CASE Same
  <2>1. ApplyMove(review.ids, review.to, review.inputs)
    BY <1>3 DEF CommitMove
  <2>2. Token(review.ids, review.to, review.inputs).blockers = Blockers(review.ids, review.to)
    BY DEF Token
  <2>3. Blockers(review.ids, review.to) = {}
    BY <1>1, <1>3, <2>2 DEF IInv, ReviewClear
  <2> QED BY <1>1, <1>2, <1>3, <2>1, <2>3, ApplyMoveKeeps
<1>4. CASE ~Same
  <2>1. UNCHANGED <<rows, revision>>
    BY <1>4 DEF CommitMove
  <2>2. TableOK' /\ StatementRead'
    BY <1>1, <2>1 DEF IInv, TableOK, StatementRead, IsSeq
  <2>3. /\ \A i : Exists(i) => Exists(i)'
        /\ \A i \in LinkedRows : rows'[i].account = rows[i].account
    BY <2>1 DEF Exists, Ids
  <2> QED BY <1>1, <1>2, <2>2, <2>3, RowsKeepPairs
<1> QED
  BY <1>3, <1>4

LEMMA MoveOneKeeps ==
    ASSUME IInv, NEW i, NEW to, MoveOne(i, to)
    PROVE  IInv'
<1>1. /\ to \in accounts /\ Live(i) /\ ApplyMove({i}, to, <<"none">>)
      /\ Blockers({i}, to) = {}
      /\ UNCHANGED <<accounts, links, payments, recons, review, statement>>
  BY DEF MoveOne, CanCommit
<1>2. ReviewClear'
  BY <1>1 DEF IInv, ReviewClear
<1>3. \A j \in {i} : Live(j)
  BY <1>1
<1> QED
  BY <1>1, <1>2, <1>3, ApplyMoveKeeps

(* -- Rows ------------------------------------------------------------------- *)

LEMMA CreateKeeps ==
    ASSUME IInv, NEW a \in accounts, NEW d \in Int, NEW x \in Amounts,
           CreateTransaction(a, d, x)
    PROVE  IInv'
<1>1. a \in Accounts /\ x \in Int
  BY LedgerAssumption DEF LedgerAssumption, IInv, TableOK
<1>2. /\ InsertRow(a, d, x, "entry")
      /\ UNCHANGED <<accounts, recons, review, statement, links, payments>>
  BY DEF CreateTransaction, otherVars, pairVars
<1>3. /\ rows' \in Seq(RowOrNone) /\ revision' \in Int
      /\ Len(rows) \in Nat /\ Ids = 1 .. Len(rows) /\ Ids' = 1 .. Len(rows) + 1
      /\ \A i \in Ids : rows'[i] = rows[i]
  BY <1>1, <1>2, InsertRowFacts DEF IInv
<1>4. TableOK' /\ ReviewClear' /\ StatementRead'
  BY <1>2, <1>3 DEF IInv, TableOK, ReviewClear, StatementRead, IsSeq
<1>5. \A i : Exists(i) => Exists(i)'
  BY <1>3 DEF Exists
<1>6. \A i \in LinkedRows : rows'[i].account = rows[i].account
  BY <1>3 DEF LinkedRows, IInv, PairsIntact, Exists
<1> QED
  BY <1>2, <1>4, <1>5, <1>6, RowsKeepPairs

\* Rows changed in place stay where they are.
LEMMA ChangeRowKeeps ==
    ASSUME IInv, NEW new, ChangeRow(new), DOMAIN new \subseteq Ids,
           \A i \in DOMAIN new : new[i] \in Transactions /\ new[i].account = rows[i].account
    PROVE  IInv'
<1>1. UpdateRows(new) /\ UNCHANGED <<accounts, recons, review, statement, links, payments>>
  BY DEF ChangeRow, otherVars, pairVars
<1>2. ReviewClear'
  BY <1>1 DEF IInv, ReviewClear
<1> QED
  BY <1>1, <1>2, UpdateKeepsPairs

LEMMA UpdateAmountKeeps ==
    ASSUME IInv, NEW i \in Ids, NEW x \in Amounts, UpdateAmount(i, x)
    PROVE  IInv'
<1> DEFINE new == [j \in {i} |-> [rows[j] EXCEPT !.amount = x]]
<1>1. Exists(i) /\ ChangeRow(new)
  BY DEF UpdateAmount
<1>2. rows[i] \in Transactions /\ x \in Int
  BY <1>1, RowFacts, LedgerAssumption DEF IInv, LedgerAssumption
<1>3. DOMAIN new = {i} /\ new[i] \in Transactions /\ new[i].account = rows[i].account
  BY <1>2 DEF Transactions
<1> HIDE DEF new
<1> QED
  BY <1>1, <1>3, ChangeRowKeeps

LEMMA UpdateDateKeeps ==
    ASSUME IInv, NEW i \in Ids, NEW d \in Days, UpdateDate(i, d)
    PROVE  IInv'
<1> DEFINE new == [j \in {i} |-> [rows[j] EXCEPT !.day = d]]
<1>1. Exists(i) /\ ChangeRow(new)
  BY DEF UpdateDate
<1>2. rows[i] \in Transactions /\ d \in Int
  BY <1>1, RowFacts DEF IInv, Days
<1>3. DOMAIN new = {i} /\ new[i] \in Transactions /\ new[i].account = rows[i].account
  BY <1>2 DEF Transactions
<1> HIDE DEF new
<1> QED
  BY <1>1, <1>3, ChangeRowKeeps

\* A row and its partner leave and come back; both exist.
LEMMA SetLiveKeeps ==
    ASSUME IInv, NEW ids, NEW b \in BOOLEAN, \A i \in ids : Exists(i), SetLive(ids, b)
    PROVE  IInv'
<1> DEFINE new == [i \in ids |-> [rows[i] EXCEPT !.live = b]]
<1>1. ChangeRow(new)
  BY DEF SetLive
<1>2. \A i \in ids : i \in Ids /\ rows[i] \in Transactions
  BY RowFacts DEF IInv
<1>3. DOMAIN new = ids
      /\ \A i \in ids : new[i] \in Transactions /\ new[i].account = rows[i].account
  BY <1>2 DEF Transactions
<1> HIDE DEF new
<1> QED
  BY <1>1, <1>2, <1>3, ChangeRowKeeps

LEMMA DeleteRestoreKeep ==
    ASSUME IInv, NEW i, DeleteTransaction(i) \/ RestoreTransaction(i)
    PROVE  IInv'
<1>1. \A j \in {i} \cup Partner(i) : Exists(j)
  BY DEF DeleteTransaction, RestoreTransaction, Partner, Generated, Live, IInv, PairsIntact
<1>2. SetLive({i} \cup Partner(i), FALSE) \/ SetLive({i} \cup Partner(i), TRUE)
  BY DEF DeleteTransaction, RestoreTransaction
<1> QED
  BY <1>1, <1>2, SetLiveKeeps

LEMMA FlipKeeps ==
    ASSUME IInv, NEW ids, FlipSigns(ids)
    PROVE  IInv'
<1> DEFINE new == [i \in ids |-> [rows[i] EXCEPT !.amount = -@]]
<1>1. /\ UpdateRows(new) /\ \A i \in ids : Live(i)
      /\ UNCHANGED <<accounts, recons, review, statement, links, payments>>
  BY DEF FlipSigns, otherVars, pairVars
<1>2. \A i \in ids : i \in Ids /\ rows[i] \in Transactions
  BY <1>1, RowFacts DEF IInv, Live
<1>3. DOMAIN new = ids
      /\ \A i \in ids : new[i] \in Transactions /\ new[i].account = rows[i].account
  BY <1>2 DEF Transactions
<1>4. ReviewClear'
  BY <1>1 DEF IInv, ReviewClear
<1> HIDE DEF new
<1> QED
  BY <1>1, <1>2, <1>3, <1>4, UpdateKeepsPairs

(* -- Pairs ------------------------------------------------------------------ *)

\* A step that changes only the links.
LEMMA LinksChanged ==
    ASSUME IInv, UNCHANGED <<accounts, rows, revision, recons, review, statement, payments>>,
           links' \subseteq [out : Nat, in : Nat, auto : BOOLEAN, reviewed : BOOLEAN],
           \A l \in links' : /\ Exists(l.out) /\ Exists(l.in)
                             /\ rows[l.out].account # rows[l.in].account,
           \A k, l \in links' : {k.out, k.in} \cap {l.out, l.in} # {} => k = l
    PROVE  IInv'
<1>1. TableOK' /\ ReviewClear' /\ StatementRead' /\ OneOrigin'
  BY DEF IInv, TableOK, ReviewClear, StatementRead, OneOrigin, IsSeq
<1>2. PairsTyped'
  BY DEF IInv, PairsTyped
<1>3. \A i : Exists(i)' <=> Exists(i)
  BY DEF Exists, Ids
<1>4. PairsIntact'
  BY <1>3 DEF IInv, PairsIntact
<1> QED
  BY <1>1, <1>2, <1>4 DEF IInv

\* Links between linkable rows, no two of which share a row, can be added.
LEMMA AddedLinks ==
    ASSUME IInv, UNCHANGED <<accounts, rows, revision, recons, review, statement, payments>>,
           NEW S, NEW auto \in BOOLEAN, S \subseteq [out : Ids, in : Ids],
           \A p \in S : Linkable(p.out, p.in),
           \A p, q \in S : q # p => q.out # p.out /\ q.in # p.in,
           links' = links \cup {LinkRow(p, auto) : p \in S}
    PROVE  IInv'
<1>1. TableOK /\ PairsTyped /\ PairsIntact
  BY DEF IInv
<1>2. Len(rows) \in Nat /\ Ids = 1 .. Len(rows)
  BY <1>1, RowFacts
<1>3. \A p \in S : /\ LinkRow(p, auto) \in [out : Nat, in : Nat, auto : BOOLEAN, reviewed : BOOLEAN]
                   /\ LinkRow(p, auto).out = p.out /\ LinkRow(p, auto).in = p.in
  BY <1>2 DEF LinkRow
<1>4. \A p \in S : /\ Exists(p.out) /\ Exists(p.in)
                   /\ rows[p.out].account # rows[p.in].account
                   /\ p.out \notin LinkedRows /\ p.in \notin LinkedRows
                   /\ rows[p.out].amount < 0 /\ rows[p.in].amount > 0
  BY DEF Linkable, Live
<1>5. \A p, q \in S : p.out # q.in
  <2>1. \A p \in S : rows[p.out].amount \in Int /\ rows[p.in].amount \in Int
    BY <1>1, <1>4, RowFacts DEF Transactions
  <2> QED BY <1>4, <2>1
<1>6. \A l \in links : {l.out, l.in} \subseteq LinkedRows
  BY DEF LinkedRows
<1>7. links' \subseteq [out : Nat, in : Nat, auto : BOOLEAN, reviewed : BOOLEAN]
  BY <1>1, <1>3 DEF PairsTyped
<1>8. \A l \in links' : /\ Exists(l.out) /\ Exists(l.in)
                        /\ rows[l.out].account # rows[l.in].account
  BY <1>1, <1>3, <1>4 DEF PairsIntact
<1>9. \A k, l \in links' : {k.out, k.in} \cap {l.out, l.in} # {} => k = l
  <2> SUFFICES ASSUME NEW k \in links', NEW l \in links', {k.out, k.in} \cap {l.out, l.in} # {}
               PROVE  k = l
    OBVIOUS
  <2>1. CASE k \in links /\ l \in links
    BY <2>1, <1>1 DEF PairsIntact
  <2>2. CASE k \in links /\ l \notin links
    BY <2>2, <1>3, <1>4, <1>6
  <2>3. CASE k \notin links /\ l \in links
    BY <2>3, <1>3, <1>4, <1>6
  <2>4. CASE k \notin links /\ l \notin links
    <3>1. PICK p \in S : k = LinkRow(p, auto)
      BY <2>4
    <3>2. PICK q \in S : l = LinkRow(q, auto)
      BY <2>4
    <3>3. p.out = q.out \/ p.in = q.in \/ p.out = q.in \/ p.in = q.out
      BY <1>3, <3>1, <3>2
    <3>4. p = q
      BY <1>5, <3>3
    <3> QED BY <3>1, <3>2, <3>4
  <2> QED BY <2>1, <2>2, <2>3, <2>4
<1> QED
  BY <1>7, <1>8, <1>9, LinksChanged

LEMMA LinkKeeps ==
    ASSUME IInv, NEW o \in Ids, NEW n \in Ids, LinkTransfer(o, n)
    PROVE  IInv'
<1> DEFINE S == {Pair(o, n)}
<1>1. /\ UNCHANGED <<accounts, rows, revision, recons, review, statement, payments>>
      /\ Linkable(o, n) /\ links' = links \cup {LinkRow(Pair(o, n), FALSE)}
  BY DEF LinkTransfer, otherVars
<1>2. S \subseteq [out : Ids, in : Ids] /\ \A p \in S : p.out = o /\ p.in = n
  BY DEF Pair
<1>3. links' = links \cup {LinkRow(p, FALSE) : p \in S}
  BY <1>1
<1>4. \A p, q \in S : q # p => q.out # p.out /\ q.in # p.in
  OBVIOUS
<1> HIDE DEF S
<1> QED
  BY <1>1, <1>2, <1>3, <1>4, AddedLinks

\* The application links only pairs that are each other's only match.
LEMMA AutoLinkKeeps ==
    ASSUME IInv, AutoLink
    PROVE  IInv'
<1>1. /\ UNCHANGED <<accounts, rows, revision, recons, review, statement, payments>>
      /\ links' = links \cup {LinkRow(p, TRUE) : p \in ClearCut}
  BY DEF AutoLink, otherVars
<1>2. ClearCut \subseteq CandidatePairs
  BY DEF ClearCut, Suggestible
<1>3. \A p \in CandidatePairs : p \in [out : Ids, in : Ids] /\ Linkable(p.out, p.in)
  BY DEF CandidatePairs
<1>4. \A p, q \in ClearCut : q # p => q.out # p.out /\ q.in # p.in
  BY DEF ClearCut
<1>5. ClearCut \subseteq [out : Ids, in : Ids] /\ \A p \in ClearCut : Linkable(p.out, p.in)
  BY <1>2, <1>3
<1> QED
  BY <1>1, <1>4, <1>5, AddedLinks

LEMMA FewerLinksKeep ==
    ASSUME IInv, NEW i, NEW l, UnlinkTransfer(i) \/ MarkReviewed(l)
    PROVE  IInv'
<1>1. UNCHANGED <<accounts, rows, revision, recons, review, statement, payments>>
  BY DEF UnlinkTransfer, MarkReviewed, otherVars
<1>2. CASE UnlinkTransfer(i)
  <2>1. links' \subseteq links
    BY <1>2 DEF UnlinkTransfer
  <2> QED BY <1>1, <2>1, LinksChanged DEF IInv, PairsTyped, PairsIntact
<1>3. CASE MarkReviewed(l)
  <2> DEFINE m == [l EXCEPT !.reviewed = TRUE]
  <2>1. l \in links /\ links' = (links \ {l}) \cup {m}
    BY <1>3 DEF MarkReviewed, ToReview
  <2>2. m \in [out : Nat, in : Nat, auto : BOOLEAN, reviewed : BOOLEAN]
        /\ m.out = l.out /\ m.in = l.in
    BY <2>1 DEF IInv, PairsTyped
  <2> HIDE DEF m
  <2>3. \A k \in links' : \E j \in links : k.out = j.out /\ k.in = j.in
                                           /\ (k = m <=> j = l)
    BY <2>1, <2>2 DEF IInv, PairsIntact
  <2>4. links' \subseteq [out : Nat, in : Nat, auto : BOOLEAN, reviewed : BOOLEAN]
    BY <2>1, <2>2 DEF IInv, PairsTyped
  <2>5. \A k \in links' : /\ Exists(k.out) /\ Exists(k.in)
                          /\ rows[k.out].account # rows[k.in].account
    BY <2>3 DEF IInv, PairsIntact
  <2>6. \A j, k \in links' : {j.out, j.in} \cap {k.out, k.in} # {} => j = k
    <3> SUFFICES ASSUME NEW j \in links', NEW k \in links', {j.out, j.in} \cap {k.out, k.in} # {}
                 PROVE  j = k
      OBVIOUS
    <3>1. CASE j \in links \ {l} /\ k \in links \ {l}
      BY <3>1 DEF IInv, PairsIntact
    <3>2. CASE j = m /\ k \in links \ {l}
      BY <3>2, <2>1, <2>2 DEF IInv, PairsIntact
    <3>3. CASE j \in links \ {l} /\ k = m
      BY <3>3, <2>1, <2>2 DEF IInv, PairsIntact
    <3> QED BY <2>1, <3>1, <3>2, <3>3
  <2> QED BY <1>1, <2>4, <2>5, <2>6, LinksChanged
<1> QED
  BY <1>2, <1>3

\* The row of a new payment is new: no other payment generated it.
LEMMA ApplyPaymentKeeps ==
    ASSUME IInv, NEW i \in Ids, NEW debt \in accounts, NEW x \in Amounts,
           ApplyDebtPayment(i, debt, x)
    PROVE  IInv'
<1> DEFINE new == [source |-> i, generated |-> Len(rows) + 1]
<1>1. /\ Exists(i) /\ InsertRow(debt, rows[i].day, x, "payment")
      /\ payments' = IF i \in Sources THEN payments ELSE payments \cup {new}
      /\ UNCHANGED <<accounts, recons, review, statement, links>>
  BY DEF ApplyDebtPayment, otherVars
<1>2. debt \in Accounts /\ x \in Int /\ rows[i].day \in Int
  BY <1>1, LedgerAssumption, RowFacts DEF LedgerAssumption, IInv, TableOK, Transactions
<1>3. /\ rows' \in Seq(RowOrNone) /\ revision' \in Int
      /\ Len(rows) \in Nat /\ Ids = 1 .. Len(rows) /\ Ids' = 1 .. Len(rows) + 1
      /\ \A j \in Ids : rows'[j] = rows[j]
      /\ rows'[Len(rows) + 1] \in Transactions
  BY <1>1, <1>2, InsertRowFacts DEF IInv
<1>4. TableOK' /\ ReviewClear' /\ StatementRead'
  BY <1>1, <1>3 DEF IInv, TableOK, ReviewClear, StatementRead, IsSeq
<1>5. /\ \A j : Exists(j) => Exists(j)' /\ j \in Ids
      /\ \A j : j = Len(rows) + 1 => Exists(j)'
  <2>1. \A j : Exists(j) => Exists(j)' /\ j \in Ids
    BY <1>3 DEF Exists
  <2>2. \A j : j = Len(rows) + 1 => Exists(j)'
    BY <1>3, RowFacts DEF Exists, IInv
  <2> QED BY <2>1, <2>2
<1>6. new \in [source : Nat, generated : Nat] /\ new.source = i /\ new.generated = Len(rows) + 1
  BY <1>3
<1>7. \A p \in payments : p.generated \in Ids /\ p.generated # Len(rows) + 1
  BY <1>3, <1>5 DEF IInv, PairsIntact
<1> HIDE DEF new
<1>8. payments' \subseteq payments \cup {new}
  BY <1>1
<1>9. PairsTyped'
  BY <1>1, <1>6, <1>8 DEF IInv, PairsTyped
<1>10. OneOrigin'
  BY <1>6, <1>7, <1>8 DEF IInv, OneOrigin
<1>11. \A p \in payments' : Exists(p.source)' /\ Exists(p.generated)'
  BY <1>1, <1>5, <1>6, <1>8 DEF IInv, PairsIntact
<1>12. PairsIntact'
  BY <1>1, <1>3, <1>5, <1>11 DEF IInv, PairsIntact
<1> QED
  BY <1>4, <1>9, <1>10, <1>12 DEF IInv

\* The generated row goes only when nothing refers to it.
LEMMA UnapplyPaymentKeeps ==
    ASSUME IInv, NEW p \in payments, UnapplyDebtPayment(p)
    PROVE  IInv'
<1> DEFINE g == p.generated
<1>1. /\ payments' = payments \ {p}
      /\ UNCHANGED <<accounts, recons, review, statement, links>>
  BY DEF UnapplyDebtPayment, otherVars
<1>2. PairsTyped' /\ OneOrigin' /\ ReviewClear' /\ StatementRead'
  BY <1>1 DEF IInv, PairsTyped, OneOrigin, ReviewClear, StatementRead
<1>3. CASE g \in LinkedRows \cup Sources
  <2>1. UNCHANGED <<rows, revision>>
    BY <1>3 DEF UnapplyDebtPayment
  <2>2. TableOK' /\ PairsIntact'
    BY <1>1, <2>1 DEF IInv, TableOK, IsSeq, PairsIntact, Exists, Ids
  <2> QED BY <1>2, <2>2 DEF IInv
<1>4. CASE g \notin LinkedRows \cup Sources
  <2>1. rows' = [rows EXCEPT ![g] = None] /\ revision' = revision + 1
    BY <1>4 DEF UnapplyDebtPayment
  <2>2. /\ Len(rows) \in Nat
        /\ Ids = 1 .. Len(rows)
        /\ \A i \in Ids : rows[i] \in RowOrNone
    BY RowFacts DEF IInv
  <2>3. rows = [i \in Ids |-> rows[i]]
    <3>1. rows \in Seq(RowOrNone)
      BY DEF IInv, TableOK
    <3> QED BY <3>1, LenProperties DEF Ids
  <2>4. /\ DOMAIN rows' = 1 .. Len(rows) /\ rows' = [i \in DOMAIN rows' |-> rows'[i]]
        /\ \A i \in Ids : i # g => rows'[i] = rows[i]
        /\ \A i \in Ids : i = g => rows'[i] = None
    BY <2>1, <2>2, <2>3 DEF Ids
  <2>5. \A i \in 1 .. Len(rows) : rows'[i] \in RowOrNone
    BY <2>2, <2>4 DEF RowOrNone
  <2>6. rows' \in Seq(RowOrNone)
    BY <2>2, <2>4, <2>5, TableFromRows
  <2>11. TableOK'
    BY <1>1, <2>1, <2>6 DEF IInv, TableOK, IsSeq
  <2>7. \A i : Exists(i) /\ i # g => Exists(i)' /\ rows'[i] = rows[i]
    BY <2>2, <2>4 DEF Exists, Ids
  <2>8. \A l \in links : l.out # g /\ l.in # g
    BY <1>4 DEF LinkedRows
  <2>9. \A q \in payments' : q.source # g /\ q.generated # g
    BY <1>1, <1>4 DEF Sources, IInv, OneOrigin
  <2>10. PairsIntact'
    BY <1>1, <2>7, <2>8, <2>9 DEF IInv, PairsIntact
  <2> QED BY <1>2, <2>10, <2>11 DEF IInv
<1> QED
  BY <1>3, <1>4

\* Only rows that no transfer and no kept payment refers to go with an account.
LEMMA DeleteAccountKeeps ==
    ASSUME IInv, NEW a, DeleteAccount(a)
    PROVE  IInv'
<1>1. /\ Cascade(a) \cap LinkedRows = {}
      /\ accounts' = accounts \ {a}
      /\ rows' = [i \in Ids |-> IF i \in Cascade(a) THEN None ELSE rows[i]]
      /\ revision' = revision + Cardinality(Cascade(a))
      /\ payments' = {p \in payments : {p.source, p.generated} \cap Cascade(a) = {}}
      /\ recons' = [k \in DOMAIN recons |-> IF k \in Records(a) THEN NoRecord ELSE recons[k]]
      /\ UNCHANGED <<links, review, statement>>
  BY DEF DeleteAccount
<1>2. /\ Len(rows) \in Nat
      /\ Ids = 1 .. Len(rows)
      /\ \A i \in Ids : rows[i] \in RowOrNone
  BY RowFacts DEF IInv
<1>3. Cardinality(Cascade(a)) \in Nat
  <2>1. Cascade(a) \in SUBSET (1 .. Len(rows))
    BY <1>2 DEF Cascade, RowsOf, Twins, Exists, IInv, PairsIntact
  <2>2. IsFiniteSet(1 .. Len(rows))
    BY <1>2, FS_Interval
  <2> QED BY <2>1, <2>2, FS_Subset, FS_CardinalityType
<1>4. /\ DOMAIN rows' = 1 .. Len(rows) /\ rows' = [i \in DOMAIN rows' |-> rows'[i]]
      /\ \A i \in 1 .. Len(rows) : rows'[i] \in RowOrNone
  BY <1>1, <1>2 DEF RowOrNone
<1>5. rows' \in Seq(RowOrNone)
  BY <1>2, <1>4, TableFromRows
<1>6. IsSeq(recons)'
  <2>1. DOMAIN recons' = DOMAIN recons /\ recons' = [k \in DOMAIN recons' |-> recons'[k]]
    BY <1>1
  <2>2. IsSeq(recons)
    BY DEF IInv, TableOK
  <2> QED BY <2>1, <2>2, MapKeepsSeq DEF IsSeq
<1>7. TableOK'
  BY <1>1, <1>3, <1>5, <1>6 DEF IInv, TableOK
<1>8. \A i : Exists(i) /\ i \notin Cascade(a) => Exists(i)' /\ rows'[i] = rows[i]
  BY <1>1 DEF Exists, Ids
<1>9. \A l \in links : l.out \notin Cascade(a) /\ l.in \notin Cascade(a)
  BY <1>1 DEF LinkedRows
<1>10. PairsIntact'
  BY <1>1, <1>8, <1>9 DEF IInv, PairsIntact
<1>11. PairsTyped' /\ OneOrigin' /\ ReviewClear' /\ StatementRead'
  BY <1>1 DEF IInv, PairsTyped, OneOrigin, ReviewClear, StatementRead
<1> QED
  BY <1>7, <1>10, <1>11 DEF IInv

(* -- Reconciling ------------------------------------------------------------ *)

\* Ticks and settlements keep the rows, their accounts and their types.
LEMMA TableKeepsPairs ==
    ASSUME IInv, rows' \in Seq(RowOrNone), revision' \in Int, IsSeq(recons)',
           UNCHANGED <<accounts, review, links, payments>>, StatementRead',
           \A i \in Ids : Exists(i) => /\ i \in DOMAIN rows' /\ rows'[i] \in Transactions
                                       /\ rows'[i].account = rows[i].account
    PROVE  IInv'
<1>1. None \notin Transactions
  BY RowFacts DEF IInv
<1>2. \A i : Exists(i) => Exists(i)'
  BY <1>1 DEF Exists, Ids
<1>3. \A i \in LinkedRows : rows'[i].account = rows[i].account
  BY DEF LinkedRows, IInv, PairsIntact, Exists
<1>4. TableOK' /\ ReviewClear'
  BY DEF IInv, TableOK, ReviewClear
<1> QED
  BY <1>2, <1>3, <1>4, RowsKeepPairs

\* Settling keeps a table a table: only existing rows are settled.
LEMMA SettleFacts ==
    ASSUME TableOK, NEW table \in Seq(RowOrNone), NEW a
    PROVE  LET t == Settle(table, Ticked(a, table))
           IN  /\ t \in Seq(RowOrNone)
               /\ DOMAIN t = DOMAIN table
               /\ \A i \in DOMAIN table :
                      table[i] \in Transactions => t[i] \in Transactions
                                                   /\ t[i].account = table[i].account
<1> DEFINE t == Settle(table, Ticked(a, table))
<1>1. Len(recons) + 1 \in Int
  BY LenProperties DEF TableOK, IsSeq
<1>2. Len(table) \in Nat /\ DOMAIN table = 1 .. Len(table) /\ \A i \in DOMAIN table : table[i] \in RowOrNone
  BY LenProperties
<1>3. DOMAIN t = DOMAIN table /\ t = [i \in DOMAIN t |-> t[i]]
  BY DEF Settle
<1>4. \A i \in DOMAIN table : table[i] \in Transactions =>
          t[i] \in Transactions /\ t[i].account = table[i].account
  <2> TAKE i \in DOMAIN table
  <2> HAVE table[i] \in Transactions
  <2>1. t[i] = table[i] \/ t[i] = [table[i] EXCEPT !.settled = Len(recons) + 1]
    BY DEF Settle
  <2>2. [table[i] EXCEPT !.settled = Len(recons) + 1] \in Transactions
        /\ [table[i] EXCEPT !.settled = Len(recons) + 1].account = table[i].account
    BY <1>1 DEF Transactions
  <2> QED BY <2>1, <2>2
<1>5. \A i \in DOMAIN table : table[i] = None => t[i] = None
  BY DEF Settle, Ticked
<1>6. \A i \in 1 .. Len(table) : t[i] \in RowOrNone
  BY <1>2, <1>4, <1>5 DEF RowOrNone
<1> HIDE DEF t
<1>7. t \in Seq(RowOrNone)
  BY <1>2, <1>3, <1>6, TableFromRows
<1> QED
  BY <1>3, <1>4, <1>7 DEF t

LEMMA TickKeeps ==
    ASSUME IInv, NEW i \in Ids, NEW b \in BOOLEAN, Tick(i, b)
    PROVE  IInv'
<1>1. /\ Exists(i) /\ rows' = [rows EXCEPT ![i].cleared = b]
      /\ UNCHANGED <<accounts, revision, recons, review, statement, links, payments>>
  BY DEF Tick, otherVars, pairVars
<1>2. /\ Len(rows) \in Nat /\ Ids = 1 .. Len(rows)
      /\ \A j \in Ids : rows[j] \in RowOrNone
      /\ \A j : Exists(j) => rows[j] \in Transactions
  BY RowFacts DEF IInv
<1> DEFINE r == [rows[i] EXCEPT !.cleared = b]
<1>3. r \in Transactions /\ r.account = rows[i].account
  BY <1>1, <1>2 DEF Transactions
<1>4. rows' = [rows EXCEPT ![i] = r]
  BY <1>1
<1> HIDE DEF r
<1>5. rows = [j \in Ids |-> rows[j]]
  <2>1. rows \in Seq(RowOrNone)
    BY DEF IInv, TableOK
  <2> QED BY <2>1, LenProperties DEF Ids
<1>6. /\ DOMAIN rows' = 1 .. Len(rows) /\ rows' = [j \in DOMAIN rows' |-> rows'[j]]
      /\ \A j \in Ids : rows'[j] = IF j = i THEN r ELSE rows[j]
  BY <1>2, <1>4, <1>5 DEF Ids
<1>7. \A j \in 1 .. Len(rows) : rows'[j] \in RowOrNone
  BY <1>2, <1>3, <1>6 DEF RowOrNone
<1>8. rows' \in Seq(RowOrNone)
  BY <1>2, <1>6, <1>7, TableFromRows
<1>9. revision' \in Int /\ IsSeq(recons)' /\ StatementRead'
  BY <1>1 DEF IInv, TableOK, StatementRead, IsSeq
<1>10. \A j \in Ids : Exists(j) => /\ j \in DOMAIN rows' /\ rows'[j] \in Transactions
                                   /\ rows'[j].account = rows[j].account
  BY <1>2, <1>3, <1>6
<1> QED
  BY <1>1, <1>8, <1>9, <1>10, TableKeepsPairs

LEMMA FinishManualKeeps ==
    ASSUME IInv, NEW a, NEW d, NEW b, FinishManual(a, d, b)
    PROVE  IInv'
<1> DEFINE r == Record(a, d, StartFrom(a, d, b), StartFrom(a, d, b) + ChangeOf(a, Ticked(a, rows)),
                       None, Ticked(a, rows), rows)
<1>1. /\ rows' = Settle(rows, Ticked(a, rows)) /\ recons' = Append(recons, r)
      /\ UNCHANGED <<accounts, revision, review, statement, links, payments>>
  BY DEF FinishManual, pairVars
<1> HIDE DEF r
<1>2. rows \in Seq(RowOrNone) /\ TableOK
  BY DEF IInv, TableOK
<1>3. /\ rows' \in Seq(RowOrNone) /\ DOMAIN rows' = DOMAIN rows
      /\ \A i \in DOMAIN rows :
             rows[i] \in Transactions => rows'[i] \in Transactions
                                         /\ rows'[i].account = rows[i].account
  BY <1>1, <1>2, SettleFacts
<1>4. IsSeq(recons)'
  <2>1. IsSeq(Append(recons, r))
    BY <1>2, AppendKeepsSeq DEF TableOK
  <2> QED BY <1>1, <2>1 DEF IsSeq
<1>5. revision' \in Int /\ StatementRead'
  BY <1>1, <1>2 DEF TableOK, IInv, StatementRead
<1>6. \A i \in Ids : Exists(i) => rows[i] \in Transactions
  BY <1>2, RowFacts
<1> QED
  BY <1>1, <1>3, <1>4, <1>5, <1>6, TableKeepsPairs DEF Ids

LEMMA ReviewStatementKeeps ==
    ASSUME IInv, NEW a, NEW d, NEW lines \in Lines, ReviewStatement(a, d, lines)
    PROVE  IInv'
<1>1. /\ statement'.lines = lines
      /\ UNCHANGED <<accounts, rows, revision, recons, review, links, payments>>
  BY DEF ReviewStatement, pairVars
<1>2. StatementRead'
  BY <1>1, TablesAssumption DEF TablesAssumption, StatementRead
<1>3. rows' \in Seq(RowOrNone) /\ revision' \in Int /\ IsSeq(recons)'
  BY <1>1 DEF IInv, TableOK, IsSeq
<1>4. \A i \in Ids : Exists(i) => /\ i \in DOMAIN rows' /\ rows'[i] \in Transactions
                                  /\ rows'[i].account = rows[i].account
  BY <1>1, RowFacts DEF IInv, Ids
<1> QED
  BY <1>1, <1>2, <1>3, <1>4, TableKeepsPairs

\* The n-th of a finite set of numbers is one of them.
LEMMA NthFacts ==
    ASSUME NEW k \in Nat, NEW S \in SUBSET (1 .. k), NEW n \in 1 .. Cardinality(S)
    PROVE  Nth(S, n) \in S /\ Rank(S, Nth(S, n)) = n
<1> DEFINE Upto(m) == {j \in S : j <= m}
<1> DEFINE rank == [m \in S |-> Cardinality(Upto(m))]
<1> DEFINE N == 1 .. Cardinality(S)
<1>1. IsFiniteSet(S) /\ Cardinality(S) \in Nat
  <2>1. IsFiniteSet(1 .. k)
    BY FS_Interval
  <2> QED BY <2>1, FS_Subset, FS_CardinalityType
<1>2. \A m \in S : /\ IsFiniteSet(Upto(m)) /\ Cardinality(Upto(m)) \in Nat
                   /\ Cardinality(Upto(m)) <= Cardinality(S)
                   /\ Cardinality(Upto(m)) # 0
  <2> TAKE m \in S
  <2>1. Upto(m) \in SUBSET S /\ m \in Upto(m)
    OBVIOUS
  <2>2. IsFiniteSet(Upto(m)) /\ Cardinality(Upto(m)) <= Cardinality(S)
    BY <1>1, <2>1, FS_Subset
  <2>3. Cardinality(Upto(m)) \in Nat
    BY <2>2, FS_CardinalityType
  <2>4. Cardinality(Upto(m)) # 0
    BY <2>1, <2>2, FS_EmptySet
  <2> QED BY <2>2, <2>3, <2>4
<1>3. rank \in [S -> N]
  BY <1>1, <1>2
<1>4. \A l, m \in S : rank[l] = rank[m] => l = m
  <2>1. \A l, m \in S : l < m => rank[l] # rank[m]
    <3> SUFFICES ASSUME NEW l \in S, NEW m \in S, l < m
                 PROVE  rank[l] # rank[m]
      OBVIOUS
    <3>0. l \in Int /\ m \in Int /\ \A j \in S : j \in Int
      OBVIOUS
    <3>5. m \notin Upto(l) /\ m \in Upto(m)
      BY <3>0
    <3>6. \A j \in Upto(l) : j \in Upto(m)
      BY <3>0
    <3>1. Upto(l) \in SUBSET Upto(m) /\ m \notin Upto(l) /\ m \in Upto(m)
      BY <3>5, <3>6
    <3> DEFINE A == Upto(l)
    <3> DEFINE B == Upto(m)
    <3>2. IsFiniteSet(B) /\ A \in SUBSET B /\ A # B
      BY <1>2, <3>1
    <3>3. rank[l] = Cardinality(A) /\ rank[m] = Cardinality(B)
      OBVIOUS
    <3> HIDE DEF A, B
    <3>4. Cardinality(A) # Cardinality(B)
      BY <3>2, FS_Subset
    <3> QED BY <3>3, <3>4
  <2>2. S \subseteq Int
    OBVIOUS
  <2> QED BY <2>1, <2>2
<1>5. rank \in Injection(S, N)
  BY <1>3, <1>4 DEF Injection, IsInjective
<1>6. IsFiniteSet(N) /\ Cardinality(N) = Cardinality(S)
  BY <1>1, FS_Interval
<1> HIDE DEF rank, N
<1>7. rank \in Surjection(S, N)
  BY <1>5, <1>6, FS_Injection
<1>8. \E m \in S : rank[m] = n
  BY <1>7 DEF Surjection, N
<1> QED
  BY <1>8 DEF Nth, Rank, rank

\* A row added by a statement, ticked.
LEMMA AddedRowFacts ==
    ASSUME NEW a \in Accounts, NEW d \in Int, NEW x \in Int, NEW v \in Int
    PROVE  [NewRow(a, d, x, "entry", v) EXCEPT !.cleared = TRUE] \in Transactions
<1>1. NewRow(a, d, x, "entry", v) \in Transactions
  BY DEF NewRow, Transactions
<1> QED
  BY <1>1 DEF Transactions

\* The table with the statement's ticks and its added lines.
LEMMA WithStatementFacts ==
    ASSUME IInv, statement # None, statement.account \in Accounts, NEW decide,
           NEW ids, decide \in Decisions(statement.lines, ids),
           \A i \in MatchedBy(decide) : Exists(i)
    PROVE  LET table == WithStatement(statement, decide)
           IN  /\ table \in Seq(RowOrNone)
               /\ Cardinality(AddedBy(decide)) \in Nat
               /\ \A i \in Ids : Exists(i) => /\ i \in DOMAIN table
                                              /\ table[i] \in Transactions
                                              /\ table[i].account = rows[i].account
<1> DEFINE s == statement
<1> DEFINE add == AddedBy(decide)
<1> DEFINE old == Unticked(s.account)
<1> DEFINE mine == [i \in Ids |-> IF i \in MatchedBy(decide) THEN [old[i] EXCEPT !.cleared = TRUE]
                                  ELSE old[i]]
<1> DEFINE line(n) == s.lines[Nth(add, n)]
<1> DEFINE new(n) == [NewRow(s.account, line(n).day, line(n).amount, "entry", revision + n)
                      EXCEPT !.cleared = TRUE]
<1> DEFINE added == [n \in 1 .. Cardinality(add) |-> new(n)]
<1>1. /\ s.lines \in Seq([day : Int, amount : Int])
      /\ Len(s.lines) \in Nat /\ DOMAIN s.lines = 1 .. Len(s.lines)
  <2>1. s.lines \in Seq([day : Int, amount : Int])
    BY DEF IInv, StatementRead
  <2> QED BY <2>1, LenProperties
<1>2. add \in SUBSET (1 .. Len(s.lines)) /\ Cardinality(add) \in Nat
  <2>1. add \in SUBSET (1 .. Len(s.lines))
    BY <1>1 DEF AddedBy, Decisions
  <2>2. IsFiniteSet(1 .. Len(s.lines))
    BY <1>1, FS_Interval
  <2> QED BY <2>1, <2>2, FS_Subset, FS_CardinalityType
<1>3. \A n \in 1 .. Cardinality(add) : line(n) \in [day : Int, amount : Int]
  <2> TAKE n \in 1 .. Cardinality(add)
  <2>1. Nth(add, n) \in 1 .. Len(s.lines)
    <3> HIDE DEF add
    <3> QED BY <1>1, <1>2, NthFacts
  <2> QED BY <1>1, <2>1, ElementOfSeq
<1>4. \A n \in 1 .. Cardinality(add) : new(n) \in RowOrNone
  <2> TAKE n \in 1 .. Cardinality(add)
  <2>1. revision + n \in Int
    BY <1>2 DEF IInv, TableOK
  <2>2. new(n) \in Transactions
    <3>1. line(n).day \in Int /\ line(n).amount \in Int /\ s.account \in Accounts
      BY <1>3
    <3> HIDE DEF line, s
    <3> QED BY <2>1, <3>1, AddedRowFacts
  <2> QED BY <2>2 DEF RowOrNone
<1>5. added \in Seq(RowOrNone)
  <2> HIDE DEF new
  <2>1. DOMAIN added = 1 .. Cardinality(add) /\ added = [n \in DOMAIN added |-> added[n]]
        /\ \A n \in 1 .. Cardinality(add) : added[n] \in RowOrNone
    BY <1>4
  <2> HIDE DEF added, add
  <2> QED BY <1>2, <2>1, TableFromRows
<1>6. /\ Len(rows) \in Nat /\ Ids = 1 .. Len(rows)
      /\ \A i \in Ids : rows[i] \in RowOrNone
      /\ \A i : Exists(i) => rows[i] \in Transactions
      /\ None \notin Transactions
  BY RowFacts DEF IInv
<1>7. \A i \in Ids : Exists(i) => old[i] \in Transactions /\ old[i].account = rows[i].account
  <2> TAKE i \in Ids
  <2> HAVE Exists(i)
  <2>1. old[i] = rows[i] \/ old[i] = [rows[i] EXCEPT !.cleared = FALSE]
    BY DEF Unticked
  <2>2. [rows[i] EXCEPT !.cleared = FALSE] \in Transactions
        /\ [rows[i] EXCEPT !.cleared = FALSE].account = rows[i].account
    BY <1>6 DEF Transactions
  <2> QED BY <1>6, <2>1, <2>2
<1>8. \A i \in Ids : ~Exists(i) => old[i] = None
  BY DEF Exists, Unticked
<1> HIDE DEF old
<1>9. \A i \in Ids : Exists(i) => mine[i] \in Transactions /\ mine[i].account = rows[i].account
  <2> TAKE i \in Ids
  <2> HAVE Exists(i)
  <2>1. [old[i] EXCEPT !.cleared = TRUE] \in Transactions
        /\ [old[i] EXCEPT !.cleared = TRUE].account = rows[i].account
    BY <1>7 DEF Transactions
  <2>2. mine[i] = old[i] \/ mine[i] = [old[i] EXCEPT !.cleared = TRUE]
    OBVIOUS
  <2> QED BY <1>7, <2>1, <2>2
<1>10. \A i \in Ids : ~Exists(i) => mine[i] = None
  BY <1>8
<1>11. mine \in Seq(RowOrNone) /\ DOMAIN mine = Ids
  <2>1. DOMAIN mine = 1 .. Len(rows) /\ mine = [i \in DOMAIN mine |-> mine[i]]
    BY <1>6
  <2>2. \A i \in 1 .. Len(rows) : mine[i] \in RowOrNone
    BY <1>6, <1>9, <1>10 DEF RowOrNone
  <2> HIDE DEF mine
  <2> QED BY <1>6, <2>1, <2>2, TableFromRows
<1>12. WithStatement(s, decide) = mine \o added
  BY DEF WithStatement, old
<1> HIDE DEF mine, added, add
<1>13. Len(mine) = Len(rows)
  BY <1>6, <1>11, LenProperties
<1>14. /\ mine \o added \in Seq(RowOrNone)
       /\ Len(mine \o added) = Len(mine) + Len(added)
       /\ \A i \in 1 .. Len(mine) + Len(added) : (mine \o added)[i] =
              IF i <= Len(mine) THEN mine[i] ELSE added[i - Len(mine)]
  BY <1>5, <1>11, ConcatProperties
<1>15. Len(added) \in Nat /\ DOMAIN (mine \o added) = 1 .. Len(mine \o added)
  BY <1>5, <1>14, LenProperties
<1>16. \A i \in Ids : i \in DOMAIN (mine \o added) /\ (mine \o added)[i] = mine[i]
  BY <1>6, <1>13, <1>14, <1>15
<1> QED
  BY <1>2, <1>9, <1>12, <1>14, <1>16 DEF add

LEMMA FinishStatementKeeps ==
    ASSUME IInv, statement # None, NEW b, NEW checked,
           NEW decide \in Decisions(statement.lines, Ids), FinishStatement(decide, b, checked)
    PROVE  IInv'
<1> DEFINE a == statement.account
<1> DEFINE table == WithStatement(statement, decide)
<1>1. /\ a \in accounts /\ MatchedBy(decide) \subseteq Candidates(a, statement.day)
      /\ rows' = Settle(table, Ticked(a, table))
      /\ revision' = revision + Cardinality(AddedBy(decide))
      /\ \E r : recons' = Append(recons, r)
      /\ statement' = None
      /\ UNCHANGED <<accounts, review, links, payments>>
  BY DEF FinishStatement, pairVars
<1>2. \A i \in MatchedBy(decide) : Exists(i)
  BY <1>1 DEF Candidates, LiveRows, Live
<1>3. /\ table \in Seq(RowOrNone)
      /\ Cardinality(AddedBy(decide)) \in Nat
      /\ \A i \in Ids : Exists(i) => /\ i \in DOMAIN table
                                     /\ table[i] \in Transactions
                                     /\ table[i].account = rows[i].account
  BY <1>1, <1>2, WithStatementFacts DEF IInv, TableOK
<1> HIDE DEF table, a
<1>4. TableOK
  BY DEF IInv
<1>5. /\ rows' \in Seq(RowOrNone) /\ DOMAIN rows' = DOMAIN table
      /\ \A i \in DOMAIN table :
             table[i] \in Transactions => rows'[i] \in Transactions
                                          /\ rows'[i].account = table[i].account
  BY <1>1, <1>3, <1>4, SettleFacts
<1>6. IsSeq(recons)'
  <2>1. PICK r : recons' = Append(recons, r)
    BY <1>1
  <2>2. IsSeq(Append(recons, r))
    BY <1>4, AppendKeepsSeq DEF TableOK
  <2> QED BY <2>1, <2>2 DEF IsSeq
<1>7. revision' \in Int /\ StatementRead'
  BY <1>1, <1>3, <1>4 DEF TableOK, StatementRead
<1>8. \A i \in Ids : Exists(i) => /\ i \in DOMAIN rows' /\ rows'[i] \in Transactions
                                  /\ rows'[i].account = rows[i].account
  BY <1>3, <1>5
<1> QED
  BY <1>1, <1>5, <1>6, <1>7, <1>8, TableKeepsPairs

(* -- The theorem ------------------------------------------------------------ *)

LEMMA InitHolds == Init => IInv
<1> SUFFICES ASSUME Init PROVE IInv
  OBVIOUS
<1>1. PICK table \in Tables : /\ rows = Imported(table.rows)
                              /\ revision = Len(table.rows)
                              /\ accounts = table.accounts
  BY DEF Init
<1> DEFINE given == table.rows
<1>2. given \in Seq([account : Accounts, day : Days, amount : Int]) /\ accounts \subseteq Accounts
  BY <1>1, TablesAssumption DEF TablesAssumption
<1> HIDE DEF given
<1>3. Len(given) \in Nat /\ DOMAIN given = 1 .. Len(given)
      /\ \A i \in DOMAIN given : given[i] \in [account : Accounts, day : Int, amount : Int]
  <2>1. [account : Accounts, day : Days, amount : Int]
        \subseteq [account : Accounts, day : Int, amount : Int]
    BY DEF Days
  <2> QED BY <1>2, <2>1, LenProperties
<1>4. rows = Imported(given) /\ revision = Len(given)
  BY <1>1 DEF given
<1>5. \A i \in 1 .. Len(given) : rows[i] \in Transactions
  BY <1>3, <1>4 DEF Imported, NewRow, Transactions
<1>6. DOMAIN rows = 1 .. Len(given) /\ rows = [i \in DOMAIN rows |-> rows[i]]
  BY <1>3, <1>4 DEF Imported
<1>7. rows \in Seq(RowOrNone)
  BY <1>3, <1>5, <1>6, TableFromRows DEF RowOrNone
<1>8. IsSeq(recons)
  BY DEF Init, IsSeq
<1>9. TableOK
  BY <1>2, <1>3, <1>4, <1>7, <1>8 DEF TableOK
<1> QED
  BY <1>9 DEF Init, IInv, PairsTyped, ReviewClear, StatementRead, OneOrigin, PairsIntact

LEMMA BalanceStepKeeps == IInv /\ BalanceStep => IInv'
<1> SUFFICES ASSUME IInv, BalanceStep PROVE IInv'
  OBVIOUS
<1>1. CASE RollForward \/ NextDay
  BY <1>1, BalanceCommandsKeep
<1>2. CASE \E a \in accounts, b \in Typed : SetStartingBalance(a, b) \/ Override(a, b)
  BY <1>2, BalanceCommandsKeep
<1>3. CASE \E ids \in SUBSET Ids, to \in accounts, inputs \in Confirmations :
               ReviewMove(ids, to, inputs)
  BY <1>3, ReviewMoveKeeps
<1>4. CASE CommitMove
  BY <1>4, CommitMoveKeeps
<1> QED
  BY <1>1, <1>2, <1>3, <1>4 DEF BalanceStep

LEMMA RowStepKeeps == IInv /\ today \in Int /\ RowStep => IInv'
<1> SUFFICES ASSUME IInv, today \in Int, RowStep PROVE IInv'
  OBVIOUS
<1>1. CASE \E a \in accounts, d \in {0, today}, x \in Amounts : CreateTransaction(a, d, x)
  <2>1. PICK a \in accounts, d \in {0, today}, x \in Amounts : CreateTransaction(a, d, x)
    BY <1>1
  <2> QED BY <2>1, CreateKeeps
<1>2. CASE \E i \in Ids, x \in Amounts : UpdateAmount(i, x)
  BY <1>2, UpdateAmountKeeps
<1>3. CASE \E i \in Ids, d \in Days : UpdateDate(i, d)
  BY <1>3, UpdateDateKeeps
<1>4. CASE \E i \in Ids : DeleteTransaction(i) \/ RestoreTransaction(i)
  BY <1>4, DeleteRestoreKeep
<1>5. CASE \E ids \in SUBSET Ids : FlipSigns(ids)
  BY <1>5, FlipKeeps
<1>6. CASE \E i \in Ids, to \in accounts : MoveOne(i, to)
  BY <1>6, MoveOneKeeps
<1> QED
  BY <1>1, <1>2, <1>3, <1>4, <1>5, <1>6 DEF RowStep

LEMMA PairStepKeeps == IInv /\ PairStep => IInv'
<1> SUFFICES ASSUME IInv, PairStep PROVE IInv'
  OBVIOUS
<1>1. CASE \E o, n \in Ids : LinkTransfer(o, n)
  BY <1>1, LinkKeeps
<1>2. CASE \E i \in Ids : UnlinkTransfer(i)
  BY <1>2, FewerLinksKeep
<1>3. CASE \E S : DismissCandidates(S) \/ RestoreCandidates(S)
  <2>1. UNCHANGED <<accounts, rows, revision, recons, review, statement, links, payments>>
    BY <1>3 DEF DismissCandidates, RestoreCandidates, otherVars
  <2> QED BY <2>1, ElsewhereKeeps
<1>4. CASE AutoLink
  BY <1>4, AutoLinkKeeps
<1>5. CASE \E l \in links : MarkReviewed(l)
  BY <1>5, FewerLinksKeep
<1>6. CASE \E i \in Ids, debt \in accounts, x \in Amounts : x > 0 /\ ApplyDebtPayment(i, debt, x)
  BY <1>6, ApplyPaymentKeeps
<1>7. CASE \E p \in payments : UnapplyDebtPayment(p)
  BY <1>7, UnapplyPaymentKeeps
<1>8. CASE \E a \in accounts : DeleteAccount(a)
  BY <1>8, DeleteAccountKeeps
<1> QED
  BY <1>1, <1>2, <1>3, <1>4, <1>5, <1>6, <1>7, <1>8 DEF PairStep

LEMMA ReconcileStepKeeps == IInv /\ ReconcileStep => IInv'
<1> SUFFICES ASSUME IInv, ReconcileStep PROVE IInv'
  OBVIOUS
<1>1. CASE \E i \in Ids, b \in BOOLEAN : Tick(i, b)
  BY <1>1, TickKeeps
<1>2. CASE \E a \in accounts, d \in Ends, b \in Typed : FinishManual(a, d, b)
  BY <1>2, FinishManualKeeps
<1>3. CASE \E a \in accounts, d \in Ends, lines \in Lines : ReviewStatement(a, d, lines)
  BY <1>3, ReviewStatementKeeps
<1>4. CASE /\ statement # None
           /\ \E decide \in Decisions(statement.lines, Ids), b \in Typed, checked \in BOOLEAN :
                  FinishStatement(decide, b, checked)
  BY <1>4, FinishStatementKeeps
<1> QED
  BY <1>1, <1>2, <1>3, <1>4 DEF ReconcileStep

\* The day is a number, and only moves on.
LEMMA TodayKept == today \in Int /\ [Next]_vars => today' \in Int
<1> SUFFICES ASSUME today \in Int, [Next]_vars PROVE today' \in Int
  OBVIOUS
<1>1. CASE BalanceStep
  BY <1>1 DEF BalanceStep, RollForward, NextDay, SetStartingBalance, Override, ReviewMove,
              CommitMove, otherVars
<1>2. CASE RowStep
  BY <1>2 DEF RowStep, CreateTransaction, UpdateAmount, UpdateDate, DeleteTransaction,
              RestoreTransaction, SetLive, ChangeRow, FlipSigns, MoveOne, otherVars
<1>3. CASE PairStep
  BY <1>3 DEF PairStep, LinkTransfer, UnlinkTransfer, DismissCandidates, RestoreCandidates,
              AutoLink, MarkReviewed, ApplyDebtPayment, UnapplyDebtPayment, DeleteAccount,
              otherVars
<1>4. CASE ReconcileStep
  BY <1>4 DEF ReconcileStep, Tick, FinishManual, ReviewStatement, FinishStatement, otherVars
<1>5. CASE UNCHANGED vars
  BY <1>5 DEF vars
<1> QED
  BY <1>1, <1>2, <1>3, <1>4, <1>5 DEF Next

LEMMA NextKeeps == IInv /\ today \in Int /\ [Next]_vars => IInv'
<1> SUFFICES ASSUME IInv, today \in Int, [Next]_vars PROVE IInv'
  OBVIOUS
<1>1. CASE UNCHANGED vars
  BY <1>1, ElsewhereKeeps DEF vars
<1> QED
  BY <1>1, BalanceStepKeeps, RowStepKeeps, PairStepKeeps, ReconcileStepKeeps DEF Next

\* Whatever a person does, in whatever order, a row is in one transfer at most, a transfer
\* joins two accounts' rows and both rows of an applied payment are there (transfers.rs,
\* transactions.rs, transaction_account_move.rs, accounts.rs).
THEOREM PairsStayIntact == Spec => []PairsIntact
<1>1. Init => IInv /\ today \in Int
  BY InitHolds DEF Init
<1>2. (IInv /\ today \in Int) /\ [Next]_vars => (IInv /\ today \in Int)'
  BY NextKeeps, TodayKept
<1>3. IInv => PairsIntact
  BY DEF IInv
<1> QED
  BY <1>1, <1>2, <1>3, PTL DEF Spec

(* -- Settled rows and records --------------------------------------------- *)

(* -- The inductive invariant ---------------------------------------------- *)

\* A settled row is listed by the record that settled it, which is its account's.
ListedByRecord ==
    \A i \in Ids : Exists(i) /\ rows[i].settled # 0 =>
        /\ rows[i].settled \in Records(rows[i].account)
        /\ i \in DOMAIN recons[rows[i].settled].settles

\* What a record lists are rows it settled, or ids that are used up.
RecordsListSettled ==
    \A k \in DOMAIN recons : \A i \in DOMAIN recons[k].settles :
        i \in Ids /\ (rows[i] = None \/ rows[i].settled = k)

OneRecordPerRow ==
    \A j, k \in DOMAIN recons :
        j # k => DOMAIN recons[j].settles \cap DOMAIN recons[k].settles = {}

SettledInv == ListedByRecord /\ RecordsListSettled /\ OneRecordPerRow

(* -- What leaves the marks alone ------------------------------------------- *)

\* A step that settles nothing: the records stay, a row that is settled after it was
\* settled before, in the same account, and a row that is there keeps its mark or goes.
LEMMA QuietKeeps ==
    ASSUME SettledInv, UNCHANGED recons,
           \A i \in Ids' : rows'[i] # None /\ rows'[i].settled # 0 =>
               /\ i \in Ids /\ rows[i] # None
               /\ rows'[i].settled = rows[i].settled
               /\ rows'[i].account = rows[i].account,
           \A i \in Ids : /\ i \in Ids'
                          /\ \/ rows'[i] = None
                             \/ rows[i] # None /\ rows'[i].settled = rows[i].settled
    PROVE  SettledInv'
<1>2. ListedByRecord'
  <2> SUFFICES ASSUME NEW i \in Ids', rows'[i] # None, rows'[i].settled # 0
               PROVE  /\ rows'[i].settled \in Records(rows'[i].account)
                      /\ i \in DOMAIN recons[rows'[i].settled].settles
    BY DEF ListedByRecord, Exists, Records
  <2>1. /\ i \in Ids /\ rows[i] # None
        /\ rows'[i].settled = rows[i].settled
        /\ rows'[i].account = rows[i].account
    OBVIOUS
  <2>2. /\ rows[i].settled \in Records(rows[i].account)
        /\ i \in DOMAIN recons[rows[i].settled].settles
    BY <2>1 DEF SettledInv, ListedByRecord, Exists
  <2> QED BY <2>1, <2>2
<1>3. RecordsListSettled'
  <2> SUFFICES ASSUME NEW k \in DOMAIN recons, NEW i \in DOMAIN recons[k].settles
               PROVE  i \in Ids' /\ (rows'[i] = None \/ rows'[i].settled = k)
    BY DEF RecordsListSettled
  <2>1. i \in Ids /\ (rows[i] = None \/ rows[i].settled = k)
    BY DEF SettledInv, RecordsListSettled
  <2> QED BY <2>1
<1>4. OneRecordPerRow'
  BY DEF SettledInv, OneRecordPerRow
<1> QED
  BY <1>2, <1>3, <1>4 DEF SettledInv

LEMMA SameRowsKeepMarks ==
    ASSUME SettledInv, UNCHANGED <<rows, recons>>
    PROVE  SettledInv'
BY DEF SettledInv, ListedByRecord, RecordsListSettled, OneRecordPerRow, Records, Exists, Ids

\* The update trigger does not touch the marks.
LEMMA UpdateKeepsMark ==
    ASSUME TableOK, NEW new, UpdateRows(new), NEW i \in DOMAIN new, i \in Ids,
           new[i] \in Transactions
    PROVE  rows'[i].settled = new[i].settled
<1>1. [new[i] EXCEPT !.rev = Stamp(new, i)].settled = new[i].settled
  BY DEF Transactions
<1>2. rows'[i] = [new[i] EXCEPT !.rev = Stamp(new, i)] \/ rows'[i] = new[i]
  BY DEF UpdateRows, Updated
<1> QED
  BY <1>1, <1>2

\* Rows may be changed in everything but their mark; settled ones not in their account.
LEMMA UpdateKeepsMarks ==
    ASSUME TableOK, SettledInv, UNCHANGED recons, NEW new, UpdateRows(new),
           \A i \in DOMAIN new : /\ Exists(i) /\ new[i] \in Transactions
                                 /\ new[i].settled = rows[i].settled
                                 /\ \/ new[i].account = rows[i].account
                                    \/ rows[i].settled = 0
    PROVE  SettledInv'
<1>1. DOMAIN new \subseteq Ids
  BY DEF Exists
<1>2. /\ Ids' = Ids
      /\ \A i \in Ids : i \notin DOMAIN new => rows'[i] = rows[i]
      /\ \A i \in DOMAIN new : rows'[i] \in Transactions /\ rows'[i].account = new[i].account
  BY <1>1, UpdateRowsFacts
<1>3. \A i \in DOMAIN new : rows'[i].settled = rows[i].settled
  BY <1>1, UpdateKeepsMark
<1>4. None \notin Transactions
  BY RowFacts
<1>5. \A i \in DOMAIN new : rows[i] # None /\ rows'[i] # None
  BY <1>2, <1>4 DEF Exists
<1>6. \A i \in Ids' : rows'[i] # None /\ rows'[i].settled # 0 =>
          /\ i \in Ids /\ rows[i] # None
          /\ rows'[i].settled = rows[i].settled
          /\ rows'[i].account = rows[i].account
  <2> SUFFICES ASSUME NEW i \in Ids, rows'[i] # None, rows'[i].settled # 0
               PROVE  /\ rows[i] # None
                      /\ rows'[i].settled = rows[i].settled
                      /\ rows'[i].account = rows[i].account
    BY <1>2
  <2>1. CASE i \in DOMAIN new
    BY <2>1, <1>2, <1>3, <1>5
  <2>2. CASE i \notin DOMAIN new
    BY <2>2, <1>2
  <2> QED BY <2>1, <2>2
<1>7. \A i \in Ids : /\ i \in Ids'
                     /\ \/ rows'[i] = None
                        \/ rows[i] # None /\ rows'[i].settled = rows[i].settled
  BY <1>2, <1>3, <1>5
<1> QED
  BY <1>6, <1>7, QuietKeeps

(* -- Rows and moves --------------------------------------------------------- *)

\* A new row is not settled.
LEMMA InsertKeepsMarks ==
    ASSUME TableOK, SettledInv, UNCHANGED recons,
           NEW a \in Accounts, NEW d \in Int, NEW x \in Int,
           NEW what \in {"entry", "payment"}, InsertRow(a, d, x, what)
    PROVE  SettledInv'
<1>1. /\ Len(rows) \in Nat /\ Ids = 1 .. Len(rows) /\ Ids' = 1 .. Len(rows) + 1
      /\ \A i \in Ids : rows'[i] = rows[i]
  BY InsertRowFacts
<1> DEFINE r == NewRow(a, d, x, what, revision + 1)
<1>2. r.settled = 0
  BY DEF NewRow
<1>3. rows' = Append(rows, r)
  BY DEF InsertRow
<1> HIDE DEF r
<1>4. rows'[Len(rows) + 1] = r
  BY <1>3 DEF TableOK
<1>5. \A i \in Ids' : i \in Ids \/ i = Len(rows) + 1
  BY <1>1
<1>6. \A i \in Ids' : rows'[i] # None /\ rows'[i].settled # 0 =>
          /\ i \in Ids /\ rows[i] # None
          /\ rows'[i].settled = rows[i].settled
          /\ rows'[i].account = rows[i].account
  BY <1>1, <1>2, <1>4, <1>5
<1>7. \A i \in Ids : /\ i \in Ids'
                     /\ \/ rows'[i] = None
                        \/ rows[i] # None /\ rows'[i].settled = rows[i].settled
  BY <1>1
<1> QED
  BY <1>6, <1>7, QuietKeeps

\* What blocks a move: a settled row among others.
LEMMA MoveLeavesSettled ==
    ASSUME NEW ids, NEW to, Blockers(ids, to) = {}
    PROVE  \A i \in Effective(ids, to) : rows[i].settled = 0
BY DEF Blockers

LEMMA MoveKeepsMarks ==
    ASSUME IInv, SettledInv, UNCHANGED recons, NEW ids, NEW to \in accounts, NEW inputs,
           ApplyMove(ids, to, inputs), \A i \in ids : Live(i), Blockers(ids, to) = {}
    PROVE  SettledInv'
<1> DEFINE E == Effective(ids, to)
<1> DEFINE new == [i \in E |-> MovedRow(i, to)]
<1>1. UpdateRows(new)
  BY DEF ApplyMove
<1>2. \A i \in E : Exists(i) /\ rows[i] \in Transactions
  BY RowFacts DEF IInv, Effective, Live
<1>3. \A i \in E : MovedRow(i, to) \in Transactions
                   /\ MovedRow(i, to).settled = rows[i].settled
  BY <1>2 DEF MovedRow, Transactions, IInv, TableOK
<1>4. \A i \in E : rows[i].settled = 0
  BY MoveLeavesSettled
<1>5. DOMAIN new = E /\ \A i \in E : new[i] = MovedRow(i, to)
  OBVIOUS
<1> HIDE DEF new, E
<1>6. TableOK
  BY DEF IInv
<1> QED
  BY <1>1, <1>2, <1>3, <1>4, <1>5, <1>6, UpdateKeepsMarks

LEMMA CommitMoveKeepsMarks ==
    ASSUME IInv, SettledInv, CommitMove
    PROVE  SettledInv'
<1>1. UNCHANGED recons /\ review # None
  BY DEF CommitMove
<1> DEFINE Same == /\ review.to \in accounts
                   /\ \A i \in review.ids : Live(i)
                   /\ Token(review.ids, review.to, review.inputs) = review.token
<1>2. CASE Same
  <2>1. ApplyMove(review.ids, review.to, review.inputs)
    BY <1>2 DEF CommitMove
  <2>2. Token(review.ids, review.to, review.inputs).blockers = Blockers(review.ids, review.to)
    BY DEF Token
  <2>3. Blockers(review.ids, review.to) = {}
    BY <1>1, <1>2, <2>2 DEF IInv, ReviewClear
  <2> QED BY <1>1, <1>2, <2>1, <2>3, MoveKeepsMarks
<1>3. CASE ~Same
  <2>1. UNCHANGED rows
    BY <1>3 DEF CommitMove
  <2> QED BY <1>1, <2>1, SameRowsKeepMarks
<1> QED
  BY <1>2, <1>3

LEMMA MoveOneKeepsMarks ==
    ASSUME IInv, SettledInv, NEW i, NEW to, MoveOne(i, to)
    PROVE  SettledInv'
<1>1. /\ to \in accounts /\ Live(i) /\ ApplyMove({i}, to, <<"none">>)
      /\ Blockers({i}, to) = {} /\ UNCHANGED recons
  BY DEF MoveOne, CanCommit
<1>2. \A j \in {i} : Live(j)
  BY <1>1
<1> QED
  BY <1>1, <1>2, MoveKeepsMarks

LEMMA CreateKeepsMarks ==
    ASSUME IInv, SettledInv, NEW a \in accounts, NEW d \in Int, NEW x \in Amounts,
           CreateTransaction(a, d, x)
    PROVE  SettledInv'
<1>1. a \in Accounts /\ x \in Int
  BY LedgerAssumption DEF LedgerAssumption, IInv, TableOK
<1>2. InsertRow(a, d, x, "entry") /\ UNCHANGED recons
  BY DEF CreateTransaction, otherVars
<1> QED
  BY <1>1, <1>2, InsertKeepsMarks DEF IInv

\* Corrections, deletions, restorations and flipped signs keep account and mark.
LEMMA CorrectionsKeepMarks ==
    ASSUME IInv, SettledInv, UNCHANGED recons, NEW new, UpdateRows(new),
           \A i \in DOMAIN new : /\ Exists(i) /\ new[i] \in Transactions
                                 /\ new[i].settled = rows[i].settled
                                 /\ new[i].account = rows[i].account
    PROVE  SettledInv'
BY UpdateKeepsMarks DEF IInv

LEMMA UpdateAmountKeepsMarks ==
    ASSUME IInv, SettledInv, NEW i \in Ids, NEW x \in Amounts, UpdateAmount(i, x)
    PROVE  SettledInv'
<1> DEFINE new == [j \in {i} |-> [rows[j] EXCEPT !.amount = x]]
<1>1. Exists(i) /\ UpdateRows(new) /\ UNCHANGED recons
  BY DEF UpdateAmount, ChangeRow, otherVars
<1>2. rows[i] \in Transactions /\ x \in Int
  BY <1>1, RowFacts, LedgerAssumption DEF IInv, LedgerAssumption
<1>3. /\ DOMAIN new = {i} /\ new[i] \in Transactions /\ new[i].settled = rows[i].settled
      /\ new[i].account = rows[i].account
  BY <1>2 DEF Transactions
<1> HIDE DEF new
<1> QED
  BY <1>1, <1>3, CorrectionsKeepMarks

LEMMA UpdateDateKeepsMarks ==
    ASSUME IInv, SettledInv, NEW i \in Ids, NEW d \in Days, UpdateDate(i, d)
    PROVE  SettledInv'
<1> DEFINE new == [j \in {i} |-> [rows[j] EXCEPT !.day = d]]
<1>1. Exists(i) /\ UpdateRows(new) /\ UNCHANGED recons
  BY DEF UpdateDate, ChangeRow, otherVars
<1>2. rows[i] \in Transactions /\ d \in Int
  BY <1>1, RowFacts DEF IInv, Days
<1>3. /\ DOMAIN new = {i} /\ new[i] \in Transactions /\ new[i].settled = rows[i].settled
      /\ new[i].account = rows[i].account
  BY <1>2 DEF Transactions
<1> HIDE DEF new
<1> QED
  BY <1>1, <1>3, CorrectionsKeepMarks

LEMMA SetLiveKeepsMarks ==
    ASSUME IInv, SettledInv, NEW ids, NEW b \in BOOLEAN, \A i \in ids : Exists(i),
           SetLive(ids, b)
    PROVE  SettledInv'
<1> DEFINE new == [i \in ids |-> [rows[i] EXCEPT !.live = b]]
<1>1. UpdateRows(new) /\ UNCHANGED recons
  BY DEF SetLive, ChangeRow, otherVars
<1>2. \A i \in ids : rows[i] \in Transactions
  BY RowFacts DEF IInv
<1>3. DOMAIN new = ids
      /\ \A i \in ids : /\ new[i] \in Transactions /\ new[i].settled = rows[i].settled
                        /\ new[i].account = rows[i].account
  BY <1>2 DEF Transactions
<1> HIDE DEF new
<1> QED
  BY <1>1, <1>3, CorrectionsKeepMarks

LEMMA DeleteRestoreKeepMarks ==
    ASSUME IInv, SettledInv, NEW i, DeleteTransaction(i) \/ RestoreTransaction(i)
    PROVE  SettledInv'
<1>1. \A j \in {i} \cup Partner(i) : Exists(j)
  BY DEF DeleteTransaction, RestoreTransaction, Partner, Generated, Live, IInv, PairsIntact
<1>2. SetLive({i} \cup Partner(i), FALSE) \/ SetLive({i} \cup Partner(i), TRUE)
  BY DEF DeleteTransaction, RestoreTransaction
<1> QED
  BY <1>1, <1>2, SetLiveKeepsMarks

LEMMA FlipKeepsMarks ==
    ASSUME IInv, SettledInv, NEW ids, FlipSigns(ids)
    PROVE  SettledInv'
<1> DEFINE new == [i \in ids |-> [rows[i] EXCEPT !.amount = -@]]
<1>1. UpdateRows(new) /\ (\A i \in ids : Live(i)) /\ UNCHANGED recons
  BY DEF FlipSigns, otherVars
<1>2. \A i \in ids : Exists(i) /\ rows[i] \in Transactions
  BY <1>1, RowFacts DEF IInv, Live
<1>3. DOMAIN new = ids
      /\ \A i \in ids : /\ new[i] \in Transactions /\ new[i].settled = rows[i].settled
                        /\ new[i].account = rows[i].account
  BY <1>2 DEF Transactions
<1> HIDE DEF new
<1> QED
  BY <1>1, <1>2, <1>3, CorrectionsKeepMarks

(* -- Pairs ------------------------------------------------------------------ *)

LEMMA ApplyPaymentKeepsMarks ==
    ASSUME IInv, SettledInv, NEW i \in Ids, NEW debt \in accounts, NEW x \in Amounts,
           ApplyDebtPayment(i, debt, x)
    PROVE  SettledInv'
<1>1. Exists(i) /\ InsertRow(debt, rows[i].day, x, "payment") /\ UNCHANGED recons
  BY DEF ApplyDebtPayment, otherVars
<1>2. debt \in Accounts /\ x \in Int /\ rows[i].day \in Int
  BY <1>1, LedgerAssumption, RowFacts DEF LedgerAssumption, IInv, TableOK, Transactions
<1> QED
  BY <1>1, <1>2, InsertKeepsMarks DEF IInv

LEMMA UnapplyPaymentKeepsMarks ==
    ASSUME IInv, SettledInv, NEW p \in payments, UnapplyDebtPayment(p)
    PROVE  SettledInv'
<1> DEFINE g == p.generated
<1>1. UNCHANGED recons
  BY DEF UnapplyDebtPayment, otherVars
<1>2. CASE g \in LinkedRows \cup Sources
  <2>1. UNCHANGED rows
    BY <1>2 DEF UnapplyDebtPayment
  <2> QED BY <1>1, <2>1, SameRowsKeepMarks
<1>3. CASE g \notin LinkedRows \cup Sources
  <2>1. rows' = [rows EXCEPT ![g] = None]
    BY <1>3 DEF UnapplyDebtPayment
  <2>2. rows = [i \in Ids |-> rows[i]]
    <3>1. rows \in Seq(RowOrNone)
      BY DEF IInv, TableOK
    <3> QED BY <3>1, LenProperties DEF Ids
  <2>3. Ids' = Ids /\ \A i \in Ids : rows'[i] = IF i = g THEN None ELSE rows[i]
    BY <2>1, <2>2 DEF Ids
  <2>4. \A i \in Ids' : rows'[i] # None /\ rows'[i].settled # 0 =>
            /\ i \in Ids /\ rows[i] # None
            /\ rows'[i].settled = rows[i].settled
            /\ rows'[i].account = rows[i].account
    BY <2>3
  <2>5. \A i \in Ids : /\ i \in Ids'
                       /\ \/ rows'[i] = None
                          \/ rows[i] # None /\ rows'[i].settled = rows[i].settled
    BY <2>3
  <2> QED BY <1>1, <2>4, <2>5, QuietKeeps
<1> QED
  BY <1>2, <1>3

\* An account goes with its records and every row of its own: what stays of other
\* accounts is on their records.
LEMMA DeleteAccountKeepsMarks ==
    ASSUME SettledInv, NEW a, DeleteAccount(a)
    PROVE  SettledInv'
<1>1. /\ rows' = [i \in Ids |-> IF i \in Cascade(a) THEN None ELSE rows[i]]
      /\ recons' = [k \in DOMAIN recons |-> IF k \in Records(a) THEN NoRecord ELSE recons[k]]
  BY DEF DeleteAccount
<1>2. Ids' = Ids /\ \A i \in Ids : rows'[i] = IF i \in Cascade(a) THEN None ELSE rows[i]
  BY <1>1 DEF Ids
<1>3. /\ DOMAIN recons' = DOMAIN recons
      /\ \A k \in DOMAIN recons : k \notin Records(a) => recons'[k] = recons[k]
      /\ \A k \in DOMAIN recons : k \in Records(a) => DOMAIN recons'[k].settles = {}
  BY <1>1 DEF NoRecord
<1>4. ListedByRecord'
  <2> SUFFICES ASSUME NEW i \in Ids, rows'[i] # None, rows'[i].settled # 0
               PROVE  /\ rows'[i].settled \in DOMAIN recons'
                      /\ recons'[rows'[i].settled].account = rows'[i].account
                      /\ i \in DOMAIN recons'[rows'[i].settled].settles
    BY <1>2 DEF ListedByRecord, Exists, Records
  <2>1. i \notin Cascade(a) /\ rows'[i] = rows[i]
    BY <1>2
  <2>2. Exists(i) /\ rows[i].account # a
    BY <2>1 DEF Cascade, RowsOf, Exists
  <2>3. /\ rows[i].settled \in Records(rows[i].account)
        /\ i \in DOMAIN recons[rows[i].settled].settles
    BY <2>1, <2>2 DEF SettledInv, ListedByRecord
  <2>4. rows[i].settled \in DOMAIN recons /\ rows[i].settled \notin Records(a)
        /\ recons[rows[i].settled].account = rows[i].account
    BY <2>2, <2>3 DEF Records
  <2> QED BY <1>3, <2>1, <2>3, <2>4
<1>5. RecordsListSettled'
  <2> SUFFICES ASSUME NEW k \in DOMAIN recons, NEW i \in DOMAIN recons'[k].settles
               PROVE  i \in Ids /\ (rows'[i] = None \/ rows'[i].settled = k)
    BY <1>2, <1>3 DEF RecordsListSettled
  <2>1. recons'[k] = recons[k]
    BY <1>3
  <2>2. i \in Ids /\ (rows[i] = None \/ rows[i].settled = k)
    BY <2>1 DEF SettledInv, RecordsListSettled
  <2> QED BY <1>2, <2>2
<1>6. OneRecordPerRow'
  <2>1. \A k \in DOMAIN recons : DOMAIN recons'[k].settles \subseteq DOMAIN recons[k].settles
    BY <1>3
  <2> QED BY <1>3, <2>1 DEF SettledInv, OneRecordPerRow
<1> QED
  BY <1>4, <1>5, <1>6 DEF SettledInv

(* -- Reconciling ------------------------------------------------------------ *)

\* A finished statement settles rows of its account that no record has settled.
LEMMA FinishKeepsMarks ==
    ASSUME TableOK, SettledInv, NEW a, NEW table \in Seq(RowOrNone),
           \A i \in Ids : /\ i \in DOMAIN table
                          /\ rows[i] = None => table[i] = None
                          /\ rows[i] # None => /\ table[i] \in Transactions
                                               /\ table[i].account = rows[i].account
                                               /\ table[i].settled = rows[i].settled,
           \A i \in DOMAIN table \ Ids : table[i] # None => table[i].settled = 0,
           rows' = Settle(table, Ticked(a, table)),
           NEW r, r.account = a, DOMAIN r.settles = Ticked(a, table),
           recons' = Append(recons, r)
    PROVE  SettledInv'
<1> DEFINE n == Len(recons) + 1
<1> DEFINE ids == Ticked(a, table)
<1>1. /\ n \in Nat /\ n \notin DOMAIN recons /\ DOMAIN recons' = DOMAIN recons \cup {n}
      /\ \A k \in DOMAIN recons : recons'[k] = recons[k] /\ k # 0 /\ k # n
      /\ recons'[n] = r /\ n # 0
  <2>1. /\ recons \in Seq({recons[i] : i \in DOMAIN recons})
        /\ Len(recons) \in Nat /\ DOMAIN recons = 1 .. Len(recons)
    BY LenProperties DEF TableOK, IsSeq
  <2> DEFINE R == {recons[i] : i \in DOMAIN recons} \cup {r}
  <2>2. recons \in Seq(R) /\ r \in R
    BY <2>1, SeqMonotonic
  <2> HIDE DEF R
  <2>3. /\ Len(recons') = Len(recons) + 1 /\ recons' \in Seq(R)
        /\ \A k \in 1 .. Len(recons) : recons'[k] = recons[k]
        /\ recons'[Len(recons) + 1] = r
    BY <2>2, AppendProperties
  <2>4. DOMAIN recons' = 1 .. Len(recons) + 1
    BY <2>3, LenProperties
  <2> QED BY <2>1, <2>3, <2>4
<1>2. None \notin Transactions
  BY RowFacts
<1>3. \A i \in ids : /\ i \in DOMAIN table /\ table[i] # None /\ table[i] \in Transactions
                     /\ table[i].account = a /\ table[i].settled = 0
  BY LenProperties DEF Ticked, RowOrNone
<1>4. /\ DOMAIN rows' = DOMAIN table
      /\ \A i \in DOMAIN table : i \notin ids => rows'[i] = table[i]
  BY DEF Settle
<1>5. \A i \in ids : rows'[i] # None /\ rows'[i].settled = n /\ rows'[i].account = a
  <2> TAKE i \in ids
  <2>1. rows'[i] = [table[i] EXCEPT !.settled = n]
    BY <1>3 DEF Settle
  <2>2. /\ [table[i] EXCEPT !.settled = n] \in Transactions
        /\ [table[i] EXCEPT !.settled = n].settled = n
        /\ [table[i] EXCEPT !.settled = n].account = a
    <3>1. table[i] \in Transactions /\ table[i].account = a /\ n \in Int
      BY <1>1, <1>3
    <3> HIDE DEF n, ids
    <3> QED BY <3>1, SMTT(20) DEF Transactions
  <2> QED BY <1>2, <2>1, <2>2
<1> HIDE DEF ids, n
<1>6. DOMAIN r.settles = ids
  BY DEF ids
<1>7. ListedByRecord'
  <2> SUFFICES ASSUME NEW i \in DOMAIN table, rows'[i] # None, rows'[i].settled # 0
               PROVE  /\ rows'[i].settled \in DOMAIN recons'
                      /\ recons'[rows'[i].settled].account = rows'[i].account
                      /\ i \in DOMAIN recons'[rows'[i].settled].settles
    BY <1>4 DEF ListedByRecord, Exists, Records, Ids
  <2>1. CASE i \in ids
    BY <2>1, <1>1, <1>5, <1>6
  <2>2. CASE i \notin ids
    <3>1. rows'[i] = table[i]
      BY <2>2, <1>4
    <3>2. i \in Ids /\ rows[i] # None
      BY <3>1
    <3>3. rows'[i].settled = rows[i].settled /\ rows'[i].account = rows[i].account
      BY <3>1, <3>2
    <3>4. /\ rows[i].settled \in Records(rows[i].account)
          /\ i \in DOMAIN recons[rows[i].settled].settles
      BY <3>2, <3>3 DEF SettledInv, ListedByRecord, Exists
    <3>5. rows[i].settled \in DOMAIN recons /\ recons[rows[i].settled].account = rows[i].account
      BY <3>4 DEF Records
    <3> QED BY <1>1, <3>3, <3>4, <3>5
  <2> QED BY <2>1, <2>2
<1>8. \A k \in DOMAIN recons : \A i \in DOMAIN recons[k].settles :
          i \in Ids /\ i \notin ids /\ (rows[i] = None \/ rows[i].settled = k)
  <2> TAKE k \in DOMAIN recons
  <2> TAKE i \in DOMAIN recons[k].settles
  <2>1. i \in Ids /\ (rows[i] = None \/ rows[i].settled = k)
    BY DEF SettledInv, RecordsListSettled
  <2>2. i \notin ids
    <3>1. CASE rows[i] = None
      BY <2>1, <3>1, <1>3
    <3>2. CASE rows[i] # None
      BY <2>1, <3>2, <1>1, <1>3
    <3> QED BY <3>1, <3>2
  <2> QED BY <2>1, <2>2
<1>9. RecordsListSettled'
  <2> SUFFICES ASSUME NEW k \in DOMAIN recons', NEW i \in DOMAIN recons'[k].settles
               PROVE  i \in DOMAIN table /\ (rows'[i] = None \/ rows'[i].settled = k)
    BY <1>4 DEF RecordsListSettled, Ids
  <2>1. CASE k \in DOMAIN recons
    <3>1. i \in Ids /\ i \notin ids /\ (rows[i] = None \/ rows[i].settled = k)
      BY <2>1, <1>1, <1>8
    <3>2. i \in DOMAIN table /\ rows'[i] = table[i]
      BY <3>1, <1>4
    <3> QED BY <3>1, <3>2
  <2>2. CASE k = n
    BY <2>2, <1>1, <1>3, <1>5, <1>6
  <2> QED BY <2>1, <2>2, <1>1
<1>10. OneRecordPerRow'
  <2> SUFFICES ASSUME NEW j \in DOMAIN recons', NEW k \in DOMAIN recons', j # k
               PROVE  DOMAIN recons'[j].settles \cap DOMAIN recons'[k].settles = {}
    BY DEF OneRecordPerRow
  <2>1. CASE j \in DOMAIN recons /\ k \in DOMAIN recons
    BY <2>1, <1>1 DEF SettledInv, OneRecordPerRow
  <2>2. CASE j = n /\ k \in DOMAIN recons
    BY <2>2, <1>1, <1>6, <1>8
  <2>3. CASE k = n /\ j \in DOMAIN recons
    BY <2>3, <1>1, <1>6, <1>8
  <2> QED BY <2>1, <2>2, <2>3, <1>1
<1> QED
  BY <1>7, <1>9, <1>10 DEF SettledInv

LEMMA TickKeepsMarks ==
    ASSUME IInv, SettledInv, NEW i \in Ids, NEW b \in BOOLEAN, Tick(i, b)
    PROVE  SettledInv'
<1>1. Exists(i) /\ rows' = [rows EXCEPT ![i].cleared = b] /\ UNCHANGED recons
  BY DEF Tick, otherVars
<1>2. rows[i] \in Transactions /\ rows[i] # None
  BY <1>1, RowFacts DEF IInv
<1> DEFINE r == [rows[i] EXCEPT !.cleared = b]
<1>3. r.settled = rows[i].settled /\ r.account = rows[i].account
  BY <1>2 DEF Transactions
<1>4. rows = [j \in Ids |-> rows[j]]
  <2>1. rows \in Seq(RowOrNone)
    BY DEF IInv, TableOK
  <2> QED BY <2>1, LenProperties DEF Ids
<1>5. rows' = [rows EXCEPT ![i] = r]
  BY <1>1
<1> HIDE DEF r
<1>6. Ids' = Ids /\ \A j \in Ids : rows'[j] = IF j = i THEN r ELSE rows[j]
  BY <1>4, <1>5 DEF Ids
<1>7. \A j \in Ids' : rows'[j] # None /\ rows'[j].settled # 0 =>
          /\ j \in Ids /\ rows[j] # None
          /\ rows'[j].settled = rows[j].settled
          /\ rows'[j].account = rows[j].account
  BY <1>2, <1>3, <1>6
<1>8. \A j \in Ids : /\ j \in Ids'
                     /\ \/ rows'[j] = None
                        \/ rows[j] # None /\ rows'[j].settled = rows[j].settled
  BY <1>2, <1>3, <1>6
<1> QED
  BY <1>1, <1>7, <1>8, QuietKeeps

LEMMA FinishManualKeepsMarks ==
    ASSUME IInv, SettledInv, NEW a, NEW d, NEW b, FinishManual(a, d, b)
    PROVE  SettledInv'
<1> DEFINE r == Record(a, d, StartFrom(a, d, b), StartFrom(a, d, b) + ChangeOf(a, Ticked(a, rows)),
                       None, Ticked(a, rows), rows)
<1>1. rows' = Settle(rows, Ticked(a, rows)) /\ recons' = Append(recons, r)
  BY DEF FinishManual
<1>2. r.account = a /\ DOMAIN r.settles = Ticked(a, rows)
  BY DEF Record
<1> HIDE DEF r
<1>3. rows \in Seq(RowOrNone) /\ TableOK
  BY DEF IInv, TableOK
<1>4. \A i \in Ids : rows[i] # None => rows[i] \in Transactions
  BY <1>3, RowFacts DEF Exists
<1> QED
  BY <1>1, <1>2, <1>3, <1>4, FinishKeepsMarks DEF Ids

\* A statement ticks rows and adds unsettled ones; it settles none of them yet.
LEMMA WithStatementMarks ==
    ASSUME TableOK, NEW s, NEW decide, Cardinality(AddedBy(decide)) \in Nat,
           \A i \in MatchedBy(decide) : Exists(i), WithStatement(s, decide) \in Seq(RowOrNone)
    PROVE  LET table == WithStatement(s, decide)
           IN  /\ \A i \in Ids : /\ i \in DOMAIN table
                                 /\ rows[i] = None => table[i] = None
                                 /\ rows[i] # None => table[i].settled = rows[i].settled
                                 /\ rows[i] # None => table[i].live = rows[i].live
                                 /\ i \notin MatchedBy(decide) =>
                                      table[i] = Unticked(s.account)[i]
               /\ \A i \in DOMAIN table \ Ids : table[i] # None => table[i].settled = 0
<1> DEFINE add == AddedBy(decide)
<1> DEFINE old == Unticked(s.account)
<1> DEFINE mine == [i \in Ids |-> IF i \in MatchedBy(decide) THEN [old[i] EXCEPT !.cleared = TRUE]
                                  ELSE old[i]]
<1> DEFINE line(n) == s.lines[Nth(add, n)]
<1> DEFINE new(n) == [NewRow(s.account, line(n).day, line(n).amount, "entry", revision + n)
                      EXCEPT !.cleared = TRUE]
<1> DEFINE added == [n \in 1 .. Cardinality(add) |-> new(n)]
<1>1. /\ Len(rows) \in Nat /\ Ids = 1 .. Len(rows)
      /\ \A i : Exists(i) => rows[i] \in Transactions
  BY RowFacts
<1>2. \A i \in Ids : rows[i] = None => old[i] = None
  BY DEF Unticked, Exists
<1>3. \A i \in Ids : rows[i] # None =>
          /\ old[i].settled = rows[i].settled /\ old[i].live = rows[i].live
          /\ old[i] \in Transactions
  <2> SUFFICES ASSUME NEW i \in Ids, rows[i] # None
               PROVE  /\ old[i].settled = rows[i].settled /\ old[i].live = rows[i].live
                      /\ old[i] \in Transactions
    OBVIOUS
  <2>1. old[i] = rows[i] \/ old[i] = [rows[i] EXCEPT !.cleared = FALSE]
    BY DEF Unticked
  <2>2. rows[i] \in Transactions
    BY <1>1 DEF Exists
  <2>3. /\ [rows[i] EXCEPT !.cleared = FALSE].settled = rows[i].settled
        /\ [rows[i] EXCEPT !.cleared = FALSE].live = rows[i].live
        /\ [rows[i] EXCEPT !.cleared = FALSE] \in Transactions
    BY <2>2 DEF Transactions
  <2> QED BY <2>1, <2>2, <2>3
<1> HIDE DEF old
<1>4. \A i \in Ids : rows[i] = None => mine[i] = None
  BY <1>2 DEF Exists
<1>5. \A i \in Ids : rows[i] # None => /\ mine[i].settled = rows[i].settled
                                       /\ mine[i].live = rows[i].live
  <2> SUFFICES ASSUME NEW i \in Ids, rows[i] # None
               PROVE  mine[i].settled = rows[i].settled /\ mine[i].live = rows[i].live
    OBVIOUS
  <2>1. /\ [old[i] EXCEPT !.cleared = TRUE].settled = old[i].settled
        /\ [old[i] EXCEPT !.cleared = TRUE].live = old[i].live
    BY <1>3 DEF Transactions
  <2>2. mine[i] = old[i] \/ mine[i] = [old[i] EXCEPT !.cleared = TRUE]
    OBVIOUS
  <2> QED BY <1>3, <2>1, <2>2
<1>6. \A n \in 1 .. Cardinality(add) : new(n).settled = 0
  <2> TAKE n \in 1 .. Cardinality(add)
  <2> DEFINE row == NewRow(s.account, line(n).day, line(n).amount, "entry", revision + n)
  <2>1. row.settled = 0 /\ DOMAIN row = {"account", "day", "amount", "what", "live", "rev",
                                         "cleared", "settled"}
    BY DEF NewRow
  <2> HIDE DEF row
  <2>2. [row EXCEPT !.cleared = TRUE].settled = 0
    BY <2>1
  <2> QED BY <2>2 DEF row
<1>7. WithStatement(s, decide) = mine \o added
  BY DEF WithStatement, old
<1>8. /\ DOMAIN mine = 1 .. Len(rows) /\ DOMAIN added = 1 .. Cardinality(add)
      /\ \A n \in 1 .. Cardinality(add) : added[n].settled = 0
  BY <1>1, <1>6
<1> DEFINE t == WithStatement(s, decide)
<1> DEFINE R == {mine[i] : i \in DOMAIN mine} \cup {added[n] : n \in DOMAIN added}
<1>9. mine \in Seq(R) /\ added \in Seq(R)
  <2>1. mine = [i \in DOMAIN mine |-> mine[i]] /\ added = [n \in DOMAIN added |-> added[n]]
    OBVIOUS
  <2> HIDE DEF mine, added
  <2>2. mine \in [1 .. Len(rows) -> R] /\ added \in [1 .. Cardinality(add) -> R]
    BY <1>8, <2>1
  <2> HIDE DEF R
  <2> QED BY <1>1, <2>2, SeqDef
<1> HIDE DEF mine, added, add, R
<1>10. /\ Len(mine) = Len(rows) /\ Len(added) = Cardinality(add)
       /\ Len(mine \o added) = Len(mine) + Len(added) /\ mine \o added \in Seq(R)
       /\ \A i \in 1 .. Len(mine) + Len(added) : (mine \o added)[i] =
              IF i <= Len(mine) THEN mine[i] ELSE added[i - Len(mine)]
  <2>1. Len(mine) = Len(rows) /\ Len(added) = Cardinality(add)
    BY <1>1, <1>8, <1>9, LenProperties DEF add
  <2> QED BY <1>9, <2>1, ConcatProperties
<1>11. /\ DOMAIN t = 1 .. Len(rows) + Cardinality(add)
       /\ \A i \in Ids : i \in DOMAIN t /\ t[i] = mine[i]
       /\ \A i \in DOMAIN t \ Ids : i - Len(rows) \in 1 .. Cardinality(add)
                                    /\ t[i] = added[i - Len(rows)]
  <2>1. DOMAIN t = 1 .. Len(rows) + Cardinality(add)
    BY <1>7, <1>10, LenProperties
  <2>2. Cardinality(add) \in Nat
    BY DEF add
  <2> HIDE DEF t
  <2> QED BY <1>1, <1>7, <1>10, <2>1, <2>2 DEF t
<1>12. \A i \in Ids : i \notin MatchedBy(decide) => mine[i] = Unticked(s.account)[i]
  BY DEF mine, old
<1> HIDE DEF t
<1> QED
  BY <1>4, <1>5, <1>8, <1>11, <1>12 DEF t

LEMMA FinishStatementKeepsMarks ==
    ASSUME IInv, SettledInv, statement # None, NEW b, NEW checked,
           NEW decide \in Decisions(statement.lines, Ids), FinishStatement(decide, b, checked)
    PROVE  SettledInv'
<1> DEFINE a == statement.account
<1> DEFINE table == WithStatement(statement, decide)
<1> DEFINE ids == Ticked(a, table)
<1>1. /\ a \in accounts /\ MatchedBy(decide) \subseteq Candidates(a, statement.day)
      /\ rows' = Settle(table, ids)
      /\ \E start, end, looked : recons' = Append(recons, Record(a, statement.day, start, end,
                                                                looked, ids, table))
  BY DEF FinishStatement
<1>2. \A i \in MatchedBy(decide) : Exists(i)
  BY <1>1 DEF Candidates, LiveRows, Live
<1>3. /\ table \in Seq(RowOrNone)
      /\ Cardinality(AddedBy(decide)) \in Nat
      /\ \A i \in Ids : Exists(i) => /\ i \in DOMAIN table
                                     /\ table[i] \in Transactions
                                     /\ table[i].account = rows[i].account
  BY <1>1, <1>2, WithStatementFacts DEF IInv, TableOK
<1>4. TableOK
  BY DEF IInv
<1>5. /\ \A i \in Ids : /\ i \in DOMAIN table
                        /\ rows[i] = None => table[i] = None
                        /\ rows[i] # None => table[i].settled = rows[i].settled
      /\ \A i \in DOMAIN table \ Ids : table[i] # None => table[i].settled = 0
  BY <1>2, <1>3, <1>4, WithStatementMarks
<1>6. PICK r : /\ recons' = Append(recons, r)
               /\ r.account = a /\ DOMAIN r.settles = ids
  <2>1. PICK start, end, looked : recons' = Append(recons, Record(a, statement.day, start, end,
                                                                looked, ids, table))
    BY <1>1
  <2> DEFINE r == Record(a, statement.day, start, end, looked, ids, table)
  <2>2. r.account = a /\ DOMAIN r.settles = ids
    <3> HIDE DEF a, ids, table
    <3> QED BY DEF Record
  <2> HIDE DEF r
  <2> QED BY <2>1, <2>2 DEF r
<1> HIDE DEF a, table
<1>7. \A i \in Ids : /\ i \in DOMAIN table
                     /\ rows[i] = None => table[i] = None
                     /\ rows[i] # None => /\ table[i] \in Transactions
                                          /\ table[i].account = rows[i].account
                                          /\ table[i].settled = rows[i].settled
  BY <1>3, <1>5 DEF Exists
<1> QED
  BY <1>1, <1>3, <1>4, <1>5, <1>6, <1>7, FinishKeepsMarks

(* -- The theorem ------------------------------------------------------------ *)

LEMMA InitUnsettled == Init => SettledInv
<1> SUFFICES ASSUME Init PROVE SettledInv
  OBVIOUS
<1>1. PICK table \in Tables : rows = Imported(table.rows)
  BY DEF Init
<1>2. \A i \in Ids : rows[i].settled = 0
  BY <1>1 DEF Imported, NewRow, Ids
<1>3. recons = <<>>
  BY DEF Init
<1>4. DOMAIN recons = {}
  BY <1>3
<1> QED
  BY <1>2, <1>4 DEF SettledInv, ListedByRecord, RecordsListSettled, OneRecordPerRow

LEMMA BalanceStepKeepsMarks == IInv /\ SettledInv /\ BalanceStep => SettledInv'
<1> SUFFICES ASSUME IInv, SettledInv, BalanceStep PROVE SettledInv'
  OBVIOUS
<1>1. CASE RollForward \/ NextDay
  <2>1. UNCHANGED <<rows, recons>>
    BY <1>1 DEF RollForward, NextDay, otherVars
  <2> QED BY <2>1, SameRowsKeepMarks
<1>2. CASE \E a \in accounts, b \in Typed : SetStartingBalance(a, b) \/ Override(a, b)
  <2>1. UNCHANGED <<rows, recons>>
    BY <1>2 DEF SetStartingBalance, Override, otherVars
  <2> QED BY <2>1, SameRowsKeepMarks
<1>3. CASE \E ids \in SUBSET Ids, to \in accounts, inputs \in Confirmations :
               ReviewMove(ids, to, inputs)
  <2>1. UNCHANGED <<rows, recons>>
    BY <1>3 DEF ReviewMove
  <2> QED BY <2>1, SameRowsKeepMarks
<1>4. CASE CommitMove
  BY <1>4, CommitMoveKeepsMarks
<1> QED
  BY <1>1, <1>2, <1>3, <1>4 DEF BalanceStep

LEMMA RowStepKeepsMarks == IInv /\ SettledInv /\ today \in Int /\ RowStep => SettledInv'
<1> SUFFICES ASSUME IInv, SettledInv, today \in Int, RowStep PROVE SettledInv'
  OBVIOUS
<1>1. CASE \E a \in accounts, d \in {0, today}, x \in Amounts : CreateTransaction(a, d, x)
  <2>1. PICK a \in accounts, d \in {0, today}, x \in Amounts : CreateTransaction(a, d, x)
    BY <1>1
  <2> QED BY <2>1, CreateKeepsMarks
<1>2. CASE \E i \in Ids, x \in Amounts : UpdateAmount(i, x)
  BY <1>2, UpdateAmountKeepsMarks
<1>3. CASE \E i \in Ids, d \in Days : UpdateDate(i, d)
  BY <1>3, UpdateDateKeepsMarks
<1>4. CASE \E i \in Ids : DeleteTransaction(i) \/ RestoreTransaction(i)
  BY <1>4, DeleteRestoreKeepMarks
<1>5. CASE \E ids \in SUBSET Ids : FlipSigns(ids)
  BY <1>5, FlipKeepsMarks
<1>6. CASE \E i \in Ids, to \in accounts : MoveOne(i, to)
  BY <1>6, MoveOneKeepsMarks
<1> QED
  BY <1>1, <1>2, <1>3, <1>4, <1>5, <1>6 DEF RowStep

LEMMA PairStepKeepsMarks == IInv /\ SettledInv /\ PairStep => SettledInv'
<1> SUFFICES ASSUME IInv, SettledInv, PairStep PROVE SettledInv'
  OBVIOUS
<1>1. CASE \E o, n, i, l, S : LinkTransfer(o, n) \/ UnlinkTransfer(i) \/ DismissCandidates(S)
                              \/ RestoreCandidates(S) \/ AutoLink \/ MarkReviewed(l)
  <2>1. UNCHANGED <<rows, recons>>
    BY <1>1 DEF LinkTransfer, UnlinkTransfer, DismissCandidates, RestoreCandidates, AutoLink,
                MarkReviewed, otherVars
  <2> QED BY <2>1, SameRowsKeepMarks
<1>2. CASE \E i \in Ids, debt \in accounts, x \in Amounts : x > 0 /\ ApplyDebtPayment(i, debt, x)
  BY <1>2, ApplyPaymentKeepsMarks
<1>3. CASE \E p \in payments : UnapplyDebtPayment(p)
  BY <1>3, UnapplyPaymentKeepsMarks
<1>4. CASE \E a \in accounts : DeleteAccount(a)
  BY <1>4, DeleteAccountKeepsMarks
<1> QED
  BY <1>1, <1>2, <1>3, <1>4 DEF PairStep

LEMMA ReconcileStepKeepsMarks == IInv /\ SettledInv /\ ReconcileStep => SettledInv'
<1> SUFFICES ASSUME IInv, SettledInv, ReconcileStep PROVE SettledInv'
  OBVIOUS
<1>1. CASE \E i \in Ids, b \in BOOLEAN : Tick(i, b)
  BY <1>1, TickKeepsMarks
<1>2. CASE \E a \in accounts, d \in Ends, b \in Typed : FinishManual(a, d, b)
  BY <1>2, FinishManualKeepsMarks
<1>3. CASE \E a \in accounts, d \in Ends, lines \in Lines : ReviewStatement(a, d, lines)
  <2>1. UNCHANGED <<rows, recons>>
    BY <1>3 DEF ReviewStatement
  <2> QED BY <2>1, SameRowsKeepMarks
<1>4. CASE /\ statement # None
           /\ \E decide \in Decisions(statement.lines, Ids), b \in Typed, checked \in BOOLEAN :
                  FinishStatement(decide, b, checked)
  BY <1>4, FinishStatementKeepsMarks
<1> QED
  BY <1>1, <1>2, <1>3, <1>4 DEF ReconcileStep

LEMMA NextKeepsMarks == IInv /\ SettledInv /\ today \in Int /\ [Next]_vars => SettledInv'
<1> SUFFICES ASSUME IInv, SettledInv, today \in Int, [Next]_vars PROVE SettledInv'
  OBVIOUS
<1>1. CASE UNCHANGED vars
  BY <1>1, SameRowsKeepMarks DEF vars
<1> QED
  BY <1>1, BalanceStepKeepsMarks, RowStepKeepsMarks, PairStepKeepsMarks,
     ReconcileStepKeepsMarks DEF Next

\* Whatever is corrected, moved, deleted, restored or reconciled, in whatever order: a
\* settled row is on the record that settled it, one of its own account, and no row is on
\* two records (transaction_account_move.rs, reconcile.rs, accounts.rs).
THEOREM RowsSettledOnce == Spec => []SettledOnce
<1>1. Init => IInv /\ SettledInv /\ today \in Int
  BY InitHolds, InitUnsettled DEF Init
<1>2. (IInv /\ SettledInv /\ today \in Int) /\ [Next]_vars
          => (IInv /\ SettledInv /\ today \in Int)'
  BY NextKeeps, NextKeepsMarks, TodayKept
<1>3. SettledInv => SettledOnce
  BY DEF SettledInv, ListedByRecord, OneRecordPerRow, SettledOnce
<1> QED
  BY <1>1, <1>2, <1>3, PTL DEF Spec

(* -- Statements settle what was shown --------------------------------------- *)

\* The review showed every row of its signature that a statement may settle.
ShownSigned ==
    statement # None =>
        \A i \in DOMAIN statement.signature[1] :
            LET signed == statement.signature[1][i]
            IN  signed.live /\ signed.settled = 0 /\ signed.day \in Near(statement.day) =>
                    /\ i \in DOMAIN statement.shown
                    /\ Fingerprint(statement.shown[i])
                           = <<statement.account, signed.day, signed.what, signed.amount>>

\* The rows of a signature, as it has them.
LEMMA SignedRows ==
    ASSUME NEW a, NEW i \in RowsOf(a)
    PROVE  LET signed == Signature(a)[1]
           IN  /\ i \in DOMAIN signed /\ DOMAIN signed = RowsOf(a)
               /\ signed[i].day = rows[i].day /\ signed[i].what = rows[i].what
               /\ signed[i].amount = rows[i].amount /\ signed[i].live = rows[i].live
               /\ signed[i].settled = rows[i].settled
BY DEF Signature

LEMMA SignedDomain == \A a : DOMAIN Signature(a)[1] = RowsOf(a)
BY DEF Signature

LEMMA ReviewShows ==
    ASSUME NEW a, NEW d, NEW lines, ReviewStatement(a, d, lines)
    PROVE  ShownSigned'
<1> DEFINE shown == [i \in Candidates(a, d) |-> rows[i]]
<1>1. /\ statement' = [account |-> a, day |-> d, lines |-> lines, signature |-> Signature(a),
                       shown |-> shown]
      /\ UNCHANGED rows
  BY DEF ReviewStatement
<1> SUFFICES ASSUME NEW i \in RowsOf(a), LET signed == Signature(a)[1][i]
                                         IN  /\ signed.live /\ signed.settled = 0
                                             /\ signed.day \in Near(d)
             PROVE  LET signed == Signature(a)[1][i]
                    IN  /\ i \in DOMAIN shown
                        /\ Fingerprint(shown[i])
                               = <<a, signed.day, signed.what, signed.amount>>
  BY <1>1, SignedDomain DEF ShownSigned, Fingerprint, Near, Covers, Days
<1>2. i \in Candidates(a, d) /\ rows[i].account = a
  BY SignedRows DEF Candidates, LiveRows, Live, RowsOf
<1> QED
  BY <1>2, SignedRows DEF Fingerprint

\* What is under review changes when a review begins and when its statement is finished.
LEMMA ReviewChanges ==
    ASSUME [Next]_vars
    PROVE  \/ UNCHANGED statement
           \/ \E a \in accounts, d \in Ends, lines \in Lines : ReviewStatement(a, d, lines)
           \/ /\ statement # None /\ statement' = None
              /\ \E decide \in Decisions(statement.lines, Ids), b \in Typed, checked \in BOOLEAN :
                     FinishStatement(decide, b, checked)
<1>1. CASE UNCHANGED vars
  BY <1>1 DEF vars
<1>2. CASE BalanceStep
  BY <1>2 DEF BalanceStep, RollForward, NextDay, SetStartingBalance, Override, ReviewMove,
              CommitMove, otherVars
<1>3. CASE RowStep
  BY <1>3 DEF RowStep, CreateTransaction, UpdateAmount, UpdateDate, DeleteTransaction,
              RestoreTransaction, SetLive, ChangeRow, FlipSigns, MoveOne, otherVars
<1>4. CASE PairStep
  BY <1>4 DEF PairStep, LinkTransfer, UnlinkTransfer, DismissCandidates, RestoreCandidates,
              AutoLink, MarkReviewed, ApplyDebtPayment, UnapplyDebtPayment, DeleteAccount,
              otherVars
<1>5. CASE \/ \E i \in Ids, b \in BOOLEAN : Tick(i, b)
           \/ \E a \in accounts, d \in Ends, b \in Typed : FinishManual(a, d, b)
  BY <1>5 DEF Tick, FinishManual, otherVars
<1>6. ASSUME statement # None,
             NEW decide \in Decisions(statement.lines, Ids), NEW b \in Typed,
             NEW checked \in BOOLEAN, FinishStatement(decide, b, checked)
      PROVE  statement' = None
  BY <1>6 DEF FinishStatement
<1> QED
  BY <1>1, <1>2, <1>3, <1>4, <1>5, <1>6 DEF Next, ReconcileStep

LEMMA ShownSignedKept == ShownSigned /\ [Next]_vars => ShownSigned'
<1> SUFFICES ASSUME ShownSigned, [Next]_vars PROVE ShownSigned'
  OBVIOUS
<1>1. CASE statement' = None
  BY <1>1 DEF ShownSigned
<1>2. CASE \E a \in accounts, d \in Ends, lines \in Lines : ReviewStatement(a, d, lines)
  BY <1>2, ReviewShows
<1>3. CASE UNCHANGED statement
  BY <1>3 DEF ShownSigned, Fingerprint, Near, Covers, Days
<1> QED
  BY <1>1, <1>2, <1>3, ReviewChanges

\* A record is appended, and settles the ticked rows of the statement's table.
LEMMA FinishAppends ==
    ASSUME IInv, statement # None, NEW b, NEW checked, NEW decide,
           FinishStatement(decide, b, checked)
    PROVE  DOMAIN recons'[Len(recons')].settles
               = Ticked(statement.account, WithStatement(statement, decide))
<1> DEFINE a == statement.account
<1> DEFINE table == WithStatement(statement, decide)
<1> DEFINE ids == Ticked(a, table)
<1>1. PICK start, end, looked : recons' = Append(recons, Record(a, statement.day, start, end,
                                                                looked, ids, table))
  BY DEF FinishStatement
<1> DEFINE r == Record(a, statement.day, start, end, looked, ids, table)
<1>2. DOMAIN r.settles = ids
  <2> HIDE DEF a, ids, table
  <2> QED BY DEF Record
<1> HIDE DEF r
<1>3. recons \in Seq({recons[i] : i \in DOMAIN recons})
  BY SeqMonotonic DEF IInv, TableOK, IsSeq
<1>4. recons'[Len(recons')] = r
  <2> DEFINE R == {recons[i] : i \in DOMAIN recons} \cup {r}
  <2>1. recons \in Seq(R) /\ r \in R
    BY <1>3, SeqMonotonic
  <2> HIDE DEF R
  <2>2. Len(Append(recons, r)) = Len(recons) + 1 /\ Append(recons, r)[Len(recons) + 1] = r
    BY <2>1, AppendProperties
  <2> QED BY <1>1, <2>2 DEF r
<1> QED
  BY <1>2, <1>4

LEMMA SettlesShown ==
    ASSUME IInv, ShownSigned, statement # None, NEW b, NEW checked,
           NEW decide \in Decisions(statement.lines, Ids), FinishStatement(decide, b, checked)
    PROVE  \A i \in DOMAIN recons'[Len(recons')].settles :
               \/ i > Len(rows)
               \/ i \in DOMAIN statement.shown
                  /\ Fingerprint(rows[i]) = Fingerprint(statement.shown[i])
<1> DEFINE a == statement.account
<1> DEFINE table == WithStatement(statement, decide)
<1>1. /\ a \in accounts /\ MatchedBy(decide) \subseteq Candidates(a, statement.day)
      /\ Signature(a) = statement.signature
  BY DEF FinishStatement
<1>2. \A i \in MatchedBy(decide) : Exists(i)
  BY <1>1 DEF Candidates, LiveRows, Live
<1>3. TableOK /\ a \in Accounts
  BY <1>1 DEF IInv, TableOK
<1>4. table \in Seq(RowOrNone) /\ Cardinality(AddedBy(decide)) \in Nat
  BY <1>2, <1>3, WithStatementFacts
<1>5. \A i \in Ids : /\ rows[i] = None => table[i] = None
                     /\ rows[i] # None => table[i].settled = rows[i].settled
                     /\ i \notin MatchedBy(decide) => table[i] = Unticked(a)[i]
  BY <1>2, <1>3, <1>4, WithStatementMarks
<1> HIDE DEF table
<1> SUFFICES ASSUME NEW i \in Ticked(a, table), ~(i > Len(rows))
             PROVE  i \in DOMAIN statement.shown
                    /\ Fingerprint(rows[i]) = Fingerprint(statement.shown[i])
  BY FinishAppends DEF table
<1>6. /\ i \in DOMAIN table /\ table[i] # None /\ table[i].account = a /\ table[i].live
      /\ table[i].cleared /\ table[i].settled = 0
  BY DEF Ticked
<1>7. i \in Ids
  <2>1. DOMAIN table = 1 .. Len(table) /\ Len(table) \in Nat
    BY <1>4, LenProperties
  <2> QED BY <1>3, <1>6, <2>1, RowFacts
<1>8. rows[i] # None /\ rows[i] \in Transactions
  BY <1>3, <1>5, <1>6, <1>7, RowFacts DEF Exists
<1>9. i \in MatchedBy(decide)
  <2> SUFFICES ASSUME i \notin MatchedBy(decide) PROVE FALSE
    OBVIOUS
  <2>1. table[i] = Unticked(a)[i]
    BY <1>5, <1>7
  <2>2. CASE rows[i].account = a /\ rows[i].settled = 0
    <3>1. table[i] = [rows[i] EXCEPT !.cleared = FALSE]
      BY <1>7, <1>8, <2>1, <2>2 DEF Unticked, Exists
    <3>2. [rows[i] EXCEPT !.cleared = FALSE].cleared = FALSE
      BY <1>8 DEF Transactions
    <3> QED BY <1>6, <3>1, <3>2
  <2>3. CASE ~(rows[i].account = a /\ rows[i].settled = 0)
    <3>1. table[i] = rows[i]
      BY <1>7, <2>1, <2>3 DEF Unticked
    <3> QED BY <1>6, <2>3, <3>1
  <2> QED BY <2>2, <2>3
<1>10. /\ i \in RowsOf(a) /\ rows[i].account = a
       /\ rows[i].live /\ rows[i].settled = 0 /\ rows[i].day \in Near(statement.day)
  BY <1>1, <1>9 DEF Candidates, LiveRows, Live, RowsOf
<1> DEFINE signed == statement.signature[1]
<1>11. /\ i \in DOMAIN signed
       /\ signed[i].day = rows[i].day /\ signed[i].what = rows[i].what
       /\ signed[i].amount = rows[i].amount /\ signed[i].live = rows[i].live
       /\ signed[i].settled = rows[i].settled
  <2>1. signed = Signature(a)[1] /\ i \in RowsOf(a)
    BY <1>1, <1>10
  <2> HIDE DEF signed, a
  <2> QED BY <2>1, SignedRows
<1> HIDE DEF signed
<1>12. /\ i \in DOMAIN statement.shown
       /\ Fingerprint(statement.shown[i]) = <<a, signed[i].day, signed[i].what, signed[i].amount>>
  BY <1>10, <1>11 DEF ShownSigned, signed
<1> QED
  BY <1>10, <1>11, <1>12 DEF Fingerprint

\* What a statement settles is what its review showed, unchanged since, or was added by it:
\* an edit between the review and the finish is noticed (finish_statement_reconciliation).
THEOREM StatementSettlesShown == Spec => SettlesWhatItShowed
<1>1. Init => IInv /\ today \in Int /\ ShownSigned
  BY InitHolds DEF Init, ShownSigned
<1>2. (IInv /\ today \in Int /\ ShownSigned) /\ [Next]_vars
          => (IInv /\ today \in Int /\ ShownSigned)'
  BY NextKeeps, ShownSignedKept, TodayKept
<1>3. IInv /\ today \in Int /\ ShownSigned /\ [Next]_vars =>
        [statement # None /\ recons' # recons /\ statement' = None =>
           \A i \in DOMAIN recons'[Len(recons')].settles :
               \/ i > Len(rows)
               \/ i \in DOMAIN statement.shown
                  /\ Fingerprint(rows[i]) = Fingerprint(statement.shown[i])]_vars
  <2> SUFFICES ASSUME IInv, ShownSigned, [Next]_vars,
                      statement # None, recons' # recons, statement' = None
               PROVE  \A i \in DOMAIN recons'[Len(recons')].settles :
                          \/ i > Len(rows)
                          \/ i \in DOMAIN statement.shown
                             /\ Fingerprint(rows[i]) = Fingerprint(statement.shown[i])
    OBVIOUS
  <2>1. ~\E a \in accounts, d \in Ends, lines \in Lines : ReviewStatement(a, d, lines)
    BY DEF ReviewStatement
  <2>2. \E decide \in Decisions(statement.lines, Ids), b \in Typed, checked \in BOOLEAN :
            FinishStatement(decide, b, checked)
    BY <2>1, ReviewChanges
  <2> QED BY <2>2, SettlesShown
<1> QED
  BY <1>1, <1>2, <1>3, PTL DEF Spec, SettlesWhatItShowed

(* -- The sides of a payment leave and come back together -------------------- *)

\* Rows that are there before and after a step stay deleted or not, as they were.
LiveKept == \A i \in Ids : rows[i] # None /\ rows'[i] # None => rows'[i].live = rows[i].live

LEMMA UpdateKeepsLive ==
    ASSUME TableOK, NEW new, UpdateRows(new), NEW i \in DOMAIN new, i \in Ids,
           new[i] \in Transactions
    PROVE  rows'[i].live = new[i].live
<1>1. [new[i] EXCEPT !.rev = Stamp(new, i)].live = new[i].live
  BY DEF Transactions
<1>2. rows'[i] = [new[i] EXCEPT !.rev = Stamp(new, i)] \/ rows'[i] = new[i]
  BY DEF UpdateRows, Updated
<1> QED
  BY <1>1, <1>2

LEMMA UpdatedLive ==
    ASSUME TableOK, NEW new, UpdateRows(new),
           \A i \in DOMAIN new : Exists(i) /\ new[i] \in Transactions
                                 /\ new[i].live = rows[i].live
    PROVE  LiveKept
<1>1. DOMAIN new \subseteq Ids
  BY DEF Exists
<1>2. \A i \in Ids : i \notin DOMAIN new => rows'[i] = rows[i]
  BY <1>1, UpdateRowsFacts
<1>3. \A i \in DOMAIN new : rows'[i].live = rows[i].live
  BY <1>1, UpdateKeepsLive
<1> QED
  BY <1>2, <1>3 DEF LiveKept

LEMMA MovedLive ==
    ASSUME IInv, NEW ids, NEW to \in accounts, NEW inputs, ApplyMove(ids, to, inputs),
           \A i \in ids : Live(i)
    PROVE  LiveKept
<1> DEFINE E == Effective(ids, to)
<1> DEFINE new == [i \in E |-> MovedRow(i, to)]
<1>1. UpdateRows(new)
  BY DEF ApplyMove
<1>2. \A i \in E : Exists(i) /\ rows[i] \in Transactions
  BY RowFacts DEF IInv, Effective, Live
<1>3. \A i \in E : MovedRow(i, to) \in Transactions /\ MovedRow(i, to).live = rows[i].live
  BY <1>2 DEF MovedRow, Transactions, IInv, TableOK
<1>4. DOMAIN new = E /\ \A i \in E : new[i] = MovedRow(i, to)
  OBVIOUS
<1> HIDE DEF new, E
<1> QED
  BY <1>1, <1>2, <1>3, <1>4, UpdatedLive DEF IInv

LEMMA BalanceStepLive ==
    ASSUME IInv, BalanceStep
    PROVE  LiveKept
<1>1. CASE UNCHANGED rows
  BY <1>1 DEF LiveKept
<1>2. CASE CommitMove /\ ~UNCHANGED rows
  <2>1. /\ review # None /\ review.to \in accounts /\ \A i \in review.ids : Live(i)
        /\ ApplyMove(review.ids, review.to, review.inputs)
    BY <1>2 DEF CommitMove
  <2> QED BY <2>1, MovedLive
<1> QED
  BY <1>1, <1>2 DEF BalanceStep, RollForward, NextDay, SetStartingBalance, Override, ReviewMove,
                    otherVars

\* Every command on rows but deleting and restoring.
LEMMA RowStepLive ==
    ASSUME IInv, today \in Int, RowStep
    PROVE  \/ LiveKept
           \/ \E i \in Ids : DeleteTransaction(i) \/ RestoreTransaction(i)
<1>1. TableOK /\ \A i : Exists(i) => rows[i] \in Transactions
  BY RowFacts DEF IInv
<1>2. CASE \E a \in accounts, d \in {0, today}, x \in Amounts : CreateTransaction(a, d, x)
  <2>1. PICK a \in accounts, d \in {0, today}, x \in Amounts : InsertRow(a, d, x, "entry")
    BY <1>2 DEF CreateTransaction
  <2>2. a \in Accounts /\ x \in Int /\ d \in Int
    BY LedgerAssumption DEF LedgerAssumption, IInv, TableOK
  <2> QED BY <1>1, <2>1, <2>2, InsertRowFacts DEF LiveKept
<1>3. ASSUME NEW i \in Ids, NEW x \in Amounts, UpdateAmount(i, x)
      PROVE  LiveKept
  <2> DEFINE new == [j \in {i} |-> [rows[j] EXCEPT !.amount = x]]
  <2>1. Exists(i) /\ UpdateRows(new) /\ x \in Int
    BY <1>3, LedgerAssumption DEF UpdateAmount, ChangeRow, LedgerAssumption
  <2>2. DOMAIN new = {i} /\ new[i] \in Transactions /\ new[i].live = rows[i].live
    BY <1>1, <2>1 DEF Transactions
  <2> HIDE DEF new
  <2> QED BY <1>1, <2>1, <2>2, UpdatedLive
<1>4. ASSUME NEW i \in Ids, NEW d \in Days, UpdateDate(i, d)
      PROVE  LiveKept
  <2> DEFINE new == [j \in {i} |-> [rows[j] EXCEPT !.day = d]]
  <2>1. Exists(i) /\ UpdateRows(new) /\ d \in Int
    BY <1>4 DEF UpdateDate, ChangeRow, Days
  <2>2. DOMAIN new = {i} /\ new[i] \in Transactions /\ new[i].live = rows[i].live
    BY <1>1, <2>1 DEF Transactions
  <2> HIDE DEF new
  <2> QED BY <1>1, <2>1, <2>2, UpdatedLive
<1>5. ASSUME NEW ids, FlipSigns(ids)
      PROVE  LiveKept
  <2> DEFINE new == [i \in ids |-> [rows[i] EXCEPT !.amount = -@]]
  <2>1. UpdateRows(new) /\ \A i \in ids : Exists(i)
    BY <1>5 DEF FlipSigns, Live
  <2>2. DOMAIN new = ids /\ \A i \in ids : /\ new[i] \in Transactions
                                           /\ new[i].live = rows[i].live
    BY <1>1, <2>1 DEF Transactions
  <2> HIDE DEF new
  <2> QED BY <1>1, <2>1, <2>2, UpdatedLive
<1>6. ASSUME NEW i, NEW to, MoveOne(i, to)
      PROVE  LiveKept
  <2>1. to \in accounts /\ Live(i) /\ ApplyMove({i}, to, <<"none">>)
    BY <1>6 DEF MoveOne
  <2>2. \A j \in {i} : Live(j)
    BY <2>1
  <2> QED BY <2>1, <2>2, MovedLive
<1> QED
  BY <1>2, <1>3, <1>4, <1>5, <1>6 DEF RowStep

LEMMA PairStepLive ==
    ASSUME IInv, PairStep
    PROVE  LiveKept
<1>1. /\ TableOK
      /\ \A i : Exists(i) => rows[i] \in Transactions
      /\ rows = [i \in Ids |-> rows[i]]
  <2>1. rows \in Seq(RowOrNone)
    BY DEF IInv, TableOK
  <2> QED BY <2>1, RowFacts, LenProperties DEF IInv, Ids
<1>2. CASE UNCHANGED rows
  BY <1>2 DEF LiveKept
<1>3. ASSUME NEW i \in Ids, NEW debt \in accounts, NEW x \in Amounts,
             ApplyDebtPayment(i, debt, x)
      PROVE  LiveKept
  <2>1. Exists(i) /\ InsertRow(debt, rows[i].day, x, "payment")
    BY <1>3 DEF ApplyDebtPayment
  <2>2. debt \in Accounts /\ x \in Int /\ rows[i].day \in Int
    BY <1>1, <2>1, LedgerAssumption DEF LedgerAssumption, IInv, TableOK, Transactions
  <2> QED BY <1>1, <2>1, <2>2, InsertRowFacts DEF LiveKept
<1>4. ASSUME NEW p \in payments, UnapplyDebtPayment(p)
      PROVE  LiveKept
  <2>1. UNCHANGED rows \/ rows' = [rows EXCEPT ![p.generated] = None]
    BY <1>4 DEF UnapplyDebtPayment
  <2>2. \A i \in Ids : rows'[i] = rows[i] \/ rows'[i] = None
    BY <1>1, <2>1
  <2> QED BY <2>2 DEF LiveKept
<1>5. ASSUME NEW a, DeleteAccount(a)
      PROVE  LiveKept
  <2>1. rows' = [i \in Ids |-> IF i \in Cascade(a) THEN None ELSE rows[i]]
    BY <1>5 DEF DeleteAccount
  <2> QED BY <2>1 DEF LiveKept
<1> QED
  BY <1>2, <1>3, <1>4, <1>5 DEF PairStep, LinkTransfer, UnlinkTransfer, DismissCandidates,
                                RestoreCandidates, AutoLink, MarkReviewed

\* Settling a table whose rows are deleted or not as they were.
LEMMA SettledLive ==
    ASSUME NEW table, NEW ids, rows' = Settle(table, ids),
           \A i \in Ids : /\ i \in DOMAIN table
                          /\ rows[i] = None => table[i] = None
                          /\ rows[i] # None => /\ table[i] \in Transactions
                                               /\ table[i].live = rows[i].live
    PROVE  LiveKept
<1> SUFFICES ASSUME NEW i \in Ids, rows[i] # None
             PROVE  rows'[i].live = rows[i].live
  BY DEF LiveKept
<1>1. rows'[i] = table[i] \/ rows'[i] = [table[i] EXCEPT !.settled = Len(recons) + 1]
  BY DEF Settle
<1>2. [table[i] EXCEPT !.settled = Len(recons) + 1].live = table[i].live
  BY DEF Transactions
<1> QED
  BY <1>1, <1>2

LEMMA ReconcileStepLive ==
    ASSUME IInv, ReconcileStep
    PROVE  LiveKept
<1>1. /\ TableOK
      /\ \A i \in Ids : rows[i] # None => rows[i] \in Transactions
      /\ rows = [i \in Ids |-> rows[i]]
  <2>1. rows \in Seq(RowOrNone)
    BY DEF IInv, TableOK
  <2> QED BY <2>1, RowFacts, LenProperties DEF IInv, Ids, Exists
<1>2. ASSUME NEW i \in Ids, NEW b \in BOOLEAN, Tick(i, b)
      PROVE  LiveKept
  <2> DEFINE r == [rows[i] EXCEPT !.cleared = b]
  <2>1. Exists(i) /\ rows' = [rows EXCEPT ![i] = r]
    BY <1>2 DEF Tick
  <2>2. r.live = rows[i].live
    BY <1>1, <2>1 DEF Transactions, Exists
  <2> HIDE DEF r
  <2>3. \A j \in Ids : rows'[j] = IF j = i THEN r ELSE rows[j]
    BY <1>1, <2>1
  <2> QED BY <2>2, <2>3 DEF LiveKept
<1>3. ASSUME NEW a, NEW d, NEW b, FinishManual(a, d, b)
      PROVE  LiveKept
  <2>1. rows' = Settle(rows, Ticked(a, rows))
    BY <1>3 DEF FinishManual
  <2> QED BY <1>1, <2>1, SettledLive DEF Ids
<1>4. ASSUME statement # None, NEW decide \in Decisions(statement.lines, Ids), NEW b,
             NEW checked, FinishStatement(decide, b, checked)
      PROVE  LiveKept
  <2> DEFINE table == WithStatement(statement, decide)
  <2>1. /\ statement.account \in accounts
        /\ MatchedBy(decide) \subseteq Candidates(statement.account, statement.day)
        /\ rows' = Settle(table, Ticked(statement.account, table))
    BY <1>4 DEF FinishStatement
  <2>2. \A i \in MatchedBy(decide) : Exists(i)
    BY <2>1 DEF Candidates, LiveRows, Live
  <2>3. /\ table \in Seq(RowOrNone)
        /\ Cardinality(AddedBy(decide)) \in Nat
        /\ \A i \in Ids : Exists(i) => i \in DOMAIN table /\ table[i] \in Transactions
    BY <1>4, <2>1, <2>2, WithStatementFacts DEF IInv, TableOK
  <2>4. \A i \in Ids : /\ i \in DOMAIN table
                       /\ rows[i] = None => table[i] = None
                       /\ rows[i] # None => table[i].live = rows[i].live
    BY <1>1, <2>2, <2>3, WithStatementMarks
  <2> HIDE DEF table
  <2> QED BY <2>1, <2>3, <2>4, SettledLive DEF Exists
<1>5. CASE UNCHANGED rows
  BY <1>5 DEF LiveKept
<1> QED
  BY <1>2, <1>3, <1>4, <1>5 DEF ReconcileStep, ReviewStatement

\* Of a payment that shares no row with another, a command on one side reaches the other.
LEMMA BothSides ==
    ASSUME NEW i, NEW p \in payments, OnlyPayment(p)
    PROVE  p.source \in {i} \cup Partner(i) <=> p.generated \in {i} \cup Partner(i)
<1>1. \A q \in payments : (\/ q.source \in {p.source, p.generated}
                           \/ q.generated \in {p.source, p.generated}) => q = p
  BY DEF OnlyPayment
<1>2. CASE i = p.source
  BY <1>2 DEF Partner, Generated
<1>3. CASE i = p.generated /\ i # p.source
  <2>1. Generated(i) = {}
    BY <1>1, <1>3 DEF Generated
  <2>2. p.source \in Partner(i)
    BY <1>3, <2>1 DEF Partner
  <2> QED BY <1>3, <2>2
<1>4. CASE i # p.generated /\ i # p.source
  <2>1. \A j \in Partner(i) : \E q \in payments :
            \/ q.source = i /\ q.generated = j
            \/ q.generated = i /\ q.source = j
    BY DEF Partner, Generated
  <2>2. p.source \notin Partner(i) /\ p.generated \notin Partner(i)
    BY <1>1, <1>4, <2>1
  <2> QED BY <1>4, <2>2
<1> QED
  BY <1>2, <1>3, <1>4

LEMMA SetLiveSets ==
    ASSUME IInv, NEW ids, NEW b \in BOOLEAN, \A i \in ids : Exists(i), SetLive(ids, b)
    PROVE  \A i \in Ids : IF i \in ids THEN rows'[i].live = b ELSE rows'[i] = rows[i]
<1> DEFINE new == [i \in ids |-> [rows[i] EXCEPT !.live = b]]
<1>1. UpdateRows(new) /\ TableOK
  BY DEF SetLive, ChangeRow, IInv
<1>2. \A i \in ids : rows[i] \in Transactions /\ i \in Ids
  BY <1>1, RowFacts
<1>3. DOMAIN new = ids /\ \A i \in ids : new[i] \in Transactions /\ new[i].live = b
  BY <1>2 DEF Transactions
<1> HIDE DEF new
<1>4. \A i \in Ids : i \notin ids => rows'[i] = rows[i]
  BY <1>1, <1>2, <1>3, UpdateRowsFacts
<1>5. \A i \in ids : rows'[i].live = b
  BY <1>1, <1>2, <1>3, UpdateKeepsLive
<1> QED
  BY <1>4, <1>5

LEMMA DeleteRestoreTogether ==
    ASSUME IInv, NEW i, DeleteTransaction(i) \/ RestoreTransaction(i),
           NEW p \in payments, OnlyPayment(p), rows[p.source].live = rows[p.generated].live
    PROVE  rows'[p.source].live # rows[p.source].live
             <=> rows'[p.generated].live # rows[p.generated].live
<1> DEFINE ids == {i} \cup Partner(i)
<1>1. \A j \in ids : Exists(j)
  BY DEF DeleteTransaction, RestoreTransaction, Partner, Generated, Live, IInv, PairsIntact
<1>2. PICK b \in BOOLEAN : SetLive(ids, b)
  BY DEF DeleteTransaction, RestoreTransaction
<1>3. p.source \in ids <=> p.generated \in ids
  BY BothSides
<1>4. p.source \in Ids /\ p.generated \in Ids
  BY DEF IInv, PairsIntact, Exists
<1> HIDE DEF ids
<1>5. \A j \in Ids : IF j \in ids THEN rows'[j].live = b ELSE rows'[j] = rows[j]
  BY <1>1, <1>2, SetLiveSets
<1>6. CASE p.source \in ids
  <2>1. rows'[p.source].live = b /\ rows'[p.generated].live = b
    BY <1>3, <1>4, <1>5, <1>6
  <2> QED BY <2>1
<1>7. CASE p.source \notin ids
  <2>1. rows'[p.source] = rows[p.source] /\ rows'[p.generated] = rows[p.generated]
    BY <1>3, <1>4, <1>5, <1>7
  <2> QED BY <2>1
<1> QED
  BY <1>6, <1>7

\* Whatever is deleted, restored, moved, corrected or reconciled: the two sides of a
\* payment that shares no row with another leave and come back together
\* (delete_transaction, restore_transaction, debt_payment_partner).
THEOREM SidesLeaveTogether == Spec => TwinsFollow
<1>1. Init => IInv /\ today \in Int
  BY InitHolds DEF Init
<1>2. (IInv /\ today \in Int) /\ [Next]_vars => (IInv /\ today \in Int)'
  BY NextKeeps, TodayKept
<1>3. IInv /\ today \in Int /\ IInv' /\ [Next]_vars =>
        [\A p \in payments \cap payments' :
           OnlyPayment(p) /\ rows[p.source].live = rows[p.generated].live
           => (rows'[p.source].live # rows[p.source].live
                 <=> rows'[p.generated].live # rows[p.generated].live)]_vars
  <2> SUFFICES ASSUME IInv, today \in Int, IInv', Next,
                      NEW p \in payments \cap payments',
                      OnlyPayment(p), rows[p.source].live = rows[p.generated].live
               PROVE  rows'[p.source].live # rows[p.source].live
                        <=> rows'[p.generated].live # rows[p.generated].live
    OBVIOUS
  <2>1. CASE LiveKept
    <3>1. /\ p.source \in Ids /\ rows[p.source] # None
          /\ p.generated \in Ids /\ rows[p.generated] # None
      BY DEF IInv, PairsIntact, Exists
    <3>2. rows'[p.source] # None /\ rows'[p.generated] # None
      BY DEF IInv, PairsIntact, Exists
    <3> QED BY <2>1, <3>1, <3>2 DEF LiveKept
  <2>2. CASE \E i \in Ids : DeleteTransaction(i) \/ RestoreTransaction(i)
    BY <2>2, DeleteRestoreTogether
  <2> QED
    BY <2>1, <2>2, BalanceStepLive, RowStepLive, PairStepLive, ReconcileStepLive DEF Next
<1> QED
  BY <1>1, <1>2, <1>3, PTL DEF Spec, TwinsFollow
==============================================================================
