------------------------------- MODULE MCLedger -------------------------------
(* Small ledgers: a bank account and a loan; two bank accounts for pairs; an   *)
(* investment account for statements.                                          *)
EXTENDS Ledger

CONSTANTS bank, loan, fund

MCAccounts == {bank, loan, fund}
MCAmounts == {-1, 2}
MCKind == (bank :> "cash") @@ (loan :> "loan") @@ (fund :> "investment")

Row(a, d, x) == [account |-> a, day |-> d, amount |-> x]
Table(s, as, typed, table) == [scope |-> s, accounts |-> as, typed |-> typed, rows |-> table]
MCTables ==
    {Table("all", {bank, loan}, <<>>, <<Row(bank, 1, -1)>>),
     Table("pairs", {bank, loan}, <<>>, <<Row(bank, 1, -1)>>),
     Table("balances", {bank, loan}, <<[account |-> bank, balance |-> 3]>>,
           <<Row(loan, 0, -1), Row(loan, 1, 2)>>),
     Table("pairs", {bank, fund}, <<>>, <<Row(bank, 1, -1), Row(fund, 0, 1)>>),
     Table("pairs", {bank, fund}, <<>>, <<Row(bank, 1, -1), Row(fund, 1, 1), Row(fund, 0, 1)>>)}
    \cup {Table("reconcile", {bank, fund}, <<>>, <<Row(q[1], q[2], 1), Row(q[1], 1, -1)>>) :
              q \in {<<bank, 0>>, <<fund, 2>>}}
MCMaxWork == ("balances" :> 2) @@ ("pairs" :> 4) @@ ("reconcile" :> 4) @@ ("all" :> 2)

Line(d, x) == [day |-> d, amount |-> x]
MCLines == {<<>>, <<Line(1, 1)>>, <<Line(1, 1), Line(1, -1)>>}
===============================================================================
