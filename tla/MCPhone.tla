-------------------------------- MODULE MCPhone --------------------------------
(* Two tabs of a phone, and a desktop with one profile at a time.               *)
EXTENDS Phone, TLC

CONSTANTS home, tabA, tabB

MCTabs == {tabA, tabB}
MCMaxOrders == ("tabs" :> 0) @@ ("pairing" :> 2) @@ ("desktop" :> 4)
MCMaxRemovals == ("tabs" :> 1) @@ ("pairing" :> 1) @@ ("desktop" :> 0)
\* Two things are under way at a time; only in one tab in the histories about the
\* desktop's commands.
Busy == {<<t, "refresh">> : t \in {u \in Tabs : refresh[u] # NoRefresh}}
        \cup {<<t, "user">> : t \in {u \in Tabs : user[u] # NoUser}}
TwoAtATime ==
    /\ scope = "desktop" => \A a, b \in Busy : a[1] = b[1]
    /\ scope = "pairing" => Cardinality(Busy) <= 2
    /\ scope # "desktop" => backup = None
    /\ scope # "tabs" => \A p \in Granted : names[p].sequence < 2
Symmetric == Permutations(MCTabs)
===============================================================================
