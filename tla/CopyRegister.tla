----------------------------- MODULE CopyRegister -----------------------------
(* What the saved copies of a phone promise, whatever its tabs and its desktop *)
(* do: an attempt that began before a removal neither brings a copy back nor   *)
(* turns access on again; a copy is saved only while access is remembered, and *)
(* only over an older one of the same identity.                                 *)
EXTENDS Integers

CONSTANTS Ids, Attempts, Copies, None

VARIABLES copies, remembered, attempts

vars == <<copies, remembered, attempts>>

Newer(c, old) == old = None \/ (c.epoch = old.epoch /\ c.sequence > old.sequence)

Init == /\ copies \in [Ids -> Copies \cup {None}]
        /\ remembered \in BOOLEAN
        /\ attempts = {}

Begin(a) == attempts' = attempts \cup {a} /\ UNCHANGED <<copies, remembered>>
End(a)   == attempts' = attempts \ {a} /\ UNCHANGED <<copies, remembered>>

Save(a, id) ==
    /\ a \in attempts /\ remembered
    /\ copies'[id] \in Copies /\ Newer(copies'[id], copies[id])
    /\ copies' = [copies EXCEPT ![id] = copies'[id]]
    /\ UNCHANGED <<remembered, attempts>>

Remember(a) ==
    /\ a \in attempts
    /\ remembered' = TRUE
    /\ attempts' = attempts \ {a}
    /\ UNCHANGED copies

Remove(id) ==
    /\ copies' = [copies EXCEPT ![id] = None]
    /\ attempts' = {}
    /\ UNCHANGED remembered

Forget == /\ copies' = [id \in Ids |-> None]
          /\ remembered' = FALSE
          /\ attempts' = {}

Next == \/ \E a \in Attempts : Begin(a) \/ End(a) \/ Remember(a) \/ \E id \in Ids : Save(a, id)
        \/ \E id \in Ids : Remove(id)
        \/ Forget

Spec == Init /\ [][Next]_vars
===============================================================================
