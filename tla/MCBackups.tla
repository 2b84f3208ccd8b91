----------------------------- MODULE MCBackups -----------------------------
(* Model-checking instances of Backups. *)
EXTENDS Backups, TLC

Symmetric == Permutations(Contents)
=============================================================================
