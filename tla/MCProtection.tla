---------------------------- MODULE MCProtection ----------------------------
(* Model-checking instances of ProtectionLifecycle. *)
EXTENDS ProtectionWork, TLC

Symmetric == Permutations(Deks) \cup Permutations(Backups)
=============================================================================
