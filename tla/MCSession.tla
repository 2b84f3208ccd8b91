------------------------------ MODULE MCSession ------------------------------
(* Model-checking instances of SessionRuntime. *)
EXTENDS SessionRuntime

\* Bound: the two clients change nothing the other reads, so histories in which
\* both are in flight are not followed further.
OneClient == refresh.pc = "idle" \/ phone.pc = "idle"
=============================================================================
