----------------------------- MODULE MCExecutor -----------------------------
(* Executor for TLC: one request of each kind, with and without a gate.     *)
EXTENDS Executor

=============================================================================
