-------------------------- MODULE MCProcessRunner --------------------------
(* ProcessRunner for TLC: one process, with and without a grace timeout.    *)
EXTENDS ProcessRunner

=============================================================================
