--------------------------- MODULE MCSequenceGate ---------------------------
(* SequenceGate for TLC.  The calls are model values; a liveness property   *)
(* is checked, so their symmetry is not used.                               *)
EXTENDS SequenceGate

=============================================================================
