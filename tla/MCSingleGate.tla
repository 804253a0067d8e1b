---------------------------- MODULE MCSingleGate ----------------------------
(* SingleGate for TLC: the calls are model values.                          *)
EXTENDS SingleGate

=============================================================================
