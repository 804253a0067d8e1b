----------------------------- MODULE MCResponse -----------------------------
(* Response for TLC: every kind of request, outputs of up to five bytes.    *)
EXTENDS Response

=============================================================================
