------------------------------ MODULE MCWebcmd ------------------------------
(* Webcmd for TLC: two requests, most of whose endpoints share a group.     *)
EXTENDS Webcmd, TLC

CONSTANTS q1, q2

Endpoint(gated, mode, async, timed, grace) ==
  [gated |-> gated, group |-> "g", mode |-> mode,
   async |-> async, timed |-> timed, grace |-> grace]

Queued == Endpoint(TRUE, "sequence", FALSE, FALSE, TRUE)
QueuedAsync == Endpoint(TRUE, "sequence", TRUE, FALSE, TRUE)
Single == Endpoint(TRUE, "single", FALSE, FALSE, FALSE)
SingleAsync == Endpoint(TRUE, "single", TRUE, TRUE, FALSE)
Unknown == Endpoint(TRUE, "unknown", FALSE, FALSE, FALSE)
Ungated == Endpoint(FALSE, "single", FALSE, FALSE, FALSE)

Both(e, f) == q1 :> e @@ q2 :> f

MCRequests == {q1, q2}

MCWorkloads ==
  {Both(Queued, SingleAsync), Both(QueuedAsync, Ungated), Both(Single, Unknown)}

=============================================================================
