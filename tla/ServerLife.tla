----------------------------- MODULE ServerLife -----------------------------
(***************************************************************************)
(* What the callers of Run and Shutdown and the clients may rely on of the *)
(* server (the comments of Run and Shutdown in pkg/gracehttp/gracehttp.go, *)
(* and the errors they return): it serves once, in one call of Run; it is  *)
(* told to stop for good, by its Run or by one call of Shutdown; from then *)
(* on nobody gets in; and nil is returned when nobody is served any more.  *)
(* Signals, the atomic state, the listener and the goroutines are left to  *)
(* GraceHttp.                                                              *)
(***************************************************************************)
CONSTANTS Runs, Stops, Requests

VARIABLES
  serving,   \* before, while and after the server accepts requests
  stopping,  \* it was told to stop
  forced,    \* the open connections were dropped
  carriers,  \* the call of Run that has the server, that of Shutdown that ends it
  ret,       \* what the calls returned
  request    \* where each request stands

vars == <<serving, stopping, forced, carriers, ret, request>>

Calls == Runs \cup Stops

Init ==
  /\ serving = "before" /\ stopping = FALSE /\ forced = FALSE
  /\ carriers = {}
  /\ ret = [c \in Calls |-> "none"]
  /\ request = [q \in Requests |-> "new"]

Rival(c, d) == {c, d} \subseteq Runs \/ {c, d} \subseteq Stops

\* Of the calls of Run one may get the server, of those of Shutdown one may end it.
Take(c) ==
  /\ ret[c] = "none" /\ \A d \in carriers : ~Rival(c, d)
  /\ carriers' = carriers \cup {c}
  /\ UNCHANGED <<serving, stopping, forced, ret, request>>

Open ==
  /\ serving = "before" /\ ~stopping
  /\ serving' = "open"
  /\ UNCHANGED <<stopping, forced, carriers, ret, request>>

\* The server is over when it was told to stop, or by itself.
End ==
  /\ serving = "open" \/ stopping
  /\ serving' = "over"
  /\ UNCHANGED <<stopping, forced, carriers, ret, request>>

Accept(q) ==
  /\ serving = "open" /\ ~stopping /\ request[q] = "new"
  /\ request' = [request EXCEPT ![q] = "active"]
  /\ UNCHANGED <<serving, stopping, forced, carriers, ret>>

HandlerReturns(q) ==
  /\ request[q] \in {"active", "dropped"}
  /\ request' = [request EXCEPT ![q] = "ended"]
  /\ UNCHANGED <<serving, stopping, forced, carriers, ret>>

NoneOpen == \A q \in Requests : request[q] # "active"

Carrying(c) == c \in carriers /\ ret[c] = "none"

Stop(c) ==
  /\ Carrying(c)
  /\ stopping' = TRUE
  /\ UNCHANGED <<serving, forced, carriers, ret, request>>

Drop ==
  /\ stopping' = TRUE /\ forced' = TRUE
  /\ request' = [q \in Requests |-> IF request[q] = "active" THEN "dropped" ELSE request[q]]
  /\ UNCHANGED <<serving, carriers>>

Return(c, r) == ret[c] = "none" /\ ret' = [ret EXCEPT ![c] = r]

\* A second signal, after which the calls still go their ways ...
DropBySignal == Drop /\ UNCHANGED ret

\* ... or the end of the grace period.
DropAfterGrace(c) == Carrying(c) /\ Drop /\ Return(c, "grace")

\* Nobody is served any more.
ReturnDrained(c) ==
  /\ Carrying(c) /\ stopping /\ NoneOpen
  /\ Return(c, "nil")
  /\ UNCHANGED <<serving, stopping, forced, carriers, request>>

\* Run returns as soon as the server is over: with nil if it was told to stop.
ReturnServed(c) ==
  /\ c \in Runs /\ Carrying(c) /\ serving = "over"
  /\ Return(c, "serve") \/ (stopping /\ Return(c, "nil"))
  /\ UNCHANGED <<serving, stopping, forced, carriers, request>>

\* The call finds a server that runs already, was shut down or cannot listen.
ReturnEmpty(c) ==
  /\ \E r \in {"running", "shutdown", "listen"} : Return(c, r)
  /\ carriers' = carriers \ {c}
  /\ UNCHANGED <<serving, stopping, forced, request>>

Next ==
  \/ Open \/ End \/ DropBySignal
  \/ \E q \in Requests : Accept(q) \/ HandlerReturns(q)
  \/ \E c \in Calls :
       \/ Take(c) \/ Stop(c) \/ DropAfterGrace(c)
       \/ ReturnDrained(c) \/ ReturnServed(c) \/ ReturnEmpty(c)

Spec == Init /\ [][Next]_vars

=============================================================================
