----------------------------- MODULE GraceHttp -----------------------------
(***************************************************************************)
(* The life of the HTTP server, pkg/gracehttp/gracehttp.go: calls of Run   *)
(* and of Shutdown, the signals, and the goroutine that waits for a second *)
(* signal.  They share an atomic state, a sync.Once and the http.Server of *)
(* the standard library, of which the model has what Serve, Shutdown and   *)
(* Close promise: Shutdown closes the listener and waits for the open      *)
(* connections, Close drops them, and neither waits for the handlers of    *)
(* connections that were dropped.                                          *)
(*                                                                         *)
(* The server makes its own signal channel, as server.go has it do.  Each  *)
(* request has a connection of its own.                                    *)
(***************************************************************************)
EXTENDS Naturals

CONSTANTS
  Runs,        \* calls of Run
  Stops,       \* calls of Shutdown
  Requests,    \* HTTP requests
  MaxSignals   \* bound on the signals sent to the server

ASSUME MaxSignalsAssumption == MaxSignals \in Nat

ASSUME CallsAssumption == Runs \cap Stops = {}

VARIABLES
  state,      \* s.state
  requested,  \* shutdownOnce has run: shutdownCh is closed, appCtx cancelled
  listener,   \* s.ln
  signals,    \* the signals waiting in the channel
  sigSent,    \* how many were sent
  sigClosed,  \* Run returned and closed the channel
  killer,     \* the goroutine that waits for a second signal
  pc,         \* where each call of Run and Shutdown stands
  ret,        \* what it returned
  serve,      \* http.Server.Serve
  stopping,   \* http.Server: inShutdown
  forced,     \* http.Server: Close was called
  request     \* where each request stands

sigVars == <<signals, sigSent, sigClosed, killer>>
httpVars == <<serve, stopping, forced, request>>
vars == <<state, requested, listener, sigVars, pc, ret, httpVars>>

SigChanCapacity == 2

Calls == Runs \cup Stops
Pc == {"idle", "busy", "listen", "recheck", "wait", "load", "cas", "request",
       "shut", "drain", "force", "returned"}
Returns == {"none", "nil", "running", "shutdown", "listen", "serve", "grace"}

-----------------------------------------------------------------------------

Init ==
  /\ state = "new" /\ requested = FALSE /\ listener = "none"
  /\ signals = 0 /\ sigSent = 0 /\ sigClosed = FALSE /\ killer = "off"
  /\ pc = [c \in Calls |-> "idle"] /\ ret = [c \in Calls |-> "none"]
  /\ serve = "off" /\ stopping = FALSE /\ forced = FALSE
  /\ request = [q \in Requests |-> "new"]

Goto(c, l) == pc' = [pc EXCEPT ![c] = l] /\ UNCHANGED ret

Return(c, r) ==
  /\ pc' = [pc EXCEPT ![c] = "returned"]
  /\ ret' = [ret EXCEPT ![c] = r]

\* Run's deferred stopSig, once the channel is set up.
RunReturns(c, r) ==
  /\ Return(c, r)
  /\ sigClosed' = TRUE
  /\ UNCHANGED <<signals, sigSent, killer>>

-----------------------------------------------------------------------------
\* http.Server (external)

Live(q) == request[q] \in {"active", "dropped"}
NoneOpen == \A q \in Requests : request[q] # "active"

\* Serve refuses to start on a server that is shutting down.
ServeBegins ==
  /\ serve = "starting"
  /\ IF stopping THEN serve' = "closed" /\ listener' = "closed"
                 ELSE serve' = "accepting" /\ UNCHANGED listener
  /\ UNCHANGED <<state, requested, sigVars, pc, ret, stopping, forced, request>>

ServeEnds ==
  /\ serve = "accepting"
  /\ \/ stopping /\ serve' = "closed" /\ UNCHANGED listener
     \/ ~stopping /\ serve' = "failed" /\ listener' = "closed"
  /\ UNCHANGED <<state, requested, sigVars, pc, ret, stopping, forced, request>>

Accept(q) ==
  /\ serve = "accepting" /\ ~stopping
  /\ request[q] = "new"
  /\ request' = [request EXCEPT ![q] = "active"]
  /\ UNCHANGED <<state, requested, listener, sigVars, pc, ret, serve, stopping, forced>>

HandlerReturns(q) ==
  /\ Live(q)
  /\ request' = [request EXCEPT ![q] = "ended"]
  /\ UNCHANGED <<state, requested, listener, sigVars, pc, ret, serve, stopping, forced>>

\* The listener is known to the http.Server only while Serve runs.
HttpShutdownBegins ==
  /\ stopping' = TRUE
  /\ listener' = IF serve = "accepting" THEN "closed" ELSE listener
  /\ UNCHANGED <<serve, forced, request>>

HttpClose ==
  /\ stopping' = TRUE /\ forced' = TRUE
  /\ request' = [q \in Requests |-> IF request[q] = "active" THEN "dropped" ELSE request[q]]
  /\ UNCHANGED serve

-----------------------------------------------------------------------------
\* Run

\* checkState: the compare-and-swap, and if it fails the load.
CheckState(c) ==
  /\ pc[c] = "idle"
  /\ IF state = "new" THEN state' = "running" /\ Goto(c, "listen")
                      ELSE UNCHANGED state /\ Goto(c, "busy")
  /\ UNCHANGED <<requested, listener, sigVars, httpVars>>

CheckStateFails(c) ==
  /\ pc[c] = "busy"
  /\ Return(c, IF state = "shutdown" THEN "shutdown" ELSE "running")
  /\ UNCHANGED <<state, requested, listener, sigVars, httpVars>>

\* ensureListener and setupSignals.
Listen(c) ==
  /\ pc[c] = "listen"
  /\ \/ listener' = "open" /\ Goto(c, "recheck")
     \/ UNCHANGED listener /\ Return(c, "listen")
  /\ UNCHANGED <<state, requested, sigVars, httpVars>>

\* Shutdown may have been requested during setup.
Recheck(c) ==
  /\ pc[c] = "recheck"
  /\ \/ state = "shutdown" /\ RunReturns(c, "shutdown") /\ UNCHANGED serve
     \/ state # "shutdown" /\ Goto(c, "wait") /\ serve' = "starting" /\ UNCHANGED sigVars
  /\ UNCHANGED <<state, requested, listener, stopping, forced, request>>

\* waitForExit: the first signal ...
FirstSignal(c) ==
  /\ pc[c] = "wait" /\ signals > 0
  /\ signals' = signals - 1
  /\ Goto(c, "request")
  /\ UNCHANGED <<state, requested, listener, sigSent, sigClosed, killer, httpVars>>

\* ... or the end of Serve, for which a shutdown counts as a clean end.
SeeServeEnd(c) ==
  /\ pc[c] = "wait"
  /\ \/ serve = "closed" /\ RunReturns(c, "nil")
     \/ serve = "failed" /\ RunReturns(c, "serve")
  /\ UNCHANGED <<state, requested, listener, httpVars>>

\* A signal arrives; with the channel full it is lost.
Signal ==
  /\ sigSent < MaxSignals
  /\ ~sigClosed
  /\ \E c \in Runs : pc[c] \in {"recheck", "wait", "request", "shut", "drain", "force"}
  /\ sigSent' = sigSent + 1
  /\ signals' = IF signals < SigChanCapacity THEN signals + 1 ELSE signals
  /\ UNCHANGED <<state, requested, listener, sigClosed, killer, pc, ret, httpVars>>

\* The second signal, or the close of the channel when Run returns.
KillerWakes ==
  /\ killer = "waiting"
  /\ \/ signals > 0 /\ signals' = signals - 1
     \/ signals = 0 /\ sigClosed /\ UNCHANGED signals
  /\ killer' = "woken"
  /\ UNCHANGED <<state, requested, listener, sigSent, sigClosed, pc, ret, httpVars>>

KillerCloses ==
  /\ killer = "woken"
  /\ killer' = "done"
  /\ HttpClose
  /\ listener' = IF listener = "open" THEN "closed" ELSE listener
  /\ UNCHANGED <<state, requested, signals, sigSent, sigClosed, pc, ret>>

-----------------------------------------------------------------------------
\* Shutdown

\* Mutant: the first compare-and-swap is a plain load.
ShutdownLoadsRunning(c) ==
  /\ pc[c] = "idle"
  /\ IF state = "running" THEN UNCHANGED state /\ Goto(c, "request")
                          ELSE UNCHANGED state /\ Goto(c, "load")
  /\ UNCHANGED <<requested, listener, sigVars, httpVars>>

\* The first compare-and-swap, the load, the second compare-and-swap: the
\* state may change between any two of them.
ShutdownRunning(c) ==
  /\ pc[c] = "idle"
  /\ IF state = "running" THEN state' = "shutdown" /\ Goto(c, "request")
                          ELSE UNCHANGED state /\ Goto(c, "load")
  /\ UNCHANGED <<requested, listener, sigVars, httpVars>>

ShutdownLoad(c) ==
  /\ pc[c] = "load"
  /\ IF state = "shutdown" THEN Return(c, "shutdown") ELSE Goto(c, "cas")
  /\ UNCHANGED <<state, requested, listener, sigVars, httpVars>>

ShutdownNew(c) ==
  /\ pc[c] = "cas"
  /\ IF state = "new" THEN state' = "shutdown" /\ Goto(c, "request")
                      ELSE UNCHANGED state /\ Return(c, "shutdown")
  /\ UNCHANGED <<requested, listener, sigVars, httpVars>>

-----------------------------------------------------------------------------
\* What the signal path of Run and Shutdown have in common.

\* requestShutdown; Run starts the goroutine for the second signal as well.
RequestShutdown(c) ==
  /\ pc[c] = "request"
  /\ requested' = TRUE
  /\ killer' = IF c \in Runs THEN "waiting" ELSE killer
  /\ Goto(c, "shut")
  /\ UNCHANGED <<state, listener, signals, sigSent, sigClosed, httpVars>>

\* Mutant: the http.Server is not told.
ShutNothing(c) ==
  /\ pc[c] = "shut"
  /\ Goto(c, "drain")
  /\ UNCHANGED <<state, requested, listener, sigVars, httpVars>>

\* shutdown: httpServer.Shutdown begins, ...
Shut(c) ==
  /\ pc[c] = "shut"
  /\ HttpShutdownBegins
  /\ Goto(c, "drain")
  /\ UNCHANGED <<state, requested, sigVars>>

CallReturns(c, r) ==
  IF c \in Runs THEN RunReturns(c, r) ELSE Return(c, r) /\ UNCHANGED sigVars

\* Mutant: the connections are not waited for.
DrainedAtOnce(c) ==
  /\ pc[c] = "drain"
  /\ CallReturns(c, "nil")
  /\ UNCHANGED <<state, requested, listener, httpVars>>

\* ... sees no open connection, ...
Drained(c) ==
  /\ pc[c] = "drain" /\ NoneOpen
  /\ CallReturns(c, "nil")
  /\ UNCHANGED <<state, requested, listener, httpVars>>

\* Mutant: the grace period has no end.
GraceExpiresIfDrained(c) ==
  /\ pc[c] = "drain" /\ NoneOpen
  /\ Goto(c, "force")
  /\ UNCHANGED <<state, requested, listener, sigVars, httpVars>>

\* ... or runs out of time, after which the connections are dropped.
GraceExpires(c) ==
  /\ pc[c] = "drain"
  /\ Goto(c, "force")
  /\ UNCHANGED <<state, requested, listener, sigVars, httpVars>>

ForceClose(c) ==
  /\ pc[c] = "force"
  /\ HttpClose
  /\ listener' = IF serve = "accepting" THEN "closed" ELSE listener
  /\ CallReturns(c, "grace")
  /\ UNCHANGED <<state, requested>>

-----------------------------------------------------------------------------

RunStep(c) ==
  \/ CheckStateFails(c) \/ Listen(c) \/ Recheck(c) \/ FirstSignal(c) \/ SeeServeEnd(c)
StopStep(c) == ShutdownLoad(c) \/ ShutdownNew(c)
CommonStep(c) ==
  RequestShutdown(c) \/ Shut(c) \/ Drained(c) \/ GraceExpires(c) \/ ForceClose(c)

KillerStep == KillerWakes \/ KillerCloses
HttpStep == ServeBegins \/ ServeEnds \/ \E q \in Requests : Accept(q) \/ HandlerReturns(q)

Next ==
  \/ \E c \in Runs : CheckState(c) \/ RunStep(c)
  \/ \E c \in Stops : ShutdownRunning(c) \/ StopStep(c)
  \/ \E c \in Calls : CommonStep(c)
  \/ Signal \/ KillerStep \/ HttpStep

Spec == Init /\ [][Next]_vars

\* A call that was made runs on, timers fire, and Serve notices that its
\* listener was closed.  Nobody need call, no signal need come, and a handler
\* need not return.
Fairness ==
  /\ \A c \in Runs : WF_vars(RunStep(c))
  /\ \A c \in Stops : WF_vars(StopStep(c))
  /\ \A c \in Calls : WF_vars(CommonStep(c))
  /\ WF_vars(KillerStep)
  /\ WF_vars(ServeBegins)
  /\ WF_vars(stopping /\ ServeEnds)

FairSpec == Spec /\ Fairness

-----------------------------------------------------------------------------
\* Properties

TypeOK ==
  /\ state \in {"new", "running", "shutdown"}
  /\ requested \in BOOLEAN
  /\ listener \in {"none", "open", "closed"}
  /\ signals \in 0 .. SigChanCapacity /\ sigSent \in 0 .. MaxSignals
  /\ sigClosed \in BOOLEAN
  /\ killer \in {"off", "waiting", "woken", "done"}
  /\ pc \in [Calls -> Pc] /\ ret \in [Calls -> Returns]
  /\ serve \in {"off", "starting", "accepting", "closed", "failed"}
  /\ stopping \in BOOLEAN /\ forced \in BOOLEAN
  /\ request \in [Requests -> {"new", "active", "dropped", "ended"}]

\* One shutdown by call: of several calls of Shutdown at most one carries it
\* out, the others are told that it was done.
OneShutdown ==
  \A c, d \in Stops :
    /\ pc[c] \in {"request", "shut", "drain", "force"} \/ ret[c] \in {"nil", "grace"}
    /\ pc[d] \in {"request", "shut", "drain", "force"} \/ ret[d] \in {"nil", "grace"}
    => c = d

\* No request gets in after a call of Shutdown came back, whatever Run was
\* doing when it was called: not started, listening, or about to serve.
NoRequestAfterShutdown ==
  [][\A q \in Requests, c \in Stops :
       ret[c] \in {"nil", "grace"} /\ request[q] = "new" => request'[q] = "new"]_vars

\* When Shutdown returns nil no handler runs, unless connections were dropped
\* because of a second signal or an expired grace period; the same holds of a
\* Run that is stopped by signals alone, as it is in webcmd.
NilMeansDrained ==
  \A c \in Calls :
    ret[c] = "nil" /\ ~forced /\ (c \in Runs => \A d \in Stops : pc[d] = "idle")
      => \A q \in Requests : ~Live(q)

\* A signal stops Run within the grace period, whether or not the handlers
\* return, and so does a call of Shutdown.
RunStops ==
  \A c \in Runs :
    /\ pc[c] = "wait" /\ signals > 0 ~> pc[c] = "returned"
    /\ \A d \in Stops :
         pc[c] # "idle" /\ ret[d] \in {"nil", "grace"} ~> pc[c] = "returned"

\* Shutdown itself returns, within the grace period as well.
ShutdownReturns == \A c \in Stops : pc[c] # "idle" ~> pc[c] = "returned"

-----------------------------------------------------------------------------
\* The server does what its callers and its clients may rely on.

Shutting == {"request", "shut", "drain", "force"}

\* The call of Shutdown that carries the shutdown out, and the call of Run that
\* got the server: each changed the state, which the others then find changed.
Carries(c) == pc[c] \in Shutting \/ ret[c] \in {"nil", "grace"}

Serves(c) ==
  pc[c] \in {"listen", "recheck", "wait"} \cup Shutting \/ ret[c] \in {"nil", "serve", "grace"}

InCharge(c) ==
  \/ c \in Runs /\ Serves(c)
  \/ c \in Stops /\ Carries(c)

Carriers == {c \in Calls : InCharge(c)}

Serving ==
  CASE serve \in {"off", "starting"} -> "before"
    [] serve = "accepting" -> "open"
    [] OTHER -> "over"

Life == INSTANCE ServerLife WITH serving <- Serving, carriers <- Carriers

\* Whatever calls and signals meet: one Run has the server, one Shutdown ends it, a
\* server that was told to stop never opens again, and each call returns what became
\* of the server.
ImplementsServerLife == Life!Spec

=============================================================================
