------------------------------- MODULE Webcmd -------------------------------
(***************************************************************************)
(* The program: cmd/main.go and pkg/server/server.go, which put the parts  *)
(* together.  Requests that GraceHttp serves get their gates from Registry *)
(* and run commands; signals, the clients and timeouts end contexts; the   *)
(* program stops, or crashes, and is started again, while the commands,    *)
(* which are processes of their own, live on.                              *)
(*                                                                         *)
(* Registry and GraceHttp are here with all their steps, and of processes  *)
(* there is Commands, which ProcessRunner implements.  Of a gate there is  *)
(* what CallGate and the properties of SingleGate and SequenceGate         *)
(* promise.  As ProcessRunner does when no descendant leaves its group, a  *)
(* context that ends ends the command, in the end.                         *)
(***************************************************************************)
EXTENDS Naturals, FiniteSets

CONSTANTS
  Requests,    \* HTTP requests
  Groups,      \* the names of the groups of call gates
  Workloads,   \* what the requests may ask for: endpoints for all of them
  MaxSignals,  \* bound on the signals sent to one run of the program
  MaxStarts    \* bound on the starts of the program

\* An endpoint: whether it has a call gate, of what group and mode, and whether
\* it is asynchronous, has a timeout, and has a grace termination timeout.
Endpoints == [gated : BOOLEAN, group : Groups, mode : {"single", "sequence", "unknown"},
              async : BOOLEAN, timed : BOOLEAN, grace : BOOLEAN]

ASSUME WorkloadsAssumption == Workloads \subseteq [Requests -> Endpoints]

ASSUME BoundsAssumption == MaxSignals \in Nat /\ MaxStarts \in Nat \ {0}

VARIABLES
  \* the program
  up,        \* it runs
  starts,    \* how often it was started
  notified,  \* main's signal context: SIGINT or SIGTERM
  \* pkg/gracehttp
  state, requested, listener, signals, sigSent, sigClosed, killer, pc, ret,
  serve, stopping, forced, request,
  \* pkg/callgate
  gates,     \* the registry's map
  lookup,    \* where each call of GetOrCreate stands
  got,       \* the gate each of them returned
  permit,    \* where each call of Acquire stands
  \* the requests and their commands
  kind,      \* the endpoint each request asks for; fixed
  handler,   \* where the handler stands
  cut,       \* the client is gone or the timeout expired
  \* pkg/processrunner, as Commands has it
  command, watched, termed

programVars == <<up, starts, notified>>
httpVars == <<state, requested, listener, signals, sigSent, sigClosed, killer, pc, ret,
              serve, stopping, forced, request>>
gateVars == <<gates, lookup, got, permit>>
requestVars == <<handler, cut, command, watched, termed>>
vars == <<programVars, httpVars, gateVars, kind, requestVars>>

Main == "main"

\* webcmd runs its server once and never calls Shutdown.
Http == INSTANCE GraceHttp WITH Runs <- {Main}, Stops <- {}

\* What each request asks of the registry.
Want == [q \in Requests |-> [group |-> kind[q].group, mode |-> kind[q].mode]]

Registry == INSTANCE Registry
  WITH Calls <- Requests, Modes <- {"single", "sequence", "unknown"},
       m <- gates, pc <- lookup, want <- Want

-----------------------------------------------------------------------------
\* Contexts and commands

\* The base context of the server: cancelled with main's, and at the start of a
\* shutdown.
ServerCtxDone == notified = "cancelled" \/ requested

RequestCtxDone(q) == cut[q] \/ ServerCtxDone

\* A synchronous command has the context of its request, an asynchronous one
\* its own.
CommandCtxDone(q) == IF kind[q].async THEN cut[q] ELSE RequestCtxDone(q)

Process == INSTANCE Commands
  WITH Calls <- Requests,
       grace <- [q \in Requests |-> kind[q].grace],
       ctxDone <- [q \in Requests |-> CommandCtxDone(q)]

-----------------------------------------------------------------------------

\* The signal context exists before the program begins to build its server.
Init ==
  /\ kind \in Workloads
  /\ up = TRUE /\ starts = 1 /\ notified = "no"
  /\ Http!Init /\ Registry!Init
  /\ permit = [q \in Requests |-> "idle"]
  /\ handler = [q \in Requests |-> "off"]
  /\ cut = [q \in Requests |-> FALSE]
  /\ Process!Init

-----------------------------------------------------------------------------
\* The program

\* os/signal gives SIGINT and SIGTERM to main's context as well as to the
\* server, SIGQUIT to the server alone.
Signal ==
  /\ up /\ Http!Signal
  /\ notified' \in {notified, IF notified = "no" THEN "signalled" ELSE notified}
  /\ UNCHANGED <<up, starts, gateVars, kind, requestVars>>

\* Before the server has set up its channel, and when it has given it up, only
\* main's context gets the signal.
SignalMainOnly ==
  /\ up /\ pc[Main] \in {"idle", "listen", "returned"} /\ sigSent < MaxSignals
  /\ sigSent' = sigSent + 1
  /\ notified' = IF notified = "no" THEN "signalled" ELSE notified
  /\ UNCHANGED <<up, starts, state, requested, listener, signals, sigClosed, killer, pc, ret,
                 serve, stopping, forced, request, gateVars, kind, requestVars>>

\* The goroutine of signal.NotifyContext.
CancelMain ==
  /\ up /\ notified = "signalled"
  /\ notified' = "cancelled"
  /\ UNCHANGED <<up, starts, httpVars, gateVars, kind, requestVars>>

\* All goroutines end with the program, and with them the server, its gates,
\* and whatever waits for a command.
ProgramEnds ==
  /\ up' = FALSE /\ notified' = "no"
  /\ state' = "new" /\ requested' = FALSE /\ listener' = "none"
  /\ signals' = 0 /\ sigSent' = 0 /\ sigClosed' = FALSE /\ killer' = "off"
  /\ pc' = [c \in {Main} |-> "idle"] /\ ret' = [c \in {Main} |-> "none"]
  /\ serve' = "off" /\ stopping' = FALSE /\ forced' = FALSE
  /\ request' = [q \in Requests |-> IF request[q] = "new" THEN "new" ELSE "ended"]
  /\ gates' = [g \in {} |-> {}] /\ got' = [q \in {} |-> {}]
  /\ lookup' = [q \in Requests |-> "idle"]
  /\ permit' = [q \in Requests |-> "idle"]
  /\ handler' = [q \in Requests |-> "off"]
  /\ cut' = [q \in Requests |-> FALSE]
  /\ Process!ProgramEnds
  /\ UNCHANGED <<starts, kind>>

\* main returns when Run does, whatever it returned.
Exit ==
  /\ up /\ pc[Main] = "returned"
  /\ ProgramEnds

\* The program is killed, or panics.
Crash ==
  /\ up /\ pc[Main] # "returned"
  /\ ProgramEnds

Start ==
  /\ ~up /\ starts < MaxStarts
  /\ up' = TRUE /\ starts' = starts + 1
  /\ UNCHANGED <<notified, httpVars, gateVars, kind, requestVars>>

ServerRuns ==
  /\ up
  /\ Http!CheckState(Main) \/ Http!RunStep(Main) \/ Http!CommonStep(Main)
  /\ UNCHANGED <<programVars, gateVars, kind, requestVars>>

KillerRuns ==
  /\ up /\ Http!KillerStep
  /\ UNCHANGED <<programVars, gateVars, kind, requestVars>>

ServeRuns ==
  /\ up
  /\ Http!ServeBegins \/ Http!ServeEnds
  /\ UNCHANGED <<programVars, gateVars, kind, requestVars>>

-----------------------------------------------------------------------------
\* Requests

\* The client goes away or the request times out; a started asynchronous
\* command has its own timeout, or none.
ContextEnds(q) ==
  /\ ~cut[q]
  /\ IF kind[q].async /\ watched[q] THEN kind[q].timed
                                    ELSE handler[q] \in {"lookup", "ask", "start", "run"}
  /\ cut' = [cut EXCEPT ![q] = TRUE]
  /\ UNCHANGED <<programVars, httpVars, gateVars, kind, handler, command, watched, termed>>

Goto(q, l) == handler' = [handler EXCEPT ![q] = l]

Permit(q, s) == permit' = [permit EXCEPT ![q] = s]

Accept(q) ==
  /\ up /\ Http!Accept(q)
  /\ Goto(q, IF kind[q].gated THEN "lookup" ELSE "start")
  /\ UNCHANGED <<programVars, gateVars, kind, cut, command, watched, termed>>

AfterLookUp(l) ==
  CASE l = "done" -> "ask" [] l = "failed" -> "reply" [] OTHER -> "lookup"

LookUp(q) ==
  /\ handler[q] = "lookup"
  /\ UNCHANGED kind
  /\ Registry!GetFactory(q) \/ Registry!ReadSection(q) \/ Registry!WriteSection(q)
  /\ Goto(q, AfterLookUp(lookup'[q]))
  /\ UNCHANGED <<programVars, httpVars, permit, cut, command, watched, termed>>

\* Mutant: a gate is held until the handler returns.
TakenByHandler(q) ==
  \E r \in Requests : permit[r] = "inside" /\ got[r] = got[q] /\ handler[r] # "off"

\* Another call has the permission of the gate.
Taken(q) == \E r \in Requests : permit[r] = "inside" /\ got[r] = got[q]

\* A free gate admits, without a look at the context.
Admit(q) ==
  /\ handler[q] = "ask" /\ ~Taken(q)
  /\ Permit(q, "inside")
  /\ Goto(q, "start")
  /\ UNCHANGED <<programVars, httpVars, gates, lookup, got, kind, cut, command, watched, termed>>

Queue(q) ==
  /\ handler[q] = "ask" /\ permit[q] = "idle" /\ got[q].mode = "sequence" /\ Taken(q)
  /\ Permit(q, "asking")
  /\ UNCHANGED <<programVars, httpVars, gates, lookup, got, kind, requestVars>>

\* Mutant: only a single gate looks at the context.
MayRefuseIfSingle(q) ==
  got[q].mode = "single" /\ (RequestCtxDone(q) \/ Taken(q))

\* A single gate refuses when it is taken; either gate may refuse a context that
\* is done, the sequence gate only a call that waits.
MayRefuse(q) ==
  \/ got[q].mode = "single" /\ (RequestCtxDone(q) \/ Taken(q))
  \/ permit[q] = "asking" /\ RequestCtxDone(q)

Refuse(q) ==
  /\ handler[q] = "ask" /\ MayRefuse(q)
  /\ Permit(q, "refused")
  /\ Goto(q, "reply")
  /\ UNCHANGED <<programVars, httpVars, gates, lookup, got, kind, cut, command, watched, termed>>

\* The release function, if there is a gate.
GiveBack(q) == IF kind[q].gated THEN Permit(q, "left") ELSE UNCHANGED permit

\* The start fails, or the command runs, and an asynchronous request is answered.
StartCommand(q) ==
  /\ handler[q] = "start"
  /\ \/ /\ GiveBack(q)
        /\ Goto(q, "reply")
        /\ UNCHANGED <<cut, command, watched, termed>>
     \/ /\ Process!Start(q)
        /\ Goto(q, IF kind[q].async THEN "reply" ELSE "run")
        /\ cut' = [cut EXCEPT ![q] = ~kind[q].async /\ cut[q]]
        /\ UNCHANGED permit
  /\ UNCHANGED <<programVars, httpVars, gates, lookup, got, kind>>

CommandEnds(q) ==
  /\ Process!Exit(q)
  /\ UNCHANGED <<programVars, httpVars, gateVars, kind, handler, cut>>

\* The terminator.
Terminate(q) ==
  /\ Process!SendTerm(q) \/ Process!SendKill(q)
  /\ UNCHANGED <<programVars, httpVars, gateVars, kind, handler, cut>>

\* The wait is over: the gate is given back, and a synchronous request answered.
WaitReturns(q) ==
  /\ Process!WaitReturns(q)
  /\ cut' = [cut EXCEPT ![q] = ~kind[q].async /\ cut[q]]
  /\ GiveBack(q)
  /\ IF kind[q].async THEN UNCHANGED handler ELSE Goto(q, "reply")
  /\ UNCHANGED <<programVars, httpVars, gates, lookup, got, kind>>

HandlerReturns(q) ==
  /\ handler[q] = "reply" /\ Http!HandlerReturns(q)
  /\ Goto(q, "off")
  /\ cut' = [cut EXCEPT ![q] = kind[q].async /\ watched[q] /\ cut[q]]
  /\ UNCHANGED <<programVars, gateVars, kind, command, watched, termed>>

-----------------------------------------------------------------------------

HandlerStep(q) ==
  \/ LookUp(q) \/ Admit(q) \/ Queue(q) \/ Refuse(q) \/ StartCommand(q) \/ HandlerReturns(q)

Next ==
  \/ Signal \/ SignalMainOnly \/ CancelMain \/ Exit \/ Crash \/ Start
  \/ ServerRuns \/ KillerRuns \/ ServeRuns
  \/ \E q \in Requests :
       \/ Accept(q) \/ HandlerStep(q) \/ ContextEnds(q)
       \/ CommandEnds(q) \/ Terminate(q) \/ WaitReturns(q)

Spec == Init /\ [][Next]_vars

ServerStep ==
  \/ CancelMain \/ Exit \/ ServerRuns \/ KillerRuns
  \/ (serve = "starting" \/ stopping) /\ ServeRuns

RequestStep(q) == HandlerStep(q) \/ Terminate(q) \/ WaitReturns(q)

\* The goroutines of a program that runs do run, timers fire, and Serve notices
\* that its listener was closed.  Nothing is assumed of signals, clients,
\* timeouts and commands, nor that the program crashes or is started again.
\* Of the steps that share a conjunct each happens a bounded number of times, so
\* that none of them can keep another waiting.
Fairness == WF_vars(ServerStep) /\ \A q \in Requests : WF_vars(RequestStep(q))

FairSpec == Spec /\ Fairness

-----------------------------------------------------------------------------
\* Properties

TypeOK ==
  /\ up \in BOOLEAN /\ starts \in 1 .. MaxStarts
  /\ notified \in {"no", "signalled", "cancelled"}
  /\ Http!TypeOK /\ Registry!TypeOK
  /\ permit \in [Requests -> {"idle", "asking", "inside", "refused", "left"}]
  /\ kind \in Workloads
  /\ handler \in [Requests -> {"off", "lookup", "ask", "start", "run", "reply"}]
  /\ cut \in [Requests -> BOOLEAN]
  /\ Process!TypeOK

\* Calls that name the same group get the same gate, also when several requests
\* find the group missing at once.
OneGatePerGroup == Registry!OneGatePerGroup

\* "only one execution at a time is allowed for the group" (README), whatever the
\* modes of the endpoints that share it, and for asynchronous commands too, long
\* after their requests were answered: of the commands that one run of the program
\* started.
OneCommandPerGroup ==
  \A q, r \in Requests :
    /\ q # r /\ kind[q].gated /\ kind[r].gated /\ kind[q].group = kind[r].group
    /\ watched[q] /\ watched[r]
    => ~(command[q] = "running" /\ command[r] = "running")

\* The commands of a group that run, whichever run of the program started them.
RunningIn(g) ==
  {q \in Requests : kind[q].gated /\ kind[q].group = g /\ command[q] = "running"}

\* Those that nobody waits for, and that no gate counts any more.
LeftBehind(g) == {q \in RunningIn(g) : ~watched[q]}

\* A program that runs never gives up a command before it ended, not when its
\* context is done, its request answered or its server stopped; only a program that
\* ends, or crashes, leaves commands behind, each time one of a group at most.  Its
\* next run knows nothing of them, and adds none to them.
OneLeftPerEnd ==
  \A g \in Groups :
    /\ IsFiniteSet(LeftBehind(g))
    /\ Cardinality(LeftBehind(g)) <= IF up THEN starts - 1 ELSE starts

\* As long as the program runs, the requests of a group see one call gate, as
\* CallGate describes it, whatever gates the registry made and the requests got;
\* a program that starts finds the gates of all groups free.
Permits(g) == [q \in Requests |-> IF kind[q].gated /\ kind[q].group = g THEN permit[q] ELSE "idle"]

GateOf(g) == INSTANCE CallGate WITH Calls <- Requests, status <- Permits(g)

GroupsAreCallGates ==
  /\ \A g \in Groups : GateOf(g)!Init
  /\ [][\A g \in Groups :
          IF up' THEN [GateOf(g)!Next]_(Permits(g)) ELSE GateOf(g)!Init']_vars

\* The commands of synchronous requests do not outlive a program that stops
\* cleanly, without a second signal and within the grace period.
CleanStopLeavesOnlyAsync ==
  pc[Main] = "returned" /\ ret[Main] = "nil" /\ ~forced =>
    \A q \in Requests : watched[q] => kind[q].async

\* A request whose context ends gets its answer, whatever it waits for: a gate
\* whose owner never leaves, a command that ignores SIGTERM, or one that was
\* started although the context was done; the shutdown ends all of them.
CancelledRequestsReturn ==
  \A q \in Requests :
    request[q] \in {"active", "dropped"} /\ RequestCtxDone(q) ~> request[q] = "ended"

\* "the first termination signal triggers a graceful shutdown" (comment of
\* gracehttp's Run).
SignalStopsProgram == notified # "no" ~> ~up

=============================================================================
