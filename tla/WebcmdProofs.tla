---------------------------- MODULE WebcmdProofs ----------------------------
(***************************************************************************)
(* Theorems about Webcmd, for any requests, groups and workloads, and any  *)
(* number of signals, crashes and starts.  What is proved of Registry and  *)
(* of GraceHttp is taken over: a step of Webcmd is a step of theirs, or    *)
(* leaves their variables alone, or ends the program.                      *)
(***************************************************************************)
EXTENDS Webcmd, FiniteSetTheorems, TLAPS

Lookups == INSTANCE RegistryProofs
  WITH Calls <- Requests, Modes <- {"single", "sequence", "unknown"},
       m <- gates, pc <- lookup, want <- Want

Server == INSTANCE GraceHttpProofs WITH Runs <- {Main}, Stops <- {}

-----------------------------------------------------------------------------
\* The inductive invariant.

\* A handler has the endpoint and the answer of the registry that its place
\* needs, and a request of its own.
HandlerInPlace ==
  \A q \in Requests :
    /\ handler[q] \in {"lookup", "ask"} => kind[q].gated
    /\ handler[q] \in {"ask", "start", "run"} /\ kind[q].gated => lookup[q] = "done"
    /\ handler[q] # "off" => Http!Live(q)

\* A command is waited for when its handler has started it, and a synchronous
\* one by the handler.
WatchFollowsHandler ==
  \A q \in Requests :
    /\ watched[q] => request[q] # "new" /\ handler[q] \in {"run", "reply", "off"}
    /\ watched[q] /\ ~kind[q].async => handler[q] = "run"

\* A permission is held for the whole command, and by one request of those that
\* have the same gate.
PermitCoversCommand ==
  /\ \A q \in Requests : permit[q] = "inside" => kind[q].gated /\ lookup[q] = "done"
  /\ \A q \in Requests :
       kind[q].gated /\ (handler[q] = "start" \/ watched[q]) => permit[q] = "inside"
  /\ \A q, r \in Requests :
       permit[q] = "inside" /\ permit[r] = "inside" /\ got[q] = got[r] => q = r

\* A request asks its gate once: it has not done so before its handler comes to it,
\* and it has no answer while the handler is still there.
PermitInPlace ==
  \A q \in Requests :
    /\ request[q] = "new" \/ handler[q] = "lookup" => permit[q] = "idle"
    /\ handler[q] = "ask" => permit[q] \in {"idle", "asking"}

\* Nothing is left of the requests when the program is down.
DownIsEmpty ==
  ~up => \A q \in Requests : handler[q] = "off" /\ permit[q] = "idle" /\ ~watched[q]

IInv ==
  /\ TypeOK
  /\ Lookups!IInv
  /\ Server!IInv
  /\ HandlerInPlace
  /\ WatchFollowsHandler
  /\ PermitCoversCommand
  /\ PermitInPlace
  /\ DownIsEmpty

LEMMA ServerAssumptions == Server!MaxSignalsAssumption /\ Server!CallsAssumption
BY BoundsAssumption DEF Server!MaxSignalsAssumption, Server!CallsAssumption

LEMMA KindIsEndpoint == TypeOK => kind \in [Requests -> Endpoints]
BY WorkloadsAssumption DEF TypeOK

-----------------------------------------------------------------------------
\* The server

LEMMA StepOfServer ==
  ASSUME Next
  PROVE  \/ Server!Next \/ UNCHANGED httpVars
         \/ SignalMainOnly \/ ProgramEnds
<1> USE DEF Http!Goto, Server!Goto, Http!Return, Server!Return, Http!RunReturns,
            Server!RunReturns, Http!CallReturns, Server!CallReturns, Http!sigVars,
            Server!sigVars, Http!httpVars, Server!httpVars
<1>1. Http!CheckState(Main) => Server!CheckState(Main)
  BY DEF Http!CheckState, Server!CheckState
<1>2. Http!RunStep(Main) => Server!RunStep(Main)
  BY DEF Http!RunStep, Server!RunStep, Http!CheckStateFails, Server!CheckStateFails,
         Http!Listen, Server!Listen, Http!Recheck, Server!Recheck, Http!FirstSignal,
         Server!FirstSignal, Http!SeeServeEnd, Server!SeeServeEnd
<1>3. Http!CommonStep(Main) => Server!CommonStep(Main)
  BY DEF Http!CommonStep, Server!CommonStep, Http!RequestShutdown, Server!RequestShutdown,
         Http!Shut, Server!Shut, Http!HttpShutdownBegins, Server!HttpShutdownBegins,
         Http!Drained, Server!Drained, Http!NoneOpen, Server!NoneOpen, Http!GraceExpires,
         Server!GraceExpires, Http!ForceClose, Server!ForceClose, Http!HttpClose,
         Server!HttpClose
<1>4. CASE ServerRuns
  <2>1. Main \in {Main} /\ Main \in {Main} \cup {}
    OBVIOUS
  <2> QED
    BY <1>1, <1>2, <1>3, <1>4, <2>1 DEF ServerRuns, Server!Next, Server!Calls
<1>5. CASE Signal
  <2>1. Http!Signal
    BY <1>5 DEF Signal
  <2>2. Server!Signal
    BY <2>1 DEF Http!Signal, Server!Signal, Http!SigChanCapacity, Server!SigChanCapacity
  <2> QED
    BY <2>2 DEF Server!Next
<1>6. CASE KillerRuns
  <2>1. Http!KillerStep
    BY <1>6 DEF KillerRuns
  <2>2. Server!KillerStep
    BY <2>1 DEF Http!KillerStep, Server!KillerStep, Http!KillerWakes, Server!KillerWakes,
       Http!KillerCloses, Server!KillerCloses, Http!HttpClose, Server!HttpClose
  <2> QED
    BY <2>2 DEF Server!Next
<1>7. CASE ServeRuns
  <2>1. Http!ServeBegins \/ Http!ServeEnds
    BY <1>7 DEF ServeRuns
  <2>2. Server!ServeBegins \/ Server!ServeEnds
    BY <2>1 DEF Http!ServeBegins, Server!ServeBegins, Http!ServeEnds, Server!ServeEnds
  <2> QED
    BY <2>2 DEF Server!Next, Server!HttpStep
<1>8. ASSUME NEW q \in Requests, Accept(q) \/ HandlerReturns(q) PROVE Server!Next
  <2>1. Http!Accept(q) \/ Http!HandlerReturns(q)
    BY <1>8 DEF Accept, HandlerReturns
  <2>2. Server!Accept(q) \/ Server!HandlerReturns(q)
    BY <2>1 DEF Http!Accept, Server!Accept, Http!HandlerReturns, Server!HandlerReturns,
       Http!Live, Server!Live
  <2> QED
    BY <2>2 DEF Server!Next, Server!HttpStep
<1>9. CASE CancelMain \/ Start
  BY <1>9 DEF CancelMain, Start
<1>10. ASSUME NEW q \in Requests,
              LookUp(q) \/ Admit(q) \/ Queue(q) \/ Refuse(q) \/ StartCommand(q) \/ ContextEnds(q)
              \/ CommandEnds(q) \/ Terminate(q) \/ WaitReturns(q)
       PROVE  UNCHANGED httpVars
  BY <1>10 DEF LookUp, Admit, Queue, Refuse, StartCommand, ContextEnds, CommandEnds, Terminate,
     WaitReturns
<1> QED
  BY <1>4, <1>5, <1>6, <1>7, <1>8, <1>9, <1>10 DEF Next, Exit, Crash, HandlerStep

LEMMA NextServer == ASSUME IInv, [Next]_vars PROVE Server!IInv'
<1>1. CASE Server!Next
  <2>1. [Server!Next]_(Server!vars)
    BY <1>1
  <2> QED
    BY <2>1, Server!NextIInv, ServerAssumptions DEF IInv
<1>2. CASE UNCHANGED httpVars
  <2>1. UNCHANGED Server!vars
    BY <1>2 DEF httpVars, Server!vars, Server!sigVars, Server!httpVars
  <2> QED
    BY <2>1, Server!NextIInv, ServerAssumptions DEF IInv
<1> USE DEF Server!IInv, Server!TypeOK, Server!CallsInOrder, Server!OneOfEach,
            Server!StoppingHasCause, Server!NilIsDrained, Server!Calls, Server!NoneOpen,
            Server!Told, Server!StopCalled, Server!Carries, Server!Serves, Server!Shutting
\* A signal that the server does not see is only counted.
<1>3. CASE SignalMainOnly
  <2>1. sigSent' \in 0 .. MaxSignals
    BY <1>3, BoundsAssumption DEF SignalMainOnly, IInv
  <2> QED
    BY <1>3, <2>1 DEF SignalMainOnly, IInv
<1>4. CASE ProgramEnds
  <2>1. /\ signals' \in 0 .. Server!SigChanCapacity /\ sigSent' \in 0 .. MaxSignals
        /\ pc' \in [Server!Calls -> Server!Pc] /\ ret' \in [Server!Calls -> Server!Returns]
    BY <1>4, BoundsAssumption DEF ProgramEnds, Server!SigChanCapacity, Server!Pc, Server!Returns
  <2>2. request' \in [Requests -> {"new", "ended"}]
    BY <1>4 DEF ProgramEnds
  <2>3. \A c \in {Main} : pc'[c] = "idle" /\ ret'[c] = "none"
    BY <1>4 DEF ProgramEnds
  <2> QED
    BY <1>4, <2>1, <2>2, <2>3 DEF ProgramEnds
<1> QED
  BY <1>1, <1>2, <1>3, <1>4, StepOfServer DEF vars

-----------------------------------------------------------------------------
\* The registry

LEMMA StepOfLookups ==
  ASSUME Next
  PROVE  ProgramEnds \/ (UNCHANGED kind /\ [Lookups!Next]_(Lookups!vars))
<1>1. ASSUME NEW q \in Requests, LookUp(q) PROVE UNCHANGED kind /\ Lookups!Next
  <2>1. Registry!GetFactory(q) \/ Registry!ReadSection(q) \/ Registry!WriteSection(q)
    BY <1>1 DEF LookUp
  <2>2. Lookups!GetFactory(q) \/ Lookups!ReadSection(q) \/ Lookups!WriteSection(q)
    BY <2>1 DEF Registry!GetFactory, Lookups!GetFactory, Registry!ReadSection,
       Lookups!ReadSection, Registry!WriteSection, Lookups!WriteSection, Registry!Goto,
       Lookups!Goto, Registry!Found, Lookups!Found, Registry!GateOf, Lookups!GateOf,
       Registry!Return, Lookups!Return, Registry!Create, Lookups!Create, Registry!With,
       Lookups!With, Registry!KnownModes, Lookups!KnownModes
  <2> QED
    BY <1>1, <2>2 DEF LookUp, Lookups!Next
<1>2. UNCHANGED <<kind, gates, lookup, got>> => UNCHANGED kind /\ UNCHANGED Lookups!vars
  BY DEF Lookups!vars, Want
<1>3. CASE \/ Signal \/ SignalMainOnly \/ CancelMain \/ Start \/ ServerRuns
           \/ KillerRuns \/ ServeRuns
  BY <1>2, <1>3 DEF Signal, SignalMainOnly, CancelMain, Start, ServerRuns, KillerRuns, ServeRuns,
     gateVars
<1>4. ASSUME NEW q \in Requests,
             Accept(q) \/ Admit(q) \/ Queue(q) \/ Refuse(q) \/ StartCommand(q) \/ HandlerReturns(q)
             \/ ContextEnds(q) \/ CommandEnds(q) \/ Terminate(q) \/ WaitReturns(q)
      PROVE  UNCHANGED <<kind, gates, lookup, got>>
  BY <1>4 DEF Accept, Admit, Queue, Refuse, StartCommand, HandlerReturns, ContextEnds,
     CommandEnds, Terminate, WaitReturns, gateVars
<1> QED
  BY <1>1, <1>2, <1>3, <1>4 DEF Next, Exit, Crash, HandlerStep

\* A new program begins with an empty registry.
LEMMA NextLookups == ASSUME IInv, [Next]_vars PROVE Lookups!IInv'
<1>1. CASE [Lookups!Next]_(Lookups!vars)
  BY <1>1, Lookups!NextIInv DEF IInv
<1>2. CASE UNCHANGED vars
  <2>1. UNCHANGED Lookups!vars
    BY <1>2 DEF vars, gateVars, Lookups!vars, Want
  <2> QED
    BY <1>1, <2>1
<1>3. CASE ProgramEnds
  <2>1. /\ gates' = [g \in {} |-> {}] /\ got' = [q \in {} |-> {}]
        /\ lookup' = [q \in Requests |-> "idle"] /\ kind' = kind
    BY <1>3 DEF ProgramEnds
  <2>2. Want' = Want /\ Want \in [Requests -> Lookups!Wants]
    BY <2>1 DEF Want, IInv, Lookups!IInv, Lookups!TypeOK
  <2> QED
    BY <2>1, <2>2 DEF Lookups!IInv, Lookups!TypeOK, Lookups!Pc, Lookups!GateStays, Lookups!Wants
<1> QED
  BY <1>1, <1>2, <1>3, StepOfLookups

-----------------------------------------------------------------------------
\* Types

LEMMA NextTypeOK == ASSUME IInv, [Next]_vars PROVE TypeOK'
<1> USE DEF IInv, TypeOK, Process!TypeOK
<1>1. Http!TypeOK' /\ Registry!TypeOK'
  <2>1. Server!TypeOK' => Http!TypeOK'
    BY DEF Server!TypeOK, Http!TypeOK, Server!SigChanCapacity, Http!SigChanCapacity,
       Server!Calls, Http!Calls, Server!Pc, Http!Pc, Server!Returns, Http!Returns
  <2>2. Lookups!TypeOK' => Registry!TypeOK'
    BY DEF Lookups!TypeOK, Registry!TypeOK, Lookups!Gates, Registry!Gates, Lookups!KnownModes,
       Registry!KnownModes, Lookups!Pc, Registry!Pc, Lookups!Wants, Registry!Wants
  <2> QED
    BY <2>1, <2>2, NextServer, NextLookups DEF Server!IInv, Lookups!IInv
<1>2. kind \in [Requests -> Endpoints]
  BY KindIsEndpoint
<1> HIDE DEF TypeOK
<1> DEFINE Rest ==
  /\ up \in BOOLEAN /\ starts \in 1 .. MaxStarts
  /\ notified \in {"no", "signalled", "cancelled"}
  /\ permit \in [Requests -> {"idle", "asking", "inside", "refused", "left"}]
  /\ kind \in Workloads
  /\ handler \in [Requests -> {"off", "lookup", "ask", "start", "run", "reply"}]
  /\ cut \in [Requests -> BOOLEAN]
  /\ command \in [Requests -> {"none", "running", "exited"}]
  /\ watched \in [Requests -> BOOLEAN]
  /\ termed \in [Requests -> BOOLEAN]
<1>3. Rest
  BY DEF TypeOK
<1>4. ASSUME Rest' PROVE TypeOK'
  BY <1>1, <1>4 DEF TypeOK
<1>5. Rest'
  <2> USE <1>3
  <2>1. CASE Signal \/ SignalMainOnly \/ CancelMain
    BY <2>1 DEF Signal, SignalMainOnly, CancelMain, gateVars, requestVars
  <2>2. CASE ProgramEnds
    BY <2>2 DEF ProgramEnds, Process!ProgramEnds
  <2>3. CASE Start
    BY <2>3, BoundsAssumption DEF Start, gateVars, requestVars
  <2>4. CASE ServerRuns \/ KillerRuns \/ ServeRuns
    BY <2>4 DEF ServerRuns, KillerRuns, ServeRuns, programVars, gateVars, requestVars
  <2>5. ASSUME NEW q \in Requests,
               LookUp(q) \/ Accept(q) \/ Admit(q) \/ Queue(q) \/ Refuse(q)
        PROVE  Rest'
    BY <2>5 DEF LookUp, Accept, Admit, Queue, Refuse, Goto, Permit, AfterLookUp, programVars,
       gateVars, requestVars
  <2>6. ASSUME NEW q \in Requests,
               StartCommand(q) \/ HandlerReturns(q) \/ ContextEnds(q) \/ CommandEnds(q)
               \/ Terminate(q) \/ WaitReturns(q)
        PROVE  Rest'
    <3>1. kind[q].async \in BOOLEAN
      BY <1>2 DEF Endpoints
    <3>2. CASE StartCommand(q)
      BY <3>1, <3>2 DEF StartCommand, Goto, Permit, GiveBack, programVars, Process!Start
    <3>3. CASE HandlerReturns(q)
      BY <3>1, <3>3 DEF HandlerReturns, Goto, programVars, gateVars
    <3>4. CASE ContextEnds(q)
      BY <3>4 DEF ContextEnds, programVars, gateVars
    <3>5. CASE CommandEnds(q)
      BY <3>5 DEF CommandEnds, programVars, gateVars, Process!Exit
    <3>6. CASE Terminate(q)
      BY <3>6 DEF Terminate, programVars, gateVars, Process!SendTerm, Process!SendKill
    <3>7. CASE WaitReturns(q)
      BY <3>1, <3>7 DEF WaitReturns, Goto, Permit, GiveBack, programVars, Process!WaitReturns
    <3> QED
      BY <2>6, <3>2, <3>3, <3>4, <3>5, <3>6, <3>7
  <2>7. CASE UNCHANGED vars
    BY <2>7 DEF vars, programVars, gateVars, requestVars
  <2> QED
    BY <2>1, <2>2, <2>3, <2>4, <2>5, <2>6, <2>7 DEF Next, Exit, Crash, HandlerStep
<1> QED
  BY <1>4, <1>5

-----------------------------------------------------------------------------
\* Handlers, commands and permissions

\* What happens to a request: only its handler ends it, or the program.
LEMMA RequestMoves ==
  ASSUME IInv, [Next]_vars, NEW q \in Requests
  PROVE  /\ request[q] # "new" => request'[q] # "new"
         /\ Http!Live(q) => Http!Live(q)' \/ ProgramEnds \/ HandlerReturns(q)
<1> USE DEF IInv, TypeOK, Http!TypeOK, Http!Live
<1>1. CASE UNCHANGED request \/ Http!HttpClose \/ ProgramEnds
  BY <1>1 DEF Http!HttpClose, ProgramEnds
<1>2. ASSUME NEW p \in Requests, Accept(p)
      PROVE  /\ request[q] # "new" => request'[q] # "new"
             /\ Http!Live(q) => Http!Live(q)'
  BY <1>2 DEF Accept, Http!Accept
<1>3. ASSUME NEW p \in Requests, HandlerReturns(p)
      PROVE  /\ request[q] # "new" => request'[q] # "new"
             /\ Http!Live(q) => Http!Live(q)' \/ p = q
  BY <1>3 DEF HandlerReturns, Http!HandlerReturns
<1>4. ASSUME NEW p \in Requests,
             LookUp(p) \/ Admit(p) \/ Queue(p) \/ Refuse(p) \/ StartCommand(p) \/ ContextEnds(p)
             \/ CommandEnds(p) \/ Terminate(p) \/ WaitReturns(p)
      PROVE  UNCHANGED request
  BY <1>4 DEF LookUp, Admit, Queue, Refuse, StartCommand, ContextEnds, CommandEnds, Terminate,
     WaitReturns, httpVars
<1>5. CASE Signal \/ SignalMainOnly \/ CancelMain \/ Start
  BY <1>1, <1>5 DEF Signal, Http!Signal, Http!httpVars, SignalMainOnly, CancelMain, Start, httpVars
<1>6. CASE ServerRuns
  <2>1. UNCHANGED request \/ Http!HttpClose
    BY <1>6 DEF ServerRuns, Http!CheckState, Http!RunStep, Http!CheckStateFails, Http!Listen,
       Http!Recheck, Http!FirstSignal, Http!SeeServeEnd, Http!CommonStep, Http!RequestShutdown,
       Http!Shut, Http!HttpShutdownBegins, Http!Drained, Http!GraceExpires, Http!ForceClose,
       Http!httpVars
  <2> QED
    BY <1>1, <2>1
<1>7. CASE KillerRuns \/ ServeRuns
  BY <1>1, <1>7 DEF KillerRuns, Http!KillerStep, Http!KillerWakes, Http!KillerCloses, ServeRuns,
     Http!ServeBegins, Http!ServeEnds, Http!httpVars
<1>8. CASE UNCHANGED vars
  BY <1>1, <1>8 DEF vars, httpVars
<1> QED
  BY <1>1, <1>2, <1>3, <1>4, <1>5, <1>6, <1>7, <1>8 DEF Next, Exit, Crash, HandlerStep

\* The steps of the program's own goroutines leave the handlers alone.
LEMMA HandlersAlone ==
  ASSUME \/ Signal \/ SignalMainOnly \/ CancelMain \/ Start
         \/ ServerRuns \/ KillerRuns \/ ServeRuns \/ UNCHANGED vars
  PROVE  UNCHANGED <<gateVars, kind, handler, watched>>
BY DEF Signal, SignalMainOnly, CancelMain, Start, ServerRuns, KillerRuns, ServeRuns, vars,
   requestVars

\* What a lookup leaves to the gates: it is over for good, and nobody else's
\* changes.
LEMMA LookUpMoves ==
  ASSUME IInv, NEW q \in Requests, LookUp(q)
  PROVE  /\ lookup[q] # "done"
         /\ \A r \in Requests : r # q => lookup'[r] = lookup[r]
         /\ \A r \in Requests : r # q /\ lookup[r] = "done" => got'[r] = got[r]
         /\ handler' = [handler EXCEPT ![q] = AfterLookUp(lookup'[q])]
         /\ UNCHANGED <<kind, permit, watched, request>>
<1>1. lookup \in [Requests -> Registry!Pc]
  BY DEF IInv, TypeOK, Registry!TypeOK
<1>2. \A r \in Requests : lookup[r] = "done" => r \in DOMAIN got
  BY DEF IInv, Lookups!IInv, Lookups!GateStays
<1>3. Registry!GetFactory(q) \/ Registry!ReadSection(q) \/ Registry!WriteSection(q)
  BY DEF LookUp
<1>4. /\ lookup[q] # "done"
      /\ \A r \in Requests : r # q => lookup'[r] = lookup[r]
  BY <1>1, <1>3 DEF Registry!GetFactory, Registry!ReadSection, Registry!WriteSection,
     Registry!Create, Registry!Return, Registry!Goto
<1>5. UNCHANGED got \/ \E gate : got' = Registry!With(got, q, gate)
  BY <1>3 DEF Registry!GetFactory, Registry!ReadSection, Registry!WriteSection,
     Registry!Create, Registry!Return
<1>6. \A r \in Requests : r # q /\ lookup[r] = "done" => got'[r] = got[r]
  BY <1>2, <1>5 DEF Registry!With
<1> QED
  BY <1>4, <1>6 DEF LookUp, Goto, httpVars

LEMMA NextHandlerInPlace == ASSUME IInv, [Next]_vars PROVE HandlerInPlace'
<1> USE DEF HandlerInPlace, IInv
<1>0. handler \in [Requests -> {"off", "lookup", "ask", "start", "run", "reply"}]
  BY DEF TypeOK
<1>1. CASE UNCHANGED <<kind, handler, lookup>> /\ ~ProgramEnds
  <2>1. \A q \in Requests : handler[q] # "off" => ~HandlerReturns(q)
    BY <1>0, <1>1 DEF HandlerReturns, Goto
  <2> QED
    BY <1>1, <2>1, RequestMoves
<1>2. CASE ProgramEnds
  BY <1>2 DEF ProgramEnds
<1>3. ASSUME NEW q \in Requests, LookUp(q) PROVE HandlerInPlace'
  <2>1. /\ handler[q] = "lookup"
        /\ handler'[q] = "ask" => lookup'[q] = "done"
        /\ handler'[q] \in {"lookup", "ask", "reply"}
        /\ \A r \in Requests : r # q => handler'[r] = handler[r] /\ lookup'[r] = lookup[r]
    BY <1>0, <1>3, LookUpMoves DEF LookUp, AfterLookUp
  <2>2. UNCHANGED <<kind, request>>
    BY <1>3, LookUpMoves
  <2> QED
    BY <2>1, <2>2 DEF Http!Live
<1>4. ASSUME NEW q \in Requests, Accept(q) PROVE HandlerInPlace'
  <2>1. /\ UNCHANGED <<kind, lookup>> /\ Http!Live(q)'
        /\ handler'[q] = IF kind[q].gated THEN "lookup" ELSE "start"
        /\ \A r \in Requests : r # q => handler'[r] = handler[r]
    BY <1>0, <1>4 DEF Accept, Goto, Http!Accept, Http!Live, gateVars, TypeOK, Http!TypeOK
  <2>2. \A r \in Requests : r # q /\ Http!Live(r) => Http!Live(r)'
    BY <1>4 DEF Accept, Http!Accept, Http!Live, TypeOK, Http!TypeOK
  <2>3. kind[q].gated \in BOOLEAN
    BY KindIsEndpoint DEF Endpoints
  <2> QED
    BY <2>1, <2>2, <2>3
<1>5. ASSUME NEW q \in Requests,
             Admit(q) \/ Refuse(q) \/ StartCommand(q) \/ WaitReturns(q)
      PROVE  HandlerInPlace'
  <2>1. /\ UNCHANGED <<kind, lookup, request>>
        /\ \A r \in Requests : r # q => handler'[r] = handler[r]
        /\ \/ handler'[q] = handler[q]
           \/ handler[q] = "ask" /\ handler'[q] = "start"
           \/ handler[q] = "start" /\ handler'[q] = "run"
           \/ handler[q] # "off" /\ handler'[q] = "reply"
    BY <1>0, <1>5 DEF Admit, Refuse, StartCommand, WaitReturns, Goto, httpVars, gateVars,
       WatchFollowsHandler, TypeOK, Process!Start, Process!WaitReturns
  <2> QED
    BY <2>1 DEF Http!Live
<1>6. ASSUME NEW q \in Requests, HandlerReturns(q) PROVE HandlerInPlace'
  <2>1. /\ UNCHANGED <<kind, lookup>> /\ handler'[q] = "off"
        /\ \A r \in Requests : r # q => handler'[r] = handler[r] /\ request'[r] = request[r]
    BY <1>0, <1>6 DEF HandlerReturns, Goto, Http!HandlerReturns, gateVars, TypeOK, Http!TypeOK
  <2> QED
    BY <2>1 DEF Http!Live
<1>7. ASSUME NEW q \in Requests,
             Queue(q) \/ ContextEnds(q) \/ CommandEnds(q) \/ Terminate(q)
      PROVE  UNCHANGED <<kind, handler, lookup>>
  BY <1>7 DEF Queue, ContextEnds, CommandEnds, Terminate, gateVars, requestVars
<1> QED
  BY <1>1, <1>2, <1>3, <1>4, <1>5, <1>6, <1>7, HandlersAlone
     DEF Next, Exit, Crash, HandlerStep, gateVars

LEMMA NextWatchFollowsHandler == ASSUME IInv, [Next]_vars PROVE WatchFollowsHandler'
<1> USE DEF WatchFollowsHandler, IInv
<1>0. /\ handler \in [Requests -> {"off", "lookup", "ask", "start", "run", "reply"}]
      /\ watched \in [Requests -> BOOLEAN]
  BY DEF TypeOK, Process!TypeOK
<1>1. CASE UNCHANGED <<kind, handler, watched>>
  BY <1>1, RequestMoves
<1>2. CASE ProgramEnds
  BY <1>2 DEF ProgramEnds, Process!ProgramEnds
\* A handler moves on that waits for no command.
<1>3. ASSUME NEW q \in Requests, ~watched[q], UNCHANGED <<kind, watched>>,
             \E l \in {"off", "lookup", "ask", "start", "run", "reply"} : Goto(q, l)
      PROVE  WatchFollowsHandler'
  BY <1>0, <1>3, RequestMoves DEF Goto
<1>4. ASSUME NEW q \in Requests, LookUp(q) \/ Accept(q) \/ Admit(q) \/ Refuse(q)
      PROVE  WatchFollowsHandler'
  <2>1. ~watched[q]
    BY <1>4 DEF LookUp, Accept, Http!Accept, Admit, Refuse
  <2>2. UNCHANGED <<kind, watched>>
    BY <1>4 DEF LookUp, Accept, Admit, Refuse
  <2>3. \E l \in {"off", "lookup", "ask", "start", "run", "reply"} : Goto(q, l)
    BY <1>4 DEF LookUp, Accept, Admit, Refuse, AfterLookUp
  <2> QED
    BY <1>3, <2>1, <2>2, <2>3
<1>5. ASSUME NEW q \in Requests, StartCommand(q) PROVE WatchFollowsHandler'
  <2>1. /\ UNCHANGED kind /\ request[q] # "new"
        /\ \A r \in Requests : r # q => handler'[r] = handler[r] /\ watched'[r] = watched[r]
        /\ watched'[q] =>
             /\ kind[q].async => handler'[q] = "reply"
             /\ ~kind[q].async => handler'[q] = "run"
    BY <1>0, <1>5 DEF StartCommand, Process!Start, Goto, HandlerInPlace, Http!Live
  <2> QED
    BY <2>1, RequestMoves
<1>6. ASSUME NEW q \in Requests, WaitReturns(q) PROVE WatchFollowsHandler'
  <2>1. /\ UNCHANGED kind /\ ~watched'[q]
        /\ \A r \in Requests : r # q => handler'[r] = handler[r] /\ watched'[r] = watched[r]
    BY <1>0, <1>6 DEF WaitReturns, Process!WaitReturns, Goto
  <2> QED
    BY <2>1, RequestMoves
\* The handler of an asynchronous command that is waited for comes back.
<1>7. ASSUME NEW q \in Requests, HandlerReturns(q) PROVE WatchFollowsHandler'
  <2>1. /\ UNCHANGED <<kind, watched>> /\ handler[q] = "reply" /\ handler'[q] = "off"
        /\ \A r \in Requests : r # q => handler'[r] = handler[r]
    BY <1>0, <1>7 DEF HandlerReturns, Goto
  <2> QED
    BY <2>1, RequestMoves
<1>8. ASSUME NEW q \in Requests,
             Queue(q) \/ ContextEnds(q) \/ CommandEnds(q) \/ Terminate(q)
      PROVE  UNCHANGED <<kind, handler, watched>>
  BY <1>8 DEF Queue, ContextEnds, CommandEnds, Terminate, requestVars, Process!Exit,
     Process!SendTerm, Process!SendKill
<1> QED
  BY <1>1, <1>2, <1>4, <1>5, <1>6, <1>7, <1>8, HandlersAlone DEF Next, Exit, Crash, HandlerStep

LEMMA NextPermitCoversCommand == ASSUME IInv, [Next]_vars PROVE PermitCoversCommand'
<1> USE DEF PermitCoversCommand, IInv
<1>0. /\ handler \in [Requests -> {"off", "lookup", "ask", "start", "run", "reply"}]
      /\ watched \in [Requests -> BOOLEAN]
      /\ permit \in [Requests -> {"idle", "asking", "inside", "refused", "left"}]
      /\ \A q \in Requests : kind[q].gated \in BOOLEAN
  BY KindIsEndpoint DEF TypeOK, Process!TypeOK, Endpoints
<1>1. CASE UNCHANGED <<gateVars, kind, handler, watched>>
  BY <1>1 DEF gateVars
<1>2. CASE ProgramEnds
  BY <1>2 DEF ProgramEnds, Process!ProgramEnds
<1>3. ASSUME NEW q \in Requests, LookUp(q) PROVE PermitCoversCommand'
  <2>1. \A r \in Requests : permit[r] = "inside" =>
          r # q /\ lookup'[r] = "done" /\ got'[r] = got[r]
    BY <1>3, LookUpMoves
  <2>2. handler'[q] # "start" /\ \A r \in Requests : r # q => handler'[r] = handler[r]
    BY <1>0, <1>3, LookUpMoves DEF AfterLookUp
  <2>3. UNCHANGED <<kind, permit, watched>>
    BY <1>3, LookUpMoves
  <2>4. ~watched[q]
    BY <1>3 DEF LookUp, WatchFollowsHandler
  <2> QED
    BY <2>1, <2>2, <2>3, <2>4
<1>4. ASSUME NEW q \in Requests, Accept(q) PROVE PermitCoversCommand'
  <2>1. /\ UNCHANGED <<gates, lookup, got, permit, kind, watched>>
        /\ handler'[q] = IF kind[q].gated THEN "lookup" ELSE "start"
        /\ \A r \in Requests : r # q => handler'[r] = handler[r]
    BY <1>0, <1>4 DEF Accept, Goto, gateVars
  <2>2. ~watched[q]
    BY <1>4 DEF Accept, Http!Accept, WatchFollowsHandler
  <2> QED
    BY <1>0, <2>1, <2>2
\* The gate is free: nobody else has its permission.
<1>5. ASSUME NEW q \in Requests, Admit(q) PROVE PermitCoversCommand'
  <2>1. /\ UNCHANGED <<gates, lookup, got, kind, watched>>
        /\ permit' = [permit EXCEPT ![q] = "inside"]
        /\ \A r \in Requests : r # q => handler'[r] = handler[r]
    BY <1>0, <1>5 DEF Admit, Permit, Goto
  <2>2. kind[q].gated /\ lookup[q] = "done"
    BY <1>5 DEF Admit, HandlerInPlace
  <2>3. \A r \in Requests : permit[r] = "inside" => got[r] # got[q]
    BY <1>5 DEF Admit, Taken
  <2> QED
    BY <1>0, <2>1, <2>2, <2>3
<1>6. ASSUME NEW q \in Requests, Queue(q) \/ Refuse(q) PROVE PermitCoversCommand'
  <2>1. /\ UNCHANGED <<gates, lookup, got, kind, watched>>
        /\ permit'[q] # "inside" /\ ~watched[q] /\ handler'[q] # "start"
        /\ \A r \in Requests : r # q => permit'[r] = permit[r] /\ handler'[r] = handler[r]
    BY <1>0, <1>6 DEF Queue, Refuse, Permit, Goto, requestVars, WatchFollowsHandler
  <2> QED
    BY <2>1
\* Whoever starts a command, and whoever waits for one, holds the permission.
<1>7. ASSUME NEW q \in Requests, StartCommand(q) \/ WaitReturns(q) PROVE PermitCoversCommand'
  <2>1. /\ UNCHANGED <<gates, lookup, got, kind>>
        /\ \A r \in Requests :
             r # q => /\ permit'[r] = permit[r] /\ handler'[r] = handler[r]
                      /\ watched'[r] = watched[r]
        /\ handler[q] = "start" \/ watched[q]
    BY <1>0, <1>7 DEF StartCommand, WaitReturns, GiveBack, Permit, Goto,
       Process!Start, Process!WaitReturns
  <2>2. CASE UNCHANGED permit
    BY <2>1, <2>2, <1>7 DEF StartCommand, WaitReturns, GiveBack, Permit, Goto,
       Process!Start, Process!WaitReturns
  <2>3. CASE kind[q].gated /\ permit' = [permit EXCEPT ![q] = "left"]
    <3>1. handler'[q] # "start" /\ ~watched'[q] /\ permit'[q] = "left"
      BY <1>0, <1>7, <2>1, <2>3 DEF StartCommand, WaitReturns, Goto, WatchFollowsHandler,
         Process!Start, Process!WaitReturns
    <3> QED
      BY <2>1, <3>1
  <2> QED
    BY <1>7, <2>2, <2>3 DEF StartCommand, WaitReturns, GiveBack, Permit
<1>8. ASSUME NEW q \in Requests, HandlerReturns(q) PROVE PermitCoversCommand'
  BY <1>0, <1>8 DEF HandlerReturns, Goto, gateVars
<1>9. ASSUME NEW q \in Requests, ContextEnds(q) \/ CommandEnds(q) \/ Terminate(q)
      PROVE  UNCHANGED <<gateVars, kind, handler, watched>>
  BY <1>9 DEF ContextEnds, CommandEnds, Terminate, Process!Exit, Process!SendTerm,
     Process!SendKill
<1> QED
  BY <1>1, <1>2, <1>3, <1>4, <1>5, <1>6, <1>7, <1>8, <1>9, HandlersAlone
     DEF Next, Exit, Crash, HandlerStep

\* The steps of a call of Acquire, and of its release function.
LEMMA PermitMoves ==
  ASSUME IInv, [Next]_vars, UNCHANGED permit => FALSE
  PROVE  \/ ProgramEnds
         \/ \E q \in Requests :
              /\ up' = up /\ kind[q].gated /\ request[q] # "new"
              /\ handler[q] # "lookup" /\ handler'[q] # "lookup"
              /\ handler'[q] = "ask" => permit'[q] = "asking"
              /\ \/ permit[q] = "idle" /\ Permit(q, "asking")
                 \/ /\ permit[q] \in {"idle", "asking"} /\ lookup[q] = "done" /\ ~Taken(q)
                    /\ Permit(q, "inside")
                 \/ permit[q] \in {"idle", "asking"} /\ Permit(q, "refused")
                 \/ permit[q] = "inside" /\ Permit(q, "left")
<1> USE DEF IInv
<1>0. /\ handler \in [Requests -> {"off", "lookup", "ask", "start", "run", "reply"}]
      /\ permit \in [Requests -> {"idle", "asking", "inside", "refused", "left"}]
  BY DEF TypeOK
<1>1. ASSUME NEW q \in Requests, handler[q] # "off" \/ watched[q] PROVE request[q] # "new"
  BY <1>1 DEF HandlerInPlace, WatchFollowsHandler, Http!Live
<1>2. ASSUME NEW q \in Requests, Queue(q) \/ Admit(q) \/ Refuse(q)
      PROVE  /\ up' = up /\ kind[q].gated /\ request[q] # "new" /\ handler[q] = "ask"
             /\ permit[q] \in {"idle", "asking"} /\ lookup[q] = "done"
  BY <1>1, <1>2 DEF Queue, Admit, Refuse, HandlerInPlace, PermitInPlace, programVars
<1>3. ASSUME NEW q \in Requests, Queue(q) \/ Admit(q) \/ Refuse(q)
      PROVE  /\ handler'[q] # "lookup"
             /\ handler'[q] = "ask" => permit'[q] = "asking"
             /\ \/ permit[q] = "idle" /\ Permit(q, "asking")
                \/ ~Taken(q) /\ Permit(q, "inside")
                \/ Permit(q, "refused")
  BY <1>0, <1>3 DEF Queue, Admit, Refuse, Goto, Permit, requestVars
<1>4. ASSUME NEW q \in Requests, StartCommand(q) \/ WaitReturns(q), UNCHANGED permit => FALSE
      PROVE  /\ up' = up /\ kind[q].gated /\ Permit(q, "left")
             /\ handler[q] = "start" \/ watched[q]
             /\ handler[q] \notin {"lookup", "ask"} /\ handler'[q] \notin {"lookup", "ask"}
  BY <1>0, <1>4 DEF StartCommand, WaitReturns, GiveBack, Goto, programVars, Process!Start,
     Process!WaitReturns, WatchFollowsHandler
<1>5. ASSUME NEW q \in Requests, StartCommand(q) \/ WaitReturns(q), UNCHANGED permit => FALSE
      PROVE  request[q] # "new" /\ permit[q] = "inside"
  BY <1>1, <1>4, <1>5 DEF PermitCoversCommand
<1>6. ASSUME NEW q \in Requests,
             LookUp(q) \/ Accept(q) \/ HandlerReturns(q) \/ ContextEnds(q) \/ CommandEnds(q)
             \/ Terminate(q)
      PROVE  UNCHANGED permit
  BY <1>6 DEF LookUp, Accept, HandlerReturns, ContextEnds, CommandEnds, Terminate, gateVars
<1> QED
  BY <1>2, <1>3, <1>4, <1>5, <1>6, HandlersAlone DEF Next, Exit, Crash, HandlerStep, gateVars

\* A handler comes to the registry when its request is accepted, and from there
\* to the gate.
LEMMA HandlerMoves ==
  ASSUME IInv, [Next]_vars, NEW q \in Requests
  PROVE  /\ handler'[q] = "lookup" => handler[q] = "lookup" \/ request[q] = "new"
         /\ handler'[q] = "ask" => handler[q] \in {"lookup", "ask"}
<1>0. handler \in [Requests -> {"off", "lookup", "ask", "start", "run", "reply"}]
  BY DEF IInv, TypeOK
<1>1. ASSUME NEW r \in Requests, HandlerStep(r) \/ WaitReturns(r)
      PROVE  /\ handler'[q] = "lookup" => handler[q] = "lookup"
             /\ handler'[q] = "ask" => handler[q] \in {"lookup", "ask"}
  BY <1>0, <1>1 DEF HandlerStep, LookUp, Admit, Queue, Refuse, StartCommand, HandlerReturns,
     WaitReturns, Goto, requestVars
<1>2. ASSUME NEW r \in Requests, Accept(r)
      PROVE  /\ handler'[q] = "lookup" => handler[q] = "lookup" \/ request[q] = "new"
             /\ handler'[q] = "ask" => handler[q] = "ask"
  BY <1>0, <1>2 DEF Accept, Http!Accept, Goto
<1>3. ASSUME NEW r \in Requests, ContextEnds(r) \/ CommandEnds(r) \/ Terminate(r)
      PROVE  UNCHANGED handler
  BY <1>3 DEF ContextEnds, CommandEnds, Terminate
<1>4. CASE ProgramEnds
  BY <1>4 DEF ProgramEnds
<1> QED
  BY <1>1, <1>2, <1>3, <1>4, HandlersAlone DEF Next, Exit, Crash

LEMMA NextPermitInPlace == ASSUME IInv, [Next]_vars PROVE PermitInPlace'
<1> USE DEF IInv, PermitInPlace
<1>0. permit \in [Requests -> {"idle", "asking", "inside", "refused", "left"}]
  BY DEF TypeOK
<1>1. CASE ProgramEnds
  BY <1>1 DEF ProgramEnds
<1>2. ASSUME NEW r \in Requests, request'[r] = "new" PROVE request[r] = "new"
  BY <1>2, RequestMoves
<1>3. CASE UNCHANGED permit
  BY <1>2, <1>3, HandlerMoves
<1>4. ASSUME NEW q \in Requests, request[q] # "new", handler'[q] # "lookup",
             handler'[q] = "ask" => permit'[q] = "asking",
             \A r \in Requests : r # q => permit'[r] = permit[r]
      PROVE  PermitInPlace'
  BY <1>2, <1>4, HandlerMoves
<1> QED
  BY <1>0, <1>1, <1>3, <1>4, PermitMoves DEF Permit

\* The steps of the program's own goroutines leave the commands alone, and the
\* others move them as Commands says.
LEMMA StepOfCommands == ASSUME [Next]_vars PROVE [Process!Next]_(Process!State)
<1> USE DEF Process!State, Process!Next
<1>1. CASE \/ Signal \/ SignalMainOnly \/ CancelMain \/ Start
           \/ ServerRuns \/ KillerRuns \/ ServeRuns \/ UNCHANGED vars
  BY <1>1 DEF Signal, SignalMainOnly, CancelMain, Start, ServerRuns, KillerRuns, ServeRuns, vars,
     requestVars
<1>2. CASE ProgramEnds
  BY <1>2 DEF ProgramEnds
<1>3. ASSUME NEW q \in Requests,
             Accept(q) \/ LookUp(q) \/ Admit(q) \/ Queue(q) \/ Refuse(q) \/ HandlerReturns(q)
             \/ ContextEnds(q)
      PROVE  UNCHANGED Process!State
  BY <1>3 DEF Accept, LookUp, Admit, Queue, Refuse, HandlerReturns, ContextEnds, requestVars
<1>4. ASSUME NEW q \in Requests,
             StartCommand(q) \/ CommandEnds(q) \/ Terminate(q) \/ WaitReturns(q)
      PROVE  [Process!Next]_(Process!State)
  BY <1>4 DEF StartCommand, CommandEnds, Terminate, WaitReturns
<1> QED
  BY <1>1, <1>2, <1>3, <1>4 DEF Next, Exit, Crash, HandlerStep

\* Only the end of the program leaves a running command to itself.
LEMMA CommandMoves ==
  ASSUME IInv, [Next]_vars, ~ProgramEnds, NEW q \in Requests,
         command'[q] = "running", ~watched'[q]
  PROVE  command[q] = "running" /\ ~watched[q]
<1>0. command \in [Requests -> {"none", "running", "exited"}] /\ watched \in [Requests -> BOOLEAN]
  BY DEF IInv, TypeOK, Process!TypeOK
<1>1. CASE UNCHANGED <<command, watched>>
  BY <1>1
<1>2. ASSUME NEW r \in Requests,
             StartCommand(r) \/ CommandEnds(r) \/ Terminate(r) \/ WaitReturns(r)
      PROVE  command[q] = "running" /\ ~watched[q]
  BY <1>0, <1>2 DEF StartCommand, CommandEnds, Terminate, WaitReturns, Process!Start, Process!Exit,
     Process!SendTerm, Process!SendKill, Process!WaitReturns
<1>3. ASSUME NEW r \in Requests,
             Accept(r) \/ LookUp(r) \/ Admit(r) \/ Queue(r) \/ Refuse(r) \/ HandlerReturns(r)
             \/ ContextEnds(r)
      PROVE  UNCHANGED <<command, watched>>
  BY <1>3 DEF Accept, LookUp, Admit, Queue, Refuse, HandlerReturns, ContextEnds, requestVars
<1>4. CASE \/ Signal \/ SignalMainOnly \/ CancelMain \/ Start
           \/ ServerRuns \/ KillerRuns \/ ServeRuns \/ UNCHANGED vars
  BY <1>1, <1>4 DEF Signal, SignalMainOnly, CancelMain, Start, ServerRuns, KillerRuns, ServeRuns,
     vars, requestVars
<1> QED
  BY <1>1, <1>2, <1>3, <1>4 DEF Next, Exit, Crash, HandlerStep

LEMMA NextDownIsEmpty == ASSUME IInv, [Next]_vars PROVE DownIsEmpty'
<1> USE DEF DownIsEmpty
<1>1. CASE ProgramEnds
  BY <1>1 DEF ProgramEnds, Process!ProgramEnds
<1>2. CASE up' \/ up
  <2>1. up /\ ~up' => ProgramEnds
    BY DEF Next, Signal, SignalMainOnly, CancelMain, Exit, Crash, Start, ServerRuns, KillerRuns,
       ServeRuns, HandlerStep, Accept, LookUp, Admit, Queue, Refuse, StartCommand,
       HandlerReturns, ContextEnds, CommandEnds, Terminate, WaitReturns, programVars, vars
  <2> QED
    BY <1>1, <1>2, <2>1
\* Only the commands that the program left behind still do something.
<1>3. CASE ~up /\ ~up'
  <2>1. ~ServerRuns /\ ~KillerRuns /\ ~ServeRuns /\ ~Signal /\ ~SignalMainOnly /\ ~CancelMain
        /\ ~Exit /\ ~Crash /\ ~Start
    BY <1>3 DEF ServerRuns, KillerRuns, ServeRuns, Signal, SignalMainOnly, CancelMain, Exit,
       Crash, Start
  <2>2. ASSUME NEW q \in Requests PROVE ~Accept(q) /\ ~HandlerStep(q) /\ ~WaitReturns(q)
    BY <1>3 DEF IInv, Accept, HandlerStep, LookUp, Admit, Queue, Refuse, StartCommand,
       HandlerReturns, WaitReturns, Process!WaitReturns
  <2>3. ASSUME NEW q \in Requests, ContextEnds(q) \/ CommandEnds(q) \/ Terminate(q)
        PROVE  UNCHANGED <<handler, permit, watched>>
    BY <2>3 DEF ContextEnds, CommandEnds, Terminate, gateVars, Process!Exit, Process!SendTerm,
       Process!SendKill
  <2> QED
    BY <1>3, <2>1, <2>2, <2>3 DEF IInv, Next, vars, gateVars, requestVars
<1> QED
  BY <1>2, <1>3

LEMMA NextIInv == ASSUME IInv, [Next]_vars PROVE IInv'
BY NextTypeOK, NextLookups, NextServer, NextHandlerInPlace, NextWatchFollowsHandler,
   NextPermitCoversCommand, NextPermitInPlace, NextDownIsEmpty DEF IInv

LEMMA InitIInv == Init => IInv
<1> SUFFICES ASSUME Init PROVE IInv
  OBVIOUS
<1> USE DEF Init
<1>1. kind \in [Requests -> Endpoints]
  BY WorkloadsAssumption
<1>2. Server!Init
  BY DEF Http!Init, Server!Init, Http!Calls, Server!Calls
<1>3. Server!IInv
  BY <1>2, Server!InitIInv, ServerAssumptions
<1>4. Lookups!Init
  BY DEF Registry!Init, Lookups!Init, Registry!Wants, Lookups!Wants
<1>5. Lookups!IInv
  BY <1>4, Lookups!InitIInv
<1>6. TypeOK
  <2>1. Http!TypeOK
    BY <1>3 DEF Server!IInv, Server!TypeOK, Http!TypeOK, Server!SigChanCapacity,
       Http!SigChanCapacity, Server!Calls, Http!Calls, Server!Pc, Http!Pc, Server!Returns,
       Http!Returns
  <2>2. Registry!TypeOK
    BY <1>5 DEF Lookups!IInv, Lookups!TypeOK, Registry!TypeOK, Lookups!Gates, Registry!Gates,
       Lookups!KnownModes, Registry!KnownModes, Lookups!Pc, Registry!Pc, Lookups!Wants,
       Registry!Wants
  <2> QED
    BY <2>1, <2>2, BoundsAssumption DEF TypeOK, Process!TypeOK, Process!Init
<1>7. /\ HandlerInPlace /\ WatchFollowsHandler /\ PermitCoversCommand
      /\ PermitInPlace /\ DownIsEmpty
  BY DEF HandlerInPlace, WatchFollowsHandler, PermitCoversCommand, PermitInPlace, DownIsEmpty,
     Process!Init
<1> QED
  BY <1>3, <1>5, <1>6, <1>7 DEF IInv

-----------------------------------------------------------------------------

\* The inductive invariant holds in every reachable state.
THEOREM Invariant == Spec => []IInv
<1>1. Init => IInv
  BY InitIInv
<1>2. IInv /\ [Next]_vars => IInv'
  BY NextIInv
<1> QED
  BY <1>1, <1>2, PTL DEF Spec

\* Every variable keeps its type, through all starts of the program.
THEOREM TypeCorrect == Spec => []TypeOK
<1>1. IInv => TypeOK
  BY DEF IInv
<1> QED
  BY <1>1, Invariant, PTL

\* Requests that name the same group have the same gate, while the server, the
\* signals and the crashes do what they may.
THEOREM SameGate == Spec => []OneGatePerGroup
<1>1. IInv => OneGatePerGroup
  BY DEF IInv, Lookups!IInv, Lookups!GateStays, Lookups!GateOf, OneGatePerGroup,
     Registry!OneGatePerGroup
<1> QED
  BY <1>1, Invariant, PTL

\* The running program waits for one command of a group at a time.
LEMMA OneWatched ==
  ASSUME IInv, NEW q \in Requests, NEW r \in Requests, q # r,
         kind[q].gated, kind[r].gated, kind[q].group = kind[r].group, watched[q], watched[r]
  PROVE  FALSE
<1>1. permit[q] = "inside" /\ permit[r] = "inside" /\ lookup[q] = "done" /\ lookup[r] = "done"
  BY DEF IInv, PermitCoversCommand
<1>2. got[q] = got[r]
  BY <1>1 DEF IInv, Lookups!IInv, Lookups!GateStays, Lookups!GateOf, Want
<1> QED
  BY <1>1, <1>2 DEF IInv, PermitCoversCommand

\* One command of a group runs at a time, of those the running program started:
\* the whole way from the registry's map to the release by whoever waits for the
\* command.
THEOREM OneAtATime == Spec => []OneCommandPerGroup
<1>1. IInv => OneCommandPerGroup
  BY OneWatched DEF OneCommandPerGroup
<1> QED
  BY <1>1, Invariant, PTL

\* As many commands of a group as the program had starts, but no more.
OneCommandPerStart ==
  \A g \in Groups : IsFiniteSet(RunningIn(g)) /\ Cardinality(RunningIn(g)) <= starts

\* A program that runs adds at most one to the commands that were left behind.
LEMMA RunningBounded == ASSUME IInv, OneLeftPerEnd PROVE OneCommandPerStart
<1> SUFFICES ASSUME NEW g \in Groups
             PROVE  IsFiniteSet(RunningIn(g)) /\ Cardinality(RunningIn(g)) <= starts
  BY DEF OneCommandPerStart
<1>0. /\ IsFiniteSet(LeftBehind(g)) /\ Cardinality(LeftBehind(g)) \in Nat
      /\ starts \in Nat /\ starts >= 1 /\ up \in BOOLEAN
      /\ Cardinality(LeftBehind(g)) <= IF up THEN starts - 1 ELSE starts
  BY FS_CardinalityType, BoundsAssumption DEF OneLeftPerEnd, IInv, TypeOK
<1>1. CASE \A q \in RunningIn(g) : ~watched[q]
  <2>1. RunningIn(g) = LeftBehind(g)
    BY <1>1 DEF LeftBehind
  <2> QED
    BY <1>0, <2>1
<1>2. CASE \E q \in RunningIn(g) : watched[q]
  <2>1. PICK q \in RunningIn(g) : watched[q]
    BY <1>2
  <2>2. up
    BY <1>0, <2>1 DEF IInv, DownIsEmpty, RunningIn
  <2>3. RunningIn(g) = LeftBehind(g) \cup {q}
    <3>1. ASSUME NEW r \in RunningIn(g), watched[r] PROVE r = q
      BY <2>1, <3>1, OneWatched DEF RunningIn
    <3> QED
      BY <2>1, <3>1 DEF LeftBehind
  <2>4. q \notin LeftBehind(g)
    BY <2>1 DEF LeftBehind
  <2>5. /\ IsFiniteSet(LeftBehind(g) \cup {q})
        /\ Cardinality(LeftBehind(g) \cup {q}) = Cardinality(LeftBehind(g)) + 1
    BY <1>0, <2>4, FS_AddElement
  <2> QED
    BY <1>0, <2>2, <2>3, <2>5
<1> QED
  BY <1>1, <1>2

\* A command is left behind only when the program ends.
LEMMA NextLeftPerEnd == ASSUME IInv, OneLeftPerEnd, [Next]_vars PROVE OneLeftPerEnd'
<1> SUFFICES ASSUME NEW g \in Groups
             PROVE  /\ IsFiniteSet(LeftBehind(g)')
                    /\ Cardinality(LeftBehind(g)') <= IF up' THEN starts' - 1 ELSE starts'
  BY DEF OneLeftPerEnd
<1>0. starts \in Nat /\ starts >= 1 /\ up \in BOOLEAN
  BY BoundsAssumption DEF IInv, TypeOK
<1>1. CASE ProgramEnds
  <2>1. IsFiniteSet(RunningIn(g)) /\ Cardinality(RunningIn(g)) <= starts
    BY RunningBounded DEF OneCommandPerStart
  <2>2. LeftBehind(g)' \subseteq RunningIn(g)
    BY <1>1 DEF ProgramEnds, Process!ProgramEnds, LeftBehind, RunningIn
  <2>3. /\ IsFiniteSet(LeftBehind(g)')
        /\ Cardinality(LeftBehind(g)') <= Cardinality(RunningIn(g))
    BY <2>1, <2>2, FS_Subset
  <2>4. ~up' /\ starts' = starts
    BY <1>1 DEF ProgramEnds
  <2>5. Cardinality(LeftBehind(g)') \in Nat /\ Cardinality(RunningIn(g)) \in Nat
    BY <2>1, <2>3, FS_CardinalityType
  <2> QED
    BY <1>0, <2>1, <2>3, <2>4, <2>5
<1>2. CASE ~ProgramEnds
  <2>1. LeftBehind(g)' \subseteq LeftBehind(g)
    <3>1. \A q \in Requests : command'[q] = "running" /\ ~watched'[q] =>
                               command[q] = "running" /\ ~watched[q]
      BY <1>2, CommandMoves
    <3>2. kind' = kind
      BY <1>2, StepOfLookups DEF vars
    <3> QED
      BY <3>1, <3>2 DEF LeftBehind, RunningIn
  <2>2. IsFiniteSet(LeftBehind(g)) /\ Cardinality(LeftBehind(g)) <= IF up THEN starts - 1 ELSE starts
    BY DEF OneLeftPerEnd
  <2>3. /\ IsFiniteSet(LeftBehind(g)')
        /\ Cardinality(LeftBehind(g)') <= Cardinality(LeftBehind(g))
    BY <2>1, <2>2, FS_Subset
  <2>4. \/ up' = up /\ starts' = starts
        \/ ~up /\ up' /\ starts' = starts + 1
    BY <1>2 DEF Next, Signal, SignalMainOnly, CancelMain, Exit, Crash, Start, ServerRuns, KillerRuns,
       ServeRuns, HandlerStep, Accept, LookUp, Admit, Queue, Refuse, StartCommand,
       HandlerReturns, ContextEnds, CommandEnds, Terminate, WaitReturns, programVars, vars
  <2>5. Cardinality(LeftBehind(g)') \in Nat /\ Cardinality(LeftBehind(g)) \in Nat
    BY <2>2, <2>3, FS_CardinalityType
  <2> QED
    BY <1>0, <2>2, <2>3, <2>4, <2>5
<1> QED
  BY <1>1, <1>2

\* Whatever ends the contexts of the requests, and however often the program crashes:
\* a program that runs waits for its commands to their end, and one that ends
\* leaves one command of each group behind at most.
THEOREM LeftPerEnd == Spec => []OneLeftPerEnd
<1>1. Init => OneLeftPerEnd
  <2> SUFFICES ASSUME Init, NEW g \in Groups
               PROVE  IsFiniteSet(LeftBehind(g)) /\ Cardinality(LeftBehind(g)) <= starts - 1 /\ up
    BY DEF OneLeftPerEnd
  <2>1. LeftBehind(g) = {}
    BY DEF Init, Process!Init, LeftBehind, RunningIn
  <2> QED
    BY <2>1, FS_EmptySet DEF Init
<1>2. IInv /\ OneLeftPerEnd /\ [Next]_vars => OneLeftPerEnd'
  BY NextLeftPerEnd
<1> QED
  BY <1>1, <1>2, Invariant, PTL DEF Spec

\* So after n starts of the program no more than n commands of a group run, one from
\* each start: what remains of the exclusion when the program crashes.
THEOREM OnePerStart == Spec => []OneCommandPerStart
<1>1. IInv /\ OneLeftPerEnd => OneCommandPerStart
  BY RunningBounded
<1> QED
  BY <1>1, Invariant, LeftPerEnd, PTL

\* The registry's gates, and the requests that get and use them, are one call gate
\* for each group, from the start of the program to its end.
THEOREM GatesOfGroups == Spec => GroupsAreCallGates
<1> DEFINE Step == \A g \in Groups :
             IF up' THEN [GateOf(g)!Next]_(Permits(g)) ELSE GateOf(g)!Init'
<1>1. Init => \A g \in Groups : GateOf(g)!Init
  BY DEF Init, GateOf!Init, Permits
<1>2. IInv /\ [Next]_vars => Step
  <2> SUFFICES ASSUME IInv, [Next]_vars, NEW g \in Groups
               PROVE  IF up' THEN [GateOf(g)!Next]_(Permits(g)) ELSE GateOf(g)!Init'
    OBVIOUS
  <2>0. permit \in [Requests -> {"idle", "asking", "inside", "refused", "left"}]
    BY DEF IInv, TypeOK
  <2>1. kind' = kind /\ \A q \in Requests : kind[q].gated \in BOOLEAN
    BY KindIsEndpoint, StepOfLookups DEF IInv, Endpoints, ProgramEnds, vars
  <2>2. CASE ~up'
    <3>1. \A q \in Requests : permit'[q] = "idle"
      BY <2>2, NextDownIsEmpty DEF DownIsEmpty
    <3> QED
      BY <2>2, <3>1 DEF GateOf!Init, Permits
  <2>3. CASE UNCHANGED permit
    BY <2>1, <2>2, <2>3 DEF Permits
  <2>4. ASSUME NEW q \in Requests, kind[q].gated, kind[q].group # g,
               \A r \in Requests : r # q => permit'[r] = permit[r]
        PROVE  UNCHANGED Permits(g)
    BY <2>1, <2>4 DEF Permits
  <2>5. ASSUME NEW q \in Requests, NEW s, kind[q].gated, kind[q].group = g, Permit(q, s)
        PROVE  GateOf(g)!Move(q, s)
    BY <2>0, <2>1, <2>5 DEF Permit, Permits, GateOf!Move
  <2>6. ASSUME NEW q \in Requests, kind[q].gated, kind[q].group = g, lookup[q] = "done", ~Taken(q)
        PROVE  GateOf(g)!Inside = {}
    <3> SUFFICES ASSUME NEW r \in Requests, kind[r].gated, kind[r].group = g,
                        permit[r] = "inside"
                 PROVE  FALSE
      BY DEF GateOf!Inside, Permits
    <3>1. lookup[r] = "done"
      BY DEF IInv, PermitCoversCommand
    <3>2. Want[q].group = Want[r].group
      BY <2>6 DEF Want
    <3>3. got[r] = got[q]
      BY <2>6, <3>1, <3>2 DEF IInv, Lookups!IInv, Lookups!GateStays, Lookups!GateOf
    <3> QED
      BY <2>6, <3>3 DEF Taken
  <2>7. ASSUME NEW q \in Requests, kind[q].gated, kind[q].group = g,
               \/ permit[q] = "idle" /\ Permit(q, "asking")
               \/ /\ permit[q] \in {"idle", "asking"} /\ lookup[q] = "done" /\ ~Taken(q)
                  /\ Permit(q, "inside")
               \/ permit[q] \in {"idle", "asking"} /\ Permit(q, "refused")
               \/ permit[q] = "inside" /\ Permit(q, "left")
        PROVE  GateOf(g)!Next
    <3>1. Permits(g)[q] = permit[q]
      BY <2>7 DEF Permits
    <3>2. \/ GateOf(g)!Wait(q) \/ GateOf(g)!Admit(q) \/ GateOf(g)!Refuse(q)
          \/ GateOf(g)!Leave(q)
      BY <2>5, <2>6, <2>7, <3>1 DEF GateOf!Wait, GateOf!Admit, GateOf!Refuse, GateOf!Leave
    <3> QED
      BY <3>2 DEF GateOf!Next
  <2> QED
    BY <2>0, <2>2, <2>3, <2>4, <2>7, PermitMoves DEF Permit, ProgramEnds
<1> QED
  BY <1>1, <1>2, Invariant, PTL DEF Spec, GroupsAreCallGates

\* The commands of the program behave as Commands says, which ProcessRunner is proved
\* to implement, through all starts of the program.
THEOREM CommandsObeyed == Spec => Process!Spec
<1>1. Init => Process!Init
  BY DEF Init
<1> QED
  BY <1>1, StepOfCommands, PTL DEF Spec, Process!Spec

\* When Run returns nil, and no connection was dropped, every command that is
\* still waited for belongs to an asynchronous request.
THEOREM CleanStop == Spec => []CleanStopLeavesOnlyAsync
<1>1. IInv => CleanStopLeavesOnlyAsync
  <2> SUFFICES ASSUME IInv, ret[Main] = "nil", ~forced, NEW q \in Requests, watched[q]
               PROVE  kind[q].async
    BY DEF CleanStopLeavesOnlyAsync
  <2>1. request[q] \notin {"active", "dropped"}
    BY DEF IInv, Server!IInv, Server!NilIsDrained, Server!StopCalled, Server!NoneOpen
  <2>2. handler[q] = "off"
    BY <2>1 DEF IInv, HandlerInPlace, Http!Live
  <2>3. kind[q].async \in BOOLEAN
    BY KindIsEndpoint DEF IInv, Endpoints
  <2> QED
    BY <2>2, <2>3 DEF IInv, WatchFollowsHandler
<1> QED
  BY <1>1, Invariant, PTL

=============================================================================
