-------------------------- MODULE GraceHttpProofs --------------------------
(***************************************************************************)
(* Theorems about GraceHttp, for any number of calls of Run and Shutdown,  *)
(* of requests and of signals.                                             *)
(***************************************************************************)
EXTENDS GraceHttp, TLAPS

-----------------------------------------------------------------------------
\* The inductive invariant.

CallsInOrder ==
  /\ \A c \in Calls : pc[c] = "returned" <=> ret[c] # "none"
  /\ \A c \in Runs : pc[c] \notin {"load", "cas"}
  /\ \A c \in Stops : pc[c] \notin {"busy", "listen", "recheck", "wait"}

OneOfEach ==
  /\ \A c \in Stops : Carries(c) => state = "shutdown"
  /\ \A c, d \in Stops : Carries(c) /\ Carries(d) => c = d
  /\ \A c \in Runs : Serves(c) => state # "new"
  /\ \A c, d \in Runs : Serves(c) /\ Serves(d) => c = d

\* The http.Server has been told to stop, and by whom: whoever told it is in the
\* drain or done, or the connections were dropped.
Told(c) == pc[c] \in {"drain", "force"} \/ ret[c] \in {"nil", "grace"}

StopCalled == \E d \in Stops : pc[d] # "idle"

StoppingHasCause ==
  /\ \A c \in Stops : Told(c) => stopping
  /\ \A c \in Runs : pc[c] \in {"drain", "force"} => stopping
  /\ serve = "closed" => stopping
  /\ stopping => forced \/ StopCalled \/ \E r \in Runs : Told(r)

\* Nobody is served any more once a call came back with nil.
NilIsDrained ==
  /\ (\E q \in Requests : request[q] = "dropped") => forced
  /\ \A c \in Stops : ret[c] = "nil" => stopping /\ NoneOpen
  /\ \A c \in Runs : ret[c] = "nil" => forced \/ StopCalled \/ (stopping /\ NoneOpen)

IInv ==
  /\ TypeOK
  /\ CallsInOrder
  /\ OneOfEach
  /\ StoppingHasCause
  /\ NilIsDrained

LEMMA InitIInv == Init => IInv
<1> SUFFICES ASSUME Init PROVE IInv
  OBVIOUS
<1>1. TypeOK
  <2>1. pc \in [Calls -> Pc] /\ ret \in [Calls -> Returns]
    BY DEF Init, Pc, Returns
  <2>2. signals \in 0 .. SigChanCapacity /\ sigSent \in 0 .. MaxSignals
    BY MaxSignalsAssumption DEF Init, SigChanCapacity
  <2>3. request \in [Requests -> {"new", "active", "dropped", "ended"}]
    BY DEF Init
  <2> QED
    BY <2>1, <2>2, <2>3 DEF Init, TypeOK
<1>2. \A c \in Runs \cup Stops : pc[c] = "idle" /\ ret[c] = "none"
  BY DEF Init, Calls
<1>3. CallsInOrder /\ OneOfEach
  BY <1>2 DEF CallsInOrder, Calls, OneOfEach, Shutting, Carries, Serves
<1>4. StoppingHasCause /\ NilIsDrained
  BY <1>2 DEF Init, StoppingHasCause, NilIsDrained, Told
<1> QED
  BY <1>1, <1>3, <1>4 DEF IInv

\* Types

LEMMA NextTypeOK == ASSUME TypeOK, [Next]_vars PROVE TypeOK'
<1> USE DEF TypeOK, sigVars, httpVars
<1>1. ASSUME NEW c \in Calls, NEW l \in Pc, Goto(c, l)
      PROVE  pc' \in [Calls -> Pc] /\ ret' \in [Calls -> Returns]
  BY <1>1 DEF Goto
<1>2. ASSUME NEW c \in Calls, NEW r \in Returns, Return(c, r)
      PROVE  pc' \in [Calls -> Pc] /\ ret' \in [Calls -> Returns]
  BY <1>2 DEF Return, Pc
<1>3. ASSUME NEW c \in Calls, NEW r \in Returns, CallReturns(c, r) \/ RunReturns(c, r)
      PROVE  /\ pc' \in [Calls -> Pc] /\ ret' \in [Calls -> Returns]
             /\ sigClosed' \in BOOLEAN /\ UNCHANGED <<signals, sigSent, killer>>
  BY <1>2, <1>3 DEF CallReturns, RunReturns
<1>4. \A l \in {"busy", "listen", "recheck", "wait", "load", "cas", "request", "shut", "drain", "force"} : l \in Pc
  BY DEF Pc
<1>5. \A r \in {"nil", "running", "shutdown", "listen", "serve", "grace"} : r \in Returns
  BY DEF Returns
<1>6. ASSUME NEW c \in Runs, CheckState(c) \/ RunStep(c) PROVE TypeOK'
  <2>0. c \in Calls
    BY DEF Calls
  <2>1. CASE CheckState(c) \/ CheckStateFails(c) \/ Listen(c)
    BY <1>1, <1>2, <1>4, <1>5, <2>0, <2>1 DEF CheckState, CheckStateFails, Listen
  <2>2. CASE Recheck(c) \/ SeeServeEnd(c)
    BY <1>1, <1>3, <1>4, <1>5, <2>0, <2>2 DEF Recheck, SeeServeEnd
  <2>3. CASE FirstSignal(c)
    BY <1>1, <1>4, <2>0, <2>3 DEF FirstSignal, SigChanCapacity
  <2> QED
    BY <1>6, <2>1, <2>2, <2>3 DEF RunStep
<1>7. ASSUME NEW c \in Stops, ShutdownRunning(c) \/ StopStep(c) PROVE TypeOK'
  <2>0. c \in Calls
    BY DEF Calls
  <2> QED
    BY <1>1, <1>2, <1>4, <1>5, <1>7, <2>0 DEF StopStep, ShutdownRunning, ShutdownLoad, ShutdownNew
<1>8. ASSUME NEW c \in Calls, CommonStep(c) PROVE TypeOK'
  <2>1. CASE RequestShutdown(c)
    BY <1>1, <1>4, <2>1 DEF RequestShutdown
  <2>3. CASE Shut(c)
    BY <1>1, <1>4, <2>3 DEF Shut, HttpShutdownBegins
  <2>4. CASE GraceExpires(c)
    BY <1>1, <1>4, <2>4 DEF GraceExpires
  <2>2. CASE Drained(c) \/ ForceClose(c)
    BY <1>3, <1>5, <2>2 DEF Drained, ForceClose, HttpClose
  <2> QED
    BY <1>8, <2>1, <2>2, <2>3, <2>4 DEF CommonStep
<1>9. CASE Signal
  BY <1>9, MaxSignalsAssumption DEF Signal, SigChanCapacity
<1>10. CASE KillerStep
  <2>1. CASE KillerWakes
    BY <2>1 DEF KillerWakes, SigChanCapacity
  <2>2. CASE KillerCloses
    <3>1. request' \in [Requests -> {"new", "active", "dropped", "ended"}]
      BY <2>2 DEF KillerCloses, HttpClose
    <3> QED
      BY <2>2, <3>1 DEF KillerCloses, HttpClose
  <2> QED
    BY <1>10, <2>1, <2>2 DEF KillerStep
<1>11. CASE HttpStep
  BY <1>11 DEF HttpStep, ServeBegins, ServeEnds, Accept, HandlerReturns
<1>12. CASE UNCHANGED vars
  BY <1>12 DEF vars
<1> QED
  BY <1>6, <1>7, <1>8, <1>9, <1>10, <1>11, <1>12 DEF Next

\* The order in which a call moves.

LEMMA NextCallsInOrder == ASSUME IInv, [Next]_vars PROVE CallsInOrder'
<1> USE DEF IInv, TypeOK, CallsInOrder, Calls
<1>1. ASSUME NEW c \in Calls, Goto(c, "shut") \/ Goto(c, "drain") \/ Goto(c, "force")
             \/ Goto(c, "request") \/ Goto(c, "idle"), pc[c] # "returned"
      PROVE  CallsInOrder'
  BY <1>1 DEF Goto
<1>2. ASSUME NEW c \in Calls, NEW r \in Returns \ {"none"}, Return(c, r)
      PROVE  CallsInOrder'
  BY <1>2 DEF Return
<1>3. ASSUME NEW c \in Calls, NEW r \in Returns \ {"none"}, CallReturns(c, r) \/ RunReturns(c, r)
      PROVE  CallsInOrder'
  BY <1>2, <1>3 DEF CallReturns, RunReturns
<1>4. \A r \in {"nil", "running", "shutdown", "listen", "serve", "grace"} : r \in Returns \ {"none"}
  BY DEF Returns
<1>5. ASSUME NEW c \in Runs, CheckState(c) \/ RunStep(c) PROVE CallsInOrder'
  <2>1. ASSUME NEW l \in {"busy", "listen", "recheck", "wait"}, Goto(c, l), pc[c] # "returned"
        PROVE  CallsInOrder'
    BY <2>1, CallsAssumption DEF Goto
  <2> QED
    BY <1>1, <1>2, <1>3, <1>4, <1>5, <2>1 DEF RunStep, CheckState, CheckStateFails, Listen,
       Recheck, FirstSignal, SeeServeEnd
<1>6. ASSUME NEW c \in Stops, ShutdownRunning(c) \/ StopStep(c) PROVE CallsInOrder'
  <2>1. ASSUME NEW l \in {"load", "cas"}, Goto(c, l), pc[c] # "returned" PROVE CallsInOrder'
    BY <2>1, CallsAssumption DEF Goto
  <2> QED
    BY <1>1, <1>2, <1>4, <1>6, <2>1 DEF StopStep, ShutdownRunning, ShutdownLoad, ShutdownNew
<1>7. ASSUME NEW c \in Calls, CommonStep(c) PROVE CallsInOrder'
  BY <1>1, <1>3, <1>4, <1>7 DEF CommonStep, RequestShutdown, Shut, Drained, GraceExpires, ForceClose
<1>8. CASE UNCHANGED <<pc, ret>>
  BY <1>8
<1> QED
  BY <1>5, <1>6, <1>7, <1>8 DEF Next, Signal, KillerStep, KillerWakes, KillerCloses, HttpStep,
     ServeBegins, ServeEnds, Accept, HandlerReturns, vars

\* One call of Shutdown, one call of Run.

LEMMA NextOneOfEach == ASSUME IInv, [Next]_vars PROVE OneOfEach'
<1> USE DEF IInv, TypeOK, CallsInOrder, OneOfEach, Carries, Serves, Shutting, Calls
\* A call that gets the shutdown, or the server, was alone in finding the state.
<1>1. ASSUME NEW c \in Stops, state # "shutdown", state' = "shutdown", Goto(c, "request")
      PROVE  OneOfEach'
  BY <1>1, CallsAssumption DEF Goto
<1>2. ASSUME NEW c \in Runs, state = "new", state' = "running", Goto(c, "listen")
      PROVE  OneOfEach'
  BY <1>2, CallsAssumption DEF Goto
\* A call that moves on, or comes back, is the one it was.
<1>3. ASSUME NEW c \in Runs, UNCHANGED state, Serves(c),
             \/ \E l \in {"recheck", "wait"} \cup Shutting : Goto(c, l)
             \/ \E r \in Returns \ {"none"} : Return(c, r)
      PROVE  OneOfEach'
  BY <1>3, CallsAssumption DEF Goto, Return
<1>4. ASSUME NEW c \in Stops, UNCHANGED state, Carries(c),
             \/ \E l \in Shutting : Goto(c, l)
             \/ \E r \in Returns \ {"none"} : Return(c, r)
      PROVE  OneOfEach'
  BY <1>4, CallsAssumption DEF Goto, Return
\* The others are told, or look again.
<1>5. ASSUME NEW c \in Calls, UNCHANGED state,
             \/ \E l \in {"busy", "load", "cas"} : Goto(c, l)
             \/ \E r \in {"running", "shutdown", "listen"} : Return(c, r)
      PROVE  OneOfEach'
  BY <1>5, CallsAssumption DEF Goto, Return
<1>6. ASSUME NEW c \in Runs, CheckState(c) \/ RunStep(c) PROVE OneOfEach'
  <2>1. CASE CheckState(c) \/ CheckStateFails(c)
    BY <1>2, <1>5, <2>1 DEF CheckState, CheckStateFails
  <2>2. CASE Listen(c) \/ Recheck(c) \/ FirstSignal(c) \/ SeeServeEnd(c)
    BY <1>3, <2>2 DEF Listen, Recheck, FirstSignal, SeeServeEnd, RunReturns, Returns
  <2> QED
    BY <1>6, <2>1, <2>2 DEF RunStep
<1>7. ASSUME NEW c \in Stops, ShutdownRunning(c) \/ StopStep(c) PROVE OneOfEach'
  BY <1>1, <1>5, <1>7 DEF StopStep, ShutdownRunning, ShutdownLoad, ShutdownNew
<1>8. ASSUME NEW c \in Calls, CommonStep(c) PROVE OneOfEach'
  <2>1. /\ UNCHANGED state /\ pc[c] \in Shutting
        /\ \/ \E l \in Shutting : Goto(c, l)
           \/ \E r \in Returns \ {"none"} : Return(c, r)
    BY <1>8 DEF CommonStep, RequestShutdown, Shut, Drained, GraceExpires, ForceClose,
       CallReturns, RunReturns, Returns
  <2> QED
    BY <1>3, <1>4, <2>1
<1>9. CASE UNCHANGED <<state, pc, ret>>
  BY <1>9
<1> QED
  BY <1>6, <1>7, <1>8, <1>9 DEF Next, Signal, KillerStep, KillerWakes, KillerCloses, HttpStep,
     ServeBegins, ServeEnds, Accept, HandlerReturns, vars

\* What lasts: nobody takes back what the http.Server was told, no call goes
\* back to its start, and a call that has told the http.Server goes on to nil or
\* to the end of the grace period.

LEMMA Lasting ==
  ASSUME IInv, [Next]_vars
  PROVE  /\ stopping => stopping'
         /\ forced => forced'
         /\ StopCalled => StopCalled'
         /\ \A c \in Calls : Told(c) => Told(c)'
<1> USE DEF IInv, TypeOK, CallsInOrder, StopCalled, Told, httpVars
<1>1. CASE UNCHANGED <<pc, ret>>
  BY <1>1 DEF Next, Signal, KillerStep, KillerWakes, KillerCloses, HttpClose, HttpStep,
     ServeBegins, ServeEnds, Accept, HandlerReturns, vars, CheckState, RunStep,
     CheckStateFails, Listen, Recheck, FirstSignal, SeeServeEnd, ShutdownRunning, StopStep,
     ShutdownLoad, ShutdownNew, CommonStep, RequestShutdown, Shut, HttpShutdownBegins,
     Drained, GraceExpires, ForceClose
<1>2. ASSUME NEW c \in Calls, ~Told(c), pc[c] # "returned",
             \/ \E l \in Pc \ {"idle", "returned"} : Goto(c, l)
             \/ \E r \in Returns \ {"none"} : Return(c, r)
      PROVE  (StopCalled => StopCalled') /\ \A d \in Calls : Told(d) => Told(d)'
  BY <1>2 DEF Goto, Return, Calls
<1>3. ASSUME NEW c \in Calls, pc[c] \in {"drain", "force"},
             Goto(c, "force") \/ Return(c, "nil") \/ Return(c, "grace")
      PROVE  (StopCalled => StopCalled') /\ \A d \in Calls : Told(d) => Told(d)'
  BY <1>3 DEF Goto, Return, Calls
<1>4. ASSUME NEW c \in Runs, CheckState(c) \/ RunStep(c)
      PROVE  /\ UNCHANGED <<stopping, forced>>
             /\ c \in Calls /\ pc[c] \in {"idle", "busy", "listen", "recheck", "wait"}
             /\ \/ \E l \in Pc \ {"idle", "returned"} : Goto(c, l)
                \/ \E r \in Returns \ {"none"} : Return(c, r)
  BY <1>4 DEF RunStep, CheckState, CheckStateFails, Listen, Recheck, FirstSignal, SeeServeEnd,
     RunReturns, Calls, Pc, Returns
<1>5. ASSUME NEW c \in Stops, ShutdownRunning(c) \/ StopStep(c)
      PROVE  /\ UNCHANGED <<stopping, forced>>
             /\ c \in Calls /\ pc[c] \in {"idle", "load", "cas"}
             /\ \/ \E l \in Pc \ {"idle", "returned"} : Goto(c, l)
                \/ \E r \in Returns \ {"none"} : Return(c, r)
  BY <1>5 DEF StopStep, ShutdownRunning, ShutdownLoad, ShutdownNew, Calls, Pc, Returns
<1>6. ASSUME NEW c \in Calls, CommonStep(c)
      PROVE  /\ stopping => stopping'
             /\ forced => forced'
             /\ \/ /\ pc[c] \in {"request", "shut"}
                   /\ Goto(c, "shut") \/ Goto(c, "drain")
                \/ /\ pc[c] \in {"drain", "force"}
                   /\ Goto(c, "force") \/ Return(c, "nil") \/ Return(c, "grace")
  BY <1>6 DEF CommonStep, RequestShutdown, Shut, HttpShutdownBegins, Drained, GraceExpires,
     ForceClose, HttpClose, CallReturns, RunReturns
<1>7. \A c \in Calls : pc[c] \in {"idle", "busy", "listen", "recheck", "wait", "load", "cas",
                                   "request", "shut"} => ~Told(c)
  BY DEF Returns
<1>8. {"shut", "drain"} \subseteq Pc \ {"idle", "returned"}
  BY DEF Pc
<1>9. CASE \E c \in Runs : CheckState(c) \/ RunStep(c)
  BY <1>2, <1>4, <1>7, <1>9
<1>10. CASE \E c \in Stops : ShutdownRunning(c) \/ StopStep(c)
  BY <1>2, <1>5, <1>7, <1>10
<1>11. CASE \E c \in Calls : CommonStep(c)
  <2> PICK c \in Calls : CommonStep(c)
    BY <1>11
  <2>1. CASE pc[c] \in {"request", "shut"}
    BY <1>2, <1>6, <1>7, <1>8, <2>1
  <2>2. CASE pc[c] \in {"drain", "force"}
    BY <1>3, <1>6, <2>2
  <2> QED
    BY <1>6, <2>1, <2>2
<1>12. CASE Signal \/ KillerStep \/ HttpStep \/ UNCHANGED vars
  <2>1. UNCHANGED <<pc, ret>>
    BY <1>12 DEF Signal, KillerStep, KillerWakes, KillerCloses, HttpStep, ServeBegins,
       ServeEnds, Accept, HandlerReturns, vars
  <2> QED
    BY <1>1, <2>1
<1> QED
  BY <1>9, <1>10, <1>11, <1>12 DEF Next

\* Who becomes one that told the http.Server has just done so.

LEMMA NewlyTold ==
  ASSUME IInv, [Next]_vars, NEW c \in Calls, ~Told(c),
         pc'[c] \in {"drain", "force"} \/ (c \in Stops /\ Told(c)')
  PROVE  Shut(c)
<1> USE DEF IInv, TypeOK, CallsInOrder, Told
<1>1. pc'[c] # pc[c] \/ ret'[c] # ret[c]
  OBVIOUS
<1>2. ASSUME NEW d \in Calls, \/ \E l \in Pc : Goto(d, l)
                              \/ \E r \in Returns : Return(d, r)
      PROVE  d = c
  BY <1>1, <1>2 DEF Goto, Return
<1>3. ASSUME NEW d \in Runs, CheckState(d) \/ RunStep(d) PROVE FALSE
  <2>1. /\ \/ \E l \in {"busy", "listen", "recheck", "wait", "request"} : Goto(d, l)
           \/ \E r \in Returns : Return(d, r)
        /\ d \in Calls
    BY <1>3 DEF RunStep, CheckState, CheckStateFails, Listen, Recheck, FirstSignal,
       SeeServeEnd, RunReturns, Calls, Returns
  <2>2. d = c
    BY <1>2, <2>1 DEF Pc
  <2> QED
    BY <2>1, <2>2, CallsAssumption DEF Goto, Return
<1>4. ASSUME NEW d \in Stops, ShutdownRunning(d) \/ StopStep(d) PROVE FALSE
  <2>1. /\ \/ \E l \in {"load", "cas", "request"} : Goto(d, l)
           \/ Return(d, "shutdown")
        /\ d \in Calls
    BY <1>4 DEF StopStep, ShutdownRunning, ShutdownLoad, ShutdownNew, Calls
  <2>2. d = c
    BY <1>2, <2>1 DEF Pc, Returns
  <2> QED
    BY <2>1, <2>2 DEF Goto, Return
<1>5. ASSUME NEW d \in Calls, CommonStep(d) PROVE Shut(c)
  <2>1. \/ \E l \in Pc : Goto(d, l)
        \/ \E r \in Returns : Return(d, r)
    BY <1>5 DEF CommonStep, RequestShutdown, Shut, Drained, GraceExpires, ForceClose,
       CallReturns, RunReturns, Pc, Returns
  <2>2. d = c
    BY <1>2, <2>1
  <2> QED
    BY <1>5, <2>2 DEF CommonStep, RequestShutdown, Drained, GraceExpires, ForceClose, Goto
<1>6. ~UNCHANGED <<pc, ret>>
  BY <1>1
<1> QED
  BY <1>3, <1>4, <1>5, <1>6 DEF Next, Signal, KillerStep, KillerWakes, KillerCloses, HttpStep,
     ServeBegins, ServeEnds, Accept, HandlerReturns, vars

\* What a step does to the http.Server.

LEMMA HttpMoves ==
  ASSUME IInv, [Next]_vars
  PROVE  /\ serve' = "closed" => stopping \/ serve = "closed"
         /\ stopping' => stopping \/ forced' \/ \E c \in Calls : Shut(c)
         /\ \A q \in Requests : request'[q] = "active" =>
              request[q] = "active" \/ ~stopping
         /\ \A q \in Requests : request'[q] = "dropped" =>
              request[q] = "dropped" \/ forced'
<1> USE DEF httpVars
<1>1. CASE UNCHANGED httpVars
  BY <1>1
<1>2. ASSUME NEW c \in Runs, CheckState(c) \/ RunStep(c)
      PROVE  UNCHANGED <<stopping, forced, request>> /\ serve' \in {serve, "starting"}
  BY <1>2 DEF CheckState, RunStep, CheckStateFails, Listen, Recheck, FirstSignal, SeeServeEnd
<1>3. ASSUME NEW c \in Stops, ShutdownRunning(c) \/ StopStep(c) PROVE UNCHANGED httpVars
  BY <1>3 DEF ShutdownRunning, StopStep, ShutdownLoad, ShutdownNew
<1>4. ASSUME NEW c \in Calls, CommonStep(c)
      PROVE  UNCHANGED httpVars \/ Shut(c) \/ HttpClose
  BY <1>4 DEF CommonStep, RequestShutdown, Drained, GraceExpires, ForceClose
<1>5. CASE \E c \in Calls : Shut(c)
  BY <1>5 DEF Shut, HttpShutdownBegins
<1>6. CASE HttpClose
  BY <1>6 DEF HttpClose
<1>7. CASE HttpStep
  <2>1. CASE ServeBegins \/ ServeEnds
    BY <2>1 DEF ServeBegins, ServeEnds
  <2>2. ASSUME NEW q \in Requests, Accept(q) \/ HandlerReturns(q)
        PROVE  /\ UNCHANGED <<serve, stopping, forced>>
               /\ \A p \in Requests : request'[p] = request[p]
                    \/ (request'[p] = "active" /\ ~stopping) \/ request'[p] = "ended"
    BY <2>2 DEF Accept, HandlerReturns, IInv, TypeOK
  <2> QED
    BY <1>7, <2>1, <2>2 DEF HttpStep
<1>8. CASE Signal \/ KillerStep \/ UNCHANGED vars
  BY <1>1, <1>6, <1>8 DEF Signal, KillerStep, KillerWakes, KillerCloses, vars
<1> QED
  BY <1>1, <1>2, <1>3, <1>4, <1>5, <1>6, <1>7, <1>8 DEF Next

\* A call that came back is over, and how a call comes to return nil.

LEMMA ReturnedStays ==
  ASSUME IInv, [Next]_vars, NEW c \in Calls
  PROVE  /\ pc[c] = "returned" => pc'[c] = "returned" /\ ret'[c] = ret[c]
         /\ ret[c] # "nil" /\ ret'[c] = "nil" =>
              Drained(c) \/ (c \in Runs /\ pc[c] = "wait" /\ serve = "closed" /\ SeeServeEnd(c))
<1> USE DEF IInv, TypeOK
<1>1. ASSUME NEW d \in Calls, pc[d] # "returned",
             \/ \E l \in Pc : Goto(d, l)
             \/ \E r \in Returns \ {"nil"} : Return(d, r)
      PROVE  /\ pc[c] = "returned" => pc'[c] = "returned" /\ ret'[c] = ret[c]
             /\ ret'[c] = "nil" => ret[c] = "nil"
  BY <1>1 DEF Goto, Return
<1>2. ASSUME NEW d \in Calls, pc[d] # "returned", Return(d, "nil")
      PROVE  /\ pc[c] = "returned" => pc'[c] = "returned" /\ ret'[c] = ret[c]
             /\ ret[c] # "nil" /\ ret'[c] = "nil" => c = d
  BY <1>2 DEF Return
<1>3. ASSUME NEW d \in Runs, CheckState(d) \/ RunStep(d)
      PROVE  /\ d \in Calls /\ pc[d] # "returned"
             /\ \/ \E l \in Pc : Goto(d, l)
                \/ \E r \in Returns \ {"nil"} : Return(d, r)
                \/ Return(d, "nil") /\ pc[d] = "wait" /\ serve = "closed" /\ SeeServeEnd(d)
  BY <1>3 DEF RunStep, CheckState, CheckStateFails, Listen, Recheck, FirstSignal, SeeServeEnd,
     RunReturns, Calls, Pc, Returns
<1>4. ASSUME NEW d \in Stops, ShutdownRunning(d) \/ StopStep(d)
      PROVE  /\ d \in Calls /\ pc[d] # "returned"
             /\ \/ \E l \in Pc : Goto(d, l)
                \/ Return(d, "shutdown")
  BY <1>4 DEF StopStep, ShutdownRunning, ShutdownLoad, ShutdownNew, Calls, Pc
<1>5. ASSUME NEW d \in Calls, CommonStep(d)
      PROVE  /\ pc[d] # "returned"
             /\ \/ \E l \in Pc : Goto(d, l)
                \/ Return(d, "grace")
                \/ Return(d, "nil") /\ Drained(d)
  BY <1>5 DEF CommonStep, RequestShutdown, Shut, Drained, GraceExpires, ForceClose,
     CallReturns, RunReturns, Pc
<1>6. {"grace", "shutdown"} \subseteq Returns \ {"nil"}
  BY DEF Returns
<1>7. CASE \E d \in Runs : CheckState(d) \/ RunStep(d)
  BY <1>1, <1>2, <1>3, <1>7
<1>8. CASE \E d \in Stops : ShutdownRunning(d) \/ StopStep(d)
  BY <1>1, <1>4, <1>6, <1>8
<1>9. CASE \E d \in Calls : CommonStep(d)
  BY <1>1, <1>2, <1>5, <1>6, <1>9
<1>10. CASE UNCHANGED <<pc, ret>>
  BY <1>10
<1> QED
  BY <1>7, <1>8, <1>9, <1>10 DEF Next, Signal, KillerStep, KillerWakes, KillerCloses, HttpStep,
     ServeBegins, ServeEnds, Accept, HandlerReturns, vars

\* A step takes nobody in once the http.Server was told to stop.

LEMMA StillNew ==
  ASSUME IInv, [Next]_vars, stopping, NEW q \in Requests, request[q] = "new"
  PROVE  request'[q] = "new"
<1> USE DEF IInv, TypeOK, httpVars
<1>1. CASE UNCHANGED request \/ HttpClose
  BY <1>1 DEF HttpClose
<1>2. CASE HttpStep
  BY <1>2 DEF HttpStep, ServeBegins, ServeEnds, Accept, HandlerReturns, Live
<1> QED
  BY <1>1, <1>2 DEF Next, Signal, KillerStep, KillerWakes, KillerCloses, vars, CheckState, RunStep,
     CheckStateFails, Listen, Recheck, FirstSignal, SeeServeEnd, ShutdownRunning, StopStep,
     ShutdownLoad, ShutdownNew, CommonStep, RequestShutdown, Shut, HttpShutdownBegins, Drained,
     GraceExpires, ForceClose

LEMMA NextStoppingHasCause == ASSUME IInv, [Next]_vars PROVE StoppingHasCause'
<1> USE DEF IInv, StoppingHasCause
<1>1. \A c \in Calls : Shut(c) => stopping' /\ (c \in Runs => Told(c)') /\ (c \in Stops => StopCalled')
  <2> SUFFICES ASSUME NEW c \in Calls, Shut(c)
               PROVE  stopping' /\ pc'[c] = "drain"
    BY DEF Told, StopCalled
  <2> QED
    BY DEF Shut, HttpShutdownBegins, Goto, TypeOK
<1>2. \A c \in Stops : Told(c)' => stopping'
  BY <1>1, Lasting, NewlyTold DEF Calls
<1>3. ASSUME NEW c \in Runs, pc'[c] \in {"drain", "force"} PROVE stopping'
  <2>1. CASE pc[c] \in {"drain", "force"}
    BY <2>1, Lasting
  <2>2. CASE ret[c] # "none"
    BY <1>3, <2>2, ReturnedStays DEF Calls, CallsInOrder
  <2>3. CASE ret[c] = "none" /\ pc[c] \notin {"drain", "force"}
    BY <1>1, <1>3, <2>3, NewlyTold DEF Told, Calls
  <2> QED
    BY <2>1, <2>2, <2>3
<1>4. serve' = "closed" => stopping'
  BY HttpMoves, Lasting
<1>5. stopping' => forced' \/ StopCalled' \/ \E r \in Runs : Told(r)'
  BY <1>1, HttpMoves, Lasting DEF Calls
<1> QED
  BY <1>2, <1>3, <1>4, <1>5

LEMMA NextNilIsDrained == ASSUME IInv, [Next]_vars PROVE NilIsDrained'
<1> USE DEF IInv, NilIsDrained, StoppingHasCause
<1>1. stopping /\ NoneOpen => stopping' /\ NoneOpen'
  BY HttpMoves, Lasting DEF NoneOpen
<1>2. (\E q \in Requests : request'[q] = "dropped") => forced'
  BY HttpMoves, Lasting
<1>3. \A c \in Calls : Drained(c) => stopping' /\ NoneOpen'
  <2> SUFFICES ASSUME NEW c \in Calls, Drained(c)
               PROVE  stopping /\ NoneOpen
    BY <1>1
  <2>1. pc[c] = "drain" /\ NoneOpen
    BY DEF Drained
  <2> QED
    BY <2>1 DEF Calls, Told
<1>4. ASSUME NEW c \in Stops, ret'[c] = "nil" PROVE stopping' /\ NoneOpen'
  <2>1. CASE ret[c] = "nil"
    BY <1>1, <2>1
  <2>2. CASE ret[c] # "nil"
    <3>1. c \in Calls /\ c \notin Runs
      BY CallsAssumption DEF Calls
    <3> QED
      BY <1>3, <1>4, <2>2, <3>1, ReturnedStays
  <2> QED
    BY <2>1, <2>2
<1>5. ASSUME NEW c \in Runs, ret'[c] = "nil"
      PROVE  forced' \/ StopCalled' \/ (stopping' /\ NoneOpen')
  <2>0. c \in Calls
    BY DEF Calls
  <2>1. CASE ret[c] = "nil"
    BY <1>1, <2>1, Lasting
  <2>2. CASE Drained(c)
    BY <1>3, <2>0, <2>2
  \* Serve was told to stop, and not by this call, which had no signal yet: the
  \* other calls of Run never got the server.
  <2>3. CASE pc[c] = "wait" /\ serve = "closed"
    <3>1. \A r \in Runs : Told(r) => r = c
      BY <2>3 DEF OneOfEach, Told, Serves, Shutting
    <3>2. ~Told(c)
      BY <2>0, <2>3 DEF Told, CallsInOrder
    <3> QED
      BY <2>3, <3>1, <3>2, Lasting
  <2> QED
    BY <1>5, <2>0, <2>1, <2>2, <2>3, ReturnedStays
<1> QED
  BY <1>2, <1>4, <1>5

LEMMA NextIInv == ASSUME IInv, [Next]_vars PROVE IInv'
BY NextTypeOK, NextCallsInOrder, NextOneOfEach, NextStoppingHasCause, NextNilIsDrained DEF IInv

-----------------------------------------------------------------------------

\* The inductive invariant holds in every reachable state.
THEOREM Invariant == Spec => []IInv
<1>1. Init => IInv
  BY InitIInv
<1>2. IInv /\ [Next]_vars => IInv'
  BY NextIInv
<1> QED
  BY <1>1, <1>2, PTL DEF Spec

\* Every variable keeps its type: above all, the channel never holds more than
\* its capacity.
THEOREM TypeCorrect == Spec => []TypeOK
<1>1. IInv => TypeOK
  BY DEF IInv
<1> QED
  BY <1>1, Invariant, PTL

\* Of any number of calls of Shutdown at most one carries the shutdown out
\* (Shutdown's two compare-and-swaps).
THEOREM ShutdownOnce == Spec => []OneShutdown
<1>1. IInv => OneShutdown
  BY DEF IInv, OneOfEach, OneShutdown, Carries, Shutting
<1> QED
  BY <1>1, Invariant, PTL

\* No handler runs once Shutdown, or a Run that was stopped by signals, came
\* back with nil, unless the connections were dropped.
THEOREM NilDrained == Spec => []NilMeansDrained
<1>1. IInv => NilMeansDrained
  <2> SUFFICES ASSUME IInv, NEW c \in Calls, ret[c] = "nil", ~forced,
                      c \in Runs => \A d \in Stops : pc[d] = "idle"
               PROVE  \A q \in Requests : ~Live(q)
    BY DEF NilMeansDrained
  <2>1. NoneOpen
    BY DEF IInv, NilIsDrained, StopCalled, Calls
  <2> QED
    BY <2>1 DEF IInv, NilIsDrained, NoneOpen, Live
<1> QED
  BY <1>1, Invariant, PTL

\* No request gets in after a call of Shutdown came back with nil or with the
\* end of the grace period, whatever Run was doing.
THEOREM NobodyAfterShutdown == Spec => NoRequestAfterShutdown
<1> DEFINE Quiet ==
  \A q \in Requests, c \in Stops :
    ret[c] \in {"nil", "grace"} /\ request[q] = "new" => request'[q] = "new"
<1>1. IInv /\ [Next]_vars => [Quiet]_vars
  <2> SUFFICES ASSUME IInv, [Next]_vars, NEW q \in Requests, NEW c \in Stops,
                      ret[c] \in {"nil", "grace"}, request[q] = "new"
               PROVE  request'[q] = "new"
    OBVIOUS
  <2>1. stopping
    BY DEF IInv, StoppingHasCause, Told
  <2> QED
    BY <2>1, StillNew
<1> QED
  BY <1>1, Invariant, PTL DEF Spec, NoRequestAfterShutdown

-----------------------------------------------------------------------------
\* GraceHttp implements ServerLife.

\* Serve is started once, by the one call of Run that got the server.
ServedOnce ==
  /\ serve # "off" => state # "new"
  /\ \A c \in Runs : pc[c] \in {"listen", "recheck"} => serve = "off"

LEMMA NextServedOnce == ASSUME IInv, ServedOnce, [Next]_vars PROVE ServedOnce'
<1> USE DEF ServedOnce, IInv, TypeOK, OneOfEach, Serves, Calls, sigVars, httpVars
<1>1. ASSUME NEW c \in Runs, CheckState(c) \/ CheckStateFails(c) \/ Listen(c) PROVE ServedOnce'
  BY <1>1 DEF CheckState, CheckStateFails, Listen, Goto, Return
<1>2. ASSUME NEW c \in Runs, Recheck(c) PROVE ServedOnce'
  BY <1>2 DEF Recheck, Goto, RunReturns, Return
<1>3. ASSUME NEW c \in Runs, FirstSignal(c) \/ SeeServeEnd(c) PROVE ServedOnce'
  BY <1>3 DEF FirstSignal, SeeServeEnd, Goto, RunReturns, Return
<1>4. ASSUME NEW c \in Stops, ShutdownRunning(c) \/ ShutdownLoad(c) \/ ShutdownNew(c)
      PROVE  ServedOnce'
  BY <1>4 DEF ShutdownRunning, ShutdownLoad, ShutdownNew, Goto, Return
<1>5. ASSUME NEW c \in Calls, RequestShutdown(c) \/ Shut(c) \/ Drained(c) \/ GraceExpires(c)
                                \/ ForceClose(c)
      PROVE  ServedOnce'
  <2>1. UNCHANGED <<state, serve>>
    BY <1>5 DEF RequestShutdown, Shut, HttpShutdownBegins, Drained, GraceExpires, ForceClose,
       HttpClose
  <2>2. \A d \in Runs : pc'[d] \in {"listen", "recheck"} => pc[d] = pc'[d]
    BY <1>5 DEF RequestShutdown, Shut, Drained, GraceExpires, ForceClose, CallReturns,
       RunReturns, Return, Goto
  <2> QED
    BY <2>1, <2>2
<1>6. CASE Signal \/ KillerStep \/ HttpStep \/ UNCHANGED vars
  BY <1>6 DEF Signal, KillerStep, KillerWakes, KillerCloses, HttpClose, HttpStep, ServeBegins,
     ServeEnds, Accept, HandlerReturns, vars
<1> QED
  BY <1>1, <1>2, <1>3, <1>4, <1>5, <1>6 DEF Next, RunStep, StopStep, CommonStep

\* What a call that moves on or returns does to the set of those in charge.
LEMMA CarriersFollow ==
  ASSUME IInv, NEW c \in Calls,
         \/ \E l \in Pc : Goto(c, l)
         \/ \E r \in Returns : Return(c, r)
  PROVE  /\ InCharge(c)' => Carriers' = Carriers \cup {c}
         /\ ~InCharge(c)' => Carriers' = Carriers \ {c}
<1>1. \A d \in Calls : d # c => pc'[d] = pc[d] /\ ret'[d] = ret[d]
  BY DEF Goto, Return, IInv, TypeOK
<1>2. \A d \in Calls : d # c => (InCharge(d) <=> InCharge(d)')
  BY <1>1 DEF Serves, Carries, InCharge
<1> QED
  BY <1>2 DEF Carriers

\* A call that gets the server, or the end of it, was alone in finding the state.
LEMMA TakeOfLife ==
  ASSUME IInv, NEW c \in Calls, ret[c] = "none", Goto(c, "listen") \/ Goto(c, "request"),
         UNCHANGED httpVars, InCharge(c)',
         \/ c \in Runs /\ state = "new"
         \/ c \in Stops /\ state # "shutdown"
  PROVE  Life!Take(c)
<1>1. \A d \in Calls : InCharge(d) => ~Life!Rival(c, d)
  BY CallsAssumption DEF InCharge, Life!Rival, IInv, OneOfEach
<1>2. Carriers' = Carriers \cup {c}
  BY CarriersFollow DEF Pc
<1> QED
  BY <1>1, <1>2 DEF Life!Take, Carriers, Serving, Goto, httpVars

\* One that moves on keeps what it has.
LEMMA MoveOfLife ==
  ASSUME IInv, NEW c \in Calls, NEW l \in Pc, Goto(c, l), InCharge(c) <=> InCharge(c)',
         UNCHANGED httpVars
  PROVE  UNCHANGED Life!vars
<1>1. Carriers' = Carriers
  BY CarriersFollow DEF Carriers
<1> QED
  BY <1>1 DEF Life!vars, Serving, Goto, httpVars

\* One that returns without having served or shut down is in charge of nothing.
LEMMA EmptyOfLife ==
  ASSUME IInv, NEW c \in Calls, ret[c] = "none", UNCHANGED httpVars,
         NEW r \in {"running", "shutdown", "listen"}, Return(c, r)
  PROVE  Life!ReturnEmpty(c)
<1>1. ~InCharge(c)'
  BY DEF InCharge, Serves, Carries, Shutting, Return, IInv, TypeOK
<1>2. Carriers' = Carriers \ {c}
  BY <1>1, CarriersFollow DEF Returns
<1> QED
  BY <1>2 DEF Life!ReturnEmpty, Life!Return, Serving, Return, httpVars

\* A step of a call of Run, of Shutdown, of what they have in common, and of the rest.

LEMMA RunOfLife ==
  ASSUME IInv, ServedOnce, NEW c \in Runs, CheckState(c) \/ RunStep(c)
  PROVE  [Life!Next]_(Life!vars)
<1> c \in Calls /\ (pc[c] = "returned" <=> ret[c] # "none")
  BY DEF Calls, IInv, CallsInOrder
<1>1. CASE CheckState(c) /\ state = "new"
  <2>1. Goto(c, "listen") /\ InCharge(c)' /\ UNCHANGED httpVars
    BY <1>1 DEF CheckState, Goto, InCharge, Serves, Carries, Shutting, IInv, TypeOK
  <2>2. Life!Take(c)
    BY <1>1, <2>1, TakeOfLife DEF CheckState, IInv, CallsInOrder
  <2> QED
    BY <2>2 DEF Life!Next, Life!Calls, Calls
<1>2. CASE (CheckState(c) /\ state # "new") \/ (Listen(c) /\ Goto(c, "recheck")) \/ FirstSignal(c)
  <2>1. PICK l \in {"busy", "recheck", "request"} : Goto(c, l)
    BY <1>2 DEF CheckState, FirstSignal
  <2>2. (InCharge(c) <=> InCharge(c)') /\ UNCHANGED httpVars
    BY <1>2, CallsAssumption DEF CheckState, Listen, FirstSignal, Goto,
       InCharge, Serves, Carries, Shutting, IInv, TypeOK
  <2> QED
    BY <2>1, <2>2, MoveOfLife DEF Pc
<1>3. CASE CheckStateFails(c) \/ (Listen(c) /\ Return(c, "listen")) \/ (Recheck(c) /\ state = "shutdown")
  <2>1. PICK r \in {"running", "shutdown", "listen"} : Return(c, r)
    BY <1>3 DEF CheckStateFails, Recheck, RunReturns
  <2>2. UNCHANGED httpVars /\ ret[c] = "none"
    BY <1>3 DEF CheckStateFails, Listen, Recheck, httpVars
  <2>3. Life!ReturnEmpty(c)
    BY <2>1, <2>2, EmptyOfLife
  <2> QED
    BY <2>3 DEF Life!Next, Life!Calls, Calls
<1>4. CASE Recheck(c) /\ state # "shutdown"
  <2>1. Goto(c, "wait") /\ InCharge(c)' /\ c \in Carriers
    BY <1>4, CallsAssumption DEF Recheck, Goto, Carriers, InCharge, Serves, Carries, Shutting, IInv, TypeOK
  <2>2. Carriers' = Carriers
    BY <2>1, CarriersFollow DEF Pc
  <2>3. Serving' = Serving
    BY <1>4 DEF Recheck, Serving, ServedOnce
  <2> QED
    BY <1>4, <2>2, <2>3 DEF Recheck, Goto, Life!vars
<1>5. CASE SeeServeEnd(c)
  <2>1. PICK r \in {"nil", "serve"} : Return(c, r) /\ (r = "nil" => serve = "closed")
    BY <1>5 DEF SeeServeEnd, RunReturns
  <2>2. InCharge(c)' /\ c \in Carriers /\ ret[c] = "none" /\ Serving = "over"
    BY <1>5, <2>1 DEF SeeServeEnd, Return, Carriers, Serving,
       InCharge, Serves, Carries, Shutting, IInv, TypeOK
  <2>3. Carriers' = Carriers
    BY <2>1, <2>2, CarriersFollow DEF Returns
  <2>4. Life!ReturnServed(c)
    BY <1>5, <2>1, <2>2, <2>3
       DEF SeeServeEnd, Return, Life!ReturnServed, Life!Carrying, Life!Return, httpVars,
           Serving, IInv, StoppingHasCause
  <2> QED
    BY <2>4 DEF Life!Next, Life!Calls, Calls
<1> QED
  BY <1>1, <1>2, <1>3, <1>4, <1>5 DEF RunStep, Listen

LEMMA StopOfLife ==
  ASSUME IInv, NEW c \in Stops, ShutdownRunning(c) \/ StopStep(c)
  PROVE  [Life!Next]_(Life!vars)
<1> c \in Calls /\ (pc[c] = "returned" <=> ret[c] # "none")
  BY DEF Calls, IInv, CallsInOrder
<1>1. CASE Goto(c, "request")
  <2>1. InCharge(c)' /\ ret[c] = "none" /\ state # "shutdown" /\ UNCHANGED httpVars
    <3>0. pc'[c] = "request"
      BY <1>1 DEF Goto, IInv, TypeOK
    <3>1. pc[c] \in {"idle", "cas"} /\ state # "shutdown" /\ UNCHANGED httpVars
      BY <3>0 DEF ShutdownRunning, StopStep, ShutdownLoad, ShutdownNew, Goto, Return, IInv, TypeOK
    <3>2. InCharge(c)'
      BY <1>1 DEF Goto, InCharge, Serves, Carries, Shutting, IInv, TypeOK
    <3> QED
      BY <3>1, <3>2
  <2>2. Life!Take(c)
    BY <1>1, <2>1, TakeOfLife
  <2> QED
    BY <2>2 DEF Life!Next, Life!Calls, Calls
<1>2. CASE Goto(c, "load") \/ Goto(c, "cas")
  <2>1. (InCharge(c) <=> InCharge(c)') /\ UNCHANGED httpVars
    BY <1>2, CallsAssumption DEF ShutdownRunning, StopStep, ShutdownLoad, ShutdownNew, Goto,
       Return, InCharge, Serves, Carries, Shutting, IInv, TypeOK
  <2> QED
    BY <1>2, <2>1, MoveOfLife DEF Pc
<1>3. CASE Return(c, "shutdown")
  <2>1. ret[c] = "none" /\ UNCHANGED httpVars
    BY DEF ShutdownRunning, StopStep, ShutdownLoad, ShutdownNew
  <2>2. Life!ReturnEmpty(c)
    BY <1>3, <2>1, EmptyOfLife
  <2> QED
    BY <2>2 DEF Life!Next, Life!Calls, Calls
<1> QED
  BY <1>1, <1>2, <1>3 DEF ShutdownRunning, StopStep, ShutdownLoad, ShutdownNew

LEMMA CommonOfLife ==
  ASSUME IInv, NEW c \in Calls, CommonStep(c)
  PROVE  [Life!Next]_(Life!vars)
<1> pc[c] = "returned" <=> ret[c] # "none"
  BY DEF IInv, CallsInOrder
<1>1. c \in Carriers /\ ret[c] = "none"
  BY DEF CommonStep, RequestShutdown, Shut, Drained, GraceExpires, ForceClose, InCharge,
     Serves, Carries, Shutting, Carriers, Calls
<1>2. InCharge(c)' /\ Carriers' = Carriers
  <2>1. \/ \E l \in {"shut", "drain", "force"} : Goto(c, l)
        \/ \E r \in {"nil", "grace"} : Return(c, r)
    BY DEF CommonStep, RequestShutdown, Shut, Drained, GraceExpires, ForceClose, CallReturns,
       RunReturns
  <2>2. InCharge(c)'
    BY <2>1 DEF Goto, Return, Calls, InCharge, Serves, Carries, Shutting, IInv, TypeOK
  <2> QED
    BY <1>1, <2>1, <2>2, CarriersFollow DEF Pc, Returns
<1>3. CASE RequestShutdown(c) \/ GraceExpires(c)
  BY <1>2, <1>3 DEF RequestShutdown, GraceExpires, Goto, Life!vars, Serving, httpVars
<1>4. CASE Shut(c)
  <2>1. Life!Stop(c)
    BY <1>1, <1>2, <1>4 DEF Shut, HttpShutdownBegins, Goto, Life!Stop, Life!Carrying, Serving
  <2> QED
    BY <2>1 DEF Life!Next, Life!Calls, Calls
<1>5. CASE Drained(c)
  <2>1. stopping
    BY <1>5 DEF Drained, IInv, StoppingHasCause, Told, Calls
  <2>2. Life!ReturnDrained(c)
    BY <1>1, <1>2, <1>5, <2>1
       DEF Drained, CallReturns, RunReturns, Return, NoneOpen, httpVars, Serving,
           Life!ReturnDrained, Life!Carrying, Life!NoneOpen, Life!Return
  <2> QED
    BY <2>2 DEF Life!Next, Life!Calls, Calls
<1>6. CASE ForceClose(c)
  <2>1. Life!DropAfterGrace(c)
    BY <1>1, <1>2, <1>6
       DEF ForceClose, HttpClose, CallReturns, RunReturns, Return, Serving,
           Life!DropAfterGrace, Life!Carrying, Life!Drop, Life!Return
  <2> QED
    BY <2>1 DEF Life!Next, Life!Calls, Calls
<1> QED
  BY <1>3, <1>4, <1>5, <1>6 DEF CommonStep

LEMMA OtherOfLife ==
  ASSUME IInv, Signal \/ KillerStep \/ HttpStep \/ UNCHANGED vars
  PROVE  [Life!Next]_(Life!vars)
<1>1. UNCHANGED <<pc, ret>>
  BY DEF Signal, KillerStep, KillerWakes, KillerCloses, HttpStep, ServeBegins, ServeEnds,
     Accept, HandlerReturns, vars
<1>2. Carriers' = Carriers
  BY <1>1 DEF Carriers, InCharge, Serves, Carries
<1> USE DEF Serving, httpVars
<1>3. CASE UNCHANGED httpVars
  BY <1>1, <1>2, <1>3 DEF Life!vars
<1>4. CASE KillerCloses
  BY <1>1, <1>2, <1>4 DEF KillerCloses, HttpClose, Life!Next, Life!DropBySignal, Life!Drop
<1>5. CASE ServeBegins \/ ServeEnds
  BY <1>1, <1>2, <1>5 DEF ServeBegins, ServeEnds, Life!Next, Life!Open, Life!End
<1>6. ASSUME NEW q \in Requests, Accept(q) \/ HandlerReturns(q) PROVE Life!Next
  BY <1>1, <1>2, <1>6 DEF Accept, HandlerReturns, Live, Life!Next, Life!Accept,
     Life!HandlerReturns
<1> QED
  BY <1>3, <1>4, <1>5, <1>6 DEF Signal, KillerStep, KillerWakes, HttpStep, vars

\* In terms of its calls and its requests the server is the one ServerLife describes,
\* for any number of calls, requests and signals.
THEOREM Refinement == Spec => ImplementsServerLife
<1>1. Init => ServedOnce /\ Life!Init
  <2> SUFFICES ASSUME Init PROVE ServedOnce /\ Life!Init
    OBVIOUS
  <2>1. Carriers = {}
    BY DEF Init, Carriers, InCharge, Serves, Carries, Shutting
  <2> QED
    BY <2>1 DEF Init, ServedOnce, Life!Init, Life!Calls, Calls, Serving
<1>2. IInv /\ ServedOnce /\ [Next]_vars => ServedOnce'
  BY NextServedOnce
<1>3. IInv /\ ServedOnce /\ [Next]_vars => [Life!Next]_(Life!vars)
  BY RunOfLife, StopOfLife, CommonOfLife, OtherOfLife DEF Next
<1> QED
  BY <1>1, <1>2, <1>3, Invariant, PTL DEF Spec, ImplementsServerLife, Life!Spec

=============================================================================
