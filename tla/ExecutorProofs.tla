--------------------------- MODULE ExecutorProofs ---------------------------
(***************************************************************************)
(* Theorems about Executor, whatever descendants a command leaves.  What   *)
(* is proved of ProcessRunner is taken over: a step of Executor is a step  *)
(* of the process or leaves it alone.                                      *)
(***************************************************************************)
EXTENDS Executor, TLAPS

Runner == INSTANCE ProcessRunnerProofs

-----------------------------------------------------------------------------
\* The inductive invariant.

\* Where Execute stands tells what became of the process, and its response is
\* what became of it.
ExecuteFollowsProcess ==
  /\ pc \in {"idle", "start"} => leader = "none"
  /\ pc = "run" => waiter = "off" /\ leader \notin {"none", "failed"}
  /\ pc = "wait" => ~async
  /\ pc = "release" => leader = "failed" \/ (~async /\ waiter = "closed")
  /\ pc # "returned" => response = "none"
  /\ pc = "returned" =>
       \/ leader = "none" /\ response \in {"busy", "pre"}
       \/ leader = "failed" /\ response = "pre"
       \/ async /\ consumer # "off" /\ response = "exit0"
       \/ /\ ~async /\ waiter = "closed"
          /\ response = IF result = "error" THEN "runtime" ELSE result

\* The goroutine that reads the result of an asynchronous command.
ConsumerFollowsProcess ==
  /\ consumer # "off" <=> async /\ waiter # "off"
  /\ consumer # "off" => pc = "returned"
  /\ consumer \in {"cancel", "close", "closed"} => waiter \in {"made", "closed"}

\* The gate is held from the admission to the end of the command.
GateFollowsExecute ==
  /\ ~gated => gate = "idle"
  /\ pc = "idle" => gate \in {"idle", "asking"}
  /\ gated /\ pc \in {"start", "run", "wait", "release"} => gate = "inside"
  /\ gated /\ pc = "returned" =>
       \/ leader = "none" /\ gate \in {"idle", "refused"}
       \/ consumer # "off" /\ gate = "inside"
       \/ gate = "left" /\ (leader = "failed" \/ waiter \in {"made", "closed"})

\* Only a timeout ends the context of an asynchronous command, and its output
\* cannot be lost.
AsyncIsDetached == async => (ctxDone => timed) /\ copier # "failed"

IInv ==
  /\ TypeOK
  /\ Runner!IInv
  /\ ExecuteFollowsProcess
  /\ ConsumerFollowsProcess
  /\ GateFollowsExecute
  /\ AsyncIsDetached

LEMMA Descendants == Runner!ChildKindsAssumption
BY DescendantsAssumption
   DEF Runner!ChildKindsAssumption, Runner!AllChildKinds, Process!AllChildKinds

LEMMA InitIInv == Init => IInv
<1> SUFFICES ASSUME Init PROVE IInv
  OBVIOUS
<1>1. Runner!Init
  BY DEF Init, Process!Init, Runner!Init
<1>2. Runner!IInv
  BY <1>1, Descendants, Runner!InitIInv
<1>3. TypeOK
  BY DEF Init, TypeOK, Process!Init, Process!TypeOK, Process!LeaderStates, Process!Exits,
         Process!ChildStates, Process!CopierStates, Process!WaiterPc, Process!Results,
         Process!TermPc, GateStatus, ExecutePc, ConsumerPc, Responses
<1>4. ExecuteFollowsProcess /\ ConsumerFollowsProcess /\ GateFollowsExecute /\ AsyncIsDetached
  BY DEF Init, Process!Init, ExecuteFollowsProcess, ConsumerFollowsProcess,
         GateFollowsExecute, AsyncIsDetached
<1> QED
  BY <1>2, <1>3, <1>4 DEF IInv

\* A step of Executor is a step of its process, or leaves the process alone.
LEMMA StepOfRunner == [Next]_vars => [Runner!Next]_(Runner!vars)
<1> SUFFICES ASSUME [Next]_vars PROVE [Runner!Next]_(Runner!vars)
  OBVIOUS
<1> USE DEF Runner!Next, Runner!vars, Runner!osVars
<1>1. CASE UNCHANGED procVars
  BY <1>1 DEF procVars
<1>2. CASE Process!CtxDone
  BY <1>2 DEF Process!CtxDone, Runner!CtxDone, Process!osVars
<1>3. CASE Process!StartProcess
  BY <1>3 DEF Process!StartProcess, Runner!StartProcess, Process!osVars
<1>4. CASE Process!Wait
  BY <1>4 DEF Process!Wait, Runner!Wait, Runner!WaiterStep, Process!osVars
<1>5. CASE ProcessStep
  <2>1. CASE Process!OsStep
    BY <2>1 DEF Process!OsStep, Process!Fork, Process!LeaderExits, Process!ChildExits,
       Process!CopyEnds, Process!CopyFails, Process!HoldsPipe,
       Runner!OsStep, Runner!Fork, Runner!LeaderExits, Runner!ChildExits,
       Runner!CopyEnds, Runner!CopyFails, Runner!HoldsPipe
  <2>2. CASE Process!Reap \/ Process!MakeResult \/ Process!CloseDone
    BY <2>2 DEF Process!Reap, Process!MakeResult, Process!CloseDone, Process!ResultOf,
       Process!osVars, Runner!WaiterStep, Runner!Reap, Runner!MakeResult,
       Runner!CloseDone, Runner!ResultOf
  <2>3. CASE Process!TerminatorStep
    BY <2>3 DEF Process!TerminatorStep, Process!SeeDone, Process!SeeCtx,
       Process!CheckDone, Process!SendTerm, Process!GraceExpires, Process!SendKill,
       Process!GotoTerm, Process!InGroup, Process!osVars,
       Runner!TerminatorStep, Runner!SeeDone, Runner!SeeCtx,
       Runner!CheckDone, Runner!SendTerm, Runner!GraceExpires, Runner!SendKill,
       Runner!GotoTerm, Runner!InGroup
  <2> QED
    BY <1>5, <2>1, <2>2, <2>3 DEF ProcessStep, DiscardSucceeds
<1>6. CASE UNCHANGED vars
  BY <1>1, <1>6 DEF vars
<1> QED
  <2>1. CASE RequestEnds \/ TimeoutExpires \/ Admitted \/ Refused
    BY <1>1, <1>2, <2>1 DEF RequestEnds, TimeoutExpires, Admitted, Refused
  <2>2. CASE ExecuteStep
    BY <1>1, <1>3, <1>4, <2>2 DEF ExecuteStep, RunUngated, RegistryFails, Ask, Start,
       WaitAsync, WaitSync, WaitSyncReturns, ReleaseAndReturn
  <2>3. CASE ConsumerStep \/ ReleaseAfterDone
    BY <1>1, <1>2, <2>3 DEF ConsumerStep, ReceiveResult, Cancel, CloseAsyncDone,
       ReleaseAfterDone
  <2> QED
    BY <1>5, <1>6, <2>1, <2>2, <2>3 DEF Next

\* What is proved of the process therefore holds here.
LEMMA RunnerIInv == ASSUME IInv, [Next]_vars PROVE Runner!IInv'
BY StepOfRunner, Descendants, Runner!NextIInv DEF IInv

-----------------------------------------------------------------------------

\* The types of the process, as Executor names them.
LEMMA ProcessTypes == Runner!IInv' => Process!TypeOK'
BY DEF Runner!IInv, Runner!TypeOK, Process!TypeOK, Runner!LeaderStates, Runner!Exits,
       Runner!ChildStates, Runner!CopierStates, Runner!WaiterPc, Runner!Results,
       Runner!TermPc, Process!LeaderStates, Process!Exits, Process!ChildStates,
       Process!CopierStates, Process!WaiterPc, Process!Results, Process!TermPc

\* What the proofs need to know of the process from its own invariant.
LEMMA ProcessFacts ==
  ASSUME IInv
  PROVE  /\ waiter # "off" => leader \in {"running", "zombie", "reaped"}
         /\ waiter \in {"drain", "made", "closed"} <=> leader = "reaped"
         /\ copier = "off" <=> leader \in {"none", "failed"}
         /\ waiter \in {"made", "closed"} =>
              copier \in {"eof", "failed"} /\ result \in {"exit0", "exitN", "error"}
         /\ result # "none" => waiter \in {"made", "closed"}
         /\ leader \in {"none", "failed", "running", "zombie", "reaped"}
         /\ waiter \in {"off", "wait", "drain", "made", "closed"}
         /\ result \in {"none", "exit0", "exitN", "error"}
BY DEF IInv, Runner!IInv, Runner!TypeOK, Runner!WaiterFollowsProcess, Runner!ResultOf,
       Runner!LeaderStates, Runner!WaiterPc, Runner!Results, Runner!CopierStates

\* The rest of the invariant, without the types.
Flow ==
  ExecuteFollowsProcess /\ ConsumerFollowsProcess /\ GateFollowsExecute /\ AsyncIsDetached

\* The process on its own: it ends, its waiter goes on, signals are sent.
LEMMA ProcessStepMoves ==
  ASSUME IInv, ProcessStep
  PROVE  /\ leader \in {"none", "failed"} <=> leader' \in {"none", "failed"}
         /\ leader \in {"none", "failed"} => leader' = leader
         /\ waiter = "off" <=> waiter' = "off"
         /\ waiter \in {"made", "closed"} => waiter' \in {"made", "closed"} /\ result' = result
         /\ waiter = "closed" => waiter' = "closed"
         /\ ctxDone' = ctxDone
<1> USE DEF ProcessStep, DiscardSucceeds
<1>1. CASE Process!OsStep
  BY <1>1 DEF Process!OsStep, Process!Fork, Process!LeaderExits, Process!ChildExits,
     Process!CopyEnds, Process!CopyFails
<1>2. CASE Process!Reap \/ Process!MakeResult \/ Process!CloseDone
  BY <1>2 DEF Process!Reap, Process!MakeResult, Process!CloseDone, Process!osVars
<1>3. CASE Process!TerminatorStep
  BY <1>3 DEF Process!TerminatorStep, Process!SeeDone, Process!SeeCtx,
     Process!CheckDone, Process!SendTerm, Process!GraceExpires, Process!SendKill,
     Process!GotoTerm, Process!osVars
<1> QED
  BY <1>1, <1>2, <1>3

LEMMA ProcessStepFlow == ASSUME IInv, ProcessStep PROVE Flow'
<1> USE ProcessStepMoves, ProcessFacts DEF IInv
<1>1. UNCHANGED <<setup, reqDone, expired, execVars>> /\ (async => copier' # "failed")
  BY DEF ProcessStep, DiscardSucceeds
<1>2. ExecuteFollowsProcess'
  BY <1>1 DEF ExecuteFollowsProcess, setup, execVars
<1>3. ConsumerFollowsProcess'
  BY <1>1 DEF ConsumerFollowsProcess, setup, execVars
<1>4. GateFollowsExecute'
  BY <1>1 DEF GateFollowsExecute, setup, execVars
<1>5. AsyncIsDetached'
  BY <1>1 DEF AsyncIsDetached, setup
<1> QED
  BY <1>2, <1>3, <1>4, <1>5 DEF Flow

LEMMA NextTypeOK == ASSUME IInv, [Next]_vars PROVE TypeOK'
<1>1. Process!TypeOK'
  BY RunnerIInv, ProcessTypes
<1> DEFINE Rest == /\ async \in BOOLEAN /\ gated \in BOOLEAN /\ timed \in BOOLEAN
                   /\ reqDone \in BOOLEAN /\ expired \in BOOLEAN
                   /\ gate \in GateStatus /\ pc \in ExecutePc
                   /\ consumer \in ConsumerPc /\ response \in Responses
<1>2. Rest
  BY DEF IInv, TypeOK
<1> SUFFICES Rest'
  BY <1>1 DEF TypeOK
<1> USE DEF setup, execVars, GateStatus, ExecutePc, ConsumerPc, Responses
<1>3. CASE RequestEnds \/ TimeoutExpires \/ Admitted \/ Refused
  <2>1. CASE RequestEnds \/ TimeoutExpires
    <3>1. UNCHANGED <<setup, execVars>> /\ reqDone' \in BOOLEAN /\ expired' \in BOOLEAN
      BY <1>2, <2>1 DEF RequestEnds, TimeoutExpires
    <3> QED
      BY <1>2, <3>1
  <2>2. CASE Admitted \/ Refused
    BY <1>2, <2>2 DEF Admitted, Refused, Return
  <2> QED
    BY <1>3, <2>1, <2>2
<1>4. CASE RunUngated \/ RegistryFails \/ Ask \/ Start \/ WaitAsync \/ WaitSync \/ WaitSyncReturns
  BY <1>2, <1>4 DEF RunUngated, RegistryFails, Ask, Start, WaitAsync, WaitSync,
     WaitSyncReturns, Return
<1>5. CASE ReleaseAndReturn
  <2>1. response' \in Responses
    BY <1>5, ProcessFacts DEF ReleaseAndReturn, Return
  <2> QED
    BY <1>2, <1>5, <2>1 DEF ReleaseAndReturn, Return, GiveBack
<1>6. CASE ConsumerStep \/ ReleaseAfterDone
  BY <1>2, <1>6 DEF ConsumerStep, ReceiveResult, Cancel, CloseAsyncDone,
     ReleaseAfterDone, GiveBack
<1>7. CASE ProcessStep \/ UNCHANGED vars
  BY <1>2, <1>7 DEF ProcessStep, DiscardSucceeds, vars
<1> QED
  BY <1>3, <1>4, <1>5, <1>6, <1>7 DEF Next, ExecuteStep

LEMMA NextFlow == ASSUME IInv, [Next]_vars PROVE Flow'
<1> USE DEF IInv, Flow, ExecuteFollowsProcess, ConsumerFollowsProcess, GateFollowsExecute,
            AsyncIsDetached, setup, procVars, execVars
\* The contexts and the gate.
<1>1. CASE RequestEnds \/ TimeoutExpires
  BY <1>1 DEF RequestEnds, TimeoutExpires, Process!CtxDone, Process!osVars
<1>2. CASE RunUngated \/ RegistryFails \/ Ask \/ Admitted \/ Refused
  BY <1>2 DEF RunUngated, RegistryFails, Ask, Admitted, Refused, Return
\* The action.
<1>3. CASE Start
  BY <1>3, ProcessFacts DEF Start, Process!StartProcess, Process!osVars
<1>4. CASE WaitAsync \/ WaitSync
  BY <1>4, ProcessFacts DEF WaitAsync, WaitSync, Process!Wait, Process!osVars, Return
<1>5. CASE WaitSyncReturns
  BY <1>5 DEF WaitSyncReturns
<1>6. CASE ReleaseAndReturn
  <2>1. /\ pc = "release" /\ pc' = "returned"
        /\ response' = CASE leader = "failed" -> "pre"
                         [] result = "error" -> "runtime"
                         [] OTHER -> result
        /\ gate' = IF gated THEN "left" ELSE gate
        /\ UNCHANGED <<procVars, setup, reqDone, expired, consumer>>
    BY <1>6 DEF ReleaseAndReturn, Return, GiveBack
  <2>2. CASE leader = "failed"
    <3>1. response' = "pre" /\ waiter = "off"
      BY <2>1, <2>2, ProcessFacts
    <3> QED
      BY <2>1, <2>2, <3>1
  <2>3. CASE leader # "failed"
    <3>1. response' = IF result = "error" THEN "runtime" ELSE result
      BY <2>1, <2>3
    <3>2. ~async /\ waiter = "closed"
      BY <2>1, <2>3
    <3> QED
      BY <2>1, <2>3, <3>1, <3>2
  <2> QED
    BY <2>2, <2>3
\* The goroutines of an asynchronous command.
<1>7. CASE ReceiveResult \/ CloseAsyncDone
  BY <1>7 DEF ReceiveResult, CloseAsyncDone
<1>8. CASE Cancel
  BY <1>8 DEF Cancel, Process!CtxDone, Process!osVars
<1>9. CASE ReleaseAfterDone
  BY <1>9 DEF ReleaseAfterDone, GiveBack
<1>10. CASE ProcessStep
  BY <1>10, ProcessStepFlow
<1>11. CASE UNCHANGED vars
  BY <1>11 DEF vars
<1> QED
  BY <1>1, <1>2, <1>3, <1>4, <1>5, <1>6, <1>7, <1>8, <1>9, <1>10, <1>11
     DEF Next, ExecuteStep, ConsumerStep

LEMMA NextIInv == IInv /\ [Next]_vars => IInv'
BY NextTypeOK, RunnerIInv, NextFlow DEF IInv, Flow

-----------------------------------------------------------------------------

\* The invariant holds in every behaviour.
THEOREM Invariant == Spec => []IInv
BY InitIInv, NextIInv, PTL DEF Spec

\* The variables keep their types.
THEOREM TypeCorrect == Spec => []TypeOK
BY Invariant, PTL DEF IInv

\* The gate is held as long as the command lives, whatever happens to the
\* request and to the goroutines.
THEOREM GateHeld == Spec => []GateCoversCommand
<1>1. IInv => GateCoversCommand
  <2> SUFFICES ASSUME IInv, gated, leader \in {"running", "zombie"} PROVE gate = "inside"
    BY DEF GateCoversCommand
  <2> QED
    BY ProcessFacts DEF IInv, TypeOK, ExecutePc, ExecuteFollowsProcess, GateFollowsExecute
<1> QED
  BY <1>1, Invariant, PTL

\* A synchronous Execute returns after its command has ended, with its result,
\* and with the gate given back.
THEOREM SyncAnswered == Spec => []SyncReturnsLast
<1>1. IInv => SyncReturnsLast
  <2> SUFFICES ASSUME IInv, ~async, pc = "returned"
               PROVE  /\ waiter \in {"off", "closed"}
                      /\ response \in {"exit0", "exitN"} => response = result
                      /\ gate # "inside"
    BY DEF SyncReturnsLast
  <2> QED
    BY ProcessFacts
       DEF IInv, ExecuteFollowsProcess, ConsumerFollowsProcess, GateFollowsExecute
<1> QED
  BY <1>1, Invariant, PTL

\* No signal ever reaches an asynchronous command that has no timeout.
THEOREM AsyncLeftAlone == Spec => []AsyncOutlivesRequest
<1>1. IInv => AsyncOutlivesRequest
  BY DEF IInv, AsyncIsDetached, AsyncOutlivesRequest, Runner!IInv, Runner!Escalation
<1> QED
  BY <1>1, Invariant, PTL

-----------------------------------------------------------------------------
\* The signals of an asynchronous command whose timeout has not expired.

\* The context of such a command is done only when the goroutine that has read the
\* result has called cancel.
OnlyCleanup == async /\ ctxDone /\ ~expired => consumer \in {"close", "closed"}

LEMMA NextOnlyCleanup == ASSUME IInv, OnlyCleanup, [Next]_vars PROVE OnlyCleanup'
<1> USE DEF OnlyCleanup, setup, procVars, execVars
<1>1. CASE RequestEnds \/ TimeoutExpires \/ Admitted \/ Refused
  BY <1>1 DEF RequestEnds, TimeoutExpires, Admitted, Refused
<1>2. CASE RunUngated \/ RegistryFails \/ Ask \/ WaitSyncReturns \/ ReleaseAndReturn
  BY <1>2 DEF RunUngated, RegistryFails, Ask, WaitSyncReturns, ReleaseAndReturn
\* These precede the goroutine that reads the result.
<1>3. CASE Start \/ WaitAsync \/ WaitSync
  <2>1. ctxDone' = ctxDone /\ expired' = expired /\ async' = async
    BY <1>3 DEF Start, Process!StartProcess, WaitAsync, WaitSync, Process!Wait, Process!osVars
  <2>2. consumer = "off"
    BY <1>3, ProcessFacts DEF Start, WaitAsync, WaitSync, IInv, ExecuteFollowsProcess,
       ConsumerFollowsProcess
  <2> QED
    BY <2>1, <2>2
<1>4. CASE ConsumerStep \/ ReleaseAfterDone
  BY <1>4 DEF ConsumerStep, ReceiveResult, Cancel, CloseAsyncDone, ReleaseAfterDone
<1>5. CASE ProcessStep
  BY <1>5, ProcessStepMoves DEF ProcessStep, DiscardSucceeds
<1>6. CASE UNCHANGED vars
  BY <1>6 DEF vars
<1> QED
  BY <1>1, <1>2, <1>3, <1>4, <1>5, <1>6 DEF Next, ExecuteStep

\* Such a command is not signalled before it was waited for and its result was
\* there: what is signalled then is a group whose leader is gone.
CleanupSparesCommand ==
  async /\ ~expired /\ sent # {} => timed /\ leader = "reaped" /\ result # "none"

\* How much of NoSignalForCleanup holds: the cancel() that follows the result may send
\* a signal, as the run of that property shows, but none that reaches the command.
THEOREM CleanupTooLate == Spec => []CleanupSparesCommand
<1>1. Init => OnlyCleanup
  BY DEF Init, OnlyCleanup, Process!Init
<1>2. IInv /\ OnlyCleanup /\ [Next]_vars => OnlyCleanup'
  BY NextOnlyCleanup
<1>3. ASSUME IInv, OnlyCleanup PROVE CleanupSparesCommand
  <2> SUFFICES ASSUME async, ~expired, sent # {}
               PROVE  timed /\ leader = "reaped" /\ result # "none"
    BY DEF CleanupSparesCommand
  <2>1. ctxDone
    BY <1>3 DEF IInv, Runner!IInv, Runner!Escalation
  <2>2. waiter \in {"made", "closed"}
    BY <1>3, <2>1 DEF OnlyCleanup, IInv, ConsumerFollowsProcess
  <2>3. timed
    BY <1>3, <2>1 DEF IInv, AsyncIsDetached
  <2> QED
    BY <1>3, <2>2, <2>3, ProcessFacts
<1> QED
  BY <1>1, <1>2, <1>3, Invariant, PTL DEF Spec

-----------------------------------------------------------------------------
\* Executor runs one process, by the rules.

\* Inside a request, too, whoever takes part, a process is started, waited for and
\* terminated as ProcessRunner says; so its result is a fact, its signals come in
\* order, a context that ends too late does nothing, and it ends as Commands says.
THEOREM RunsOneProcess ==
  Spec => /\ Runner!Spec
          /\ [](Runner!ReportedExitIsReal /\ Runner!Escalation)
          /\ Runner!LateCancelIsHarmless
          /\ Runner!ImplementsCommands
<1>1. Init => Runner!Init
  BY DEF Init, Process!Init, Runner!Init
<1>2. Spec => Runner!Spec
  BY <1>1, StepOfRunner, PTL DEF Spec, Runner!Spec
<1>3. Runner!Spec => []Runner!ReportedExitIsReal
  BY Descendants, Runner!ResultIsReal
<1>4. Runner!Spec => [](Runner!KillSweepsGroup /\ Runner!Escalation)
  BY Descendants, Runner!SignalsSound
<1>5. Runner!Spec => Runner!LateCancelIsHarmless
  BY Descendants, Runner!LateCancel
<1>6. Runner!Spec => Runner!ImplementsCommands
  BY Descendants, Runner!Refinement
<1> QED
  BY <1>2, <1>3, <1>4, <1>5, <1>6, PTL

-----------------------------------------------------------------------------
\* Executor keeps to the call gate.

\* This call and its gate, as CallGate sees them.
OneCall == INSTANCE CallGate WITH Calls <- {"this"}, status <- [c \in {"this"} |-> gate]

\* Whatever becomes of the request, the command and the goroutines, the call asks the
\* gate once, uses it only if it was admitted, and releases it at most once: what
\* CallGate, and so SingleGate and SequenceGate, expect of their callers.
THEOREM GateProtocol == Spec => OneCall!Spec
<1>1. Init => OneCall!Init
  BY DEF Init, OneCall!Init
<1>2. ASSUME IInv, [Next]_vars PROVE [OneCall!Next]_([c \in {"this"} |-> gate])
  <2> USE DEF OneCall!Next, OneCall!Inside, OneCall!Move
  <2>1. CASE UNCHANGED gate
    BY <2>1
  <2>2. CASE gate = "idle" /\ gate' = "asking"
    BY <2>2 DEF OneCall!Wait
  <2>3. CASE gate = "asking" /\ gate' = "inside"
    BY <2>3 DEF OneCall!Admit
  <2>4. CASE gate = "asking" /\ gate' = "refused"
    BY <2>4 DEF OneCall!Refuse
  <2>5. CASE gate = "inside" /\ gate' = "left"
    BY <2>5 DEF OneCall!Leave
  <2>6. CASE ReleaseAndReturn \/ ReleaseAfterDone
    BY <1>2, <2>1, <2>5, <2>6 DEF ReleaseAndReturn, ReleaseAfterDone, GiveBack, IInv,
       GateFollowsExecute
  <2>7. CASE RunUngated \/ RegistryFails \/ Ask \/ Admitted \/ Refused
    BY <2>1, <2>2, <2>3, <2>4, <2>7 DEF RunUngated, RegistryFails, Ask, Admitted, Refused
  <2>8. CASE \/ RequestEnds \/ TimeoutExpires \/ Start \/ WaitAsync \/ WaitSync
             \/ WaitSyncReturns \/ ConsumerStep \/ ProcessStep \/ UNCHANGED vars
    BY <2>1, <2>8 DEF RequestEnds, TimeoutExpires, Start, WaitAsync, WaitSync, WaitSyncReturns,
       ConsumerStep, ReceiveResult, Cancel, CloseAsyncDone, ProcessStep, DiscardSucceeds, vars, execVars
  <2> QED
    BY <1>2, <2>6, <2>7, <2>8 DEF Next, ExecuteStep
<1> QED
  BY <1>1, <1>2, Invariant, PTL DEF Spec, OneCall!Spec

-----------------------------------------------------------------------------
\* Executor implements Execution.

\* The abstract command, and the abstract answer, in words of the process.
LEMMA CommandIs ==
  ASSUME leader \in {"none", "failed", "running", "zombie", "reaped"}
  PROVE  /\ CommandOf = "none" <=> leader \in {"none", "failed"}
         /\ CommandOf = "running" <=> leader = "running"
         /\ CommandOf = "ended" <=> leader \in {"zombie", "reaped"}
<1>1. CASE leader \in {"none", "failed"}
  BY <1>1 DEF CommandOf
<1>2. CASE leader = "running"
  BY <1>2 DEF CommandOf
<1>3. CASE leader \in {"zombie", "reaped"}
  BY <1>3 DEF CommandOf
<1> QED
  BY <1>1, <1>2, <1>3

\* A step that leaves the leader in one of these groups leaves the abstract
\* command as it is.
LEMMA CommandStays ==
  ASSUME \/ leader' = leader
         \/ leader = "none" /\ leader' = "failed"
         \/ leader = "zombie" /\ leader' = "reaped"
  PROVE  CommandOf' = CommandOf
<1>1. CASE leader' = leader
  BY <1>1 DEF CommandOf
<1>2. CASE leader = "none" /\ leader' = "failed"
  BY <1>2 DEF CommandOf
<1>3. CASE leader = "zombie" /\ leader' = "reaped"
  BY <1>3 DEF CommandOf
<1> QED
  BY <1>1, <1>2, <1>3

LEMMA CommandBegins ==
  ASSUME leader = "none", leader' = "running"
  PROVE  CommandOf = "none" /\ CommandOf' = "running"
BY DEF CommandOf

LEMMA CommandStops ==
  ASSUME leader = "running", leader' = "zombie"
  PROVE  CommandOf = "running" /\ CommandOf' = "ended"
BY DEF CommandOf

LEMMA InitPromise == Init => Promise!Init
BY DEF Init, Process!Init, Promise!Init, CommandOf

\* The process on its own ends, loses output, or does what is not promised.
LEMMA ProcessStepKeepsPromise ==
  ASSUME IInv, ProcessStep
  PROVE  [Promise!Next]_(Promise!vars)
<1> USE DEF Promise!Next, Promise!vars
<1>1. UNCHANGED <<async, response>> /\ (async => copier' # "failed")
  BY DEF ProcessStep, DiscardSucceeds, setup, execVars
<1>2. ASSUME leader = "running", leader' = "zombie", exit' \in {"zero", "nonzero", "signal"},
             copier' = copier
      PROVE  Promise!End
  BY <1>1, <1>2, CommandStops DEF Promise!End
<1>3. ASSUME leader' = leader \/ (leader = "zombie" /\ leader' = "reaped"),
             UNCHANGED <<exit, copier>>
      PROVE  UNCHANGED Promise!vars
  BY <1>1, <1>3, CommandStays
<1>4. CASE Process!OsStep
  <2>1. CASE Process!Fork \/ Process!ChildExits
    BY <1>3, <2>1 DEF Process!Fork, Process!ChildExits
  <2>2. CASE Process!LeaderExits
    BY <1>2, <2>2 DEF Process!LeaderExits
  <2>3. CASE Process!CopyEnds
    BY <1>1, <2>3, CommandStays DEF Process!CopyEnds
  <2>4. CASE Process!CopyFails
    <3>1. copier = "copying" /\ copier' = "failed" /\ UNCHANGED <<leader, exit>>
      BY <2>4 DEF Process!CopyFails
    <3>2. CommandOf' = CommandOf /\ CommandOf # "none"
      BY <3>1, ProcessFacts, CommandIs, CommandStays
    <3>3. ~async
      BY <1>1, <3>1
    <3>4. response = "none"
      BY <3>1, <3>3, ProcessFacts
         DEF IInv, TypeOK, ExecutePc, ExecuteFollowsProcess, ConsumerFollowsProcess
    <3>5. Promise!LoseOutput
      BY <1>1, <3>1, <3>2, <3>3, <3>4 DEF Promise!LoseOutput
    <3> QED
      BY <3>5
  <2> QED
    BY <1>4, <2>1, <2>2, <2>3, <2>4 DEF Process!OsStep
<1>5. CASE Process!Reap \/ Process!MakeResult \/ Process!CloseDone
  BY <1>3, <1>5 DEF Process!Reap, Process!MakeResult, Process!CloseDone, Process!osVars
<1>6. CASE Process!TerminatorStep
  <2>1. CASE Process!SendKill
    BY <1>2, <1>3, <2>1 DEF Process!SendKill
  <2>2. CASE ~Process!SendKill
    BY <1>3, <1>6, <2>2 DEF Process!TerminatorStep, Process!SeeDone, Process!SeeCtx,
       Process!CheckDone, Process!SendTerm, Process!GraceExpires, Process!GotoTerm,
       Process!osVars
  <2> QED
    BY <2>1, <2>2
<1> QED
  BY <1>4, <1>5, <1>6 DEF ProcessStep, DiscardSucceeds

\* The answer of a synchronous request, and of a command that did not start.
LEMMA ReleaseKeepsPromise ==
  ASSUME IInv, ReleaseAndReturn
  PROVE  [Promise!Next]_(Promise!vars)
<1>1. /\ pc = "release"
      /\ UNCHANGED <<async, leader, exit, copier>>
      /\ response' = CASE leader = "failed" -> "pre"
                       [] result = "error" -> "runtime"
                       [] OTHER -> result
  BY DEF ReleaseAndReturn, Return, procVars, setup
<1>2. CommandOf' = CommandOf
  BY <1>1, CommandStays
<1>3. response = "none"
  BY <1>1 DEF IInv, ExecuteFollowsProcess
<1>4. CASE leader = "failed"
  <2>1. CommandOf = "none"
    BY <1>4, CommandIs
  <2>2. result = "none"
    BY <1>4, ProcessFacts
  <2>3. response' = "pre"
    BY <1>1, <1>4, <2>2
  <2> QED
    BY <1>1, <1>2, <1>3, <2>1, <2>3 DEF Promise!Next, Promise!Refuse
<1>5. CASE leader # "failed"
  <2>1. response' = IF result = "error" THEN "runtime" ELSE result
    BY <1>1, <1>5
  <2>2. ~async /\ waiter = "closed"
    BY <1>1, <1>5 DEF IInv, ExecuteFollowsProcess
  <2>3. CommandOf = "ended"
    BY <2>2, ProcessFacts, CommandIs
  <2>4. result = Runner!ResultOf /\ copier \in {"eof", "failed"}
    BY <2>2 DEF IInv, Runner!IInv, Runner!WaiterFollowsProcess
  <2>5. response' = Promise!AnswerOf
    <3>1. CASE exit = "zero"
      BY <2>1, <2>2, <2>4, <3>1 DEF Runner!ResultOf, Promise!AnswerOf
    <3>2. CASE exit = "nonzero"
      BY <2>1, <2>2, <2>4, <3>2 DEF Runner!ResultOf, Promise!AnswerOf
    <3>3. CASE exit \notin {"zero", "nonzero"}
      BY <2>1, <2>2, <2>4, <3>3 DEF Runner!ResultOf, Promise!AnswerOf
    <3> QED
      BY <3>1, <3>2, <3>3
  <2> QED
    BY <1>1, <1>2, <1>3, <2>2, <2>3, <2>5 DEF Promise!Next, Promise!Answer
<1> QED
  BY <1>4, <1>5

LEMMA StepKeepsPromise == IInv /\ [Next]_vars => [Promise!Next]_(Promise!vars)
<1> SUFFICES ASSUME IInv, [Next]_vars PROVE [Promise!Next]_(Promise!vars)
  OBVIOUS
<1> USE DEF Promise!Next, Promise!vars, setup, procVars, execVars
<1>1. ASSUME UNCHANGED <<async, leader, exit, copier, response>>
      PROVE  UNCHANGED Promise!vars
  BY <1>1, CommandStays
\* Steps that the promise does not see.
<1>2. CASE RequestEnds \/ TimeoutExpires \/ Cancel
  BY <1>1, <1>2 DEF RequestEnds, TimeoutExpires, Cancel, Process!CtxDone, Process!osVars
<1>3. CASE RunUngated \/ Ask \/ Admitted \/ WaitSyncReturns \/ ReceiveResult
           \/ CloseAsyncDone \/ ReleaseAfterDone
  BY <1>1, <1>3 DEF RunUngated, Ask, Admitted, WaitSyncReturns, ReceiveResult,
     CloseAsyncDone, ReleaseAfterDone
<1>4. CASE WaitSync
  BY <1>1, <1>4 DEF WaitSync, Process!Wait, Process!osVars
<1>5. CASE UNCHANGED vars
  BY <1>1, <1>5 DEF vars
\* Refusals.
<1>6. CASE RegistryFails \/ Refused
  <2>1. /\ UNCHANGED <<async, leader, exit, copier>> /\ pc = "idle"
        /\ response' \in {"busy", "pre"}
    BY <1>6 DEF RegistryFails, Refused, Return
  <2>2. leader = "none" /\ response = "none"
    BY <2>1 DEF IInv, ExecuteFollowsProcess
  <2>3. CommandOf = "none" /\ CommandOf' = CommandOf
    BY <2>1, <2>2, CommandIs, CommandStays
  <2> QED
    BY <2>1, <2>2, <2>3 DEF Promise!Refuse
\* The start, which may fail.
<1>7. CASE Start
  <2>1. /\ UNCHANGED <<async, exit, response>> /\ pc = "start" /\ leader = "none"
        /\ \/ leader' = "running" /\ copier' = "copying"
           \/ leader' = "failed" /\ copier' = copier
    BY <1>7 DEF Start, Process!StartProcess
  <2>2. response = "none" /\ copier = "off"
    BY <2>1, ProcessFacts DEF IInv, ExecuteFollowsProcess
  <2>3. CASE leader' = "running" /\ copier' = "copying"
    BY <2>1, <2>2, <2>3, CommandBegins DEF Promise!Begin
  <2>4. CASE leader' = "failed" /\ copier' = copier
    BY <2>1, <2>4, CommandStays
  <2> QED
    BY <2>1, <2>3, <2>4
\* Answers.
<1>8. CASE WaitAsync
  <2>1. UNCHANGED <<async, leader, exit, copier>> /\ pc = "run" /\ async /\ response' = "exit0"
    BY <1>8 DEF WaitAsync, Process!Wait, Process!osVars, Return
  <2>2. response = "none" /\ leader \notin {"none", "failed"}
    BY <2>1 DEF IInv, ExecuteFollowsProcess
  <2>3. CommandOf # "none" /\ CommandOf' = CommandOf
    BY <2>1, <2>2, ProcessFacts, CommandIs, CommandStays
  <2>4. Promise!AnswerOf = "exit0"
    BY <2>1 DEF Promise!AnswerOf
  <2> QED
    BY <2>1, <2>2, <2>3, <2>4 DEF Promise!Answer
<1>9. CASE ReleaseAndReturn
  BY <1>9, ReleaseKeepsPromise
<1>10. CASE ProcessStep
  BY <1>10, ProcessStepKeepsPromise
<1> QED
  BY <1>2, <1>3, <1>4, <1>5, <1>6, <1>7, <1>8, <1>9, <1>10
     DEF Next, ExecuteStep, ConsumerStep

\* Execute keeps its promise to the handlers: a command that is refused never
\* starts, and an answer tells how the command ended.
THEOREM Refinement == Spec => ImplementsExecution
BY InitPromise, StepKeepsPromise, Invariant, PTL DEF Spec, ImplementsExecution, Promise!Spec

=============================================================================
