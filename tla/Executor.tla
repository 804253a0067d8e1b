------------------------------ MODULE Executor ------------------------------
(***************************************************************************)
(* One request to run a command, from Execute to the return of the call    *)
(* gate: pkg/executor/executor.go on top of pkg/gateexec/gateexec.go, which *)
(* it gives the action to run, and of ProcessRunner, whose steps it shares. *)
(*                                                                         *)
(* A synchronous command runs under the context of the request.  An        *)
(* asynchronous one runs under a context of its own, which ends with the   *)
(* command's timeout, if any, or when the goroutine that reads the result  *)
(* calls cancel; the gate is given back by yet another goroutine, when     *)
(* that one has closed its done channel.                                   *)
(*                                                                         *)
(* The gate is seen from this one call, with the statuses of CallGate:     *)
(* other calls may keep it waiting, or have it refused.                    *)
(***************************************************************************)
CONSTANT ChildKinds

VARIABLES
  grace, leader, exit, child, copier, ctxDone, waiter, result, term, sent,
  async,     \* req.Async; fixed
  gated,     \* req.CallGate # nil; fixed
  timed,     \* req.Timeout # nil; fixed
  reqDone,   \* the context of the request is done
  expired,   \* the timeout of an asynchronous command ended its context
  gate,      \* where this call stands at the call gate
  pc,        \* where Execute stands
  consumer,  \* the goroutine of waitAsyncAndLog
  response   \* the ExecuteResult, by the class of its error or exit code

procVars == <<grace, leader, exit, child, copier, ctxDone, waiter, result, term, sent>>
setup == <<async, gated, timed>>
execVars == <<gate, pc, consumer, response>>
vars == <<procVars, setup, reqDone, expired, execVars>>

Process == INSTANCE ProcessRunner

ASSUME DescendantsAssumption == ChildKinds \subseteq Process!AllChildKinds

GateStatus == {"idle", "asking", "inside", "refused", "left"}
ExecutePc == {"idle", "start", "run", "wait", "release", "returned"}
ConsumerPc == {"off", "receive", "cancel", "close", "closed"}

\* "busy": ErrPreExecution with ErrBusy; "pre": any other ErrPreExecution;
\* "runtime": ErrRuntime; otherwise the exit code, zero or not.
Responses == {"none", "busy", "pre", "runtime", "exit0", "exitN"}

-----------------------------------------------------------------------------

Init ==
  /\ Process!Init
  /\ async \in BOOLEAN /\ gated \in BOOLEAN /\ timed \in BOOLEAN
  /\ reqDone = FALSE /\ expired = FALSE
  /\ gate = "idle" /\ pc = "idle" /\ consumer = "off" /\ response = "none"

\* Mutant: the asynchronous command runs under the context of the request.
RequestEndsForAll ==
  /\ ~reqDone
  /\ reqDone' = TRUE
  /\ Process!CtxDone
  /\ UNCHANGED <<setup, expired, execVars>>

\* The client goes away, the server stops, the timeout of a synchronous
\* command expires, or net/http ends the context after the response.
RequestEnds ==
  /\ ~reqDone
  /\ reqDone' = TRUE
  /\ IF async THEN UNCHANGED procVars ELSE Process!CtxDone
  /\ UNCHANGED <<setup, expired, execVars>>

\* The timeout of an asynchronous command, which runs from its start.
TimeoutExpires ==
  /\ async /\ timed /\ consumer # "off"
  /\ Process!CtxDone
  /\ expired' = TRUE
  /\ UNCHANGED <<setup, reqDone, execVars>>

-----------------------------------------------------------------------------
\* gateexec.Run

Return(r) == pc' = "returned" /\ response' = r

\* Without a gate the action runs at once ...
RunUngated ==
  /\ pc = "idle" /\ ~gated
  /\ pc' = "start"
  /\ UNCHANGED <<procVars, setup, reqDone, expired, gate, consumer, response>>

\* ... with one the registry may not know the mode ...
RegistryFails ==
  /\ pc = "idle" /\ gated /\ gate = "idle"
  /\ Return("pre")
  /\ UNCHANGED <<procVars, setup, reqDone, expired, gate, consumer>>

\* ... and Acquire may block,
Ask ==
  /\ pc = "idle" /\ gated /\ gate = "idle"
  /\ gate' = "asking"
  /\ UNCHANGED <<procVars, setup, reqDone, expired, pc, consumer, response>>

\* admit the call,
Admitted ==
  /\ pc = "idle" /\ gate = "asking"
  /\ gate' = "inside" /\ pc' = "start"
  /\ UNCHANGED <<procVars, setup, reqDone, expired, consumer, response>>

\* or refuse it: the gate is busy, or the context of the request is done.
Refused ==
  /\ pc = "idle" /\ gate = "asking"
  /\ gate' = "refused"
  /\ Return("busy") \/ (reqDone /\ Return("pre"))
  /\ UNCHANGED <<procVars, setup, reqDone, expired, consumer>>

\* The release function, run here when the action gave no done channel.
GiveBack == gate' = IF gated THEN "left" ELSE gate

-----------------------------------------------------------------------------
\* The action that createGateAction makes.

Start ==
  /\ pc = "start"
  /\ Process!StartProcess
  /\ pc' = IF leader' = "running" THEN "run" ELSE "release"
  /\ UNCHANGED <<setup, reqDone, expired, gate, consumer, response>>

\* Mutant: the gate is given back when the action returns.
WaitAsyncGivesBack ==
  /\ pc = "run" /\ async
  /\ Process!Wait
  /\ consumer' = "receive"
  /\ Return("exit0")
  /\ GiveBack
  /\ UNCHANGED <<setup, reqDone, expired>>

\* The asynchronous action returns exit code 0 as soon as the goroutines run.
WaitAsync ==
  /\ pc = "run" /\ async
  /\ Process!Wait
  /\ consumer' = "receive"
  /\ Return("exit0")
  /\ UNCHANGED <<setup, reqDone, expired, gate>>

WaitSync ==
  /\ pc = "run" /\ ~async
  /\ Process!Wait
  /\ pc' = "wait"
  /\ UNCHANGED <<setup, reqDone, expired, gate, consumer, response>>

\* Mutant: the wait is given up when the context ends.
WaitSyncGivesUp ==
  /\ pc = "wait" /\ (waiter = "closed" \/ ctxDone)
  /\ pc' = "release"
  /\ UNCHANGED <<procVars, setup, reqDone, expired, gate, consumer, response>>

WaitSyncReturns ==
  /\ pc = "wait" /\ waiter = "closed"
  /\ pc' = "release"
  /\ UNCHANGED <<procVars, setup, reqDone, expired, gate, consumer, response>>

\* Mutant: a failed start returns without the release.
ReleaseUnlessFailed ==
  /\ pc = "release"
  /\ IF leader = "failed" THEN UNCHANGED gate ELSE GiveBack
  /\ Return(CASE leader = "failed" -> "pre"
              [] result = "error" -> "runtime"
              [] OTHER -> result)
  /\ UNCHANGED <<procVars, setup, reqDone, expired, consumer>>

\* Mutant: the error of the process is returned as it is.
ReturnUnclassified ==
  /\ pc = "release"
  /\ GiveBack
  /\ Return(IF leader = "failed" THEN "pre" ELSE result)
  /\ UNCHANGED <<procVars, setup, reqDone, expired, consumer>>

\* A failed start and a synchronous command give the gate back, then Execute
\* tells a failed start from a failed run.
ReleaseAndReturn ==
  /\ pc = "release"
  /\ GiveBack
  /\ Return(CASE leader = "failed" -> "pre"
              [] result = "error" -> "runtime"
              [] OTHER -> result)
  /\ UNCHANGED <<procVars, setup, reqDone, expired, consumer>>

-----------------------------------------------------------------------------
\* waitAsyncAndLog: receive the result, then the deferred calls, last first.

\* Mutant: after an error the deferred calls are not made.
ReceiveSuccessOnly ==
  /\ consumer = "receive" /\ waiter \in {"made", "closed"} /\ result # "error"
  /\ consumer' = "cancel"
  /\ UNCHANGED <<procVars, setup, reqDone, expired, gate, pc, response>>

ReceiveResult ==
  /\ consumer = "receive" /\ waiter \in {"made", "closed"}
  /\ consumer' = "cancel"
  /\ UNCHANGED <<procVars, setup, reqDone, expired, gate, pc, response>>

\* cancel() does nothing without a timeout, or when the context is done.
Cancel ==
  /\ consumer = "cancel"
  /\ consumer' = "close"
  /\ IF timed /\ ~ctxDone THEN Process!CtxDone ELSE UNCHANGED procVars
  /\ UNCHANGED <<setup, reqDone, expired, gate, pc, response>>

CloseAsyncDone ==
  /\ consumer = "close"
  /\ consumer' = "closed"
  /\ UNCHANGED <<procVars, setup, reqDone, expired, gate, pc, response>>

\* The goroutine of gateexec.Run that waits for done, then releases.
ReleaseAfterDone ==
  /\ consumer = "closed" /\ gate = "inside"
  /\ GiveBack
  /\ UNCHANGED <<procVars, setup, reqDone, expired, pc, consumer, response>>

-----------------------------------------------------------------------------

\* The output of an asynchronous command goes to io.Discard, which cannot fail.
DiscardSucceeds == async => copier' # "failed"

\* The steps of the process and its goroutines that are not taken above.
ProcessStep ==
  /\ \/ Process!OsStep
     \/ Process!Reap \/ Process!MakeResult \/ Process!CloseDone
     \/ Process!TerminatorStep
  /\ DiscardSucceeds
  /\ UNCHANGED <<setup, reqDone, expired, execVars>>

ExecuteStep ==
  \/ RunUngated \/ RegistryFails \/ Ask
  \/ Start \/ WaitAsync \/ WaitSync \/ WaitSyncReturns \/ ReleaseAndReturn

ConsumerStep == ReceiveResult \/ Cancel \/ CloseAsyncDone

Next ==
  \/ RequestEnds \/ TimeoutExpires \/ Admitted \/ Refused
  \/ ExecuteStep \/ ConsumerStep \/ ReleaseAfterDone \/ ProcessStep

Spec == Init /\ [][Next]_vars

\* Goroutines that can run do run, and a copier sees the end of the output;
\* the gate owes this call nothing, and contexts and commands need not end.
Fairness ==
  /\ WF_vars(ExecuteStep)
  /\ WF_vars(ConsumerStep)
  /\ WF_vars(ReleaseAfterDone)
  /\ WF_vars(ProcessStep /\ (Process!Reap \/ Process!MakeResult \/ Process!CloseDone))
  /\ WF_vars(ProcessStep /\ Process!TerminatorStep)
  /\ WF_vars(ProcessStep /\ Process!CopyEnds)

FairSpec == Spec /\ Fairness

-----------------------------------------------------------------------------
\* Properties

TypeOK ==
  /\ Process!TypeOK
  /\ async \in BOOLEAN /\ gated \in BOOLEAN /\ timed \in BOOLEAN
  /\ reqDone \in BOOLEAN /\ expired \in BOOLEAN
  /\ gate \in GateStatus
  /\ pc \in ExecutePc
  /\ consumer \in ConsumerPc
  /\ response \in Responses

\* The gate is held for as long as the command lives, also by a command that
\* outlives its request.
GateCoversCommand == gated /\ leader \in {"running", "zombie"} => gate = "inside"

\* When Execute returns from a synchronous command, the command has ended, its
\* result is the response, and the gate is free for the next request.
SyncReturnsLast ==
  ~async /\ pc = "returned" =>
    /\ waiter \in {"off", "closed"}
    /\ response \in {"exit0", "exitN"} => response = result
    /\ gate # "inside"

\* An asynchronous command without a timeout is left alone, whatever becomes of
\* the request that started it.
AsyncOutlivesRequest == async /\ ~timed => sent = {}

\* Whoever holds the gate gives it back, on every path: the start fails, the
\* result is there, or the context of the command ends and no descendant keeps
\* the output pipe open from outside the process group.
GateGivenBack ==
  gate = "inside" /\ (leader = "failed" \/ result # "none") ~> gate = "left"

TimeoutFreesGate ==
  gate = "inside" /\ ctxDone ~> gate = "left" \/ child = "escaped"

\* "If Wait() has already completed (done is closed), do not attempt to signal
\* the process group" (comment in terminateOnContextDone): a command whose
\* timeout has not expired is not signalled for the cancel() that follows its
\* result.
NoSignalForCleanup == async /\ ~expired => sent = {}

-----------------------------------------------------------------------------
\* Executor does what the handlers are promised.

CommandOf ==
  CASE leader \in {"none", "failed"} -> "none"
    [] leader = "running" -> "running"
    [] OTHER -> "ended"

Promise == INSTANCE Execution
  WITH command <- CommandOf, lost <- (copier = "failed"), answer <- response

\* A refused command never starts; a synchronous request is answered after the
\* end of its command, with what the end was; nothing is answered twice.
ImplementsExecution == Promise!Spec

=============================================================================
