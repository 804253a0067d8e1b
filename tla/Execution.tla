----------------------------- MODULE Execution -----------------------------
(***************************************************************************)
(* What Execute promises to the HTTP handlers (the CommandExecutor          *)
(* interface of pkg/server/handlers.go and ExecuteResult of                 *)
(* pkg/executor/executor.go): a command is refused and never starts, or it  *)
(* starts, and the answer of a synchronous request tells how it ended and   *)
(* whether its output arrived.  Gates, contexts, signals and goroutines are *)
(* left to the implementation, Executor.                                    *)
(***************************************************************************)
VARIABLES
  async,    \* req.Async; fixed
  command,  \* the command: not started, running, ended
  exit,     \* how it ended
  lost,     \* the writer of its output returned an error
  answer    \* the ExecuteResult, by the class of its error or exit code

vars == <<async, command, exit, lost, answer>>

\* "busy" and "pre": errors before the execution, ErrPreExecution; "runtime":
\* ErrRuntime; otherwise the exit code.
Answers == {"none", "busy", "pre", "runtime", "exit0", "exitN"}

TypeOK ==
  /\ async \in BOOLEAN
  /\ command \in {"none", "running", "ended"}
  /\ exit \in {"none", "zero", "nonzero", "signal"}
  /\ lost \in BOOLEAN
  /\ answer \in Answers

-----------------------------------------------------------------------------

Init ==
  /\ async \in BOOLEAN
  /\ command = "none" /\ exit = "none" /\ lost = FALSE /\ answer = "none"

\* The gate is busy, or it fails, or the command cannot be started.
Refuse ==
  /\ command = "none" /\ answer = "none"
  /\ answer' \in {"busy", "pre"}
  /\ UNCHANGED <<async, command, exit, lost>>

Begin ==
  /\ command = "none" /\ answer = "none"
  /\ command' = "running"
  /\ UNCHANGED <<async, exit, lost, answer>>

\* The command exits, or a signal ends it: on its own account or because its
\* context is done.
End ==
  /\ command = "running"
  /\ command' = "ended"
  /\ exit' \in {"zero", "nonzero", "signal"}
  /\ UNCHANGED <<async, lost, answer>>

\* Output may be lost until the answer; the output of an asynchronous command
\* is discarded, which cannot fail.
LoseOutput ==
  /\ command # "none" /\ answer = "none" /\ ~async
  /\ lost' = TRUE
  /\ UNCHANGED <<async, command, exit, answer>>

\* Mutant: exit code 0 is reported although output was lost.
AnswerIgnoringLoss ==
  CASE async \/ exit = "zero" -> "exit0"
    [] ~async /\ exit = "nonzero" -> "exitN"
    [] OTHER -> "runtime"

\* An exit code other than 0 is reported even if output was lost; exit code 0
\* then turns into an error.
AnswerOf ==
  CASE async \/ (exit = "zero" /\ ~lost) -> "exit0"
    [] ~async /\ exit = "nonzero" -> "exitN"
    [] OTHER -> "runtime"

\* A synchronous request is answered when its command has ended, an
\* asynchronous one at any time from the start on.
Answer ==
  /\ answer = "none"
  /\ IF async THEN command # "none" ELSE command = "ended"
  /\ answer' = AnswerOf
  /\ UNCHANGED <<async, command, exit, lost>>

Next == Refuse \/ Begin \/ End \/ LoseOutput \/ Answer

Spec == Init /\ [][Next]_vars

=============================================================================
