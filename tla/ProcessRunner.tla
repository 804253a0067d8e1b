--------------------------- MODULE ProcessRunner ---------------------------
(***************************************************************************)
(* One command process under pkg/processrunner/processrunner.go, from      *)
(* StartProcess to the end of WaitSync or WaitAsync.  Three goroutines and *)
(* the kernel meet here:                                                   *)
(*                                                                         *)
(*  - the waiter calls cmd.Wait, derives the result and closes done;       *)
(*  - the terminator, terminateOnContextDone, waits for the context and    *)
(*    signals the process group;                                           *)
(*  - the copier, which os/exec starts because the writer is not a file,   *)
(*    moves the output until nobody holds the write end of the pipe;       *)
(*  - the process group: the leader, which is the command itself, and its  *)
(*    descendants, of which one stands for all.                            *)
(*                                                                         *)
(* WaitSync and WaitAsync run the same steps: the result is made, then     *)
(* done is closed.  WaitSync's caller has the result after that, the       *)
(* reader of WaitAsync's channel already before.                           *)
(***************************************************************************)
CONSTANT ChildKinds   \* the descendants the command may leave behind

\* "attached": in the group, holds the output pipe; "quiet": in the group, its
\* output redirected; "escaped": in a session of its own, holds the pipe.
AllChildKinds == {"attached", "quiet", "escaped"}

ASSUME ChildKindsAssumption == ChildKinds \subseteq AllChildKinds

VARIABLES
  grace,    \* a grace timeout is configured; fixed
  leader,   \* the command process
  exit,     \* how it ended
  child,    \* its descendant
  copier,   \* the goroutine that copies the output
  ctxDone,  \* the context is done
  waiter,   \* where the waiter stands
  result,   \* what exitFromWaitError made of the end
  term,     \* where the terminator stands
  sent      \* the signals sent to the process group

osVars == <<leader, exit, child, copier>>
vars == <<grace, osVars, ctxDone, waiter, result, term, sent>>

LeaderStates == {"none", "failed", "running", "zombie", "reaped"}
Exits == {"none", "zero", "nonzero", "signal"}
ChildStates == {"none", "dead"} \cup ChildKinds
CopierStates == {"off", "copying", "eof", "failed"}
WaiterPc == {"off", "wait", "drain", "made", "closed"}
Results == {"none", "exit0", "exitN", "error"}
TermPc == {"off", "select", "check", "term", "grace", "kill", "end"}

-----------------------------------------------------------------------------

Init ==
  /\ grace \in BOOLEAN
  /\ leader = "none" /\ exit = "none" /\ child = "none" /\ copier = "off"
  /\ ctxDone = FALSE
  /\ waiter = "off" /\ result = "none"
  /\ term = "off" /\ sent = {}

CtxDone ==
  /\ ~ctxDone
  /\ ctxDone' = TRUE
  /\ UNCHANGED <<grace, osVars, waiter, result, term, sent>>

\* StartProcess: cmd.Start fails, or it runs the command as the leader of a
\* process group of its own and starts the copier.  It ignores the context.
StartProcess ==
  /\ leader = "none"
  /\ \/ leader' = "failed" /\ UNCHANGED copier
     \/ leader' = "running" /\ copier' = "copying"
  /\ UNCHANGED <<grace, exit, child, ctxDone, waiter, result, term, sent>>

-----------------------------------------------------------------------------
\* The operating system and os/exec.

InGroup == child \in {"attached", "quiet"}
HoldsPipe == leader = "running" \/ child \in {"attached", "escaped"}

Fork ==
  /\ leader = "running" /\ child = "none"
  /\ child' \in ChildKinds
  /\ UNCHANGED <<grace, leader, exit, copier, ctxDone, waiter, result, term, sent>>

\* The command exits, or dies of a signal: SIGTERM if it was sent and is not
\* caught, SIGPIPE, or a fault of its own.
LeaderExits ==
  /\ leader = "running"
  /\ leader' = "zombie"
  /\ exit' \in {"zero", "nonzero", "signal"}
  /\ UNCHANGED <<grace, child, copier, ctxDone, waiter, result, term, sent>>

ChildExits ==
  /\ child \in ChildKinds
  /\ child' = "dead"
  /\ UNCHANGED <<grace, leader, exit, copier, ctxDone, waiter, result, term, sent>>

CopyEnds ==
  /\ copier = "copying" /\ ~HoldsPipe
  /\ copier' = "eof"
  /\ UNCHANGED <<grace, leader, exit, child, ctxDone, waiter, result, term, sent>>

\* The writer returns an error: the client is gone, a temporary file fails.
CopyFails ==
  /\ copier = "copying"
  /\ copier' = "failed"
  /\ UNCHANGED <<grace, leader, exit, child, ctxDone, waiter, result, term, sent>>

-----------------------------------------------------------------------------
\* The waiter.

\* WaitSync or WaitAsync is called: the terminator starts, cmd.Wait begins.
Wait ==
  /\ leader \notin {"none", "failed"} /\ waiter = "off"
  /\ waiter' = "wait" /\ term' = "select"
  /\ UNCHANGED <<grace, osVars, ctxDone, result, sent>>

\* Mutant: the wait is given up when the context ends.
ReapOrGiveUp ==
  /\ waiter = "wait" /\ (leader = "zombie" \/ ctxDone)
  /\ leader' = (IF leader = "zombie" THEN "reaped" ELSE leader) /\ waiter' = "drain"
  /\ UNCHANGED <<grace, exit, child, copier, ctxDone, result, term, sent>>

\* Inside cmd.Wait: the zombie is reaped, which frees its pid ...
Reap ==
  /\ waiter = "wait" /\ leader = "zombie"
  /\ leader' = "reaped" /\ waiter' = "drain"
  /\ UNCHANGED <<grace, exit, child, copier, ctxDone, result, term, sent>>

\* Mutant: a clean exit is a success although output was lost.
ResultOfIgnoringCopy ==
  CASE exit = "zero" -> "exit0" [] exit = "nonzero" -> "exitN" [] OTHER -> "error"

\* exitFromWaitError: an error of the copier counts after a clean exit only;
\* a death by signal and any error that is not an ExitError are errors.
ResultOf ==
  CASE exit = "zero" /\ copier = "eof" -> "exit0"
    [] exit = "nonzero" -> "exitN"
    [] OTHER -> "error"

\* ... and cmd.Wait returns only when the copier has ended.
MakeResult ==
  /\ waiter = "drain" /\ copier # "copying"
  /\ result' = ResultOf
  /\ waiter' = "made"
  /\ UNCHANGED <<grace, osVars, ctxDone, term, sent>>

\* The deferred close(done).
CloseDone ==
  /\ waiter = "made"
  /\ waiter' = "closed"
  /\ UNCHANGED <<grace, osVars, ctxDone, result, term, sent>>

-----------------------------------------------------------------------------
\* The terminator.

GotoTerm(l) ==
  /\ term' = l
  /\ UNCHANGED <<grace, osVars, ctxDone, waiter, result, sent>>

\* Mutant: done is looked at only once a signal has been sent.
SeeDoneInGrace == term = "grace" /\ waiter = "closed" /\ GotoTerm("end")

\* Either select may take either ready case.
SeeDone == term \in {"select", "grace"} /\ waiter = "closed" /\ GotoTerm("end")

SeeCtx == term = "select" /\ ctxDone /\ GotoTerm("check")

\* Mutant: no second look at done before the signals.
CheckDoneNever ==
  /\ term = "check"
  /\ IF grace THEN GotoTerm("term") ELSE GotoTerm("kill")

\* Mutant: the grace timeout is not looked at.
CheckDoneThenKill ==
  /\ term = "check"
  /\ IF waiter = "closed" THEN GotoTerm("end") ELSE GotoTerm("kill")

\* The second look at done.  It is only a look: done may be closed before the
\* signal is sent.
CheckDone ==
  /\ term = "check"
  /\ \/ waiter = "closed" /\ GotoTerm("end")
     \/ waiter # "closed" /\ grace /\ GotoTerm("term")
     \/ waiter # "closed" /\ ~grace /\ GotoTerm("kill")

\* SIGTERM.  Processes may catch or ignore it: those that do not will exit.
SendTerm ==
  /\ term = "term"
  /\ sent' = sent \cup {"TERM"}
  /\ term' = "grace"
  /\ UNCHANGED <<grace, osVars, ctxDone, waiter, result>>

\* Mutant: the grace period waits for done alone, without a timer.
GraceWaitsForDone == term = "grace" /\ waiter = "closed" /\ GotoTerm("end")

GraceExpires == term = "grace" /\ GotoTerm("kill")

\* SIGKILL ends every live member of the group at once.
SendKill ==
  /\ term = "kill"
  /\ sent' = sent \cup {"KILL"}
  /\ term' = "end"
  /\ IF leader = "running" THEN leader' = "zombie" /\ exit' = "signal"
                           ELSE UNCHANGED <<leader, exit>>
  /\ child' = IF InGroup THEN "dead" ELSE child
  /\ UNCHANGED <<grace, copier, ctxDone, waiter, result>>

-----------------------------------------------------------------------------

WaiterStep == Wait \/ Reap \/ MakeResult \/ CloseDone
TerminatorStep ==
  SeeDone \/ SeeCtx \/ CheckDone \/ SendTerm \/ GraceExpires \/ SendKill
OsStep == Fork \/ LeaderExits \/ ChildExits \/ CopyEnds \/ CopyFails

Next == CtxDone \/ StartProcess \/ OsStep \/ WaiterStep \/ TerminatorStep

Spec == Init /\ [][Next]_vars

\* Goroutines that can run do run, the timer fires, and the copier sees the
\* end of the output.  A command need not exit, ever, and a context need not
\* end.
Fairness ==
  /\ WF_vars(WaiterStep)
  /\ WF_vars(TerminatorStep)
  /\ WF_vars(CopyEnds)

FairSpec == Spec /\ Fairness

-----------------------------------------------------------------------------
\* Properties

TypeOK ==
  /\ grace \in BOOLEAN
  /\ leader \in LeaderStates
  /\ exit \in Exits
  /\ child \in ChildStates
  /\ copier \in CopierStates
  /\ ctxDone \in BOOLEAN
  /\ waiter \in WaiterPc
  /\ result \in Results
  /\ term \in TermPc
  /\ sent \subseteq {"TERM", "KILL"}

\* A result is a fact about the process, whatever the context does meanwhile:
\* success means that the command left with status 0 and that all its output
\* arrived, and a command killed for its context never counts as an exit.
ReportedExitIsReal ==
  /\ result = "exit0" => exit = "zero" /\ copier = "eof"
  /\ result = "exitN" => exit = "nonzero"
  /\ exit = "signal" => result \in {"none", "error"}
  /\ result # "none" => leader = "reaped" /\ copier # "copying"

\* SIGKILL is the last word: afterwards no member of the process group lives.
KillSweepsGroup == "KILL" \in sent => leader # "running" /\ ~InGroup

\* With a grace period SIGTERM precedes SIGKILL, without one SIGTERM is never
\* sent, and nothing is sent before the context ends.
Escalation ==
  /\ "TERM" \in sent => grace
  /\ "KILL" \in sent /\ grace => "TERM" \in sent
  /\ sent # {} => ctxDone

\* A process that has finished before its context ends is never signalled,
\* however late the terminator looks ("Wait result has priority over a later
\* ctx.Done()").
LateCancelIsHarmless == [](waiter = "closed" /\ ~ctxDone => [](sent = {}))

\* The terminator outlives no process: it leaves no goroutine behind.
TerminatorEnds == waiter = "closed" ~> term = "end"

\* A context that ends ends the command that is waited for, even one that
\* ignores SIGTERM, and the wait for it, unless a descendant outside the group
\* keeps the output pipe open.
CancelEnds ==
  /\ waiter = "wait" /\ ctxDone ~> leader # "running"
  /\ waiter = "wait" /\ ctxDone ~> waiter = "closed" \/ child = "escaped"

\* "terminates the whole process group on context cancellation with an optional
\* grace timeout (SIGTERM -> SIGKILL)" (package comment): when the terminator
\* that began to signal is through, nobody of the group is left.
WholeGroupTerminated == sent # {} /\ term = "end" /\ leader = "reaped" => ~InGroup

-----------------------------------------------------------------------------
\* The process runner does what the program relies on.

Command ==
  CASE leader \in {"none", "failed"} \/ waiter \in {"made", "closed"} -> "none"
    [] leader = "running" -> "running"
    [] OTHER -> "exited"

Watched == leader \notin {"none", "failed"} /\ waiter \notin {"made", "closed"}

Termed == Watched /\ "TERM" \in sent

This == "this"

Contract == INSTANCE Commands
  WITH Calls <- {This},
       grace <- [c \in {This} |-> grace], ctxDone <- [c \in {This} |-> ctxDone],
       command <- [c \in {This} |-> Command], watched <- [c \in {This} |-> Watched],
       termed <- [c \in {This} |-> Termed]

\* The command is signalled only while it is waited for, because its context
\* ended, and in order; a descendant, a late signal or a failed copy changes
\* nothing that the program can see but when the wait ends.
ImplementsCommands == Contract!Spec

=============================================================================
