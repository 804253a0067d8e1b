------------------------------ MODULE Commands ------------------------------
(***************************************************************************)
(* What the program may rely on of the commands it starts, one by call of  *)
(* StartProcess (the package comment of pkg/processrunner and the comments *)
(* of its Process): a command runs until it exits or is killed; as long as *)
(* the program waits for it, and only then, a context that ends brings     *)
(* SIGTERM and SIGKILL, in this order if there is a grace timeout; the     *)
(* wait is over only after the command.  Goroutines, descendants, output   *)
(* and results are left to ProcessRunner.                                  *)
(*                                                                         *)
(* A command is a process of its own: it outlives a program that ends.     *)
(***************************************************************************)
CONSTANT Calls

VARIABLES
  grace,    \* input: a grace timeout is configured
  ctxDone,  \* input: the context of the command is done
  command,  \* the process; "exited" until the wait for it is over
  watched,  \* the program waits for it
  termed    \* it got SIGTERM while the program waited for it

State == <<command, watched, termed>>

Init ==
  /\ command = [c \in Calls |-> "none"]
  /\ watched = [c \in Calls |-> FALSE]
  /\ termed = [c \in Calls |-> FALSE]

Start(c) ==
  /\ command[c] = "none" /\ ~watched[c]
  /\ command' = [command EXCEPT ![c] = "running"]
  /\ watched' = [watched EXCEPT ![c] = TRUE]
  /\ UNCHANGED termed

\* On its own account, or of a SIGTERM it obeys.
Exit(c) ==
  /\ command[c] = "running"
  /\ command' = [command EXCEPT ![c] = IF watched[c] THEN "exited" ELSE "none"]
  /\ UNCHANGED <<watched, termed>>

\* It may come too late, and it may be ignored.
SendTerm(c) ==
  /\ watched[c] /\ ctxDone[c]
  /\ grace[c] /\ ~termed[c]
  /\ termed' = [termed EXCEPT ![c] = TRUE]
  /\ UNCHANGED <<command, watched>>

SendKill(c) ==
  /\ watched[c] /\ ctxDone[c] /\ command[c] = "running"
  /\ grace[c] => termed[c]
  /\ command' = [command EXCEPT ![c] = "exited"]
  /\ UNCHANGED <<watched, termed>>

\* Mutant: a context that is done ends the wait, but not the command.
WaitGivesUp(c) ==
  /\ watched[c] /\ (command[c] = "exited" \/ ctxDone[c])
  /\ command' = [command EXCEPT ![c] = IF command[c] = "exited" THEN "none" ELSE command[c]]
  /\ watched' = [watched EXCEPT ![c] = FALSE]
  /\ termed' = [termed EXCEPT ![c] = FALSE]

WaitReturns(c) ==
  /\ watched[c] /\ command[c] = "exited"
  /\ command' = [command EXCEPT ![c] = "none"]
  /\ watched' = [watched EXCEPT ![c] = FALSE]
  /\ termed' = [termed EXCEPT ![c] = FALSE]

\* Nobody signals the commands, and nobody waits for them any more.
ProgramEnds ==
  /\ command' = [c \in Calls |-> IF command[c] = "exited" THEN "none" ELSE command[c]]
  /\ watched' = [c \in Calls |-> FALSE]
  /\ termed' = [c \in Calls |-> FALSE]

Next ==
  \/ \E c \in Calls :
       Start(c) \/ Exit(c) \/ SendTerm(c) \/ SendKill(c) \/ WaitReturns(c)
  \/ ProgramEnds

Spec == Init /\ [][Next]_State

-----------------------------------------------------------------------------

TypeOK ==
  /\ command \in [Calls -> {"none", "running", "exited"}]
  /\ watched \in [Calls -> BOOLEAN]
  /\ termed \in [Calls -> BOOLEAN]

=============================================================================
