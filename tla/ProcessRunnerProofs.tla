------------------------ MODULE ProcessRunnerProofs ------------------------
(***************************************************************************)
(* Theorems about ProcessRunner, whatever descendants a command leaves.    *)
(***************************************************************************)
EXTENDS ProcessRunner, TLAPS

-----------------------------------------------------------------------------
\* The inductive invariant: where each goroutine stands tells what the process
\* and the other goroutines have done.

\* The waiter and the process: cmd.Wait reaps, and a result is made, only from
\* a process that ended and a copier that stopped.
WaiterFollowsProcess ==
  /\ waiter # "off" => leader \notin {"none", "failed"}
  /\ copier = "off" <=> leader \in {"none", "failed"}
  /\ waiter \in {"drain", "made", "closed"} <=> leader = "reaped"
  /\ exit = "none" <=> leader \in {"none", "failed", "running"}
  /\ waiter \in {"made", "closed"} => copier \in {"eof", "failed"} /\ result = ResultOf
  /\ waiter \notin {"made", "closed"} => result = "none"

\* The terminator and its signals: each of its states is reached with exactly
\* the signals that come before it.
SignalsFollowTerminator ==
  /\ term = "off" <=> waiter = "off"
  /\ term \in {"off", "select", "check", "term"} => sent = {}
  /\ term = "term" => grace
  /\ term = "grace" => grace /\ sent = {"TERM"}
  /\ term = "kill" => sent = IF grace THEN {"TERM"} ELSE {}
  /\ term \in {"check", "term", "grace", "kill"} => ctxDone

IInv ==
  /\ TypeOK
  /\ WaiterFollowsProcess
  /\ SignalsFollowTerminator
  /\ KillSweepsGroup
  /\ Escalation

LEMMA InitIInv == Init => IInv
BY DEF Init, IInv, TypeOK, LeaderStates, Exits, ChildStates, CopierStates, WaiterPc,
       Results, TermPc, WaiterFollowsProcess, SignalsFollowTerminator,
       KillSweepsGroup, Escalation

\* A step keeps the types.
LEMMA NextTypeOK == TypeOK /\ [Next]_vars => TypeOK'
<1> SUFFICES ASSUME TypeOK, [Next]_vars PROVE TypeOK'
  OBVIOUS
<1>1. CASE CtxDone
  BY <1>1 DEF TypeOK, CtxDone, osVars
<1>2. CASE StartProcess
  BY <1>2 DEF TypeOK, LeaderStates, CopierStates, StartProcess
<1>3. CASE OsStep
  <2>1. CASE Fork \/ ChildExits
    BY <2>1 DEF TypeOK, ChildStates, Fork, ChildExits
  <2>2. CASE LeaderExits
    BY <2>2 DEF TypeOK, LeaderStates, Exits, LeaderExits
  <2>3. CASE CopyEnds \/ CopyFails
    BY <2>3 DEF TypeOK, CopierStates, CopyEnds, CopyFails
  <2> QED
    BY <1>3, <2>1, <2>2, <2>3 DEF OsStep
<1>4. CASE WaiterStep
  <2>1. CASE Wait
    BY <2>1 DEF TypeOK, WaiterPc, TermPc, Wait, osVars
  <2>2. CASE Reap
    BY <2>2 DEF TypeOK, WaiterPc, LeaderStates, Reap
  <2>3. CASE MakeResult
    <3>1. ResultOf \in Results
      BY DEF ResultOf, Results
    <3> QED
      BY <2>3, <3>1 DEF TypeOK, WaiterPc, MakeResult, osVars
  <2>4. CASE CloseDone
    BY <2>4 DEF TypeOK, WaiterPc, CloseDone, osVars
  <2> QED
    BY <1>4, <2>1, <2>2, <2>3, <2>4 DEF WaiterStep
<1>5. CASE TerminatorStep
  <2>1. ASSUME NEW l \in TermPc, GotoTerm(l) PROVE TypeOK'
    BY <2>1 DEF TypeOK, GotoTerm, osVars
  <2>2. CASE SeeDone \/ SeeCtx \/ CheckDone \/ GraceExpires
    BY <2>1, <2>2 DEF SeeDone, SeeCtx, CheckDone, GraceExpires, TermPc
  <2>3. CASE SendTerm
    BY <2>3 DEF TypeOK, TermPc, SendTerm, osVars
  <2>4. CASE SendKill
    BY <2>4 DEF TypeOK, TermPc, LeaderStates, Exits, ChildStates, SendKill
  <2> QED
    BY <1>5, <2>2, <2>3, <2>4 DEF TerminatorStep
<1>6. CASE UNCHANGED vars
  BY <1>6 DEF TypeOK, vars, osVars
<1> QED
  BY <1>1, <1>2, <1>3, <1>4, <1>5, <1>6 DEF Next

\* A step keeps the rest, one goroutine at a time.
LEMMA NextIInv == IInv /\ [Next]_vars => IInv'
<1> SUFFICES ASSUME IInv, [Next]_vars PROVE IInv'
  OBVIOUS
<1>t. TypeOK'
  BY NextTypeOK DEF IInv
<1> USE DEF IInv, WaiterFollowsProcess, SignalsFollowTerminator, KillSweepsGroup,
            Escalation, InGroup, ResultOf
<1>1. CASE CtxDone \/ StartProcess
  BY <1>t, <1>1 DEF CtxDone, StartProcess, osVars, TypeOK
<1>2. CASE OsStep
  BY <1>t, <1>2, ChildKindsAssumption
     DEF OsStep, Fork, LeaderExits, ChildExits, CopyEnds, CopyFails, HoldsPipe, TypeOK
<1>3. CASE WaiterStep
  <2>1. CASE Wait
    BY <1>t, <2>1 DEF Wait, osVars, TypeOK
  <2>2. CASE Reap
    BY <1>t, <2>2 DEF Reap, TypeOK
  <2>3. CASE MakeResult
    <3>1. copier \in {"eof", "failed"}
      BY <2>3 DEF MakeResult, TypeOK, CopierStates
    <3>2. WaiterFollowsProcess'
      BY <1>t, <2>3, <3>1 DEF MakeResult, osVars
    <3>3. SignalsFollowTerminator' /\ KillSweepsGroup' /\ Escalation'
      BY <2>3 DEF MakeResult, osVars
    <3> QED
      BY <1>t, <3>2, <3>3
  <2>4. CASE CloseDone
    BY <1>t, <2>4 DEF CloseDone, osVars, TypeOK
  <2> QED
    BY <1>3, <2>1, <2>2, <2>3, <2>4 DEF WaiterStep
<1>4. CASE TerminatorStep
  <2>1. CASE SeeDone \/ SeeCtx \/ CheckDone \/ GraceExpires
    BY <1>t, <2>1 DEF SeeDone, SeeCtx, CheckDone, GraceExpires, GotoTerm, osVars, TypeOK
  <2>2. CASE SendTerm
    BY <1>t, <2>2 DEF SendTerm, osVars, TypeOK
  <2>3. CASE SendKill
    BY <1>t, <2>3 DEF SendKill, TypeOK
  <2> QED
    BY <1>4, <2>1, <2>2, <2>3 DEF TerminatorStep
<1>5. CASE UNCHANGED vars
  BY <1>5, <1>t DEF vars, osVars
<1> QED
  BY <1>1, <1>2, <1>3, <1>4, <1>5 DEF Next

\* The invariant holds in every behaviour.
THEOREM Invariant == Spec => []IInv
BY InitIInv, NextIInv, PTL DEF Spec

-----------------------------------------------------------------------------

\* The variables keep their types.
THEOREM TypeCorrect == Spec => []TypeOK
BY Invariant, PTL DEF IInv

\* A reported result is a fact about the process and its output.
THEOREM ResultIsReal == Spec => []ReportedExitIsReal
<1>1. IInv => ReportedExitIsReal
  BY DEF IInv, TypeOK, WaiterFollowsProcess, ReportedExitIsReal, ResultOf, Results,
         WaiterPc
<1> QED
  BY <1>1, Invariant, PTL

\* SIGKILL leaves no live member of the group, and the signals come in order.
THEOREM SignalsSound == Spec => [](KillSweepsGroup /\ Escalation)
BY Invariant, PTL DEF IInv

\* A context that ends after the wait is over has no effect, ever.
THEOREM LateCancel == Spec => LateCancelIsHarmless
<1> DEFINE Over == /\ waiter = "closed" /\ sent = {}
                   /\ term \in {"select", "check", "end"}
<1>1. IInv /\ waiter = "closed" /\ ~ctxDone => Over
  BY DEF IInv, TypeOK, SignalsFollowTerminator, Escalation, TermPc
<1>2. Over /\ [Next]_vars => Over'
  <2> SUFFICES ASSUME Over, [Next]_vars PROVE Over'
    OBVIOUS
  <2>1. CASE CtxDone \/ StartProcess \/ OsStep
    BY <2>1 DEF CtxDone, StartProcess, OsStep, Fork, LeaderExits, ChildExits,
       CopyEnds, CopyFails
  <2>2. CASE WaiterStep
    BY <2>2 DEF WaiterStep, Wait, Reap, MakeResult, CloseDone
  <2>3. CASE TerminatorStep
    BY <2>3 DEF TerminatorStep, SeeDone, SeeCtx, CheckDone, SendTerm, GraceExpires,
       SendKill, GotoTerm
  <2>4. CASE UNCHANGED vars
    BY <2>4 DEF vars
  <2> QED
    BY <2>1, <2>2, <2>3, <2>4 DEF Next
<1>3. Over => sent = {}
  OBVIOUS
<1> HIDE DEF Over
<1> QED
  BY <1>1, <1>2, <1>3, Invariant, PTL DEF Spec, LateCancelIsHarmless

-----------------------------------------------------------------------------
\* ProcessRunner implements Commands.

\* The steps of the contract, in terms of what the program sees.
Seen(c, w, t) == Command' = c /\ Watched' = w /\ Termed' = t

LEMMA SeenIsBoolean ==
  Watched \in BOOLEAN /\ Termed \in BOOLEAN /\ Watched' \in BOOLEAN /\ Termed' \in BOOLEAN
BY DEF Watched, Termed

LEMMA ContractStutters ==
  ASSUME Seen(Command, Watched, Termed)
  PROVE  UNCHANGED Contract!State
BY DEF Seen, Contract!State

LEMMA ContractStarts ==
  ASSUME Command = "none", ~Watched, Seen("running", TRUE, Termed)
  PROVE  Contract!Start(This)
BY SeenIsBoolean DEF Seen, Contract!Start

LEMMA ContractExits ==
  ASSUME Command = "running", Watched, Seen("exited", Watched, Termed)
  PROVE  Contract!Exit(This)
BY SeenIsBoolean DEF Seen, Contract!Exit

LEMMA ContractTerms ==
  ASSUME Watched, ctxDone, grace, ~Termed, Seen(Command, Watched, TRUE)
  PROVE  Contract!SendTerm(This)
BY SeenIsBoolean DEF Seen, Contract!SendTerm

LEMMA ContractKills ==
  ASSUME Watched, ctxDone, Command = "running", grace => Termed,
         Seen("exited", Watched, Termed)
  PROVE  Contract!SendKill(This)
BY SeenIsBoolean DEF Seen, Contract!SendKill

LEMMA ContractEnds ==
  ASSUME Watched, Command = "exited", Seen("none", FALSE, FALSE)
  PROVE  Contract!WaitReturns(This)
BY SeenIsBoolean DEF Seen, Contract!WaitReturns

LEMMA InitContract == Init => Contract!Init
BY DEF Init, Contract!Init, Command, Watched, Termed

\* Only six kinds of steps change what the program sees.
LEMMA StepKeepsContract ==
  IInv /\ [Next]_vars => [Contract!Next]_(Contract!State)
<1> SUFFICES ASSUME IInv, [Next]_vars PROVE [Contract!Next]_(Contract!State)
  OBVIOUS
<1> DEFINE Unseen == Seen(Command, Watched, Termed)
<1> USE DEF IInv, TypeOK, WaiterFollowsProcess, SignalsFollowTerminator, Seen
<1>1. CASE StartProcess
  <2>1. Unseen \/ (Command = "none" /\ ~Watched /\ Seen("running", TRUE, Termed))
    BY <1>1 DEF StartProcess, Command, Watched, Termed
  <2> QED
    BY <2>1, ContractStutters, ContractStarts DEF Contract!Next
<1>2. CASE LeaderExits
  <2>1. Command = "running" /\ Watched /\ Seen("exited", Watched, Termed)
    BY <1>2 DEF LeaderExits, Command, Watched, Termed
  <2> QED
    BY <2>1, ContractExits DEF Contract!Next
<1>3. CASE SendTerm
  <2>1. Unseen \/ (Watched /\ ctxDone /\ grace /\ ~Termed /\ Seen(Command, Watched, TRUE))
    BY <1>3 DEF SendTerm, osVars, Command, Watched, Termed
  <2> QED
    BY <2>1, ContractStutters, ContractTerms DEF Contract!Next
<1>4. CASE SendKill
  <2>1. \/ Unseen
        \/ /\ Watched /\ ctxDone /\ Command = "running" /\ (grace => Termed)
           /\ Seen("exited", Watched, Termed)
    BY <1>4 DEF SendKill, osVars, Command, Watched, Termed
  <2> QED
    BY <2>1, ContractStutters, ContractKills DEF Contract!Next
<1>5. CASE MakeResult
  <2>1. Watched /\ Command = "exited" /\ Seen("none", FALSE, FALSE)
    BY <1>5 DEF MakeResult, osVars, Command, Watched, Termed
  <2> QED
    BY <2>1, ContractEnds DEF Contract!Next
<1>6. CASE CtxDone \/ Fork \/ ChildExits \/ CopyEnds \/ CopyFails
  <2>1. Unseen
    BY <1>6 DEF CtxDone, Fork, ChildExits, CopyEnds, CopyFails, osVars, Command, Watched, Termed
  <2> QED
    BY <2>1, ContractStutters
<1>7. CASE Wait \/ Reap \/ CloseDone
  <2>1. Unseen
    BY <1>7 DEF Wait, Reap, CloseDone, osVars, Command, Watched, Termed
  <2> QED
    BY <2>1, ContractStutters
<1>8. CASE SeeDone \/ SeeCtx \/ CheckDone \/ GraceExpires
  <2>1. Unseen
    BY <1>8 DEF SeeDone, SeeCtx, CheckDone, GraceExpires, GotoTerm, osVars, Command, Watched,
       Termed
  <2> QED
    BY <2>1, ContractStutters
<1>9. CASE UNCHANGED vars
  <2>1. Unseen
    BY <1>9 DEF vars, osVars, Command, Watched, Termed
  <2> QED
    BY <2>1, ContractStutters
<1> QED
  BY <1>1, <1>2, <1>3, <1>4, <1>5, <1>6, <1>7, <1>8, <1>9
     DEF Next, OsStep, WaiterStep, TerminatorStep

\* Whatever the goroutines, the descendants and the output do, the program sees
\* a command that runs, is signalled for its context alone and in order, and is
\* over before the wait is.
THEOREM Refinement == Spec => ImplementsCommands
<1>1. Init => Contract!Init
  BY InitContract
<1>2. IInv /\ [Next]_vars => [Contract!Next]_(Contract!State)
  BY StepKeepsContract
<1> QED
  BY <1>1, <1>2, Invariant, PTL DEF Spec, ImplementsCommands, Contract!Spec

\* When the terminator is through and somebody of the group is left, then
\* because the command had a grace timeout and ended before it was over: without
\* one, and whenever SIGKILL was sent, the whole group is gone.
THEOREM SurvivorsExplained ==
  Spec => [](sent # {} /\ InGroup => grace /\ sent = {"TERM"})
<1>1. IInv => (sent # {} /\ InGroup => grace /\ sent = {"TERM"})
  BY DEF IInv, TypeOK, KillSweepsGroup, Escalation
<1> QED
  BY <1>1, Invariant, PTL

=============================================================================
