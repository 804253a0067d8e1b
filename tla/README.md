# A verification project for webcmd

webcmd is an HTTP server that runs commands: each configured URL has a command
template, and a request to it renders the template, starts the process, and
answers with its output and exit code. This directory holds TLA+ models of the
parts of webcmd where several goroutines, requests, processes or signals meet,
the TLC configurations that check them on small instances, and TLAPS proofs of
the properties that matter most, for every value of the constants.

To check everything by hand: `tlc -config X.cfg MCX` for each row of the table
of runs, `tlapm XProofs.tla` for each proof module.

## 1. The system

A request passes through these parts, from the outside in.

| part | source | state it keeps | operations |
|---|---|---|---|
| HTTP server | `pkg/gracehttp` | atomic state (new, running, shutdown), listener, signal channel, application context, `http.Server` | `Run`, `Shutdown`, signals |
| server composition | `pkg/server/server.go`, `cmd/main.go` | configuration, router, signal context | `main`, `Server.Run` |
| handlers, middleware | `pkg/server/handlers.go`, `middleware.go`, ... | one request: its context, its headers, its output | authorisation, timeout, parameters, the three execution modes, mapping of errors |
| error helpers | `pkg/httpx` | none | which error becomes which status |
| output buffer | `pkg/server/output_buffer.go`, `flush_writer.go` | bytes in memory or a temporary file | `Write`, spill, `WriteTo`, `Close` |
| executor | `pkg/executor` | none; its goroutines hold the cancel function and the done channel of an asynchronous command | `Execute`, `waitAsyncAndLog` |
| gate executor | `pkg/gateexec` | none; its goroutine holds the release function | `Run` |
| registry | `pkg/callgate/registry.go`, `factory.go` | group name -> gate, under a read-write mutex | `GetOrCreate` |
| gates | `pkg/callgate/callgate_single.go`, `callgate_sequence.go` | one token in a channel; one slot and a FIFO of waiters under a mutex | `Acquire`, the release function |
| process runner | `pkg/processrunner`, `pkg/cmdrunner` | the `exec.Cmd`, a done channel, a terminator goroutine | `StartProcess`, `WaitSync`, `WaitAsync` |
| command builder, configuration | `pkg/cmdbuilder`, `pkg/config` | none after start | pure |

How they interact. Handlers call the executor, which calls the gate executor
with an *action* that starts the process and waits for it. The gate executor
gets the gate of the request's group from the registry, calls `Acquire`, runs
the action, and releases the gate at once, or, if the action returned a done
channel (an asynchronous command), from a goroutine that waits for it. A
context connects the outside to the inside: the end of a request's context
(client gone, timeout, shutdown) makes `Acquire` return and makes the
terminator of the process runner signal the process group, with SIGTERM and a
grace period, or with SIGKILL at once.

What is hard about it, by part, and what makes the part correct:

- *Gates.* A context may end while the release function of another call hands
  over the slot; a release function may be called twice. Correct: at most one
  owner, the slot is never lost, waiters are served in the order they came and
  all return.
- *Registry.* Requests for a new group race. Correct: a group has one gate, for
  good.
- *Process runner.* The waiter, the terminator, the goroutine of `os/exec` that
  copies the output, and the process group proceed independently; the check of
  `done` and the signal that follows it are not atomic; descendants may hold
  the pipe, ignore SIGTERM or leave the group. Correct: the result reported is
  what happened, signals come in order and only because of the context, a
  cancelled command ends.
- *Executor and gate executor.* An asynchronous command outlives its request,
  and its gate must be held by somebody else than the goroutine that took it;
  the start may fail when the gate is already held. Correct: the gate is held
  for exactly as long as the command lives, and given back on every path.
- *HTTP server.* `Run`, `Shutdown`, signals and the goroutine for a second
  signal share three flags that are changed one at a time. Correct: one
  shutdown, nothing served after it, nobody blocks longer than the grace
  period.
- *Output buffer, responses.* Partial failures: the spill to a file, a client
  that is gone, a command that fails after it wrote output.

The full list of hazards, each at its line, is under `hazards` in
`PROJECT.json`, with the properties that cover it.

## 2. The modules

```
CallGate        what a gate promises            (abstract)
  SequenceGate  implements it                   MCSequenceGate   SequenceGateProofs
  SingleGate    implements it                   MCSingleGate     SingleGateProofs
Registry        group -> gate                   MCRegistry       RegistryProofs
Commands        what the program relies on      (abstract)
  ProcessRunner implements it: one process      MCProcessRunner  ProcessRunnerProofs
Execution       what Execute promises           (abstract)
  Executor      implements it: gate + process   MCExecutor       ExecutorProofs
OutputBuffer    the buffered output, its file
Response        one request, its response       MCResponse       ResponseProofs
                (over Execution, OutputBuffer)
ServerLife      what callers, clients rely on   (abstract)
  GraceHttp     implements it: the HTTP server  MCGraceHttp      GraceHttpProofs
Webcmd          the program: many requests      MCWebcmd         WebcmdProofs
                (over Registry, GraceHttp, Commands; its groups are CallGates)
```

An action stands for the code between two points at which another goroutine
may act: a section under a mutex, one case of a `select`, one atomic operation
on the state, one system call. Operators named in a comment that starts with
"Mutant:" are deliberately wrong versions of the definition that follows them.
They take part in no specification. For each property of a passing run one of
them is put in place of the definition, and TLC must then find the property
violated: this shows that the property depends on the code.

### CallGate

The `CallGate` interface. `status[c]` says where each call of `Acquire` stands:
idle, asking, inside, refused or left. A call may be admitted only while nobody
is inside; a release either frees the gate or hands it to a call that asks. It
says nothing about which calls wait and which are refused, nor about order.

### SequenceGate (`callgate_sequence.go`)

`busy` and `queue` are the fields; `granted` is the set of calls whose waiter
channel has been closed; `fired` the release functions whose `sync.Once` has
run; `ctxDone` the calls whose context is done; `pc` where the call stands.
`AcquireFast` and `Enqueue` are the two outcomes of the first section under the
mutex; `SelectGranted` and `SelectCtxDone` the two cases of the `select`;
`GiveUpRemoved` and `GiveUpGranted` the two outcomes of the section that looks
for the waiter after the context ended. Between `SelectCtxDone` and those two,
`Release` may hand the slot to this very call. `CtxDone` may occur at any time,
also before the call, and `Release` may occur any number of times.

### SingleGate (`callgate_single.go`)

`token` is the number of elements in the channel of capacity one. The `select`
with its default case gives three actions, of which `AcquireCancelled` and
`TakeToken` may both be enabled. `Release` sends only if there is room, as a
send to a channel does.

### Registry (`registry.go`, `factory.go`)

`m` is the map. `GetFactory` fails for an unknown mode, even if the group
already has its gate; `ReadSection` and `WriteSection` are the sections under
the read and the write lock. A gate is identified by the call that created it.
The errors for a missing provider, a nil factory or a nil gate cannot occur
with `DefaultFactoryProvider`, the only one webcmd uses, and are left out.

### Commands

What the program may rely on of the commands it starts, whatever their
descendants, their output and the goroutines around them do: `command` (with
"exited" for a process that is gone while its wait is not over), `watched`
(somebody waits for it) and `termed` (it got SIGTERM). Signals come only while the
command is watched and its context is done, SIGTERM before SIGKILL if there is a
grace timeout; `WaitReturns` only after the exit; `ProgramEnds` leaves the
processes alone and forgets them.

### ProcessRunner (`processrunner.go`)

The state is the leader (the command), one descendant that stands for all,
the copier of `os/exec`, the context, the waiter (`cmd.Wait`, then the result,
then `close(done)`), the terminator, and the set of signals sent. A descendant
is `attached` (in the group, holding the output pipe), `quiet` (in the group,
output redirected) or `escaped` (in a session of its own, holding the pipe);
what kinds there are is the constant `ChildKinds`. The operating system may let
any process exit at any time or never; SIGTERM may be ignored, so it has no
effect of its own; SIGKILL ends every member of the group at once. `Reap` and
`MakeResult` are the two halves of `cmd.Wait`: the process is reaped first,
which frees its pid, and only then is the end of the output awaited. `ResultOf`
is `exitFromWaitError`: exit code 0 only if the copy succeeded too, a non-zero
code, or an error (killed by a signal, or output lost). Errors of `kill(2)` only
lead to log lines and are left out. `Contract` is Commands for this one command:
it is watched until its result is made, and exited until then when the leader is
gone; `ImplementsCommands` is checked.

### Execution

What the handlers may rely on: the `CommandExecutor` interface and the errors of
`ExecuteResult`. `command`, `exit` and `lost` are the command, how it ended and
whether its output could not be written; `answer` is the result by its class. A
command is refused ("busy", "pre") and never starts, or it starts; a synchronous
answer comes after its end and says how it ended, with exit code 0 only if the
output is complete; an asynchronous one comes at any time after the start.

### Executor (`executor.go` on `gateexec.go`, `middleware.go`)

One request. It INSTANCEs ProcessRunner for the process and sees the gate from
this call's side with the statuses of CallGate, so that other calls appear only
as waiting or refusal. `async`, `gated` and `timed` are fixed in the initial
state and range over all eight kinds of request; `grace` doubles them. A
synchronous command has the context of the request (`RequestEnds` covers the
client, the shutdown and the timeout middleware), an asynchronous one a context
of its own (`TimeoutExpires`, and `Cancel`, the deferred `cancel()` in
`waitAsyncAndLog`). `Start`, `WaitSync`, `WaitAsync` are the action of
`createGateAction`; `ReleaseAndReturn` the release by `gateexec.Run` and the
classification by `Execute`; `ReceiveResult`, `Cancel`, `CloseAsyncDone` the
goroutine of `waitAsyncAndLog` with its deferred calls in reverse order;
`ReleaseAfterDone` the goroutine of `gateexec.Run`. `Promise` is Execution with
the process as its command (`CommandOf`) and a failed copier as its lost output;
`ImplementsExecution` is checked. A discarded output cannot fail, so the copier
of an asynchronous command does not.

### OutputBuffer (`output_buffer.go`)

`mem` and `file` are the bytes in memory and in the temporary file, `spilled`
is `b.file # nil`, `temp` whether the file is on the disk and `stuck` whether the
system refused to remove it. `WriteToMemory` and `WriteToFile` (with
`spillToFile`) are the two ways through `Write`; `CreateFails`, `MoveFails` and
`ShortWrite` its partial failures, in the order in which they may come; `WriteTo`
may read the file in part; `Close` removes it, or not.

### Response (`handlers.go`, `middleware.go`, `flush_writer.go`, `httpx_utils.go`)

One request from the router to the end of the response, over the command of
Execution and the buffer of OutputBuffer. `request` is what each step on the way
makes of it; `Verdict` lists the steps in the order in which `NewRouter` chains
them and the handler runs them. `OutputToBuffer` and `OutputToClient` are a write
of the goroutine that copies the output, in buffered and stream mode; a write
that fails ends the output. `TellRefusal`, `TellFailure` and `TellExit` are what
`runCommand` and `translateError` make of the answer, `WriteBody` sends the
buffered output, `Finish` is the deferred `Close` and the status net/http sends
by default. `SetHeaders` has what net/http does to a header that comes after the
status: it is lost, unless it was declared as a trailer, as stream mode does.
The bytes of the output are 1, 2, 3, ..., so that a missing, doubled or misplaced
one shows. X-Error-Message, the request id and all texts are left out.

### ServerLife

What the callers of `Run` and `Shutdown` and the clients may rely on: the server
opens once and is told to stop for good (`stopping`); of the calls of `Run` one
has it, of those of `Shutdown` one ends it (`carriers`); a request gets in only
while it is open and was not told to stop; `ReturnDrained`, `DropAfterGrace`,
`ReturnServed` and `ReturnEmpty` are the ways in which a call may return, each with
what must be true then.

### GraceHttp (`gracehttp.go`)

Calls of `Run` and of `Shutdown` are processes with a `pc`. The three
compare-and-swaps and loads of `Shutdown` are three actions; `Run`'s set-up is
`CheckState`, `Listen`, `Recheck`; `waitForExit` is `FirstSignal` or
`SeeServeEnd`, and the goroutine it starts is `killer`. What both paths share
(`requestShutdown`, `shutdown`) is `RequestShutdown`, `Shut`, and then `Drained`,
or `GraceExpires` and `ForceClose`. `http.Server` is external: `Serve` refuses to
start on a server that is shutting down and ends as soon as its listener is
closed; `Shutdown` closes the listener only if `Serve` knows it, and waits for
open connections; `Close` drops them, while their handlers run on ("dropped").
Each request has a connection of its own. The server makes its own signal
channel of capacity 2, as `server.go` has it do, and a signal that finds it full
is lost. The options and `RejectOnShutdown` (not switched on by `server.go`) are
left out. `Life` is ServerLife with `Serving` and `Carriers` as the mapping;
`ImplementsServerLife` is checked.

### Webcmd (`main.go`, `server.go`, on all the parts above)

Several requests, each with the endpoint it asks for (`kind`), in a program that
may stop or crash and be started again. Registry and GraceHttp are INSTANCEd and
take all their own steps (`LookUp`; `ServerRuns`, `KillerRuns`, `ServeRuns`,
`Accept`, `HandlerReturns`). Of a gate there is what CallGate promises and the
two kinds of gate differ in: `Admit` finds the gate free and does not look at the
context; `Queue` is for the sequence gate only; `Refuse` is for a single gate that
is taken, and for a context that is done. `Permits(g)` is what the requests of a
group make of their gates, and `GroupsAreCallGates` says that this is one CallGate
for as long as the program runs. Commands is INSTANCEd for the processes
(`Process!Start`, `Process!Exit`, `Terminate`, `WaitReturns`), with the contexts of
the commands as its input; like ProcessRunner when no descendant leaves its group,
a context that ends ends the command, in the end. `handler` is where a handler stands, `watched` whether a goroutine
of the program waits for the command (`WaitReturns`), which gives the gate back.

`notified` is the context that `main` makes of SIGINT and SIGTERM. It is the base
context of the server, so that `RequestCtxDone` holds for every request once it is
cancelled; the server has a signal channel of its own, and `SignalMainOnly` is a
signal sent while that does not exist yet, or no longer. `ProgramEnds` is what
`Exit` and `Crash` have in common: all state of the program is gone, gates
included, and the commands run on with nobody to wait for them.

## 3. What the runs show

| run | configuration | shows |
|---|---|---|
| `sequence` | 4 calls | slot never lost or double, queue sound (`QueueInvariant`), FIFO, only cancelled waiters are refused (`RefusesOnlyCancelled`), waiters return, implements CallGate |
| `single` | 4 calls | one owner, token accounted for, busy only while owned, implements CallGate |
| `process` | every kind of descendant | results are real, signals in order, late cancellation harmless, the terminator ends, cancelled commands and waits end (`CancelEnds`), implements Commands |
| `executor` | 16 kinds of request, every kind of descendant | the gate covers the command and is given back on every path, also after a timeout; a synchronous answer comes last; implements Execution |
| `response` | 192 kinds of request, outputs of up to 5 bytes, a buffer of 2 | statuses and headers are true, success means the full output, bodies are prefixes of it, no temporary file stays |
| `http` | 1 `Run`, 2 `Shutdown`, 2 requests, 3 signals | one shutdown, no request after it, nil means drained (for a `Run` stopped by signals), signals and `Shutdown` stop `Run` (`RunStops`) and return; implements ServerLife |
| `webcmd` | 2 requests, 3 pairs of endpoints, 1 signal, 2 starts | one gate and one command per group, across modes and asynchronous commands; only a program that ends leaves commands running, of each group one at most (`OneLeftPerEnd`); the gates of a group are one CallGate (`GroupsAreCallGates`); a clean stop leaves only asynchronous commands; every request whose context ends returns |
| `registry_mode` | 3 calls, 2 groups, 3 modes | **violated**: a call may get a gate of the other mode |
| `process_orphan` | as `process` | **violated**: a group member survives the terminator |
| `executor_cleanup` | as `executor` | **violated**: a signal for the `cancel()` after the result |
| `response_truncated` | as `response` | **violated**: an exit code with a part of the output |
| `webcmd_signal` | as `webcmd`, 1 start | **violated**: a signal that does not stop the program |

Bounds. With four calls of a gate there is an owner, a waiter that gives up,
one ahead of it and one behind it, which are all the roles the code knows; the
proofs remove the bound. Three calls can race twice for one group while another
group exists. One process needs no bound but the single descendant, which may
be replaced by nobody: after it ended, no further one is forked; a second one
would only repeat what the first may do. In `http`, three signals fill the
channel of capacity 2 and lose one, two calls of `Shutdown` race each other and
the signal path, two requests can be on either side of each step. A second call
of `Run` does nothing but read the state and return an error, so one is run
here; the definitions allow more. In `response` the output is written one or two
bytes at a time, so that a buffer of 2 (`Threshold`) is filled exactly, jumped
over and filled in two steps, and 5 bytes (`MaxOutput`) let the file be written
to once more after the spill and after a write that ended the memory part. The
threshold of webcmd is 10240 bytes; nothing in the code depends on it being
large. In `webcmd` two requests are a command and a competitor for its group; the
three pairs are a queue that a single asynchronous endpoint shares, an
asynchronous command in a queue beside a request without a gate, and a single
gate beside an unknown mode. In the first, whichever request comes first decides
the mode, and the synchronous one may have to wait for the asynchronous command.
Between them every mode, both kinds of execution, and endpoints with and without a
timeout and a grace period occur.
Two starts let a command of
an earlier run meet a request of the next. Two requests and two starts are enough for
`OneLeftPerEnd` to fail: a program in its first run may leave no command, one that
ended once or was started again one of the two; `OneCommandPerGroup`, which is about
the commands somebody waits for, does not notice a command that is given up. One
signal can fall on either side of the server's own channel; what a second one
does to the server is in `http`, and the proofs hold for any number. Bounded by a
guard are the signals that are sent (`MaxSignals`), the starts (`MaxStarts`)
and the output (`MaxOutput`).

Deadlock is checked for `sequence`, where a call's release function may be
called again for ever, so that a state without a step would be one in which
calls wait for nobody. Elsewhere the system comes to an end: every call of
`Acquire` was refused, every process ended, every server shut down.

Fairness. Every goroutine that can take a step eventually takes one (the Go
scheduler), a mutex is acquired eventually, timers fire, and a copier whose pipe
was closed sees the end of file. In `SequenceGate` a caller that got the slot
eventually calls its release function, which `gateexec.Run` does on every path
(`GateGivenBack` in Executor). Nothing is assumed of the environment: a command
need not exit, a context need not end, a client, a signal or a handler may never
come, or never leave. In Executor the gate owes the call nothing either.
In Webcmd there is one condition for the steps of the program itself
(`ServerStep`) and one for each request (`RequestStep`): under one condition stand
the steps of several goroutines, but each of them happens a bounded number of
times in one life of the program, so that none can keep another waiting. Commands
need not exit, and the program need not be started again.

Two liveness properties carry an exception that the code has: the second half of
`CancelEnds` and `TimeoutFreesGate` are met only if no descendant has escaped from the
process group while it holds the output pipe. With such a descendant, which
SIGKILL to the group does not reach, `cmd.Wait` waits for it, and so do the
request and its gate.

### Where the code and its documentation differ

1. `registry_mode`. The gate of a group has the mode of the first endpoint that
   was called. An endpoint with `mode: single` that shares its `groupName` with
   a `sequence` endpoint may wait, although README.md:344 promises a 429; the
   other way round, a call of a `sequence` endpoint may be refused, as in the trace.
2. `process_orphan`. With a grace period, a descendant that ignores SIGTERM and
   does not keep `cmd.Wait` from returning is never sent SIGKILL if the command itself
   exits in time; the package comment says that the whole group is terminated. Such a
   descendant does not hold the output pipe, or the copy of the output has failed.
3. `executor_cleanup`. `cancel()` follows the receipt of the result, which comes
   before `close(done)`; the terminator may see the context first and signal the
   group of a command that finished in time. With a quiet descendant that was
   meant to stay, it is killed.
4. `response_truncated`. When the buffer cannot take the output, for want of
   disk space, say, and the command exits with a code other than 0, the code is
   reported and the part in the buffer is sent as if it were all, although
   README.md:337 promises the full output. With exit code 0 the loss turns into
   a failure, as it should.
5. `webcmd_signal`. `main` catches SIGINT and SIGTERM before it makes the server, the server
   from the middle of `Run` on, and nothing looks at the context of `main`
   except as the base of the contexts of requests. A signal in between is
   swallowed: the server serves on, and the context of every request is done
   before it begins, so that each synchronous command is killed as soon as it
   starts. The comment of `Run` says that "the first termination signal triggers a
   graceful shutdown" (gracehttp.go:136).

Noted without a run; all but the last are visible in the models:

- Both gates may admit a call whose context is already done (`AcquireFast` does
  not look at it, and the `select` of `SingleGate` may choose the token),
  although the comments of `Acquire` say that it returns the error of the
  context "if the context is canceled before acquiring"
  (`callgate_sequence.go:27`, `callgate_single.go:29`). The command that is then
  started is signalled at once, which Executor covers.
- `done` is looked at before a signal is sent (`processrunner.go:169`) and closed
  after the output was drained, so that a signal may go to a group whose
  processes have all been reaped, and whose id may be somebody else's, which the
  comment at `processrunner.go:118` sets out to avoid.
- After a call of `Shutdown`, `Run` may return nil while requests are still being
  drained, because `Serve` returns as soon as the shutdown begins
  (`gracehttp.go:229`). `NilMeansDrained` is about a `Run` stopped by signals.
- `Run` between two steps of `Shutdown` makes `Shutdown` answer
  `ErrAlreadyShutdown` and do nothing (`gracehttp.go:256`). webcmd itself never
  calls `Shutdown`.
- After a `Listen` that failed the state stays "running", and another `Run` is told
  that the server is (`gracehttp.go:188`).
- The contexts of all requests end at the start of a shutdown, so that synchronous
  commands are signalled at once, although README.md:270 describes the grace period
  as a wait for them. One whose grace termination timeout is longer than that
  period never gets its SIGKILL (README.md:333), because `main` has returned.
- The timeout of an asynchronous command (README.md:339) is kept by a goroutine
  of the program and ends with it, and so does its hold on the gate
  (README.md:344): after a restart another command of the group may run beside
  it. `OneCommandPerGroup` is about the commands of one run of the program.
- The temporary file of a buffered response may be unreadable; the response then
  says success and has a part of the output, and only the log tells
  (`handlers.go:382`). `SuccessMeansFullOutput` excepts this case by name.
- X-Error-Message is set when a command fails whatever `withErrorHeader` says
  (`handlers.go:217`, README.md:240), and an asynchronous request is told
  X-Success "true" before its command ended (`handlers.go:224`, README.md:238).

## 4. What is proved

All theorems hold for every value of the constants: any set of calls, requests
and groups, finite or not, any bounds. The assumptions are on constants only, and
TLC evaluates them in the runs:

| assumption | module | says |
|---|---|---|
| `ChildKindsAssumption`, `DescendantsAssumption` | ProcessRunner, Executor | descendants are of the three kinds |
| `MaxSignalsAssumption`, `CallsAssumption` | GraceHttp | the bound is a natural number; a call is of `Run` or of `Shutdown`, not both |
| `ThresholdAssumption`, `MaxOutputAssumption` | Response | natural numbers |
| `WorkloadsAssumption`, `BoundsAssumption` | Webcmd | workloads give each request an endpoint; the bounds are natural numbers, with one start at least |

Every safety property of the passing runs, action properties and refinements
included, is proved; `theorems` in `PROJECT.json` pairs them. Proved but not in
a run's list are the type invariants of SingleGate, Registry, ProcessRunner,
GraceHttp and Webcmd, and `MutualExclusion` of the two gates.

Four contracts hold the system together. Each is a specification of its own,
one side is proved to keep its promise, and the other to use it as it may be used:

| contract | kept by | relied on by |
|---|---|---|
| CallGate | SequenceGate, SingleGate (`Refinement`) | a request asks once, enters only if admitted, leaves once at most (Executor, `GateProtocol`); what the requests of the program see of a group is one CallGate for each start, whatever modes they asked for (Webcmd, `GatesOfGroups`) |
| Commands | ProcessRunner (`Refinement`), for any descendants and output | a request runs one process by the rules of ProcessRunner (Executor, `RunsOneProcess`); the program starts, waits for and abandons its commands as Commands says, through crashes and restarts (Webcmd, `CommandsObeyed`) |
| Execution | Executor (`Refinement`) | Response composes the steps of Execution with its own, by construction |
| ServerLife | GraceHttp (`Refinement`), for any number of calls | Webcmd composes the steps of GraceHttp with its own (`StepOfServer`) |

And for the runs that show a violation, what holds of the code nevertheless:

| violated | proved instead |
|---|---|
| `ModeHonoured` | `ModeOfGroup`: a gate has the mode asked for by the call that made it, so groups whose endpoints agree on the mode get it |
| `WholeGroupTerminated` | `SurvivorsExplained`: a member of a signalled group survives only a SIGTERM that no SIGKILL followed, so only if there is a grace timeout |
| `NoSignalForCleanup` | `CleanupTooLate`: the `cancel()` after a result finds the command reaped; no running command is signalled for it |
| `BufferedOutputIsFull` | `OnlyLossTruncates`: a client that stays gets the full output unless a write to the buffer failed or its file cannot be read; `ExitCodeTruthful`: the exit code is the command's in any case |

**SequenceGateProofs.** The inductive invariant is the conjunction of the safety
invariants of the run, none of which is inductive alone. `MutualExclusion` at
`AcquireFast` needs `SlotAccounted` (not busy means no owner); `SlotAccounted`
at `Release` needs `MutualExclusion` (the one that releases was the only owner)
and `QueueHoldsWaiters` (the head of the queue is a call that waits and has not
been granted); `QueueHoldsWaiters` at `GiveUpRemoved` needs that the queue is
injective; `GrantsHonoured` says that grants and releases only belong to calls
that reached the point where they can have them. Four lemmas about sequences
(`RemoveAt`, `Append` and `Tail` of an injective sequence) carry the queue.
From it follow `SlotExclusive`, `SlotNeverLost` and `QueueSound` (which is
`QueueInvariant`: the queue, the grants, and no wakeup lost); `StrictFIFO`
uses that a step makes a new owner only by the fast path, which needs an empty
queue, or of the head of the queue (`NewOwner`); `Refinement` shows that each
step is a step of `CallGate` or a stutter. `NoOtherRefusal` (nobody who was granted
the slot, and nobody whose context lives on, is refused) needs that whoever is on
the way out has a context that is done (`OnlyCancelledGiveUp`).

**SingleGateProofs.** `MutualExclusion` and `TokenAccounted` need each other,
plus that only acquired calls have released. `TypeCorrect`, `TokenExclusive`,
`BusyIsHonest`, `Refinement`.

**RegistryProofs.** The invariant is that a returned gate is the gate of its
group; `GateUnique` follows. `ModeOfGroup` adds that the maker of a gate asked for
one (`MakersAsked`), so that its mode is the mode of one of the group's calls.

**ProcessRunnerProofs.** The invariant relates the waiter to the process
(`WaiterFollowsProcess`) and each state of the terminator to the signals sent
(`SignalsFollowTerminator`). `ResultIsReal`, `SignalsSound`; `LateCancel` uses a
second invariant that holds from the moment on when the wait is over. `Refinement`
maps the process to a command of Commands: it is watched from `Start` until its
result is made, and exited while the leader is gone and the watch is not over. One
lemma says, for each action of Commands, which change of the mapped variables makes
the action happen (`ContractStarts`, `ContractKills`, ...). That a signal of the
terminator is one Commands allows, or one that nobody notices, is
`SignalsFollowTerminator`.

**ExecutorProofs.** A step of Executor is a step of ProcessRunner or leaves the
process alone (`StepOfRunner`), so that the invariant of ProcessRunnerProofs holds
here too. On top of it, `ExecuteFollowsProcess` and `ConsumerFollowsProcess` tell
what the place of each goroutine says about the process (a synchronous request
waits until the waiter closed `done`; the consumer of an asynchronous one exists
exactly as long as somebody must release for it), `GateFollowsExecute` names the
three ways in which a returned request may have left its gate, and
`AsyncIsDetached` says whose context an asynchronous command has. `GateHeld`,
`SyncAnswered` and `AsyncLeftAlone` follow; `Refinement` shows that each step is a
step of Execution or a stutter, where the command of Execution is not the process
but the process and its output together. `CleanupTooLate` needs that an asynchronous
command whose context ended without a timeout is one whose consumer has the result
(`OnlyCleanup`). `RunsOneProcess` and `GateProtocol` say what Executor asks of its
parts: through them, everything proved about ProcessRunner holds of the process of a
request.

**ResponseProofs.** `AnswerTellsCommand` is what the handler may conclude from
the answer, `HeadTellsAnswer` what the status and the headers say at each of its
places, `FileIsKnown` who can still remove the temporary file. `OutputArrives` is
the heart: what is in the memory, in the file or with the client is 1, 2, 3, ...
up to some length, and up to the whole length unless a write failed.
Lemmas about `IsPrefix` and appended chunks carry it. From it follow
`StatusTruthful`, `SuccessTruthful`, `BodyTruthful` and `FileRemoved`, for any
threshold and any output, and `ExitCodeTruthful` and `OnlyLossTruncates`.

**GraceHttpProofs.** `OneOfEach`: the two compare-and-swaps let one `Shutdown` and
one `Run` through, which needs that a place in the code implies a state already
changed. `StoppingHasCause`: a server that was told to stop was told by somebody
who is draining, or has drained, or by a second signal; without it
`NilDrained` fails at a `Run` that returns because `Serve` did. `NilIsDrained`:
nobody is served once nil was returned. `ShutdownOnce`, `NilDrained`,
`NobodyAfterShutdown`, for any number of calls, requests and signals.
`Refinement` maps the places of all calls to the life of one server and the calls
that have it in charge. Those are one call of `Run` and one of `Shutdown`
(`OneOfEach`), who is in charge follows from where it stands (`CarriersFollow`), a
server that began to serve never does so again (`ServedOnce`), and a `Run` that
returns because `Serve` did finds somebody who told the server to stop
(`StoppingHasCause`).

**WebcmdProofs.** RegistryProofs and GraceHttpProofs are INSTANCEd and their
step lemmas cited: a step of the program is a step of theirs, or leaves
their variables alone, or ends the program, which sets them back to their
initial values. What is new is `HandlerInPlace`
(a handler past the lookup has a gate, and its request is open),
`WatchFollowsHandler` (a synchronous command is waited for by a handler that has
not returned) and `PermitCoversCommand` (who starts or waits for a command is
inside its gate, and alone there). `OneAtATime` needs the last with the
registry's invariant: without one gate per group, being alone inside a gate says
nothing about the group. `CleanStop` needs `WatchFollowsHandler` with
`NilIsDrained`: the drain waits for handlers, not for commands. `GatesOfGroups`
maps the requests to the calls of one CallGate by group: the place of a handler
decides what may be asked of its permit (`PermitInPlace`), and a program that is down
has no handlers (`DownIsEmpty`), so that the next start finds new gates. `LeftPerEnd`
is inductive as it stands, by counting: a step of a program that runs leaves no
command behind, and one that ends at most the one of each group that was waited for
(`OneWatched`). `OnePerStart`, that no more commands of a group run than the program
had starts, follows. These two are the only proofs that use theorems about cardinality.
`CommandsObeyed` shows that no step of the program touches a command otherwise than
Commands allows.

Only model-checked: all liveness (`WaitersReturn`, `TerminatorEnds`, `CancelEnds`,
`GateGivenBack`, `TimeoutFreesGate`, `RunStops`, `ShutdownReturns`,
`CancelledRequestsReturn`), which is out of the prover's reach. A refinement says
nothing of liveness either. The fairness of Webcmd that goes beyond the Go
scheduler is about its parts, and is what TLC checks of them: that a cancelled
command is signalled and waited for to the end is `CancelEnds` of ProcessRunner. That a
request at a gate gets an answer once its context ends is how the `select` of
SequenceGate reads, whose second case is enabled from then on; `WaitersReturn` is
about something else, that a waiter needs no cancellation if callers release.

## 5. Not modelled

- The configuration (`pkg/config`): parsing, defaults and validation before the
  server starts. It has no state afterwards; the endpoints it may yield are the
  `kind` of Webcmd.
- The command builder (`pkg/cmdbuilder`): a pure function from a template and
  parameters to strings, through `text/template`. A failure of it is one of the
  outcomes before a command starts (`Verdict`).
- HTTP parsing, routing, request ids, logging, header and template texts,
  X-Error-Message; of authorisation, how a key and a URL become a name and a
  command. They are formatting and lookups without a state of their own; their
  outcomes are in `Verdict`, in the order of the code.
- `pkg/cmdrunner` beyond the effects of start, wait and kill, which are those of
  `os/exec` and `kill(2)`.
- The options of `pkg/gracehttp`, read once, and `RejectOnShutdown`, which
  webcmd does not switch on.
- In Webcmd, descendants that leave the process group, and the output: they are
  in ProcessRunner, Executor and Response, one request at a time.

## 6. Plan

All of it is done.

1. `CallGate`, `SequenceGate`, `SingleGate`, with refinement; proofs.
2. `Registry`; proofs.
3. `ProcessRunner`; proofs.
4. `Executor`, which composes ProcessRunner with a gate as CallGate describes it,
   and `Execution`, which it implements; proofs.
5. `GraceHttp`; proofs, for any numbers of calls, requests and signals.
6. `OutputBuffer`, and `Response` over it and over Execution; proofs, for any
   threshold and any output.
7. `Webcmd`: several requests of several groups over the registry, gates and
   commands, inside the life of the program, its crash and its restart; proofs.
8. The contracts between the parts: `Commands` and `ServerLife`, who implements them,
   and that the composed modules keep to them; and what holds of the promises that
   the code does not keep in full.

What could come next: liveness of CallGate and Commands checked with the
refinements, so that the fairness of Webcmd is derived and not only quoted; Webcmd
over the full ProcessRunner, with descendants that escape, for which TLC would need a smaller instance of everything else.
