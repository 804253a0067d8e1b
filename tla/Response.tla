------------------------------ MODULE Response ------------------------------
(***************************************************************************)
(* One HTTP request, from the router to the end of the response:           *)
(* pkg/server/middleware.go, handlers.go and flush_writer.go, with         *)
(* ErrorSink of pkg/httpx/httpx_utils.go as the last to see an error.  The *)
(* command and the answer of Execute are those of Execution, the output    *)
(* buffer of a buffered request is OutputBuffer.                           *)
(*                                                                         *)
(* A request is described by what the steps on its way make of it, a       *)
(* header by whether it says yes, no or something.  The output of the      *)
(* command is the bytes 1, 2, 3, ..., in this order.  An http.Flusher is   *)
(* there, as it is for every request net/http serves.                      *)
(***************************************************************************)
EXTENDS Naturals, SequencesExt

CONSTANTS
  Threshold,  \* of the output buffer
  MaxOutput   \* bound on the output of a command, in bytes

ASSUME ThresholdAssumption == Threshold \in Nat

ASSUME MaxOutputAssumption == MaxOutput \in Nat

VARIABLES
  async, command, exit, lost, answer,
  mem, file, spilled, temp, stuck,
  request,     \* the request; fixed
  pc,          \* where the handler stands
  written,     \* how many bytes of output the command wrote
  client,      \* the client is there
  status,      \* the status sent, 0 for none yet
  xSuccess,    \* X-Success, as the client gets it
  xExitCode,   \* X-Exit-Code
  body,        \* the bytes of output the client got
  readFailed   \* the temporary file could not be read

execVars == <<async, command, exit, lost, answer>>
bufferVars == <<mem, file, spilled, temp, stuck>>
headers == <<xSuccess, xExitCode>>
vars == <<execVars, bufferVars, request, pc, written, client, status, headers, body,
          readFailed>>

Execute == INSTANCE Execution
Buffer == INSTANCE OutputBuffer

Requests ==
  [found : BOOLEAN,                                      \* the URL has a command
   auth : {"open", "allowed", "anonymous", "other"},     \* the key, for that command
   content : {"good", "unreadable", "notJSON"},          \* the request body
   renders : BOOLEAN,                                    \* the template can be built
   mode : {"buffered", "stream", "async", "unknown"}]

Output == [i \in 1 .. written |-> i]

-----------------------------------------------------------------------------

Init ==
  /\ Execute!Init /\ Buffer!Init
  /\ request \in Requests
  /\ async = (request.mode = "async")
  /\ pc = "admit" /\ written = 0 /\ client = TRUE
  /\ status = 0 /\ xSuccess = "unset" /\ xExitCode = "unset"
  /\ body = <<>> /\ readFailed = FALSE

\* The client goes away; its request's context then ends the command (End).
ClientLeaves ==
  /\ client
  /\ client' = FALSE
  /\ UNCHANGED <<execVars, bufferVars, request, pc, written, status, headers, body,
                 readFailed>>

-----------------------------------------------------------------------------
\* Before the command

\* What the middleware and the handler find, in the order they look: the status
\* of the error, or 200.
Verdict(r) ==
  IF ~r.found THEN 404 ELSE
  IF r.auth = "anonymous" THEN 401 ELSE
  IF r.auth = "other" THEN 403 ELSE
  IF r.content = "unreadable" THEN 500 ELSE
  IF r.content = "notJSON" THEN 400 ELSE
  IF ~r.renders \/ r.mode = "unknown" THEN 500 ELSE 200

Reject ==
  /\ pc = "admit" /\ Verdict(request) # 200
  /\ status' = Verdict(request)
  /\ pc' = "done"
  /\ UNCHANGED <<execVars, bufferVars, request, written, client, headers, body, readFailed>>

Admit ==
  /\ pc = "admit" /\ Verdict(request) = 200
  /\ pc' = "execute"
  /\ UNCHANGED <<execVars, bufferVars, request, written, client, status, headers, body,
                 readFailed>>

-----------------------------------------------------------------------------
\* Execute

CommandStep ==
  /\ \/ pc = "execute" /\ Execute!Begin
     \/ Execute!End
  /\ UNCHANGED <<bufferVars, request, pc, written, client, status, headers, body, readFailed>>

ExecuteReturns ==
  /\ pc = "execute"
  /\ Execute!Refuse \/ Execute!Answer
  /\ pc' = "answered"
  /\ UNCHANGED <<bufferVars, request, written, client, status, headers, body, readFailed>>

\* One write of the goroutine that copies the output: 1 or 2 more bytes.
Chunks == {[i \in 1 .. n |-> written + i] : n \in 1 .. 2}

NewOutput(data) ==
  /\ command # "none" /\ answer = "none" /\ ~lost
  /\ written + Len(data) <= MaxOutput
  /\ written' = written + Len(data)

OutputToBuffer ==
  /\ request.mode = "buffered"
  /\ \E data \in Chunks :
       /\ NewOutput(data)
       /\ \/ Buffer!Write(data) /\ UNCHANGED execVars
          \/ Buffer!WriteFails(data) /\ Execute!LoseOutput
  /\ UNCHANGED <<request, pc, client, status, headers, body, readFailed>>

\* flushResponseWriter: the first write sends the status; when the client is
\* gone a write may seem to succeed.
OutputToClient ==
  /\ request.mode = "stream"
  /\ \E data \in Chunks :
       /\ NewOutput(data)
       /\ \/ client /\ body' = body \o data /\ UNCHANGED execVars
          \/ ~client /\ UNCHANGED <<body, execVars>>
          \/ ~client /\ UNCHANGED body /\ Execute!LoseOutput
  /\ status' = 200
  /\ UNCHANGED <<bufferVars, request, pc, client, headers, readFailed>>

-----------------------------------------------------------------------------
\* After it

\* Mutant: only a busy gate is told from a failed run.
RefusedBusy == answer = "busy"

\* errors.Is(res.Err, executor.ErrPreExecution)
Refused == answer \in {"busy", "pre"}

\* A header set once the status is sent is lost, unless it was declared as a
\* trailer, which a streamed response does.
SetHeaders(success, code) ==
  IF status = 0 \/ request.mode = "stream"
    THEN xSuccess' = success /\ xExitCode' = code
    ELSE UNCHANGED headers

TellRefusal ==
  /\ pc = "answered" /\ Refused
  /\ status' = IF answer = "busy" THEN 429 ELSE 500
  /\ pc' = "close"
  /\ UNCHANGED <<execVars, bufferVars, request, written, client, headers, body, readFailed>>

\* A run that failed has no exit code, and its buffered output is not sent.
TellFailure ==
  /\ pc = "answered" /\ ~Refused /\ answer \notin {"exit0", "exitN"}
  /\ SetHeaders("false", "empty")
  /\ pc' = "close"
  /\ UNCHANGED <<execVars, bufferVars, request, written, client, status, body, readFailed>>

TellExit ==
  /\ pc = "answered" /\ answer \in {"exit0", "exitN"}
  /\ IF answer = "exit0" THEN SetHeaders("true", "zero") ELSE SetHeaders("false", "nonzero")
  /\ pc' = IF request.mode = "buffered" THEN "write" ELSE "close"
  /\ UNCHANGED <<execVars, bufferVars, request, written, client, status, body, readFailed>>

\* The buffered output is sent; an error is only logged.
WriteBody ==
  /\ pc = "write"
  /\ \E out \in Prefixes(mem) \cup Prefixes(file) :
       /\ Buffer!WriteTo(out)
       /\ readFailed' = (spilled /\ out # file)
       /\ body' = IF client THEN out ELSE body
  /\ status' = 200
  /\ pc' = "close"
  /\ UNCHANGED <<execVars, request, written, client, headers>>

\* The deferred Close of the buffer, and the status net/http sends by default.
Finish ==
  /\ pc = "close"
  /\ IF request.mode = "buffered" THEN Buffer!Close ELSE UNCHANGED bufferVars
  /\ status' = IF status = 0 THEN 200 ELSE status
  /\ pc' = "done"
  /\ UNCHANGED <<execVars, request, written, client, headers, body, readFailed>>

-----------------------------------------------------------------------------

Next ==
  \/ ClientLeaves
  \/ Reject \/ Admit
  \/ CommandStep \/ ExecuteReturns \/ OutputToBuffer \/ OutputToClient
  \/ TellRefusal \/ TellFailure \/ TellExit \/ WriteBody \/ Finish

Spec == Init /\ [][Next]_vars

-----------------------------------------------------------------------------
\* Properties

TypeOK ==
  /\ Execute!TypeOK /\ Buffer!TypeOK
  /\ request \in Requests
  /\ pc \in {"admit", "execute", "answered", "write", "close", "done"}
  /\ written \in 0 .. MaxOutput
  /\ client \in BOOLEAN
  /\ status \in {0, 200, 400, 401, 403, 404, 429, 500}
  /\ xSuccess \in {"unset", "true", "false"}
  /\ xExitCode \in {"unset", "empty", "zero", "nonzero"}
  /\ body \in Seq(1 .. MaxOutput)
  /\ readFailed \in BOOLEAN

\* "200 OK: returned when the command starts successfully, regardless of whether
\* the command later exits with code 0 or non-zero, or fails" (README), and only
\* then; such a response always says whether the command succeeded.
StatusTellsStart ==
  pc = "done" =>
    /\ status = 200 <=> command # "none"
    /\ status = 200 <=> xSuccess # "unset"

\* A client that is told that its command succeeded can rely on it, and has all
\* the output, through whatever buffer it came; the one exception is a temporary
\* file that cannot be read back.
SuccessMeansFullOutput ==
  pc = "done" /\ xSuccess = "true" /\ ~async =>
    /\ exit = "zero"
    /\ client /\ ~readFailed => body = Output

\* What a client gets is the beginning of the output, on every path: no byte is
\* missing in the middle, doubled or out of order.
BodyIsPrefix == IsPrefix(body, Output)

\* When the request is over its temporary file is gone, whichever step failed,
\* unless the system would not remove it.
NoTempFileStays == pc = "done" => (temp => stuck)

\* "buffered: (default) run command synchronously and return the full output once
\* it finishes" (README): a response that has the exit code has the output.
BufferedOutputIsFull ==
  /\ pc = "done" /\ request.mode = "buffered" /\ client /\ ~readFailed
  /\ xExitCode \in {"zero", "nonzero"}
  => body = Output

=============================================================================
