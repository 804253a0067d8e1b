--------------------------- MODULE ResponseProofs ---------------------------
(***************************************************************************)
(* Theorems about Response, for any threshold and any length of output.    *)
(***************************************************************************)
EXTENDS Response, SequenceTheorems, TLAPS

-----------------------------------------------------------------------------
\* The inductive invariant.

\* The handler knows from the answer whether the command was started, and of a
\* synchronous one how it ended; exit code 0 says that no output was lost as well.
AnswerTellsCommand ==
  /\ async <=> request.mode = "async"
  /\ pc = "admit" => command = "none"
  /\ pc \in {"admit", "execute"} => answer = "none"
  /\ pc \notin {"admit", "execute"} /\ (pc = "done" => command # "none") =>
       answer # "none" /\ request.mode # "unknown"
  /\ pc = "execute" => request.mode # "unknown"
  /\ answer # "none" => (command = "none" <=> answer \in {"busy", "pre"})
  /\ answer # "none" /\ command # "none" /\ ~async => command = "ended"
  /\ answer = "exit0" /\ ~async => exit = "zero" /\ ~lost
  /\ answer = "exitN" => ~async /\ exit = "nonzero"
  /\ answer = "runtime" => ~async /\ (exit = "signal" \/ (exit = "zero" /\ lost))
  /\ command = "ended" => exit # "none"

\* The status and the headers agree from the moment the handler turns to them.
HeadTellsAnswer ==
  /\ pc \in {"admit", "execute", "answered"} =>
       /\ xSuccess = "unset"
       /\ status = 0 \/ (status = 200 /\ request.mode = "stream" /\ command # "none")
  /\ pc = "write" =>
       /\ request.mode = "buffered" /\ command # "none"
       /\ status = 0 /\ xSuccess # "unset"
  /\ pc \in {"close", "done"} =>
       IF command = "none" THEN status \notin {0, 200} /\ xSuccess = "unset"
                           ELSE status \in {0, 200} /\ xSuccess # "unset"
  /\ pc = "done" => status # 0
  /\ xSuccess = "true" => answer = "exit0"
  /\ xExitCode = "zero" => answer = "exit0"
  /\ xExitCode = "nonzero" => answer = "exitN"
  /\ xExitCode = "empty" => answer = "runtime"

\* A temporary file that nobody can remove any more is one the system kept.
FileIsKnown ==
  /\ temp => spilled \/ stuck
  /\ spilled => request.mode = "buffered" /\ command # "none" /\ pc # "done"

\* Bytes 1, 2, 3, ... of the output, up to some length.
Begins(s) == Len(s) <= written /\ \A i \in 1 .. Len(s) : s[i] = i

Content == IF spilled THEN file ELSE mem

\* The output is in the buffer until it is sent, or with the client at once.
OutputArrives ==
  /\ Begins(body)
  /\ request.mode = "buffered" /\ pc \in {"admit", "execute", "answered", "write"} =>
       /\ Begins(Content)
       /\ ~lost => Len(Content) = written
  /\ request.mode = "buffered" /\ pc \in {"close", "done"} =>
       (answer \in {"exit0", "exitN"} /\ ~lost /\ client /\ ~readFailed
          => Len(body) = written)
  /\ request.mode = "stream" /\ client /\ ~lost => Len(body) = written

IInv ==
  /\ TypeOK
  /\ AnswerTellsCommand
  /\ HeadTellsAnswer
  /\ FileIsKnown
  /\ OutputArrives

-----------------------------------------------------------------------------
\* Sequences of bytes

LEMMA ChunkCounts ==
  ASSUME written \in Nat, NEW data \in Chunks
  PROVE  /\ data \in Seq(Nat)
         /\ \A i \in 1 .. Len(data) : data[i] = written + i
<1>1. PICK n \in 1 .. 2 : data = [i \in 1 .. n |-> written + i]
  BY DEF Chunks
<1> QED
  BY <1>1

LEMMA PrefixOf ==
  ASSUME NEW s \in Seq(Nat), NEW p \in Prefixes(s)
  PROVE  /\ p \in Seq(Nat)
         /\ Len(p) <= Len(s)
         /\ \A i \in 1 .. Len(p) : p[i] = s[i]
<1>1. PICK l \in 0 .. Len(s) : p = SubSeq(s, 1, l)
  BY DEF Prefixes
<1> QED
  BY <1>1

LEMMA PrefixBegins ==
  ASSUME written \in Nat, NEW s \in Seq(Nat), Begins(s), NEW p \in Prefixes(s)
  PROVE  p \in Seq(Nat) /\ Begins(p)
BY PrefixOf DEF Begins

\* All the output so far, and then some of the new, or nothing.
LEMMA Longer ==
  ASSUME written \in Nat, NEW s \in Seq(Nat), Begins(s), Len(s) = written,
         NEW data \in Chunks, written' = written + Len(data),
         NEW part \in Seq(Nat), Len(part) <= Len(data),
         \A i \in 1 .. Len(part) : part[i] = data[i]
  PROVE  /\ s \o part \in Seq(Nat)
         /\ Len(s \o part) = written + Len(part)
         /\ Len(s \o part) <= written'
         /\ \A i \in 1 .. Len(s \o part) : (s \o part)[i] = i
<1>1. /\ data \in Seq(Nat)
      /\ \A i \in 1 .. Len(part) : part[i] = written + i
  BY ChunkCounts
<1>2. /\ s \o part \in Seq(Nat) /\ Len(s \o part) = written + Len(part)
      /\ \A i \in 1 .. Len(s) + Len(part) :
           (s \o part)[i] = IF i <= Len(s) THEN s[i] ELSE part[i - Len(s)]
  BY ConcatProperties
<1>3. ASSUME NEW i \in 1 .. Len(s \o part) PROVE (s \o part)[i] = i
  <2>0. (s \o part)[i] = IF i <= Len(s) THEN s[i] ELSE part[i - Len(s)]
    BY <1>2
  <2>1. CASE i <= Len(s)
    BY <2>0, <2>1 DEF Begins
  <2>2. CASE i > Len(s)
    <3>1. Len(s) \in Nat /\ Len(part) \in Nat /\ i \in 1 .. Len(s) + Len(part)
      BY <1>2
    <3>2. i - Len(s) \in 1 .. Len(part)
      <4>1. ASSUME NEW a \in Nat, NEW b \in Nat, NEW j \in 1 .. a + b, j > a
            PROVE  j - a \in 1 .. b
        BY <4>1
      <4> QED
        BY <2>2, <3>1, <4>1, Zenon
    <3>3. part[i - Len(s)] = written + (i - Len(s))
      BY <1>1, <3>2, Zenon
    <3> QED
      BY <2>0, <2>2, <3>1, <3>3
  <2> QED
    BY <2>1, <2>2
<1> QED
  BY <1>1, <1>2, <1>3

LEMMA BeginningIsPrefix ==
  ASSUME written \in Nat, NEW s \in Seq(Nat), Begins(s)
  PROVE  /\ IsPrefix(s, Output)
         /\ Len(s) = written => s = Output
<1>1. Output \in Seq(Nat) /\ Len(Output) = written /\ \A i \in 1 .. written : Output[i] = i
  BY DEF Output
<1> HIDE DEF Output
<1>2. SubSeq(s, 1, Len(s)) = SubSeq(Output, 1, Len(s))
  <2>1. /\ SubSeq(s, 1, Len(s)) \in Seq(Nat) /\ SubSeq(Output, 1, Len(s)) \in Seq(Nat)
        /\ Len(SubSeq(s, 1, Len(s))) = Len(s) /\ Len(SubSeq(Output, 1, Len(s))) = Len(s)
    BY <1>1 DEF Begins
  <2>2. \A i \in 1 .. Len(s) : SubSeq(s, 1, Len(s))[i] = SubSeq(Output, 1, Len(s))[i]
    BY <1>1 DEF Begins
  <2> QED
    BY <2>1, <2>2, SeqEqual
<1>3. Len(s) = written => s = Output
  BY <1>1, SeqEqual DEF Begins
<1> QED
  BY <1>1, <1>2, <1>3 DEF IsPrefix, Begins

-----------------------------------------------------------------------------
\* Output

\* Output comes while Execute runs.
LEMMA OutputDuringExecute ==
  ASSUME IInv, NEW data \in Chunks, NewOutput(data)
  PROVE  /\ pc = "execute" /\ command # "none" /\ ~lost
         /\ written' = written + Len(data) /\ written' \in 0 .. MaxOutput
         /\ written \in Nat /\ data \in Seq(Nat) /\ Len(data) \in Nat
<1>1. written \in Nat
  BY DEF IInv, TypeOK
<1>2. data \in Seq(Nat) /\ Len(data) \in Nat
  BY <1>1, ChunkCounts
<1>3. pc = "execute"
  BY DEF IInv, AnswerTellsCommand, NewOutput, TypeOK
<1> QED
  BY <1>1, <1>2, <1>3, MaxOutputAssumption DEF NewOutput

\* A write adds the new output to what the buffer has, or a part of it and an
\* error.
LEMMA BufferGrows ==
  ASSUME IInv, NEW data \in Chunks, NewOutput(data), request.mode = "buffered",
         Buffer!Write(data) \/ Buffer!WriteFails(data)
  PROVE  /\ Buffer!TypeOK'
         /\ Begins(Content)'
         /\ Buffer!Write(data) => Len(Content') = written'
<1> USE DEF Content
<1>1. /\ mem \in Seq(Nat) /\ file \in Seq(Nat) /\ Content \in Seq(Nat)
      /\ Len(mem) <= Threshold
      /\ spilled \in BOOLEAN /\ temp \in BOOLEAN /\ stuck \in BOOLEAN
      /\ spilled => temp /\ mem = <<>>
  BY DEF IInv, TypeOK, Buffer!TypeOK
<1>2. /\ written \in Nat /\ written' = written + Len(data)
      /\ data \in Seq(Nat) /\ Len(data) \in Nat
  BY OutputDuringExecute
<1>3. Begins(Content) /\ Len(Content) = written
  BY OutputDuringExecute DEF IInv, OutputArrives
<1>4. Content = Buffer!Moved
  BY DEF Buffer!Moved
<1>5. ASSUME NEW part \in Seq(Nat), Len(part) <= Len(data),
             \A i \in 1 .. Len(part) : part[i] = data[i], Content' = Content \o part
      PROVE  /\ Content' \in Seq(Nat) /\ Begins(Content)'
             /\ Len(Content') = written + Len(part)
  <2> HIDE DEF Content
  <2> QED
    BY <1>1, <1>2, <1>3, <1>5, Longer DEF Begins
<1>6. CASE Buffer!WriteToMemory(data)
  <2>1. /\ mem' = mem \o data /\ ~spilled /\ UNCHANGED <<file, spilled, temp, stuck>>
        /\ Len(mem) + Len(data) <= Threshold
    BY <1>6 DEF Buffer!WriteToMemory, Buffer!Fits
  <2>2. Content' = Content \o data
    BY <2>1
  <2>3. Content' \in Seq(Nat) /\ Begins(Content)' /\ Len(Content') = written'
    BY <1>2, <1>5, <2>2
  <2>4. mem' \in Seq(Nat) /\ Len(mem') <= Threshold
    BY <1>1, <1>2, <2>1, ConcatProperties
  <2> QED
    BY <1>1, <2>1, <2>3, <2>4 DEF Buffer!TypeOK
<1>7. ASSUME NEW part \in Seq(Nat), Len(part) <= Len(data),
             \A i \in 1 .. Len(part) : part[i] = data[i], file' = Buffer!Moved \o part,
             mem' = <<>>, spilled' = TRUE, temp' = TRUE, UNCHANGED stuck
      PROVE  /\ Buffer!TypeOK' /\ Begins(Content)'
             /\ Len(Content') = written + Len(part)
  <2>1. Content' = Content \o part
    BY <1>4, <1>7
  <2>2. Content' \in Seq(Nat) /\ Begins(Content)' /\ Len(Content') = written + Len(part)
    BY <1>5, <1>7, <2>1
  <2>3. Buffer!TypeOK'
    BY <1>1, <1>7, <2>2, ThresholdAssumption DEF Buffer!TypeOK
  <2> QED
    BY <2>2, <2>3
<1>8. CASE Buffer!WriteToFile(data)
  BY <1>2, <1>7, <1>8 DEF Buffer!WriteToFile
<1>9. CASE Buffer!WriteFails(data) /\ ~Buffer!Write(data)
  <2>1. CASE Buffer!ShortWrite(data)
    <3>1. PICK part \in Prefixes(data) : file' = Buffer!Moved \o part
      BY <2>1 DEF Buffer!ShortWrite, Buffer!Prefixes, Prefixes
    <3>2. /\ part \in Seq(Nat) /\ Len(part) <= Len(data)
          /\ \A i \in 1 .. Len(part) : part[i] = data[i]
      BY <1>2, PrefixOf
    <3> QED
      BY <1>7, <1>9, <2>1, <3>1, <3>2 DEF Buffer!ShortWrite
  <2>2. CASE Buffer!CreateFails(data) \/ Buffer!MoveFails(data)
    <3>1. /\ UNCHANGED <<mem, file, spilled>> /\ ~spilled
          /\ temp' \in BOOLEAN /\ stuck' \in BOOLEAN
      BY <1>1, <2>2 DEF Buffer!CreateFails, Buffer!MoveFails, Buffer!vars
    <3>2. Content' = Content
      BY <3>1
    <3>3. Begins(Content)'
      BY <1>2, <1>3, <3>2 DEF Begins
    <3> QED
      BY <1>1, <1>9, <3>1, <3>3 DEF Buffer!TypeOK
  <2> QED
    BY <1>9, <2>1, <2>2 DEF Buffer!WriteFails
<1> QED
  BY <1>6, <1>8, <1>9 DEF Buffer!Write

\* What the steps make of the output: the client never gets anything but its
\* beginning.

LEMMA NextOutput ==
  ASSUME IInv, [Next]_vars
  PROVE  /\ written' \in 0 .. MaxOutput /\ Buffer!TypeOK'
         /\ body' \in Seq(Nat) /\ OutputArrives'
<1>00. TypeOK /\ AnswerTellsCommand /\ HeadTellsAnswer /\ OutputArrives
  BY DEF IInv
<1> USE <1>00 DEF OutputArrives
<1>0. /\ written \in Nat /\ written \in 0 .. MaxOutput /\ body \in Seq(Nat) /\ Buffer!TypeOK
      /\ client \in BOOLEAN /\ lost \in BOOLEAN
      /\ mem \in Seq(Nat) /\ file \in Seq(Nat) /\ Content \in Seq(Nat)
  <2>1. body \in Seq(1 .. MaxOutput)
    BY DEF TypeOK
  <2>2. body \in Seq(Nat)
    BY <2>1, MaxOutputAssumption, SeqMonotonic
  <2> QED
    BY <2>2, MaxOutputAssumption DEF TypeOK, Buffer!TypeOK, Content, Execute!TypeOK
\* Steps that leave the output where it is.
<1>1. ASSUME UNCHANGED <<bufferVars, written, body, request, lost, readFailed>>,
             client' => client,
             pc \in {"close", "done"} => pc' \in {"close", "done"} /\ UNCHANGED answer,
             pc \notin {"close", "done"} /\ pc' \in {"close", "done"} =>
               answer' \notin {"exit0", "exitN"} \/ request.mode # "buffered",
             pc' \in {"admit", "execute", "answered", "write", "close", "done"}
      PROVE  /\ written' \in 0 .. MaxOutput /\ Buffer!TypeOK'
             /\ body' \in Seq(Nat) /\ OutputArrives'
  <2>1. Content' = Content /\ Buffer!TypeOK'
    BY <1>0, <1>1 DEF bufferVars, Content, Buffer!TypeOK
  <2>2. pc \in {"admit", "execute", "answered", "write", "close", "done"}
    BY DEF TypeOK
  <2> HIDE DEF Content
  <2> QED
    BY <1>0, <1>1, <2>1, <2>2 DEF Begins
<1>2. CASE ClientLeaves
  BY <1>1, <1>2 DEF ClientLeaves, execVars, TypeOK
<1>3. CASE Reject \/ Admit
  BY <1>1, <1>3 DEF Reject, Admit, execVars, AnswerTellsCommand
<1>4. CASE CommandStep
  BY <1>1, <1>4 DEF CommandStep, Execute!Begin, Execute!End, TypeOK
<1>5. CASE ExecuteReturns
  BY <1>1, <1>5 DEF ExecuteReturns, Execute!Refuse, Execute!Answer
<1>6. CASE TellRefusal \/ TellFailure \/ TellExit
  BY <1>1, <1>6 DEF TellRefusal, TellFailure, TellExit, Refused, execVars, TypeOK
<1>7. CASE OutputToBuffer
  <2>1. PICK data \in Chunks :
          /\ NewOutput(data)
          /\ Buffer!Write(data) \/ (Buffer!WriteFails(data) /\ Execute!LoseOutput)
    BY <1>7 DEF OutputToBuffer, execVars
  <2>2. request.mode = "buffered" /\ UNCHANGED <<request, pc, client, body, readFailed>>
    BY <1>7 DEF OutputToBuffer
  <2>3. /\ pc = "execute" /\ written' = written + Len(data) /\ written' \in 0 .. MaxOutput
        /\ Len(data) \in Nat
    BY <2>1, OutputDuringExecute
  <2>4. /\ Buffer!TypeOK' /\ Begins(Content)'
        /\ Buffer!Write(data) => Len(Content') = written'
    BY <2>1, <2>2, BufferGrows
  <2>5. ~lost' => Buffer!Write(data)
    BY <2>1 DEF Execute!LoseOutput
  <2> HIDE DEF Content
  <2> QED
    BY <1>0, <2>2, <2>3, <2>4, <2>5 DEF Begins
<1>8. CASE OutputToClient
  <2>1. PICK data \in Chunks :
          /\ NewOutput(data)
          /\ \/ client /\ body' = body \o data /\ UNCHANGED lost
             \/ ~client /\ UNCHANGED body
    BY <1>8 DEF OutputToClient, execVars
  <2>2. request.mode = "stream" /\ UNCHANGED <<bufferVars, request, pc, client, readFailed>>
    BY <1>8 DEF OutputToClient
  <2>3. /\ pc = "execute" /\ ~lost /\ written' = written + Len(data) /\ written' \in 0 .. MaxOutput
        /\ data \in Seq(Nat) /\ Len(data) \in Nat
    BY <2>1, OutputDuringExecute
  <2>4. Buffer!TypeOK'
    BY <1>0, <2>2 DEF bufferVars, Buffer!TypeOK
  <2>5. CASE client /\ body' = body \o data
    <3>1. Len(body) = written /\ Begins(body)
      BY <2>2, <2>3, <2>5
    <3>2. /\ body \o data \in Seq(Nat) /\ Len(body \o data) = written'
          /\ \A i \in 1 .. Len(body \o data) : (body \o data)[i] = i
      <4>1. Len(data) <= Len(data) /\ \A i \in 1 .. Len(data) : data[i] = data[i]
        BY <2>3
      <4> QED
        BY <1>0, <2>1, <2>3, <3>1, <4>1, Longer
    <3>3. body' \in Seq(Nat) /\ Len(body') = written' /\ Begins(body)'
      BY <2>3, <2>5, <3>2 DEF Begins
    <3> QED
      BY <2>2, <2>3, <2>4, <3>3
  <2>6. CASE ~client /\ UNCHANGED body
    BY <1>0, <2>2, <2>3, <2>4, <2>6 DEF Begins
  <2> QED
    BY <2>1, <2>5, <2>6
<1>9. CASE WriteBody
  <2>1. /\ pc = "write" /\ pc' = "close" /\ request.mode = "buffered"
        /\ UNCHANGED <<execVars, request, written, client>>
    BY <1>9 DEF WriteBody, HeadTellsAnswer
  <2>2. PICK out \in Prefixes(mem) \cup Prefixes(file) :
          /\ Buffer!WriteTo(out)
          /\ readFailed' = (spilled /\ out # file)
          /\ body' = IF client THEN out ELSE body
    BY <1>9 DEF WriteBody
  <2>3. /\ out \in Prefixes(Content)
        /\ ~readFailed' => out = Content
    <3>1. CASE spilled
      BY <2>2, <3>1 DEF Buffer!WriteTo, Buffer!Prefixes, Prefixes, Content
    <3>2. CASE ~spilled
      <4>1. out = mem /\ Content = mem
        BY <2>2, <3>2 DEF Buffer!WriteTo, Content
      <4>2. mem \in Prefixes(mem)
        BY <1>0, SubSeqFull DEF Prefixes
      <4> QED
        BY <4>1, <4>2
    <3> QED
      BY <3>1, <3>2
  <2>4. Begins(Content) /\ (~lost => Len(Content) = written)
    BY <2>1
  <2>5. out \in Seq(Nat) /\ Begins(out)
    BY <1>0, <2>3, <2>4, PrefixBegins
  <2>6. body' \in Seq(Nat) /\ Begins(body)'
    BY <1>0, <2>1, <2>2, <2>5 DEF Begins
  <2>7. Buffer!TypeOK'
    <3>1. (mem' = mem \/ mem' = <<>>) /\ UNCHANGED <<file, spilled, temp, stuck>>
      BY <2>2 DEF Buffer!WriteTo
    <3>2. mem' \in Seq(Nat) /\ Len(mem') <= Threshold
      <4>1. <<>> \in Seq(Nat) /\ Len(<<>>) = 0
        OBVIOUS
      <4>2. Len(mem) <= Threshold
        BY <1>0 DEF Buffer!TypeOK
      <4>3. CASE mem' = mem
        BY <1>0, <4>2, <4>3
      <4>4. CASE mem' = <<>>
        BY <4>1, <4>4, ThresholdAssumption
      <4> QED
        BY <3>1, <4>3, <4>4
    <3> QED
      BY <1>0, <3>1, <3>2 DEF Buffer!TypeOK
  <2>9. ~lost /\ client /\ ~readFailed' => Len(body') = written
    BY <2>2, <2>3, <2>4
  <2> HIDE DEF Content
  <2> QED
    BY <1>0, <2>1, <2>6, <2>7, <2>9 DEF execVars
<1>10. CASE Finish
  <2>1. Buffer!TypeOK'
    BY <1>0, <1>10 DEF Finish, Buffer!Close, bufferVars, Buffer!TypeOK
  <2> QED
    BY <1>0, <1>10, <2>1 DEF Finish, execVars, Begins
<1>11. CASE UNCHANGED vars
  BY <1>1, <1>11 DEF vars, execVars, TypeOK
<1> QED
  BY <1>2, <1>3, <1>4, <1>5, <1>6, <1>7, <1>8, <1>9, <1>10, <1>11 DEF Next

-----------------------------------------------------------------------------
\* Everything else

LEMMA NextTypeOK == ASSUME IInv, [Next]_vars PROVE TypeOK'
<1>0. TypeOK
  BY DEF IInv
<1>1. Execute!TypeOK'
  <2>1. CASE UNCHANGED execVars
    BY <1>0, <2>1 DEF TypeOK, Execute!TypeOK, execVars
  <2>2. CASE Execute!Begin \/ Execute!End \/ Execute!Refuse \/ Execute!LoseOutput
    <3>1. Execute!TypeOK /\ {"busy", "pre"} \subseteq Execute!Answers
      BY <1>0 DEF TypeOK, Execute!Answers
    <3> QED
      BY <2>2, <3>1 DEF Execute!TypeOK, Execute!Begin, Execute!End, Execute!Refuse,
         Execute!LoseOutput
  <2>3. CASE Execute!Answer
    <3>1. Execute!AnswerOf \in Execute!Answers
      BY <1>0 DEF TypeOK, Execute!TypeOK, Execute!AnswerOf, Execute!Answers
    <3> QED
      BY <1>0, <2>3, <3>1 DEF TypeOK, Execute!TypeOK, Execute!Answer
  <2> QED
    BY <2>1, <2>2, <2>3 DEF Next, vars, ClientLeaves, Reject, Admit, CommandStep, ExecuteReturns,
       OutputToBuffer, OutputToClient, TellRefusal, TellFailure, TellExit, WriteBody, Finish
<1>2. body' \in Seq(1 .. MaxOutput)
  <2>1. body' \in Seq(Nat) /\ Begins(body)' /\ written' \in 0 .. MaxOutput
    BY NextOutput DEF OutputArrives
  <2>2. \A i \in 1 .. Len(body') : body'[i] \in 1 .. MaxOutput
    BY <2>1, MaxOutputAssumption DEF Begins
  <2>3. Range(body') \subseteq 1 .. MaxOutput
    BY <2>1, <2>2, LenProperties DEF Range
  <2>4. body' \in Seq(Range(body'))
    BY <2>1, SeqOfRange
  <2> QED
    BY <2>3, <2>4, SeqMonotonic
<1> DEFINE Rest ==
  /\ request \in Requests
  /\ pc \in {"admit", "execute", "answered", "write", "close", "done"}
  /\ client \in BOOLEAN
  /\ status \in {0, 200, 400, 401, 403, 404, 429, 500}
  /\ xSuccess \in {"unset", "true", "false"}
  /\ xExitCode \in {"unset", "empty", "zero", "nonzero"}
  /\ readFailed \in BOOLEAN
<1>3. Rest
  BY <1>0 DEF TypeOK
<1>4. Rest'
  <2>1. CASE UNCHANGED vars
    BY <1>3, <2>1 DEF vars, headers
  <2>2. CASE Reject \/ Admit \/ ClientLeaves \/ CommandStep \/ ExecuteReturns
    <3>1. Verdict(request) \in {200, 400, 401, 403, 404, 500}
      BY DEF Verdict
    <3>2. /\ UNCHANGED <<request, xSuccess, xExitCode, readFailed>>
          /\ client' = client \/ client' = FALSE
          /\ status' \in {status, Verdict(request)}
          /\ pc' \in {pc, "done", "execute", "answered"}
      BY <2>2 DEF Reject, Admit, ClientLeaves, CommandStep, ExecuteReturns, headers
    <3>3. status' \in {0, 200, 400, 401, 403, 404, 429, 500}
      BY <1>3, <3>1, <3>2
    <3>4. pc' \in {"admit", "execute", "answered", "write", "close", "done"}
      BY <1>3, <3>2
    <3>5. client' \in BOOLEAN
      BY <1>3, <3>2, Zenon
    <3> QED
      BY <1>3, <3>2, <3>3, <3>4, <3>5
  <2>3. CASE OutputToBuffer \/ OutputToClient
    BY <1>3, <2>3 DEF OutputToBuffer, OutputToClient, headers
  <2>4. CASE TellRefusal \/ TellFailure \/ TellExit
    BY <1>3, <2>4 DEF TellRefusal, TellFailure, TellExit, SetHeaders, headers
  <2>5. CASE WriteBody \/ Finish
    <3>1. readFailed' \in BOOLEAN
      BY <1>3, <2>5, Zenon DEF WriteBody, Finish
    <3>2. UNCHANGED <<request, client, xSuccess, xExitCode>>
      BY <2>5 DEF WriteBody, Finish, headers
    <3>3. pc' \in {"close", "done"} /\ status' \in {200, status}
      BY <2>5 DEF WriteBody, Finish
    <3> QED
      BY <1>3, <3>1, <3>2, <3>3
  <2> QED
    BY <2>1, <2>2, <2>3, <2>4, <2>5 DEF Next
<1> QED
  BY <1>1, <1>2, <1>4, NextOutput DEF TypeOK

\* The command and the answer.
LEMMA NextAnswerTellsCommand == ASSUME IInv, [Next]_vars PROVE AnswerTellsCommand'
<1>0. /\ TypeOK /\ AnswerTellsCommand /\ HeadTellsAnswer
      /\ Execute!TypeOK
      /\ request.mode \in {"buffered", "stream", "async", "unknown"}
  BY DEF IInv, TypeOK, Requests
<1> USE <1>0 DEF AnswerTellsCommand
<1>1. CASE UNCHANGED <<execVars, request, pc>>
  BY <1>1 DEF execVars
<1>2. CASE Reject \/ Admit
  BY <1>2 DEF Reject, Admit, Verdict, execVars
<1>3. CASE CommandStep
  BY <1>3 DEF CommandStep, Execute!Begin, Execute!End, Execute!TypeOK
<1>4. CASE ExecuteReturns
  <2>1. CASE Execute!Refuse
    BY <1>4, <2>1 DEF ExecuteReturns, Execute!Refuse
  <2>2. CASE Execute!Answer
    <3>1. /\ answer' \notin {"busy", "pre", "none"}
          /\ answer' = "exit0" /\ ~async => exit = "zero" /\ ~lost
          /\ answer' = "exitN" => ~async /\ exit = "nonzero"
          /\ answer' = "runtime" => ~async /\ (exit = "signal" \/ (exit = "zero" /\ lost))
      BY <2>2 DEF Execute!Answer, Execute!AnswerOf, Execute!TypeOK
    <3> QED
      BY <1>4, <2>2, <3>1 DEF ExecuteReturns, Execute!Answer
  <2> QED
    BY <1>4, <2>1, <2>2 DEF ExecuteReturns
<1>5. CASE OutputToBuffer \/ OutputToClient
  BY <1>5 DEF OutputToBuffer, OutputToClient, Execute!LoseOutput, execVars
<1>6. CASE TellRefusal \/ TellFailure \/ TellExit
  BY <1>6 DEF TellRefusal, TellFailure, TellExit, Refused, execVars, SetHeaders
<1>7. CASE WriteBody \/ Finish
  BY <1>7 DEF WriteBody, Finish, execVars
<1> QED
  BY <1>1, <1>2, <1>3, <1>4, <1>5, <1>6, <1>7 DEF Next, ClientLeaves, vars

\* The status and the headers.
LEMMA NextHeadTellsAnswer == ASSUME IInv, [Next]_vars PROVE HeadTellsAnswer'
<1>0. /\ TypeOK /\ AnswerTellsCommand /\ HeadTellsAnswer
      /\ pc \in {"admit", "execute", "answered", "write", "close", "done"}
      /\ command \in {"none", "running", "ended"}
      /\ answer \in {"none", "busy", "pre", "runtime", "exit0", "exitN"}
  BY DEF IInv, TypeOK, Execute!TypeOK, Execute!Answers
<1> USE <1>0 DEF HeadTellsAnswer, headers
<1>1. CASE UNCHANGED <<execVars, request, pc, status, headers>>
  BY <1>1 DEF execVars
<1>2. CASE Reject \/ Admit
  BY <1>2 DEF Reject, Admit, Verdict, execVars, AnswerTellsCommand
<1>3. CASE CommandStep
  BY <1>3 DEF CommandStep, Execute!Begin, Execute!End, AnswerTellsCommand
<1>4. CASE ExecuteReturns
  BY <1>4 DEF ExecuteReturns, Execute!Refuse, Execute!Answer, AnswerTellsCommand
<1>5. CASE OutputToBuffer \/ OutputToClient
  <2>1. pc = "execute" /\ UNCHANGED <<command, answer, request, pc, headers>>
    BY <1>5, OutputDuringExecute DEF OutputToBuffer, OutputToClient, Execute!LoseOutput, execVars
  <2>2. UNCHANGED status \/ (status' = 200 /\ request.mode = "stream" /\ command # "none")
    BY <1>5 DEF OutputToBuffer, OutputToClient, NewOutput
  <2> QED
    BY <2>1, <2>2
<1>6. CASE TellRefusal
  BY <1>6 DEF TellRefusal, Refused, execVars, AnswerTellsCommand
<1>7. CASE TellFailure \/ TellExit
  <2>1. /\ command # "none" /\ UNCHANGED <<command, answer, request, status>>
        /\ status \in {0, 200}
        /\ xSuccess' \in {"true", "false"}
        /\ xSuccess' = "true" => answer = "exit0"
        /\ xExitCode' = "zero" => answer = "exit0"
        /\ xExitCode' = "nonzero" => answer = "exitN"
        /\ xExitCode' = "empty" => answer = "runtime"
        /\ pc' = "close" \/ (pc' = "write" /\ request.mode = "buffered" /\ status = 0)
    BY <1>7 DEF TellFailure, TellExit, Refused, SetHeaders, execVars, AnswerTellsCommand
  <2> QED
    BY <2>1
<1>8. CASE WriteBody \/ Finish
  BY <1>8 DEF WriteBody, Finish, execVars
<1> QED
  BY <1>1, <1>2, <1>3, <1>4, <1>5, <1>6, <1>7, <1>8 DEF Next, ClientLeaves, vars

\* The temporary file.
LEMMA NextFileIsKnown == ASSUME IInv, [Next]_vars PROVE FileIsKnown'
<1>0. /\ AnswerTellsCommand /\ HeadTellsAnswer /\ FileIsKnown
      /\ spilled \in BOOLEAN
  BY DEF IInv, TypeOK, Buffer!TypeOK
<1> USE <1>0 DEF FileIsKnown
<1>1. CASE UNCHANGED <<bufferVars, command, request>> /\ (pc' = "done" => pc = "done" \/ ~spilled)
  BY <1>1 DEF bufferVars
<1>2. CASE Reject \/ Admit
  BY <1>1, <1>2 DEF Reject, Admit, execVars, AnswerTellsCommand
<1>3. CASE CommandStep
  BY <1>3 DEF CommandStep, Execute!Begin, Execute!End, bufferVars
<1>4. CASE ExecuteReturns
  BY <1>1, <1>4 DEF ExecuteReturns, Execute!Refuse, Execute!Answer
<1>5. CASE OutputToBuffer
  <2>1. request.mode = "buffered" /\ UNCHANGED <<request, pc, command>>
    BY <1>5 DEF OutputToBuffer, Execute!LoseOutput, execVars
  <2>2. pc = "execute" /\ command # "none"
    BY <1>5, OutputDuringExecute DEF OutputToBuffer
  <2>3. temp' => spilled' \/ stuck'
    <3>1. PICK data \in Chunks : Buffer!Write(data) \/ Buffer!WriteFails(data)
      BY <1>5 DEF OutputToBuffer
    <3> QED
      BY <3>1 DEF Buffer!Write, Buffer!WriteToMemory, Buffer!WriteToFile, Buffer!WriteFails,
         Buffer!CreateFails, Buffer!MoveFails, Buffer!ShortWrite, Buffer!vars
  <2> QED
    BY <2>1, <2>2, <2>3
<1>6. CASE OutputToClient
  BY <1>1, <1>6 DEF OutputToClient, Execute!LoseOutput, execVars
<1>7. CASE TellRefusal \/ TellFailure \/ TellExit
  BY <1>1, <1>7 DEF TellRefusal, TellFailure, TellExit, execVars
<1>8. CASE WriteBody
  <2>1. UNCHANGED <<spilled, temp, stuck, request, command>> /\ pc' = "close"
    BY <1>8 DEF WriteBody, Buffer!WriteTo, execVars
  <2> QED
    BY <2>1
<1>9. CASE Finish
  BY <1>9 DEF Finish, Buffer!Close, bufferVars, execVars
<1> QED
  BY <1>1, <1>2, <1>3, <1>4, <1>5, <1>6, <1>7, <1>8, <1>9 DEF Next, ClientLeaves, vars, execVars

LEMMA InitIInv == Init => IInv
<1> SUFFICES ASSUME Init PROVE IInv
  OBVIOUS
<1> USE DEF Init, Execute!Init, Buffer!Init
<1>1. <<>> \in Seq(Nat) /\ <<>> \in Seq(1 .. MaxOutput) /\ Len(<<>>) = 0
  OBVIOUS
<1>2. Execute!TypeOK
  BY DEF Execute!TypeOK, Execute!Answers
<1>3. Buffer!TypeOK
  <2>1. Len(mem) <= Threshold
    BY <1>1, ThresholdAssumption
  <2> QED
    BY <1>1, <2>1 DEF Buffer!TypeOK
<1>6. TypeOK
  <2>1. body \in Seq(1 .. MaxOutput)
    BY <1>1
  <2>2. written \in 0 .. MaxOutput
    BY MaxOutputAssumption
  <2> QED
    BY <1>2, <1>3, <2>1, <2>2 DEF TypeOK
<1>4. AnswerTellsCommand /\ HeadTellsAnswer /\ FileIsKnown
  BY DEF AnswerTellsCommand, HeadTellsAnswer, FileIsKnown
<1>5. OutputArrives
  BY <1>1 DEF OutputArrives, Begins, Content
<1> QED
  BY <1>6, <1>4, <1>5 DEF IInv

LEMMA NextIInv == ASSUME IInv, [Next]_vars PROVE IInv'
BY NextTypeOK, NextAnswerTellsCommand, NextHeadTellsAnswer, NextFileIsKnown, NextOutput DEF IInv

-----------------------------------------------------------------------------

\* The inductive invariant holds in every reachable state.
THEOREM Invariant == Spec => []IInv
<1>1. Init => IInv
  BY InitIInv
<1>2. IInv /\ [Next]_vars => IInv'
  BY NextIInv
<1> QED
  BY <1>1, <1>2, PTL DEF Spec

\* Every variable keeps its type; the buffer's memory never grows beyond the
\* threshold, for any threshold.
THEOREM TypeCorrect == Spec => []TypeOK
<1>1. IInv => TypeOK
  BY DEF IInv
<1> QED
  BY <1>1, Invariant, PTL

\* A response has status 200 just when the command was started, and then says
\* whether it succeeded.
THEOREM StatusTruthful == Spec => []StatusTellsStart
<1>1. IInv => StatusTellsStart
  BY DEF IInv, HeadTellsAnswer, StatusTellsStart
<1> QED
  BY <1>1, Invariant, PTL

\* A response that says yes comes of exit code 0 and has all the output.
THEOREM SuccessTruthful == Spec => []SuccessMeansFullOutput
<1>1. IInv => SuccessMeansFullOutput
  <2> SUFFICES ASSUME IInv, pc = "done", xSuccess = "true", ~async
               PROVE  exit = "zero" /\ (client /\ ~readFailed => body = Output)
    BY DEF SuccessMeansFullOutput
  <2>1. answer = "exit0" /\ command # "none"
    BY DEF IInv, HeadTellsAnswer
  <2>2. /\ exit = "zero" /\ ~lost /\ request.mode \in {"buffered", "stream"}
    BY <2>1 DEF IInv, AnswerTellsCommand, TypeOK, Requests
  <2>3. client /\ ~readFailed => Len(body) = written
    BY <2>1, <2>2 DEF IInv, OutputArrives
  <2>4. written \in Nat /\ body \in Seq(Nat) /\ Begins(body)
    <3>1. body \in Seq(1 .. MaxOutput) /\ written \in 0 .. MaxOutput
      BY DEF IInv, TypeOK
    <3>2. body \in Seq(Nat)
      BY <3>1, MaxOutputAssumption, SeqMonotonic
    <3> QED
      BY <3>1, <3>2, MaxOutputAssumption DEF IInv, OutputArrives
  <2> QED
    BY <2>2, <2>3, <2>4, BeginningIsPrefix
<1> QED
  BY <1>1, Invariant, PTL

\* What the response says of the exit of a synchronous command.
ExitCodeTells ==
  pc = "done" /\ ~async =>
    /\ xExitCode = "zero" => exit = "zero" /\ ~lost
    /\ xExitCode = "nonzero" => exit = "nonzero"
    /\ xExitCode = "empty" => exit = "signal" \/ (exit = "zero" /\ lost)

\* The exit code in the response is the one of the command; it is missing when a
\* signal ended the command, or when it succeeded but its output did not arrive.
THEOREM ExitCodeTruthful == Spec => []ExitCodeTells
<1>1. IInv => ExitCodeTells
  BY DEF IInv, HeadTellsAnswer, AnswerTellsCommand, ExitCodeTells
<1> QED
  BY <1>1, Invariant, PTL

\* BufferedOutputIsFull of the commands whose output the buffer took.
FullUnlessLost ==
  /\ pc = "done" /\ request.mode = "buffered" /\ client /\ ~readFailed /\ ~lost
  /\ xExitCode \in {"zero", "nonzero"}
  => body = Output

\* How much of BufferedOutputIsFull holds: the run of that property shows a failed
\* write to the buffer, and nothing else can cut the output of a command that
\* exited.
THEOREM OnlyLossTruncates == Spec => []FullUnlessLost
<1>1. IInv => FullUnlessLost
  <2> SUFFICES ASSUME IInv, pc = "done", request.mode = "buffered", client, ~readFailed, ~lost,
                      xExitCode \in {"zero", "nonzero"}
               PROVE  body = Output
    BY DEF FullUnlessLost
  <2>1. answer \in {"exit0", "exitN"}
    BY DEF IInv, HeadTellsAnswer
  <2>2. Len(body) = written
    BY <2>1 DEF IInv, OutputArrives
  <2>3. body \in Seq(1 .. MaxOutput) /\ written \in 0 .. MaxOutput
    BY DEF IInv, TypeOK
  <2>4. body \in Seq(Nat) /\ written \in Nat
    BY <2>3, MaxOutputAssumption, SeqMonotonic
  <2> QED
    BY <2>2, <2>4, BeginningIsPrefix DEF IInv, OutputArrives
<1> QED
  BY <1>1, Invariant, PTL

\* On every path the client gets the beginning of the output.
THEOREM BodyTruthful == Spec => []BodyIsPrefix
<1>1. IInv => BodyIsPrefix
  <2> SUFFICES ASSUME IInv PROVE IsPrefix(body, Output)
    BY DEF BodyIsPrefix
  <2>1. body \in Seq(1 .. MaxOutput) /\ written \in 0 .. MaxOutput
    BY DEF IInv, TypeOK
  <2>2. body \in Seq(Nat)
    BY <2>1, MaxOutputAssumption, SeqMonotonic
  <2> QED
    BY <2>1, <2>2, MaxOutputAssumption, BeginningIsPrefix DEF IInv, OutputArrives
<1> QED
  BY <1>1, Invariant, PTL

\* When the request is over its temporary file is gone, unless the system would
\* not remove it.
THEOREM FileRemoved == Spec => []NoTempFileStays
<1>1. IInv => NoTempFileStays
  BY DEF IInv, FileIsKnown, NoTempFileStays
<1> QED
  BY <1>1, Invariant, PTL

=============================================================================
