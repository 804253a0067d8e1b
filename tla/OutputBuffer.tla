---------------------------- MODULE OutputBuffer ----------------------------
(***************************************************************************)
(* ThresholdBuffer of pkg/server/output_buffer.go: the output of a command *)
(* in memory, and from the first write that does not fit below the         *)
(* threshold in a temporary file.  Every call into the operating system    *)
(* may fail, and each partial failure leaves the state the code leaves.    *)
(*                                                                         *)
(* The actions stand for calls of the buffer's methods, which one          *)
(* goroutine at a time makes; Response says when they are made.            *)
(***************************************************************************)
EXTENDS Naturals, SequencesExt

CONSTANT Threshold  \* a natural number: NewThresholdBuffer panics otherwise

VARIABLES
  mem,      \* b.mem: bytes
  file,     \* the bytes in the temporary file
  spilled,  \* b.file # nil
  temp,     \* there is a temporary file on the disk
  stuck     \* os.Remove of it failed

vars == <<mem, file, spilled, temp, stuck>>

Init ==
  /\ mem = <<>> /\ file = <<>>
  /\ spilled = FALSE /\ temp = FALSE /\ stuck = FALSE

-----------------------------------------------------------------------------
\* Write

\* Mutant: the data to add is not counted.
FitsBefore(data) == ~spilled /\ Len(mem) <= Threshold

Fits(data) == ~spilled /\ Len(mem) + Len(data) <= Threshold

WriteToMemory(data) ==
  /\ Fits(data)
  /\ mem' = mem \o data
  /\ UNCHANGED <<file, spilled, temp, stuck>>

\* Mutant: spilling does not copy what is in memory.
NothingMoved == file

\* What is in the file after spillToFile.
Moved == IF spilled THEN file ELSE mem

\* The file gets all the data, or a part of it and an error.
WriteToFile(data) ==
  /\ ~Fits(data)
  /\ file' = Moved \o data
  /\ mem' = <<>> /\ spilled' = TRUE /\ temp' = TRUE
  /\ UNCHANGED stuck

Write(data) == WriteToMemory(data) \/ WriteToFile(data)

\* spillToFile: os.CreateTemp fails.
CreateFails(data) ==
  /\ ~Fits(data) /\ ~spilled
  /\ UNCHANGED vars

\* spillToFile: what is in memory cannot be written to the new file, which is
\* removed; that may fail, too.
MoveFails(data) ==
  /\ ~Fits(data) /\ ~spilled /\ mem # <<>>
  /\ stuck' \in BOOLEAN /\ temp' = stuck'
  /\ UNCHANGED <<mem, file, spilled>>

ShortWrite(data) ==
  /\ ~Fits(data)
  /\ \E part \in Prefixes(data) \ {data} : file' = Moved \o part
  /\ mem' = <<>> /\ spilled' = TRUE /\ temp' = TRUE
  /\ UNCHANGED stuck

WriteFails(data) == CreateFails(data) \/ MoveFails(data) \/ ShortWrite(data)

-----------------------------------------------------------------------------

\* WriteTo hands out what is in memory, which is then gone, or the file from
\* its start, of which seeking or reading may fail.
WriteTo(out) ==
  /\ \/ ~spilled /\ out = mem /\ mem' = <<>>
     \/ spilled /\ out \in Prefixes(file) /\ UNCHANGED mem
  /\ UNCHANGED <<file, spilled, temp, stuck>>

\* Mutant: the file is closed and not removed.
CloseWithoutRemove ==
  /\ spilled' = FALSE
  /\ UNCHANGED <<mem, file, temp, stuck>>

\* Close removes the file whether or not closing it failed.
Close ==
  /\ spilled' = FALSE
  /\ \/ ~spilled /\ UNCHANGED <<temp, stuck>>
     \/ spilled /\ stuck' \in BOOLEAN /\ temp' = stuck'
  /\ UNCHANGED <<mem, file>>

-----------------------------------------------------------------------------

\* The memory never holds more than the threshold.
TypeOK ==
  /\ mem \in Seq(Nat) /\ file \in Seq(Nat)
  /\ Len(mem) <= Threshold
  /\ spilled \in BOOLEAN /\ temp \in BOOLEAN /\ stuck \in BOOLEAN
  /\ spilled => temp /\ mem = <<>>

=============================================================================
