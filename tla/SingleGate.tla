----------------------------- MODULE SingleGate -----------------------------
(***************************************************************************)
(* The "single" call gate of pkg/callgate/callgate_single.go: a channel of *)
(* capacity one that holds the token while nobody runs.  Acquire is one    *)
(* select with a default case, so it never blocks; when the context is     *)
(* done and the token is there, both cases are ready and Go picks either.  *)
(*                                                                         *)
(* As in SequenceGate, an element of Calls is one call of Acquire with its *)
(* context and its release function.                                       *)
(***************************************************************************)
EXTENDS Naturals

CONSTANT Calls

VARIABLES
  token,    \* len(cg.token)
  ctxDone,  \* the calls whose context is done
  pc,       \* where each call of Acquire stands
  fired     \* the calls whose release function has run its sync.Once

vars == <<token, ctxDone, pc, fired>>

Capacity == 1

\* "cancelled": Acquire returned the context's error; "busy": it returned
\* ErrBusy.
Pc == {"idle", "acquired", "cancelled", "busy"}

Owns(c) == pc[c] = "acquired" /\ c \notin fired

-----------------------------------------------------------------------------

\* NewSingle puts the token in.
Init ==
  /\ token = 1
  /\ ctxDone = {}
  /\ pc = [c \in Calls |-> "idle"]
  /\ fired = {}

Goto(c, l) == pc' = [pc EXCEPT ![c] = l]

CtxDone(c) ==
  /\ c \notin ctxDone
  /\ ctxDone' = ctxDone \cup {c}
  /\ UNCHANGED <<token, pc, fired>>

\* Acquire: case <-ctx.Done().
AcquireCancelled(c) ==
  /\ pc[c] = "idle"
  /\ c \in ctxDone
  /\ Goto(c, "cancelled")
  /\ UNCHANGED <<token, ctxDone, fired>>

\* Mutant: the token is looked at but not taken out of the channel.
TakeTokenLeavesIt(c) ==
  /\ pc[c] = "idle"
  /\ token > 0
  /\ Goto(c, "acquired")
  /\ UNCHANGED <<token, ctxDone, fired>>

\* Acquire: case <-cg.token.
TakeToken(c) ==
  /\ pc[c] = "idle"
  /\ token > 0
  /\ token' = token - 1
  /\ Goto(c, "acquired")
  /\ UNCHANGED <<ctxDone, fired>>

\* Mutant: ErrBusy is returned whenever the context is still alive.
AcquireBusyAlways(c) ==
  /\ pc[c] = "idle"
  /\ c \notin ctxDone
  /\ Goto(c, "busy")
  /\ UNCHANGED <<token, ctxDone, fired>>

\* Acquire: default, taken only when neither case is ready.
AcquireBusy(c) ==
  /\ pc[c] = "idle"
  /\ c \notin ctxDone /\ token = 0
  /\ Goto(c, "busy")
  /\ UNCHANGED <<token, ctxDone, fired>>

\* Mutant: the release function without its sync.Once.
ReleaseEveryTime(c) ==
  /\ pc[c] = "acquired"
  /\ token < Capacity
  /\ fired' = fired \cup {c}
  /\ token' = token + 1
  /\ UNCHANGED <<ctxDone, pc>>

\* The release function, which may be called again: only the first call gets
\* past the sync.Once, and it sends the token if the channel has room.
Release(c) ==
  /\ pc[c] = "acquired"
  /\ fired' = fired \cup {c}
  /\ \/ c \in fired /\ UNCHANGED token
     \/ c \notin fired /\ token < Capacity /\ token' = token + 1
  /\ UNCHANGED <<ctxDone, pc>>

Acquire(c) == AcquireCancelled(c) \/ TakeToken(c) \/ AcquireBusy(c)

Next == \E c \in Calls : CtxDone(c) \/ Acquire(c) \/ Release(c)

Spec == Init /\ [][Next]_vars

-----------------------------------------------------------------------------
\* Properties

TypeOK ==
  /\ token \in {0, 1}
  /\ ctxDone \subseteq Calls
  /\ pc \in [Calls -> Pc]
  /\ fired \subseteq Calls

\* No two calls run at once, whichever release functions run twice.
MutualExclusion == \A c, d \in Calls : Owns(c) /\ Owns(d) => c = d

\* The token is in the channel exactly while no call owns it: none is lost
\* when an acquisition races a cancellation, and the send of a release
\* function never finds the channel full.
TokenAccounted == token = 1 <=> \A c \in Calls : ~Owns(c)

\* A call is turned away as busy (429) only by one that runs at that moment.
BusyOnlyWhileOwned ==
  [][\A c \in Calls :
       pc[c] = "idle" /\ pc'[c] = "busy" => \E d \in Calls \ {c} : Owns(d)]_vars

-----------------------------------------------------------------------------
\* The gate does what the interface promises.

StatusOf(c) ==
  IF pc[c] = "idle" THEN "idle"
  ELSE IF pc[c] \in {"cancelled", "busy"} THEN "refused"
  ELSE IF Owns(c) THEN "inside"
  ELSE "left"

Gate == INSTANCE CallGate WITH status <- [c \in Calls |-> StatusOf(c)]

\* Every step of the gate is a step of the abstract gate, or changes nothing
\* its callers can see.
ImplementsCallGate == Gate!Spec

=============================================================================
