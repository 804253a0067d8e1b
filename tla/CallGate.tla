------------------------------ MODULE CallGate ------------------------------
(***************************************************************************)
(* What a call gate promises to its callers (the CallGate interface of     *)
(* pkg/callgate/callgate.go): a call of Acquire is admitted, made to wait, *)
(* or refused, and at any moment at most one admitted call has not yet     *)
(* given its permission back.  Which calls wait and which are refused is   *)
(* left to the implementations, SingleGate and SequenceGate.               *)
(***************************************************************************)
CONSTANT Calls      \* the calls of Acquire, each made once

VARIABLE status     \* where each call stands

CallStatus == {"idle", "asking", "inside", "refused", "left"}

TypeOK == status \in [Calls -> CallStatus]

Inside == {c \in Calls : status[c] = "inside"}

Move(c, s) == status' = [status EXCEPT ![c] = s]

-----------------------------------------------------------------------------

Init == status = [c \in Calls |-> "idle"]

\* The call must wait: Acquire does not return yet.
Wait(c) ==
  /\ status[c] = "idle"
  /\ Move(c, "asking")

\* The call is given the permission, which must be free.
Admit(c) ==
  /\ status[c] \in {"idle", "asking"}
  /\ Inside = {}
  /\ Move(c, "inside")

\* Acquire returns an error: the gate is busy or the context is done.
Refuse(c) ==
  /\ status[c] \in {"idle", "asking"}
  /\ Move(c, "refused")

\* The release function gives the permission back ...
Leave(c) ==
  /\ status[c] = "inside"
  /\ Move(c, "left")

\* ... or passes it on to a call that waits.
HandOver(c, d) ==
  /\ status[c] = "inside"
  /\ status[d] = "asking"
  /\ status' = [status EXCEPT ![c] = "left", ![d] = "inside"]

Next ==
  \/ \E c \in Calls : Wait(c) \/ Admit(c) \/ Refuse(c) \/ Leave(c)
  \/ \E c, d \in Calls : HandOver(c, d)

Spec == Init /\ [][Next]_status

-----------------------------------------------------------------------------

\* At most one call is past Acquire and not yet past its release function.
AtMostOneInside == \A c, d \in Inside : c = d

=============================================================================
