------------------------------ MODULE Registry ------------------------------
(***************************************************************************)
(* The registry of call gates, pkg/callgate/registry.go with the factories *)
(* of pkg/callgate/factory.go: a map from group names to gates, filled on  *)
(* demand by the first call that names the group.                          *)
(*                                                                         *)
(* A call of GetOrCreate looks at the map under the read lock, and if the  *)
(* group is missing once more under the write lock; each locked section is *)
(* one action, and other calls run between the two.                        *)
(***************************************************************************)
CONSTANTS
  Calls,    \* the calls of GetOrCreate
  Groups,   \* the group names
  Modes     \* the mode names calls may ask for, known or not

KnownModes == {"single", "sequence"}

VARIABLES
  m,     \* r.m: the gates of the groups that have one
  pc,    \* where each call stands
  want,  \* the group and the mode each call asks for
  got    \* the gates of the calls that returned one

vars == <<m, pc, want, got>>

\* A gate is what one run of a factory made: who ran it, and the mode.
Gates == [maker : Calls, mode : KnownModes]

Wants == [group : Groups, mode : Modes]

\* "read", "write": before the section under the read and the write lock.
Pc == {"idle", "read", "write", "done", "failed"}

-----------------------------------------------------------------------------

\* Every call has its arguments from the start.
Init ==
  /\ m = [g \in {} |-> {}]
  /\ pc = [c \in Calls |-> "idle"]
  /\ want \in [Calls -> Wants]
  /\ got = [c \in {} |-> {}]

Goto(c, l) == pc' = [pc EXCEPT ![c] = l]

\* Setting a key of a Go map.
With(f, k, v) == [x \in DOMAIN f \cup {k} |-> IF x = k THEN v ELSE f[x]]

Found(c) == want[c].group \in DOMAIN m

GateOf(c) == m[want[c].group]

Return(c, gate) ==
  /\ got' = With(got, c, gate)
  /\ Goto(c, "done")

\* GetFactory: an unknown mode fails even if the group has its gate.
GetFactory(c) ==
  /\ pc[c] = "idle"
  /\ Goto(c, IF want[c].mode \in KnownModes THEN "read" ELSE "failed")
  /\ UNCHANGED <<m, want, got>>

ReadSection(c) ==
  /\ pc[c] = "read"
  /\ \/ Found(c) /\ Return(c, GateOf(c))
     \/ ~Found(c) /\ Goto(c, "write") /\ UNCHANGED got
  /\ UNCHANGED <<m, want>>

Create(c) ==
  LET gate == [maker |-> c, mode |-> want[c].mode]
  IN  /\ m' = With(m, want[c].group, gate)
      /\ Return(c, gate)

\* Mutant: the map is not looked at again under the write lock.
WriteSectionNoRecheck(c) ==
  /\ pc[c] = "write"
  /\ Create(c)
  /\ UNCHANGED want

WriteSection(c) ==
  /\ pc[c] = "write"
  /\ \/ Found(c) /\ Return(c, GateOf(c)) /\ UNCHANGED m
     \/ ~Found(c) /\ Create(c)
  /\ UNCHANGED want

Next == \E c \in Calls : GetFactory(c) \/ ReadSection(c) \/ WriteSection(c)

Spec == Init /\ [][Next]_vars

-----------------------------------------------------------------------------
\* Properties

TypeOK ==
  /\ DOMAIN m \subseteq Groups /\ \A g \in DOMAIN m : m[g] \in Gates
  /\ pc \in [Calls -> Pc]
  /\ want \in [Calls -> Wants]
  /\ DOMAIN got \subseteq Calls /\ \A c \in DOMAIN got : got[c] \in Gates

\* Calls that name the same group get the same gate, also when several of them
\* find the group missing at once: two gates for one group would let two
\* commands of the group run together.
OneGatePerGroup ==
  \A c, d \in Calls :
    pc[c] = "done" /\ pc[d] = "done" /\ want[c].group = want[d].group
      => got[c] = got[d]

\* The gate a call returns stays the gate of its group, so that calls made
\* while it is held meet it.
GateStays ==
  \A c \in Calls : pc[c] = "done" => c \in DOMAIN got /\ Found(c) /\ got[c] = GateOf(c)

\* "single: ... If another execution is already running, the request is rejected
\* immediately" (README): a call gets a gate of the mode it asks for.
ModeHonoured == \A c \in Calls : pc[c] = "done" => got[c].mode = want[c].mode

=============================================================================
