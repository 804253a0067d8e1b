--------------------------- MODULE RegistryProofs ---------------------------
(***************************************************************************)
(* Theorems about Registry, for any calls, groups and modes.               *)
(***************************************************************************)
EXTENDS Registry, TLAPS

-----------------------------------------------------------------------------
\* The inductive invariant: a call past the lookup asks for a known mode, so
\* that what it may create is a gate, and a call that returned has the gate of its
\* group, which is therefore never again found missing.

IInv ==
  /\ TypeOK
  /\ \A c \in Calls : pc[c] \in {"read", "write"} => want[c].mode \in KnownModes
  /\ GateStays

LEMMA InitIInv == Init => IInv
BY DEF Init, IInv, TypeOK, Pc, GateStays

\* A call that returns the gate of its group, which is then in the map, keeps
\* the invariant; other groups may have been added or not.
LEMMA ReturnIInv ==
  ASSUME IInv, NEW c \in Calls, pc[c] \in {"read", "write"}, NEW gate \in Gates,
         Return(c, gate), UNCHANGED want,
         DOMAIN m' \subseteq Groups, \A g \in DOMAIN m' : m'[g] \in Gates,
         DOMAIN m \subseteq DOMAIN m', \A g \in DOMAIN m : m'[g] = m[g],
         want[c].group \in DOMAIN m', m'[want[c].group] = gate
  PROVE  IInv'
<1>1. /\ DOMAIN got' = DOMAIN got \cup {c}
      /\ got'[c] = gate
      /\ \A d \in DOMAIN got : d # c => got'[d] = got[d]
  BY DEF Return, With
<1>2. pc' = [pc EXCEPT ![c] = "done"]
  BY DEF Return, Goto
<1>3. TypeOK'
  BY <1>1, <1>2 DEF IInv, TypeOK, Pc
<1>4. \A d \in Calls : pc'[d] \in {"read", "write"} => want[d].mode \in KnownModes
  BY <1>2 DEF IInv, TypeOK
<1>5. ASSUME NEW d \in Calls, pc'[d] = "done"
      PROVE  /\ d \in DOMAIN got' /\ want[d].group \in DOMAIN m'
             /\ got'[d] = m'[want[d].group]
  <2>1. CASE d = c
    BY <1>1, <2>1
  <2>2. CASE d # c
    <3>1. pc[d] = "done"
      BY <1>2, <1>5, <2>2 DEF IInv, TypeOK
    <3> QED
      BY <1>1, <2>2, <3>1 DEF IInv, GateStays, Found, GateOf
  <2> QED
    BY <2>1, <2>2
<1>6. GateStays'
  BY <1>5 DEF GateStays, Found, GateOf
<1> QED
  BY <1>3, <1>4, <1>6 DEF IInv

LEMMA NextIInv == IInv /\ [Next]_vars => IInv'
<1> SUFFICES ASSUME IInv, [Next]_vars PROVE IInv'
  OBVIOUS
<1>1. ASSUME NEW c \in Calls, GetFactory(c) PROVE IInv'
  BY <1>1 DEF GetFactory, Goto, IInv, TypeOK, Pc, GateStays, Found, GateOf
<1>2. ASSUME NEW c \in Calls, pc[c] \in {"read", "write"}, Found(c),
             Return(c, GateOf(c)), UNCHANGED <<m, want>>
      PROVE  IInv'
  <2>1. /\ GateOf(c) \in Gates
        /\ DOMAIN m \subseteq Groups /\ \A g \in DOMAIN m : m[g] \in Gates
    BY <1>2 DEF IInv, TypeOK, Found, GateOf
  <2> QED
    BY <1>2, <2>1, ReturnIInv DEF Found, GateOf
<1>3. ASSUME NEW c \in Calls, pc[c] = "read", Goto(c, "write"), UNCHANGED <<m, want, got>>
      PROVE  IInv'
  BY <1>3 DEF Goto, IInv, TypeOK, Pc, GateStays, Found, GateOf
<1>4. ASSUME NEW c \in Calls, pc[c] = "write", ~Found(c), Create(c), UNCHANGED want
      PROVE  IInv'
  <2> DEFINE gate == [maker |-> c, mode |-> want[c].mode]
             g == want[c].group
  <2>1. gate \in Gates /\ g \in Groups
    BY <1>4 DEF IInv, TypeOK, Wants, Gates
  <2>2. m' = With(m, g, gate) /\ Return(c, gate)
    BY <1>4 DEF Create
  <2>3. g \notin DOMAIN m
    BY <1>4 DEF Found
  <2> HIDE DEF gate, g
  <2>4. /\ DOMAIN m' = DOMAIN m \cup {g} /\ m'[g] = gate
        /\ \A h \in DOMAIN m : m'[h] = m[h]
    BY <2>2, <2>3 DEF With
  <2>5. DOMAIN m' \subseteq Groups /\ \A h \in DOMAIN m' : m'[h] \in Gates
    BY <2>1, <2>4 DEF IInv, TypeOK
  <2> QED
    <3>1. /\ DOMAIN m \subseteq DOMAIN m' /\ g \in DOMAIN m'
          /\ pc[c] \in {"read", "write"} /\ want[c].group = g
      BY <1>4, <2>4 DEF g
    <3> QED
      BY <1>4, <2>1, <2>2, <2>4, <2>5, <3>1, ReturnIInv
<1>5. CASE UNCHANGED vars
  BY <1>5 DEF vars, IInv, TypeOK, GateStays, Found, GateOf
<1> QED
  BY <1>1, <1>2, <1>3, <1>4, <1>5 DEF Next, ReadSection, WriteSection

\* The invariant holds in every behaviour.
THEOREM Invariant == Spec => []IInv
BY InitIInv, NextIInv, PTL DEF Spec

\* The variables keep their types.
THEOREM TypeCorrect == Spec => []TypeOK
BY Invariant, PTL DEF IInv

\* A gate once returned stays the gate of its group, and so all calls for one
\* group return the same gate.
THEOREM GateUnique == Spec => [](GateStays /\ OneGatePerGroup)
<1>1. IInv => GateStays /\ OneGatePerGroup
  BY DEF IInv, GateStays, OneGatePerGroup, GateOf
<1> QED
  BY <1>1, Invariant, PTL

-----------------------------------------------------------------------------
\* Whose mode a gate has.

\* A gate of the map was made by a call for its group, and has the mode that call
\* asked for.
MakersAsked ==
  \A g \in DOMAIN m : want[m[g].maker].group = g /\ want[m[g].maker].mode = m[g].mode

LEMMA NextMakersAsked == ASSUME IInv, MakersAsked, [Next]_vars PROVE MakersAsked'
<1> USE DEF MakersAsked
<1>1. CASE UNCHANGED <<m, want>>
  BY <1>1
<1>2. ASSUME NEW c \in Calls, Create(c), UNCHANGED want PROVE MakersAsked'
  <2> DEFINE gate == [maker |-> c, mode |-> want[c].mode]
             g == want[c].group
  <2>1. m' = With(m, g, gate)
    BY <1>2 DEF Create
  <2>2. /\ DOMAIN m' = DOMAIN m \cup {g} /\ m'[g] = gate
        /\ \A h \in DOMAIN m : h # g => m'[h] = m[h]
    BY <2>1 DEF With
  <2> QED
    BY <1>2, <2>2
<1> QED
  BY <1>1, <1>2 DEF Next, GetFactory, ReadSection, WriteSection, vars

\* The gate that a call returns has the mode of the call for the same group that made
\* it, the first that came to the map.
ModeOfMaker ==
  \A c \in Calls : pc[c] = "done" =>
    LET d == got[c].maker
    IN  d \in Calls /\ want[d].group = want[c].group /\ want[d].mode = got[c].mode

\* Calls get the mode they ask for when all that name their group ask for the same.
AgreedModeHonoured ==
  \A c \in Calls :
    /\ pc[c] = "done"
    /\ \A d \in Calls : want[d].group = want[c].group => want[d].mode = want[c].mode
    => got[c].mode = want[c].mode

\* How far the mode of a call is honoured, whatever the interleaving: a call gets the
\* mode of the group's first call, and so its own if all agree; when they do not,
\* the run of ModeHonoured shows a call that gets the other one.
THEOREM ModeOfGroup == Spec => [](ModeOfMaker /\ AgreedModeHonoured)
<1>1. Init => MakersAsked
  BY DEF Init, MakersAsked
<1>2. IInv /\ MakersAsked /\ [Next]_vars => MakersAsked'
  BY NextMakersAsked
<1>3. ASSUME IInv, MakersAsked PROVE ModeOfMaker
  <2> SUFFICES ASSUME NEW c \in Calls, pc[c] = "done"
               PROVE  /\ got[c].maker \in Calls
                      /\ want[got[c].maker].group = want[c].group
                      /\ want[got[c].maker].mode = got[c].mode
    BY DEF ModeOfMaker
  <2>1. want[c].group \in DOMAIN m /\ got[c] = m[want[c].group]
    BY <1>3 DEF IInv, GateStays, Found, GateOf
  <2>2. got[c].maker \in Calls
    BY <1>3, <2>1 DEF IInv, TypeOK, Gates
  <2> QED
    BY <1>3, <2>1, <2>2 DEF MakersAsked
<1>4. ModeOfMaker => AgreedModeHonoured
  BY DEF ModeOfMaker, AgreedModeHonoured
<1> QED
  BY <1>1, <1>2, <1>3, <1>4, Invariant, PTL DEF Spec

=============================================================================
