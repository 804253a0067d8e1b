-------------------------- MODULE SingleGateProofs --------------------------
(***************************************************************************)
(* Theorems about SingleGate, for any set of calls.                        *)
(***************************************************************************)
EXTENDS SingleGate, TLAPS

-----------------------------------------------------------------------------
\* The inductive invariant.  TokenAccounted needs MutualExclusion, as the owner
\* that puts the token back must be the only one, and MutualExclusion needs
\* TokenAccounted, as the token in the channel must mean that nobody owns it.
\* A call that has yet to acquire must not have released.

ReleasedWereAcquired == \A c \in fired : pc[c] = "acquired"

IInv ==
  /\ TypeOK
  /\ MutualExclusion
  /\ TokenAccounted
  /\ ReleasedWereAcquired

LEMMA InitIInv == Init => IInv
BY DEF Init, IInv, TypeOK, MutualExclusion, TokenAccounted, ReleasedWereAcquired,
       Owns, Pc

\* A step keeps the invariant, one action at a time.
LEMMA NextIInv == IInv /\ [Next]_vars => IInv'
<1> SUFFICES ASSUME IInv, [Next]_vars PROVE IInv'
  OBVIOUS
<1> USE DEF IInv
<1>1. ASSUME NEW c \in Calls, CtxDone(c) PROVE IInv'
  BY <1>1 DEF CtxDone, TypeOK, MutualExclusion, TokenAccounted,
     ReleasedWereAcquired, Owns
<1>2. ASSUME NEW c \in Calls, AcquireCancelled(c) PROVE IInv'
  BY <1>2 DEF AcquireCancelled, Goto, TypeOK, MutualExclusion, TokenAccounted,
     ReleasedWereAcquired, Owns, Pc
<1>3. ASSUME NEW c \in Calls, TakeToken(c) PROVE IInv'
  <2>1. token = 1 /\ token' = 0 /\ c \notin fired
    BY <1>3 DEF TakeToken, TypeOK, ReleasedWereAcquired
  <2>2. TypeOK' /\ ReleasedWereAcquired'
    BY <1>3, <2>1 DEF TakeToken, Goto, TypeOK, ReleasedWereAcquired, Pc
  <2>3. \A d \in Calls : Owns(d)' <=> d = c
    BY <1>3, <2>1 DEF TakeToken, Goto, TypeOK, TokenAccounted, Owns
  <2> QED
    BY <2>1, <2>2, <2>3 DEF MutualExclusion, TokenAccounted
<1>4. ASSUME NEW c \in Calls, AcquireBusy(c) PROVE IInv'
  BY <1>4 DEF AcquireBusy, Goto, TypeOK, MutualExclusion, TokenAccounted,
     ReleasedWereAcquired, Owns, Pc
<1>5. ASSUME NEW c \in Calls, Release(c), c \in fired PROVE IInv'
  <2>1. UNCHANGED vars
    BY <1>5 DEF Release, TypeOK, vars
  <2> QED
    BY <2>1 DEF TypeOK, MutualExclusion, TokenAccounted, ReleasedWereAcquired,
       Owns, vars
<1>6. ASSUME NEW c \in Calls, Release(c), c \notin fired PROVE IInv'
  <2>1. token = 0 /\ token' = 1
    BY <1>6 DEF Release, TypeOK, Capacity
  <2>2. TypeOK' /\ ReleasedWereAcquired'
    BY <1>6, <2>1 DEF Release, TypeOK, ReleasedWereAcquired
  <2>3. \A d \in Calls : ~Owns(d)'
    BY <1>6 DEF Release, TypeOK, MutualExclusion, Owns
  <2> QED
    BY <2>1, <2>2, <2>3 DEF MutualExclusion, TokenAccounted
<1>7. CASE UNCHANGED vars
  BY <1>7 DEF TypeOK, MutualExclusion, TokenAccounted, ReleasedWereAcquired,
     Owns, vars
<1> QED
  BY <1>1, <1>2, <1>3, <1>4, <1>5, <1>6, <1>7 DEF Next, Acquire

\* The invariant holds in every behaviour, for every set of calls.
THEOREM Invariant == Spec => []IInv
BY InitIInv, NextIInv, PTL DEF Spec

\* The variables keep their types: above all, the channel never holds more than
\* the one token it has room for.
THEOREM TypeCorrect == Spec => []TypeOK
BY Invariant, PTL DEF IInv

\* No two calls own the token, and the token is in the channel exactly while
\* none does, so that a release never finds the channel full.
THEOREM TokenExclusive == Spec => [](MutualExclusion /\ TokenAccounted)
BY Invariant, PTL DEF IInv

\* A call is refused as busy only while another one runs.
THEOREM BusyIsHonest == Spec => BusyOnlyWhileOwned
<1>1. IInv /\ [Next]_vars =>
        [\A c \in Calls :
           pc[c] = "idle" /\ pc'[c] = "busy" => \E d \in Calls \ {c} : Owns(d)]_vars
  <2> SUFFICES ASSUME IInv, [Next]_vars, NEW c \in Calls,
                      pc[c] = "idle", pc'[c] = "busy"
               PROVE  \E d \in Calls \ {c} : Owns(d)
    OBVIOUS
  <2>1. token = 0
    <3>1. PICK d \in Calls : CtxDone(d) \/ Acquire(d) \/ Release(d)
      BY DEF Next, vars
    <3> QED
      BY <3>1 DEF CtxDone, Acquire, AcquireCancelled, TakeToken, AcquireBusy,
         Release, Goto, IInv, TypeOK
  <2> QED
    BY <2>1 DEF IInv, TokenAccounted, Owns
<1> QED
  BY <1>1, Invariant, PTL DEF Spec, BusyOnlyWhileOwned

-----------------------------------------------------------------------------
\* SingleGate implements CallGate.

\* A step of the gate is a step of the abstract gate or leaves it alone.
LEMMA Simulation ==
  IInv /\ [Next]_vars => [Gate!Next]_([c \in Calls |-> StatusOf(c)])
<1> DEFINE S == [c \in Calls |-> StatusOf(c)]
<1> SUFFICES ASSUME IInv, [Next]_vars PROVE [Gate!Next]_S
  OBVIOUS
<1>1. ASSUME NEW c \in Calls, CtxDone(c) PROVE S' = S
  BY <1>1 DEF CtxDone, StatusOf, Owns
<1>2. ASSUME NEW c \in Calls, AcquireCancelled(c) \/ AcquireBusy(c)
      PROVE  Gate!Refuse(c)
  <2>1. S[c] = "idle"
    BY <1>2 DEF AcquireCancelled, AcquireBusy, StatusOf
  <2>2. S' = [S EXCEPT ![c] = "refused"]
    BY <1>2 DEF AcquireCancelled, AcquireBusy, Goto, StatusOf, Owns, IInv, TypeOK
  <2> QED
    BY <2>1, <2>2 DEF Gate!Refuse, Gate!Move
<1>3. ASSUME NEW c \in Calls, TakeToken(c) PROVE Gate!Admit(c)
  <2>1. token = 1 /\ c \notin fired
    BY <1>3 DEF TakeToken, IInv, TypeOK, ReleasedWereAcquired
  <2>2. S[c] = "idle" /\ Gate!Inside = {}
    BY <1>3, <2>1 DEF TakeToken, StatusOf, IInv, TokenAccounted, Gate!Inside
  <2>3. S' = [S EXCEPT ![c] = "inside"]
    BY <1>3, <2>1 DEF TakeToken, Goto, StatusOf, Owns, IInv, TypeOK
  <2> QED
    BY <2>2, <2>3 DEF Gate!Admit, Gate!Move
<1>4. ASSUME NEW c \in Calls, Release(c), c \in fired PROVE S' = S
  BY <1>4 DEF Release, StatusOf, Owns, IInv, TypeOK
<1>5. ASSUME NEW c \in Calls, Release(c), c \notin fired PROVE Gate!Leave(c)
  <2>1. S[c] = "inside"
    BY <1>5 DEF Release, StatusOf, Owns
  <2>2. S' = [S EXCEPT ![c] = "left"]
    BY <1>5 DEF Release, StatusOf, Owns, IInv, TypeOK
  <2> QED
    BY <2>1, <2>2 DEF Gate!Leave, Gate!Move
<1>6. CASE UNCHANGED vars
  BY <1>6 DEF vars, StatusOf, Owns
<1> QED
  BY <1>1, <1>2, <1>3, <1>4, <1>5, <1>6 DEF Next, Acquire, Gate!Next

\* The channel with one token is a call gate.
THEOREM Refinement == Spec => ImplementsCallGate
<1>1. Init => Gate!Init
  BY DEF Init, Gate!Init, StatusOf
<1> QED
  BY <1>1, Simulation, Invariant, PTL DEF Spec, ImplementsCallGate, Gate!Spec

=============================================================================
