------------------------ MODULE SequenceGateProofs ------------------------
(***************************************************************************)
(* Theorems about SequenceGate, for any set of calls.                      *)
(***************************************************************************)
EXTENDS SequenceGate, SequenceTheorems, TLAPS

-----------------------------------------------------------------------------
\* What the queue operations do to the elements of a sequence.

\* RemoveAt drops the i-th element and moves those behind it up by one.
LEMMA RemoveAtProperties ==
  ASSUME NEW S, NEW s \in Seq(S), NEW i \in 1 .. Len(s)
  PROVE  /\ RemoveAt(s, i) \in Seq(S)
         /\ Len(RemoveAt(s, i)) = Len(s) - 1
         /\ \A j \in 1 .. Len(s) - 1 :
              RemoveAt(s, i)[j] = IF j < i THEN s[j] ELSE s[j + 1]
<1> DEFINE a == SubSeq(s, 1, i - 1)
           b == SubSeq(s, i + 1, Len(s))
<1>1. /\ Len(s) \in Nat
      /\ \A j \in 1 .. Len(s) : s[j] \in S
  BY LenProperties, ElementOfSeq
<1>2. /\ a \in Seq(S) /\ Len(a) = i - 1
      /\ \A j \in 1 .. i - 1 : a[j] = s[j]
  BY <1>1, SubSeqProperties
<1>3. /\ b \in Seq(S) /\ Len(b) = Len(s) - i
      /\ \A j \in 1 .. Len(s) - i : b[j] = s[i + j]
  BY <1>1, SubSeqProperties
<1> HIDE DEF a, b
<1>4. /\ a \o b \in Seq(S)
      /\ Len(a \o b) = Len(a) + Len(b)
      /\ \A j \in 1 .. Len(a) + Len(b) :
           (a \o b)[j] = IF j <= Len(a) THEN a[j] ELSE b[j - Len(a)]
  BY <1>2, <1>3, ConcatProperties
<1>5. ASSUME NEW j \in 1 .. Len(s) - 1
      PROVE  (a \o b)[j] = IF j < i THEN s[j] ELSE s[j + 1]
  <2>1. CASE j < i
    BY <1>1, <1>2, <1>3, <1>4, <2>1
  <2>2. CASE ~(j < i)
    <3> DEFINE k == j - (i - 1)
    <3>1. k \in 1 .. Len(s) - i /\ i + k = j + 1
      BY <1>1, <2>2
    <3>2. (a \o b)[j] = b[k]
      BY <1>1, <1>2, <1>3, <1>4, <2>2
    <3> HIDE DEF k
    <3>3. b[k] = s[j + 1]
      BY <1>3, <3>1
    <3> QED
      BY <2>2, <3>2, <3>3
  <2> QED
    BY <2>1, <2>2
<1>6. RemoveAt(s, i) = a \o b
  BY DEF RemoveAt, a, b
<1> QED
  BY <1>1, <1>2, <1>3, <1>4, <1>5, <1>6

\* Removing an element from a queue without duplicates removes it altogether.
LEMMA RemoveFromInjective ==
  ASSUME NEW S, NEW s \in Seq(S), IsInjective(s), NEW i \in 1 .. Len(s)
  PROVE  /\ IsInjective(RemoveAt(s, i))
         /\ \A x : Contains(RemoveAt(s, i), x) <=> Contains(s, x) /\ x # s[i]
<1> DEFINE r == RemoveAt(s, i)
<1>1. /\ DOMAIN s = 1 .. Len(s) /\ DOMAIN r = 1 .. Len(r)
      /\ Len(s) \in Nat /\ Len(r) = Len(s) - 1
      /\ \A j \in 1 .. Len(s) - 1 : r[j] = IF j < i THEN s[j] ELSE s[j + 1]
  BY RemoveAtProperties, LenProperties
<1> HIDE DEF r
<1>2. IsInjective(r)
  BY <1>1 DEF IsInjective
<1>3. ASSUME NEW x, Contains(r, x) PROVE Contains(s, x) /\ x # s[i]
  BY <1>1, <1>3 DEF Contains, IsInjective
<1>4. ASSUME NEW x, Contains(s, x), x # s[i] PROVE Contains(r, x)
  <2>1. PICK k \in 1 .. Len(s) : s[k] = x
    BY <1>4 DEF Contains
  <2>2. CASE k < i
    BY <1>1, <2>1, <2>2 DEF Contains
  <2>3. CASE k > i
    <3>1. k - 1 \in 1 .. Len(s) - 1 /\ r[k - 1] = x
      BY <1>1, <2>1, <2>3
    <3> QED
      BY <1>1, <3>1 DEF Contains
  <2> QED
    BY <1>1, <1>4, <2>1, <2>2, <2>3
<1> QED
  BY <1>2, <1>3, <1>4 DEF r

\* Appending a new element keeps a queue free of duplicates.
LEMMA AppendToInjective ==
  ASSUME NEW S, NEW s \in Seq(S), IsInjective(s), NEW e \in S, ~Contains(s, e)
  PROVE  /\ IsInjective(Append(s, e))
         /\ \A x : Contains(Append(s, e), x) <=> Contains(s, x) \/ x = e
<1> DEFINE r == Append(s, e)
<1>1. /\ DOMAIN s = 1 .. Len(s) /\ DOMAIN r = 1 .. Len(r)
      /\ Len(s) \in Nat /\ Len(r) = Len(s) + 1
      /\ \A j \in 1 .. Len(s) : r[j] = s[j]
      /\ r[Len(s) + 1] = e
  BY AppendProperties, LenProperties
<1> HIDE DEF r
<1>2. IsInjective(r)
  BY <1>1 DEF IsInjective, Contains
<1>3. ASSUME NEW x PROVE Contains(r, x) <=> Contains(s, x) \/ x = e
  BY <1>1 DEF Contains
<1> QED
  BY <1>2, <1>3 DEF r

\* Taking the head off a queue without duplicates removes it altogether.
LEMMA TailOfInjective ==
  ASSUME NEW S, NEW s \in Seq(S), s # <<>>, IsInjective(s)
  PROVE  /\ IsInjective(Tail(s))
         /\ Contains(s, Head(s))
         /\ \A x : Contains(Tail(s), x) <=> Contains(s, x) /\ x # Head(s)
<1> DEFINE r == Tail(s)
           h == Head(s)
<1>1. /\ DOMAIN s = 1 .. Len(s) /\ DOMAIN r = 1 .. Len(r)
      /\ Len(s) \in Nat \ {0} /\ Len(r) = Len(s) - 1
      /\ \A j \in 1 .. Len(s) - 1 : r[j] = s[j + 1]
      /\ h = s[1]
  BY HeadTailProperties, EmptySeq, LenProperties
<1> HIDE DEF r, h
<1>2. IsInjective(r) /\ Contains(s, h)
  BY <1>1 DEF IsInjective, Contains
<1>3. ASSUME NEW x, Contains(r, x) PROVE Contains(s, x) /\ x # h
  BY <1>1, <1>3 DEF Contains, IsInjective
<1>4. ASSUME NEW x, Contains(s, x), x # h PROVE Contains(r, x)
  <2>1. PICK k \in 1 .. Len(s) : s[k] = x
    BY <1>4 DEF Contains
  <2>2. k - 1 \in 1 .. Len(s) - 1 /\ r[k - 1] = x
    BY <1>1, <1>4, <2>1
  <2> QED
    BY <1>1, <2>2 DEF Contains
<1> QED
  BY <1>2, <1>3, <1>4 DEF r, h

-----------------------------------------------------------------------------
\* The inductive invariant.  SlotAccounted needs MutualExclusion (the owner
\* that leaves is the only one), which needs to know that a waiter which is
\* handed the slot owned nothing before, which QueueHoldsWaiters and
\* GrantsHonoured say.

IInv ==
  /\ TypeOK
  /\ MutualExclusion
  /\ SlotAccounted
  /\ QueueHoldsWaiters
  /\ GrantsHonoured
  /\ NoLostWakeup

LEMMA InitIInv == Init => IInv
<1> SUFFICES ASSUME Init PROVE IInv
  OBVIOUS
<1>1. TypeOK
  BY EmptySeq DEF Init, TypeOK, Pc
<1>2. \A c : ~Waiting(c)
  BY DEF Init, Waiting, Contains
<1>3. QueueHoldsWaiters
  BY <1>2 DEF Init, QueueHoldsWaiters, IsInjective
<1> QED
  BY <1>1, <1>3 DEF Init, IInv, MutualExclusion, SlotAccounted, GrantsHonoured,
                    NoLostWakeup, Owns

\* A step keeps the invariant, one action at a time.
LEMMA NextIInv == IInv /\ [Next]_vars => IInv'
<1> SUFFICES ASSUME IInv, [Next]_vars PROVE IInv'
  OBVIOUS
<1>s. queue # <<>> => Head(queue) \in Calls /\ Waiting(Head(queue))
  BY HeadTailProperties, TailOfInjective
     DEF IInv, TypeOK, QueueHoldsWaiters, Waiting
<1>1. ASSUME NEW c \in Calls, CtxDone(c) PROVE IInv'
  BY <1>1 DEF IInv, TypeOK, MutualExclusion, SlotAccounted, QueueHoldsWaiters,
     GrantsHonoured, NoLostWakeup, CtxDone, Owns, Waiting
<1>2. ASSUME NEW c \in Calls, AcquireFast(c) PROVE IInv'
  <2>1. TypeOK'
    BY <1>2 DEF IInv, TypeOK, AcquireFast, Goto, Pc
  <2>2. QueueHoldsWaiters' /\ GrantsHonoured'
    BY <1>2 DEF IInv, TypeOK, QueueHoldsWaiters, GrantsHonoured, AcquireFast, Goto, Waiting
  <2>3. \A d \in Calls : Owns(d)' <=> d = c
    BY <1>2 DEF IInv, TypeOK, SlotAccounted, GrantsHonoured, AcquireFast, Goto, Owns
  <2> QED
    BY <1>2, <2>1, <2>2, <2>3
       DEF IInv, MutualExclusion, SlotAccounted, NoLostWakeup, AcquireFast
<1>3. ASSUME NEW c \in Calls, Enqueue(c) PROVE IInv'
  <2>1. ~Contains(queue, c)
    BY <1>3 DEF IInv, QueueHoldsWaiters, Enqueue, Waiting
  <2>2. /\ IsInjective(queue')
        /\ \A d \in Calls : Waiting(d)' <=> Waiting(d) \/ d = c
    BY <1>3, <2>1, AppendToInjective
       DEF IInv, TypeOK, QueueHoldsWaiters, Enqueue, Waiting
  <2>3. TypeOK'
    BY <1>3, AppendProperties DEF IInv, TypeOK, Enqueue, Goto, Pc
  <2>4. QueueHoldsWaiters' /\ GrantsHonoured'
    BY <1>3, <2>2 DEF IInv, TypeOK, QueueHoldsWaiters, GrantsHonoured, Enqueue, Goto
  <2>5. \A d \in Calls : Owns(d)' <=> Owns(d)
    BY <1>3 DEF IInv, TypeOK, GrantsHonoured, Enqueue, Goto, Owns
  <2> QED
    BY <1>3, <2>3, <2>4, <2>5
       DEF IInv, MutualExclusion, SlotAccounted, NoLostWakeup, Enqueue
<1>4. ASSUME NEW c \in Calls, SelectGranted(c) PROVE IInv'
  <2>1. TypeOK'
    BY <1>4 DEF IInv, TypeOK, SelectGranted, Goto, Pc
  <2>2. QueueHoldsWaiters' /\ GrantsHonoured'
    BY <1>4 DEF IInv, TypeOK, QueueHoldsWaiters, GrantsHonoured, SelectGranted, Goto, Waiting
  <2>3. \A d \in Calls : Owns(d)' <=> Owns(d)
    BY <1>4 DEF IInv, TypeOK, GrantsHonoured, SelectGranted, Goto, Owns
  <2> QED
    BY <1>4, <2>1, <2>2, <2>3
       DEF IInv, MutualExclusion, SlotAccounted, NoLostWakeup, SelectGranted
<1>5. ASSUME NEW c \in Calls, SelectCtxDone(c) PROVE IInv'
  <2>1. TypeOK'
    BY <1>5 DEF IInv, TypeOK, SelectCtxDone, Goto, Pc
  <2>2. QueueHoldsWaiters' /\ GrantsHonoured'
    BY <1>5 DEF IInv, TypeOK, QueueHoldsWaiters, GrantsHonoured, SelectCtxDone, Goto, Waiting
  <2>3. \A d \in Calls : Owns(d)' <=> Owns(d)
    BY <1>5 DEF IInv, TypeOK, SelectCtxDone, Goto, Owns
  <2> QED
    BY <1>5, <2>1, <2>2, <2>3
       DEF IInv, MutualExclusion, SlotAccounted, NoLostWakeup, SelectCtxDone
<1>6. ASSUME NEW c \in Calls, GiveUpRemoved(c) PROVE IInv'
  <2>1. PICK i \in DOMAIN queue : queue[i] = c /\ queue' = RemoveAt(queue, i)
    BY <1>6 DEF GiveUpRemoved
  <2>2. i \in 1 .. Len(queue)
    BY <2>1, LenProperties DEF IInv, TypeOK
  <2>3. /\ IsInjective(queue')
        /\ \A d \in Calls : Waiting(d)' <=> Waiting(d) /\ d # c
    BY <2>1, <2>2, RemoveFromInjective DEF IInv, TypeOK, QueueHoldsWaiters, Waiting
  <2>4. c \notin granted
    BY <2>1, <2>2 DEF IInv, QueueHoldsWaiters, Waiting, Contains
  <2>5. TypeOK'
    <3>1. queue' \in Seq(Calls)
      BY <2>1, <2>2, RemoveAtProperties DEF IInv, TypeOK
    <3> QED
      BY <1>6, <3>1 DEF IInv, TypeOK, GiveUpRemoved, Goto, Pc
  <2>6. QueueHoldsWaiters' /\ GrantsHonoured'
    BY <1>6, <2>3, <2>4
       DEF IInv, TypeOK, QueueHoldsWaiters, GrantsHonoured, GiveUpRemoved, Goto
  <2>7. \A d \in Calls : Owns(d)' <=> Owns(d)
    BY <1>6, <2>4 DEF IInv, TypeOK, GiveUpRemoved, Goto, Owns
  <2>8. queue' # <<>> => queue # <<>>
    BY <2>1, <2>2, EmptySeq, LenProperties DEF IInv, TypeOK
  <2> QED
    BY <1>6, <2>5, <2>6, <2>7, <2>8
       DEF IInv, MutualExclusion, SlotAccounted, NoLostWakeup, GiveUpRemoved
<1>7. ASSUME NEW c \in Calls, GiveUpGranted(c) PROVE IInv'
  <2>1. c \in granted /\ c \notin fired
    BY <1>7 DEF IInv, QueueHoldsWaiters, GrantsHonoured, GiveUpGranted
  <2>2. TypeOK'
    BY <1>7 DEF IInv, TypeOK, GiveUpGranted, Goto, Pc
  <2>3. QueueHoldsWaiters' /\ GrantsHonoured'
    BY <1>7, <2>1
       DEF IInv, TypeOK, QueueHoldsWaiters, GrantsHonoured, GiveUpGranted, Goto, Waiting
  <2>4. \A d \in Calls : Owns(d)' <=> Owns(d)
    BY <1>7, <2>1 DEF IInv, TypeOK, GiveUpGranted, Goto, Owns
  <2> QED
    BY <1>7, <2>2, <2>3, <2>4
       DEF IInv, MutualExclusion, SlotAccounted, NoLostWakeup, GiveUpGranted
<1>8. ASSUME NEW c \in Calls, Release(c), c \in fired PROVE IInv'
  <2>1. UNCHANGED vars
    BY <1>8 DEF IInv, TypeOK, Release, HandToNext, FreeSlot, vars
  <2> QED
    BY <2>1 DEF IInv, TypeOK, MutualExclusion, SlotAccounted, QueueHoldsWaiters,
       GrantsHonoured, NoLostWakeup, Owns, Waiting, vars
<1>9. ASSUME NEW c \in Calls, Release(c), c \notin fired, HandToNext PROVE IInv'
  <2> DEFINE h == Head(queue)
  <2>1. /\ h \in Calls /\ h # c /\ h \notin granted /\ h \notin fired
        /\ pc[h] \in {"select", "giveup"}
    BY <1>9, <1>s DEF IInv, QueueHoldsWaiters, GrantsHonoured, Release, HandToNext
  <2>2. /\ IsInjective(queue') /\ queue' \in Seq(Calls)
        /\ \A d \in Calls : Waiting(d)' <=> Waiting(d) /\ d # h
    BY <1>9, TailOfInjective, HeadTailProperties
       DEF IInv, TypeOK, QueueHoldsWaiters, HandToNext, Waiting
  <2>3. TypeOK'
    BY <1>9, <2>1, <2>2 DEF IInv, TypeOK, Release, HandToNext
  <2>4. QueueHoldsWaiters' /\ GrantsHonoured'
    BY <1>9, <2>1, <2>2
       DEF IInv, TypeOK, QueueHoldsWaiters, GrantsHonoured, Release, HandToNext
  <2>5. \A d \in Calls : Owns(d)' <=> d = h
    BY <1>9, <2>1 DEF IInv, TypeOK, MutualExclusion, Release, HandToNext, Owns
  <2>6. busy /\ busy' = busy
    BY <1>9 DEF IInv, NoLostWakeup, HandToNext
  <2> QED
    BY <2>1, <2>3, <2>4, <2>5, <2>6
       DEF IInv, MutualExclusion, SlotAccounted, NoLostWakeup
<1>10. ASSUME NEW c \in Calls, Release(c), c \notin fired, FreeSlot PROVE IInv'
  <2>1. TypeOK'
    BY <1>10 DEF IInv, TypeOK, Release, FreeSlot
  <2>2. QueueHoldsWaiters' /\ GrantsHonoured'
    BY <1>10 DEF IInv, TypeOK, QueueHoldsWaiters, GrantsHonoured, Release, FreeSlot, Waiting
  <2>3. \A d \in Calls : ~Owns(d)'
    BY <1>10 DEF IInv, TypeOK, MutualExclusion, Release, FreeSlot, Owns
  <2> QED
    BY <1>10, <2>1, <2>2, <2>3
       DEF IInv, MutualExclusion, SlotAccounted, NoLostWakeup, FreeSlot
<1>11. CASE UNCHANGED vars
  BY <1>11 DEF IInv, TypeOK, MutualExclusion, SlotAccounted, QueueHoldsWaiters,
     GrantsHonoured, NoLostWakeup, Owns, Waiting, vars
<1> QED
  BY <1>1, <1>2, <1>3, <1>4, <1>5, <1>6, <1>7, <1>8, <1>9, <1>10, <1>11
     DEF Next, Acquire, Release

\* The invariant holds in every behaviour, for every set of calls.
THEOREM Invariant == Spec => []IInv
BY InitIInv, NextIInv, PTL DEF Spec

-----------------------------------------------------------------------------
\* What the runs check on a few calls, for every set of them.

\* The variables keep their types.
THEOREM TypeCorrect == Spec => []TypeOK
BY Invariant, PTL DEF IInv

\* No two calls own the slot of the gate.
THEOREM SlotExclusive == Spec => []MutualExclusion
BY Invariant, PTL DEF IInv

\* The slot is busy exactly while a call owns it: no race between a cancelled
\* context and a grant loses it.
THEOREM SlotNeverLost == Spec => []SlotAccounted
BY Invariant, PTL DEF IInv

\* The queue is the set of the calls that wait, grants are honoured, and while
\* a call waits the slot is taken, so that its release will hand it over.
THEOREM QueueSound == Spec => []QueueInvariant
BY Invariant, PTL DEF IInv, QueueInvariant

\* Only a release hands the slot to a call that waits, and to the first.
LEMMA NewOwner ==
  ASSUME IInv, [Next]_vars, NEW d \in Calls, ~Owns(d), Owns(d)'
  PROVE  queue = <<>> \/ d = Head(queue)
<1>1. ASSUME NEW c \in Calls, CtxDone(c) PROVE FALSE
  BY <1>1 DEF CtxDone, Owns
<1>2. ASSUME NEW c \in Calls, AcquireFast(c) PROVE queue = <<>>
  BY <1>2 DEF AcquireFast
<1>3. ASSUME NEW c \in Calls, Enqueue(c) PROVE FALSE
  BY <1>3 DEF Enqueue, Goto, IInv, TypeOK, GrantsHonoured, Owns
<1>4. ASSUME NEW c \in Calls, SelectGranted(c) PROVE FALSE
  BY <1>4 DEF SelectGranted, Goto, IInv, TypeOK, GrantsHonoured, Owns
<1>5. ASSUME NEW c \in Calls, SelectCtxDone(c) PROVE FALSE
  BY <1>5 DEF SelectCtxDone, Goto, IInv, TypeOK, Owns
<1>6. ASSUME NEW c \in Calls, GiveUpRemoved(c) PROVE FALSE
  BY <1>6 DEF GiveUpRemoved, Goto, IInv, TypeOK, Owns
<1>7. ASSUME NEW c \in Calls, GiveUpGranted(c) PROVE FALSE
  BY <1>7 DEF GiveUpGranted, Goto, IInv, TypeOK, QueueHoldsWaiters, Owns
<1>8. ASSUME NEW c \in Calls, Release(c) PROVE queue = <<>> \/ d = Head(queue)
  BY <1>8 DEF Release, HandToNext, FreeSlot, IInv, TypeOK, Owns
<1>9. CASE UNCHANGED vars
  BY <1>9 DEF vars, Owns
<1> QED
  BY <1>1, <1>2, <1>3, <1>4, <1>5, <1>6, <1>7, <1>8, <1>9 DEF Next, Acquire

\* Strict FIFO: no call gets the slot before one that waits ahead of it.
THEOREM StrictFIFO == Spec => NoOvertaking
<1>1. IInv /\ [Next]_vars =>
        [\A c, d \in Calls :
           c # d /\ Ahead(c, d) /\ ~Owns(d) /\ Owns(d)' => ~Waiting(c)']_vars
  <2> SUFFICES ASSUME IInv, [Next]_vars, NEW c \in Calls, NEW d \in Calls,
                      c # d, Ahead(c, d), ~Owns(d), Owns(d)'
               PROVE  FALSE
    OBVIOUS
  <2>1. queue = <<>> \/ d = Head(queue)
    BY NewOwner
  <2>2. /\ DOMAIN queue = 1 .. Len(queue) /\ Len(queue) \in Nat
        /\ queue # <<>> => Head(queue) = queue[1]
    BY LenProperties, HeadTailProperties DEF IInv, TypeOK
  <2>3. PICK i \in 1 .. Len(queue) : queue[i] = c /\ \A j \in 1 .. i - 1 : queue[j] # d
    BY <2>2 DEF Ahead
  <2>4. queue # <<>>
    BY <2>2, <2>3, EmptySeq DEF IInv, TypeOK
  <2>5. CASE i = 1
    BY <2>1, <2>2, <2>3, <2>4, <2>5
  <2>6. CASE i > 1
    <3>1. 1 \in 1 .. i - 1
      BY <2>6
    <3> QED
      BY <2>1, <2>2, <2>3, <2>4, <3>1
  <2> QED
    BY <2>3, <2>5, <2>6
<1> QED
  BY <1>1, Invariant, PTL DEF Spec, NoOvertaking

-----------------------------------------------------------------------------
\* Who is refused.

\* Only a call whose context is done gives up.
OnlyCancelledGiveUp == \A c \in Calls : pc[c] \in {"giveup", "failed"} => c \in ctxDone

\* Being busy is no reason to refuse, and "we must return success, not ctx.Err()"
\* (comment in Acquire) when the grant came first, in any interleaving.
THEOREM NoOtherRefusal == Spec => RefusesOnlyCancelled
<1>1. Init => OnlyCancelledGiveUp
  BY DEF Init, OnlyCancelledGiveUp
<1>2. IInv /\ OnlyCancelledGiveUp /\ [Next]_vars => OnlyCancelledGiveUp'
  BY DEF IInv, TypeOK, OnlyCancelledGiveUp, Next, Acquire, CtxDone, AcquireFast, Enqueue,
     SelectGranted, SelectCtxDone, GiveUpRemoved, GiveUpGranted, Release, Goto, vars
<1>3. IInv /\ OnlyCancelledGiveUp /\ [Next]_vars =>
        [\A c \in Calls :
           pc[c] # "failed" /\ pc'[c] = "failed" => c \in ctxDone /\ Waiting(c) /\ ~Owns(c)]_vars
  <2> SUFFICES ASSUME IInv, OnlyCancelledGiveUp, [Next]_vars, NEW c \in Calls,
                      pc[c] # "failed", pc'[c] = "failed"
               PROVE  c \in ctxDone /\ Waiting(c) /\ ~Owns(c)
    OBVIOUS
  <2>1. GiveUpRemoved(c)
    BY DEF IInv, TypeOK, Next, Acquire, CtxDone, AcquireFast, Enqueue, SelectGranted,
       SelectCtxDone, GiveUpRemoved, GiveUpGranted, Release, Goto, vars
  <2>2. Waiting(c) /\ pc[c] = "giveup"
    BY <2>1, LenProperties DEF GiveUpRemoved, Waiting, Contains, IInv, TypeOK
  <2> QED
    BY <2>2 DEF OnlyCancelledGiveUp, IInv, QueueHoldsWaiters, Owns
<1> QED
  BY <1>1, <1>2, <1>3, Invariant, PTL DEF Spec, RefusesOnlyCancelled

-----------------------------------------------------------------------------
\* SequenceGate implements CallGate.

\* A step of the gate is a step of the abstract gate or leaves it alone.
LEMMA Simulation ==
  IInv /\ IInv' /\ [Next]_vars => [Gate!Next]_([c \in Calls |-> StatusOf(c)])
<1> DEFINE S == [c \in Calls |-> StatusOf(c)]
<1> SUFFICES ASSUME IInv, IInv', [Next]_vars PROVE [Gate!Next]_S
  OBVIOUS
<1>a. \A d \in Calls : Owns(d) <=> S[d] = "inside"
  BY DEF StatusOf, Owns
<1>b. \A d \in Calls : d \in Gate!Inside <=> Owns(d)
  BY <1>a DEF Gate!Inside
<1>1. ASSUME NEW c \in Calls, CtxDone(c) PROVE S' = S
  BY <1>1 DEF CtxDone, StatusOf, Owns
<1>2. ASSUME NEW c \in Calls, AcquireFast(c) PROVE Gate!Admit(c)
  <2>1. S[c] = "idle" /\ Gate!Inside = {}
    BY <1>2, <1>b DEF AcquireFast, StatusOf, IInv, SlotAccounted, Gate!Inside
  <2>2. S' = [S EXCEPT ![c] = "inside"]
    BY <1>2 DEF AcquireFast, Goto, StatusOf, Owns, IInv, TypeOK, GrantsHonoured
  <2> QED
    BY <2>1, <2>2 DEF Gate!Admit, Gate!Move
<1>3. ASSUME NEW c \in Calls, Enqueue(c) PROVE Gate!Wait(c)
  <2>1. S[c] = "idle"
    BY <1>3 DEF Enqueue, StatusOf
  <2>2. S' = [S EXCEPT ![c] = "asking"]
    BY <1>3 DEF Enqueue, Goto, StatusOf, Owns, IInv, TypeOK, GrantsHonoured
  <2> QED
    BY <2>1, <2>2 DEF Gate!Wait, Gate!Move
<1>4. ASSUME NEW c \in Calls, SelectGranted(c) PROVE S' = S
  BY <1>4 DEF SelectGranted, Goto, StatusOf, Owns, IInv, TypeOK, GrantsHonoured
<1>5. ASSUME NEW c \in Calls, SelectCtxDone(c) PROVE S' = S
  BY <1>5 DEF SelectCtxDone, Goto, StatusOf, Owns, IInv, TypeOK
<1>6. ASSUME NEW c \in Calls, GiveUpRemoved(c) PROVE Gate!Refuse(c)
  <2>1. c \notin granted
    BY <1>6 DEF GiveUpRemoved, Waiting, Contains, IInv, TypeOK, QueueHoldsWaiters
  <2>2. S[c] = "asking"
    BY <1>6, <2>1 DEF GiveUpRemoved, StatusOf, Owns
  <2>3. S' = [S EXCEPT ![c] = "refused"]
    BY <1>6, <2>1 DEF GiveUpRemoved, Goto, StatusOf, Owns, IInv, TypeOK
  <2> QED
    BY <2>2, <2>3 DEF Gate!Refuse, Gate!Move
<1>7. ASSUME NEW c \in Calls, GiveUpGranted(c) PROVE S' = S
  BY <1>7 DEF GiveUpGranted, Goto, StatusOf, Owns, IInv, TypeOK, QueueHoldsWaiters,
              GrantsHonoured
<1>8. ASSUME NEW c \in Calls, Release(c), c \in fired PROVE S' = S
  BY <1>8 DEF Release, HandToNext, FreeSlot, StatusOf, Owns, IInv, TypeOK
<1>9. ASSUME NEW c \in Calls, Release(c), c \notin fired, HandToNext
      PROVE  \E d \in Calls : Gate!HandOver(c, d)
  <2> DEFINE h == Head(queue)
  <2>1. h \in Calls /\ Waiting(h)
    BY <1>9, HeadTailProperties, TailOfInjective
       DEF HandToNext, IInv, TypeOK, QueueHoldsWaiters, Waiting
  <2>2. pc[h] \in {"select", "giveup"} /\ h \notin granted /\ h # c
    BY <1>9, <2>1 DEF Release, IInv, QueueHoldsWaiters
  <2>3. S[c] = "inside" /\ S[h] = "asking"
    BY <1>9, <2>1, <2>2 DEF Release, StatusOf, Owns
  <2>4. S' = [S EXCEPT ![c] = "left", ![h] = "inside"]
    BY <1>9, <2>1, <2>2
       DEF Release, HandToNext, StatusOf, Owns, IInv, TypeOK
  <2> QED
    BY <2>1, <2>3, <2>4 DEF Gate!HandOver
<1>10. ASSUME NEW c \in Calls, Release(c), c \notin fired, FreeSlot PROVE Gate!Leave(c)
  <2>1. S[c] = "inside"
    BY <1>10 DEF Release, StatusOf, Owns
  <2>2. S' = [S EXCEPT ![c] = "left"]
    BY <1>10 DEF Release, FreeSlot, StatusOf, Owns, IInv, TypeOK
  <2> QED
    BY <2>1, <2>2 DEF Gate!Leave, Gate!Move
<1>11. CASE UNCHANGED vars
  BY <1>11 DEF vars, StatusOf, Owns
<1> QED
  BY <1>1, <1>2, <1>3, <1>4, <1>5, <1>6, <1>7, <1>8, <1>9, <1>10, <1>11
     DEF Next, Acquire, Release, Gate!Next

\* The queue, the mutex and the hand-over together are a call gate: at most one
\* call is inside, whatever the interleaving of grants and cancellations.
THEOREM Refinement == Spec => ImplementsCallGate
<1>1. Init => Gate!Init
  BY DEF Init, Gate!Init, StatusOf
<1> QED
  BY <1>1, Simulation, Invariant, PTL DEF Spec, ImplementsCallGate, Gate!Spec

=============================================================================
