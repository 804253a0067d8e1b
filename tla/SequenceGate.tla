---------------------------- MODULE SequenceGate ----------------------------
(***************************************************************************)
(* The "sequence" call gate of pkg/callgate/callgate_sequence.go: one slot *)
(* and a FIFO queue of waiters, both guarded by a mutex.                   *)
(*                                                                         *)
(* Each element of Calls is one call of Acquire, with a context of its own *)
(* and, if it succeeds, a release function of its own.  An action is the   *)
(* code between two points where another goroutine may run: a section      *)
(* under the mutex (Acquire's first section, the section that removes a    *)
(* cancelled waiter, the body of the release function) or a choice of the  *)
(* select statement.  Between "the select chose ctx.Done()" and "the mutex *)
(* is held again" the slot can be handed to the very call that gives up.   *)
(***************************************************************************)
EXTENDS Naturals, SequencesExt

CONSTANT Calls

VARIABLES
  busy,     \* cg.busy: the slot is taken
  queue,    \* cg.queue: the waiters, first come first
  granted,  \* the calls whose waiter channel has been closed
  ctxDone,  \* the calls whose context is done
  pc,       \* where each call of Acquire stands
  fired     \* the calls whose release function has run its sync.Once

vars == <<busy, queue, granted, ctxDone, pc, fired>>

\* "select": blocked in the select statement; "giveup": the select chose
\* ctx.Done() and the mutex is not held yet; "acquired": Acquire returned a
\* release function; "failed": it returned the error of the context.
Pc == {"idle", "select", "giveup", "acquired", "failed"}

Waiting(c) == Contains(queue, c)

\* The call owns the slot: its release function can still run, or its channel
\* was closed and Acquire has yet to return.
Owns(c) ==
  \/ pc[c] = "acquired" /\ c \notin fired
  \/ pc[c] \in {"select", "giveup"} /\ c \in granted

-----------------------------------------------------------------------------

Init ==
  /\ busy = FALSE
  /\ queue = <<>>
  /\ granted = {}
  /\ ctxDone = {}
  /\ pc = [c \in Calls |-> "idle"]
  /\ fired = {}

Goto(c, l) == pc' = [pc EXCEPT ![c] = l]

\* The caller's context ends: a client gone, a timeout, a shutdown.  It may
\* do so at any time, before Acquire is called as well.
CtxDone(c) ==
  /\ c \notin ctxDone
  /\ ctxDone' = ctxDone \cup {c}
  /\ UNCHANGED <<busy, queue, granted, pc, fired>>

\* Acquire, fast path.
AcquireFast(c) ==
  /\ pc[c] = "idle"
  /\ ~busy /\ queue = <<>>
  /\ busy' = TRUE
  /\ Goto(c, "acquired")
  /\ UNCHANGED <<queue, granted, ctxDone, fired>>

\* Acquire, otherwise: join the queue and block in the select.
Enqueue(c) ==
  /\ pc[c] = "idle"
  /\ busy \/ queue # <<>>
  /\ queue' = Append(queue, c)
  /\ Goto(c, "select")
  /\ UNCHANGED <<busy, granted, ctxDone, fired>>

\* The select takes a ready case; with both ready it may take either.
SelectGranted(c) ==
  /\ pc[c] = "select"
  /\ c \in granted
  /\ Goto(c, "acquired")
  /\ UNCHANGED <<busy, queue, granted, ctxDone, fired>>

SelectCtxDone(c) ==
  /\ pc[c] = "select"
  /\ c \in ctxDone
  /\ Goto(c, "giveup")
  /\ UNCHANGED <<busy, queue, granted, ctxDone, fired>>

\* Mutant: the waiter stays in the queue.
GiveUpLeavesWaiter(c) ==
  /\ pc[c] = "giveup"
  /\ Waiting(c)
  /\ Goto(c, "failed")
  /\ UNCHANGED <<busy, queue, granted, ctxDone, fired>>

\* Mutant: Acquire returns neither a release function nor an error.
GiveUpReturnsNothing(c) ==
  /\ pc[c] = "giveup"
  /\ \E i \in DOMAIN queue :
       /\ queue[i] = c
       /\ queue' = RemoveAt(queue, i)
  /\ Goto(c, "nothing")
  /\ UNCHANGED <<busy, granted, ctxDone, fired>>

\* removeWaiterLocked found the waiter: Acquire returns the context's error.
GiveUpRemoved(c) ==
  /\ pc[c] = "giveup"
  /\ \E i \in DOMAIN queue :
       /\ queue[i] = c
       /\ queue' = RemoveAt(queue, i)
  /\ Goto(c, "failed")
  /\ UNCHANGED <<busy, granted, ctxDone, fired>>

\* Mutant: the call that lost the race returns the error and drops the slot.
GiveUpGrantedDropsSlot(c) ==
  /\ pc[c] = "giveup"
  /\ ~Waiting(c)
  /\ Goto(c, "failed")
  /\ UNCHANGED <<busy, queue, granted, ctxDone, fired>>

\* removeWaiterLocked did not find it: the slot was handed over meanwhile, and
\* Acquire returns success although its context is done.
GiveUpGranted(c) ==
  /\ pc[c] = "giveup"
  /\ ~Waiting(c)
  /\ Goto(c, "acquired")
  /\ UNCHANGED <<busy, queue, granted, ctxDone, fired>>

\* Mutant: the last waiter is served first.
HandToLast ==
  /\ queue # <<>>
  /\ granted' = granted \cup {queue[Len(queue)]}
  /\ queue' = SubSeq(queue, 1, Len(queue) - 1)
  /\ UNCHANGED busy

\* Release with waiters: pop the first and close its channel; busy stays TRUE.
HandToNext ==
  /\ queue # <<>>
  /\ granted' = granted \cup {Head(queue)}
  /\ queue' = Tail(queue)
  /\ UNCHANGED busy

FreeSlot ==
  /\ queue = <<>>
  /\ busy' = FALSE
  /\ UNCHANGED <<queue, granted>>

\* Mutant: the release function without its sync.Once.
ReleaseEveryTime(c) ==
  /\ pc[c] = "acquired"
  /\ fired' = fired \cup {c}
  /\ HandToNext \/ FreeSlot
  /\ UNCHANGED <<ctxDone, pc>>

\* The release function.  The caller may call it again; only the first call
\* gets past the sync.Once.
Release(c) ==
  /\ pc[c] = "acquired"
  /\ fired' = fired \cup {c}
  /\ \/ c \in fired /\ UNCHANGED <<busy, queue, granted>>
     \/ c \notin fired /\ (HandToNext \/ FreeSlot)
  /\ UNCHANGED <<ctxDone, pc>>

Acquire(c) ==
  \/ AcquireFast(c)
  \/ Enqueue(c)
  \/ SelectGranted(c)
  \/ SelectCtxDone(c)
  \/ GiveUpRemoved(c)
  \/ GiveUpGranted(c)

Next == \E c \in Calls : CtxDone(c) \/ Acquire(c) \/ Release(c)

Spec == Init /\ [][Next]_vars

\* Goroutines blocked in Acquire are scheduled, and callers do what the
\* interface demands of them: they call release when the work is done.  A call
\* need not be made, and a context need not end.
Fairness ==
  \A c \in Calls :
    /\ WF_vars(SelectGranted(c) \/ SelectCtxDone(c))
    /\ WF_vars(GiveUpRemoved(c) \/ GiveUpGranted(c))
    /\ WF_vars(Release(c))

FairSpec == Spec /\ Fairness

-----------------------------------------------------------------------------
\* Properties

TypeOK ==
  /\ busy \in BOOLEAN
  /\ queue \in Seq(Calls)
  /\ granted \subseteq Calls
  /\ ctxDone \subseteq Calls
  /\ pc \in [Calls -> Pc]
  /\ fired \subseteq Calls

\* No two calls own the slot, not even while one of them is between the grant
\* and its return from Acquire, and whichever release functions run twice.
MutualExclusion == \A c, d \in Calls : Owns(c) /\ Owns(d) => c = d

\* The slot is never lost and never invented: it is marked busy exactly while
\* some call owns it.  Losing the race between cancellation and grant must not
\* leave it busy for ever.
SlotAccounted == busy <=> \E c \in Calls : Owns(c)

\* The queue holds, once each, exactly the calls that block in Acquire without
\* the slot: no waiter is forgotten, and none that gave up is granted later.
QueueHoldsWaiters ==
  /\ IsInjective(queue)
  /\ \A c \in Calls :
       Waiting(c) <=> pc[c] \in {"select", "giveup"} /\ c \notin granted

\* Grants and releases are part of a call's own history: a call whose channel
\* was closed is still inside Acquire or returned with success, and a release
\* function ran only if Acquire returned one.
GrantsHonoured ==
  /\ \A c \in granted : pc[c] \in {"select", "giveup", "acquired"}
  /\ \A c \in fired : pc[c] = "acquired"

\* Nobody waits for a free slot: a release cannot be missed by a call that is
\* joining the queue.
NoLostWakeup == queue # <<>> => busy

\* The three together: whoever waits will be found by the next release, and
\* nobody else will.
QueueInvariant == QueueHoldsWaiters /\ GrantsHonoured /\ NoLostWakeup

\* Strict FIFO: while c waits, no call that joined after it, or has not joined
\* yet, gets the slot ("Waiters are served in strict FIFO order").
Ahead(c, d) ==
  \E i \in DOMAIN queue : queue[i] = c /\ \A j \in 1 .. i - 1 : queue[j] # d

NoOvertaking ==
  [][\A c, d \in Calls :
       c # d /\ Ahead(c, d) /\ ~Owns(d) /\ Owns(d)' => ~Waiting(c)']_vars

\* The gate refuses a call only when its context is done, and only while it waits: a
\* call that owns the slot, even one that has not been told so yet, is not refused
\* any more ("we must return success, not ctx.Err()", comment in Acquire).
RefusesOnlyCancelled ==
  [][\A c \in Calls :
       pc[c] # "failed" /\ pc'[c] = "failed" => c \in ctxDone /\ Waiting(c) /\ ~Owns(c)]_vars

\* Every call that blocks in Acquire returns, as long as callers release.
WaitersReturn ==
  \A c \in Calls : pc[c] = "select" ~> pc[c] \in {"acquired", "failed"}

-----------------------------------------------------------------------------
\* The gate does what the interface promises.

StatusOf(c) ==
  IF pc[c] = "idle" THEN "idle"
  ELSE IF pc[c] = "failed" THEN "refused"
  ELSE IF Owns(c) THEN "inside"
  ELSE IF pc[c] = "acquired" THEN "left"
  ELSE "asking"

Gate == INSTANCE CallGate WITH status <- [c \in Calls |-> StatusOf(c)]

\* Every step of the gate is a step of the abstract gate, or changes nothing
\* its callers can see.
ImplementsCallGate == Gate!Spec

=============================================================================
