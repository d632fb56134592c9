------------------------------ MODULE WaitQueue ------------------------------
(***************************************************************************)
(* _FairBodyMemoryWaitQueue of uni_api/admission/core.py: the queue in     *)
(* which requests wait for body memory.  There are two lanes (small and    *)
(* large bodies); in each lane one waiter at a time has the turn to retry  *)
(* its reservation, and the turns go round the tenants.                    *)
(*                                                                         *)
(* The queue is a record and every method an operator on it, so that the   *)
(* code that uses the queue (RequestMemory) can call several of them in    *)
(* one step, as the event loop does: none of the methods awaits, except    *)
(* wait_turn, which enqueues and then waits for its future.                *)
(***************************************************************************)
EXTENDS Integers, Sequences, FiniteSets, FiniteSetsExt, SequencesExt

CONSTANTS Requests,     \* the tasks that may wait
          Tenants,      \* fairness keys
          TenantOf,     \* the fairness key of each task
          QueueLimit,   \* limit (body_memory_waiter_limit)
          MaxRotation   \* bound on the length of a rotation, for TLC

ASSUME QueueAssumption == /\ IsFiniteSet(Requests)
                          /\ TenantOf \in [Requests -> Tenants]
                          /\ QueueLimit \in Nat

VARIABLE wq   \* _body_memory_wait_queue

\* The lane of a waiter: TRUE for small bodies, as in the code.
Lanes == BOOLEAN

-----------------------------------------------------------------------------
\* __init__.  A tenant without a deque is a tenant with an empty one here: the
\* code never leaves an empty deque in the dictionary.
EmptyQueue ==
    [queues  |-> [l \in Lanes |-> [t \in Tenants |-> <<>>]],
     rr      |-> [l \in Lanes |-> <<>>],
     turn    |-> [l \in Lanes |-> FALSE],
     enabled |-> [l \in Lanes |-> TRUE],
     wstate  |-> [w \in Requests |-> "none"],
     lane    |-> [w \in Requests |-> TRUE],
     count   |-> 0]

WaitersOf(q, l) == UNION {Range(q.queues[l][t]) : t \in Tenants}

\* has_waiters: somebody has the turn or waits for it.
HasWaiters(q, l) == q.turn[l] \/ WaitersOf(q, l) # {}

\* Mutant of GiveTurn: a tenant with more waiters loses its place.
GiveTurn_DropsTenant(q, l, k) ==
    LET t == q.rr[l][k]
    IN  [q EXCEPT !.rr[l] = SubSeq(@, k + 1, Len(@)),
                  !.queues[l][t] = Tail(@),
                  !.count = @ - 1,
                  !.turn[l] = TRUE,
                  !.wstate[Head(q.queues[l][t])] = "granted"]

(***************************************************************************)
(* _promote: give the turn to the first waiter of the first tenant of the  *)
(* rotation that has one; tenants in front of it whose waiters have all    *)
(* left are dropped.  The test that skips a popped waiter which is not     *)
(* queued any more is not repeated: QueueIsExact shows it never is.        *)
(***************************************************************************)
GiveTurn(q, l, k) ==
    LET t    == q.rr[l][k]
        w    == Head(q.queues[l][t])
        rest == Tail(q.queues[l][t])
        back == IF rest = <<>> THEN <<>> ELSE <<t>>
    IN  [q EXCEPT !.rr[l] = SubSeq(@, k + 1, Len(@)) \o back,
                  !.queues[l][t] = rest,
                  !.count = @ - 1,
                  !.turn[l] = TRUE,
                  !.wstate[w] = "granted"]

Promote(q, l) ==
    LET live == {k \in 1..Len(q.rr[l]) : q.queues[l][q.rr[l][k]] # <<>>}
    IN  IF q.turn[l] \/ ~q.enabled[l] THEN q
        ELSE IF live = {} THEN [q EXCEPT !.rr[l] = <<>>]
        ELSE GiveTurn(q, l, Min(live))

\* wait_turn up to its await.  The caller has checked CanWait.
CanWait(q) == q.count < QueueLimit

Enqueued(q, w, l) ==
    LET t == TenantOf[w]
    IN  [q EXCEPT !.rr[l] = IF q.queues[l][t] = <<>> THEN Append(@, t) ELSE @,
                  !.queues[l][t] = Append(@, w),
                  !.count = @ + 1,
                  !.wstate[w] = "queued",
                  !.lane[w] = l]

WaitTurn(q, w, l) == Promote(Enqueued(q, w, l), l)

\* finish_turn
FinishTurn(q, l) == Promote([q EXCEPT !.turn[l] = FALSE], l)

\* block_until_release
BlockUntilRelease(q, l) == [q EXCEPT !.enabled[l] = FALSE]

\* Mutant of NotifyMemoryReleased: the lanes stay stopped.
NotifyMemoryReleased_StaysBlocked(q) == Promote(Promote(q, TRUE), FALSE)

\* notify_memory_released: both lanes, the small one first.
NotifyMemoryReleased(q) ==
    LET small == Promote([q EXCEPT !.enabled[TRUE] = TRUE], TRUE)
    IN  Promote([small EXCEPT !.enabled[FALSE] = TRUE], FALSE)

\* The waiter object is dropped: its owner gave up, or goes on with the turn.
WaiterDropped(q, w) == [q EXCEPT !.wstate[w] = "none", !.lane[w] = TRUE]

\* _remove, after a timeout or a cancellation of the wait.  A waiter that got
\* the turn meanwhile passes it on; a queued one leaves its tenant's deque, and
\* the tenant keeps its place in the rotation.
RemoveWaiter(q, w) ==
    LET l    == q.lane[w]
        gone == WaiterDropped(q, w)
    IN  IF q.wstate[w] = "granted"
        THEN FinishTurn(gone, l)
        ELSE [gone EXCEPT !.queues[l][TenantOf[w]] = RemoveFirst(@, w),
                          !.count = @ - 1]
==============================================================================
