----------------------------- MODULE StreamQueue -----------------------------
(***************************************************************************)
(* ByteBoundedQueue, RetainedByteBudget and ReservedChunkBuffer of         *)
(* uni_api/streaming/bounded_queue.py.  Every stream has a queue with one  *)
(* producer and one consumer, and buffers of chunks not yet queued; all of *)
(* them charge one budget, which charges the memory governor in its turn.  *)
(*                                                                         *)
(* The sections under a condition's lock contain no await except its       *)
(* wait, so each is one step.  notify_all makes sleepers awake; an awake   *)
(* task looks at its predicate again in a step of its own, and may find    *)
(* that another was faster.  Every release of a lease is a task: its bytes *)
(* stay charged until that task has run.                                   *)
(***************************************************************************)
EXTENDS Integers, Sequences, FiniteSets, Functions

CONSTANTS Streams,
          Buffers,    \* the names of a stream's ReservedChunkBuffers
          Sizes,      \* chunk sizes that pass the size checks of put and reserve
          Capacity,   \* capacity_bytes of the budget
          MaxItems,   \* max_items of a queue
          MaxBytes,   \* max_bytes of a queue
          MaxBuffer   \* max_items of a buffer

ASSUME StreamAssumption ==
    /\ IsFiniteSet(Streams) /\ Streams # {} /\ IsFiniteSet(Buffers)
    /\ Capacity \in Nat \ {0} /\ MaxItems \in Nat \ {0} /\ MaxBytes \in Nat \ {0}
    /\ MaxBuffer \in Nat \ {0}
    /\ \A n \in Sizes : n \in Nat /\ n <= MaxBytes /\ n <= Capacity

VARIABLES budget,   \* used: _used_bytes; parent: what the governor has charged
          q,        \* the queues
          buf,      \* the buffers: the sizes of their chunks
          drop,     \* leases whose release tasks a stream has started
          put,      \* the producers
          get       \* the consumers

queueVars == <<budget, q, buf, drop, put, get>>

\* Of a producer: to is where the reserved chunk goes, why how the last put or
\* append ended.
Idle == [ph |-> "idle", n |-> 0, to |-> "queue", why |-> "none"]

QueueInit ==
    /\ budget = [used |-> 0, parent |-> 0]
    /\ q = [s \in Streams |-> [items |-> <<>>, bytes |-> 0, out |-> 0,
                               outBytes |-> 0, closed |-> FALSE]]
    /\ buf = [s \in Streams |-> [b \in Buffers |-> <<>>]]
    /\ drop = [s \in Streams |-> <<>>]
    /\ put = [s \in Streams |-> Idle]
    /\ get = [s \in Streams |-> [ph |-> "idle", n |-> 0]]

-----------------------------------------------------------------------------
(* RetainedByteBudget *)

\* notify_all of the budget's condition, on the producers p.
BudgetNotified(p) ==
    [s \in Streams |-> IF p[s].ph = "budget asleep"
                       THEN [p[s] EXCEPT !.ph = "budget awake"] ELSE p[s]]

BudgetFits(n) == budget.used + n <= Capacity

\* wait_and_reserve_local, from the call on or after a wake-up.
TakeBudget(s, p) ==
    \/ /\ BudgetFits(p.n)
       /\ budget' = [budget EXCEPT !.used = @ + p.n]
       /\ put' = [put EXCEPT ![s] = [p EXCEPT !.ph = "parent"]]
    \/ /\ ~BudgetFits(p.n)
       /\ put' = [put EXCEPT ![s] = [p EXCEPT !.ph = "budget asleep"]]
       /\ UNCHANGED budget

\* put without a lease, or append to a buffer: reserve comes first.
ReserveChunk(s, n, to) ==
    /\ put[s].ph = "idle"
    /\ to # "queue" => Len(buf[s][to]) < MaxBuffer
    /\ TakeBudget(s, [Idle EXCEPT !.n = n, !.to = to])
    /\ UNCHANGED <<q, buf, drop, get>>

BudgetRetry(s) ==
    /\ put[s].ph = "budget awake"
    /\ TakeBudget(s, put[s])
    /\ UNCHANGED <<q, buf, drop, get>>

\* The governor grants the bytes; the producer has not resumed yet.
ParentGrants(s) ==
    /\ put[s].ph = "parent"
    /\ budget' = [budget EXCEPT !.parent = @ + put[s].n]
    /\ put' = [put EXCEPT ![s].ph = "parent held"]
    /\ UNCHANGED <<q, buf, drop, get>>

\* The governor refuses, or the producer is stopped: _reserve_adaptive_parent_
\* safely returns a grant that came too late, and reserve rolls back its own.
RollBack(s, why) ==
    LET p == put[s]
    IN  /\ p.ph \in {"parent", "parent held"}
        /\ budget' = [used   |-> budget.used - p.n,
                      parent |-> budget.parent - IF p.ph = "parent held" THEN p.n ELSE 0]
        /\ put' = BudgetNotified([put EXCEPT ![s] = [Idle EXCEPT !.why = why]])

\* _release: the budget and then, in the same turn, the governor.
Returned(n) == [used |-> budget.used - n, parent |-> budget.parent - n]

-----------------------------------------------------------------------------
(* ByteBoundedQueue: the producer *)

CanPut(s, n) ==
    Len(q[s].items) + q[s].out < MaxItems /\ q[s].bytes + n <= MaxBytes

\* notify_all of a queue's condition: its consumer, and its producer.
GetNotified(s) ==
    IF get[s].ph = "asleep" THEN [get EXCEPT ![s].ph = "awake"] ELSE get

PutNotified(s, p) ==
    IF p[s].ph = "queue asleep" THEN [p EXCEPT ![s].ph = "queue awake"] ELSE p

\* wait_and_put of the producer p, which holds a lease.
EnterQueue(s, p) ==
    \/ /\ q[s].closed
       /\ put' = [put EXCEPT ![s] = [p EXCEPT !.ph = "failing", !.why = "closed"]]
       /\ UNCHANGED <<q, get>>
    \/ /\ ~q[s].closed /\ CanPut(s, p.n)
       /\ q' = [q EXCEPT ![s].items = Append(@, p.n), ![s].bytes = @ + p.n]
       /\ put' = [put EXCEPT ![s] = Idle]
       /\ get' = GetNotified(s)
    \/ /\ ~q[s].closed /\ ~CanPut(s, p.n)
       /\ put' = [put EXCEPT ![s] = [p EXCEPT !.ph = "queue asleep"]]
       /\ UNCHANGED <<q, get>>

\* reserve returns its lease: the chunk enters the queue or its buffer.
LeaseTaken(s) ==
    /\ put[s].ph = "parent held"
    /\ \/ /\ put[s].to = "queue"
          /\ EnterQueue(s, put[s])
          /\ UNCHANGED <<budget, buf, drop>>
       \/ /\ put[s].to # "queue"
          /\ buf' = [buf EXCEPT ![s][put[s].to] = Append(@, put[s].n)]
          /\ put' = [put EXCEPT ![s] = Idle]
          /\ UNCHANGED <<budget, q, drop, get>>

\* popleft and put: the chunk takes its lease along.
PutBuffered(s, b) ==
    /\ put[s].ph = "idle"
    /\ buf[s][b] # <<>>
    /\ buf' = [buf EXCEPT ![s][b] = Tail(@)]
    /\ EnterQueue(s, [Idle EXCEPT !.n = Head(buf[s][b])])
    /\ UNCHANGED <<budget, drop>>

QueueRetry(s) ==
    /\ put[s].ph = "queue awake"
    /\ EnterQueue(s, put[s])
    /\ UNCHANGED <<budget, buf, drop>>

Waiting == {"budget asleep", "budget awake", "parent", "parent held",
            "queue asleep", "queue awake"}

\* A time-out, or the cancellation of the producer, ends the wait.
StopPut(s, why) ==
    /\ \/ /\ put[s].ph \in {"budget asleep", "budget awake"}
          /\ put' = [put EXCEPT ![s] = [Idle EXCEPT !.why = why]]
          /\ UNCHANGED budget
       \/ RollBack(s, why)
       \/ /\ put[s].ph \in {"queue asleep", "queue awake"}
          /\ put' = [put EXCEPT ![s].ph = "failing", ![s].why = why]
          /\ UNCHANGED budget
    /\ UNCHANGED <<q, buf, drop, get>>

\* The lease of a put that failed is returned before the error is raised.
PutFailed(s) ==
    /\ put[s].ph = "failing"
    /\ budget' = Returned(put[s].n)
    /\ put' = BudgetNotified([put EXCEPT ![s] = [Idle EXCEPT !.why = put[s].why]])
    /\ UNCHANGED <<q, buf, drop, get>>

-----------------------------------------------------------------------------
(* The consumer *)

Take(s) ==
    \/ /\ q[s].items # <<>>
       /\ q' = [q EXCEPT ![s].items = Tail(@), ![s].out = @ + 1,
                         ![s].outBytes = @ + Head(q[s].items)]
       /\ get' = [get EXCEPT ![s] = [ph |-> "holding", n |-> Head(q[s].items)]]
    \/ /\ q[s].items = <<>> /\ q[s].closed
       /\ get' = [get EXCEPT ![s].ph = "ended"]
       /\ UNCHANGED q
    \/ /\ q[s].items = <<>> /\ ~q[s].closed
       /\ get' = [get EXCEPT ![s].ph = "asleep"]
       /\ UNCHANGED q

\* get_lease
GetLease(s) ==
    /\ get[s].ph = "idle"
    /\ Take(s)
    /\ UNCHANGED <<budget, buf, drop, put>>

GetRetry(s) ==
    /\ get[s].ph = "awake"
    /\ Take(s)
    /\ UNCHANGED <<budget, buf, drop, put>>

GetCancelled(s) ==
    /\ get[s].ph \in {"asleep", "awake"}
    /\ get' = [get EXCEPT ![s].ph = "idle"]
    /\ UNCHANGED <<budget, q, buf, drop, put>>

\* _release_inflight: the item's place is free, its lease is still charged.
ReleaseInflight(s) ==
    /\ get[s].ph = "holding"
    /\ q' = [q EXCEPT ![s].out = @ - 1, ![s].outBytes = @ - get[s].n,
                      ![s].bytes = @ - get[s].n]
    /\ put' = PutNotified(s, put)
    /\ get' = [get EXCEPT ![s].ph = "settling"]
    /\ UNCHANGED <<budget, buf, drop>>

ItemSettled(s) ==
    /\ get[s].ph = "settling"
    /\ budget' = Returned(get[s].n)
    /\ put' = BudgetNotified(put)
    /\ get' = [get EXCEPT ![s] = [ph |-> "idle", n |-> 0]]
    /\ UNCHANGED <<q, buf, drop>>

-----------------------------------------------------------------------------
(* close, clear and the release tasks they start *)

\* Mutant of Close: a producer waiting for room is not told.
Close_TellsConsumer(s, discard) ==
    /\ q' = [q EXCEPT ![s].closed = TRUE,
                      ![s].items = IF discard THEN <<>> ELSE @,
                      ![s].bytes = IF discard THEN q[s].outBytes ELSE @]
    /\ drop' = [drop EXCEPT ![s] = IF discard THEN @ \o q[s].items ELSE @]
    /\ get' = GetNotified(s)
    /\ UNCHANGED <<budget, buf, put>>

Close(s, discard) ==
    /\ q' = [q EXCEPT ![s].closed = TRUE,
                      ![s].items = IF discard THEN <<>> ELSE @,
                      ![s].bytes = IF discard THEN q[s].outBytes ELSE @]
    /\ drop' = [drop EXCEPT ![s] = IF discard THEN @ \o q[s].items ELSE @]
    /\ put' = PutNotified(s, put)
    /\ get' = GetNotified(s)
    /\ UNCHANGED <<budget, buf>>

\* clear of a buffer
Clear(s, b) ==
    /\ buf' = [buf EXCEPT ![s][b] = <<>>]
    /\ drop' = [drop EXCEPT ![s] = @ \o buf[s][b]]
    /\ UNCHANGED <<budget, q, put, get>>

DropReturned(s) ==
    /\ drop[s] # <<>>
    /\ budget' = Returned(Head(drop[s]))
    /\ put' = BudgetNotified(put)
    /\ drop' = [drop EXCEPT ![s] = Tail(@)]
    /\ UNCHANGED <<q, buf, get>>

-----------------------------------------------------------------------------
\* The steps that end what a producer, a consumer or a release has begun.
Settling(s) ==
    \/ BudgetRetry(s)
    \/ ParentGrants(s)
    \/ LeaseTaken(s)
    \/ QueueRetry(s)
    \/ PutFailed(s)
    \/ GetRetry(s)
    \/ ItemSettled(s)
    \/ DropReturned(s)

QueueNext ==
    \E s \in Streams :
        \/ Settling(s)
        \/ \E n \in Sizes, to \in Buffers \cup {"queue"} : ReserveChunk(s, n, to)
        \/ \E b \in Buffers : PutBuffered(s, b) \/ Clear(s, b)
        \/ \E why \in {"timeout", "cancel"} : StopPut(s, why)
        \/ GetLease(s)
        \/ GetCancelled(s)
        \/ ReleaseInflight(s)
        \/ \E discard \in BOOLEAN : Close(s, discard)

QueueSpec == QueueInit /\ [][QueueNext]_queueVars

-----------------------------------------------------------------------------
\* The shape of the state; no count goes below zero, which is where _release and
\* _release_inflight raise their underflow errors.
QueueTypeOK ==
    /\ budget \in [used : Nat, parent : Nat]
    /\ q \in [Streams -> [items : Seq(Sizes), bytes : Nat, out : 0..1,
                          outBytes : Nat, closed : BOOLEAN]]
    /\ buf \in [Streams -> [Buffers -> Seq(Sizes)]]
    /\ drop \in [Streams -> Seq(Sizes)]
    /\ put \in [Streams -> [ph : Waiting \cup {"idle", "failing"}, n : Sizes \cup {0},
                            to : Buffers \cup {"queue"},
                            why : {"none", "timeout", "cancel", "closed"}]]
    /\ get \in [Streams -> [ph : {"idle", "asleep", "awake", "holding", "settling",
                                  "ended"},
                            n : Sizes \cup {0}]]

Total(seq) == SumFunctionOnSet(seq, DOMAIN seq)

\* What stream s has charged to the budget, apart from a put in progress.
Leased(s) ==
    Total(q[s].items) + Total(drop[s]) + get[s].n
        + SumFunctionOnSet([b \in Buffers |-> Total(buf[s][b])], Buffers)

PutBytes(s, phases) == IF put[s].ph \in phases THEN put[s].n ELSE 0

Holding == {"parent held", "queue asleep", "queue awake", "failing"}

\* Every byte charged to the budget belongs to a chunk that is queued, sent,
\* buffered, being put or being released, and the governor is charged with the
\* same bytes, whatever is stopped or cancelled at whatever moment.
BudgetExact ==
    /\ budget.used = SumFunctionOnSet(
           [s \in Streams |-> Leased(s) + PutBytes(s, Holding \cup {"parent"})], Streams)
    /\ budget.parent = SumFunctionOnSet(
           [s \in Streams |-> Leased(s) + PutBytes(s, Holding)], Streams)

\* The limits hold with the items being sent counted, and a queue's own byte
\* count is the sum of its items.
QueueBounded ==
    /\ budget.used <= Capacity
    /\ \A s \in Streams :
          /\ Len(q[s].items) + q[s].out <= MaxItems
          /\ q[s].bytes <= MaxBytes
          /\ q[s].bytes = Total(q[s].items) + q[s].outBytes

\* Nobody sleeps beside what it waits for: room in the budget, room in the
\* queue, an item, or the end of a closed queue.
NoSleeperForgotten ==
    \A s \in Streams :
        /\ put[s].ph = "budget asleep" => ~BudgetFits(put[s].n)
        /\ put[s].ph = "queue asleep" => ~q[s].closed /\ ~CanPut(s, put[s].n)
        /\ get[s].ph = "asleep" => q[s].items = <<>> /\ ~q[s].closed

\* The queue is sound (streaming/bounded_queue.py): its bytes are the bytes of its items and
\* of the reservations on their way in and out, within both bounds, and nobody sleeps beside
\* what it waits for, whichever put, get or close is cancelled between its two locks.
QueueExact == BudgetExact /\ QueueBounded /\ NoSleeperForgotten
==============================================================================
