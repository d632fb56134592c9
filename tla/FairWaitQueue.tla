---------------------------- MODULE FairWaitQueue ----------------------------
(***************************************************************************)
(* The body-memory wait queue on its own, with tasks that use it as        *)
(* _reserve_body_owner does: wait for the turn, perhaps give up, use the   *)
(* turn, finish it.  RequestMemory uses the same operators from inside the *)
(* admission controller.                                                   *)
(***************************************************************************)
EXTENDS WaitQueue

VARIABLE at   \* where each task stands, and the lane it asked for

queueVars == <<wq, at>>

Out == [ph |-> "out", lane |-> TRUE]

QueueInit ==
    /\ wq = EmptyQueue
    /\ at = [w \in Requests |-> Out]

\* wait_turn.  With the queue at its limit the task leaves at once.
Arrive(w, l) ==
    /\ at[w].ph = "out"
    /\ CanWait(wq)
    /\ Len(wq.rr[l]) < MaxRotation
    /\ wq' = WaitTurn(wq, w, l)
    /\ at' = [at EXCEPT ![w] = [ph |-> "waiting", lane |-> l]]

\* The task resumes with the turn.
TakeTurn(w) ==
    /\ at[w].ph = "waiting"
    /\ wq.wstate[w] = "granted"
    /\ wq' = WaiterDropped(wq, w)
    /\ at' = [at EXCEPT ![w].ph = "turn"]

\* The wait times out or is cancelled, perhaps after the turn was granted.
GiveUp(w) ==
    /\ at[w].ph = "waiting"
    /\ wq' = RemoveWaiter(wq, w)
    /\ at' = [at EXCEPT ![w] = Out]

\* The reservation is over, or has to be tried again.
EndTurn(w) ==
    /\ at[w].ph = "turn"
    /\ wq' = FinishTurn(wq, at[w].lane)
    /\ at' = [at EXCEPT ![w] = Out]

\* A reservation of the lane does not fit in the budget.
Block(l) == /\ wq' = BlockUntilRelease(wq, l)
            /\ UNCHANGED at

\* Some request returns memory.
MemoryReleased == /\ wq' = NotifyMemoryReleased(wq)
                  /\ UNCHANGED at

QueueNext ==
    \/ \E w \in Requests : \/ \E l \in Lanes : Arrive(w, l)
                           \/ TakeTurn(w)
                           \/ GiveUp(w)
                           \/ EndTurn(w)
    \/ \E l \in Lanes : Block(l)
    \/ MemoryReleased

QueueSpec == QueueInit /\ [][QueueNext]_queueVars

\* The event loop resumes a task whose future is done, a turn always ends (it
\* is ended in a "finally"), and memory is returned again and again.
QueueFairness ==
    /\ \A w \in Requests : WF_queueVars(TakeTurn(w)) /\ WF_queueVars(EndTurn(w))
    /\ WF_queueVars(MemoryReleased)

FairQueueSpec == QueueSpec /\ QueueFairness

-----------------------------------------------------------------------------
Queues == [queues  : [Lanes -> [Tenants -> Seq(Requests)]],
           rr      : [Lanes -> Seq(Tenants)],
           turn    : [Lanes -> BOOLEAN],
           enabled : [Lanes -> BOOLEAN],
           wstate  : [Requests -> {"none", "queued", "granted"}],
           lane    : [Requests -> Lanes],
           count   : Int]

Places == [Requests -> [ph : {"out", "waiting", "turn"}, lane : Lanes]]

QueueTypeOK == wq \in Queues /\ at \in Places

AllQueued(q) == {w \in Requests : q.wstate[w] = "queued"}

QueuedIn(q, l, t) == {w \in AllQueued(q) : q.lane[w] = l /\ TenantOf[w] = t}

\* The deques hold exactly the waiters in state "queued", each once and in its
\* own tenant's deque of its own lane; _count counts them.
Exact(q) ==
    /\ \A l \in Lanes, t \in Tenants :
          /\ IsInjective(q.queues[l][t])
          /\ Range(q.queues[l][t]) = QueuedIn(q, l, t)
    /\ q.count = Cardinality(AllQueued(q))

QueueIsExact == Exact(wq) /\ wq.count <= QueueLimit

\* A tenant with waiters has a place in the rotation, whatever was removed, promoted or
\* returned.
Placed(q) == \A l \in Lanes, t \in Tenants : q.queues[l][t] # <<>> => t \in Range(q.rr[l])

\* A lane with promotion enabled and a free turn has no waiter.
Served(q, l) == q.enabled[l] /\ ~q.turn[l] => WaitersOf(q, l) = {}

\* Nobody is forgotten.
NobodyForgotten == Placed(wq) /\ \A l \in Lanes : Served(wq, l)

\* The tasks that have the turn of a lane, or that will find that they have it.
Holders(q, place, l) ==
    {w \in Requests : \/ place[w].ph = "turn" /\ place[w].lane = l
                      \/ q.wstate[w] = "granted" /\ q.lane[w] = l}

\* A lane's turn is one task's, and is taken only as long as there is that task.
OneTurn(q, place) ==
    \A l \in Lanes : /\ \A v, w \in Holders(q, place, l) : v = w
                     /\ q.turn[l] <=> Holders(q, place, l) # {}

\* The wait queue is sound (core.py, _FairBodyMemoryWaitQueue): its deques, its count and its
\* rotation agree after any removal, promotion or return of memory, nobody is left in
\* them that nobody will promote, and no turn is had twice or lost.
QueueSound == QueueIsExact /\ NobodyForgotten /\ OneTurn(wq, at)

\* With memory being returned again and again, nobody waits for ever.
WaiterGetsTurn ==
    \A w \in Requests : wq.wstate[w] = "queued" ~> wq.wstate[w] # "queued"
=============================================================================
