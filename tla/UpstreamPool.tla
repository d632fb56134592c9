----------------------------- MODULE UpstreamPool ----------------------------
(***************************************************************************)
(* ClientPool, _UpstreamLease, _ResponseLeaseBinding, _ManagedStreamContext *)
(* and _ManagedAsyncClient of uni_api/upstream/client_pool.py, with the    *)
(* forced close of uni_api/streaming/cleanup.py: operations acquire an     *)
(* upstream lease, connect, stream or buffer a response, and give transport *)
(* and lease back, while the pool may be closed.                           *)
(*                                                                         *)
(* In resource mode a lease owns a connection attempt of the network       *)
(* governor until the response headers have come, which the governor's     *)
(* sample (module NetworkGovernor) grants or refuses at any time; in       *)
(* legacy mode it owns a permit of a bounded FIFO gate (module             *)
(* AdmissionGate) until the end.                                           *)
(***************************************************************************)
EXTENDS StreamCleanup, Sequences, SequencesExt

(***************************************************************************)
(* _buffer_bounded_response, and read_limited_response_body of             *)
(* uni_api/upstream/response_limits.py: the body of a buffered response is *)
(* charged, chunk by chunk, to a temporary reservation of the request      *)
(* before it is kept.  A chunk stands for what the decoder hands over,     *)
(* which is at most a fixed piece.                                         *)
(***************************************************************************)
CONSTANTS Readers,
          ChunkSizes,
          BodyLimit,    \* upstream_success_body_max_bytes, or its error twin
          Multiplier,   \* reservation_multiplier: copies of a body in memory
          Envelope      \* what a parsed body costs, per byte

ASSUME BodyAssumption ==
    /\ BodyLimit \in Nat \ {0} /\ Multiplier \in Nat \ {0}
    /\ Envelope \in Nat /\ Envelope >= Multiplier
    /\ ChunkSizes \subseteq Nat \ {0}

VARIABLE body

\* owed: the body is complete but its envelope is not charged yet; why: how
\* the buffering ended.
NoBody == [ok |-> TRUE, kept |-> 0, charged |-> 0,
           owed |-> FALSE, why |-> "none"]

BodyInit == body = [o \in Readers |-> NoBody]

Set(o, b) == body' = [body EXCEPT ![o] = b]

Smaller(a, b) == IF a <= b THEN a ELSE b

-----------------------------------------------------------------------------
BodyStart(o) == \E ok \in BOOLEAN : Set(o, [NoBody EXCEPT !.ok = ok])

\* retain: the charge is granted before the bytes are kept.  Past the limit
\* the response is closed: a success fails, an error body is cut and its
\* marker charged.
Retain(o, n) ==
    LET b == body[o]
        room == BodyLimit - b.kept
        keep == Smaller(n, room)
        held == [b EXCEPT !.kept = @ + keep, !.charged = @ + keep * Multiplier]
    IN /\ b.why = "none" /\ ~ b.owed
       /\ Set(o, IF n <= room THEN held
                 ELSE IF b.ok THEN [held EXCEPT !.charged = 0, !.why = "too large"]
                 ELSE [held EXCEPT !.kept = @ + 1, !.charged = @ + Multiplier,
                                   !.owed = TRUE])

\* The iterator ends.  An empty body has no envelope.
BodyEnd(o) ==
    /\ body[o].why = "none" /\ ~ body[o].owed
    /\ Set(o, [body[o] EXCEPT !.owed = TRUE])

\* The envelope of an error body, or of a success that looks like JSON, is
\* charged before any caller can parse it, unless the caller asked for binary
\* data (post_buffered_binary); then the reservation is committed.
BodyCommit(o) ==
    LET b == body[o]
    IN /\ b.why = "none" /\ b.owed
       /\ \E structured, json \in BOOLEAN :
             LET parsed == structured /\ (~ b.ok \/ json)
             IN Set(o, [b EXCEPT !.why = IF parsed THEN "parsed" ELSE "plain",
                                 !.charged = IF parsed THEN b.kept * Envelope ELSE @])

\* A charge is refused, the body cannot be decoded or its JSON is unsupported
\* or too complex, the transport fails, or the owner is cancelled: the
\* temporary reservation is released.
BodyFail(o) ==
    /\ body[o].why = "none"
    /\ Set(o, [body[o] EXCEPT !.charged = 0, !.why = "error"])

\* The request's end returns what it has committed.
BodyForget(o) == Set(o, NoBody)

Buffered(o) == body[o].why # "none"

-----------------------------------------------------------------------------
(* The pool *)

CONSTANTS Ops,
          Modes,       \* resource, legacy
          PoolSize,    \* pool_size of the legacy gate
          WaiterLimit  \* its waiter_limit

ASSUME PoolAssumption ==
    /\ IsFiniteSet(Ops) /\ Ops = Cleaners /\ Ops = Readers
    /\ Modes \subseteq {"resource", "legacy"}
    /\ PoolSize \in Nat \ {0} /\ WaiterLimit \in Nat

VARIABLES mode,
          pool,      \* open, closing or closed
          pc,        \* where an operation is
          lease,     \* its _UpstreamLease: none, held or released
          gate,      \* owners of attempts or permits, and waiters of the legacy gate
          active,    \* _active_operations, or the gauge of the legacy mode
          transport, \* none, pool (a request of httpcore's pool), idle or evicted
          safe       \* what the forced close returned: the transport is isolated

poolVars == <<task, bg, deferral, request, inline, body, mode, pool, pc,
              lease, gate, active, transport, safe>>

PoolInit ==
    /\ CleanupInit /\ BodyInit
    /\ mode \in Modes
    /\ pool = "open"
    /\ pc = [o \in Ops |-> "idle"]
    /\ lease = [o \in Ops |-> "none"]
    /\ gate = [owners |-> {}, waiters |-> <<>>]
    /\ active = 0
    /\ transport = [o \in Ops |-> "none"]
    /\ safe = [o \in Ops |-> FALSE]

Goto(o, where) == pc' = [pc EXCEPT ![o] = where]
Shut == pool # "open"

-----------------------------------------------------------------------------
(* _acquire_upstream *)

\* A returned permit goes to the first waiter.
GateReleased(g, o) ==
    IF o \notin g.owners THEN g
    ELSE IF g.waiters = <<>> THEN [g EXCEPT !.owners = @ \ {o}]
    ELSE [owners |-> (g.owners \ {o}) \cup {Head(g.waiters)}, waiters |-> Tail(g.waiters)]

\* No await separates the check of the pool's state from the new lease.
Lease(o) ==
    /\ lease' = [lease EXCEPT ![o] = "held"]
    /\ active' = active + 1
    /\ Goto(o, "connecting")

NoLease(o) == Goto(o, "done") /\ UNCHANGED <<lease, active>>

Take(o) == gate' = [gate EXCEPT !.owners = @ \cup {o}]

\* get_client: the pool hands out a client, which it makes when it has none.
GetClient(o) ==
    /\ pc[o] = "idle"
    /\ Goto(o, IF Shut THEN "done" ELSE "client")
    /\ UNCHANGED <<cleanupVars, body, mode, pool, lease, gate, active, transport, safe>>

Acquire(o) ==
    /\ pc[o] = "client"
    /\ \/ Shut /\ NoLease(o) /\ UNCHANGED gate
       \/ /\ ~ Shut /\ mode = "resource"
          /\ \/ Take(o) /\ Lease(o)
             \/ Goto(o, "waiting") /\ UNCHANGED <<gate, lease, active>>
       \/ /\ ~ Shut /\ mode = "legacy"
          /\ IF Cardinality(gate.owners) < PoolSize /\ gate.waiters = <<>>
             THEN Take(o) /\ Lease(o)
             ELSE IF Len(gate.waiters) < WaiterLimit
             THEN /\ gate' = [gate EXCEPT !.waiters = Append(@, o)]
                  /\ Goto(o, "waiting") /\ UNCHANGED <<lease, active>>
             ELSE NoLease(o) /\ UNCHANGED gate
    /\ UNCHANGED <<cleanupVars, body, mode, pool, transport, safe>>

\* Mutant: the waiter does not look at the pool's state.
PollBlindly(o) ==
    /\ pc[o] = "waiting" /\ mode = "resource"
    /\ Take(o) /\ Lease(o)
    /\ UNCHANGED <<cleanupVars, body, mode, pool, transport, safe>>

\* The waiter of the governor polls: it gives up once the pool is closing.
Poll(o) ==
    /\ pc[o] = "waiting" /\ mode = "resource"
    /\ \/ Shut /\ NoLease(o) /\ UNCHANGED gate
       \/ ~ Shut /\ Take(o) /\ Lease(o)
    /\ UNCHANGED <<cleanupVars, body, mode, pool, transport, safe>>

\* A waiter of the gate resumes with the permit it was handed; a pool that has
\* been closed meanwhile takes the permit back.
Resume(o) ==
    /\ pc[o] = "waiting" /\ o \in gate.owners
    /\ IF Shut THEN NoLease(o) /\ gate' = GateReleased(gate, o)
               ELSE Lease(o) /\ UNCHANGED gate
    /\ UNCHANGED <<cleanupVars, body, mode, pool, transport, safe>>

\* The wait times out or its owner is cancelled.
GiveUp(o) ==
    /\ pc[o] = "waiting" /\ o \notin gate.owners
    /\ \/ mode = "resource" /\ UNCHANGED gate
       \/ /\ mode = "legacy"
          /\ \E i \in 1..Len(gate.waiters) :
                /\ gate.waiters[i] = o
                /\ gate' = [gate EXCEPT !.waiters = RemoveAt(@, i)]
    /\ NoLease(o)
    /\ UNCHANGED <<cleanupVars, body, mode, pool, transport, safe>>

-----------------------------------------------------------------------------
(* _UpstreamLease *)

\* Mutant: every caller's release is carried out.
ReleaseLeaseAgain(o) ==
    /\ lease' = [lease EXCEPT ![o] = "released"]
    /\ active' = active - 1
    /\ gate' = GateReleased(gate, o)

\* _release_once, however many callers ask for it.
ReleaseLease(o) ==
    IF lease[o] = "held"
    THEN /\ lease' = [lease EXCEPT ![o] = "released"]
         /\ active' = active - 1
         /\ gate' = GateReleased(gate, o)
    ELSE UNCHANGED <<lease, active, gate>>

MarkConnected(o) == gate' = IF mode = "resource" THEN GateReleased(gate, o) ELSE gate

-----------------------------------------------------------------------------
(* _ManagedStreamContext and _non_stream_request *)

\* The headers have come; a stream is bound to its lease.
Connected(o) ==
    /\ pc[o] = "connecting"
    /\ MarkConnected(o)
    /\ transport' = [transport EXCEPT ![o] = "pool"]
    /\ \/ Goto(o, "streaming") /\ UNCHANGED body
       \/ Goto(o, "buffering") /\ BodyStart(o)
    /\ UNCHANGED <<cleanupVars, mode, pool, lease, active, safe>>

\* No response: nothing but the lease has to be given back.
ConnectFails(o) ==
    /\ pc[o] = "connecting"
    /\ ReleaseLease(o)
    /\ Goto(o, "done")
    /\ UNCHANGED <<cleanupVars, body, mode, pool, transport, safe>>

Buffer(o) ==
    /\ pc[o] = "buffering"
    /\ \/ \E n \in ChunkSizes : Retain(o, n)
       \/ BodyEnd(o) \/ BodyCommit(o) \/ BodyFail(o)
    /\ UNCHANGED <<cleanupVars, mode, pool, pc, lease, gate, active, transport, safe>>

\* A buffered response is closed by its own task, then the lease is released.
CloseBuffered(o) ==
    /\ pc[o] = "buffering" /\ Buffered(o)
    /\ transport' = [transport EXCEPT ![o] = "idle"]
    /\ ReleaseLease(o)
    /\ Goto(o, "done")
    /\ UNCHANGED <<cleanupVars, body, mode, pool, safe>>

-----------------------------------------------------------------------------
(* force_close_response_httpcore_stream_chain_safely *)

\* The stream ends, is cancelled, or has an encoding that is not supported:
\* the response's own close is started.
ForceClose(o) ==
    /\ pc[o] = "streaming"
    /\ Started(o, "close")
    /\ Goto(o, "cooperative")
    /\ UNCHANGED <<bg, deferral, request, inline, body, mode, pool, lease,
                   gate, active, transport, safe>>

CooperativeDone(o) ==
    /\ pc[o] = "cooperative" /\ task[o]["close"] = "ok"
    /\ safe' = [safe EXCEPT ![o] = TRUE]
    /\ Started(o, "raw")
    /\ Goto(o, "raw")
    /\ UNCHANGED <<bg, deferral, request, inline, body, mode, pool, lease,
                   gate, active, transport>>

\* The close has failed or passed its deadline: the pool's request and its
\* connection are removed, where the stream names them.
Evict(o) ==
    /\ pc[o] = "cooperative" /\ task[o]["close"] # "ok"
    /\ \/ /\ transport' = [transport EXCEPT ![o] = IF @ = "pool" THEN "evicted" ELSE @]
          /\ Goto(o, "abort")
          /\ UNCHANGED task
       \/ Goto(o, "again") /\ UNCHANGED <<transport, task>>
    /\ UNCHANGED <<bg, deferral, request, inline, body, mode, pool, lease,
                   gate, active, safe>>

\* abort_transport: the lease of an evicted transport is free for others; the
\* evicted connections are closed next.
AbortLease(o) ==
    /\ pc[o] = "abort"
    /\ ReleaseLease(o)
    /\ Started(o, "conn")
    /\ Goto(o, "conn")
    /\ UNCHANGED <<bg, deferral, request, inline, body, mode, pool, transport, safe>>

Isolated(o) == transport[o] = "evicted"

ConnectionsClosed(o) ==
    /\ pc[o] = "conn" /\ Settled(o, "conn")
    /\ Goto(o, "again")
    /\ UNCHANGED <<cleanupVars, body, mode, pool, lease, gate, active,
                   transport, safe>>

\* The second wait for the close.  A task that is still stuck is detached, or
\* keeps the request; the transport then counts as safe only if it was
\* detached.
CloseSettled(o) ==
    /\ pc[o] = "again" /\ Settled(o, "close")
    /\ safe' = [safe EXCEPT ![o] = Isolated(o) \/ task[o]["close"] = "ok"]
    /\ Started(o, "raw")
    /\ Goto(o, "raw")
    /\ UNCHANGED <<bg, deferral, request, inline, body, mode, pool, lease,
                   gate, active, transport>>

CloseStuck(o) ==
    /\ pc[o] = "again" /\ Running(o, "close") /\ inline[o] = {}
    /\ DetachOrFinish(o, "close", Isolated(o))
    /\ safe' = [safe EXCEPT ![o] = Isolated(o) /\ MayDetach(o, Isolated(o))]
    /\ IF MayDetach(o, Isolated(o)) THEN Started(o, "raw") /\ Goto(o, "raw")
                                    ELSE Goto(o, "stuck") /\ UNCHANGED task
    /\ UNCHANGED <<request, body, mode, pool, lease, gate, active, transport>>

StuckEnds(o) ==
    /\ pc[o] = "stuck" /\ Settled(o, "close")
    /\ Started(o, "raw")
    /\ Goto(o, "raw")
    /\ UNCHANGED <<bg, deferral, request, inline, body, mode, pool, lease,
                   gate, active, transport, safe>>

\* A clean-up that await_stream_cleanup_safely waits for passes its deadline:
\* the connections' close, or the raw context's.
PassDeadline(o, k) ==
    /\ pc[o] = k /\ k \in {"conn", "raw"} /\ Running(o, k) /\ inline[o] = {}
    /\ LET isolated == k = "conn" \/ safe[o]
       IN /\ DetachOrFinish(o, k, isolated)
          /\ IF MayDetach(o, isolated)
             THEN Goto(o, IF k = "conn" THEN "again" ELSE "leave")
             ELSE UNCHANGED pc
    /\ UNCHANGED <<task, request, body, mode, pool, lease, gate, active,
                   transport, safe>>

\* The finally of _exit_once.
Leave(o) ==
    /\ \/ pc[o] = "leave"
       \/ pc[o] = "raw" /\ Settled(o, "raw")
    /\ ReleaseLease(o)
    /\ Goto(o, "done")
    /\ UNCHANGED <<cleanupVars, body, mode, pool, transport, safe>>

\* A clean-up task ends.  _close_once releases the lease whether or not the
\* response's close has succeeded; only a success returns the connection.
TaskEnds(o, k, how) ==
    /\ Ended(o, k, how)
    /\ IF k = "close"
       THEN /\ how # "none"
            /\ ReleaseLease(o)
            /\ transport' = [transport EXCEPT ![o] =
                                IF @ = "pool" /\ how = "ok" THEN "idle" ELSE @]
       ELSE UNCHANGED <<lease, active, gate, transport>>
    /\ UNCHANGED <<body, mode, pool, pc, safe>>

-----------------------------------------------------------------------------
(* The life of the pool and of the requests *)

Close ==
    /\ pool = "open" /\ pool' = "closing"
    /\ UNCHANGED <<cleanupVars, body, mode, pc, lease, gate, active, transport, safe>>

\* Every client has been closed, in spite of errors.
CloseEnds ==
    /\ pool = "closing" /\ pool' = "closed"
    /\ UNCHANGED <<cleanupVars, body, mode, pc, lease, gate, active, transport, safe>>

RequestEnds(o) ==
    /\ pc[o] = "done" /\ ReleaseRequest(o) /\ BodyForget(o)
    /\ UNCHANGED <<mode, pool, pc, lease, gate, active, transport, safe>>

\* The lifespan's end drains the background tasks before it closes the pool.
ShutdownCleanups ==
    /\ pool = "open"
    /\ \E ended \in SUBSET bg : CancelBackground(ended)
    /\ UNCHANGED <<body, mode, pool, pc, lease, gate, active, transport, safe>>

Operation(o) ==
    \/ GetClient(o) \/ Acquire(o) \/ Poll(o) \/ Resume(o) \/ GiveUp(o)
    \/ Connected(o) \/ ConnectFails(o) \/ Buffer(o) \/ CloseBuffered(o)
    \/ ForceClose(o) \/ CooperativeDone(o) \/ Evict(o) \/ AbortLease(o)
    \/ ConnectionsClosed(o) \/ CloseSettled(o) \/ CloseStuck(o) \/ StuckEnds(o)
    \/ \E k \in Steps : PassDeadline(o, k)
    \/ Leave(o)

PoolNext ==
    \/ \E o \in Ops : Operation(o) \/ RequestEnds(o)
    \/ \E o \in Ops, k \in Steps, how \in {"none", "ok", "failed"} : TaskEnds(o, k, how)
    \/ Close \/ CloseEnds \/ ShutdownCleanups

\* The loop runs an operation that can go on, its timers fire, and a close
\* goes on; nothing says that a clean-up task ever ends.
PoolFairness == /\ \A o \in Ops : WF_poolVars(Operation(o))
                /\ WF_poolVars(CloseEnds)

PoolSpec == PoolInit /\ [][PoolNext]_poolVars /\ PoolFairness

-----------------------------------------------------------------------------
(* Properties *)

\* _active_operations counts exactly the operations that hold a lease, though
\* its max(0, ...) would hide an error; a permit or a connection attempt
\* belongs to a lease or to a waiter that has just been handed it; an operation
\* that is over holds nothing.  And the lease of a request's stream is handed
\* to others only when its transport cannot be reused by mistake: it was closed,
\* or evicted first (a failed close has its eviction, where the stream names
\* its connection, ahead; a stream outside any request is detached even then).
LeasesExact ==
    /\ active = Cardinality({o \in Ops : lease[o] = "held"})
    /\ \A o \in gate.owners : lease[o] = "held" \/ pc[o] = "waiting"
    /\ \A o \in Ops :
          /\ pc[o] = "done" => lease[o] # "held"
          /\ request[o] # "none" /\ lease[o] = "released" /\ transport[o] = "pool"
                => task[o]["close"] = "failed"

\* Nobody forgets a clean-up: a task that runs is one its operation still
\* waits for, or is in the table, which never exceeds its bound; and the bytes
\* of its request are returned only after it, when the lease is released and
\* no deferral is left.
CleanupIsOwned ==
    /\ Cardinality(bg) <= MaxTasks
    /\ \A o \in Ops, k \in Steps : Running(o, k) =>
          /\ \/ <<o, k>> \in bg
             \/ pc[o] \in {"cooperative", "abort", "conn", "again", "stuck", "raw"}
          /\ request[o] = "released" => k \in deferral[o]

\* Bytes of a buffered body are charged before they are kept, and what a
\* caller may parse has its envelope charged; a body that nobody gets is
\* charged to nobody.
BodyIsCharged ==
    \A o \in Readers :
        LET b == body[o]
        IN CASE b.why = "parsed" -> b.charged >= b.kept * Envelope
             [] b.why \in {"none", "plain"} -> b.charged >= b.kept * Multiplier
             [] OTHER -> b.charged = 0

\* The pool is sound (client_pool.py, streaming/cleanup.py and response_limits.py): leases,
\* permits and charged bytes belong to operations that will return them, and a clean-up that
\* was left behind by a cancelled or timed-out request is still somebody's.
PoolSound == LeasesExact /\ CleanupIsOwned /\ BodyIsCharged

NoLeaseWhenShut ==
    [][\A o \in Ops : Shut => ~ (lease[o] # "held" /\ lease'[o] = "held")]_poolVars

\* A pool that is closing gives no lease, its close ends, and nobody is left
\* waiting for one of its connections.
CloseIsFinal ==
    /\ NoLeaseWhenShut
    /\ (pool = "closing") ~> (pool = "closed" /\ \A o \in Ops : pc[o] # "waiting")

WaitsOnlyWhenFull ==
    [][\A o \in Ops, k \in {"close", "conn"} :
          Isolated(o) /\ k \notin inline[o] /\ k \in inline'[o] => Full]_poolVars

\* A stream whose transport is evicted never waits without a deadline for the
\* close of the response or of the connections unless the table of background
\* tasks is full; and if it does not wait, it returns, though every close hangs.
EvictedStreamReturns ==
    /\ WaitsOnlyWhenFull
    /\ \A o \in Ops : Isolated(o) ~> (pc[o] = "done" \/ inline[o] # {})
=============================================================================
