# A verification project for uni-api

uni-api is an OpenAI-compatible gateway: it accepts chat, Responses, image,
audio and video requests, picks a provider and a provider key, rewrites the
payload, calls the upstream, retries elsewhere when that fails, and streams
the answer back.  It runs as one asyncio process per worker (some work on
threads), optionally behind a Rust front process.  Most of its own logic, and
all of the hard part, is not in the payload conversions but in ownership under
concurrency: request slots, body and response memory, queues between tasks,
shared upstream clients, idempotent replays, key cool-downs, all of them held
across awaits that can be cancelled at any point.

This directory models that part in TLA+, checks it with TLC on small instances
and proves the core of it with TLAPS for all instances.

## Inventory

(Paths are relative to `src/uni_api` unless they start with `src/`.)

| component | state | operations | hard behaviour |
|---|---|---|---|
| admission gate (`admission/core.py`, `BoundedAdmissionGate`, `AdmissionLease`) | active count, FIFO of waiters, waiter states | acquire, try, time out, cancel, release | grant races timeout and cancellation; lease stored in a future nobody awaits |
| body-memory wait queue (`admission/core.py`, `_FairBodyMemoryWaitQueue`) | per lane: tenant deques, rotation, turn flag, promotion flag | wait for a turn, finish it, stop and resume promotions | turn granted to a waiter that gives up; lost wake-ups; fairness |
| request memory ledger (`admission/core.py`, `RequestAdmissionController`) | body, pending, response and parent bytes, large-body claims, deferred leases | reserve, grow, transfer, release, defer, finalize | memory that outlives the request; checks made before an await and used after it |
| memory governor (`admission/memory.py`) | reserved bytes per category, last sample, waiters | reserve (now or waiting), release, sample | several threads; failing samples; lost wake-ups |
| admission middleware (`middleware/admission.py`) | per request: acquisition, pending body, disconnect flag | queue, buffer the body meanwhile, hand over, give up | disconnect and grant in the same loop turn |
| idempotency (`middleware/idempotency.py`, `idempotency_spool.py`) | entries by key, in-flight owner, stored response | claim, wait, replay, expire, evict | second request while the first is in flight; owner fails or is cancelled |
| streaming queue (`streaming/bounded_queue.py`) and cleanup (`streaming/cleanup.py`) | items, bytes, closed flag; owned clean-up tasks | put, get, close, cancel | producer and consumer both cancelled; close with a full queue |
| upstream client pool (`upstream/client_pool.py`, `response_limits.py`) | clients by key, leases, bound responses, buffered bodies | acquire, connect, stream, buffer, evict, close | close of the pool beside an acquisition; a response whose close hangs |
| routing (`routing/core.py`, `routing/health.py`) | provider lists, cool-downs, circuit state | order candidates, report success and failure | stale health used for a later choice |
| key pool and rate limits (`rate_limit/*.py`) | request timestamps per key and model, cool-down times | next key, mark exhausted, reset | several tasks take keys while others cool them down |
| request execution (`runtime.py`, `src/upstream.py`, `upstream/*.py`) | attempt counter, chosen provider and key, stream state; the life of each attempt in the request's lease | try, classify the error, retry, give up, sum up | retry after bytes were sent; cancellation between attempts; a summary that waits for the end of a stream |
| channel statistics (`runtime.py`, the stats workers) | a bounded queue of marks, workers, counters | put, write, drain, cancel | a worker cancelled between the commit and the count; marks put during the shutdown |
| video tasks (`runtime.py`, `VideoGenerationTasksHandler`) | the remembered route of each task | create, ask, cancel, prune | requests that read a route before they wait and forget it afterwards |
| body decompression (`middleware/request_decompression.py`) | encoded and decoded byte counts, reservations | decode chunk by chunk, enforce limits | limits crossed inside one chunk; partial failure |
| SSE and Responses events (`streaming/sse.py`, `responses_events.py`, `chat_completion_collector.py`) | parser buffer, kept output items, terminal event | feed, frame, translate, collect | any byte may be the last of a chunk; end of stream without a terminal event |
| logged responses (`streaming/logging_response.py`, `observability/middleware.py`) | stream task, writer task, outcome, lifecycle | start, write, fail, finish | an adapter that hangs or ignores a cancellation; a peer that leaves |
| CPU, network, JSON admission (`admission/cpu.py`, `network.py`, `resources.py`, `json_memory.py`) | budgets and waiters | reserve, release, sample | the same races as the ledger |
| configuration (`config/*.py`, `rust_responses_snapshot.py`) | compiled snapshot, the file the front reads | load, compile, publish, pick up | the file is replaced while it is read |
| search affinity (`routing/search_affinity.py`, `api/alpha_search.py`) | bindings by session, session locks | find, lock, bind, expire, evict | a lock that exists only while it is used |
| authentication (`auth/*.py`) | key table, OAuth tokens and their file | look up, refresh, persist | refresh tokens that can be used once; cancellation and restart in a refresh |
| Rust front (`src/rust/uni-api-native/src/bin/uni-api-front`) and its control (`rust_responses_control.py`) | its own idempotency table, spool, resource counters, native routes and windows; a session in Python | spool, claim, reserve, plan, relay, settle | as above, with threads; a handler is dropped where it is suspended; calls between the processes are lost |
| video adapters (`src/video`) | none | convert and call | none of their own: the task lives at the provider |
| provider payloads (`providers/*.py`) | none | convert | none: pure conversions |
| observability (`observability/*.py`, `src/fugue_observability.py`) | metrics and histories | record, export | none that changes what the gateway does |

What makes each of them correct: every acquired thing is given back exactly
once whichever of success, failure, timeout and cancellation comes first; no
bound is exceeded; nobody sleeps beside what it waits for; what is answered to
the client is the outcome of one attempt.  The hazards, line by line, are in
`PROJECT.json`.

## The rule behind the models

Python's asyncio runs one task at a time and switches only at an `await` that
really suspends.  Nearly every critical section of this code (`async with
self._lock`) contains no suspending `await`, so its lock is never contended and
the whole section is **one action**.  What interleaves is what lies between
sections, and every such point is a phase of its own in the models:

* a future that is resolved while its task has not run yet (a granted waiter
  that still looks like it waits);
* a timeout or a cancellation that arrives in that window, and the clean-up
  task it starts;
* a lease that is the result of a finished task nobody has awaited;
* a release, which the code always runs as a task of its own behind
  `asyncio.shield`.

Threads enter in three places: the memory governor, where one action is one
section under its `RLock`; CPU callbacks, which cannot be stopped; and the Rust
front, where one action is one lock or one atomic instruction and a handler may
be dropped between any two.  Waits whose deadline may pass are actions that are
always possible and never obliged.  Payloads, names and times are small sets;
bytes are small integers.

## Modules

| module | code | state and actions |
|---|---|---|
| `AdmissionGate` | `BoundedAdmissionGate`, `AdmissionLease`, `_await_owned_acquisition`, `_cancel_and_release_acquisition` (`admission/core.py`) | `active`, `waiters` and `wstate` are the gate's fields; `pc` is where each caller stands.  `TryAcquire`, `BeginAcquire`, `WaiterResumes`, `StopWaiting` (timeout or cancellation), `OwnerCancelled`, `OwnerResumes`, `AbandonWaiter`, `Release`, `ReleaseSlot` |
| `CountingSemaphore` | abstract | a set of owners that never exceeds the permits |
| `QueuedAdmission` | `RequestAdmissionMiddleware` (`middleware/admission.py`) | composes `AdmissionGate`: some callers are requests that go through the middleware, and every step they take at the gate is an action of the gate.  `gone` is the set of disconnect events that are set; `mw` holds a request's phase, its receive and observer tasks, buffered and delivered frames, and the bytes of its pending reservation, lease and credits.  `QueueStep` is `_acquire_queued_request`, `ServeStep` what `__call__` and the application do with the slot |
| `QueuedAdmissionProofs` | - | the theorems about the gate and the middleware |
| `WaitQueue` | `_FairBodyMemoryWaitQueue` (`admission/core.py`) | the queue as a value `wq` and its methods as operators on it, so that two specifications can use them |
| `FairWaitQueue` | its use | the queue alone with tasks that wait, give up, take and end turns |
| `WaitQueueProofs` | - | the theorems about the queue, as a value and in `FairWaitQueue` |
| `RequestMemory` | `RequestAdmissionController` and its leases (`admission/core.py`) | `ctl` is the controller's counters; `pend`, `lease`, `temp`, `hold` are the reservations of a request; `op` is a body reservation in progress.  Composes `WaitQueue` |
| `RequestMemoryProofs` | - | the theorems about the ledger and its waits |
| `MemoryGovernor` | `AdaptiveMemoryGovernor` (`admission/memory.py`) | reserved bytes, last sample, tasks in the phases of `reserve()`, posted wake-ups |
| `Idempotency` | `InMemoryIdempotencyCoordinator`, `IdempotencyMiddleware` (`middleware/idempotency.py`) | `co` is the coordinator (table, entries, completion order, byte counts), `req` is where each request stands |
| `StreamQueue` | `ByteBoundedQueue`, `RetainedByteBudget`, `ReservedChunkBuffer` (`streaming/bounded_queue.py`) | one queue per stream, its producer and consumer, the shared budget |
| `ResponsesStream` | `ResponsesRequestExecution` (`runtime.py`, `src/upstream.py`) | the worker and the body of a streamed request over `StreamQueue` |
| `Routing` | `ProviderKeyPool`, `RateLimitState` (`rate_limit/`), `RoutingPlan` (`routing/core.py`), `UpstreamRunner` (`src/upstream.py`), `ChannelManager` (`runtime.py`), `ProviderModelCircuitBreaker` (`routing/health.py`) | cursor, timestamps and cool-down of every key; exclusions, failures and open circuits by route; requests that choose, call, fail and retry over them; the clock that all of this is compared with |
| `ResponseAttempts` | `RequestAdmissionLease` (`admission/core.py`): attempts, temporary reservations, summaries | `lg`, what the lease keeps of the attempts of its request; `told`, what was published of them |
| `Endpoint` | `ModelRequestHandler`, `process_request`, the buffered Responses, `MessagesPassthroughHandler`, the video and Lingjing handlers (`runtime.py`), `UpstreamRunner.run` | `rq`, one request of an endpoint; `att`, its attempts, their routing entries and marks.  Over `ResponseAttempts` |
| `ChannelStats` | the queue of the statistics and its workers (`runtime.py`) | marks that are put, written, counted, lost at a shutdown |
| `VideoTasks` | the task routes of `VideoGenerationTasksHandler` (`runtime.py`) | remembered routes, and requests that read, use and forget them |
| `EndpointProofs` | - | the theorems about the last two, `ConfigSnapshot`, `RequestIntake`, `LoggedResponse` and `RustFront` |
| `NetworkGovernor` | `AdaptiveNetworkGovernor` (`admission/network.py`), the accept guard (`server.py`) | `net`: the sample, and what was admitted and opened since |
| `StreamCleanup` | `streaming/cleanup.py` | clean-up tasks as running, done or stuck; the table of background tasks `bg`; requests whose bytes are deferred |
| `UpstreamPool` | `ClientPool` and its leases (`upstream/client_pool.py`), `_buffer_bounded_response`, `read_limited_response_body` (`upstream/response_limits.py`) | operations over `StreamCleanup`, in resource and in legacy mode, with the bytes kept and charged of a buffered body; the close of the pool |
| `UpstreamPoolProofs` | - | the theorems about it |
| `OAuthTokens` | `CodexOAuthTokenManager`, `CodexRefreshTokenStore` (`auth/codex_oauth.py`) | the issuer's newest token, the file, the cache and the lock, and callers on the way |
| `SearchAffinity` | `SearchAffinityStore`, `AlphaSearchRequestHandler` | bindings with age and expiry, lock objects with users and waiters, searches |
| `RequestIntake` | `RequestBodyDecompressionMiddleware` | the connection's frames, what is charged for encoded, window and decoded bytes, the monitor; over `JsonMemory` |
| `JsonMemory` | the estimator (`admission/json_memory.py`, `lib.rs`) | the scanners' carry-over at a chunk's end, against a byte-by-byte reference |
| `OwnedJson` | `admission/cpu.py`, `json_parsing.py`, parsed events of `sse.py` | parses with their phase, thread, token and reservations |
| `ResourceProofs` | - | the theorems about `MemoryGovernor`, `NetworkGovernor`, `OwnedJson` and `StreamQueue` |
| `SumTheorems` | - | lemmas about sums over finite sets, for all of them |
| `StartupEnvelope` | `calculate_startup_concurrency` (`admission/resources.py`) | the limits found by binary search, against the largest that fits |
| `SseParser` | `IncrementalSSEParser`, `IncrementalLineParser` (`streaming/sse.py`) | decoder state, pending text, frames, the budget; against a parse of the whole input |
| `ChatStream` | `responses_events.py`, `chat_completion_events.py`, `chat_completion_collector.py` | Responses events to chunks, chunks to a message |
| `ResponsesProxy` | what a streamed request forwards (`runtime.py`) | attempts primed, committed, proxied and settled; what the client has got |
| `LoggedResponse` | `LoggingStreamingResponse`, the lifecycle of `observability/middleware.py` | call, stream task, writer, adapter, wire |
| `RustFront` | `proxy.rs`, `request_spool.rs`, `resources.rs`, `idempotency.rs` | handlers from the first byte to the answer, the front's table and counters |
| `RustStream` | `rust_responses_control.py`, `responses.rs` | both sides of a streamed request of the front: `session` and `call` are Python's task and the control call; the rest is the front's plan, preflight, relay and report |
| `NativeRoute` | `responses_native.rs` | requests that the front routes itself |
| `ConfigSnapshot` | `rust_responses_snapshot.py`, `NativeConfigStore::refresh` | writer, file and watcher |

`PROJECT.json` maps every definition to its lines.  The operators with a suffix
(`ReleaseSlot_NoPromotion` and the like) that stand before a definition are
plausible mistakes in that code; each is the reason to believe that one property
can fail.

What one model takes from another component is stated, not assumed away:
`RequestMemory` and `StreamQueue` let the governor refuse any amount at any
time; `ResponsesStream` lets an attempt end in each of the ways `Routing` has;
`MemoryGovernor` lets the cgroup answer any of its samples or fail;
`UpstreamPool` lets the network governor refuse at any time; `ResponsesProxy`
and `RustStream` let an upstream send any short sequence of events, cut anywhere.

## Runs

Components that only exchange results are checked side by side in one run: the
variable `part` of the MC module says which of them a behaviour moves.  Each
property is the conjunction of the named parts that stand above it in its module.

| run | question | distinct states |
|---|---|---|
| `admission` | A request of the middleware and three other callers, one slot, two places in the queue.  Is the slot count the number of owners after any race of grant, timeout, cancellation and release, the queue exact, no slot idle beside a waiter (`GateSound`)?  Is it a counting semaphore?  Does a request leave anything behind, lose or reorder a frame, pay a byte twice (`RequestExact`)?  Is anybody overtaken, or served after its client left (`ServedInTurn`)?  Is a queued request answered? | 646,000 |
| `memory` | Three waiters of two tenants: deques, counts, rotation and turns agree (`QueueSound`) and a waiter gets its turn.  Three tasks on threads at the governor, samples that grow, shrink and fail: exact counters, no lost wake-up, no expansion on a stale sample (`GovernorSound`) | 356,000 |
| `request_body` | Three requests reserve and grow bodies of two bytes under a budget of three, with one large-body claim: claims, turns, and stopped lanes that will be woken (`BodyWaitSound`) | 527,000 |
| `request_response` | A request, its response bytes, a temporary reservation and a deferred worker that outlive it: is the ledger exact and is the memory finalized once, by the last owner (`LedgerSound`, `ChargedWhileOwned`)?  Three handlers of the Rust front: counters, claims, spool files and waiters (`FrontSound`) | 1,587,000 |
| `endpoint` | Two equal requests, one with the same key and another body, one with another key; a table of one entry and one byte of storage (`TableSound`, `WaiterIsReleased`).  One request of each endpoint with two attempts and a client that leaves: connections, marks, routing entries and summaries agree (`AttemptsAccounted`).  Owners whose file fails outside of the handlers are among them.  Two workers of the statistics and a shutdown (`StatsAccounted`) | 209,000 |
| `routing` | Two requests, two providers (weights 2 and 1; two keys and one), five kinds of failure, a clock of two ticks (`RingWalked`).  The same in the front (`NativeRouteTrue`), its configuration (`SnapshotTrue`), and a streamed request of the front with two attempts and a lost call (`FrontStreamSound`).  Two overlapping requests about three video tasks (`RoutesOwned`) | 1,785,000 |
| `upstream` | Two operations on a pool that closes, with a table of one background clean-up (`PoolSound`, `CloseIsFinal`, `EvictedStreamReturns`); three connection attempts on a stale or unknown sample (`HeadroomRespected`); three callers of an OAuth credential with restarts, beside other keys of the same file (`TokensKept`); four searches of two sessions (`SessionsSound`) | 492,000 |
| `response` | A body on its way in with a monitor that may fail (`IntakeCharged`, `DisconnectNoticed`), a response on its way out with a writer and an adapter (`ResponseSound`, `ResponseEnds`), the worker and the body of a streamed request (`StreamRetired`, `StreamSettles`) | 483,000 |
| `pipeline` | The parts of the streaming path over all short inputs: the estimate and the parser against their references (`EstimateExact`, `ParserExact`), parses (`JsonPaid`), limits (`EnvelopeFits`), two queues on one budget (`QueueExact`), the collected message (`CompletionFaithful`), the commit and the outcome of an attempt (`ProxySound`) | 969,000 |
| `round_robin` | *violated*: does a tenant get a second turn in a round while another waits? | - |
| `responses_leases` | *violated*: is every byte of a finished stream returned? | - |
| `routing_alias` | *violated*: the same as `RingWalked` when a provider has its own name for the model | - |

### Bounds, and why they are enough

Every race in the gate is between one waiter, the holder that passes a slot on
and the next in the queue; one slot and two queue places with a fourth caller
that is refused contain all of them at once (the proofs remove the bound).  Of
the middleware's requests there is one, because they meet only at the gate, where
the other callers take every step a request can take.  Its body has one frame or
two (`MaxFrames`, of a size in `FrameSizes`); with a high-water mark of one frame
the second is left to the application, and the single frame is followed by the
receive that only watches for the client to leave.  `MaxUse` bounds what the
application charges.  The wait queue needs a tenant with two waiters beside one
with one; `MaxRotation` caps the rotation list, which in the code grows without
bound (the defect of `round_robin` again).  In `RequestMemory` one request takes
the queued path; a budget that holds one large body and one small one makes each
limit bite; responses and bodies are in different runs because they meet only in
the counters, which `request_response` has both of.  There one place in the
rotation is enough: two waiters in it are what `memory` and `request_body` are
about.  The governor's sizes 1 and 2 under headrooms of 0 and 3, and a fallback
of 2, make reservations that fit one sample and not the next.  In `Idempotency` a
table of one entry makes every claim compete with an entry in use.  An endpoint's
two attempts are one that fails and one that ends the request or is refused; each
kind of endpoint and each way to fail is an initial state or a choice.  Three
marks fill a queue of two beside two workers, and a fourth comes after the join.
Three video tasks on one remembered route make every creation prune, and two
overlapping requests make one use a route that the other has forgotten.  A
stream budget of three with chunks of one and two makes budget and queue refuse
independently.  Routing's clock of two ticks lets every cool-down and circuit
expire once while a request is on its way; each request makes one pass, so old
exclusions are met by the other request.

The upstream pool needs a second operation that waits while the first one's
close hangs, and a full table of clean-ups, which one place gives.  Three
connection attempts on room for fewer make the charge that outlives an attempt
matter; `MaxCount` bounds the inbound sockets and the charges.  Three OAuth callers are one that refreshes, one that waits with the old
token and one after a restart.  A third search of a session arrives when the
first has left and the second still waits; `MaxBindings` of one makes the other
session evict.  Chunks of up to three bytes over inputs of five cut every line
end, character and frame at every place.  A script of three events has one in
front of and one behind the committing one; two attempts make a retry.  A chunk
of the front's stream is up to three half frames, so that one chunk can complete
two events: what stands behind a terminal event in the same chunk happens.  The
hosts of `StartupEnvelope` include each limit absent, tight and ample.  In the
front three handlers are an owner, a waiter and one with a conflicting body.

Deadlock is checked in `memory`, `request_body` and `request_response`; the
requests of the other runs are one-shot and may all have ended (in
`request_response` the front's own end is a step of the MC module).  Symmetry is
used only where no liveness is checked.

### Fairness

Only what the event loop and `finally` blocks guarantee: a task whose future is
done runs; a holder releases its lease; a turn ends; a disk write, a send and an
application call end (they have time-outs), as does a reservation of body bytes
in the queue.  No client is obliged to arrive, stay or leave.  No timer is
obliged to fire but those of `ResponseEnds`, whose promise rests on its
time-outs.  `memory` also assumes that memory is returned again and again, which
is the situation in which somebody waits for it; `request_body` shows the other
half, that a stopped lane always has memory in use.  All fairness is weak.

## What is proved

The theorems hold for every value of the constants that the named assumptions
allow: any finite set of callers, waiters, tasks or operations, any positive
capacity, any limit.  The assumptions say no more than what the code checks at
its start, or what the model needs to be about it (an operation of the pool is
its own cleaner and reader).  Bounds that only TLC needs are arbitrary numbers
there.  No property is inductive as it stands; what follows names the
strengthening and why it is needed.

**The admission gate** (`QueuedAdmissionProofs`).  The gate's state keeps its type
(`GateTypeCorrect`); it is sound (`GateIsSound`): the slot count is the number of
owners and within capacity, the queue holds exactly the live waiters, each once,
and nobody queues beside a free slot; the queue is bounded (`GateQueueBounded`);
and the gate implements `CountingSemaphore` (`GateIsSemaphore`).  The argument
uses `GateInv`, the conjunction of these with `PhaseInv` (a caller has a live
waiter exactly while its task waits or cleans up).  A grant adds one owner
because the head of the queue was not one: that needs the queue to be exact.  The
queue stays exact when a waiter leaves because it is in it once.  A promotion
after a release grants exactly one waiter: that needs the count to have been at
capacity whenever somebody queued (`NoIdleSlot`), which in turn needs the count
to equal the owners when somebody leaves.  `GateServesInTurn` is an action
property: no step gives a slot to a caller that was behind one still in the queue
after it.  Under `GateInv` a step grants the head or nobody, so nobody behind the
head can be granted while it stays.

**The middleware** (in the same module).  It takes no step at the gate that
the gate does not have (`AdmissionUsesGate`: its specification implies the
gate's), action by action, so all of the above holds with queued requests,
leaving clients and cancelled clean-ups in front of the gate
(`AdmissionGateIsSound`, `AdmissionIsSemaphore`).  `AdmissionServesInTurn` adds
that no request is passed on after its client left the queue: the event is looked
at in the very step that passes it on.  `RequestsAreExact`: a request that is over
keeps nothing, the application gets the frames of the body in order and each
once, and every reserved byte has one use.  Two invariants carry it.  `Fits`
says, phase by phase, where the acquisition of a request can stand, which
of receive, observer and bytes it may have, and that the frames handed out, the
buffered ones and the one in hand follow each other.  `Paid` is the account with
what makes it inductive: it holds in every phase from the arrival to the answer,
no credit exists before the body is declared, and the next frame is one of the
body or the one behind it.  The bytes of the buffer are a sum over the frames in
it; that a frame in hand is not there already, and that the head of the buffer is
there only once, comes from `Fits`.  The declaration is the only step with
credit to give, and it is within the lease because the buffered frames are part
of the body, so no more than the content-length.

**The body-memory wait queue** (`WaitQueueProofs`): `QueueTypeCorrect` and
`QueueIsSound`.  A step is several method calls, between which the queue is sound
but for a lane that has yet to be promoted.  `Coherent` is what holds between
them, of a queue as a value; `PromoteKeeps` says that `_promote` keeps it and
leaves nobody waiting for a free turn; every action is a chain of such facts.
`WaitsAgree` ties a task's word (it waits, in that lane) to its waiter.

**Sums** (`SumTheorems`).  The ledger's and the governor's counters are sums
over tasks, the bytes of a buffer a sum over frames, those of a queue a sum over
its places.  A fold is a recursive definition, and the library's induction
theorems cannot be instantiated here; but a sum of naturals is the cardinality of a set,
of the pairs of an element and a number up to its term (`SumCounts`), because a
smallest set for which it were not would have an element to take away.  What
proofs need follows from the theorems about cardinality: a sum changes by what
one term changes by, a term is no more than the sum, and terms may be split into
two kinds or moved to other arguments, which gives the bytes of joined sequences.

**The request memory ledger** (`RequestMemoryProofs`): `LedgerTypeCorrect`,
`LedgerIsSound`, `OwnedStaysCharged` and `BodyWaitIsSound`.  `LedgerInv` has
the limits, the type and three parts: `Totals`, each shared counter as the sum of
what the requests hold; `Members`, the owners of large-body claims and the
deferred leases; and `Owned`, what one request holds in each of its states, which
a step disturbs for one request only.  A release can
then not underflow, because a term is no more than its sum.  `OwnedStaysCharged`
is an action property from the same invariant.  `WaitInv` adds that the wait
queue is sound with the requests as its tasks (the facts of `WaitQueueProofs`,
cited for the queue as a value) and that a stopped lane has memory in use.  No
step but a return of memory makes the bytes in use fall, and one that does
resumes the lanes: that is why a lane that is stopped will be woken, and it is
proved for every step by the pair of facts in `StillWakes`.

**The memory governor** (`GovernorIsSound`, in `ResourceProofs`; an invariant and
an action property).  `GovernorInv` carries the sums, that whoever may sleep is
registered, and `SleepsWell`: a sleeper for whom there is room, by the sample it
looked at, has a wake-up posted or in the hands of a releasing task.  Room
appears only with a release, which takes a copy of the registered waiters in the
same section that frees the bytes; and a task that goes to sleep has looked again
after it registered.

**The upstream pool** (`UpstreamPoolProofs`): `PoolIsSound`, from four parts.
`LeaseInv`: an operation has a lease while it uses one and may have one while it
closes, so a lease is given back once although three places ask for it, and the
counter is exact.  `GateInv`: nobody waits for a permit twice or beside one of
its own, so the first waiter can be handed the permit that is returned.
`CleanInv`, for each operation alone: a running clean-up is one that its phase
waits for or is in the table, a live request's detached ones hold its bytes back,
and what the transport is in each phase, so that it is isolated when the lease is
free (or its close has failed).  `BodyInv`: what a buffered body keeps is within
its limit and paid.  The safety halves of the two temporal properties follow:
`NoLeaseAfterClose` and `EvictedWaitsOnlyWhenFull`.

**The network governor** (`HeadroomIsRespected`, in `ResourceProofs`).
A sample may be unknown: then nothing is refused and what was charged is
forgotten, so the sockets themselves may exceed the room, and the property is
about admissions by a known sample.  It rests on `NothingUncharged`: when the
sample is known, the account never shows less than what is open or may be opened.
It holds again as soon as the files can be counted, because that count includes
what was let in unseen, and a sample keeps it whichever supplier fails, because
what it clears it has counted (`SampleCovers`).

**OAuth tokens** (`TokensAreKept`, in `OAuthTokens`; the property is a conjunction
of an invariant and an action property).  One call at a time talks to the issuer
(`OneAsks`), what the process takes for the file's token is in it, or it takes it
for absent (`StoreAgrees`), and what the asking call may rely on until it is over
(`CallTrue`).  The file is written as a whole, so calls of other keys may write
back what the process has read of this one's token, which changes nothing, or,
after a failed load, erase it: `erased` remembers that, and the property names it
as an exception beside the lost answer and the failed write.

**Statistics and video routes** (`EndpointProofs`).  `StatsAreAccounted`: every
accepted mark is counted, queued, held or lost, only once; after the join what is
lost or still there is late, and what is in the database is counted, about to be
counted, or lost in the moment after its commit.  `RoutesAreOwned`: pruning
removes the oldest route, so a route survives exactly as long as fewer than the
limit are younger (`PruneLeaves`), a task is remembered once, and a request that
found a route has its task's maker as client although the route may be gone.

**The front's snapshot** (`SnapshotIsTrue`, in `EndpointProofs`): the bytes are
those of the file if it still has the stamp that was taken before they were read,
since a replacement gives it another one.

**Request bodies** (`BodiesAreCharged`, in `EndpointProofs`).  The accounts are kept
phase by phase (`Accounts`); what makes it inductive is about the messages that
nobody has read yet: once a frame says that it is the last, only the client's
leaving can follow (`Sealed`), so when the body is complete, or is being decoded,
nothing of it is left (`Ended`) and the monitor has no frame to take (`Watched`).
A monitor whose receive fails ends and is none of these; `DisconnectNoticed` excepts it.

**Parses** (`ParsesArePaid`, in `ResourceProofs`).  The tokens counted are those of the
tasks that stand with one, and a running callback is one of them, since a phase
ends only after its thread (`PaidByStage`).  Nothing is returned before a task is
over; what is held after that is held by a value in use, so closing it, handing
its reservation on and failing exclude each other.

**Stream queues** (`QueuesAreExact`, in `ResourceProofs`), for any finite sets of
streams and of their buffers.  `QueueInv` has one part per stream
(`StreamFine`: the item that is out is the consumer's, the queue's bytes are those
of its items and of the one that is out, nobody sleeps beside what it waits for)
and one for the budget, which is the sum of what the streams owe (`Owing`: queued,
sent, buffered, dropped, or in the hands of a put that has got that far).  A step
moves bytes within one stream (`QuietMoves`), charges what that stream owes more
(`StreamMoves`) or returns what it owes less, and then wakes everybody who sleeps
beside the budget (`StreamReturns`): a stream that sleeps on had no room before,
and has none after a step that returned nothing.  Every action is one of the three.

**Responses** (`ResponsesAreSound`, in `EndpointProofs`).  What is on the wire stays
one response because the writer only ever sends what may follow (`Fits`,
`OnTheWire`): a message is handed over when the writer waits, so the last frame is
whole, or waits behind a send that somebody gave up.  The boundary the response
believes in is therefore the one on the wire whenever nobody is writing
(`Boundary`), which is all that the error event relies on.  For the release, a
call has at most one write of its own or of its stream outstanding (`Writes`), and
a cancelled call ends with its stream unless it had to wait for a failed write
(`Reaped`): that wait is the only way out past `_finalize_once`.

**The Rust front** (`FrontIsSound`, in `EndpointProofs`), for any finite, non-empty
set of requests; without one, the disk's bound would be a chunk below its room.
`FrontInv` says of a request what it holds in which phase (`HoldsByPhase`), of the
counters that they are the sums over the requests, and of the table that its
completed keys are those of `finished`, each once, and that its bytes are the
stored ones (`TableOf`).  The bound of the disk needs a sum that TLC's property does
not mention: a chunk that has found its room and is not written yet counts already
(`Spooled`), and since the request that looks for room is none of those that
write, the others are one less than all (`WritersCount`).  The table changes in four
ways: the oldest completed entries go, which no request owns (`RemovedIsFine`,
`OwnersStay`), and an owner's entry is added, completed or given back
(`EntryAdded`, `EntrySettled`, `EntryDropped`).  A step that does none of these leaves
the claim as it was (`QuietStep`).  A waiter is not forgotten because who owns the
entry it has found can settle it, and goes on telling so until the channel is
written (`Told`, `StillTold`).

What stays with TLC, and why.  Liveness, and whatever rests on ENABLED
(`WaiterGetsTurn`, `QueuedIsAnswered`, `WaiterIsReleased`, `DisconnectNoticed`,
`ResponseEnds`, `StreamSettles`, the other halves of `CloseIsFinal` and
`EvictedStreamReturns`).  What folds or recursive definitions other than sums
compute: `EstimateExact`, `ParserExact`, `EnvelopeFits`.  Filters of sequences:
the windows of `NativeRouteTrue` and the bindings of `SessionsSound`.
`TableSound`, `FrontStreamSound`, `AttemptsAccounted`,
`StreamRetired`, `CompletionFaithful`, `ProxySound` and `RingWalked` have no proof.


## Findings

* **A tenant can hold two places in the round robin** (`round_robin`).  `_remove`
  drops the deque of a tenant whose last waiter gives up and leaves its place in
  the rotation; when it returns it is appended again (`admission/core.py:219`,
  `123-128`).  The class promises tenant round robin.
* **Primed bytes can stay charged for ever** (`responses_leases`).  The
  generator that owns the primed events of a committed stream suspends before
  its `try` (`runtime.py:8371`); a client that leaves there, or before the
  generator's first step, strands them in the process-wide budget and leaves the
  upstream response open.  `StreamRetired` of `response` shows that this is all
  that can be left.
* **The cool-down has no effect on renamed models** (`routing_alias`).  Failures
  are recorded under the provider's name for the model and looked up under the
  client's (`runtime.py:2953`, `src/upstream.py:1123`).

Seen while modelling, and named as exceptions in the properties or as notes of
the hazards, because no document promises otherwise:

* a worker that ends with an exception leaves its queue in the gauges;
* a rate-limit rollback takes back the newest record of the key, whoever made
  it, and a late failure shortens the cool-down of a key out of quota;
* the refresh after an exclusion can leave the runner before the key is cooled;
* a caller that is cancelled while its OAuth refresh is answered loses the
  rotated refresh token, and with it the credential (`auth/codex_oauth.py:169`);
* and so does any key's token when the file could not be read and another key's is
  written next, because the whole table is (`auth/codex_oauth.py:69`, `94`);
* the owner of an idempotency key is lost when its body's file cannot be opened
  or read, because that happens behind the claim and in front of the `try`
  (`middleware/idempotency.py:932`), or when sealing raises an `OSError`: the entry
  runs until a restart, and its waiters have only their time-outs;
* while the open files cannot be counted, attempts and sockets are admitted
  without a limit and their charges are forgotten (`admission/network.py:149`);
* a receive that fails ends the disconnect monitor, and nobody is told, as the
  comment there says (`middleware/request_decompression.py:1287`);
* with the table of abandoned sends full, a response swallows its cancellation
  while it waits for a stuck send (`streaming/logging_response.py:183`);
* the first-byte gauge of a retried stream stays up after a keepalive of the
  first attempt (`runtime.py:1978`);
* a spool file of the front outlives a request that ends inside `finish`
  (`request_spool.rs:201`), and the disk room is checked, not reserved;
* the front buffers without its pre-commit bound after an early keepalive
  (`responses.rs:2094`), and a shorter cool-down may overwrite an open circuit
  (`responses_native.rs:436`);
* a retried answer of the Lingjing API is counted twice;
* Messages, video and Lingjing requests keep the last error body, so a later
  failure that has none is answered with that of an earlier attempt;
* chat, video and Lingjing requests count a 400 against the provider that the
  runner excuses;
* a Messages stream that ends in a protocol error may be summed up as completed,
  and its routing entry stays pending; that of a failed refresh stays started;
* a chat stream that nobody iterates is left to the finalization of its generator;
* the answer to a failed creation that names a task is remembered before its
  status is looked at;
* a shutdown loses the marks that are put after its join.


## Not modelled

`PROJECT.json` lists every part with the reason.  Payload conversions and video
adapters have no control worth checking: they map one document to another, or
make one call.  HTTP endpoints parse a request and call the runtime; reports
query rows that were written.  Observability decides nothing.  Inside the
modelled parts: diagnostics and metrics; the middleware's bypass and call-backs;
the split of large chunks into segments; the spool's move from memory to disk;
the matching of models and rules to providers; weights by pattern; the
provider-specific retry of Azure; the compilation of configurations; the
classification of error texts (an attempt fails in each of the ways it knows);
the lottery's new draw at a refresh of the routes (the run has fixed weights);
conflicting finish reasons and the limits on tool calls of the chat collector,
which the translator in front of it cannot reach;
plain proxying in the Rust front; the text of events and errors.  Liveness of
routing is immediate (every attempt takes a later slot) and costs TLC more than
the rest of the run; that of a streamed request of the front is stated as the
existence of a next step (part of `FrontStreamSound`), because no step is taken
twice.

## Plan

The models are written.  What is left is proofs, in this order: `StreamRetired`
of the streamed request, whose worker and body hand the queue, the buffers and
the upstream response to each other; `ProxySound` and `FrontStreamSound`, the
commit of an attempt in both processes; `OwnersAreRegistered` and
`ReplayIsPinned` of the coordinator; `RingWalked`.  Proofs about two components that share no name may
stand in one module, as those of `EndpointProofs` do.
