--------------------------- MODULE ResponsesStream ---------------------------
(***************************************************************************)
(* A streamed /v1/responses request, ResponsesRequestExecution of          *)
(* uni_api/runtime.py: the worker task that runs the upstream attempts and *)
(* fills the output queue (_stream_worker), and the response body that     *)
(* empties it (_run_stream, _ResponsesQueueBody).  StreamQueue has the     *)
(* queue, the buffers and the shared budget.                               *)
(*                                                                         *)
(* The body stops the worker by cancelling its task.  A cancellation is    *)
(* delivered where the worker is suspended; most awaits raise it, the      *)
(* cleanup of the upstream connection absorbs it, and so does the wait for *)
(* the disconnect task that ends _await_first_byte_deadline.               *)
(***************************************************************************)
EXTENDS StreamQueue

CONSTANT MaxTries    \* how many providers the routing plan can offer

ASSUME TriesAssumption == MaxTries \in Nat \ {0} /\ {"precommit", "prime"} \subseteq Buffers

\* w: the workers.  cancel is a cancellation not delivered yet, started is
\* stream_body_started, kept is stream_keepalive_sent, then is how the phase in
\* progress will end, left the chunks of an answer still to be emitted, up that
\* an upstream response is open, exc that the task ended with an exception.
\* b: the bodies.  registered is membership in the gauges' _stream_queues,
\* retire that the queue is retired by _run_stream itself.
VARIABLES w, b

vars == <<queueVars, w, b>>

Worker == [ph |-> "select", cancel |-> FALSE, started |-> FALSE, kept |-> FALSE,
           then |-> "none", left |-> 0, up |-> FALSE, exc |-> FALSE, tries |-> 1]

Init ==
    /\ QueueInit
    /\ w = [s \in Streams |-> Worker]
    /\ b = [s \in Streams |-> [ph |-> "first", registered |-> TRUE, retire |-> FALSE]]

\* The worker is in phase ph and in no put.
At(s, ph) == w[s].ph = ph /\ put[s] = Idle

\* The worker is about to resume there, with no cancellation to deliver.
Runs(s, ph) == At(s, ph) /\ ~w[s].cancel

Enter(s, ph) == w' = [w EXCEPT ![s].ph = ph]

\* Raise why, or the cancellation that came meanwhile, into phase ph.
Fail(s, ph, why) ==
    w' = [w EXCEPT ![s].ph = ph, ![s].cancel = FALSE,
                   ![s].then = IF w[s].cancel THEN "cancel" ELSE why]

-----------------------------------------------------------------------------
(* The attempts: UpstreamRunner.run, _execute_stream_attempt *)

HeadersArrive(s) ==
    /\ Runs(s, "select") /\ drop[s] = <<>>
    /\ w' = [w EXCEPT ![s].ph = "prime", ![s].up = TRUE]
    /\ UNCHANGED <<queueVars, b>>

\* No provider, no key, no connection or an error status; or the client has gone.
SelectFails(s) ==
    /\ Runs(s, "select") /\ drop[s] = <<>>
    /\ \E why \in {"failed", "gone"} : Fail(s, "cleaning", why)
    /\ UNCHANGED <<queueVars, b>>

\* _emit_precommit_keepalive: buffered, or passed through to the client.
KeepAlive(s) ==
    /\ Runs(s, "prime") /\ ~w[s].kept
    /\ \E n \in Sizes :
          \/ /\ ReserveChunk(s, n, "precommit")
             /\ w' = [w EXCEPT ![s].kept = TRUE]
          \/ /\ ReserveChunk(s, n, "queue")
             /\ w' = [w EXCEPT ![s].kept = TRUE, ![s].started = TRUE]
    /\ UNCHANGED b

\* _prime_responses_upstream_stream buffers an event, ...
PrimeAppend(s) ==
    /\ Runs(s, "prime")
    /\ \E n \in Sizes : ReserveChunk(s, n, "prime")
    /\ UNCHANGED <<w, b>>

\* ... returns its buffer at the event that commits the response, ...
PrimeReturns(s) ==
    /\ Runs(s, "prime") /\ buf[s]["prime"] # <<>>
    /\ Enter(s, "committing")
    /\ UNCHANGED <<queueVars, b>>

\* ... is stopped by the deadline or the disconnect while it reserves, ...
PrimeInterrupted(s) ==
    /\ w[s].ph = "prime"
    /\ StopPut(s, "cancel")
    /\ UNCHANGED <<w, b>>

\* Mutant of PrimeFails: the events buffered so far are forgotten.
PrimeFails_Forgets(s) ==
    /\ At(s, "prime")
    /\ \E why \in {"failed", "gone"} : Fail(s, "cleaning", why)
    /\ UNCHANGED <<queueVars, b>>

\* ... or fails, is cancelled, or sees the client go; its buffer is cleared.
PrimeFails(s) ==
    /\ At(s, "prime")
    /\ Clear(s, "prime")
    /\ \E why \in {"failed", "gone"} : Fail(s, "cleaning", why)
    /\ UNCHANGED b

\* An error of a put or an append in the attempt.  A local overload is final.
PrimePutFails(s) ==
    /\ w[s].ph = "prime" /\ put[s].ph = "idle" /\ put[s].why # "none"
    /\ put' = [put EXCEPT ![s] = Idle]
    /\ buf' = [buf EXCEPT ![s]["prime"] = <<>>]
    /\ drop' = [drop EXCEPT ![s] = @ \o buf[s]["prime"]]
    /\ \E why \in CASE put[s].why = "timeout" -> {"rejected"}
                    [] put[s].why = "cancel"  -> {"failed", "gone"}
                    [] OTHER                  -> {"failed"} : Fail(s, "cleaning", why)
    /\ UNCHANGED <<budget, q, get, b>>

\* _await_first_byte_deadline drops a cancellation that reaches it while it waits
\* for its disconnect task; then the client may be seen to have gone.
Commit(s) ==
    /\ At(s, "committing")
    /\ \/ /\ w' = [w EXCEPT ![s].ph = "draining", ![s].cancel = FALSE]
          /\ UNCHANGED queueVars
       \/ /\ w' = [w EXCEPT ![s].ph = "cleaning", ![s].then = "gone", ![s].cancel = FALSE]
          /\ Clear(s, "prime")
    /\ UNCHANGED b

\* Mutant of CanRetry: one attempt more than there are providers.
\* The plan has another provider and the failure may be retried.
CanRetry(s) == w[s].tries < MaxTries

\* How the worker goes on after an attempt that ended with t: _before_next_attempt
\* clears the keepalive of a retry, and an answer replaces it.
Decide(s, t) ==
    LET answer == [w[s] EXCEPT !.ph = "answering", !.up = FALSE, !.cancel = FALSE]
        gone   == [answer EXCEPT !.ph = "finally"]
    IN  \/ t = "cancel" /\ w' = [w EXCEPT ![s] = gone]
        \/ /\ t = "failed" /\ CanRetry(s)
           /\ w' = [w EXCEPT ![s] = [answer EXCEPT !.ph = "select", !.tries = @ + 1,
                                                   !.kept = w[s].started /\ @]]
        \/ /\ t \in {"failed", "rejected"}
           /\ \E n \in IF w[s].started THEN {1, 2} ELSE {1} :
                 w' = [w EXCEPT ![s] = [answer EXCEPT !.left = n]]
        \/ /\ t = "gone"
           /\ w' = [w EXCEPT ![s] = IF w[s].started THEN gone ELSE [answer EXCEPT !.left = 1]]

\* The attempt's upstream response is closed.  A cancellation that arrives while
\* the cleanup runs is absorbed; before or after it, it is raised.
CleanUp(s) ==
    /\ At(s, "cleaning") /\ drop[s] = <<>>
    /\ \E t \in {w[s].then} \cup IF w[s].cancel THEN {"cancel"} ELSE {} : Decide(s, t)
    /\ IF w[s].started THEN UNCHANGED queueVars ELSE Clear(s, "precommit")
    /\ UNCHANGED b

-----------------------------------------------------------------------------
(* _stream_worker: a committed stream *)

\* The buffered keepalive goes out first; nothing is awaited in between.
Drain(s) ==
    /\ At(s, "draining")
    /\ \/ /\ PutBuffered(s, "precommit")
          /\ w' = [w EXCEPT ![s].started = TRUE]
       \/ /\ buf[s]["precommit"] = <<>>
          /\ Enter(s, "workspace")
          /\ UNCHANGED queueVars
    /\ UNCHANGED b

\* _proxy_responses_stream awaits its parse workspace, then enters its try.
WorkspaceReady(s) ==
    /\ Runs(s, "workspace")
    /\ Enter(s, "streaming")
    /\ UNCHANGED <<queueVars, b>>

SendBuffered(s) ==
    /\ Runs(s, "streaming")
    /\ PutBuffered(s, "prime")
    /\ w' = [w EXCEPT ![s].started = TRUE]
    /\ UNCHANGED b

SendChunk(s) ==
    /\ Runs(s, "streaming") /\ buf[s]["prime"] = <<>>
    /\ \E n \in Sizes : ReserveChunk(s, n, "queue")
    /\ w' = [w EXCEPT ![s].started = TRUE]
    /\ UNCHANGED b

\* The terminal event, an upstream failure, a disconnect or a cancellation.
StreamEnds(s) ==
    /\ At(s, "streaming")
    /\ Clear(s, "prime")
    /\ Fail(s, "closing", "end")
    /\ UNCHANGED b

\* What _stream_worker does with an error t of an emit; up: whether the upstream
\* response stays open.
Catch(s, t, up) ==
    w' = [w EXCEPT ![s].up = up, ![s].cancel = FALSE,
                   ![s].ph = CASE t = "timeout" -> "aborting"
                               [] t = "closed"  -> "handling"
                               [] OTHER         -> "finally",
                   ![s].left = IF t # "closed" THEN 0 ELSE IF w[s].started THEN 2 ELSE 1]

\* The generator is closed and closes the upstream response.
CloseUpstream(s) ==
    /\ At(s, "closing") /\ drop[s] = <<>>
    /\ \E t \in {w[s].then} \cup IF w[s].cancel THEN {"cancel"} ELSE {} : Catch(s, t, FALSE)
    /\ UNCHANGED <<queueVars, b>>

-----------------------------------------------------------------------------
(* _stream_worker: answers, errors and its end *)

\* The final response, or the chunks that report an error to a started body.
Answer(s) ==
    /\ \E ph \in {"answering", "handling"} : Runs(s, ph)
    /\ drop[s] = <<>>
    /\ \/ /\ w[s].left > 0
          /\ \E n \in Sizes : ReserveChunk(s, n, "queue")
          /\ w' = [w EXCEPT ![s].left = @ - 1]
       \/ /\ w[s].left = 0
          /\ Enter(s, "finally")
          /\ UNCHANGED queueVars
    /\ UNCHANGED b

\* A put ended with an error; a cancellation that came meanwhile replaces it.
PutError(s) == put[s].ph = "idle" /\ put[s].why # "none"

Error(s) == IF w[s].cancel THEN "cancel" ELSE put[s].why

\* In streaming the generator is closed first, in any other phase nothing is.
EmitFails(s) ==
    /\ PutError(s)
    /\ put' = [put EXCEPT ![s] = Idle]
    /\ \/ /\ w[s].ph = "streaming"
          /\ Fail(s, "closing", put[s].why)
          /\ buf' = [buf EXCEPT ![s]["prime"] = <<>>]
          /\ drop' = [drop EXCEPT ![s] = @ \o buf[s]["prime"]]
       \/ /\ w[s].ph \in {"draining", "answering"}
          /\ Catch(s, Error(s), w[s].up)
          /\ UNCHANGED <<buf, drop>>
    /\ UNCHANGED <<budget, q, get, b>>

\* Mutant of HandlerFails: the handler reports its own error once more.
HandlerFails_Again(s) ==
    /\ PutError(s) /\ w[s].ph = "handling"
    /\ put' = [put EXCEPT ![s] = Idle]
    /\ Catch(s, Error(s), w[s].up)
    /\ UNCHANGED <<budget, q, buf, drop, get, b>>

\* _handle_stream_worker_error may raise StreamQueueClosed out of the task.
HandlerFails(s) ==
    /\ PutError(s) /\ w[s].ph = "handling"
    /\ put' = [put EXCEPT ![s] = Idle]
    /\ w' = [w EXCEPT ![s].cancel = FALSE, ![s].exc = Error(s) = "closed",
                      ![s].ph = IF Error(s) = "timeout" THEN "aborting" ELSE "finally"]
    /\ UNCHANGED <<budget, q, buf, drop, get, b>>

\* A cancellation where nothing of the worker's own has to be cleaned up first.
CancelArrives(s) ==
    /\ w[s].cancel
    /\ \E ph \in {"select", "workspace", "answering", "handling"} : At(s, ph)
    /\ w' = [w EXCEPT ![s].ph = "finally", ![s].cancel = FALSE]
    /\ UNCHANGED <<queueVars, b>>

\* _abort_stream_for_backpressure
Abort(s) ==
    /\ At(s, "aborting")
    /\ Close(s, TRUE)
    /\ Enter(s, "finally")
    /\ UNCHANGED b

Finally(s) ==
    /\ At(s, "finally")
    /\ Clear(s, "precommit")
    /\ Enter(s, "last")
    /\ UNCHANGED b

\* close comes after clear, and is skipped when clear is cancelled.
WorkerEnds(s) ==
    /\ At(s, "last") /\ drop[s] = <<>>
    /\ \/ /\ Close(s, FALSE)
          /\ w' = [w EXCEPT ![s].ph = "ended", ![s].cancel = FALSE]
       \/ /\ w[s].cancel
          /\ w' = [w EXCEPT ![s].ph = "ended", ![s].cancel = FALSE, ![s].exc = FALSE]
          /\ UNCHANGED queueVars
    /\ UNCHANGED b

-----------------------------------------------------------------------------
(* _run_stream and _ResponsesQueueBody *)

BodyEnters(s, ph) ==
    b' = [b EXCEPT ![s].ph = ph, ![s].retire = ph = "retiring" \/ @]

\* The first item is a whole response when no chunk was ever emitted.
FirstItem(s) ==
    /\ b[s].ph = "first" /\ get[s].ph \in {"holding", "ended"}
    /\ BodyEnters(s, IF get[s].ph = "holding" /\ w[s].started THEN "body" ELSE "retiring")
    /\ UNCHANGED <<queueVars, w>>

BodyGets(s) ==
    /\ b[s].ph \in {"first", "body"}
    /\ GetLease(s)
    /\ UNCHANGED <<w, b>>

\* The chunk was sent, or its body is being closed: the item is released.
BodyReleases(s) ==
    /\ b[s].ph \in {"body", "closing", "retiring"}
    /\ ReleaseInflight(s)
    /\ UNCHANGED <<w, b>>

\* The end of the queue, a failed send, a disconnect or a shutdown.
BodyStops(s) ==
    /\ b[s].ph \in {"first", "body"}
    /\ IF get[s].ph \in {"asleep", "awake"} THEN GetCancelled(s) ELSE UNCHANGED queueVars
    /\ b[s].ph = "first" => get[s].ph \in {"asleep", "awake"}
    /\ BodyEnters(s, IF b[s].ph = "first" THEN "retiring" ELSE "closing")
    /\ UNCHANGED w

Cancelled(s) == w' = [w EXCEPT ![s].cancel = w[s].ph # "ended"]

\* _close_stream_body cancels and closes in one turn; retire_unreturned_queue
\* waits for the released leases before it cancels.
CloseBody(s) ==
    /\ get[s].ph \in {"idle", "ended"}
    /\ \/ /\ b[s].ph = "closing"
          /\ Cancelled(s)
          /\ Close(s, TRUE)
          /\ BodyEnters(s, "awaiting")
       \/ /\ b[s].ph = "retiring"
          /\ Close(s, TRUE)
          /\ BodyEnters(s, "retired")
          /\ UNCHANGED w
       \/ /\ b[s].ph = "retired" /\ drop[s] = <<>>
          /\ Cancelled(s)
          /\ BodyEnters(s, "awaiting")
          /\ UNCHANGED queueVars

\* The worker's task is awaited; an exception of it skips unregister_stream_queue
\* in _close_stream_body, which has no finally.
BodyDone(s) ==
    /\ b[s].ph = "awaiting" /\ w[s].ph = "ended" /\ drop[s] = <<>>
    /\ b' = [b EXCEPT ![s].ph = "done", ![s].registered = w[s].exc /\ ~b[s].retire]
    /\ UNCHANGED <<queueVars, w>>

-----------------------------------------------------------------------------
\* A put in progress; a cancellation stops it where it waits.
PutRuns(s) ==
    /\ IF w[s].cancel THEN StopPut(s, "cancel")
       ELSE \/ BudgetRetry(s) \/ QueueRetry(s) \/ LeaseTaken(s)
            \/ StopPut(s, "timeout")
    /\ UNCHANGED <<w, b>>

\* Steps of other tasks: the governor and the releases of leases.
OthersRun(s) ==
    /\ ParentGrants(s) \/ PutFailed(s) \/ ItemSettled(s) \/ DropReturned(s)
    /\ UNCHANGED <<w, b>>

BodyWakes(s) == GetRetry(s) /\ UNCHANGED <<w, b>>

WorkerStep(s) ==
    \/ HeadersArrive(s)
    \/ SelectFails(s)
    \/ KeepAlive(s)
    \/ PrimeAppend(s)
    \/ PrimeReturns(s)
    \/ PrimeInterrupted(s)
    \/ PrimeFails(s)
    \/ PrimePutFails(s)
    \/ Commit(s)
    \/ CleanUp(s)
    \/ Drain(s)
    \/ WorkspaceReady(s)
    \/ SendBuffered(s)
    \/ SendChunk(s)
    \/ StreamEnds(s)
    \/ CloseUpstream(s)
    \/ Answer(s)
    \/ EmitFails(s)
    \/ HandlerFails(s)
    \/ CancelArrives(s)
    \/ Abort(s)
    \/ Finally(s)
    \/ WorkerEnds(s)
    \/ PutRuns(s)

BodyStep(s) ==
    \/ FirstItem(s)
    \/ BodyGets(s)
    \/ BodyWakes(s)
    \/ BodyReleases(s)
    \/ CloseBody(s)
    \/ BodyDone(s)

Next == \E s \in Streams : WorkerStep(s) \/ BodyStep(s) \/ BodyStops(s) \/ OthersRun(s)

Spec == Init /\ [][Next]_vars

\* Tasks that are ready run; upstream waits end by their deadlines, waits for
\* room by their time-outs.  Nobody promises that the client leaves.
FairSpec ==
    /\ Spec
    /\ \A s \in Streams :
          WF_vars(WorkerStep(s)) /\ WF_vars(BodyStep(s)) /\ WF_vars(OthersRun(s))

-----------------------------------------------------------------------------
\* The shape of the state; the attempts stay within the plan's providers.
TypeOK ==
    /\ QueueTypeOK
    /\ w \in [Streams -> [ph : {"select", "prime", "committing", "cleaning", "draining",
                                "workspace", "streaming", "closing", "answering",
                                "handling", "aborting", "finally", "last", "ended"},
                          cancel : BOOLEAN, started : BOOLEAN, kept : BOOLEAN,
                          then : {"none", "failed", "gone", "rejected", "end", "cancel",
                                  "timeout", "closed"},
                          left : 0..2, up : BOOLEAN, exc : BOOLEAN, tries : 1..MaxTries]]
    /\ b \in [Streams -> [ph : {"first", "body", "closing", "retiring", "retired",
                                "awaiting", "done"},
                          registered : BOOLEAN, retire : BOOLEAN]]

Done(s) == b[s].ph = "done"

\* What a finished stream still has charged to the process-wide budget.
Kept(s) == Leased(s) + PutBytes(s, Holding \cup {"parent"})

\* A stream that is over holds no bytes, unless the upstream response of its
\* committed attempt was never closed: then exactly the primed events.
KeepsOnlyPrimed ==
    \A s \in Streams : Done(s) =>
        Kept(s) = IF w[s].up THEN Total(buf[s]["prime"]) ELSE 0

\* The queue of a stream that is over is closed, empty and unregistered, unless
\* its worker's task ended with an exception; and a retry does not find the
\* keepalive of an earlier attempt in its buffer, which holds one event only.
QueueRetired ==
    \A s \in Streams :
        /\ Done(s) => /\ q[s].closed /\ q[s].items = <<>> /\ q[s].out = 0
                      /\ b[s].registered => w[s].exc
        /\ Len(buf[s]["precommit"]) + (IF put[s].to = "precommit" THEN 1 ELSE 0) <= 1

\* A stream that is over is retired (runtime.py, _run_stream and _ResponsesQueueBody): its
\* queue is closed, empty and unregistered and holds no bytes of the process-wide budget,
\* up to the exceptions that the two parts name.
StreamRetired == KeepsOnlyPrimed /\ QueueRetired

\* Every request gets its first item or is retired, and the cleanup of a body
\* always ends, however the cancellation of its worker is delivered or absorbed.
StreamSettles ==
    \A s \in Streams :
        b[s].ph \in {"first", "closing", "retiring", "retired", "awaiting"} ~> b[s].ph \in {"body", "done"}

\* A stream that is over has returned every byte of the process-wide budget, as
\* test_responses_retry.py asserts after a stream.
LeasesReturned == \A s \in Streams : Done(s) => Kept(s) = 0
==============================================================================
