---------------------------- MODULE LoggedResponse ----------------------------
(***************************************************************************)
(* LoggingStreamingResponse of uni_api/streaming/logging_response.py and   *)
(* the request lifecycle of observability/middleware.py: __call__, the     *)
(* task that streams the body and the writer task that alone talks to the  *)
(* ASGI adapter.  The adapter may be slow, fail, tear a frame or ignore a  *)
(* cancellation; the peer may leave and the request may be cancelled at    *)
(* every await.                                                            *)
(***************************************************************************)
EXTENDS Integers, Sequences, SequencesExt

CONSTANTS MaxChunks,   \* bound: chunks of one body
          MaxCancels   \* bound: cancellations of one request

ASSUME ResponseAssumption ==
    MaxChunks \in Nat /\ MaxCancels \in Nat

VARIABLES call,    \* where __call__ is, its sendFinal, pending_cancel and stream_outcome
          stream,  \* _stream_task: where it is, how it ended, the segments left to send
          writer,  \* _HardDeadlineASGIWriter and the write it serves
          wire,    \* what reached the peer
          sse,     \* what the response knows of the event boundary
          body,    \* the body iterator: closed, chunks it yielded, the event it is in
          life     \* the request's lifecycle: in flight, summaries emitted, peer gone,
                   \* cancels; whether _TIMED_OUT_IO_TASKS has room for another task

responseVars == <<call, stream, writer, wire, sse, body, life>>

Failure == {"timeout", "disconnect", "senderror", "cancelled", "error", "semantic"}

\* __init__, and dispatch up to its call_next.
ResponseInit ==
    /\ call = [at |-> "dispatch", final |-> TRUE, cancelled |-> FALSE, outcome |-> "none"]
    /\ stream = [at |-> "none", result |-> "none", todo |-> <<>>, meta |-> FALSE, knows |-> FALSE]
    /\ writer = [at |-> "none", msg |-> "none", for |-> "none", live |-> FALSE,
                 queued |-> FALSE, result |-> "none", aborted |-> FALSE]
    /\ wire = <<>>
    /\ \E is \in BOOLEAN, observer \in {"clean", "off"} :
           sse = [is |-> is, observer |-> observer, known |-> is, at |-> is, metaOpen |-> FALSE]
    /\ body = [closed |-> FALSE, chunks |-> 0, mid |-> "no"]
    /\ \E listens, room \in BOOLEAN :
           life = [inflight |-> 1, emitted |-> 0, gone |-> FALSE, cancels |-> 0, listens |-> listens,
                   room |-> room]

-----------------------------------------------------------------------------
(* The writer *)

\* A writer ends by itself or is cancelled while it waits for a message.
Stopped == writer.at \in {"done", "killed"}

\* write: a writer that stopped refuses, one that is stuck in an aborted send
\* never takes the message.
Write(who, msg) ==
    IF Stopped
    THEN writer' = [writer EXCEPT !.for = who,
                                  !.result = IF writer.at = "killed" THEN "cancelled" ELSE "senderror"]
    ELSE writer' = [writer EXCEPT !.for = who, !.result = "none", !.live = TRUE, !.at = "sending",
                                  !.msg = IF writer.at = "sending" THEN @ ELSE msg,
                                  !.queued = writer.at = "sending"]

\* The caller of the message that is being sent still waits for it.
Awaited == writer.live /\ ~ writer.queued

\* After a send the writer goes on only if its caller is still there.
Sent ==
    writer' = IF Awaited THEN [writer EXCEPT !.at = "waiting", !.live = FALSE, !.result = "ok"]
              ELSE [writer EXCEPT !.at = "done"]

AdapterReturns ==
    /\ writer.at = "sending"
    /\ wire' = Append(wire, writer.msg)
    /\ Sent
    /\ UNCHANGED <<call, stream, sse, body, life>>

\* The adapter raises, or honours the cancellation of an aborted write; part of
\* the message may have gone out.
AdapterStops ==
    /\ writer.at = "sending"
    /\ wire' \in {wire, Append(wire, "torn")}
    /\ \E r \in {"disconnect", "senderror"} :
           writer' = [writer EXCEPT !.at = "done", !.live = @ /\ writer.queued,
                                    !.result = IF Awaited THEN r ELSE @]
    /\ UNCHANGED <<call, stream, sse, body, life>>

\* _expire.
Expire ==
    /\ writer.live
    /\ writer' = [writer EXCEPT !.live = FALSE, !.result = "timeout"]
    /\ UNCHANGED <<call, stream, wire, sse, body, life>>

\* The failed write cancels the writer (_cancel_or_bound_detach).
Aborted(w) == [w EXCEPT !.aborted = TRUE, !.at = IF @ = "waiting" THEN "killed" ELSE @]

\* A writer that does not stop is left behind, unless too many were: then its
\* caller waits for it.
AwaitWriter ==
    /\ writer.result \in Failure /\ ~ writer.aborted /\ ~ life.room /\ ~ Stopped
    /\ writer' = Aborted(writer)
    /\ UNCHANGED <<call, stream, wire, sse, body, life>>

\* A cancellation of the caller, which that wait swallows.
CancelWrite(w) == IF w.aborted THEN w ELSE [w EXCEPT !.live = FALSE, !.result = "cancelled"]

SendReturned(who) == writer.for = who /\ writer.result = "ok"
Raised(who) == writer.for = who /\ writer.result \in Failure /\ (life.room \/ Stopped)
Consumed == [(IF writer.result = "ok" THEN writer ELSE Aborted(writer))
                EXCEPT !.for = "none", !.result = "none"]

-----------------------------------------------------------------------------
(* The stream task *)

\* A chunk of the body: raw or with the metadata of its event, in one or two
\* segments, the last of which may end the event.
ReadChunk(meta, segments, ends) ==
    /\ stream.at = "reading" /\ stream.todo = <<>> /\ body.chunks < MaxChunks
    /\ (meta \/ ends) => sse.is
    /\ body.mid \in {"no", IF meta THEN "meta" ELSE "raw"}
    /\ body' = [body EXCEPT !.chunks = @ + 1,
                            !.mid = IF ends THEN "no" ELSE IF meta THEN "meta" ELSE "raw"]
    /\ stream' = [stream EXCEPT !.todo =
                     [i \in 1..segments |-> [meta |-> meta, ends |-> ends /\ i = segments]]]
    /\ UNCHANGED <<call, writer, wire, sse, life>>

\* use_sse_metadata.
UsesMetadata(seg) ==
    seg.meta /\ (sse.metaOpen \/ sse.observer = "clean"
                 \/ (sse.observer = "off" /\ sse.known /\ sse.at))

\* The segment is observed unless its metadata says enough; the observer gives up
\* when it meets a limit.
Observed(seg) ==
    IF UsesMetadata(seg) \/ sse.observer = "off" THEN {sse.observer}
    ELSE {"off", IF seg.ends THEN "clean" ELSE "mid"}

\* Until the send returns nobody knows how much of the frame is on the wire.
SegmentBoundary(observer) == [sse EXCEPT !.observer = observer, !.known = FALSE]

SendSegment ==
    LET seg == Head(stream.todo)
    IN /\ stream.at = "reading" /\ stream.todo # <<>>
       /\ \E observer \in Observed(seg) :
              /\ sse' = SegmentBoundary(observer)
              /\ stream' = [stream EXCEPT !.at = "sending", !.meta = UsesMetadata(seg),
                               !.knows = sse.is /\ (UsesMetadata(seg) \/ observer # "off")]
       /\ Write("stream", IF seg.ends THEN "end" ELSE "part")
       /\ UNCHANGED <<call, wire, body, life>>

\* candidate_sse_boundary: by the metadata, else by what the observer has pending.
EventComplete(seg) == IF stream.meta THEN seg.ends ELSE sse.observer = "clean"

\* The send returned: the boundary is known again if somebody watched it.
SegmentSent ==
    LET complete == EventComplete(Head(stream.todo))
    IN /\ stream.at = "sending" /\ SendReturned("stream")
       /\ writer' = Consumed
       /\ sse' = [sse EXCEPT !.known = stream.knows, !.at = IF stream.knows THEN complete ELSE @,
                             !.metaOpen = IF stream.meta THEN ~ complete ELSE @]
       /\ stream' = [stream EXCEPT !.at = "reading", !.todo = Tail(@)]
       /\ UNCHANGED <<call, wire, body, life>>

\* _stream_response_body ends: what the observer buffered is dropped.
StreamDone(result) ==
    /\ stream' = [stream EXCEPT !.at = "done", !.result = result]
    /\ sse' = [sse EXCEPT !.observer = "off"]

\* The body ended, or raised, a failure that is the upstream's answer included.
BodyEnds ==
    /\ stream.at = "reading" /\ stream.todo = <<>>
    /\ \E result \in {"ok", "error", "semantic"} : StreamDone(result)
    /\ UNCHANGED <<call, writer, wire, body, life>>

SegmentFailed ==
    /\ stream.at = "sending" /\ Raised("stream")
    /\ StreamDone(writer.result)
    /\ writer' = Consumed
    /\ UNCHANGED <<call, wire, body, life>>

\* _stream_task.cancel(): in the body iterator, in a send, or in the wait for a
\* writer that does not stop.
CancelStream ==
    \/ stream.at = "reading" /\ StreamDone("cancelled") /\ UNCHANGED writer
    \/ stream.at = "sending" /\ writer' = CancelWrite(writer) /\ UNCHANGED <<stream, sse>>
    \/ stream.at = "done" /\ UNCHANGED <<stream, sse, writer>>

-----------------------------------------------------------------------------
(* __call__ *)

OutcomeOf(result) ==
    CASE result = "timeout" -> "downstream_write_timeout"
      [] result = "disconnect" -> "downstream_disconnected"
      [] result = "senderror" -> "downstream_send_error"
      [] result = "semantic" -> "upstream_failure_terminal"
      [] OTHER -> result

\* _record_stream_failure keeps a specific outcome against a general one.
WithOutcome(c, outcome) ==
    IF c.outcome \notin {"none", "completed", "error", "cancelled"} /\ outcome \in {"error", "cancelled"}
    THEN c ELSE [c EXCEPT !.outcome = outcome]

\* The except clauses: which failure it was, given that the peer may be gone.
Failed(c, result) ==
    LET peer == life.gone /\ life.listens /\ result \in {"cancelled", "error", "semantic"}
        next == WithOutcome(c, IF peer THEN "downstream_disconnected" ELSE OutcomeOf(result))
    IN [next EXCEPT !.cancelled = @ \/ result = "cancelled",
                    !.final = result \in {"error", "semantic"} /\ ~ peer]

\* finish_request_lifecycle.
EndLifecycle == life' = [life EXCEPT !.inflight = 0, !.emitted = @ + 1]

\* _send_sse_error: only where a stream of events is between two of them.
MaySendError == sse.is /\ sse.known /\ sse.at

\* dispatch answers by itself, fails, or is cancelled: its finally ends the request.
DispatchEnds ==
    /\ call.at = "dispatch"
    /\ call' = [call EXCEPT !.at = "over"]
    /\ EndLifecycle
    /\ body' = [body EXCEPT !.closed = TRUE]
    /\ UNCHANGED <<stream, writer, wire, sse>>

\* The response takes the lifecycle over and is called.
StartResponse ==
    /\ call.at = "dispatch"
    /\ call' = [call EXCEPT !.at = "starting"]
    /\ Write("call", "start")
    /\ UNCHANGED <<stream, wire, sse, body, life>>

Started ==
    /\ call.at = "starting" /\ SendReturned("call")
    /\ writer' = Consumed
    /\ call' = [call EXCEPT !.at = "streaming"]
    /\ stream' = [stream EXCEPT !.at = "reading"]
    /\ UNCHANGED <<wire, sse, body, life>>

StartFailed ==
    /\ call.at = "starting" /\ Raised("call")
    /\ writer' = Consumed
    /\ call' = [Failed(call, writer.result) EXCEPT !.at = "closing"]
    /\ UNCHANGED <<stream, wire, sse, body, life>>

\* asyncio.wait sees the stream task first, whatever else happened.
StreamJoined ==
    /\ call.at \in {"streaming", "dropping"} /\ stream.at = "done"
    /\ CASE stream.result \in {"error", "semantic"} ->
                LET c == Failed(call, stream.result)
                IN IF c.final /\ MaySendError
                   THEN /\ call' = [c EXCEPT !.at = "erring"]
                        /\ Write("call", "error")
                        /\ sse' = [sse EXCEPT !.known = FALSE]
                   ELSE call' = [c EXCEPT !.at = "closing"] /\ UNCHANGED <<writer, sse>>
         [] stream.result = "ok" \/ (stream.result = "cancelled" /\ call.at = "dropping") ->
                /\ call' = [call EXCEPT !.at = "closing", !.outcome = IF @ = "none" THEN "completed" ELSE @]
                /\ UNCHANGED <<writer, sse>>
         [] OTHER -> call' = [Failed(call, stream.result) EXCEPT !.at = "closing"] /\ UNCHANGED <<writer, sse>>
    /\ UNCHANGED <<stream, wire, body, life>>

\* The listener comes first.
DisconnectJoined ==
    /\ call.at = "streaming" /\ life.listens /\ life.gone /\ stream.at # "done"
    /\ call' = [call EXCEPT !.at = "dropping", !.final = FALSE, !.outcome = "downstream_disconnected"]
    /\ CancelStream
    /\ UNCHANGED <<wire, body, life>>

\* _send_sse_error returned, or failed; a cancellation passes the handlers by.
ErrorSent ==
    /\ call.at = "erring" /\ (SendReturned("call") \/ Raised("call"))
    /\ writer' = Consumed
    /\ call' = IF writer.result \in {"ok", "cancelled"}
               THEN [call EXCEPT !.at = "closing", !.cancelled = @ \/ writer.result = "cancelled"]
               ELSE [WithOutcome(call, OutcomeOf(writer.result)) EXCEPT !.at = "closing", !.final = FALSE]
    /\ UNCHANGED <<stream, wire, sse, body, life>>

\* The finally awaits the stream task it cancelled; only a cancellation is
\* suppressed there.
Reap ==
    /\ call.at = "reaping" /\ stream.at = "done"
    /\ call' = [call EXCEPT !.at = IF stream.result \in {"ok", "cancelled"} THEN "closing" ELSE "escaped"]
    /\ UNCHANGED <<stream, writer, wire, sse, body, life>>

SendsFinal(c) == stream.at # "none" /\ c.final

CloseIterator ==
    /\ call.at = "closing"
    /\ body' = [body EXCEPT !.closed = TRUE]
    /\ IF SendsFinal(call) THEN call' = [call EXCEPT !.at = "ending"] /\ Write("call", "final")
       ELSE call' = [call EXCEPT !.at = "joining"] /\ UNCHANGED writer
    /\ UNCHANGED <<stream, wire, sse, life>>

FinalSent ==
    /\ call.at = "ending" /\ (SendReturned("call") \/ Raised("call"))
    /\ writer' = Consumed
    /\ call' = [(IF writer.result = "ok" THEN call ELSE WithOutcome(call, OutcomeOf(writer.result)))
                   EXCEPT !.at = "joining", !.cancelled = @ \/ writer.result = "cancelled"]
    /\ UNCHANGED <<stream, wire, sse, body, life>>

\* Mutant: close waits for the writer's task, an aborted one too.
JoinWriterDone ==
    /\ call.at = "joining"
    /\ writer.at # "sending"
    /\ writer' = [writer EXCEPT !.at = IF @ = "waiting" THEN "done" ELSE @]
    /\ call' = [call EXCEPT !.at = "finalizing"]
    /\ UNCHANGED <<stream, wire, sse, body, life>>

\* _HardDeadlineASGIWriter.close: an aborted writer is not waited for.
JoinWriter ==
    /\ call.at = "joining"
    /\ writer.aborted \/ writer.at # "sending"
    /\ writer' = [writer EXCEPT !.at = IF @ = "waiting" THEN "done" ELSE @]
    /\ call' = [call EXCEPT !.at = "finalizing"]
    /\ UNCHANGED <<stream, wire, sse, body, life>>

\* _finalize_once: the statistics are written, fail or time out, then the lifecycle
\* is ended, again if it was cancelled.
Finalize ==
    /\ call.at = "finalizing"
    /\ EndLifecycle
    /\ call' = [call EXCEPT !.at = "over"]
    /\ UNCHANGED <<stream, writer, wire, sse, body>>

-----------------------------------------------------------------------------
(* The peer and the server *)

PeerLeaves ==
    /\ ~ life.gone
    /\ life' = [life EXCEPT !.gone = TRUE]
    /\ UNCHANGED <<call, stream, writer, wire, sse, body>>

\* Mutant: a cancelled wait leaves the stream task running.
CancelWaitingLeaves ==
    call' = [Failed(call, "cancelled") EXCEPT !.at = "closing"] /\ UNCHANGED <<stream, writer, sse>>

\* The wait for stream and listener is cancelled: the finally cancels the stream.
CancelWaiting == call' = [Failed(call, "cancelled") EXCEPT !.at = "reaping"] /\ CancelStream

\* A cancellation of the request, at the await where __call__ is.
CancelRequest ==
    /\ life.cancels < MaxCancels
    /\ life' = [life EXCEPT !.cancels = @ + 1]
    /\ \/ /\ call.at \in {"starting", "erring", "ending"} /\ writer.for = "call"
          /\ writer' = CancelWrite(writer) /\ UNCHANGED <<call, stream, sse>>
       \/ call.at = "streaming" /\ life.listens /\ stream.at # "done" /\ CancelWaiting
       \/ /\ \/ call.at = "streaming" /\ ~ life.listens
             \/ call.at \in {"dropping", "reaping"}
          /\ CancelStream /\ UNCHANGED call
       \/ /\ call.at \in {"closing", "joining", "finalizing"}
          /\ call' = [call EXCEPT !.cancelled = TRUE] /\ UNCHANGED <<stream, writer, sse>>
    /\ UNCHANGED <<wire, body>>

ResponseSteps ==
    \/ StartResponse \/ Started \/ StartFailed \/ StreamJoined \/ DisconnectJoined \/ ErrorSent
    \/ Reap \/ CloseIterator \/ FinalSent \/ JoinWriter \/ Finalize
    \/ SendSegment \/ SegmentSent \/ SegmentFailed \/ AwaitWriter \/ Expire

ResponseNext ==
    \/ ResponseSteps \/ DispatchEnds \/ BodyEnds \/ PeerLeaves \/ CancelRequest
    \/ AdapterReturns \/ AdapterStops
    \/ \E meta \in BOOLEAN, segments \in 1..2, ends \in BOOLEAN : ReadChunk(meta, segments, ends)

-----------------------------------------------------------------------------
\* What reaches the peer is one response: the error event never lands in the
\* middle of a frame, nothing follows the final body or a torn frame, and a
\* response recorded as completed did reach its final body.
WireSound ==
    /\ \A i \in DOMAIN wire :
           /\ wire[i] = "error" => wire[i - 1] \in {"start", "end"}
           /\ wire[i] \in {"final", "torn"} => i = Len(wire)
           /\ (wire[i] = "start") <=> (i = 1 /\ wire[i] # "torn")
    /\ call.at \in {"joining", "finalizing", "over"} /\ call.outcome = "completed"
           => wire # <<>> /\ Last(wire) = "final"

\* A request leaves the in-flight gauge once and with one summary, when its body
\* is closed and its stream task is gone, with what that buffered.  It is never
\* released only where a failed write was waited for, because too many tasks were
\* left behind, and escapes from the cancelled call's finally.
LifecycleOnce ==
    /\ life.inflight = 1 - life.emitted
    /\ life.inflight = 0 => body.closed /\ stream.at \in {"none", "done"}
    /\ stream.at = "done" => sse.observer # "mid"
    /\ call.at \in {"over", "escaped"} /\ life.inflight = 1 => ~ life.room /\ life.cancels > 0

\* A response is sound (logging_response.py): what goes over the wire is one well-formed
\* response, whichever of body, peer, adapter and cancellation ends it first, and the request
\* is released and summarised once.
ResponseSound == WireSound /\ LifecycleOnce

\* A request whose peer left, or that was cancelled, ends and is released, even
\* with an adapter that blocks for ever, while a stuck task can be left behind.
ResponseEnds ==
    (/\ call.at # "dispatch" /\ life.room
     /\ (life.gone /\ life.listens) \/ life.cancels > 0) ~> (call.at = "over")
=============================================================================
