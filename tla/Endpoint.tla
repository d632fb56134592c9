------------------------------- MODULE Endpoint -------------------------------
(***************************************************************************)
(* One request of an endpoint and its upstream attempts: UpstreamRunner.run *)
(* of upstream.py with the handlers of uni_api/runtime.py that it calls,    *)
(* the chat completions (ModelRequestHandler and process_request), buffered *)
(* Responses, Messages (MessagesPassthroughHandler), video tasks and the    *)
(* Lingjing API.  An attempt is prepared, sent, and its answer buffered or  *)
(* streamed; the client may leave at any time.  What each attempt leaves    *)
(* behind is a routing entry, a life in the ledger of ResponseAttempts, and *)
(* at most one mark in the channel statistics.                              *)
(*                                                                         *)
(* Which provider and key an attempt takes is in Routing.  Streamed         *)
(* Responses have modules of their own (ResponsesStream, ResponsesProxy).   *)
(***************************************************************************)
EXTENDS ResponseAttempts

CONSTANT Kinds   \* the endpoints of this instance

Chat == {"chat", "chat_stream"}
Streamed == {"chat_stream", "messages_stream"}
Passed == {"messages", "messages_stream", "video", "lingjing"}   \* bodies are passed through

ASSUME KindsAssumption == Kinds \subseteq Chat \cup Passed \cup {"responses"}

VARIABLES rq,   \* the request: its endpoint, AUTO_RETRY, the slots of its plan, its phase,
                \* last_error_response (the attempt whose body it keeps), and its answer
          att   \* its attempts

endpointVars == <<lg, told, rq, att>>

(***************************************************************************)
(* How an attempt fails:                                                   *)
(*   local            refused by the gateway's own admission               *)
(*   shared           a transport failure that is not the provider's       *)
(*   network          any other transport failure                          *)
(*   scoped           a 400 or 413, or the 404 of an item not stored       *)
(*   tolerated        a 400 that another provider might not answer         *)
(*   semantic         a failure that a Responses provider declares, ...    *)
(*   semantic_scoped  ... with the status 400 or 413                       *)
(*   refused          404, 422 and the like                                *)
(*   denied           401 or 403                                           *)
(*   down             429, 5xx and the like                                *)
(*   malformed        an answer of 2xx that cannot be decoded, or is empty *)
(*   protocol         a stream that is no SSE, or ends too early           *)
(*   unbuilt          the upstream request cannot be built                 *)
(***************************************************************************)
Answers == {"scoped", "tolerated", "refused", "denied", "down"}
Declared == {"semantic", "semantic_scoped"}

\* Without an answer of the provider ...
Broken(kind) == {"local", "shared", "network"}
                    \cup IF kind = "messages_stream" THEN {"malformed"} ELSE {}
\* ... and with one.
Rejected(kind) == Answers \cup CASE kind \in Chat \cup {"responses"} -> Declared \cup {"malformed"}
                                [] kind = "video" -> {"malformed"}
                                [] OTHER -> {}
PrepareFaults(kind) == {"scoped", "down"} \cup IF kind = "responses" THEN Broken(kind) ELSE {}

NoAnswer == [status |-> "none", of |-> 0]

NewAttempt == [outcome |-> "started", fault |-> "none", got |-> FALSE, track |-> FALSE,
               good |-> 0, bad |-> 0, conn |-> "none"]

EndpointInit ==
    /\ AttemptsInit
    /\ rq \in [kind : Kinds, auto : BOOLEAN, slots : 1 .. MaxAttempts, ph : {"next"},
               gone : {FALSE}, last : {0}, answer : {NoAnswer}]
    /\ att = <<>>

N == Len(att)
Cur == att[N]

Keep(a) == att' = [att EXCEPT ![N] = a]
Moves(ph) == rq' = [rq EXCEPT !.ph = ph]
Answer(status, of) == rq' = [rq EXCEPT !.ph = "write", !.answer = [status |-> status, of |-> of]]

\* The connection is released, by whoever reads it.
Closed(a) == [a EXCEPT !.conn = "closed"]

Settle(outcome, keep) == Becomes(FinishAttempt(lg, told, outcome, keep))
LedgerKept == UNCHANGED attemptVars

\* The disconnect event of the request is set.
Leave == /\ rq.ph # "done" /\ ~ rq.gone
         /\ rq' = [rq EXCEPT !.gone = TRUE]
         /\ UNCHANGED <<att, attemptVars>>

-----------------------------------------------------------------------------
(* The runner *)

RetryPending == N > 0 /\ Cur.outcome = "retry_decided"
Resolved(outcome) == att' = IF RetryPending THEN [att EXCEPT ![N].outcome = outcome] ELSE att

\* before_next_attempt of every handler.
AbortRetries ==
    /\ rq.ph = "next" /\ rq.gone
    /\ Resolved("retry_aborted_before_transition") /\ Answer("gone", 0)
    /\ LedgerKept

\* next_provider has no slot left; build_final_response.
PlanExhausted ==
    /\ rq.ph = "next" /\ ~ rq.gone /\ N = rq.slots
    /\ Resolved("retry_exhausted") /\ Answer("error", N)
    /\ LedgerKept

\* _start_routing_attempt.
StartRouting ==
    /\ rq.ph = "next" /\ ~ rq.gone /\ N < rq.slots
    /\ att' = Append(att, NewAttempt)
    /\ Moves(IF rq.kind \in Chat THEN "send" ELSE "prepare")
    /\ Becomes(<<BeginAttempt(lg), told>>)

\* Mutant: a failure that is not the provider's is counted, too.
ExcusedFewer == {"local", "scoped", "tolerated", "semantic_scoped"}
\* The failures that clear track_channel_stats.
Excused == {"local", "shared", "scoped", "tolerated", "semantic_scoped"}

\* should_retry_provider, and what a retry is not left to.
Final == {"local", "scoped", "semantic_scoped"}

\* The retry decisions that _handle_failure may come to.  A 403 or 404 may open
\* the circuit of the last provider there is, where circuits are kept.
Decisions(f, preparing) ==
    IF ~ rq.auto \/ f \in {"local", "semantic_scoped"} \/ (f \in Final /\ ~ preparing) THEN {FALSE}
    ELSE IF ~ preparing /\ rq.kind \in Chat \cup {"responses"} /\ f \in {"refused", "denied", "semantic"}
    THEN BOOLEAN ELSE {TRUE}

\* last_error_response when _handle_failure is over: the Responses handler clears
\* it and keeps what the provider declared, the others keep what they have.
LastError(f) == CASE rq.kind = "responses" -> IF f \in Declared THEN N ELSE 0
                  [] rq.kind \in Passed -> IF f \in Answers THEN N ELSE rq.last
                  [] OTHER -> 0

\* _handle_failure with after_failure and _record_routing_failure, for the
\* attempt as it is in a.  build_error_response answers with the body of
\* last_error_response if there is one, else with the text of this failure;
\* build_final_response always with the latter.
HandleFailure(a, f, preparing) ==
    LET counts == rq.kind \notin Chat /\ a.track /\ f \notin Excused
        last == IF preparing /\ rq.kind \in Passed THEN rq.last ELSE LastError(f)
    IN \E retry \in Decisions(f, preparing) :
          LET outcome == IF retry THEN "retry_decided" ELSE "failed"
          IN /\ Keep([a EXCEPT !.fault = f, !.outcome = outcome,
                               !.bad = IF counts THEN @ + 1 ELSE @])
             /\ Settle(outcome, FALSE)
             /\ rq' = [rq EXCEPT !.last = last,
                          !.ph = IF retry THEN "next" ELSE "write",
                          !.answer = IF retry THEN @ ELSE
                             [status |-> "error",
                              of |-> IF preparing \/ last = 0 THEN N ELSE last]]

\* The exclusion of a route leaves no provider: the exception leaves run before
\* after_failure, and the entry stays as it is.
RefreshRaises(a, f) ==
    /\ rq.kind \in Chat \cup {"responses"} /\ f \notin Excused
    /\ Keep([a EXCEPT !.fault = f]) /\ Answer("error", N) /\ LedgerKept

-----------------------------------------------------------------------------
(* An attempt *)

\* prepare_attempt; the chat handler has none.
PrepareFails ==
    /\ rq.ph = "prepare"
    /\ \E f \in PrepareFaults(rq.kind) : HandleFailure(Cur, f, TRUE)

Prepared == rq.ph = "prepare" /\ Moves("send") /\ UNCHANGED <<att, attemptVars>>

\* The request is built, logged and sent; from here on the attempt is counted.
Sends ==
    /\ rq.ph = "send" /\ Cur.conn = "none"
    /\ Keep([Cur EXCEPT !.track = TRUE, !.conn = "open"])
    /\ UNCHANGED <<rq, attemptVars>>

\* What fails before that is not.  The chat handler builds the request in the
\* task of process_request, and selects the key outside of it.
BuildFails ==
    /\ rq.ph = "send" /\ Cur.conn = "none" /\ rq.kind \notin {"video", "lingjing"}
    /\ \/ HandleFailure(Cur, "unbuilt", FALSE) \/ RefreshRaises(Cur, "unbuilt")
       \/ /\ rq.kind \in Chat
          /\ Keep([Cur EXCEPT !.fault = "unbuilt"]) /\ Moves("resume") /\ LedgerKept

Sending(kinds) == rq.ph = "send" /\ rq.kind \in kinds /\ Cur.conn = "open"

\* The whole answer has come.
Received(a) == [Closed(a) EXCEPT !.got = TRUE, !.good = @ + 1]

\* process_request returns: a buffered answer is counted at once, a stream when
\* it ends.
ChatReturns ==
    /\ Sending(Chat) /\ Moves("resume") /\ LedgerKept
    /\ Keep(IF rq.kind = "chat" THEN Received(Cur) ELSE Cur)

ChatFails ==
    /\ Sending(Chat) /\ Moves("resume") /\ LedgerKept
    /\ \E f \in Broken(rq.kind) \cup Rejected(rq.kind) :
          Keep([Closed(Cur) EXCEPT !.fault = f,
                  !.bad = IF f \in {"local", "shared", "semantic_scoped"} \/ rq.gone THEN @ ELSE @ + 1])

\* _cancel_awaitable_task_and_cleanup_result: the operation is cancelled, and a
\* result that it has all the same is closed.  To close the body of a chat stream
\* that nobody has iterated does not reach its source.
Abandoned(a) == {Closed(a)} \cup CASE rq.kind = "chat" -> {Received(a)}
                                  [] rq.kind = "chat_stream" -> {[a EXCEPT !.conn = "orphan"]}
                                  [] OTHER -> {}

\* The client's departure is seen while the operation is pending, or when it has
\* succeeded.
Departed ==
    /\ rq.gone /\ (Sending(Kinds) \/ rq.ph = "resume")
    /\ \E a \in IF rq.ph = "send" THEN Abandoned(Cur)
                ELSE {[Cur EXCEPT !.conn = IF @ = "open" THEN "orphan" ELSE @]} :
          Keep([a EXCEPT !.outcome = "finished"])
    /\ Answer("gone", 0) /\ Settle("finished", FALSE)

\* execute_attempt resumes when the process has ended and the client is there.
ChatResumes ==
    /\ rq.ph = "resume" /\ ~ rq.gone
    /\ IF Cur.fault # "none"
       THEN HandleFailure(Cur, Cur.fault, FALSE) \/ RefreshRaises(Cur, Cur.fault)
       ELSE IF rq.kind = "chat"
       THEN Keep([Cur EXCEPT !.outcome = "succeeded"]) /\ Answer("ok", N) /\ Settle("succeeded", FALSE)
       ELSE Keep([Cur EXCEPT !.outcome = "stream_pending"]) /\ Moves("stream")
            /\ Settle("stream_pending", TRUE)

Handlers == Kinds \ Chat

\* A 4xx that the handler passes on as it is.
PassedOn(f) == \/ rq.kind = "video" /\ f \in {"scoped", "tolerated", "refused"}
               \/ rq.kind = "lingjing" /\ f \in {"scoped", "tolerated", "refused", "denied"}

\* The operation fails, which wins over a departure.
SendFails ==
    /\ Sending(Handlers)
    /\ \E f \in Broken(rq.kind) :
          HandleFailure(Closed(Cur), f, FALSE) \/ RefreshRaises(Closed(Cur), f)

\* The provider answers with an error, which wins over a departure only where the
\* answer is a stream.  The Lingjing handler counts it before it raises.
ErrorAnswered ==
    /\ Sending(Handlers) /\ (rq.gone => rq.kind \in Streamed)
    /\ \E f \in Rejected(rq.kind) :
          LET counted == [Closed(Cur) EXCEPT !.fault = f, !.bad = @ + 1]
              raised == IF rq.kind = "lingjing" THEN counted ELSE Closed(Cur)
          IN IF PassedOn(f)
             THEN /\ Keep([counted EXCEPT !.outcome = "finished"])
                  /\ Answer("raw", N) /\ Settle("finished", FALSE)
             ELSE HandleFailure(raised, f, FALSE) \/ RefreshRaises(raised, f)

\* A buffered success, or a stream whose first chunk has come.
SuccessAnswered ==
    /\ Sending(Handlers) /\ ~ rq.gone
    /\ IF rq.kind \in Streamed
       THEN /\ Keep([Cur EXCEPT !.outcome = "stream_pending"]) /\ Moves("stream")
            /\ Settle("stream_pending", TRUE)
       ELSE /\ Keep([Received(Cur) EXCEPT !.outcome = "succeeded"])
            /\ Answer("ok", N) /\ Settle("succeeded", FALSE)

\* The request's task is cancelled: what is pending is closed, and nobody is told
\* how the attempt ended.
Cancelled ==
    /\ rq.ph \in {"prepare", "send", "resume"}
    /\ \E a \in IF Cur.conn # "open" THEN {Cur}
                ELSE IF rq.ph = "send" THEN Abandoned(Cur) ELSE {[Cur EXCEPT !.conn = "orphan"]} :
          Keep(a)
    /\ Answer("none", 0) /\ LedgerKept

-----------------------------------------------------------------------------
(* Streams *)

StreamOver(a, outcome) ==
    /\ Keep([Closed(a) EXCEPT !.outcome = outcome])
    /\ Answer("stream", N) /\ Settle(outcome, FALSE)

\* _track_legacy_stream_outcome.
ChatStreamEnds ==
    /\ rq.ph = "stream" /\ rq.kind = "chat_stream"
    /\ \/ StreamOver(Received(Cur), "stream_completed")
       \/ StreamOver([Cur EXCEPT !.fault = "local"], "local_admission_rejected")
       \/ StreamOver([Cur EXCEPT !.fault = "shared"], "stream_failed")
       \/ \E f \in {"network", "protocol"} :
             StreamOver([Cur EXCEPT !.fault = f, !.bad = @ + 1], "stream_failed")
       \/ StreamOver([Cur EXCEPT !.fault = "semantic", !.bad = @ + 1], "semantic_failure_terminal")
       \/ StreamOver([Cur EXCEPT !.fault = "semantic_scoped"], "semantic_failure_terminal")
       \/ StreamOver(Cur, IF rq.gone THEN "downstream_disconnected" ELSE "cancelled_or_consumer_closed")

\* _messages_proxy_stream: the entry of the attempt stays pending, and the ledger
\* is left to the middleware.
MessagesOver(a) == Keep(Closed(a)) /\ Answer("stream", N) /\ LedgerKept

\* message_stop is passed on while the client is there, and then counted.
MessageStop ==
    /\ rq.ph = "stream" /\ rq.kind = "messages_stream" /\ ~ rq.gone
    /\ Moves("stop") /\ UNCHANGED <<att, attemptVars>>

MessagesStreamEnds ==
    /\ rq.kind = "messages_stream"
    /\ \/ rq.ph = "stop" /\ MessagesOver(Received(Cur))
       \/ rq.ph \in {"stream", "stop"} /\ MessagesOver(Cur)
       \/ /\ rq.ph = "stream"
          /\ \/ \E f \in {"network", "protocol"} : MessagesOver([Cur EXCEPT !.fault = f, !.bad = @ + 1])
             \/ \E f \in {"local", "shared"} : MessagesOver([Cur EXCEPT !.fault = f])

-----------------------------------------------------------------------------
(* The end *)

\* tracking_send and the clean-up of the admission middleware: how a stream that
\* is still pending ended is judged by whether its last body frame was sent.
RequestOver ==
    /\ rq.ph = "write"
    /\ \E sent \in BOOLEAN, cancelled \in BOOLEAN :
          LET outcome == IF sent THEN "stream_completed"
                         ELSE IF rq.gone THEN "downstream_disconnected"
                         ELSE IF cancelled THEN "cancelled_or_consumer_closed" ELSE "stream_failed"
              done == FinishPending(lg, told, outcome)
          IN Becomes(ReleaseLease(done[1], done[2]))
    /\ Moves("done") /\ UNCHANGED att

\* The event loop finalizes an asynchronous generator that was left suspended.
GeneratorFinalized ==
    /\ \E i \in DOMAIN att : att[i].conn = "orphan" /\ att' = [att EXCEPT ![i].conn = "closed"]
    /\ UNCHANGED <<rq, attemptVars>>

EndpointNext ==
    \/ Leave \/ AbortRetries \/ PlanExhausted \/ StartRouting \/ PrepareFails \/ Prepared
    \/ Sends \/ BuildFails \/ ChatReturns \/ ChatFails \/ ChatResumes \/ Departed
    \/ SendFails \/ ErrorAnswered \/ SuccessAnswered \/ Cancelled
    \/ ChatStreamEnds \/ MessageStop \/ MessagesStreamEnds \/ RequestOver \/ GeneratorFinalized

-----------------------------------------------------------------------------
(* Properties *)

\* The failures that count against a provider.  The handlers that count what they are
\* answered, and not what the runner makes of it, count a 400 as well.
Blamed(kind) == {"network", "malformed", "protocol", "semantic", "refused", "denied", "down"}
    \cup IF kind \in Chat \cup {"video", "lingjing"} THEN {"scoped", "tolerated"} ELSE {}

\* A channel's statistics: at most one mark an attempt (two for a retried answer of Lingjing,
\* which is counted where it arrives and again where it is raised); a good one only for an
\* answer that came whole, a bad one only for a failure that is the provider's; and, unless
\* the client leaves, one for every such failure of a request that was sent.
MarkedOnce(a) ==
    /\ a.good + a.bad <= IF rq.kind = "lingjing" /\ a.fault = "down" THEN 2 ELSE 1
    /\ a.good > 0 => a.got /\ a.fault = "none"
    /\ a.bad > 0 => a.fault \in Blamed(rq.kind)
    /\ ~ rq.gone /\ a.outcome \in {"retry_decided", "failed"} /\ a.track /\ a.fault \in Blamed(rq.kind)
          => a.bad > 0

\* The routing entry of an attempt and the summary of its life say the same, but for what
\* the runner adds to a retry and the middleware to a stream.
SameStory(entry, summary) ==
    CASE entry \in {"retry_exhausted", "retry_aborted_before_transition"} -> summary = "retry_decided"
      [] entry = "stream_pending" -> summary \in {"stream_completed", "downstream_disconnected",
                                                   "cancelled_or_consumer_closed", "stream_failed"}
      [] OTHER -> summary = entry

\* Every attempt is accounted for (upstream.py, run, and the handlers of runtime.py),
\* whenever the client leaves and whoever fails: it is marked as MarkedOnce says; no attempt
\* follows one that was not given up for it; an answer leaves no connection open, but for a
\* chat stream that was abandoned before anybody iterated it; a success is counted before it
\* is answered, and an error that the gateway words is the last attempt's; and when the
\* request is over its routing entries and the summaries of its lease tell the same story.
AttemptsAccounted ==
    /\ SummariesExact
    /\ \A i \in DOMAIN att : MarkedOnce(att[i]) /\ (i < N => att[i].outcome = "retry_decided")
    /\ rq.ph \in {"write", "done"} =>
          /\ \A i \in DOMAIN att :
                \/ att[i].conn \in {"none", "closed"}
                \/ /\ att[i].conn = "orphan" /\ rq.kind = "chat_stream" /\ i = N
                   /\ att[i].good + att[i].bad = 0 /\ rq.answer.status \in {"gone", "none"}
          /\ rq.answer.status = "ok" => Cur.good = 1
          /\ rq.answer.status = "error" /\ rq.kind \notin Passed => rq.answer.of = N
    /\ rq.ph = "done" => \A i \in DOMAIN att :
          Len(Published(i)) = 1 /\ SameStory(att[i].outcome, Published(i)[1].outcome)
=============================================================================
