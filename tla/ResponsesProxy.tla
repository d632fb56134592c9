---------------------------- MODULE ResponsesProxy ----------------------------
(***************************************************************************)
(* What a streamed /v1/responses request forwards (uni_api/runtime.py):    *)
(* an attempt reads events until one commits the response, failed attempts *)
(* are tried again at the next provider, and the generator of a committed  *)
(* attempt frames, checks and forwards events up to the terminal one.      *)
(* ResponsesStream has the memory and the tasks of the same request; here  *)
(* the generator of a committed attempt always gets its first step.        *)
(***************************************************************************)
EXTENDS Integers, Sequences, SequencesExt

CONSTANTS MaxAttempts,   \* bound: providers the routing plan can offer
          MaxScript,     \* bound: events of one upstream
          MaxPrimed      \* RESPONSES_STREAM_PRECOMMIT_MAX_ITEMS

ASSUME ProxyAssumption ==
    MaxAttempts \in Nat \ {0} /\ MaxScript \in Nat /\ MaxPrimed \in Nat \ {0}

\* keepalive is the canonical one of OAIX, which is passed on at once; hold any
\* other; bad is an event that fails its checks.
EventKind == {"created", "keepalive", "hold", "comment", "marker", "nodata", "delta",
              "completed", "failed", "error", "done", "bad"}
Terminals == {"completed", "failed", "error"}

VARIABLES turn,    \* the worker: where it is and its fields
          script,  \* the events the upstream of this attempt sent
          batch,   \* those of the last chunk that were not looked at yet
          primed,  \* buffered_chunks
          early,   \* stream_precommit_chunks
          client,  \* what the body's queue was given
          entry    \* the routing entries: their outcomes, in order

proxyVars == <<turn, script, batch, primed, early, client, entry>>

\* guard is responses_precommit_semantic_guard, policy whether a delta commits,
\* fault that the upstream broke off or sent what it must not send, seen
\* _first_byte_observed, result stream_outcome, marker that the upstream promised
\* a comment after its terminal.
ProxyInit ==
    /\ \E guard, policy, marker \in BOOLEAN :
           turn = [at |-> "select", try |-> 0, guard |-> guard, policy |-> policy, marker |-> marker,
                   up |-> FALSE, waits |-> FALSE, seen |-> FALSE, kept |-> FALSE, started |-> FALSE,
                   gone |-> FALSE, fault |-> FALSE, hand |-> "none", terminal |-> FALSE,
                   success |-> FALSE, result |-> "none", why |-> "none"]
    /\ script = <<>> /\ batch = <<>> /\ primed = <<>> /\ early = <<>> /\ client = <<>>
    /\ entry = <<>>

\* The outcome of the current attempt's entry.
Settle(outcome) == entry' = [entry EXCEPT ![turn.try] = Append(@, outcome)]

-----------------------------------------------------------------------------
(* UpstreamRunner.run around the attempts *)

\* _before_next_attempt, next_attempt, _start_routing_attempt and the request.
NextAttempt ==
    /\ turn.at = "select" /\ turn.try < MaxAttempts
    /\ early' = IF turn.started THEN early ELSE <<>>
    /\ IF turn.gone
       THEN /\ turn' = [turn EXCEPT !.at = "answer", !.why = "gone"]
            /\ UNCHANGED <<script, entry>>
       ELSE /\ turn' = [turn EXCEPT !.at = "headers", !.try = @ + 1, !.waits = TRUE, !.fault = FALSE,
                                    !.kept = turn.started /\ @]
            /\ entry' = Append(entry, <<>>)
            /\ script' = <<>>
    /\ UNCHANGED <<batch, primed, client>>

\* The failure of an attempt that did not commit: its upstream is closed, the
\* failure terminal of an earlier one is forgotten, and the plan may go on.
AttemptFails(terminal, fault) ==
    /\ \/ /\ turn.try < MaxAttempts /\ Settle("retry")
          /\ turn' = [turn EXCEPT !.at = "select", !.up = FALSE, !.waits = FALSE,
                                  !.terminal = terminal, !.fault = fault]
       \/ /\ Settle("failed")
          /\ turn' = [turn EXCEPT !.at = "answer", !.up = FALSE, !.waits = FALSE,
                                  !.terminal = terminal, !.fault = fault, !.why = "failed"]
    /\ primed' = <<>> /\ batch' = <<>>

\* The client left before the commit: an empty 499.
AttemptGone ==
    /\ turn' = [turn EXCEPT !.at = "answer", !.up = FALSE, !.waits = FALSE, !.why = "gone"]
    /\ Settle("finished")
    /\ primed' = <<>> /\ batch' = <<>>

Headers ==
    /\ turn.at = "headers"
    /\ \/ turn' = [turn EXCEPT !.at = "prime", !.up = TRUE] /\ UNCHANGED <<batch, primed, entry>>
       \/ AttemptFails(FALSE, TRUE)
       \/ turn.gone /\ AttemptGone
    /\ UNCHANGED <<script, early, client>>

\* The upstream sends a chunk with one or two events.
Receive(events) ==
    /\ turn.at \in {"prime", "proxy"} /\ turn.up /\ batch = <<>>
    /\ turn.at = "proxy" => primed = <<>> /\ ~ turn.gone
    /\ Len(script) + Len(events) <= MaxScript
    /\ script' = script \o events
    /\ batch' = events
    /\ UNCHANGED <<turn, primed, early, client, entry>>

-----------------------------------------------------------------------------
(* _prime_responses_upstream_stream *)

\* _responses_stream_event_commits.
Commits(kind) ==
    \/ kind = "created" /\ ~ turn.guard
    \/ kind = "delta" /\ turn.policy
    \/ kind = "completed"

\* _emit_precommit_keepalive, with the upstream's event or one of its own: what the
\* worker, the early buffer and the client then have.
EmitKeepalive(kind) ==
    IF turn.kept THEN [turn |-> turn, early |-> early, client |-> client]
    ELSE IF kind = "keepalive"
    THEN [turn |-> [turn EXCEPT !.kept = TRUE, !.started = TRUE, !.seen = TRUE,
                                !.waits = @ /\ turn.seen],
          early |-> early, client |-> Append(client, [try |-> turn.try, kind |-> "alive"])]
    ELSE [turn |-> [turn EXCEPT !.kept = TRUE],
          early |-> Append(early, [try |-> turn.try, kind |-> "alive"]), client |-> client]

Own(events) == [i \in DOMAIN events |-> [try |-> turn.try, kind |-> events[i]]]

\* Mutant: the rest of the chunk that commits is not handed on.
BufferedAtCommitAlone == primed \o Own(<<Head(batch)>>)

\* The event that commits, and the rest of its chunk unparsed.
BufferedAtCommit == primed \o Own(batch)

\* The events one by one; a full buffer fails the attempt.
PrimeEvent ==
    LET kind == Head(batch)
        alive == IF turn.guard /\ kind \in {"keepalive", "hold", "created"} THEN EmitKeepalive(kind)
                 ELSE [turn |-> turn, early |-> early, client |-> client]
        buffers == kind \in {"comment", "marker", "created", "delta", "completed"}
                   \/ (kind \in {"keepalive", "hold"} /\ ~ turn.guard)
    IN /\ turn.at = "prime" /\ batch # <<>>
       /\ \/ /\ kind \in {"done", "bad"}
             /\ AttemptFails(FALSE, TRUE) /\ UNCHANGED <<early, client>>
          \/ /\ kind \in {"failed", "error"}
             /\ AttemptFails(TRUE, TRUE) /\ UNCHANGED <<early, client>>
          \/ /\ buffers /\ ~ Commits(kind) /\ Len(primed) >= MaxPrimed
             /\ AttemptFails(FALSE, TRUE) /\ UNCHANGED <<early, client>>
          \/ /\ Commits(kind)
             /\ early' = alive.early /\ client' = alive.client
             /\ turn' = [alive.turn EXCEPT !.at = "commit", !.seen = TRUE, !.waits = @ /\ turn.seen]
             /\ primed' = BufferedAtCommit
             /\ batch' = <<>> /\ UNCHANGED entry
          \/ /\ ~ Commits(kind) /\ kind \notin {"done", "bad", "failed", "error"}
             /\ buffers => Len(primed) < MaxPrimed
             /\ turn' = alive.turn /\ early' = alive.early /\ client' = alive.client
             /\ primed' = IF buffers THEN primed \o Own(<<kind>>) ELSE primed
             /\ batch' = Tail(batch) /\ UNCHANGED entry
       /\ UNCHANGED script

\* The upstream ends or fails, the deadline passes, or the client leaves.
PrimeStops ==
    /\ turn.at = "prime"
    /\ \/ batch = <<>> /\ AttemptFails(FALSE, TRUE)
       \/ turn.gone /\ AttemptGone
    /\ UNCHANGED <<script, early, client>>

\* The last look at the disconnect; the worker drains the early keepalive.
CommitResponse ==
    /\ turn.at = "commit"
    /\ IF turn.gone THEN AttemptGone /\ UNCHANGED <<early, client>>
       ELSE /\ turn' = [turn EXCEPT !.at = "proxy", !.started = @ \/ early # <<>>]
            /\ client' = client \o early
            /\ early' = <<>>
            /\ Settle("pending")
            /\ UNCHANGED <<batch, primed>>
    /\ UNCHANGED script

-----------------------------------------------------------------------------
(* _proxy_responses_stream *)

\* Its next event: from the primed ones, which are framed again, then live.
NextEvent == IF primed # <<>> THEN Head(primed).kind ELSE Head(batch)
TakeEvent == IF primed # <<>> THEN primed' = Tail(primed) /\ UNCHANGED batch
             ELSE batch' = Tail(batch) /\ UNCHANGED primed

\* The end of the generator, when the entry is settled once.
ProxyEnds(result) ==
    /\ turn' = [turn EXCEPT !.at = "over", !.up = FALSE, !.hand = "none", !.result = result]
    /\ primed' = <<>> /\ batch' = <<>>

\* stream_attempt_finalized.
SettleOnce(outcome) == IF Last(entry[turn.try]) # "pending" THEN UNCHANGED entry ELSE Settle(outcome)

\* Flush markers and events without data are not passed on; [DONE] and events
\* that are not what they say break the stream; a provider's error becomes the
\* failure terminal.
Skips(kind) == kind \in {"marker", "nodata"}
Breaks(kind) == kind \in {"done", "bad"}
Handed(kind) == IF kind = "error" THEN "failed" ELSE kind

\* An event is checked and yielded; a failure terminal is settled before that.
ProxyEvent ==
    /\ turn.at = "proxy" /\ (primed # <<>> \/ batch # <<>>)
    /\ LET kind == NextEvent
       IN IF Skips(kind) THEN TakeEvent /\ UNCHANGED <<turn, entry>>
          ELSE IF Breaks(kind)
          THEN ProxyEnds("abort") /\ SettleOnce("failed")
          ELSE /\ TakeEvent
               /\ turn' = [turn EXCEPT !.at = "yielding", !.hand = Handed(kind),
                                       !.success = kind = "completed",
                                       !.fault = kind \in {"failed", "error"}]
               /\ IF kind \in {"failed", "error"} THEN SettleOnce("failed") ELSE UNCHANGED entry
    /\ UNCHANGED <<script, early, client>>

\* The worker puts the event into the queue and comes back for the next one.
ProxyResumes ==
    /\ turn.at = "yielding"
    /\ client' = Append(client, [try |-> turn.try, kind |-> turn.hand])
    /\ IF turn.hand \in Terminals
       THEN /\ turn' = [turn EXCEPT !.at = "marking", !.started = TRUE]
            /\ IF turn.hand = "completed" THEN SettleOnce("succeeded") ELSE UNCHANGED entry
       ELSE turn' = [turn EXCEPT !.at = "proxy", !.hand = "none", !.started = TRUE] /\ UNCHANGED entry
    /\ UNCHANGED <<script, batch, primed, early>>

\* _consume_expected_oaix_terminal_flush_marker: nothing, a marker, a time-out or
\* the end; a read that fails there is an abort although the terminal was sent.
AwaitMarker ==
    /\ turn.at = "marking"
    /\ \/ ProxyEnds(turn.hand)
       \/ turn.marker /\ batch = <<>> /\ primed = <<>> /\ ProxyEnds("abort")
    /\ UNCHANGED <<script, early, client, entry>>

\* The upstream ends without a terminal, or its read fails.
ProxyFails ==
    /\ turn.at = "proxy" /\ primed = <<>> /\ batch = <<>>
    /\ ProxyEnds("abort") /\ SettleOnce("failed")
    /\ UNCHANGED <<script, early, client>>

\* The client's departure is seen before a read.
ProxyDisconnects ==
    /\ turn.at = "proxy" /\ primed = <<>> /\ batch = <<>> /\ turn.gone
    /\ ProxyEnds("gone") /\ SettleOnce("cancelled")
    /\ UNCHANGED <<script, early, client>>

\* How the finally settles an attempt that nobody settled.
StoppedOutcome ==
    IF turn.success THEN "succeeded" ELSE IF turn.gone THEN "cancelled" ELSE "unknown"

-----------------------------------------------------------------------------
(* The worker's end *)

\* The worker is cancelled, or a put fails: the generator is closed where it is,
\* before or after the queue took its event.
ConsumerStops ==
    /\ turn.at \in {"headers", "prime", "proxy", "yielding", "marking"}
    /\ client' \in IF turn.at = "yielding"
                   THEN {client, Append(client, [try |-> turn.try, kind |-> turn.hand])} ELSE {client}
    /\ IF turn.at \in {"headers", "prime"}
       THEN /\ turn' = [turn EXCEPT !.at = "over", !.up = FALSE, !.waits = FALSE]
            /\ primed' = <<>> /\ batch' = <<>> /\ UNCHANGED entry
       ELSE ProxyEnds(turn.result) /\ SettleOnce(StoppedOutcome)
    /\ early' = <<>>
    /\ UNCHANGED script

\* The plan has no other provider: _build_final_response.
PlanExhausted ==
    /\ turn.at = "select" /\ ~ turn.gone
    /\ turn' = [turn EXCEPT !.at = "answer", !.why = "failed"]
    /\ early' = IF turn.started THEN early ELSE <<>>
    /\ UNCHANGED <<script, batch, primed, client, entry>>

\* A body that has not started gets the response itself; one that has gets the
\* failure terminal of the last attempt, or an error event and [DONE].
Answered ==
    IF ~ turn.started THEN <<"response">>
    ELSE IF turn.why = "gone" THEN <<>>
    ELSE IF turn.terminal THEN <<"failed">> ELSE <<"error", "done">>

AnswerClient ==
    /\ turn.at = "answer"
    /\ turn' = [turn EXCEPT !.at = "over", !.result = "answered"]
    /\ client' = client \o Own(Answered)
    /\ early' = <<>>
    /\ UNCHANGED <<script, batch, primed, entry>>

ClientLeaves ==
    /\ ~ turn.gone /\ turn.at # "over"
    /\ turn' = [turn EXCEPT !.gone = TRUE]
    /\ UNCHANGED <<script, batch, primed, early, client, entry>>

ProxyNext ==
    \/ NextAttempt \/ Headers \/ PrimeEvent \/ PrimeStops \/ CommitResponse
    \/ ProxyEvent \/ ProxyResumes \/ AwaitMarker \/ ProxyFails \/ ProxyDisconnects
    \/ ConsumerStops \/ PlanExhausted \/ AnswerClient \/ ClientLeaves
    \/ \E events \in UNION {[1..n -> EventKind] : n \in 1..2} : Receive(events)

-----------------------------------------------------------------------------
Committed == {t \in DOMAIN entry : \E i \in DOMAIN entry[t] : entry[t][i] = "pending"}
IsAlive(e) == e.kind \in {"alive", "keepalive", "hold"}
Body == SelectSeq(client, LAMBDA e : ~ IsAlive(e))
Forwarded == SelectSeq(script, LAMBDA k : k \notin {"keepalive", "hold", "marker", "nodata"})
Shown(kinds) == [i \in DOMAIN kinds |-> IF kinds[i] = "error" THEN "failed" ELSE kinds[i]]

\* The client reads one answer: keepalives apart, the events of the one committed
\* attempt in the order in which its upstream sent them, each once, up to the
\* first terminal and nothing behind it; of an attempt that failed before its
\* commit it sees nothing, and an answer made up here stands alone.
OneAnswer ==
    /\ Committed # {} =>
           /\ \A i \in DOMAIN Body : Body[i].try \in Committed
           /\ IsPrefix([i \in DOMAIN Body |-> Body[i].kind], Shown(Forwarded))
    /\ Committed = {} => Len(Body) <= 2 /\ (Body # <<>> => turn.at = "over" /\ turn.result = "answered")
    /\ \A i \in DOMAIN Body : Body[i].kind \in Terminals =>
           \/ i = Len(Body)
           \/ Committed = {} /\ Body[i + 1].kind = "done"
    /\ \A i \in DOMAIN client : client[i].kind = "response" => Len(client) = 1

\* The entry of an attempt tells what happened, whatever ended it: it is settled
\* once, as succeeded if and only if the upstream sent its terminal, and as
\* failed only if the upstream failed; a request that is over holds no upstream.
\* It is an abort after its terminal only where a promised marker is waited for,
\* and counts as waiting for a first byte that came only after a keepalive of an
\* earlier attempt.
OutcomesTrue ==
    /\ \A t \in DOMAIN entry : Len(entry[t]) <= IF t \in Committed THEN 2 ELSE 1
    /\ turn.at = "over" =>
           /\ ~ turn.up /\ primed = <<>> /\ early = <<>> /\ batch = <<>>
           /\ \A t \in Committed : Len(entry[t]) = 2
    /\ \A t \in Committed :
           LET last == Last(entry[t])
               answered == \E i \in DOMAIN Body : Body[i].kind = "completed"
           IN /\ last = "succeeded" => "completed" \in ToSet(script)
              /\ last = "failed" => turn.fault \/ turn.result = "abort"
              /\ answered /\ turn.at = "over" => last = "succeeded"
              /\ answered /\ turn.result = "abort" => turn.marker
    /\ turn.waits /\ turn.at \notin {"headers", "prime"} =>
           \E i \in DOMAIN client : client[i].kind = "alive" /\ client[i].try < turn.try

\* The proxy of a streamed Responses request is sound: its client reads one answer, and its
\* routing entries tell what became of the attempts (uni_api/runtime.py, the Responses handler).
ProxySound == OneAnswer /\ OutcomesTrue
=============================================================================
