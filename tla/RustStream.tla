------------------------------ MODULE RustStream ------------------------------
(***************************************************************************)
(* bin/uni-api-front/responses.rs: the data plane of streamed Responses    *)
(* requests.  The front gets a plan, sends it upstream and reads until     *)
(* the answer commits (preflight_attempt); then it starts the public       *)
(* stream, relays the rest and reports the outcome.  A canonical keepalive *)
(* of a guarded stream starts the public stream early: the attempt may     *)
(* still fail and be followed by another one, of which the client must see *)
(* nothing but the answer.  A chunk holds any number of half frames; raw   *)
(* modes relay chunks once the answer is committed, the others frames.     *)
(* With an idempotency key the output is kept for replay and the upstream  *)
(* is read to its end even when the client has left.                       *)
(***************************************************************************)
EXTENDS Integers, Sequences, FiniteSets, SequencesExt

-----------------------------------------------------------------------------
(***************************************************************************)
(* uni_api/rust_responses_control.py: the session through which Python     *)
(* plans the attempts of a streamed request while the Rust front sends     *)
(* them.  A task runs the attempts: it publishes a plan in a queue of one  *)
(* message and waits until the front reports the outcome.  The front calls *)
(* plan, advance, commit and complete over loopback HTTP, one at a time.   *)
(* The session lives as long as the front keeps the response to the        *)
(* original request open.  A request that the front routes itself has no   *)
(* session; its route answers the same calls at once.                      *)
(***************************************************************************)

CONSTANTS MaxAttempts,  \* attempts a request may make
          MaxFaults     \* control calls that fail

ASSUME SessionAssumption == MaxAttempts \in Nat \ {0} /\ MaxFaults \in Nat

VARIABLES session,  \* the task, its attempt, the messages and the record of the attempts
          call      \* the call of the front: none, sent, waiting, joining, reply or error

sessionVars == <<session, call>>

Outcomes == {"failed", "completed", "broken", "rejected", "gone"}
FinalMessage == 0
NoCallMade == [op |-> "none", attempt |-> 0, outcome |-> "none", state |-> "none", message |-> FinalMessage]

SessionInit ==
    /\ session \in [native : BOOLEAN, task : {"build"}, attempt : {1}, outcome : {"none"},
                    box : {<<>>}, ready : {FALSE}, known : {TRUE}, open : {TRUE},
                    seen : {{}}, planned : {{}}, faults : {0},
                    settled : {[a \in 1..MaxAttempts |-> "none"]}]
    /\ call = NoCallMade

TaskEnded == session.task \in {"done", "cancelled"}

-----------------------------------------------------------------------------
(* _run and _execute_attempt                                                *)

\* What the runner does after a failed attempt: the next one, or the final answer.
AfterFailure(s) ==
    LET failed == [s EXCEPT !.settled[s.attempt] = "failed", !.outcome = "none"] IN
    {[failed EXCEPT !.task = "final"]} \cup
    IF s.attempt < MaxAttempts
    THEN {[failed EXCEPT !.task = "build", !.attempt = @ + 1]} ELSE {}

BuildPlan ==
    /\ ~ session.native /\ session.task = "build"
    /\ \/ /\ session.box = <<>>
          /\ session' = [session EXCEPT !.task = "await", !.box = <<session.attempt>>, !.ready = TRUE,
                                        !.planned = @ \cup {session.attempt}]
       \/ session' \in AfterFailure(session)
    /\ UNCHANGED call

\* Mutant: a stream that broke off after its commit is recorded as a success.
RecordedGone(outcome) == IF outcome = "broken" THEN "completed" ELSE outcome

\* _resolve_rust_stream_outcome: what is recorded of an attempt that was committed.
Recorded(outcome) == outcome

ResolveOutcome ==
    /\ ~ session.native /\ session.task = "await" /\ session.outcome # "none"
    /\ IF session.outcome = "failed"
       THEN session' \in AfterFailure(session)
       ELSE session' = [session EXCEPT !.settled[session.attempt] = Recorded(session.outcome),
                                       !.seen = @ \cup {session.attempt},
                                       !.outcome = "none", !.task = "final"]
    /\ UNCHANGED call

PublishFinal ==
    /\ ~ session.native /\ session.task = "final" /\ session.box = <<>>
    /\ session' = [session EXCEPT !.task = "done", !.box = <<FinalMessage>>, !.ready = TRUE]
    /\ UNCHANGED call

\* Mutant: the session is forgotten, its task goes on waiting.
CancelSession_Forgets ==
    /\ ~ session.native /\ ~ session.open /\ ~ TaskEnded /\ session.known
    /\ session' = [session EXCEPT !.known = FALSE]
    /\ UNCHANGED call

\* control_body and release: the front closed the response before the task was done.  The
\* outcome that cancel sets is lost, the task is cancelled before it can use it.
CancelSession ==
    /\ ~ session.native /\ ~ session.open /\ ~ TaskEnded
    /\ session' = [session EXCEPT !.task = "cancelled", !.outcome = "none", !.known = FALSE]
    /\ UNCHANGED call

\* The control body ends by itself and the session is forgotten.
ReleaseSession ==
    /\ ~ session.native /\ TaskEnded /\ session.known
    /\ session' = [session EXCEPT !.known = FALSE]
    /\ UNCHANGED call

-----------------------------------------------------------------------------
(* The calls                                                                *)

Call(op, a, outcome) ==
    call' = [op |-> op, attempt |-> a, outcome |-> outcome, state |-> "sent", message |-> FinalMessage]

\* advance and observe_commit refuse the ID of an attempt that is not the active one.
Awaits(c) == session.task = "await" /\ session.outcome = "none" /\ c.attempt = session.attempt

DeliverCall ==
    /\ ~ session.native /\ call.state = "sent"
    /\ CASE ~ session.known ->
              call' = [call EXCEPT !.state = "error"] /\ UNCHANGED session
         [] session.known /\ call.op = "plan" ->
              call' = [call EXCEPT !.state = "waiting"] /\ UNCHANGED session
         [] session.known /\ call.op # "plan" /\ ~ Awaits(call) ->
              call' = [call EXCEPT !.state = "error"] /\ UNCHANGED session
         [] session.known /\ call.op = "commit" /\ Awaits(call) ->
              /\ call' = [call EXCEPT !.state = "reply"]
              /\ session' = [session EXCEPT !.seen = @ \cup {call.attempt}]
         [] session.known /\ call.op \in {"advance", "complete"} /\ Awaits(call) ->
              /\ call' = [call EXCEPT !.state = "waiting"]
              /\ session' = [session EXCEPT !.outcome = call.outcome]

\* next_message
TakeMessage ==
    /\ call.state = "waiting" /\ session.box # <<>>
    /\ session' = [session EXCEPT !.box = <<>>]
    /\ call' = [call EXCEPT !.message = Head(session.box),
                            !.state = IF call.op = "complete" THEN "joining" ELSE "reply"]

\* complete waits for the task of the session as well.
JoinTask ==
    /\ call.state = "joining" /\ TaskEnded
    /\ call' = [call EXCEPT !.state = IF session.task = "done" THEN "reply" ELSE "error"]
    /\ UNCHANGED session

\* The loopback connection of a call breaks, before or after it was delivered.
CallFails ==
    /\ ~ session.native /\ session.faults < MaxFaults
    /\ call.state \in {"sent", "waiting", "joining"}
    /\ call' = [call EXCEPT !.state = "error"]
    /\ session' = [session EXCEPT !.faults = @ + 1]

\* Coordinator::Native: the route records the outcome itself and makes the next plan, ends,
\* or fails to make it.
NativeAnswers ==
    /\ session.native /\ call.state = "sent"
    /\ \/ /\ call.op = "complete"
          /\ session' = [session EXCEPT !.settled[call.attempt] = Recorded(call.outcome)]
          /\ call' = [call EXCEPT !.state = "reply"]
       \/ /\ call.op \in {"plan", "advance"}
          /\ LET s == IF call.op = "plan" THEN session
                      ELSE [session EXCEPT !.settled[call.attempt] = "failed"]
                 n == call.attempt + 1 IN
             \/ /\ n <= MaxAttempts
                /\ session' = [s EXCEPT !.attempt = n, !.planned = @ \cup {n}]
                /\ call' = [call EXCEPT !.state = "reply", !.message = n]
             \/ session' = s /\ call' = [call EXCEPT !.state = "reply"]
             \/ session' = s /\ call' = [call EXCEPT !.state = "error"]

SessionNext ==
    BuildPlan \/ ResolveOutcome \/ PublishFinal \/ CancelSession \/ ReleaseSession \/
    DeliverCall \/ TakeMessage \/ JoinTask \/ CallFails \/ NativeAnswers

-----------------------------------------------------------------------------
(* The data plane                                                           *)

CONSTANTS Plans,         \* StreamModes: opaque, guarded, rewrite, rewrite_open; or whole
          MaxFrames,     \* frames of an upstream stream
          MaxChunk,      \* half frames of a chunk
          MaxPrecommit,  \* max_precommit_items
          MaxCapture     \* half frames the idempotency owner may keep

VARIABLES rust,    \* where the request is, the frames of a chunk it has yet to process
          cur,     \* ActiveAttempt
          out,     \* what was offered to the client, half frame by half frame
          client,  \* here, or left
          owner    \* the idempotency owner: none, held, kept, released or nonreplayable

streamVars == <<session, call, rust, cur, out, client, owner>>

\* What a frame is to the ResponsesProcessor; "bad" is one that it refuses.
Kinds == {"created", "alive", "text", "done", "fail", "bad"}

\* Half frames on the wire: of an attempt, or made by the gateway.
Half(a, h) == <<a, h>>
Frame(a, f) == <<Half(a, 2 * f - 1), Half(a, 2 * f)>>
Keepalive == Half(0, 0)
FinalError == Half(0, 1)
FailedTerminal == Half(0, 2)

Fresh(a, mode, alive) ==
    [attempt |-> a, mode |-> mode, pos |-> 0, kinds |-> <<>>, early |-> <<>>, buffered |-> <<>>,
     terminal |-> "none", alive |-> alive, committed |-> FALSE, staged |-> FALSE]

StreamInit ==
    /\ SessionInit
    /\ rust = [pc |-> "start", todo |-> <<>>, public |-> FALSE, reply |-> "none"]
    /\ cur = Fresh(0, "opaque", FALSE)
    /\ out = <<>>
    /\ client = "here"
    /\ owner \in {"none", "held"}

Guard(c) == c.mode \in {"guarded", "rewrite"}
Raw(c) == c.mode \in {"opaque", "guarded"}
Capturing == owner = "held" /\ rust.public

\* SseDecoder: the last half frame is one that waits for its end.
Pending(c) == IF c.pos % 2 = 1 THEN <<Half(c.attempt, c.pos)>> ELSE <<>>

\* feed: k more half frames, and the kinds of the frames that are complete.
Fed(c, k, new) == [c EXCEPT !.pos = @ + k, !.kinds = @ \o new]
Chunks(c) ==
    {k \in 1..MaxChunk : c.pos + k <= 2 * MaxFrames}
NewFrames(c, k) == [1..((c.pos + k) \div 2 - c.pos \div 2) -> Kinds]
Indexes(c, new) == [i \in 1..Len(new) |-> Len(c.kinds) + i]

-----------------------------------------------------------------------------
(* process_preflight_frames                                                 *)

\* stage_raw_pending: the bytes of an unfinished frame go out with what is buffered.
Staged(c) ==
    IF c.committed /\ Raw(c) /\ ~ c.staged
    THEN [c EXCEPT !.buffered = IF Pending(c) = <<>> THEN @ ELSE Append(@, Pending(c)),
                   !.staged = TRUE]
    ELSE c

Transparent(c, kind) == ~ Guard(c) /\ kind = "created"
Commits(c, kind) == kind \in {"text", "done"} \/ Transparent(c, kind)
EarlyKeepalive(c, kind) == ~ c.alive /\ kind = "alive" /\ Guard(c)

Kept(c, f, kind) ==
    LET wire == Frame(c.attempt, f)
        own == kind = "created" /\ Guard(c) /\ ~ c.alive IN
    [c EXCEPT
       !.buffered = IF own THEN @ \o <<<<Keepalive>>, wire>>
                    ELSE IF EarlyKeepalive(c, kind) \/ (c.alive /\ kind = "alive") THEN @
                    ELSE Append(@, wire),
       !.early = IF EarlyKeepalive(c, kind) THEN Append(@, wire) ELSE @,
       !.alive = @ \/ own \/ kind = "alive"]

\* One frame of the chunk; s.verdict is set when the function returns.
PreflightFrame(s, f) ==
    LET c == s.c
        kind == c.kinds[f]
        full == ~ s.started /\ ~ Commits(c, kind) /\ ~ (c.alive /\ kind = "alive")
                /\ Len(c.buffered) + (IF kind = "created" /\ Guard(c) /\ ~ c.alive THEN 1 ELSE 0)
                     >= MaxPrecommit IN
    CASE s.verdict # "none" -> s
      [] s.verdict = "none" /\ (kind = "bad" \/ (kind = "fail" /\ ~ s.started)) ->
           [s EXCEPT !.verdict = "retry"]
      [] s.verdict = "none" /\ kind = "fail" /\ s.started ->
           [s EXCEPT !.verdict = "started",
                     !.c = [c EXCEPT !.terminal = "fail",
                                     !.buffered = IF c.committed THEN Append(@, Frame(c.attempt, f))
                                                  ELSE @]]
      [] s.verdict = "none" /\ kind \notin {"bad", "fail"} /\ full -> [s EXCEPT !.verdict = "retry"]
      [] s.verdict = "none" /\ kind = "done" ->
           [s EXCEPT !.verdict = "started",
                     !.c = [Kept(c, f, kind) EXCEPT !.terminal = "done", !.committed = TRUE]]
      [] s.verdict = "none" /\ kind \in {"created", "alive", "text"} /\ ~ full ->
           [s EXCEPT !.started = @ \/ EarlyKeepalive(c, kind) \/ Commits(c, kind),
                     !.c = [Kept(c, f, kind) EXCEPT !.committed = @ \/ Commits(c, kind)]]

Preflighted(c, frames) ==
    LET s == FoldLeft(PreflightFrame, [c |-> c, started |-> FALSE, verdict |-> "none"], frames)
    IN  [c |-> Staged(s.c),
         verdict |-> IF s.verdict = "none" /\ s.started THEN "started" ELSE s.verdict]

-----------------------------------------------------------------------------
(* The calls of the front and how it ends                                   *)

Idle == UNCHANGED <<client, session>>

Advance(c) ==
    /\ rust' = [rust EXCEPT !.pc = "advance", !.todo = <<>>]
    /\ Call("advance", c.attempt, "failed")
    /\ UNCHANGED owner

\* finish_terminal, complete_failure and complete_disconnect
Complete(a, outcome) ==
    /\ rust' = [rust EXCEPT !.pc = "complete", !.todo = <<>>, !.reply = outcome]
    /\ Call("complete", a, outcome)
    /\ UNCHANGED owner

\* OutputSink::finish
SettledOwner(cacheable) ==
    CASE owner # "held" -> owner
      [] owner = "held" /\ ~ cacheable -> "released"
      [] owner = "held" /\ cacheable ->
           IF Len(out') > MaxCapture THEN "nonreplayable" ELSE "kept"

\* The end of run_active_attempt: the control response is dropped.
Finish(cacheable) ==
    /\ rust' = [rust EXCEPT !.pc = "over", !.todo = <<>>]
    /\ session' = [session EXCEPT !.open = FALSE]
    /\ owner' = SettledOwner(cacheable)
    /\ call' = NoCallMade

\* What send_wire may do with some wires: all are sent, or the client is found gone or too
\* slow after some.  With an idempotency owner the request goes on all the same.
Sendings(items) ==
    (IF client = "here" \/ Capturing \/ items = <<>> THEN {[items |-> items, ok |-> TRUE]} ELSE {})
    \cup
    {[items |-> SubSeq(items, 1, k), ok |-> FALSE] :
       k \in {j \in 0..(Len(items) - 1) : ~ Capturing}}

Sends(s) == out' = out \o s.items

Gone(c) == Complete(c.attempt, "gone")

-----------------------------------------------------------------------------
(* serve_session, serve_native and retry_after_public_start_python          *)

GetPlan ==
    /\ rust.pc = "start" /\ (session.native \/ session.ready)
    /\ rust' = [rust EXCEPT !.pc = "plan"]
    /\ Call("plan", 0, "none")
    /\ Idle /\ UNCHANGED <<cur, out, owner>>

PlanArrives ==
    /\ rust.pc \in {"plan", "advance"} /\ call.state = "reply" /\ call.message # FinalMessage
    /\ \E m \in Plans :
         /\ m = "whole" => session.native
         /\ cur.attempt # 0 => (m = "whole") = (cur.mode = "whole")
         /\ cur' = Fresh(call.message, m, rust.public)
    /\ rust' = [rust EXCEPT !.pc = "preflight"]
    /\ call' = NoCallMade
    /\ Idle /\ UNCHANGED <<out, owner>>

\* response_from_final, json_error, or send_final_inband once the stream is public.
FinalArrives ==
    /\ rust.pc \in {"plan", "advance"} /\ call.state = "reply" /\ call.message = FinalMessage
    /\ IF rust.public
       THEN \E s \in Sendings(<<FinalError>>) : Sends(s) /\ Finish(s.ok)
       ELSE /\ out' = <<FinalError>>
            /\ \/ Finish(FALSE)
               \/ ~ session.native /\ Finish(TRUE)
    /\ UNCHANGED <<cur, client>>

\* A failed call ends the request; a failed complete changes nothing any more.
CallError ==
    /\ rust.pc \in {"plan", "advance", "commit", "recommit"} /\ call.state = "error"
    /\ out' = IF rust.public THEN out ELSE <<FinalError>>
    /\ Finish(FALSE)
    /\ UNCHANGED <<cur, client>>

\* The client goes away; before the public stream the whole request is dropped.
ClientLeaves ==
    /\ client = "here" /\ rust.pc # "over"
    /\ client' = "left"
    /\ UNCHANGED <<call, cur, out>>
    /\ IF rust.public
       THEN UNCHANGED <<rust, owner, session>>
       ELSE /\ rust' = [rust EXCEPT !.pc = "over", !.todo = <<>>]
            /\ session' = [session EXCEPT !.open = FALSE]
            /\ owner' = SettledOwner(FALSE)

-----------------------------------------------------------------------------
(* preflight_attempt                                                        *)

StartStream(c) ==
    /\ cur' = c
    /\ IF session.native
       THEN rust' = [rust EXCEPT !.pc = "flush", !.public = TRUE] /\ UNCHANGED call
       ELSE rust' = [rust EXCEPT !.pc = "commit"] /\ Call("commit", c.attempt, "none")
    /\ UNCHANGED owner

\* No answer, an error status or an encoding that cannot be read; or a deadline.
PreflightFails ==
    /\ rust.pc = "preflight"
    /\ Advance(cur)
    /\ Idle /\ UNCHANGED <<cur, out>>

\* An opaque stream is committed by its status alone.
OpaqueStarts ==
    /\ rust.pc = "preflight" /\ cur.mode = "opaque"
    /\ StartStream([cur EXCEPT !.committed = TRUE])
    /\ Idle /\ UNCHANGED out

\* serve_native_nonstream: the answer is read whole, kept and recorded, then returned.
WholeAnswer ==
    /\ rust.pc = "preflight" /\ cur.mode = "whole"
    /\ \E n \in 1..MaxFrames :
         /\ cur' = [cur EXCEPT !.pos = 2 * n, !.committed = TRUE,
                               !.kinds = [f \in 1..n |-> IF f = n THEN "done" ELSE "text"]]
         /\ out' = [h \in 1..(2 * n) |-> Half(cur.attempt, h)]
    /\ owner' = SettledOwner(TRUE)
    /\ rust' = [rust EXCEPT !.pc = "complete", !.reply = "completed"]
    /\ Call("complete", cur.attempt, "completed")
    /\ Idle

PreflightChunk ==
    /\ rust.pc = "preflight" /\ cur.mode \notin {"opaque", "whole"}
    /\ \E k \in Chunks(cur) : \E new \in NewFrames(cur, k) :
         LET c == Fed(cur, k, new)
             p == Preflighted(c, Indexes(cur, new)) IN
         CASE p.verdict = "retry" -> cur' = c /\ Advance(c)
           [] p.verdict = "started" -> StartStream(p.c)
           [] p.verdict = "none" -> cur' = p.c /\ UNCHANGED <<rust, call, owner>>
    /\ Idle /\ UNCHANGED out

\* The stream ends: what is left of a frame counts as one.
PreflightEnds ==
    /\ rust.pc = "preflight" /\ cur.mode \notin {"opaque", "whole"}
    /\ \E new \in NewFrames(cur, IF Pending(cur) = <<>> THEN 0 ELSE 1) :
         LET c == Fed(cur, Len(new), new)
             p == Preflighted(c, Indexes(cur, new)) IN
         IF p.verdict = "started" THEN StartStream(p.c) ELSE cur' = c /\ Advance(c)
    /\ Idle /\ UNCHANGED out

CommitSeen ==
    /\ rust.pc = "commit" /\ call.state = "reply"
    /\ rust' = [rust EXCEPT !.pc = "flush", !.public = TRUE]
    /\ call' = NoCallMade
    /\ Idle /\ UNCHANGED <<cur, out, owner>>

-----------------------------------------------------------------------------
(* run_active_attempt                                                       *)

Ready(c) == c.early \o (IF c.committed THEN c.buffered ELSE <<>>)

\* flush_initial_output, and the terminal that the preflight has seen.
Flush ==
    /\ rust.pc = "flush"
    /\ \E s \in Sendings(FlattenSeq(Ready(cur))) :
         /\ Sends(s)
         /\ cur' = [cur EXCEPT !.early = <<>>,
                               !.buffered = IF cur.committed THEN <<>> ELSE @,
                               !.terminal = "none"]
         /\ CASE ~ s.ok -> Gone(cur)
              [] s.ok /\ cur.terminal = "none" ->
                   rust' = [rust EXCEPT !.pc = "read"] /\ UNCHANGED <<call, owner>>
              [] s.ok /\ cur.terminal # "none" /\ ~ cur.committed -> Advance(cur)
              [] s.ok /\ cur.terminal # "none" /\ cur.committed ->
                   Complete(cur.attempt, IF cur.terminal = "done" THEN "completed" ELSE "rejected")
    /\ Idle

Reading == rust.pc = "read" /\ rust.todo = <<>>
Relaying == Reading /\ cur.committed /\ Raw(cur)
RawReading == Relaying /\ cur.staged

\* The select of each read loop: nobody is left to read for.
NoticeGone ==
    /\ Reading /\ client = "left" /\ ~ Capturing /\ (Relaying => cur.staged)
    /\ Gone(cur)
    /\ Idle /\ UNCHANGED <<cur, out>>

\* run_raw_committed sends first what the decoder still holds.
RawPending ==
    /\ Relaying /\ ~ cur.staged
    /\ \E s \in Sendings(Pending(cur)) :
         /\ Sends(s)
         /\ cur' = [cur EXCEPT !.staged = TRUE]
         /\ IF s.ok THEN UNCHANGED <<rust, call, owner>> ELSE Gone(cur)
    /\ Idle

\* inspect_raw_frames: the first terminal, or a terminal that cannot be read.
Terminals(kinds) == {i \in DOMAIN kinds : kinds[i] \in {"done", "fail", "bad"}}
Inspected(kinds) ==
    IF Terminals(kinds) = {} THEN "none"
    ELSE kinds[CHOOSE i \in Terminals(kinds) : \A j \in Terminals(kinds) : i <= j]

RawOutcome(kind) ==
    CASE kind = "done" -> "completed" [] kind = "fail" -> "rejected" [] OTHER -> "broken"

RawChunk ==
    /\ RawReading
    /\ \E k \in Chunks(cur) : \E new \in NewFrames(cur, k) :
         /\ cur' = Fed(cur, k, new)
         /\ \E s \in Sendings([i \in 1..k |-> Half(cur.attempt, cur.pos + i)]) :
              /\ Sends(s)
              /\ CASE ~ s.ok -> Gone(cur)
                   [] s.ok /\ Inspected(new) = "none" -> UNCHANGED <<rust, call, owner>>
                   [] s.ok /\ Inspected(new) # "none" ->
                        Complete(cur.attempt, RawOutcome(Inspected(new)))
    /\ Idle

RawEnds ==
    /\ RawReading
    /\ \E new \in NewFrames(cur, IF Pending(cur) = <<>> THEN 0 ELSE 1) :
         /\ cur' = [cur EXCEPT !.kinds = @ \o new]
         /\ Complete(cur.attempt, RawOutcome(Inspected(new)))
    /\ Idle /\ UNCHANGED out

\* The other streams, and a guarded one until it commits, are read frame by frame.
FrameReading == Reading /\ ~ Relaying

FrameChunk ==
    /\ FrameReading
    /\ \E k \in Chunks(cur) : \E new \in NewFrames(cur, k) :
         /\ cur' = Fed(cur, k, new)
         /\ rust' = [rust EXCEPT !.todo = Indexes(cur, new)]
    /\ Idle /\ UNCHANGED <<call, out, owner>>

\* The end of the stream: its last frame is processed, then it has failed.
FramesEnd ==
    /\ FrameReading
    /\ IF Pending(cur) # <<>>
       THEN \E kind \in Kinds :
              /\ cur' = Fed(cur, 1, <<kind>>)
              /\ rust' = [rust EXCEPT !.todo = <<Len(cur.kinds) + 1>>]
              /\ UNCHANGED <<call, owner>>
       ELSE /\ IF cur.committed THEN Complete(cur.attempt, "broken") ELSE Advance(cur)
            /\ UNCHANGED cur
    /\ Idle /\ UNCHANGED out

\* A read error or a deadline.
ReadFails ==
    /\ Reading /\ (Relaying => cur.staged)
    /\ IF cur.committed THEN Complete(cur.attempt, "broken") ELSE Advance(cur)
    /\ Idle /\ UNCHANGED <<cur, out>>

-----------------------------------------------------------------------------
(* process_active_frames and relay_selective_frames                         *)

FrameDone == rust' = [rust EXCEPT !.todo = Tail(@)] /\ UNCHANGED <<call, owner>>

\* The commit is known: what was buffered is sent, and a terminal ends the request.
AnswerCommits(c, kind) ==
    \E s \in Sendings(FlattenSeq(c.buffered)) :
      /\ Sends(s)
      /\ cur' = [c EXCEPT !.buffered = <<>>]
      /\ CASE ~ s.ok -> Gone(c)
           [] s.ok /\ kind = "done" -> Complete(c.attempt, "completed")
           [] s.ok /\ kind # "done" ->
                /\ rust' = [rust EXCEPT !.pc = "read", !.todo = Tail(@)]
                /\ call' = NoCallMade /\ UNCHANGED owner

\* A frame of an answer that has not committed.
HoldFrame ==
    /\ rust.pc = "read" /\ rust.todo # <<>> /\ ~ cur.committed
    /\ LET f == Head(rust.todo)
           kind == cur.kinds[f]
           held == [cur EXCEPT !.buffered = Append(@, Frame(cur.attempt, f))]
           commits == [held EXCEPT !.committed = TRUE] IN
       CASE kind \in {"bad", "fail"} -> Advance(cur) /\ UNCHANGED <<cur, out>>
         [] kind = "alive" -> FrameDone /\ UNCHANGED <<cur, out>>
         [] kind = "created" -> cur' = held /\ FrameDone /\ UNCHANGED out
         [] kind \in {"text", "done"} /\ session.native -> AnswerCommits(commits, kind)
         [] kind \in {"text", "done"} /\ ~ session.native ->
              /\ cur' = commits
              /\ rust' = [rust EXCEPT !.pc = "recommit"]
              /\ Call("commit", cur.attempt, "none")
              /\ UNCHANGED <<out, owner>>
    /\ Idle

CommitSeenAgain ==
    /\ rust.pc = "recommit" /\ call.state = "reply"
    /\ AnswerCommits(cur, cur.kinds[Head(rust.todo)])
    /\ Idle

\* A frame of a committed answer.  A rewriting stream reads only the frames that it may have
\* to change, so it passes on the others even if they cannot be read.
RelayFrame ==
    /\ rust.pc = "read" /\ rust.todo # <<>> /\ cur.committed
    /\ LET f == Head(rust.todo)
           kind == cur.kinds[f] IN
       \/ kind = "bad" /\ Complete(cur.attempt, "broken") /\ UNCHANGED out
       \/ /\ kind = "fail"
          /\ rust' = [rust EXCEPT !.pc = "complete", !.todo = <<>>, !.reply = "terminal"]
          /\ Call("complete", cur.attempt, "rejected")
          /\ UNCHANGED <<out, owner>>
       \/ /\ kind \notin {"bad", "fail"} \/ (kind = "bad" /\ ~ Raw(cur))
          /\ \E s \in Sendings(Frame(cur.attempt, f)) :
               /\ Sends(s)
               /\ CASE ~ s.ok -> Gone(cur)
                    [] s.ok /\ kind = "done" -> Complete(cur.attempt, "completed")
                    [] s.ok /\ kind # "done" -> FrameDone
    /\ Idle /\ UNCHANGED cur

\* The outcome is reported.  A failure terminal is sent as Python wrote it for the reply, or
\* by the native route as it came.
ReportEnds ==
    /\ rust.pc = "complete" /\ call.state \in {"reply", "error"}
    /\ \/ /\ rust.reply = "terminal" /\ (session.native \/ call.state = "reply")
          /\ \E s \in Sendings(<<FailedTerminal>>) : Sends(s) /\ Finish(s.ok)
       \/ /\ rust.reply # "terminal" \/ (call.state = "error" /\ ~ session.native)
          /\ UNCHANGED out
          /\ Finish(rust.reply \in {"completed", "rejected"})
    /\ UNCHANGED <<cur, client>>

-----------------------------------------------------------------------------
SessionStep == SessionNext /\ UNCHANGED <<rust, cur, out, client, owner>>

FrontStep ==
    GetPlan \/ PlanArrives \/ FinalArrives \/ CallError \/ OpaqueStarts \/ WholeAnswer \/
    PreflightFails \/ PreflightChunk \/ PreflightEnds \/ CommitSeen \/ Flush \/
    NoticeGone \/ RawPending \/ RawChunk \/ RawEnds \/ FrameChunk \/ FramesEnd \/
    ReadFails \/ HoldFrame \/ CommitSeenAgain \/ RelayFrame \/ ReportEnds

StreamNext == SessionStep \/ FrontStep \/ ClientLeaves

StreamSpec == StreamInit /\ [][StreamNext]_streamVars
-----------------------------------------------------------------------------
(* What the client and the caches get                                       *)

StreamTypeOK ==
    /\ session.task \in {"build", "await", "final", "done", "cancelled"}
    /\ Len(session.box) <= 1
    /\ rust.pc \in {"start", "plan", "preflight", "commit", "recommit", "flush", "read",
                    "advance", "complete", "over"}
    /\ owner \in {"none", "held", "kept", "released", "nonreplayable"}

On(a, h) == Half(a, h) \in Range(out)
FrameOf(h) == (h + 1) \div 2
Relayed == IF Raw(cur) /\ cur.staged THEN cur.pos ELSE 2 * Len(cur.kinds)

IsAlive(h) == FrameOf(h) \in DOMAIN cur.kinds /\ cur.kinds[FrameOf(h)] = "alive"

\* The client sees each byte of one answer once and in order, whatever the chunks, the early
\* keepalive and the change to raw relaying did (responses.rs, process_preflight_frames,
\* stage_raw_pending and run_active_attempt): of an attempt that was given up it has seen at
\* most the keepalive frame that started the stream, and of the answer nothing is left out
\* and nothing changes its place but a keepalive.
OneAnswerOnWire ==
    /\ \A i, j \in DOMAIN out :
         i < j /\ out[i][1] > 0 /\ out[j][1] > 0 =>
           \/ out[i][1] < out[j][1] /\ i <= 2
           \/ out[i][1] = out[j][1] /\ out[i][2] < out[j][2]
           \/ out[i][1] = out[j][1] /\ out[i] # out[j] /\ IsAlive(out[i][2])
    /\ ~ cur.committed => \A h \in 1..cur.pos : On(cur.attempt, h) => IsAlive(h)
    /\ Reading /\ cur.committed =>
         \A h \in 1..Relayed : On(cur.attempt, h) \/ IsAlive(h)

HasTerminal(kinds) ==
    \E f \in DOMAIN cur.kinds : cur.kinds[f] \in kinds /\ On(cur.attempt, 2 * f - 1)

OutcomesRecorded ==
    /\ \A a \in 1..MaxAttempts :
         /\ session.settled[a] = "completed" => a = cur.attempt /\ HasTerminal({"done"})
         /\ session.settled[a] = "failed" => a # cur.attempt \/ ~ cur.committed
         /\ session.settled[a] \notin {"none", "failed"} => a = cur.attempt
    /\ (IF session.native THEN rust.pc = "over" /\ (rust.public \/ client = "here")
                          ELSE session.task = "done") =>
         \A a \in session.planned : session.settled[a] # "none"

OwnerSettled ==
    /\ owner = "kept" => \/ FinalError \in Range(out) \/ FailedTerminal \in Range(out)
                         \/ HasTerminal({"done", "fail"})
    /\ rust.pc = "over" => owner # "held"

\* What the control plane and the replay cache keep of a request is what the client got
\* (responses.rs, finish_terminal, complete_failure and OutputSink::finish): success is a
\* terminal that was sent, a failed attempt is one that could still be replaced, only one
\* attempt ends the request, and every planned attempt of a session that ran to its end has
\* an outcome.  A response is kept for replay only if it came to its end, with a terminal
\* event or the gateway's error; and no claim outlives its request.
OutcomesAgree == OutcomesRecorded /\ OwnerSettled

\* A request comes to its end, and with it its session and the task that runs the attempts
\* (responses.rs, run_active_attempt; rust_responses_control.py, release): no step is taken
\* twice, and as long as something is unsettled the front or the control plane has a step to
\* take, whichever call failed and whoever has left.
RequestSettles ==
    (rust.pc = "over" /\ (session.native \/ TaskEnded)) \/ ENABLED FrontStep \/ ENABLED SessionStep

\* A streamed request of the front is sound: its client, its records and its end.
FrontStreamSound == OneAnswerOnWire /\ OutcomesAgree /\ RequestSettles
===============================================================================
