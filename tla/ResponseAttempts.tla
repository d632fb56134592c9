--------------------------- MODULE ResponseAttempts ---------------------------
(***************************************************************************)
(* What a RequestAdmissionLease of uni_api/admission/core.py keeps of the  *)
(* upstream attempts of its request: which attempt is active, the life of  *)
(* each one, the response bytes that are charged to it, and the summary of *)
(* it that is recorded and published when the memory of the request is     *)
(* finalized.  A stream that is still pending then has its summary         *)
(* deferred: the end of the stream completes it, or a timer does.          *)
(*                                                                         *)
(* A reservation is one unit of memory.  The limits it is admitted against *)
(* are those of RequestMemory; here it is just granted or refused.         *)
(***************************************************************************)
EXTENDS Integers, Sequences, SequencesExt, FiniteSets, FiniteSetsExt

CONSTANTS MaxAttempts,   \* bound: attempts of the request
          Holds,         \* temporary reservations
          MaxGrown,      \* bound: units of a reservation
          HistoryLimit   \* maxlen of _response_event_history

ASSUME AttemptsAssumption ==
    /\ MaxAttempts \in Nat \ {0} /\ IsFiniteSet(Holds)
    /\ MaxGrown \in Nat /\ HistoryLimit \in Nat \ {0}

VARIABLES lg,     \* the lease
          told    \* its summaries: the history of the controller, the ones published, and
                  \* the outcome that an attempt was last given before it was summed up

attemptVars == <<lg, told>>

Unattributed == 0

Lives == 0 .. MaxAttempts

\* An attempt that is not in _response_lifecycle_by_attempt.
NoLife == [outcome |-> "none", committed |-> 0, released |-> 0, rejected |-> 0]

NewLife(outcome) == [NoLife EXCEPT !.outcome = outcome]

\* A temporary reservation: its size and the attempt that it was made in.
NoHold == [ph |-> "new", size |-> 0, attempt |-> Unattributed]
SpentHold == [NoHold EXCEPT !.ph = "spent"]

NewLease ==
    [active |-> Unattributed, started |-> 0, life |-> [a \in Lives |-> NoLife],
     hold |-> [h \in Holds |-> NoHold],
     kept |-> [a \in Lives |-> 0],   \* _response_committed_allocations, by attempt
     owners |-> 0, released |-> FALSE, finalized |-> FALSE, deferred |-> {}]

AttemptsInit ==
    /\ lg = NewLease
    /\ told = [history |-> <<>>, next |-> 1, published |-> <<>>,
               last |-> [a \in Lives |-> "none"]]

\* _reserved_response_bytes of the lease.
Reserved(l) == MapThenSumSet(LAMBDA h : l.hold[h].size, Holds)
                   + MapThenSumSet(LAMBDA a : l.kept[a], Lives)

-----------------------------------------------------------------------------
(* The life of an attempt *)

\* begin_response_attempt; a lease that is being released binds nothing.
BeginAttempt(l) ==
    IF l.released THEN l
    ELSE [l EXCEPT !.started = @ + 1, !.active = l.started + 1,
                   !.life[l.started + 1] = NewLife("started")]

\* _response_lifecycle_locked: memory that is reserved before an attempt is
\* charged to a life of its own.
LifeOf(l, a) == IF l.life[a] = NoLife THEN NewLife("unattributed") ELSE l.life[a]

\* _update_response_lifecycle_locked.
Charge(l, a, committed, released, rejected) ==
    [l EXCEPT !.life[a] =
        [LifeOf(l, a) EXCEPT !.committed = @ + committed, !.released = @ + released, !.rejected = @ + rejected]]

-----------------------------------------------------------------------------
(* Summaries *)

\* _append_response_buffer_event_locked: the history is a deque of bounded length.
Record(t, event) ==
    [t EXCEPT !.history = IF Len(@) = HistoryLimit THEN Append(Tail(@), event)
                          ELSE Append(@, event),
              !.next = @ + 1]

SummaryOf(l, a, outcome, number) ==
    [number |-> number, attempt |-> a, outcome |-> outcome,
     committed |-> l.life[a].committed, released |-> l.life[a].released]

Publish(t, event) == [t EXCEPT !.published = Append(@, event)]

IsPublished(t, a) == \E i \in DOMAIN t.published : t.published[i].attempt = a

\* _replace_response_event_history: an event that has left the history is appended again.
ReplaceEvent(t, event) ==
    LET old == {i \in DOMAIN t.history : t.history[i].number = event.number}
    IN IF old # {} THEN [t EXCEPT !.history = [i \in DOMAIN @ |-> IF i \in old THEN event ELSE @[i]]]
       ELSE [t EXCEPT !.history = IF Len(@) = HistoryLimit THEN Append(Tail(@), event)
                                  ELSE Append(@, event)]

\* Mutant: an event that is waiting stays when its outcome is known.
CompletesNothing(l, t, a, outcome) == <<l, t>>

\* _complete_deferred_response_summary and, when the timer wins,
\* _expire_deferred_response_summary.
CompleteDeferred(l, t, a, outcome) ==
    IF ~ \E e \in l.deferred : e.attempt = a THEN <<l, t>>
    ELSE LET event == [(CHOOSE e \in l.deferred : e.attempt = a) EXCEPT !.outcome = outcome]
         IN <<[l EXCEPT !.deferred = {e \in @ : e.attempt # a}, !.life[a] = NoLife],
              Publish(ReplaceEvent(t, event), event)>>

\* finish_response_attempt; an attempt that is kept active has a stream to come.
FinishAttempt(l, t, outcome, keep) ==
    IF l.active = Unattributed THEN <<l, t>>
    ELSE LET a == l.active
             named == [l EXCEPT !.life[a].outcome = IF l.life[a] = NoLife THEN "none" ELSE outcome]
             said == [t EXCEPT !.last[a] = IF IsPublished(t, a) THEN @ ELSE outcome]
             ended == CompleteDeferred(named, said, a, outcome)
         IN IF keep THEN <<named, said>>
            ELSE <<[ended[1] EXCEPT !.active = Unattributed], ended[2]>>

\* finish_pending_response_attempt.
FinishPending(l, t, outcome) ==
    IF l.active # Unattributed /\ l.life[l.active].outcome = "stream_pending"
    THEN FinishAttempt(l, t, outcome, FALSE)
    ELSE <<l, t>>

\* One attempt of the loop in _finalize_request_memory_locked.
Summarise(lt, a) ==
    LET l == lt[1]
        outcome == l.life[a].outcome
        event == SummaryOf(l, a, outcome, lt[2].next)
        waits == outcome = "stream_pending" /\ l.active = a
        gone == [l EXCEPT !.life[a] = NoLife]
    IN IF l.life[a] = NoLife THEN lt
       ELSE IF a = Unattributed THEN <<gone, lt[2]>>
       ELSE IF waits THEN <<[l EXCEPT !.deferred = @ \cup {event}], Record(lt[2], event)>>
       ELSE <<gone, Publish(Record(lt[2], event), event)>>

\* _finalize_request_memory_locked: what was committed is released, attempt by
\* attempt, and then every attempt is summed up.
Finalize(l, t) ==
    IF l.finalized THEN <<l, t>>
    ELSE LET freed == [l EXCEPT !.kept = [a \in Lives |-> 0],
                         !.life = [a \in Lives |->
                            IF l.kept[a] > 0
                            THEN [LifeOf(l, a) EXCEPT !.released = @ + l.kept[a]]
                            ELSE l.life[a]]]
             summed == FoldLeft(Summarise, <<freed, t>>, [i \in 1 .. MaxAttempts + 1 |-> i - 1])
         IN <<[summed[1] EXCEPT !.finalized = TRUE], summed[2]>>

\* _finish_memory_owner_locked: the last owner of a released lease finalizes it.
EndOwner(l, t) ==
    LET left == [l EXCEPT !.owners = @ - 1]
    IN IF left.released /\ left.owners = 0 THEN Finalize(left, t) ELSE <<left, t>>

\* release and _release_request.
ReleaseLease(l, t) ==
    IF l.released THEN <<l, t>>
    ELSE LET off == [l EXCEPT !.released = TRUE]
         IN IF off.owners > 0 THEN <<off, t>> ELSE Finalize(off, t)

Becomes(lt) == lg' = lt[1] /\ told' = lt[2]

-----------------------------------------------------------------------------
(* The calls of a request, in any order that its tasks may make them *)

AttemptBegins ==
    /\ lg.started < MaxAttempts /\ lg.active = Unattributed /\ ~ lg.released
    /\ Becomes(<<BeginAttempt(lg), told>>)

\* The runner learns how an attempt ended, or that its answer is a stream.
AttemptReturns ==
    /\ lg.active # Unattributed /\ told.last[lg.active] = "none"
    /\ \/ Becomes(FinishAttempt(lg, told, "stream_pending", TRUE))
       \/ \E outcome \in {"succeeded", "failed", "retry_decided"} :
              Becomes(FinishAttempt(lg, told, outcome, FALSE))

\* The task that owns the stream sees its end, however late that is.
StreamTerminates ==
    /\ lg.active # Unattributed /\ told.last[lg.active] = "stream_pending"
    /\ \E outcome \in {"stream_completed", "stream_failed"} :
          Becomes(FinishAttempt(lg, told, outcome, FALSE))

\* reserve_response_bytes.
ReserveDirect ==
    /\ ~ lg.released /\ lg.kept[lg.active] < MaxGrown
    /\ \/ Becomes(<<Charge([lg EXCEPT !.kept[lg.active] = @ + 1], lg.active, 1, 0, 0), told>>)
       \/ Becomes(<<Charge(lg, lg.active, 0, 0, 1), told>>) /\ lg.life[lg.active].rejected = 0

\* reserve_temporary_response_bytes, _activate_temporary_response.
Activate(h) ==
    /\ ~ lg.released /\ lg.hold[h] = NoHold
    /\ Becomes(<<Charge([lg EXCEPT !.hold[h] = [ph |-> "live", size |-> 1, attempt |-> lg.active],
                                   !.owners = @ + 1], lg.active, 0, 0, 0), told>>)

\* _grow_temporary_response, which a release of the lease does not stop.
Grow(h) ==
    /\ lg.hold[h].ph = "live" /\ lg.hold[h].size < MaxGrown
    /\ Becomes(<<[lg EXCEPT !.hold[h].size = @ + 1], told>>)

\* _release_response_bytes, in the life of the attempt that reserved them.
ReleaseHold(h) ==
    /\ lg.hold[h].ph = "live"
    /\ LET r == lg.hold[h]
       IN Becomes(EndOwner(Charge([lg EXCEPT !.hold[h] = SpentHold], r.attempt, 0, 0, 0), told))

\* _commit_temporary_response: the bytes are now the request's.
CommitHold(h) ==
    /\ lg.hold[h].ph = "live"
    /\ LET r == lg.hold[h]
       IN Becomes(EndOwner(Charge([lg EXCEPT !.hold[h] = SpentHold, !.kept[r.attempt] = @ + r.size],
                                  r.attempt, r.size, 0, 0), told))

\* The middleware's cleanup: a pending attempt is finished first.
RequestEnds ==
    /\ ~ lg.released
    /\ \E outcome \in {"stream_completed", "stream_failed"} :
          LET done == FinishPending(lg, told, outcome) IN Becomes(ReleaseLease(done[1], done[2]))

SummaryExpires ==
    \E e \in lg.deferred :
        Becomes(CompleteDeferred(lg, told, e.attempt, "stream_terminal_unobserved"))

AttemptsNext ==
    \/ AttemptBegins \/ AttemptReturns \/ StreamTerminates \/ ReserveDirect
    \/ \E h \in Holds : Activate(h) \/ Grow(h) \/ ReleaseHold(h) \/ CommitHold(h)
    \/ RequestEnds \/ SummaryExpires

-----------------------------------------------------------------------------
(* Properties *)

Published(a) == SelectSeq(told.published, LAMBDA e : e.attempt = a)

\* Every attempt is summed up once and truly (core.py, _finalize_request_memory_locked
\* and the deferred summaries): nothing is published before the memory of the request is
\* finalized; then each attempt that was begun has one published summary, or one that
\* waits for its stream and has no other; a summary names the outcome that the attempt
\* was last given, or the timer's, and never that of a stream that is pending; the bytes
\* that the attempt committed are the bytes released in its name; and the history holds
\* the very event that was published.
SummariesExact ==
    /\ ~ lg.finalized => told.published = <<>> /\ lg.deferred = {}
    /\ lg.finalized => Reserved(lg) = 0 /\ \A a \in Lives : lg.life[a] = NoLife
                                             \/ \E e \in lg.deferred : e.attempt = a
    /\ lg.finalized => \A a \in 1 .. lg.started :
          Len(Published(a)) = IF \E e \in lg.deferred : e.attempt = a THEN 0 ELSE 1
    /\ \A i \in DOMAIN told.published :
          LET e == told.published[i]
              said == told.last[e.attempt]
          IN /\ e.attempt # Unattributed /\ e.committed = e.released
             /\ e.outcome = CASE said = "none" -> "started"
                              [] said = "stream_pending" -> "stream_terminal_unobserved"
                              [] OTHER -> said
    /\ \A i \in DOMAIN told.history :
          LET e == told.history[i]
          IN e \in lg.deferred \/ \E j \in DOMAIN told.published : told.published[j] = e
=============================================================================
