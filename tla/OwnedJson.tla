------------------------------ MODULE OwnedJson ------------------------------
(***************************************************************************)
(* CPU phases (uni_api/admission/cpu.py) and the ownership of parsed JSON  *)
(* (uni_api/admission/json_parsing.py) and parsed SSE events               *)
(* (uni_api/streaming/sse.py).  A parse runs as a callback on a thread     *)
(* under one of the CPU tokens; the graph that it makes is paid for by a   *)
(* reservation of the request, which goes back with the graph or is handed *)
(* on with it; an event has a second one for its text.  The caller may be  *)
(* cancelled at every await.                                               *)
(***************************************************************************)
EXTENDS Integers, FiniteSets

CONSTANTS Parsers,   \* tasks that parse one payload each
          PhaseLimit   \* CPU_PHASE_LIMITER.capacity

ASSUME CpuAssumption == PhaseLimit \in Nat \ {0}

VARIABLES token,   \* where each task stands with the limiter
          thread,  \* the callback that its executor runs: none, running or done
          counted,  \* _active
          graph,   \* the parsed value: none, live, closed
          paid,    \* who has its reservation: nobody, owner, taker or returned
          space,   \* an event's workspace reservation: none, held or returned
          closer,  \* the value's _close_task: none, running or done
          cancelled

jsonVars == <<token, thread, counted, graph, paid, space, closer, cancelled>>

OwnedInit ==
    /\ token = [p \in Parsers |-> "idle"] /\ thread = [p \in Parsers |-> "none"]
    /\ counted = 0
    /\ graph = [p \in Parsers |-> "none"] /\ paid = [p \in Parsers |-> "nobody"]
    /\ space = [p \in Parsers |-> "none"]
    /\ closer = [p \in Parsers |-> "none"] /\ cancelled = [p \in Parsers |-> FALSE]

-----------------------------------------------------------------------------
(* CPUPhaseLimiter and run_cpu_phase *)

\* parse_owned_sse_event begins with the workspace of its text; a task without a
\* request, or with a plain JSON value, has none.
ReserveSpace(p) ==
    /\ token[p] = "idle"
    /\ token' = [token EXCEPT ![p] = "split"]
    /\ space' \in {[space EXCEPT ![p] = o] : o \in {"held", "none"}}
    /\ UNCHANGED <<thread, counted, graph, paid, closer, cancelled>>

SpaceReturned(p) == [space EXCEPT ![p] = IF @ = "held" THEN "returned" ELSE @]

\* A comment, [DONE] or an event without data has no graph.
EventWithoutJson(p) ==
    /\ token[p] = "split"
    /\ token' = [token EXCEPT ![p] = "over"]
    /\ graph' = [graph EXCEPT ![p] = "live"]
    /\ UNCHANGED <<thread, counted, paid, space, closer, cancelled>>

\* The event is too large or malformed, or its graph gets no memory.
RefuseEvent(p) ==
    /\ token[p] = "split"
    /\ token' = [token EXCEPT ![p] = "over"]
    /\ space' = SpaceReturned(p)
    /\ UNCHANGED <<thread, counted, graph, paid, closer, cancelled>>

\* The graph's estimate is reserved before the parse.
ReserveGraph(p) ==
    /\ token[p] = "split"
    /\ token' = [token EXCEPT ![p] = "wants"]
    /\ paid' \in {[paid EXCEPT ![p] = o] : o \in {"owner", "nobody"}}
    /\ UNCHANGED <<thread, counted, graph, space, closer, cancelled>>

\* acquire, then run_in_executor.
AcquireToken(p) ==
    /\ token[p] = "wants" /\ ~ cancelled[p]
    /\ counted < PhaseLimit
    /\ counted' = counted + 1
    /\ token' = [token EXCEPT ![p] = "held"]
    /\ thread' = [thread EXCEPT ![p] = "running"]
    /\ UNCHANGED <<graph, paid, space, closer, cancelled>>

\* A cancellation while it waits for a token takes effect at once; later it is
\* remembered until the callback has ended.
CancelParser(p) ==
    /\ token[p] \in {"wants", "held"} /\ ~ cancelled[p]
    /\ cancelled' = [cancelled EXCEPT ![p] = TRUE]
    /\ UNCHANGED <<token, thread, counted, graph, paid, space, closer>>

CallbackEnds(p) ==
    /\ thread[p] = "running"
    /\ thread' = [thread EXCEPT ![p] = "done"]
    /\ UNCHANGED <<token, counted, graph, paid, space, closer, cancelled>>

\* Mutant: a cancelled caller gives its token back at once.
PhaseOverAtOnce(p) == token[p] = "held" /\ (thread[p] = "done" \/ cancelled[p])

\* The loop around shield(future).
PhaseOver(p) == token[p] = "held" /\ thread[p] = "done"

\* except BaseException: the reservation is returned.
AfterFailure(p) == IF paid[p] = "nobody" THEN "nobody" ELSE "returned"

\* run_cpu_phase's finally, and what parse_owned_json_value makes of the outcome:
\* an owner, or an exception that returns the reservation.
PhaseEnds(p, parsed) ==
    /\ PhaseOver(p)
    /\ parsed => ~ cancelled[p]
    /\ counted' = counted - 1
    /\ token' = [token EXCEPT ![p] = "over"]
    /\ graph' = [graph EXCEPT ![p] = IF parsed THEN "live" ELSE "none"]
    /\ paid' = [paid EXCEPT ![p] = IF parsed THEN @ ELSE AfterFailure(p)]
    /\ space' = IF parsed THEN space ELSE SpaceReturned(p)
    /\ UNCHANGED <<thread, closer, cancelled>>

\* The wait for a token is cancelled.
GiveUpToken(p) ==
    /\ token[p] = "wants" /\ cancelled[p]
    /\ token' = [token EXCEPT ![p] = "over"]
    /\ paid' = [paid EXCEPT ![p] = AfterFailure(p)]
    /\ space' = SpaceReturned(p)
    /\ UNCHANGED <<thread, counted, graph, closer, cancelled>>

\* A small payload is parsed in the caller's own step.
ParseInline(p, parsed) ==
    /\ token[p] = "wants" /\ ~ cancelled[p]
    /\ token' = [token EXCEPT ![p] = "over"]
    /\ graph' = [graph EXCEPT ![p] = IF parsed THEN "live" ELSE "none"]
    /\ paid' = [paid EXCEPT ![p] = IF parsed THEN @ ELSE AfterFailure(p)]
    /\ space' = IF parsed THEN space ELSE SpaceReturned(p)
    /\ UNCHANGED <<thread, counted, closer, cancelled>>

-----------------------------------------------------------------------------
(* OwnedJSONValue and OwnedSSEEvent *)

Open(p) == graph[p] = "live" /\ closer[p] = "none"

\* take_reservation: no await, so it is one step.
TakeReservation(p) ==
    /\ Open(p) /\ paid[p] = "owner"
    /\ paid' = [paid EXCEPT ![p] = "taker"]
    /\ UNCHANGED <<token, thread, counted, graph, space, closer, cancelled>>

\* aclose: close_nowait when there is nothing to return, else a task of its own,
\* started before the first await and shielded from the caller's cancellation.
CloseValue(p) ==
    /\ Open(p)
    /\ IF paid[p] = "owner" \/ space[p] = "held"
       THEN closer' = [closer EXCEPT ![p] = "running"] /\ UNCHANGED graph
       ELSE graph' = [graph EXCEPT ![p] = "closed"] /\ UNCHANGED closer
    /\ UNCHANGED <<token, thread, counted, paid, space, cancelled>>

\* _close_once: it drops the graph and then returns the reservations it saw.
CloseOnce(p) ==
    /\ closer[p] = "running"
    /\ closer' = [closer EXCEPT ![p] = "done"]
    /\ graph' = [graph EXCEPT ![p] = "closed"]
    /\ paid' = [paid EXCEPT ![p] = IF @ = "owner" THEN "returned" ELSE @]
    /\ space' = SpaceReturned(p)
    /\ UNCHANGED <<token, thread, counted, cancelled>>

OwnedNext ==
    \E p \in Parsers :
        \/ ReserveSpace(p) \/ EventWithoutJson(p) \/ RefuseEvent(p) \/ ReserveGraph(p)
        \/ AcquireToken(p) \/ CancelParser(p) \/ CallbackEnds(p)
        \/ GiveUpToken(p) \/ TakeReservation(p) \/ CloseValue(p) \/ CloseOnce(p)
        \/ \E parsed \in BOOLEAN : PhaseEnds(p, parsed) \/ ParseInline(p, parsed)

OwnedSpec == OwnedInit /\ [][OwnedNext]_jsonVars

-----------------------------------------------------------------------------
\* A CPU token covers its callback until the thread is done with it, whoever was
\* cancelled, so no more callbacks run than there are tokens, and a finished task
\* holds none.
TokensCoverThreads ==
    /\ counted = Cardinality({p \in Parsers : token[p] = "held"})
    /\ Cardinality({p \in Parsers : thread[p] = "running"}) <= PhaseLimit

\* The reservations of a graph and of an event's text are returned or handed on:
\* none is left behind by a closed value, a failed parse or a cancelled one, and
\* none is returned while its graph is still in use.
GraphPaidOnce ==
    \A p \in Parsers :
        /\ token[p] = "over" /\ graph[p] # "live" => paid[p] # "owner" /\ space[p] # "held"
        /\ graph[p] = "live" => paid[p] # "returned" /\ space[p] # "returned"

\* What a parse uses is paid for (admission/cpu.py and json_parsing.py): a CPU token and the
\* reservation of the graph are held as long as the thread and the graph, and returned once,
\* wherever the caller is cancelled.
JsonPaid == TokensCoverThreads /\ GraphPaidOnce
=============================================================================
