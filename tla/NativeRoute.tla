----------------------------- MODULE NativeRoute -----------------------------
(***************************************************************************)
(* bin/uni-api-front/responses_native.rs: how the Rust front routes a      *)
(* Responses request without Python.  A request is admitted by two sliding *)
(* windows, then walks the ring of its providers: next_plan skips what     *)
(* cools and selects a key, record_failure cools the route in up to three  *)
(* locked steps and decides on a retry, complete_native ends the request.  *)
(* All routes share the store; each lock is taken and given up on its own, *)
(* so the steps of several requests interleave.                            *)
(***************************************************************************)
EXTENDS Integers, Sequences, SequencesExt, FiniteSets, FiniteSetsExt

CONSTANTS Callers,         \* requests
          Ring,            \* matching_providers, in their order
          KeysOf,          \* the API keys of a provider
          Codex,           \* the providers with the engine codex
          Limits,          \* the rules of the global and the client's bucket
          ChannelSeconds,  \* cooldown_period
          CircuitLimit, CircuitSeconds, OpenSeconds,   \* the circuit of a route
          KeySeconds,      \* of a key: after a quota, a rate limit and another failure
          Upstream,        \* how calls fail in this instance
          MaxRetries,      \* the most retries: 10
          Retries,         \* AUTO_RETRY
          LastTick         \* the end of time

ASSUME NativeAssumption ==
    /\ Ring # <<>> /\ \A p \in Range(Ring) : KeysOf[p] # <<>>
    /\ DOMAIN Limits = {"global", "client"}
    /\ {CircuitLimit, CircuitSeconds, OpenSeconds, MaxRetries, LastTick} \subseteq Nat
    /\ Retries \in BOOLEAN

VARIABLES clock, store, route

nativeVars == <<clock, store, route>>

Names == Range(Ring)
Longest == Max({l.seconds : l \in UNION Range(Limits)})
KeysIn(p) == Range(KeysOf[p])

\* compute_retry_count
MaxAttemptsOf ==
    LET keys == MapThenSumSet(LAMBDA p : Len(KeysOf[p]), Names) IN
    Len(Ring) + (IF Len(Ring) = 1 /\ keys > 1 THEN keys ELSE Min({2 * keys, MaxRetries}))

NativeInit ==
    /\ clock = 0
    /\ store = [channelUntil |-> [p \in Names |-> 0],
                keyUntil |-> [p \in Names |-> [k \in KeysIn(p) |-> 0]],
                history |-> [p \in Names |-> <<>>],
                next |-> [p \in Names |-> 0],
                windows |-> [b \in DOMAIN Limits |-> [l \in Limits[b] |-> <<>>]],
                admitted |-> <<>>]
    /\ route = [r \in Callers |->
                  [pc |-> "arrive", cursor |-> 0, key |-> "none", failure |-> "none",
                   status |-> "none", failed |-> FALSE, skips |-> 0, calls |-> 0, recorded |-> 0,
                   finals |-> 0, seen |-> "none"]]

In(r, pc) == route[r].pc = pc
ProviderOf(r) == Ring[((route[r].cursor - 1) % Len(Ring)) + 1]

-----------------------------------------------------------------------------
(* admit_rate                                                               *)

\* A rule of a bucket: at most count in the last seconds.
Recent(b, l) == SelectSeq(store.windows[b][l], LAMBDA t : clock - t < l.seconds)

Admits(b) == \A l \in Limits[b] : Len(Recent(b, l)) < l.count

Counted_In(b) ==
    [store EXCEPT !.windows[b] =
       [l \in Limits[b] |-> IF Admits(b) THEN Append(Recent(b, l), clock) ELSE Recent(b, l)]]

\* prepare_native_request asks the global bucket, then the client's.
AdmitGlobal(r) ==
    /\ In(r, "arrive")
    /\ store' = Counted_In("global")
    /\ route' = [route EXCEPT ![r].pc = IF Admits("global") THEN "client" ELSE "refused"]
    /\ UNCHANGED clock

AdmitClient(r) ==
    /\ In(r, "client")
    /\ store' = [Counted_In("client") EXCEPT
                   !.admitted = IF Admits("client") THEN Append(@, clock) ELSE @]
    /\ route' = [route EXCEPT ![r].pc = IF Admits("client") THEN "next" ELSE "refused"]
    /\ UNCHANGED clock

-----------------------------------------------------------------------------
(* next_plan                                                                *)

\* Mutant: a skip hides the failure of the call before it.
AfterSkip_Hides(x) == [x EXCEPT !.pc = "next", !.skips = @ + 1, !.status = "skipped"]

\* A provider that cools is skipped; the answer still tells of the last call that failed.
AfterSkip(x) ==
    [x EXCEPT !.pc = "next", !.skips = @ + 1, !.status = IF x.failed THEN @ ELSE "skipped"]

\* The end of a request that got no answer: one final event.
GivenUp(x) == [x EXCEPT !.pc = "over", !.finals = @ + 1, !.key = "none", !.failure = "none"]

\* The next place of the ring; its channel is looked at.
LookAtChannel(r) ==
    /\ In(r, "next") /\ route[r].cursor < MaxAttemptsOf
    /\ LET x == [route[r] EXCEPT !.cursor = @ + 1]
           p == Ring[(route[r].cursor % Len(Ring)) + 1] IN
       route' = [route EXCEPT ![r] = IF store.channelUntil[p] > clock THEN AfterSkip(x)
                                     ELSE [x EXCEPT !.pc = "key"]]
    /\ UNCHANGED <<clock, store>>

FreeKeys(p) ==
    {i \in 0..(Len(KeysOf[p]) - 1) :
       store.keyUntil[p][KeysOf[p][((store.next[p] + i) % Len(KeysOf[p])) + 1]] <= clock}

\* select_provider_key: the first key that does not cool, from the cursor on.
SelectKey(r) ==
    /\ In(r, "key")
    /\ LET p == ProviderOf(r)
           n == Len(KeysOf[p])
           steps == IF FreeKeys(p) = {} THEN n ELSE Min(FreeKeys(p)) + 1 IN
       /\ store' = [store EXCEPT !.next[p] = (@ + steps) % n]
       /\ route' = [route EXCEPT ![r] =
            IF FreeKeys(p) = {} THEN AfterSkip(@)
            ELSE [@ EXCEPT !.pc = "call", !.calls = @ + 1,
                           !.key = KeysOf[p][((store.next[p] + Min(FreeKeys(p))) % n) + 1]]]
    /\ UNCHANGED clock

RouteExhausted(r) ==
    /\ In(r, "next") /\ route[r].cursor >= MaxAttemptsOf
    /\ route' = [route EXCEPT ![r] = GivenUp(@)]
    /\ UNCHANGED <<clock, store>>

-----------------------------------------------------------------------------
(* record_failure and cool_failed_route                                     *)

\* forbidden is a 403 or 404; scoped is a failure that the request itself has caused.
FailureRecorded(x, f) ==
    [x EXCEPT !.failure = f, !.status = f, !.failed = TRUE, !.recorded = @ + 1,
              !.seen = f]

CallFailsWith(r) ==
    /\ In(r, "call")
    /\ \E f \in Upstream :
         route' = [route EXCEPT ![r] =
           [FailureRecorded(@, f) EXCEPT !.pc = CASE f = "scoped" -> "decide"
                                           [] f = "forbidden" -> "circuit"
                                           [] OTHER -> "channel"]]
    /\ UNCHANGED <<clock, store>>

\* The failures of a route within the window open its circuit.
CountForbidden(r) ==
    /\ In(r, "circuit")
    /\ LET p == ProviderOf(r)
           h == Append(SelectSeq(store.history[p], LAMBDA t : clock - t < CircuitSeconds), clock) IN
       store' = [store EXCEPT !.history[p] = h,
                              !.channelUntil[p] = IF Len(h) >= CircuitLimit
                                                  THEN clock + OpenSeconds ELSE @]
    /\ route' = [route EXCEPT ![r].pc = "channel"]
    /\ UNCHANGED clock

\* The channel cools if there is another one, for its own time whatever the circuit says.
CoolChannel(r) ==
    /\ In(r, "channel")
    /\ LET p == ProviderOf(r) IN
       store' = [store EXCEPT !.channelUntil[p] =
                   IF Len(Ring) > 1 /\ ChannelSeconds > 0 THEN clock + ChannelSeconds ELSE @]
    /\ route' = [route EXCEPT ![r].pc = IF Len(KeysOf[ProviderOf(r)]) > 1 THEN "coolkey" ELSE "decide"]
    /\ UNCHANGED clock

SecondsOf(p, f) ==
    IF f = "quota" \/ (f = "forbidden" /\ p \in Codex) THEN KeySeconds.quota
    ELSE IF f = "limited" THEN KeySeconds.limited ELSE KeySeconds.plain

CoolKey(r) ==
    /\ In(r, "coolkey")
    /\ LET p == ProviderOf(r)
           seconds == SecondsOf(p, route[r].failure) IN
       store' = IF seconds > 0
                THEN [store EXCEPT !.keyUntil[p][route[r].key] = clock + seconds] ELSE store
    /\ route' = [route EXCEPT ![r].pc = "decide"]
    /\ UNCHANGED clock

Decide(r) ==
    /\ In(r, "decide")
    /\ route' = [route EXCEPT ![r] =
         IF Retries /\ @.failure # "scoped" /\ @.cursor < MaxAttemptsOf
         THEN [@ EXCEPT !.pc = "next", !.failure = "none", !.key = "none"] ELSE GivenUp(@)]
    /\ UNCHANGED <<clock, store>>

\* complete_native: an answer, which forgets the route's failures but not what cools; or a
\* stream that fails after its commit.
CompleteNative(r) ==
    /\ In(r, "call")
    /\ \/ /\ store' = [store EXCEPT !.history[ProviderOf(r)] = <<>>]
          /\ route' = [route EXCEPT ![r] = [GivenUp(@) EXCEPT !.status = "answered", !.recorded = @ + 1]]
       \/ /\ UNCHANGED store
          /\ route' = [route EXCEPT ![r] = [GivenUp(@) EXCEPT !.failed = TRUE, !.status = "broken",
                                                             !.recorded = @ + 1]]
    /\ UNCHANGED clock

\* What has expired is dropped as the clock passes it; the code drops or ignores it when it
\* next looks.
Later(until) == IF until <= clock + 1 THEN 0 ELSE until
Fresher(times, seconds) == SelectSeq(times, LAMBDA t : clock + 1 - t < seconds)

NativeTick ==
    /\ clock < LastTick
    /\ clock' = clock + 1
    /\ store' = [store EXCEPT
         !.channelUntil = [p \in Names |-> Later(@[p])],
         !.keyUntil = [p \in Names |-> [k \in KeysIn(p) |-> Later(@[p][k])]],
         !.history = [p \in Names |-> Fresher(@[p], CircuitSeconds)],
         !.windows = [b \in DOMAIN Limits |-> [l \in Limits[b] |-> Fresher(@[b][l], l.seconds)]],
         !.admitted = Fresher(@, Longest)]
    /\ UNCHANGED route

NativeStep(r) ==
    \/ AdmitGlobal(r) \/ AdmitClient(r) \/ LookAtChannel(r) \/ SelectKey(r) \/ RouteExhausted(r)
    \/ CallFailsWith(r) \/ CountForbidden(r) \/ CoolChannel(r) \/ CoolKey(r) \/ Decide(r)
    \/ CompleteNative(r)

NativeNext == NativeTick \/ \E r \in Callers : NativeStep(r)

NativeSpec == NativeInit /\ [][NativeNext]_nativeVars
-----------------------------------------------------------------------------
AnswerTold ==
    \A r \in Callers : In(r, "over") =>
      LET x == route[r] IN
      /\ x.status \in {"answered", "broken"} \/
           x.status = IF x.seen = "none" THEN "skipped" ELSE x.seen
      /\ x.finals = 1 /\ x.recorded = x.calls /\ x.cursor = x.calls + x.skips

\* The client gets the last failure of a call, which a later skip of a cooling provider does
\* not hide, and 429 only if no call was made; every place of the ring that was tried is a
\* call or a skip, every call has one outcome, and the request one final event
\* (responses_native.rs, next_plan, record_failure and emit_final_event).  No window holds
\* more admitted requests than its rule allows, whatever the order of the two buckets.
NativeRouteTrue ==
    /\ AnswerTold
    /\ \A b \in DOMAIN Limits : \A l \in Limits[b] :
         Len(SelectSeq(store.admitted, LAMBDA t : clock - t < l.seconds)) <= l.count
=============================================================================
