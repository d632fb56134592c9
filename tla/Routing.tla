------------------------------- MODULE Routing -------------------------------
(***************************************************************************)
(* A request's way through the providers: RoutingPlan of                   *)
(* uni_api/routing/core.py and UpstreamRunner of upstream.py, over the key *)
(* pools and the route health that all requests share.                     *)
(*                                                                         *)
(* A plan is a ring of providers, fixed when the request arrives, and a    *)
(* number of slots: one pass over the ring and retry_count more.  Every    *)
(* attempt takes the next usable slot and a key of its provider, and calls *)
(* the provider.  A failure may exclude the route, refresh which providers *)
(* of the ring are available, cool the key, take back its rate-limit       *)
(* record, and either ends the request or sends it to the next slot.       *)
(*                                                                         *)
(* None of this suspends except the upstream call: the locks of the pools  *)
(* are never held across an await.  So choosing a slot and a key is one    *)
(* step, and so is all the handling of a failure.                          *)
(***************************************************************************)
EXTENDS Integers, Sequences, SequencesExt, FiniteSets, FiniteSetsExt

-----------------------------------------------------------------------------
(***************************************************************************)
(* ProviderKeyPool and RateLimitState of uni_api/rate_limit: the API keys  *)
(* of every provider, a cursor that rotates over them, the times of the    *)
(* calls made with each key, and the time until which a key cools.  All    *)
(* calls are for one model.                                                *)
(*                                                                         *)
(* The code drops expired timestamps when it next looks at a window; here  *)
(* they are dropped as the clock passes them.  Nothing can tell the two    *)
(* apart: whoever looks at a window prunes it first, and a rollback takes  *)
(* the newest timestamp, which is expired only when all of them are.       *)
(***************************************************************************)

CONSTANTS Providers,
          MaxTime,    \* bound: the clock of cool-downs, windows and circuits stops here
          KeyList,    \* the items of a provider's pool, in their order
          Rules,      \* RateLimitRules: records of count and period
          KeysFixed   \* the keys' schedule algorithm is fixed_priority

ASSUME PoolAssumption ==
    /\ MaxTime \in Nat
    /\ IsFiniteSet(Providers) /\ Providers # {}
    /\ \A p \in Providers : KeyList[p] # <<>>
    /\ \A r \in Rules : r.count \in Nat /\ r.period \in Nat \ {0}
    /\ KeysFixed \in BOOLEAN

VARIABLES now,       \* the clock
          cursor,    \* index
          windows,   \* requests: the call times, by provider, key and period
          cooling    \* cooling_until

poolVars == <<cursor, windows, cooling>>

Times == 0 .. MaxTime

ClockInit == now = 0

AdvanceClock == /\ now < MaxTime
                /\ now' = now + 1

Keys(p) == ToSet(KeyList[p])

Periods == {r.period : r \in Rules}

PoolInit ==
    /\ cursor = [p \in Providers |-> 0]
    /\ windows = [p \in Providers |-> [k \in Keys(p) |-> [d \in Periods |-> <<>>]]]
    /\ cooling = [p \in Providers |-> [k \in Keys(p) |-> 0]]

\* The windows w at time t.
Pruned(w, t) ==
    [p \in Providers |-> [k \in Keys(p) |-> [d \in Periods |->
        SelectSeq(w[p][k][d], LAMBDA u : u > t - d)]]]

IsRateLimited(p, k) ==
    \/ now < cooling[p][k]
    \/ \E r \in Rules : Len(windows[p][k][r.period]) >= r.count

IsAllRateLimited(p) == \A k \in Keys(p) : IsRateLimited(p, k)

\* What next leaves: the place of the first free key, from the cursor on and
\* once around.
NextKeyAt(p) ==
    LET n == Len(KeyList[p])
        from == IF KeysFixed THEN 0 ELSE cursor[p]
        free == {i \in 0 .. n - 1 :
                    ~IsRateLimited(p, KeyList[p][((from + i) % n) + 1])}
    IN IF free = {} THEN {} ELSE {(from + Min(free)) % n}

\* next returns the key at place i and commits the call.
Claim(p, i) ==
    /\ cursor' = [cursor EXCEPT ![p] = (i + 1) % Len(KeyList[p])]
    /\ windows' = [windows EXCEPT ![p][KeyList[p][i + 1]] =
                     [d \in Periods |-> Append(@[d], now)]]
    /\ UNCHANGED cooling

\* rollback_last_record takes back the newest call of the key.
RolledBack(w, p, k) ==
    [w EXCEPT ![p][k] = [d \in Periods |-> IF @[d] = <<>> THEN <<>> ELSE Front(@[d])]]

\* set_cooling
Cooled(c, p, k, seconds) == [c EXCEPT ![p][k] = now + seconds]

-----------------------------------------------------------------------------
(***************************************************************************)
(* Route health: ChannelManager of uni_api/runtime.py and                  *)
(* ProviderModelCircuitBreaker of uni_api/routing/health.py.  Which routes,*)
(* pairs of a provider and a model name, are left out of routing for a     *)
(* while: a failed one for the provider's cool-down, and after Threshold   *)
(* answers of 403 or 404 within Window its circuit opens for OpenFor.      *)
(*                                                                         *)
(* A failure is recorded under the name the provider knows the model by,   *)
(* and get_available_providers looks up the name the client asked for.     *)
(* As with the key windows, what has expired is dropped as the clock       *)
(* passes it; the code drops it when it next looks.                        *)
(***************************************************************************)
CONSTANTS RequestModel,    \* the model name of the requests
          OriginalModel,   \* each provider's own name for it
          Cooldown,        \* cooldown_period of each provider; 0: disabled
          Threshold, Window, OpenFor

ASSUME HealthAssumption ==
    /\ Cooldown \in [Providers -> Nat]
    /\ DOMAIN OriginalModel = Providers
    /\ Threshold \in Nat \ {0} /\ Window \in Nat \ {0} /\ OpenFor \in Nat \ {0}

VARIABLES failures,   \* of a route's circuit: the times of its 403s and 404s
          openUntil,  \* the time its circuit closes; 0: it is closed
          excluded    \* _excluded_models: the time it was excluded; -1: it is not

healthVars == <<failures, openUntil, excluded>>

Routes == Providers \X ({RequestModel} \cup {OriginalModel[p] : p \in Providers})

HealthInit ==
    /\ failures = [x \in Routes |-> <<>>]
    /\ openUntil = [x \in Routes |-> 0]
    /\ excluded = [x \in Routes |-> -1]

\* The route a failure of provider p is recorded under.
FailedRoute(p) == <<p, OriginalModel[p]>>

\* The route the filter of providers looks at.
FilteredRoute(p) == <<p, RequestModel>>

\* _prune_locked and the expiry of an exclusion, at time t.
Expire(t) ==
    /\ failures' = [x \in Routes |->
            IF openUntil[x] # 0 /\ openUntil[x] <= t THEN <<>>
            ELSE SelectSeq(failures[x], LAMBDA u : u >= t - Window)]
    /\ openUntil' = [x \in Routes |-> IF openUntil[x] <= t THEN 0 ELSE openUntil[x]]
    /\ excluded' = [x \in Routes |->
            IF t - excluded[x] > Cooldown[x[1]] THEN -1 ELSE excluded[x]]

\* record_failure returns TRUE: the failure opens the circuit of route x.
Opens(x) == openUntil[x] <= now /\ Len(failures[x]) + 1 >= Threshold

\* record_failure on the tables f and o.
FailureAdded(f, x) == [f EXCEPT ![x] = Append(@, now)]

CircuitAfter(o, x) == IF Opens(x) THEN [o EXCEPT ![x] = now + OpenFor] ELSE o

\* exclude_model
ExcludedAfter(e, x) == [e EXCEPT ![x] = now]

\* record_success: the route's state is forgotten.
Reset(x) ==
    /\ failures' = [failures EXCEPT ![x] = <<>>]
    /\ openUntil' = [openUntil EXCEPT ![x] = 0]
    /\ UNCHANGED excluded

AvailableIn_CircuitOnly(o, e) == {p \in Providers : o[FilteredRoute(p)] <= now}

\* get_available_providers, of all of Providers, on the tables o and e.
AvailableIn(o, e) ==
    {p \in Providers :
        /\ o[FilteredRoute(p)] <= now
        /\ Cardinality(Providers) > 1 => e[FilteredRoute(p)] = -1}

-----------------------------------------------------------------------------
(* The requests and their plans *)

CONSTANTS Requests,
          Order,        \* the providers in the order of the configuration
          Weight,       \* the weights of the API key; a function on the weighted
          Scheduling,   \* SCHEDULING_ALGORITHM
          RetryCap,     \* the most retries of a plan with several providers: 10
          AutoRetry,    \* AUTO_RETRY
          Failures,     \* how calls fail in this instance
          PlainCooling, LimitCooling, QuotaCooling   \* key cool-downs

ASSUME RoutingAssumption ==
    /\ ToSet(Order) = Providers /\ Len(Order) = Cardinality(Providers)
    /\ DOMAIN Weight \subseteq Providers
    /\ RetryCap \in Nat /\ AutoRetry \in BOOLEAN
    /\ PlainCooling \in Nat /\ LimitCooling \in Nat \ {0} /\ QuotaCooling \in Nat \ {0}

VARIABLES lastIndex,   \* last_provider_indices of the model
          req,         \* the requests
          left         \* history: the exclusions a request made itself

vars == <<now, cursor, windows, cooling, failures, openUntil, excluded,
          lastIndex, req, left>>

-----------------------------------------------------------------------------
(* The plan *)

\* _weighted_round_robin_cached, on the providers names: every round raises each
\* by its weight, takes the one with the greatest ratio of the two, the first of
\* them, and lowers it by the sum of the weights.
WeightedRing(names) ==
    LET total == MapThenSumSet(LAMBDA i : Weight[names[i]], DOMAIN names)
        First(cur) == Min({i \in DOMAIN names : \A j \in DOMAIN names :
                        cur[i] * Weight[names[j]] >= cur[j] * Weight[names[i]]})
        round[n \in 0 .. total] ==
            IF n = 0 THEN [cur |-> [i \in DOMAIN names |-> 0], ring |-> <<>>]
            ELSE LET up == [i \in DOMAIN names |->
                               round[n - 1].cur[i] + Weight[names[i]]]
                     i == First(up)
                 IN [cur |-> [up EXCEPT ![i] = @ - total],
                     ring |-> Append(round[n - 1].ring, names[i])]
    IN round[total].ring

\* get_right_order_providers: the rings that may be made of the providers av.
Rings(av) ==
    LET base == SelectSeq(Order, LAMBDA p : p \in av)
        some == SelectSeq(base, LAMBDA p : p \in DOMAIN Weight)
    IN IF Len(some) <= 1
       THEN IF Scheduling = "random" THEN SetToSeqs(av) ELSE {base}
       ELSE IF Scheduling \in {"weighted_round_robin", "smart_round_robin"}
       THEN {WeightedRing(some)}
       ELSE IF Scheduling = "lottery"
       THEN [1 .. Len(WeightedRing(some)) -> ToSet(some)]
       ELSE {some}

\* compute_retry_count
RetryCount(ring) ==
    LET keys == MapThenSumSet(LAMBDA i : Len(KeyList[ring[i]]), DOMAIN ring)
    IN IF Len(ring) = 1 /\ keys > 1 THEN keys ELSE Min({2 * keys, RetryCap})

NoRequest == [ph |-> "new", ring |-> <<>>, start |-> 0, index |-> 0, retries |-> 0,
              avail |-> {}, status |-> "none", prov |-> "none", key |-> "none"]

Init ==
    /\ ClockInit /\ PoolInit /\ HealthInit
    /\ lastIndex = -1
    /\ req = [r \in Requests |-> NoRequest]
    /\ left = [r \in Requests |-> {}]

\* The request is answered: s is what the status says.
Answered(s) == [NoRequest EXCEPT !.ph = "done", !.status = s]

\* RoutingPlan.create, with compute_start_index.  Nobody available is a 503.
Arrive(r) ==
    /\ req[r].ph = "new"
    /\ LET av == AvailableIn(openUntil, excluded)
       IN \/ /\ av = {}
             /\ req' = [req EXCEPT ![r] = Answered("no provider")]
             /\ UNCHANGED lastIndex
          \/ \E ring \in Rings(av) :
                LET n == Len(ring)
                    turns == Scheduling # "fixed_priority" /\ n > 1
                    at == IF turns THEN (lastIndex + 1) % n ELSE 0
                IN /\ av # {}
                   /\ lastIndex' = IF turns THEN at ELSE lastIndex
                   /\ req' = [req EXCEPT ![r] =
                        [NoRequest EXCEPT !.ph = "choosing", !.ring = ring,
                            !.start = at, !.retries = RetryCount(ring),
                            !.avail = ToSet(ring)]]
    /\ UNCHANGED <<now, poolVars, healthVars, left>>

-----------------------------------------------------------------------------
(* Attempts *)

Slots(q) == q.index .. Len(q.ring) + q.retries - 1

ProviderAt(q, i) == q.ring[((q.start + i) % Len(q.ring)) + 1]

\* The slots next_provider would return.
Usable(q) == {i \in Slots(q) : /\ ProviderAt(q, i) \in q.avail
                               /\ ~IsAllRateLimited(ProviderAt(q, i))}

\* The slots before i at which next_provider records a 429.
Limited(q, i) == {j \in Slots(q) : /\ j < i
                                   /\ ProviderAt(q, j) \in q.avail
                                   /\ IsAllRateLimited(ProviderAt(q, j))}

\* next_provider finds a slot, and select_provider_api_key_raw a key for it.
StartAttempt(r) ==
    LET q == req[r]
        i == Min(Usable(q))
        p == ProviderAt(q, i)
    IN /\ q.ph = "choosing" /\ Usable(q) # {}
       /\ \E k \in NextKeyAt(p) :
            /\ Claim(p, k)
            /\ req' = [req EXCEPT ![r] = [q EXCEPT
                    !.ph = "calling", !.index = i + 1, !.prov = p,
                    !.key = KeyList[p][k + 1],
                    !.status = IF Limited(q, i) = {} THEN @ ELSE "keys limited"]]
       /\ UNCHANGED <<now, healthVars, lastIndex, left>>

\* next_provider finds no slot: the request is answered with what was recorded
\* last.  With a single provider it stops at the first slot whose keys are all
\* limited; the answer is the same.
Exhaust(r) ==
    LET q == req[r]
        end == Len(q.ring) + q.retries
    IN /\ q.ph = "choosing" /\ Usable(q) = {}
       /\ req' = [req EXCEPT ![r] =
            Answered(IF Limited(q, end) = {} THEN q.status ELSE "keys limited")]
       /\ left' = [left EXCEPT ![r] = {}]
       /\ UNCHANGED <<now, poolVars, healthVars, lastIndex>>

\* The client has gone: before_next_attempt, or execute_attempt, answers 499.
Disconnect(r) ==
    /\ req[r].ph \in {"choosing", "calling"}
    /\ req' = [req EXCEPT ![r] = Answered("client gone")]
    /\ left' = [left EXCEPT ![r] = {}]
    /\ UNCHANGED <<now, poolVars, healthVars, lastIndex>>

\* The call succeeds, which closes the circuit of the route.
Succeed(r) ==
    LET q == req[r]
    IN /\ q.ph = "calling"
       /\ Reset(FailedRoute(q.prov))
       /\ req' = [req EXCEPT ![r] = Answered("ok")]
       /\ left' = [left EXCEPT ![r] = {}]
       /\ UNCHANGED <<now, poolVars, lastIndex>>

-----------------------------------------------------------------------------
(* Failures                                                                *)
(*   missing   a 404                                                       *)
(*   blocked   a 403 with a text of the list of errors that are excused    *)
(*   excused   another error of that list                                  *)
(*   invalid   a 400, a 413, or the 404 of an item that was not stored     *)
(*   local     refused by the gateway's own admission                      *)
(*   overload  no connection free in the gateway's own pool                *)
(*   quota     a 429, the quota is exhausted                               *)
(*   rate      a 429, the rate is exceeded                                 *)
(*   auth      no token for the key, while the attempt is prepared         *)
(*   down      everything else                                             *)

Counted == {"missing", "blocked"}
Excused == {"excused", "blocked"}
Blameless == {"local", "overload", "invalid"}
Final == {"local", "invalid"}
Prepared == {"auth"}

\* maybe_cool_provider_api_key: for how long the key cools after failure o.
CoolingOf(o) == IF o \in {"quota", "auth"} THEN QuotaCooling
                ELSE IF o = "rate" THEN LimitCooling
                ELSE IF o \in Excused \cup Blameless THEN 0
                ELSE PlainCooling

\* Failures that speak against the route.
Blames(o) == o \notin Blameless \cup Prepared

\* maybe_exclude_failed_channel: failure o of request q opens the circuit ...
FailureOpens(q, o) == o \in Counted /\ Opens(FailedRoute(q.prov))

\* ... or excludes the route for the cool-down of its provider.
FailureExcludes(q, o) ==
    /\ Blames(o) /\ ~FailureOpens(q, o) /\ o \notin Excused
    /\ Cooldown[q.prov] > 0 /\ Len(q.ring) > 1

\* _handle_failure.  When nobody is left, refresh_matching_providers raises.
\* That is caught only where the circuit has opened, else it leaves run at once,
\* before the key is cooled and its record taken back.
Fail(r, o) ==
    LET q == req[r]
        p == q.prov
        x == FailedRoute(p)
        opens == FailureOpens(q, o)
        excludes == FailureExcludes(q, o)
        circuits == IF o \in Counted THEN CircuitAfter(openUntil, x) ELSE openUntil
        exclusions == IF excludes THEN ExcludedAfter(excluded, x) ELSE excluded
        av == AvailableIn(circuits, exclusions)
        raises == excludes /\ av = {}
        cools == ~raises /\ CoolingOf(o) > 0 /\ Len(KeyList[p]) > 1
        retries == /\ AutoRetry /\ o \notin Final
                   /\ ~((opens \/ excludes) /\ av = {})
    IN /\ q.ph = "calling"
       /\ failures' = IF o \in Counted THEN FailureAdded(failures, x) ELSE failures
       /\ openUntil' = circuits
       /\ excluded' = exclusions
       /\ cooling' = IF cools THEN Cooled(cooling, p, q.key, CoolingOf(o)) ELSE cooling
       /\ windows' = IF ~raises /\ o \in Excused
                     THEN RolledBack(windows, p, q.key) ELSE windows
       /\ left' = [left EXCEPT ![r] =
            IF ~retries THEN {}
            ELSE IF opens THEN @ \cup {[prov |-> p, until |-> circuits[x]]}
            ELSE IF excludes THEN @ \cup {[prov |-> p, until |-> now + Cooldown[p] + 1]}
            ELSE @]
       /\ req' = [req EXCEPT ![r] =
            IF retries
            THEN [q EXCEPT !.ph = "choosing", !.status = o, !.prov = "none", !.key = "none",
                    !.avail = IF opens \/ excludes THEN ToSet(q.ring) \cap av ELSE @]
            ELSE Answered(IF raises THEN "no provider" ELSE o)]
       /\ UNCHANGED <<now, cursor, lastIndex>>

\* A second passes.
Tick == /\ AdvanceClock
        /\ windows' = Pruned(windows, now + 1)
        /\ Expire(now + 1)
        /\ UNCHANGED <<cursor, cooling, lastIndex, req, left>>

Next == \/ Tick
        \/ \E r \in Requests :
              \/ Arrive(r) \/ StartAttempt(r) \/ Exhaust(r)
              \/ Disconnect(r) \/ Succeed(r)
              \/ \E o \in Failures : Fail(r, o)

Spec == Init /\ [][Next]_vars

-----------------------------------------------------------------------------
(* Properties *)

\* A request that has just excluded a route does not call its provider again
\* while the exclusion lasts: the ring keeps its slots and steps over them.
SkipsWhatItExcluded ==
    [][\A r \in Requests :
        req[r].ph = "choosing" /\ req'[r].ph = "calling" =>
            ~\E e \in left[r] : /\ e.prov = req'[r].prov /\ now < e.until
                                /\ \/ openUntil[FailedRoute(e.prov)] = e.until
                                   \/ excluded[FailedRoute(e.prov)] # -1]_vars

\* A request that may be retried is answered with a failure only when none of
\* the slots it has left is any use: a provider that is not available, or whose
\* keys are all limited.
GivesUpLast ==
    [][\A r \in Requests :
        LET q == req[r]
        IN /\ AutoRetry /\ q.ph \in {"choosing", "calling"} /\ req'[r].ph = "done"
           /\ req'[r].status \notin {"ok", "client gone"} \cup Final
           => \A i \in Slots(q) :
                \/ ProviderAt(q, i) \notin q.avail
                \/ ProviderAt(q, i) \notin AvailableIn(openUntil', excluded')
                \/ IsAllRateLimited(ProviderAt(q, i))]_vars

\* A request walks its ring as routing/core.py and upstream.py promise, while others change
\* the health it walks by: it never tries what it has excluded, and gives up last.
RingWalked == SkipsWhatItExcluded /\ GivesUpLast
==============================================================================
