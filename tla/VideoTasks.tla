------------------------------ MODULE VideoTasks ------------------------------
(***************************************************************************)
(* The task routes of the video endpoint (VideoGenerationTasksHandler of   *)
(* uni_api/runtime.py): the answer to a creation says which task it made,  *)
(* and the gateway remembers its provider, its key and its client, so that *)
(* it can ask the same provider about the task later.  Requests about one  *)
(* task overlap; each reads its route before it waits for the provider.    *)
(* The routes are bounded by their age and their number.                   *)
(*                                                                         *)
(* What an attempt of a creation or of a request by model does is in       *)
(* Endpoint; here it is one call.                                          *)
(***************************************************************************)
EXTENDS Integers, FiniteSets, FiniteSetsExt

CONSTANTS MaxTasks,   \* bound on the tasks, for TLC
          Clients,    \* client keys
          Calls,      \* requests
          MaxRoutes,  \* max_task_routes
          RouteLife,  \* task_route_ttl_seconds
          MaxClock    \* bound on the today, for TLC

ASSUME VideoAssumption == /\ MaxTasks \in Nat /\ MaxRoutes \in Nat /\ RouteLife \in Nat /\ MaxClock \in Nat
                          /\ "nobody" \notin Clients

\* Task identifiers, in the order in which the providers give them.
Tasks == 1 .. MaxTasks

NoRoute == [at |-> -1, client |-> "nobody"]
NoCall == [ph |-> "out", client |-> "nobody", task |-> 0, fixed |-> FALSE]

VARIABLES routes,   \* task_routes
          calls,    \* the requests
          maker,    \* the client of a task that the provider made
          born,     \* when the route of a task was remembered, and whether it was deleted
          today

videoVars == <<routes, calls, maker, born, today>>

VideoInit ==
    /\ routes = [t \in Tasks |-> NoRoute]
    /\ calls = [c \in Calls |-> NoCall]
    /\ maker = [t \in Tasks |-> "nobody"]
    /\ born = [t \in Tasks |-> [at |-> -1, deleted |-> FALSE]]
    /\ today = 0

Known(r) == {t \in Tasks : r[t] # NoRoute}
Young(r) == {t \in Known(r) : today - r[t].at <= RouteLife}

\* Mutant: the youngest routes make room.
OverflowYoungest(r) ==
    {s \in SUBSET Young(r) :
        /\ Cardinality(s) = Max({0, Cardinality(Young(r)) - MaxRoutes})
        /\ \A t \in s, u \in Young(r) \ s : r[t].at >= r[u].at}

\* _prune_task_routes: the overflow goes, oldest first.
Overflow(r) ==
    {s \in SUBSET Young(r) :
        /\ Cardinality(s) = Max({0, Cardinality(Young(r)) - MaxRoutes})
        /\ \A t \in s, u \in Young(r) \ s : r[t].at <= r[u].at}

\* _remember_task_route: the table is pruned before the route is put in.
Remember(t, client) ==
    /\ \E s \in Overflow(routes) :
          routes' = [u \in Tasks |-> IF u = t THEN [at |-> today, client |-> client]
                                     ELSE IF u \in Young(routes) \ s THEN routes[u] ELSE NoRoute]
    /\ born' = [born EXCEPT ![t] = [at |-> today, deleted |-> FALSE]]

VideoTick == today < MaxClock /\ today' = today + 1 /\ UNCHANGED <<routes, calls, maker, born>>

\* create_task.
CreateBegins(c, client) ==
    /\ calls[c].ph = "out"
    /\ calls' = [calls EXCEPT ![c] = [NoCall EXCEPT !.ph = "create", !.client = client]]
    /\ UNCHANGED <<routes, maker, born, today>>

\* The provider makes a task.  A request whose answer is lost is sent again, and
\* makes another one.
ProviderCreates(c, t) ==
    /\ calls[c].ph = "create" /\ maker[t] = "nobody"
    /\ \A u \in 1 .. t - 1 : maker[u] # "nobody"
    /\ maker' = [maker EXCEPT ![t] = calls[c].client]
    /\ calls' = [calls EXCEPT ![c].task = t]
    /\ UNCHANGED <<routes, born, today>>

\* _video_response_from_upstream: the task that an answer names is remembered before
\* its status is looked at, which may be one to try again after.
CreateAnswered(c) ==
    /\ calls[c].ph = "create" /\ calls[c].task # 0
    /\ Remember(calls[c].task, calls[c].client)
    /\ calls' = [calls EXCEPT ![c] = NoCall] \/ calls' = [calls EXCEPT ![c].task = 0]
    /\ UNCHANGED <<maker, today>>

\* get_or_delete_task with a route: _resolve_task_route refuses another client (403).
\* Whether it is a GET or a DELETE does not matter until it is answered.
QueryByRoute(c, t, client) ==
    /\ calls[c].ph = "out" /\ routes[t] # NoRoute /\ routes[t].client = client
    /\ calls' = [calls EXCEPT ![c] = [ph |-> "query", client |-> client, task |-> t, fixed |-> TRUE]]
    /\ UNCHANGED <<routes, maker, born, today>>

\* ... and without one: a request that names a model is routed by it, whoever sends it;
\* the others get a 404.
QueryByModel(c, t) ==
    /\ calls[c].ph = "out" /\ routes[t] = NoRoute /\ maker[t] # "nobody"
    /\ calls' = [calls EXCEPT ![c] = [NoCall EXCEPT !.ph = "query", !.task = t]]
    /\ UNCHANGED <<routes, maker, born, today>>

\* The provider has answered, and the client is there: a task deleted is forgotten.
QueryAnswered(c) ==
    /\ calls[c].ph = "query" /\ calls' = [calls EXCEPT ![c] = NoCall]
    /\ \E deleted \in BOOLEAN :
          IF deleted
          THEN /\ routes' = [routes EXCEPT ![calls[c].task] = NoRoute]
               /\ born' = [born EXCEPT ![calls[c].task].deleted = TRUE]
          ELSE UNCHANGED <<routes, born>>
    /\ UNCHANGED <<maker, today>>

\* The client leaves, or the call fails, whatever the provider has done.
CallAbandoned(c) ==
    /\ calls[c].ph # "out" /\ calls' = [calls EXCEPT ![c] = NoCall]
    /\ UNCHANGED <<routes, maker, born, today>>

VideoNext ==
    \/ VideoTick
    \/ \E c \in Calls :
          \/ \E client \in Clients : CreateBegins(c, client)
          \/ \E t \in Tasks : ProviderCreates(c, t)
          \/ \E t \in Tasks, client \in Clients : QueryByRoute(c, t, client)
          \/ \E t \in Tasks : QueryByModel(c, t)
          \/ CreateAnswered(c) \/ QueryAnswered(c) \/ CallAbandoned(c)

VideoSpec == VideoInit /\ [][VideoNext]_videoVars

-----------------------------------------------------------------------------
(* Properties *)

\* The tasks whose routes were remembered since that of t.
Younger(t) == {u \in Tasks \ {t} : born[u].at >= born[t].at}

\* The routes stay what they are for (runtime.py, the video handler), however requests for a
\* task overlap: there is at most one more than allowed; one that was remembered is there until
\* its life is over, its task is deleted or more than are allowed are younger; and a route
\* leads nobody but the client that made the task to its provider, even if it is forgotten
\* while the request waits.
RoutesOwned ==
    /\ Cardinality(Known(routes)) <= MaxRoutes + 1
    /\ \A t \in Tasks :
          /\ born[t].at >= 0 /\ ~ born[t].deleted /\ today - born[t].at <= RouteLife
                /\ Cardinality(Younger(t)) <= MaxRoutes => routes[t] # NoRoute
          /\ routes[t] # NoRoute => routes[t] = [at |-> born[t].at, client |-> maker[t]]
    /\ \A c \in Calls : calls[c].fixed => calls[c].client = maker[calls[c].task]
=============================================================================
