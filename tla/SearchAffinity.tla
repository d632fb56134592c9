---------------------------- MODULE SearchAffinity ----------------------------
(***************************************************************************)
(* SearchAffinityStore of uni_api/routing/search_affinity.py and           *)
(* AlphaSearchRequestHandler of uni_api/api/alpha_search.py: the searches  *)
(* of one session go to the provider and credential that answered its      *)
(* first.  While a session has no binding its searches take turns at a     *)
(* lock that exists only as long as somebody uses it; bindings expire and  *)
(* are evicted, the least recently used one first.                         *)
(*                                                                         *)
(* The store's guard is never held across a suspending await, so each of   *)
(* its sections is part of one step.  A source is a provider with its      *)
(* credential; the attempts at it, and the retries of an unbound search,   *)
(* are Routing's.                                                          *)
(***************************************************************************)
EXTENDS Naturals, Sequences, FiniteSets, SequencesExt

CONSTANTS Searches,      \* requests to /v1/alpha/search
          SessionOf,     \* the session key of a search
          ModelOf,       \* the model it asks for
          Sources,
          MaxBindings    \* max_entries

ASSUME AffinityAssumption ==
    /\ IsFiniteSet(Searches)
    /\ MaxBindings \in Nat \ {0}

Sessions == {SessionOf[s] : s \in Searches}

\* Lock objects: more than the searches can have at once.
Locks == 1 .. Cardinality(Searches) + 1

NoLock == 0

Unbound == [source |-> "none", model |-> "none"]

VARIABLES bound,    \* _bindings: what each session is bound to
          expired,  \* the sessions whose binding has passed its time
          recent,   \* the order of _bindings, least recently used first
          table,    \* _session_locks: the lock object of a session
          locks,    \* users, held and waiters of a lock object
          search    \* where each search stands

affinityVars == <<bound, expired, recent, table, locks, search>>

AffinityInit ==
    /\ bound = [k \in Sessions |-> Unbound]
    /\ expired = {}
    /\ recent = <<>>
    /\ table = [k \in Sessions |-> NoLock]
    /\ locks = [l \in Locks |-> [users |-> 0, held |-> FALSE, line |-> <<>>]]
    /\ search = [s \in Searches |-> [at |-> "idle", lock |-> NoLock, binding |-> Unbound]]

Without(seq, k) == SelectSeq(seq, LAMBDA j : j # k)

\* get: a binding past its time is dropped, another becomes the most recent.
Found(k) == IF k \in expired THEN Unbound ELSE bound[k]

Get(k) ==
    /\ bound' = [bound EXCEPT ![k] = Found(k)]
    /\ expired' = expired \ {k}
    /\ recent' = IF Found(k) = Unbound THEN Without(recent, k) ELSE Append(Without(recent, k), k)

Fresh == CHOOSE l \in Locks : locks[l].users = 0 /\ l \notin {table[k] : k \in Sessions}

\* Where a search goes with the binding b that get returned: a session bound to
\* another model refuses it (409).
With(s, b, otherwise) ==
    IF b = Unbound THEN otherwise
    ELSE IF b.model # ModelOf[s] THEN "refused" ELSE "bound"

\* request_search: a bound search runs at once; another enters session(key), which
\* finds or makes the lock, counts its user and waits.
Arrive(s) ==
    LET k == SessionOf[s]
        b == Found(k)
        l == IF table[k] = NoLock THEN Fresh ELSE table[k]
    IN /\ search[s].at = "idle"
       /\ Get(k)
       /\ IF b # Unbound
          THEN /\ search' = [search EXCEPT ![s].at = With(s, b, "bound"),
                                         ![s].binding = IF With(s, b, "bound") = "bound"
                                                        THEN b ELSE Unbound]
               /\ UNCHANGED <<table, locks>>
          ELSE /\ search' = [search EXCEPT ![s].at = "queued", ![s].lock = l]
               /\ table' = [table EXCEPT ![k] = l]
               /\ locks' = [locks EXCEPT ![l].users = @ + 1, ![l].line = Append(@, s)]

\* The lock is had and the binding is read again: without one the search runs
\* inside the session, else the session is left first.
Enter(s) ==
    LET k == SessionOf[s]
        b == Found(k)
        l == search[s].lock
    IN /\ search[s].at = "queued" /\ ~ locks[l].held /\ Head(locks[l].line) = s
       /\ Get(k)
       /\ search' = [search EXCEPT
                       ![s].at = CASE With(s, b, "first") = "first" -> "first"
                                   [] With(s, b, "first") = "bound" -> "leaving_bound"
                                   [] OTHER -> "leaving",
                       ![s].binding = IF With(s, b, "first") = "bound" THEN b ELSE Unbound]
       /\ locks' = [locks EXCEPT ![l].line = Tail(@), ![l].held = (b = Unbound)]
       /\ UNCHANGED table

\* bind_if_absent for session k and binding b: what is bound then.  Expired
\* bindings go first, then the least recently used.
Winner(k, b) == IF Found(k) = Unbound THEN b ELSE bound[k]

Bind(k, b) ==
    IF Found(k) # Unbound
    THEN /\ recent' = Append(Without(recent, k), k)
         /\ UNCHANGED <<bound, expired>>
    ELSE LET kept == SelectSeq(recent, LAMBDA j : j \notin expired \cup {k})
             room == IF Len(kept) >= MaxBindings
                     THEN SubSeq(kept, Len(kept) - MaxBindings + 2, Len(kept)) ELSE kept
         IN /\ recent' = Append(room, k)
            /\ bound' = [j \in Sessions |->
                           IF j = k THEN b ELSE IF j \in ToSet(room) THEN bound[j] ELSE Unbound]
            /\ expired' = {}

\* Leaving session(): the lock is released in the finally; the count is the
\* business of a task of its own, which a cancellation cannot stop.
Released(s) ==
    IF search[s].at = "first" THEN [locks EXCEPT ![search[s].lock].held = FALSE] ELSE locks

\* The source answers a valid result: it is the session's answer only if the
\* session is bound to it then.  Otherwise the attempt fails; an unbound search may
\* be tried elsewhere.
Answered(s) ==
    LET k == SessionOf[s]
        sources == IF search[s].at = "first" THEN Sources ELSE {search[s].binding.source}
    IN /\ search[s].at \in {"first", "bound"}
       /\ \E b \in [source : sources, model : {ModelOf[s]}] :
             /\ Bind(k, b)
             /\ \/ /\ Winner(k, b) = b \/ search[s].at = "bound"
                   /\ search' = [search EXCEPT
                                   ![s].binding = IF search[s].at = "first" THEN b ELSE Unbound,
                                   ![s].at = IF @ = "first" THEN "leaving"
                                             ELSE IF Winner(k, b) = b THEN "answered"
                                             ELSE "failed"]
                   /\ locks' = Released(s)
                \/ /\ Winner(k, b) # b /\ search[s].at = "first"
                   /\ UNCHANGED <<search, locks>>
       /\ UNCHANGED table

\* Every attempt failed, the bound source is no longer usable, or the request was
\* cancelled while it ran.
Failed(s) ==
    /\ search[s].at \in {"first", "bound"}
    /\ search' = [search EXCEPT ![s].at = IF @ = "first" THEN "leaving" ELSE "failed",
                                ![s].binding = Unbound]
    /\ locks' = Released(s)
    /\ UNCHANGED <<bound, expired, recent, table>>

\* The request is cancelled in the lock's queue.
CancelSearch(s) ==
    /\ search[s].at = "queued"
    /\ search' = [search EXCEPT ![s].at = "leaving", ![s].binding = Unbound]
    /\ locks' = [locks EXCEPT ![search[s].lock].line = Without(@, s)]
    /\ UNCHANGED <<bound, expired, recent, table>>

\* Mutant: the session's lock goes with the first search that leaves.
LastUser_First(s) == TRUE

LastUser(s) == locks[search[s].lock].users = 1

\* _release_session_entry, awaited to its end: the last user removes the lock.  A
\* cancellation that came meanwhile is raised then.
LeaveSession(s) ==
    LET k == SessionOf[s]
        l == search[s].lock
    IN /\ search[s].at \in {"leaving", "leaving_bound"}
       /\ locks' = [locks EXCEPT ![l].users = @ - 1]
       /\ table' = IF LastUser(s) /\ table[k] = l THEN [table EXCEPT ![k] = NoLock] ELSE table
       /\ \E then \in {"failed", IF search[s].at = "leaving_bound" THEN "bound" ELSE "answered"} :
             /\ then = "answered" => search[s].binding # Unbound
             /\ search' = [search EXCEPT ![s].lock = NoLock, ![s].at = then,
                             ![s].binding = IF then = "bound" THEN @ ELSE Unbound]
       /\ UNCHANGED <<bound, expired, recent>>

\* The clock passes the end of a binding's life.
Elapse(k) ==
    /\ bound[k] # Unbound /\ k \notin expired
    /\ expired' = expired \cup {k}
    /\ UNCHANGED <<bound, recent, table, locks, search>>

AffinityNext ==
    \/ \E s \in Searches :
          Arrive(s) \/ Enter(s) \/ Answered(s) \/ Failed(s) \/ CancelSearch(s) \/ LeaveSession(s)
    \/ \E k \in Sessions : Elapse(k)

-----------------------------------------------------------------------------
\* The lock of a session exists exactly while somebody uses it, knows its users, and is held
\* only by a search that runs: search_affinity.py, session and _release_session_entry.
LocksExact ==
    \A k \in Sessions :
        LET users == {s \in Searches : SessionOf[s] = k /\ search[s].lock # NoLock}
            l == table[k]
        IN /\ (l = NoLock) = (users = {})
           /\ \A s \in users : search[s].lock = l
           /\ l # NoLock =>
                /\ locks[l].users = Cardinality(users)
                /\ locks[l].held = \E s \in users : search[s].at = "first"
                /\ ToSet(locks[l].line) = {s \in users : search[s].at = "queued"}

\* Two searches never look for the source of one session at the same time.
FirstAlone ==
    \A s, t \in Searches :
        search[s].at = "first" /\ search[t].at = "first" /\ SessionOf[s] = SessionOf[t] => s = t

\* The table keeps its size, and its order names what is bound.
BindingsExact ==
    /\ ToSet(recent) = {k \in Sessions : bound[k] # Unbound}
    /\ Len(recent) = Cardinality(ToSet(recent)) /\ Len(recent) <= MaxBindings

\* Sessions are exclusive and leave nothing behind, whoever is cancelled and whatever expires
\* or is evicted (search_affinity.py:81).
SessionsSound == LocksExact /\ FirstAlone /\ BindingsExact
==============================================================================
