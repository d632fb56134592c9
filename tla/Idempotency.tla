----------------------------- MODULE Idempotency -----------------------------
(***************************************************************************)
(* InMemoryIdempotencyCoordinator and IdempotencyMiddleware of             *)
(* uni_api/middleware/idempotency.py: requests with the same key are run   *)
(* once; the others wait for the owner and replay its stored response.     *)
(*                                                                         *)
(* The sections under the coordinator's lock contain no await, so each is  *)
(* one step.  Between them a request waits for its body, for a disk write  *)
(* of a spool, for the application, for the owner's event or for its       *)
(* client, and others step in.  Requests are not cancelled after the       *)
(* application has returned: the server cancels them only when it stops.   *)
(* An owner whose file fails outside of the handlers is lost: its request  *)
(* ends with an error and nobody settles its entry.                        *)
(*                                                                         *)
(* An entry is named by the request that owns it.  Expiry is a set of      *)
(* entries whose time is over, which any entry may join once it is         *)
(* complete.                                                               *)
(***************************************************************************)
EXTENDS Integers, Sequences, FiniteSets, FiniteSetsExt, SequencesExt

CONSTANTS Requests,
          Keys,         \* record keys: credential, method, path and header
          KeyOf,        \* the key of each request
          HashOf,       \* the hash of its body
          None,
          MaxEntries,   \* max_entries
          MaxStored,    \* max_stored_bytes, the quota of all spools
          MaxResponse,  \* max_response_bytes
          MaxBody       \* max_request_body_bytes

\* The checks of the coordinator's __init__.
ASSUME IdempotencyAssumption ==
    /\ IsFiniteSet(Requests)
    /\ None \notin Requests
    /\ KeyOf \in [Requests -> Keys]
    /\ MaxEntries \in Nat \ {0} /\ MaxStored \in Nat \ {0}
    /\ MaxResponse \in Nat \ {0} /\ MaxBody \in Nat

VARIABLES co,    \* the coordinator
          req    \* the requests in the middleware

vars == <<co, req>>

NewEntry == [st |-> "none", readers |-> 0]

\* table: _entries, the owner by key.  ent: the entry of each owner; its event
\* is set unless it is running.  done: the completed entries of the table,
\* oldest first.  body, resp: what the spools of a request are charged with.
Init ==
    /\ co = [table |-> [k \in Keys |-> None],
             ent   |-> [c \in Requests |-> NewEntry],
             done  |-> <<>>,
             old   |-> {},
             body  |-> [c \in Requests |-> 0],
             resp  |-> [c \in Requests |-> 0],
             total |-> 0,
             stored |-> 0]
    /\ req = [c \in Requests |-> [ph |-> "reading", with |-> None, capture |-> TRUE]]

-----------------------------------------------------------------------------
(* The coordinator's helpers, on the state s of the coordinator. *)

\* close_spool and _discard_spool_locked: the charge goes at once.
CloseBody(s, c) == [s EXCEPT !.body[c] = 0, !.total = @ - s.body[c]]

CloseResponse(s, c) == [s EXCEPT !.resp[c] = 0, !.total = @ - s.resp[c]]

\* Drop a completed entry from the table, with its stored response.
Dropped(s, c) ==
    LET bytes == IF s.ent[c].st = "stored" THEN s.resp[c] ELSE 0
    IN  [s EXCEPT !.table[KeyOf[c]] = None,
                  !.ent[c].st = "gone",
                  !.done = Remove(@, c),
                  !.old = @ \ {c},
                  !.resp[c] = @ - bytes,
                  !.total = @ - bytes,
                  !.stored = @ - bytes]

DropAll(s, seq) == FoldLeft(Dropped, s, seq)

\* Mutant of Prunable: an entry that is being replayed may expire.
Prunable_Unpinned(s) == SelectSeq(s.done, LAMBDA c : c \in s.old)

\* _prune_expired_locked
Prunable(s) == SelectSeq(s.done, LAMBDA c : c \in s.old /\ s.ent[c].readers = 0)

Prune(s) == DropAll(s, Prunable(s))

\* The completed entries that nobody replays, oldest first.
Evictable(s) == SelectSeq(s.done, LAMBDA c : s.ent[c].readers = 0)

Entries(s) == Cardinality({k \in Keys : s.table[k] # None})

\* _make_entry_room_locked: one new entry needs one place.
MakeEntryRoom(s) ==
    IF Entries(s) < MaxEntries \/ Evictable(s) = <<>> THEN s
    ELSE Dropped(s, Head(Evictable(s)))

HasEntryRoom(s) == Entries(s) < MaxEntries

\* _make_spool_room_locked: evict until the bytes fit.  An entry without a
\* stored response is evicted in its turn too, although that frees nothing.
Freed(s, k) ==
    MapThenSumSet(LAMBDA i : IF s.ent[Evictable(s)[i]].st = "stored"
                             THEN s.resp[Evictable(s)[i]] ELSE 0, 1..k)

MakeSpoolRoom(s, n) ==
    LET all    == Evictable(s)
        enough == {k \in 0..Len(all) : s.total + n - Freed(s, k) <= MaxStored}
    IN  IF n > MaxStored THEN s
        ELSE DropAll(s, SubSeq(all, 1, IF enough = {} THEN Len(all) ELSE Min(enough)))

\* append_spool before it writes: expired entries go only under pressure.
WithRoom(s, n) ==
    MakeSpoolRoom(IF s.total + n > MaxStored THEN Prune(s) ELSE s, n)

Fits(s, n) == s.total + n <= MaxStored

-----------------------------------------------------------------------------
At(c, phase) == req[c].ph = phase

Goto(c, phase) == req' = [req EXCEPT ![c].ph = phase]

(* _read_body *)

\* A chunk arrives: append_spool charges it, or the request is refused.
BodyChunk(c, n) ==
    LET s == WithRoom(co, n)
    IN  /\ At(c, "reading")
        /\ co.body[c] + n <= MaxBody
        /\ \/ /\ Fits(s, n)
              /\ co' = [s EXCEPT !.body[c] = @ + n, !.total = @ + n]
              /\ Goto(c, "writing body")
           \/ /\ ~Fits(s, n)
              /\ co' = CloseBody(s, c)
              /\ Goto(c, "answered")

\* append_async returns, or fails and the spool is discarded.
BodyWritten(c) ==
    /\ At(c, "writing body")
    /\ \/ Goto(c, "reading") /\ UNCHANGED co
       \/ Goto(c, "answered") /\ co' = CloseBody(co, c)

\* The body is too large, too slow, or the client is gone.
BodyFails(c) ==
    /\ At(c, "reading")
    /\ co' = CloseBody(co, c)
    /\ Goto(c, "answered")

BodyComplete(c) ==
    /\ At(c, "reading")
    /\ Goto(c, "claiming")
    /\ UNCHANGED co

-----------------------------------------------------------------------------
(* claim, and what the request does with the answer *)

Matches(c, e) == HashOf[c] = HashOf[e]

\* The first lines of _execute_owner, without an await since the claim: the
\* body's file is opened and its first chunk read before the try.  An OSError
\* there passes every handler: the body's spool is no longer the caller's to
\* close, and the entry keeps running.
BodyOpens(c) ==
    \/ Goto(c, "running")
    \/ co.body[c] > 0 /\ Goto(c, "lost")

Claim(c) ==
    LET s == Prune(co)
        e == s.table[KeyOf[c]]
        t == MakeEntryRoom(s)
    IN  /\ At(c, "claiming")
        /\ \/ /\ e # None /\ (~Matches(c, e) \/ s.ent[e].st = "tomb")
              /\ co' = s                        \* conflict, nonreplayable
              /\ Goto(c, "answering")
           \/ /\ e # None /\ Matches(c, e) /\ s.ent[e].st = "stored"
              /\ co' = [s EXCEPT !.ent[e].readers = @ + 1]
              /\ req' = [req EXCEPT ![c].ph = "replaying", ![c].with = e]
           \/ /\ e # None /\ Matches(c, e) /\ s.ent[e].st = "running"
              /\ co' = s
              /\ req' = [req EXCEPT ![c].ph = "waiting", ![c].with = e]
           \/ /\ e = None /\ ~HasEntryRoom(t)
              /\ co' = t                        \* unavailable
              /\ Goto(c, "answering")
           \/ /\ e = None /\ HasEntryRoom(t)
              /\ co' = [t EXCEPT !.table[KeyOf[c]] = c, !.ent[c].st = "running"]
              /\ BodyOpens(c)

\* _wait_for_owner returns "ready": the claim is made again.
OwnerDone(c) ==
    /\ At(c, "waiting")
    /\ co.ent[req[c].with].st # "running"
    /\ req' = [req EXCEPT ![c].ph = "claiming", ![c].with = None]
    /\ UNCHANGED co

\* It times out or the client disconnects.
WaitEnds(c) ==
    /\ At(c, "waiting")
    /\ req' = [req EXCEPT ![c].ph = "answering", ![c].with = None]
    /\ UNCHANGED co

\* The replay is sent, or the client is gone: finish_replay in a "finally".
ReplayEnds(c) ==
    /\ At(c, "replaying")
    /\ co' = CloseBody([co EXCEPT !.ent[req[c].with].readers = @ - 1], c)
    /\ req' = [req EXCEPT ![c].ph = "answered", ![c].with = None]

\* The error is sent; the request's own spool is closed in a "finally".
AnswerSent(c) ==
    /\ At(c, "answering")
    /\ co' = CloseBody(co, c)
    /\ Goto(c, "answered")

-----------------------------------------------------------------------------
(* _execute_owner *)

\* The application has read the whole body: detached_receive closes its spool.
BodyConsumed(c) ==
    /\ At(c, "running")
    /\ co.body[c] > 0
    /\ co' = CloseBody(co, c)
    /\ UNCHANGED req

\* A chunk of the response: captured while it fits, passed on in any case.
ResponseChunk(c, n) ==
    LET s == WithRoom(co, n)
    IN  /\ At(c, "running")
        /\ req[c].capture
        /\ \/ /\ co.resp[c] + n <= MaxResponse /\ Fits(s, n)
              /\ co' = [s EXCEPT !.resp[c] = @ + n, !.total = @ + n]
              /\ Goto(c, "writing response")
           \/ /\ co.resp[c] + n <= MaxResponse /\ ~Fits(s, n)
              /\ co' = CloseResponse(s, c)
              /\ req' = [req EXCEPT ![c].capture = FALSE]
           \/ /\ co.resp[c] + n > MaxResponse
              /\ co' = CloseResponse(co, c)
              /\ req' = [req EXCEPT ![c].capture = FALSE]

ResponseWritten(c) ==
    /\ At(c, "writing response")
    /\ \/ Goto(c, "running") /\ UNCHANGED co
       \/ /\ co' = CloseResponse(co, c)
          /\ req' = [req EXCEPT ![c].ph = "running", ![c].capture = FALSE]

\* Trailers cannot be replayed.
Trailers(c) ==
    /\ At(c, "running")
    /\ req[c].capture
    /\ co' = CloseResponse(co, c)
    /\ req' = [req EXCEPT ![c].capture = FALSE]

\* The application raises or is cancelled: its response is dropped first.
AppRaises(c) ==
    /\ At(c, "running") \/ At(c, "writing response")
    /\ co' = CloseResponse(co, c)
    /\ Goto(c, "failing")

AppReturns(c) ==
    /\ At(c, "running")
    /\ co' = CloseBody(co, c)
    /\ Goto(c, "returned")

\* The stream was cut off, or the status is not to be replayed.
NotReplayable(c) ==
    /\ At(c, "returned")
    /\ co' = CloseResponse(co, c)
    /\ Goto(c, "failing")

\* Mutant of ReleaseFailure: the entry stays and nobody is woken.
ReleaseFailure_Forgets(c) ==
    /\ At(c, "failing")
    /\ Goto(c, "answering")
    /\ UNCHANGED co

\* release_failure: the key is free again and the waiters try once more.  The
\* request's own spool is closed afterwards, in a "finally".
ReleaseFailure(c) ==
    /\ At(c, "failing")
    /\ co' = [co EXCEPT !.table[KeyOf[c]] = None, !.ent[c].st = "gone"]
    /\ Goto(c, "answering")

\* The capture is complete and goes to disk.
Seal(c) ==
    /\ At(c, "returned")
    /\ req[c].capture
    /\ Goto(c, "sealing")
    /\ UNCHANGED co

SealFails(c) ==
    /\ At(c, "sealing")
    /\ co' = CloseResponse(co, c)
    /\ Goto(c, "unsealed")

\* Closing the file raises an OSError, which is no IdempotencySpoolError.
SealBreaks(c) ==
    /\ At(c, "sealing")
    /\ co.resp[c] > 0
    /\ Goto(c, "lost")
    /\ UNCHANGED co

\* complete.  Its early returns need an entry that is not the owner's, or a
\* response above the limit: OwnersAreRegistered and QuotaRespected.
Complete(c) ==
    LET s == Prune(co)
    IN  /\ At(c, "sealing")
        /\ co' = [s EXCEPT !.ent[c].st = "stored",
                           !.done = Append(@, c),
                           !.stored = @ + s.resp[c]]
        /\ Goto(c, "answered")

\* complete_nonreplayable: the execution is remembered without its response.
CompleteNonreplayable(c) ==
    LET s == Prune(co)
    IN  /\ At(c, "unsealed") \/ (At(c, "returned") /\ ~req[c].capture)
        /\ co' = [s EXCEPT !.ent[c].st = "tomb", !.done = Append(@, c)]
        /\ Goto(c, "answered")

\* The time to live of a completed entry ends.
Expire(c) ==
    /\ co.ent[c].st \in {"stored", "tomb"}
    /\ c \notin co.old
    /\ co' = [co EXCEPT !.old = @ \cup {c}]
    /\ UNCHANGED req

-----------------------------------------------------------------------------
ReaderStep(c) == \/ BodyChunk(c, 1)
                 \/ BodyWritten(c)
                 \/ BodyFails(c)
                 \/ BodyComplete(c)

ClaimStep(c) == \/ Claim(c)
                \/ OwnerDone(c)
                \/ WaitEnds(c)
                \/ ReplayEnds(c)
                \/ AnswerSent(c)

OwnerStep(c) == \/ BodyConsumed(c)
                \/ ResponseChunk(c, 1)
                \/ ResponseWritten(c)
                \/ Trailers(c)
                \/ AppRaises(c)
                \/ AppReturns(c)
                \/ NotReplayable(c)
                \/ ReleaseFailure(c)
                \/ Seal(c)
                \/ SealFails(c)
                \/ SealBreaks(c)
                \/ Complete(c)
                \/ CompleteNonreplayable(c)

Next == \E c \in Requests : ReaderStep(c) \/ ClaimStep(c) \/ OwnerStep(c) \/ Expire(c)

Spec == Init /\ [][Next]_vars

\* Disk writes and sends end, the application returns or raises (its upstream
\* calls have time-outs), and the event loop resumes a request whose event is
\* set.  Clients need not send, wait or stay.
TaskStep(c) ==
    \/ Claim(c) \/ OwnerDone(c) \/ ReplayEnds(c) \/ AnswerSent(c)
    \/ BodyConsumed(c) \/ ResponseWritten(c) \/ AppReturns(c)
    \/ NotReplayable(c) \/ ReleaseFailure(c) \/ Seal(c) \/ SealFails(c)
    \/ Complete(c) \/ CompleteNonreplayable(c)

Fairness == \A c \in Requests : WF_vars(TaskStep(c))

FairSpec == Spec /\ Fairness

-----------------------------------------------------------------------------
Phases == {"reading", "writing body", "claiming", "waiting", "replaying", "answering",
           "answered", "running", "writing response", "returned", "sealing",
           "unsealed", "failing", "lost"}

TypeOK ==
    /\ co.table \in [Keys -> Requests \cup {None}]
    /\ co.ent \in [Requests -> [st : {"none", "running", "stored", "tomb", "gone"},
                                readers : Nat]]
    /\ co.done \in Seq(Requests) /\ co.old \subseteq Requests
    /\ co.body \in [Requests -> Nat] /\ co.resp \in [Requests -> Nat]
    /\ co.total \in Nat /\ co.stored \in Nat
    /\ req \in [Requests -> [ph : Phases, with : Requests \cup {None},
                             capture : BOOLEAN]]

Executing == {c \in Requests : req[c].ph \in {"running", "writing response",
                                              "returned", "sealing", "unsealed", "failing"}}

\* The owners that ended without settling their entries.
Lost == {c \in Requests : At(c, "lost")}

\* An executing request is the registered owner of its key until it has
\* completed or released it, whatever is pruned or evicted meanwhile.  So no
\* two requests with the same key execute at once, and complete,
\* complete_nonreplayable and release_failure always find their entry.  Only a
\* lost owner leaves its key taken, for good: nobody executes it again.
OwnersAreRegistered ==
    \A c \in Requests :
        c \in Executing \cup Lost <=> co.table[KeyOf[c]] = c /\ co.ent[c].st = "running"

\* A response being replayed stays: its entry is not expired, evicted or
\* discarded under the reader, and it is the response to the same body.  It is
\* pinned exactly by its readers: finish_replay never underflows, and an entry
\* nobody reads any more can go.
ReplayIsPinned ==
    LET readers(e) == {c \in Requests : req[c].ph = "replaying" /\ req[c].with = e}
    IN  \A e \in Requests :
            /\ co.ent[e].readers = Cardinality(readers(e))
            /\ \A c \in readers(e) :
                  /\ co.table[KeyOf[c]] = e /\ co.ent[e].st = "stored"
                  /\ HashOf[e] = HashOf[c]

\* The quota is never exceeded and its accounting is exact: every charged byte
\* belongs to the spool of a request that is still there, to an entry of the
\* table, or to a lost owner, whose one open spool stays charged.
QuotaRespected ==
    /\ co.total <= MaxStored
    /\ co.total = MapThenSumSet(LAMBDA c : co.body[c] + co.resp[c], Requests)
    /\ co.stored = MapThenSumSet(LAMBDA c : co.resp[c],
                                 {c \in Requests : co.ent[c].st = "stored"})
    /\ \A c \in Requests :
          /\ co.resp[c] <= MaxResponse
          /\ req[c].ph = "answered" => co.body[c] = 0
          /\ co.resp[c] > 0 => c \in Executing \cup Lost \/ co.ent[c].st = "stored"
          /\ c \in Lost => (co.body[c] > 0) # (co.resp[c] > 0)

\* The table holds at most max_entries, and the completed ones among them are
\* exactly those that may be evicted in order of completion.
TableExact ==
    /\ TypeOK
    /\ Entries(co) <= MaxEntries
    /\ IsInjective(co.done)
    /\ Range(co.done) = {c \in Requests : co.ent[c].st \in {"stored", "tomb"}}
    /\ \A c \in Range(co.done) : co.table[KeyOf[c]] = c

\* The requests that may wait for another: one with their key and their body.
Duplicated == {c \in Requests : \E d \in Requests \ {c} : KeyOf[d] = KeyOf[c] /\ HashOf[d] = HashOf[c]}

\* A request that waits for an owner is released when the owner ends, however
\* it ends (_IdempotencyEntry.event, idempotency.py), unless the owner is lost:
\* then nobody sets the event and only the time-out of the wait is left.
WaiterIsReleased ==
    \A c \in Duplicated :
        At(c, "waiting") ~> ~At(c, "waiting") \/ req[c].with \in Lost

\* The table is sound (middleware/idempotency.py, InMemoryIdempotencyCoordinator): each
\* owner is in it and is the only one of its key, what is replayed stays until it was sent,
\* the completed entries are exactly the evictable ones, and the quota counts every byte that
\* is kept and no other, whatever expires or is evicted while owners and waiters run.
TableSound == OwnersAreRegistered /\ ReplayIsPinned /\ TableExact /\ QuotaRespected
==============================================================================
