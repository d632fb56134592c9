------------------------------ MODULE RustFront ------------------------------
(***************************************************************************)
(* bin/uni-api-front: how the Rust front takes a Responses request         *)
(* (proxy.rs, request_spool.rs, resources.rs, idempotency.rs).  The body   *)
(* is spooled to a local file, the idempotency key is claimed, memory for  *)
(* the parsed body is reserved, and the request is served by a native      *)
(* route or by Python.  The handler is a future that is dropped when its   *)
(* client goes away; what it owns then is given back by the Drop of each   *)
(* value.  The threads of the runtime interleave between any two locked or *)
(* atomic steps.                                                           *)
(***************************************************************************)
EXTENDS Integers, FiniteSets, FiniteSetsExt, Functions, Sequences

CONSTANTS FrontRequests,
          Identities,   \* for a request: the record keys (or NoKey) and hashes it may have
          NoKey,
          MaxUpload,    \* chunks of a body
          DiskRoom,     \* chunks the disk may hold above its reserve
          MemoryRoom,   \* bytes below the memory reserve; a parsed body needs MemoryPerChunk each
          MemoryPerChunk,
          EntryLimit,   \* max_entries
          StoredLimit,  \* max_stored_bytes
          KeepLimit,    \* max_response_bytes
          FlightLimit   \* max_inflight_response_bytes

ASSUME FrontAssumption ==
    /\ IsFiniteSet(FrontRequests) /\ FrontRequests # {} /\ NoKey \notin FrontRequests
    /\ {MaxUpload, DiskRoom, MemoryRoom, MemoryPerChunk, EntryLimit, StoredLimit, KeepLimit,
        FlightLimit} \subseteq Nat

VARIABLES handler,       \* the requests
          entries,   \* State.entries, for each key in it
          finished,  \* the keys of completed entries, the oldest first
          counters   \* stored_bytes, inflight_response_bytes and reserved_memory_bytes

frontVars == <<handler, entries, finished, counters>>

Fetched(id) == [pc |-> "arrive", body |-> 0, file |-> FALSE, claim |-> FALSE, bytes |-> 0,
            overflowed |-> FALSE, memory |-> 0, loaded |-> 0, detached |-> FALSE,
            id |-> id, how |-> "none", channel |-> NoKey, notified |-> FALSE, lost |-> FALSE, got |-> NoKey]

FrontInit ==
    /\ \E ids \in [FrontRequests -> UNION {Identities[r] : r \in FrontRequests}] :
         /\ \A r \in FrontRequests : ids[r] \in Identities[r]
         /\ handler = [r \in FrontRequests |-> Fetched(ids[r])]
    /\ entries = [k \in {} |-> 0]
    /\ finished = <<>>
    /\ counters = [stored |-> 0, inflight |-> 0, reserved |-> 0]

KeyOf(r) == handler[r].id.key
HashOf(r) == handler[r].id.hash

At(r, pc) == handler[r].pc = pc
Go(r, pc) == handler' = [handler EXCEPT ![r].pc = pc]
Live(r) == ~ At(r, "over")

-----------------------------------------------------------------------------
(* request_spool.rs                                                         *)

DiskUsed == SumFunctionOnSet(
    [r \in FrontRequests |-> IF handler[r].file THEN handler[r].body ELSE 0], FrontRequests)

\* The Drop of RequestSpoolWriter, of StoredBody and of the body stream made from it.
FileDropped(x) == [x EXCEPT !.file = FALSE, !.body = 0]

\* wait_for_global_headroom, then SpoolManager::begin, with or without a Content-Length.
BeginSpool(r) ==
    /\ At(r, "arrive")
    /\ \E length \in 0..MaxUpload :
         /\ DiskUsed + length <= DiskRoom
         /\ handler' = [handler EXCEPT ![r].pc = "upload", ![r].file = TRUE]
    /\ UNCHANGED <<entries, finished, counters>>

\* append: the room is looked at, and the chunk is written later.
CheckChunk(r) ==
    /\ At(r, "upload") /\ handler[r].body < MaxUpload
    /\ DiskUsed + 1 <= DiskRoom
    /\ Go(r, "write")
    /\ UNCHANGED <<entries, finished, counters>>

WriteChunk(r) ==
    /\ At(r, "write")
    /\ handler' = [handler EXCEPT ![r].pc = "upload", ![r].body = @ + 1]
    /\ UNCHANGED <<entries, finished, counters>>

\* finish takes the writer out of the spool before it flushes.
FinishUpload(r) ==
    /\ At(r, "upload")
    /\ Go(r, "flush")
    /\ UNCHANGED <<entries, finished, counters>>

\* A request without a key has nothing to claim.
FlushEnds(r) ==
    /\ At(r, "flush")
    /\ Go(r, IF KeyOf(r) = NoKey THEN "memory" ELSE "claim")
    /\ UNCHANGED <<entries, finished, counters>>

\* Nobody owns the path while finish flushes the file.
SpoolFailed(x) ==
    IF x.pc = "flush" THEN [x EXCEPT !.pc = "over", !.lost = TRUE]
                      ELSE [FileDropped(x) EXCEPT !.pc = "over"]

\* No headroom or no space in time, an upload that stalls or breaks, or an I/O error.
SpoolFails(r) ==
    /\ handler[r].pc \in {"arrive", "upload", "write", "flush"}
    /\ handler' = [handler EXCEPT ![r] = SpoolFailed(@)]
    /\ UNCHANGED <<entries, finished, counters>>

-----------------------------------------------------------------------------
(* idempotency.rs                                                           *)

InTable == DOMAIN entries
Without(e, keys) == [k \in DOMAIN e \ keys |-> e[k]]
BytesOf(e, keys) == SumFunctionOnSet([k \in keys |-> e[k].bytes], keys)
WithEntry(e, k, x) == [j \in DOMAIN e \cup {k} |-> IF j = k THEN x ELSE e[j]]

\* The table without its n oldest completed entries: prune_expired, as all of them live
\* equally long, and evict_oldest_completed.
Removed(n) ==
    LET gone == Range(SubSeq(finished, 1, n)) IN
    [e |-> Without(entries, gone), f |-> SubSeq(finished, n + 1, Len(finished)),
     stored |-> counters.stored - BytesOf(entries, gone)]

\* One more is evicted if a new entry needs its place.
MakesPlace(key, n) ==
    key \notin DOMAIN Removed(n).e /\ Cardinality(DOMAIN Removed(n).e) >= EntryLimit
    /\ n < Len(finished)

Claimed(r, t) ==
    /\ entries' = WithEntry(t.e, KeyOf(r),
                            [hash |-> HashOf(r), owner |-> r, response |-> NoKey, bytes |-> 0])
    /\ handler' = [handler EXCEPT ![r].pc = "memory", ![r].claim = TRUE]

Refused(r, t, x) ==
    /\ handler' = [handler EXCEPT ![r] = [FileDropped(x) EXCEPT !.pc = "over"]]
    /\ entries' = t.e

\* One pass of claim under the lock, when n completed entries have expired.  A waiter
\* subscribes to the entry's channel.
LookedUp(r, key, n) ==
    LET t == Removed(IF MakesPlace(key, n) THEN n + 1 ELSE n) IN
    /\ \/ /\ key \in DOMAIN t.e
          /\ LET x == t.e[key] IN
             CASE x.hash # HashOf(r) -> Refused(r, t, handler[r])
               [] x.hash = HashOf(r) /\ x.owner = NoKey ->
                    Refused(r, t, [handler[r] EXCEPT !.got = x.response])
               [] x.hash = HashOf(r) /\ x.owner # NoKey ->
                    /\ handler' = [handler EXCEPT ![r].pc = "wait", ![r].channel = x.owner]
                    /\ entries' = t.e
       \/ /\ key \notin DOMAIN t.e
          /\ IF Cardinality(DOMAIN t.e) < EntryLimit THEN Claimed(r, t)
                                                    ELSE Refused(r, t, handler[r])
    /\ finished' = t.f
    /\ counters' = [counters EXCEPT !.stored = t.stored]

ClaimKey(r) ==
    /\ At(r, "claim")
    /\ \E n \in 0..Len(finished) : LookedUp(r, KeyOf(r), n)

\* The channel was written since the waiter subscribed: it claims again.
WakeClaim(r) ==
    /\ At(r, "wait") /\ handler[handler[r].channel].notified
    /\ Go(r, "claim")
    /\ UNCHANGED <<entries, finished, counters>>

WaitTimesOut(r) ==
    /\ At(r, "wait")
    /\ Refused(r, [e |-> entries], handler[r])
    /\ UNCHANGED <<finished, counters>>

Owns(r) == KeyOf(r) \in InTable /\ entries[KeyOf(r)].owner = r

FitsStored(n, bytes) == Removed(n).stored + bytes <= StoredLimit

\* As many are evicted as it takes, all of them if that is not enough.
MakesRoom(n, bytes) ==
    Min({m \in n..Len(finished) : FitsStored(m, bytes) \/ m = Len(finished)})

SettledEntry(r, response, bytes) ==
    [hash |-> HashOf(r), owner |-> NoKey, response |-> response, bytes |-> bytes]

\* complete of a status that may be kept: evicts until the response fits.
CompleteClaim(r) ==
    /\ At(r, "settle") /\ handler[r].how = "complete"
    /\ \E n \in 0..Len(finished) :
         LET m == MakesRoom(n, handler[r].bytes)
             t == Removed(m) IN
         IF FitsStored(m, handler[r].bytes)
         THEN /\ entries' = WithEntry(t.e, KeyOf(r), SettledEntry(r, r, handler[r].bytes))
              /\ finished' = Append(t.f, KeyOf(r))
              /\ counters' = [counters EXCEPT !.stored = t.stored + handler[r].bytes]
              /\ handler' = [handler EXCEPT ![r].pc = "notify", ![r].claim = FALSE]
         ELSE /\ handler' = [handler EXCEPT ![r].how = "nonreplayable"]
              /\ entries' = t.e /\ finished' = t.f
              /\ counters' = [counters EXCEPT !.stored = t.stored]

\* nonreplayable_inner
NonreplayableClaim(r) ==
    /\ At(r, "settle") /\ handler[r].how = "nonreplayable"
    /\ entries' = WithEntry(entries, KeyOf(r), SettledEntry(r, NoKey, 0))
    /\ finished' = Append(finished, KeyOf(r))
    /\ handler' = [handler EXCEPT ![r].pc = "notify", ![r].claim = FALSE]
    /\ UNCHANGED counters

\* release_inner, and the task that the Drop of an armed owner spawns.
ReleaseClaim(r) ==
    /\ At(r, "settle") /\ handler[r].how = "release"
    /\ entries' = Without(entries, {KeyOf(r)})
    /\ handler' = [handler EXCEPT ![r].pc = "notify", ![r].claim = FALSE]
    /\ UNCHANGED <<finished, counters>>

\* Mutant: the subscribers of a settled entry are not told.
Notified_Silent(x) == [x EXCEPT !.pc = "over", !.bytes = 0]

Notified(x) == [x EXCEPT !.pc = "over", !.bytes = 0, !.notified = TRUE]

\* The lock is given up before the channel is written.
SendNotice(r) ==
    /\ At(r, "notify")
    /\ handler' = [handler EXCEPT ![r] = Notified([FileDropped(@) EXCEPT !.memory = 0])]
    /\ counters' = [counters EXCEPT !.reserved = @ - handler[r].memory]
    /\ UNCHANGED <<entries, finished>>

-----------------------------------------------------------------------------
(* resources.rs, reserve_memory_capacity                                    *)

Need(r) == MemoryPerChunk * handler[r].body

LoadReserved(r) ==
    /\ At(r, "memory")
    /\ counters.reserved + Need(r) < MemoryRoom
    /\ handler' = [handler EXCEPT ![r].pc = "swap", ![r].loaded = counters.reserved]
    /\ UNCHANGED <<entries, finished, counters>>

\* compare_exchange
SwapReserved(r) ==
    /\ At(r, "swap")
    /\ IF counters.reserved = handler[r].loaded
       THEN /\ counters' = [counters EXCEPT !.reserved = handler[r].loaded + Need(r)]
            /\ handler' = [handler EXCEPT ![r].pc = "prepare", ![r].memory = Need(r), ![r].loaded = 0]
       ELSE /\ handler' = [handler EXCEPT ![r].pc = "memory", ![r].loaded = 0]
            /\ UNCHANGED counters
    /\ UNCHANGED <<entries, finished>>

-----------------------------------------------------------------------------
(* proxy.rs, handler                                                        *)

\* The reservation's Drop, and the end of a request: an owner settles its claim first.
LeaveFront(r, how) ==
    IF handler[r].claim
    THEN /\ handler' = [handler EXCEPT ![r].pc = "settle", ![r].how = how]
         /\ UNCHANGED counters
    ELSE /\ handler' = [handler EXCEPT ![r] = [FileDropped(@) EXCEPT !.pc = "over", !.memory = 0,
                                                             !.bytes = 0]]
         /\ counters' = [counters EXCEPT !.reserved = @ - handler[r].memory]

MemoryTimesOut(r) ==
    /\ At(r, "memory")
    /\ LeaveFront(r, "release")
    /\ UNCHANGED <<entries, finished>>

\* prepare_native_request: a native route keeps the reservation, a fallback to Python or a
\* refusal (ServeFails then) does not.
Prepare(r) ==
    /\ At(r, "prepare")
    /\ \/ Go(r, "serve") /\ UNCHANGED counters
       \/ /\ handler' = [handler EXCEPT ![r].pc = "serve", ![r].memory = 0]
          /\ counters' = [counters EXCEPT !.reserved = @ - handler[r].memory]
    /\ UNCHANGED <<entries, finished>>

\* A response of one piece: relayed from Python or read whole by the native route.
WholeResponse(r) ==
    /\ At(r, "serve")
    /\ IF handler[r].claim
       THEN \E n \in 0..(KeepLimit + 1) :
              /\ handler' = [handler EXCEPT ![r].pc = "settle", ![r].bytes = n,
                                    ![r].how = IF n > KeepLimit THEN "nonreplayable" ELSE "complete"]
              /\ UNCHANGED counters
       ELSE LeaveFront(r, "none")
    /\ UNCHANGED <<entries, finished>>

ServeFails(r) ==
    /\ At(r, "serve")
    /\ LeaveFront(r, "release")
    /\ UNCHANGED <<entries, finished>>

\* start_public_stream: a task of its own goes on, the handler's values are dropped.
StartPublic(r) ==
    /\ At(r, "serve")
    /\ handler' = [handler EXCEPT ![r] = [FileDropped(@) EXCEPT !.pc = "public", !.detached = TRUE]]
    /\ UNCHANGED <<entries, finished, counters>>

\* OutputSink::send_wire: the segment is kept for replay until it overflows a limit.
CaptureSegment(r) ==
    /\ At(r, "public") /\ handler[r].claim /\ ~ handler[r].overflowed
    /\ IF handler[r].bytes + 1 <= KeepLimit /\ counters.inflight + 1 <= FlightLimit
       THEN /\ handler' = [handler EXCEPT ![r].bytes = @ + 1]
            /\ counters' = [counters EXCEPT !.inflight = @ + 1]
       ELSE /\ handler' = [handler EXCEPT ![r].bytes = 0, ![r].overflowed = TRUE]
            /\ counters' = [counters EXCEPT !.inflight = @ - handler[r].bytes]
    /\ UNCHANGED <<entries, finished>>

\* OutputSink::finish
FinishPublic(r) ==
    /\ At(r, "public")
    /\ IF handler[r].claim
       THEN \E how \in {"release", IF handler[r].overflowed THEN "nonreplayable" ELSE "complete"} :
              /\ handler' = [handler EXCEPT ![r].pc = "settle", ![r].how = how]
              /\ counters' = [counters EXCEPT !.inflight = @ - handler[r].bytes]
       ELSE LeaveFront(r, "none")
    /\ UNCHANGED <<entries, finished>>

\* The connection closes: the handler's future is dropped wherever it waits.
HandlerDropped(r) ==
    /\ Live(r) /\ ~ handler[r].detached /\ ~ At(r, "notify")
    /\ IF handler[r].pc \in {"arrive", "upload", "write", "flush"}
       THEN handler' = [handler EXCEPT ![r] = SpoolFailed(@)] /\ UNCHANGED counters
       ELSE IF handler[r].claim
       THEN /\ handler' = [handler EXCEPT ![r] = [FileDropped(@) EXCEPT !.pc = "settle", !.how = "release",
                                                      !.memory = 0, !.detached = TRUE]]
            /\ counters' = [counters EXCEPT !.reserved = @ - handler[r].memory]
       ELSE LeaveFront(r, "none")
    /\ UNCHANGED <<entries, finished>>

-----------------------------------------------------------------------------
FrontStepOf(r) ==
    \/ BeginSpool(r) \/ CheckChunk(r) \/ WriteChunk(r) \/ FinishUpload(r) \/ FlushEnds(r)
    \/ SpoolFails(r) \/ ClaimKey(r) \/ WakeClaim(r) \/ CompleteClaim(r) \/ NonreplayableClaim(r)
    \/ ReleaseClaim(r) \/ SendNotice(r) \/ LoadReserved(r) \/ SwapReserved(r)
    \/ MemoryTimesOut(r) \/ Prepare(r) \/ WholeResponse(r) \/ ServeFails(r) \/ StartPublic(r)
    \/ CaptureSegment(r) \/ FinishPublic(r)

FrontNext == \E r \in FrontRequests : FrontStepOf(r) \/ WaitTimesOut(r) \/ HandlerDropped(r)

FrontSpec == FrontInit /\ [][FrontNext]_frontVars
-----------------------------------------------------------------------------
FrontTypeOK ==
    /\ InTable \subseteq {KeyOf(r) : r \in FrontRequests} \ {NoKey}
    /\ \A r \in FrontRequests : handler[r].body \in 0..MaxUpload /\ handler[r].got \in FrontRequests \cup {NoKey}

CountersExact ==
    /\ counters.stored = BytesOf(entries, InTable) /\ counters.stored <= StoredLimit
    /\ Cardinality(InTable) <= EntryLimit
    /\ Range(finished) = {k \in InTable : entries[k].owner = NoKey} /\ IsInjective(finished)
    /\ counters.inflight =
         SumFunctionOnSet([r \in FrontRequests |-> IF At(r, "public") THEN handler[r].bytes ELSE 0],
                          FrontRequests)
    /\ counters.inflight <= FlightLimit
    /\ counters.reserved = SumFunctionOnSet([r \in FrontRequests |-> handler[r].memory],
                                            FrontRequests)
    /\ counters.reserved < MemoryRoom \/ counters.reserved = 0

\* Disk space is looked at but not reserved: all writers but one may be mistaken by a chunk.
SpoolsOwned ==
    /\ \A r \in FrontRequests : At(r, "over") /\ handler[r].file => handler[r].lost
    /\ DiskUsed <= DiskRoom + Cardinality(FrontRequests) - 1

ClaimsHeld ==
    /\ \A r \in FrontRequests : handler[r].claim <=> KeyOf(r) # NoKey /\ Owns(r)
    /\ \A r \in FrontRequests : handler[r].got # NoKey =>
         KeyOf(handler[r].got) = KeyOf(r) /\ HashOf(handler[r].got) = HashOf(r)

\* A request that waits for another one with its key is woken when that one has settled its
\* claim in any way, a dropped handler included (idempotency.rs, claim and Drop for Owner):
\* the channel it waits on was written, or its owner is still to settle.
FrontWaiterWakes ==
    \A r \in FrontRequests : At(r, "wait") =>
      LET o == handler[r].channel IN handler[o].notified \/ At(o, "notify") \/ handler[o].claim

\* What the front counts is what it holds (idempotency.rs, resources.rs, request_spool.rs),
\* whatever is dropped, evicted or overflows meanwhile: stored, in-flight and reserved bytes
\* are the sums over their owners and within their limits, a claim is in the table exactly
\* while its owner can settle it, a replay is of the same request, a spool file outlives its
\* request only if the request ended while finish flushed it, and no waiter is forgotten.
FrontSound == CountersExact /\ SpoolsOwned /\ ClaimsHeld /\ FrontWaiterWakes
=============================================================================
