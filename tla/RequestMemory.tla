---------------------------- MODULE RequestMemory ----------------------------
(***************************************************************************)
(* The byte ledger of RequestAdmissionController (uni_api/admission/       *)
(* core.py): body bytes reserved by queued requests and by active ones,    *)
(* response bytes, temporary reservations, large-body claims, deferred     *)
(* releases, and the wait for memory through the fair queue.               *)
(*                                                                         *)
(* The sections under _body_lock contain no await, so each is one step.    *)
(* The interleaving is in what lies between them: a request that waits for *)
(* its turn or for the governor; a response parser or a deferred worker    *)
(* that still owns memory when the request's lease is released; and the    *)
(* release itself, which is a task of its own.                             *)
(*                                                                         *)
(* The parent governor (module MemoryGovernor) may refuse any positive     *)
(* amount at any time: its answer depends on the process's memory.         *)
(***************************************************************************)
EXTENDS WaitQueue

\* Requests, Tenants, TenantOf, QueueLimit and MaxRotation are those of the queue.
CONSTANTS ResourceOnly,     \* those with resource_only_body_admission
          Queued,           \* those that may be queued at the gate first
          Deferring,        \* those whose worker may outlive the request
          Temps,            \* names of temporary reservations of one request
          BodyChunks,       \* the sizes by which a body grows or shrinks
          ResponseChunks,   \* the sizes by which a response grows
          MaxBody,          \* max_body_bytes
          MaxResponse,      \* max_response_bytes
          MaxRetained,      \* max_retained_bytes_per_request
          Budget,           \* body_budget_bytes
          SmallThreshold,   \* small_body_lane_threshold_bytes
          SmallReserve,     \* small_body_lane_reserve_bytes
          LargeThreshold,   \* large_body_threshold_weighted_bytes
          LargeLimit        \* large_body_limit

\* The checks of RequestAdmissionController.__init__.
ASSUME MemoryAssumption ==
    /\ IsFiniteSet(Temps)
    /\ ResourceOnly \cup Queued \cup Deferring \subseteq Requests
    /\ BodyChunks \subseteq Nat /\ ResponseChunks \subseteq Nat
    /\ {MaxBody, MaxResponse, MaxRetained, Budget, SmallThreshold,
        SmallReserve, LargeThreshold, LargeLimit} \subseteq Nat
    /\ SmallReserve <= Budget
    /\ (LargeThreshold = 0) <=> (LargeLimit = 0)

\* The server gives no limit of its own for what a request may retain, so that
\* max_retained_bytes_per_request is the larger of the two other limits.
ASSUME RetainedAssumption == MaxBody <= MaxRetained

VARIABLES ctl,    \* the controller's counters and sets
          pend,   \* PendingBodyReservation of each request
          lease,  \* RequestAdmissionLease of each request
          temp,   \* TemporaryResponseBytesReservations of each request
          hold,   \* MemoryReleaseDeferral of each request
          op      \* the body reservation each request is waiting in

vars == <<ctl, wq, pend, lease, temp, hold, op>>

-----------------------------------------------------------------------------
NoPending == [st |-> "none", bytes |-> 0, slot |-> FALSE]

NoLease == [st |-> "none", body |-> 0, resp |-> 0, committed |-> 0,
            owners |-> 0, final |-> FALSE, slot |-> FALSE]

NoTemp == [st |-> "none", size |-> 0]

NoOp == [ph |-> "idle", kind |-> "lease", n |-> 0, lane |-> TRUE]

Init ==
    /\ ctl = [body |-> 0, pending |-> 0, resp |-> 0, parent |-> 0,
              holders |-> {}, deferred |-> {}]
    /\ wq = EmptyQueue
    /\ pend = [r \in Requests |-> NoPending]
    /\ lease = [r \in Requests |-> NoLease]
    /\ temp = [r \in Requests |-> [t \in Temps |-> NoTemp]]
    /\ hold = [r \in Requests |-> "none"]
    /\ op = [r \in Requests |-> NoOp]

\* Mutant of Woken: the wait queue is not told.
Woken_Silent(q, bytes) == q

\* _release_parent_memory: returning bytes wakes the wait queue.
Woken(q, bytes) == IF bytes > 0 THEN NotifyMemoryReleased(q) ELSE q

\* The application gets the lease after the middleware has moved the pending
\* bytes to it.
InUse(r) == lease[r].st = "active" /\ pend[r].st # "open"

\* A reservation that has to be retried goes on without an await, so no other
\* step comes in between.
NoRetry == \A r \in Requests : op[r].ph # "retry"

-----------------------------------------------------------------------------
(* Opening and ending the ownership objects of a request. *)

\* pending_body_reservation, for a request queued at the admission gate.
OpenPending(r) ==
    /\ NoRetry
    /\ r \in Queued
    /\ pend[r].st = "none" /\ lease[r].st = "none"
    /\ pend' = [pend EXCEPT ![r].st = "open"]
    /\ UNCHANGED <<ctl, wq, lease, temp, hold, op>>

\* begin_acquire or try_acquire yields the lease (the gate is AdmissionGate).
OpenLease(r) ==
    /\ NoRetry
    /\ lease[r].st = "none" /\ pend[r].st \in {"none", "open"}
    /\ lease' = [lease EXCEPT ![r].st = "active"]
    /\ UNCHANGED <<ctl, wq, pend, temp, hold, op>>

\* The objects of a finished request are dropped; r stands for a new one.
Finished(r) ==
    /\ op[r].ph = "idle"
    /\ pend[r].st # "open"
    /\ \/ lease[r].st = "released" /\ lease[r].final
       \/ lease[r].st = "none" /\ pend[r].st = "released"

NewRequest(r) ==
    /\ NoRetry
    /\ Finished(r)
    /\ pend' = [pend EXCEPT ![r] = NoPending]
    /\ lease' = [lease EXCEPT ![r] = NoLease]
    /\ temp' = [temp EXCEPT ![r] = [t \in Temps |-> NoTemp]]
    /\ hold' = [hold EXCEPT ![r] = "none"]
    /\ UNCHANGED <<ctl, wq, op>>

-----------------------------------------------------------------------------
(* Body bytes: _reserve_body_owner and its helpers. *)

OwnerBytes(r, k) == IF k = "pending" THEN pend[r].bytes ELSE lease[r].body

OwnerSlot(r, k) == IF k = "pending" THEN pend[r].slot ELSE lease[r].slot

\* _validate_body_owner_active
OwnerActive(r, k) ==
    IF k = "pending" THEN pend[r].st = "open" ELSE lease[r].st = "active"

\* _validate_body_hard_limits_locked
WithinHardLimits(r, k, next) ==
    \/ r \in ResourceOnly
    \/ /\ next <= MaxBody
       /\ k = "lease" => next + lease[r].resp <= MaxRetained

\* _is_small_body_lane and _body_budget_for_lane
SmallLane(next) == SmallThreshold # 0 /\ next <= SmallThreshold

LaneBudget(l) == IF l THEN Budget ELSE Budget - SmallReserve

\* _body_unavailable_reason_locked
NeedsSlot(r, k, next) ==
    LargeLimit # 0 /\ ~OwnerSlot(r, k) /\ next > LargeThreshold

Unavailable(r, k, n) ==
    LET next == OwnerBytes(r, k) + n
    IN  \/ ctl.body + ctl.resp + n > LaneBudget(SmallLane(next))
        \/ NeedsSlot(r, k, next) /\ Cardinality(ctl.holders) >= LargeLimit

\* _commit_body_owner_locked with _claim_large_body_slot_locked
CommitBody(r, k, n) ==
    LET claims == NeedsSlot(r, k, OwnerBytes(r, k) + n)
    IN  /\ ctl' = [ctl EXCEPT !.body = @ + n,
                              !.parent = @ + n,
                              !.pending = IF k = "pending" THEN @ + n ELSE @,
                              !.holders = IF claims THEN @ \cup {r} ELSE @]
        /\ \/ /\ k = "pending"
              /\ pend' = [pend EXCEPT ![r].bytes = @ + n, ![r].slot = @ \/ claims]
              /\ UNCHANGED lease
           \/ /\ k = "lease"
              /\ lease' = [lease EXCEPT ![r].body = @ + n, ![r].slot = @ \/ claims]
              /\ UNCHANGED pend

EndOp(r) == op' = [op EXCEPT ![r] = NoOp]

(***************************************************************************)
(* One pass of the loop of _reserve_body_owner, up to its await: fail on a *)
(* hard limit, commit, or wait for a turn.  A first reservation does not   *)
(* jump ahead of waiters, a growing one does.  A reservation that does not *)
(* fit stops promotions in its lane until memory is returned, even when    *)
(* the queue then turns out to be full.                                    *)
(***************************************************************************)
MustWait(r, k, n) ==
    \/ Unavailable(r, k, n)
    \/ /\ OwnerBytes(r, k) = 0
       /\ HasWaiters(wq, SmallLane(n))

WaitForMemory(r, k, n) ==
    LET l == SmallLane(OwnerBytes(r, k) + n)
        q == IF Unavailable(r, k, n) /\ QueueLimit # 0
             THEN BlockUntilRelease(wq, l) ELSE wq
    IN  \/ /\ CanWait(q)
           /\ Len(q.rr[l]) < MaxRotation
           /\ wq' = WaitTurn(q, r, l)
           /\ op' = [op EXCEPT ![r] = [ph |-> "waiting", kind |-> k,
                                     n |-> n, lane |-> l]]
        \/ /\ ~CanWait(q)
           /\ wq' = q
           /\ EndOp(r)

Attempt(r, k, n) ==
    /\ UNCHANGED <<temp, hold>>
    /\ \/ /\ ~(OwnerActive(r, k) /\ WithinHardLimits(r, k, OwnerBytes(r, k) + n))
          /\ EndOp(r)
          /\ UNCHANGED <<ctl, wq, pend, lease>>
       \/ /\ OwnerActive(r, k) /\ WithinHardLimits(r, k, OwnerBytes(r, k) + n)
          /\ \/ /\ ~MustWait(r, k, n)
                /\ CommitBody(r, k, n)
                /\ EndOp(r)
                /\ UNCHANGED wq
             \/ /\ MustWait(r, k, n) \/ n > 0      \* the governor refuses
                /\ UNCHANGED <<ctl, pend, lease>>
                /\ \/ WaitForMemory(r, k, n)
                   \/ op[r].ph = "retry" /\ EndOp(r) /\ UNCHANGED wq  \* deadline

\* PendingBodyReservation.reserve and RequestAdmissionLease.reserve_body_bytes.
Reserve(r, k, n) ==
    /\ NoRetry
    /\ op[r].ph = "idle"
    /\ IF k = "lease" THEN InUse(r) ELSE OwnerActive(r, k)
    /\ Attempt(r, k, n)

\* wait_turn returns; _commit_body_owner_after_wait_turn awaits the governor.
TurnResumes(r) ==
    /\ NoRetry
    /\ op[r].ph = "waiting" /\ wq.wstate[r] = "granted"
    /\ wq' = WaiterDropped(wq, r)
    /\ op' = [op EXCEPT ![r].ph = "turn"]
    /\ UNCHANGED <<ctl, pend, lease, temp, hold>>

\* wait_turn times out or the task is cancelled.
WaitAbandoned(r) ==
    /\ NoRetry
    /\ op[r].ph = "waiting"
    /\ wq' = RemoveWaiter(wq, r)
    /\ EndOp(r)
    /\ UNCHANGED <<ctl, pend, lease, temp, hold>>

\* The governor times out or the task is cancelled: "finally" ends the turn.
TurnAbandoned(r) ==
    /\ NoRetry
    /\ op[r].ph = "turn"
    /\ wq' = FinishTurn(wq, op[r].lane)
    /\ EndOp(r)
    /\ UNCHANGED <<ctl, pend, lease, temp, hold>>

\* The governor grants the bytes: commit, or give them back and end the turn.
CommitAfterWaitTurn(r) ==
    LET k       == op[r].kind
        n       == op[r].n
        valid   == OwnerActive(r, k)
                     /\ WithinHardLimits(r, k, OwnerBytes(r, k) + n)
        refused == FinishTurn(Woken(wq, n), op[r].lane)
    IN  /\ NoRetry
        /\ op[r].ph = "turn"
        /\ UNCHANGED <<temp, hold>>
        /\ \/ /\ ~valid
              /\ wq' = refused
              /\ EndOp(r)
              /\ UNCHANGED <<ctl, pend, lease>>
           \/ /\ valid /\ Unavailable(r, k, n)
              /\ wq' = refused
              /\ op' = [op EXCEPT ![r].ph = "retry"]
              /\ UNCHANGED <<ctl, pend, lease>>
           \/ /\ valid /\ ~Unavailable(r, k, n)
              /\ CommitBody(r, k, n)
              /\ wq' = FinishTurn(wq, op[r].lane)
              /\ EndOp(r)

\* The loop goes round at once.
Retry(r) ==
    /\ op[r].ph = "retry"
    /\ Attempt(r, op[r].kind, op[r].n)

\* PendingBodyReservation.transfer_to (_transfer_pending_body): the bytes and
\* the large-body claim change owner, the totals do not change.
Transfer(r) ==
    /\ NoRetry
    /\ pend[r].st = "open" /\ op[r].ph = "idle"
    /\ lease[r].st = "active"
    /\ ctl' = [ctl EXCEPT !.pending = @ - pend[r].bytes]
    /\ lease' = [lease EXCEPT ![r].body = @ + pend[r].bytes,
                              ![r].slot = @ \/ pend[r].slot]
    /\ pend' = [pend EXCEPT ![r] = [st |-> "transferred", bytes |-> 0, slot |-> FALSE]]
    /\ UNCHANGED <<wq, temp, hold, op>>

\* PendingBodyReservation.release (_release_pending_body)
ReleasePending(r) ==
    /\ NoRetry
    /\ pend[r].st = "open" /\ op[r].ph = "idle"
    /\ ctl' = [ctl EXCEPT !.body = @ - pend[r].bytes,
                          !.parent = @ - pend[r].bytes,
                          !.pending = @ - pend[r].bytes,
                          !.holders = IF pend[r].slot THEN @ \ {r} ELSE @]
    /\ wq' = Woken(wq, pend[r].bytes)
    /\ pend' = [pend EXCEPT ![r] = [st |-> "released", bytes |-> 0, slot |-> FALSE]]
    /\ UNCHANGED <<lease, temp, hold, op>>

\* release_body_bytes (_release_body_bytes): part of a body is dropped early.
\* The large-body claim goes with the last byte.
ReleaseBody(r, n) ==
    LET last == n = lease[r].body
    IN  /\ NoRetry
        /\ InUse(r)
        /\ n > 0 /\ n <= lease[r].body
        /\ ctl' = [ctl EXCEPT !.body = @ - n,
                              !.parent = @ - n,
                              !.holders = IF last /\ lease[r].slot THEN @ \ {r} ELSE @]
        /\ lease' = [lease EXCEPT ![r].body = @ - n, ![r].slot = @ /\ ~last]
        /\ wq' = Woken(wq, n)
        /\ UNCHANGED <<pend, temp, hold, op>>

-----------------------------------------------------------------------------
(* Response bytes. *)

\* Mutant of ResponseAdmitted: the global budget is not tested.
ResponseAdmitted_NoBudget(r, n) ==
    /\ lease[r].resp + n <= MaxResponse
    /\ lease[r].body + lease[r].resp + n <= MaxRetained

\* _admit_response_bytes_locked, the branches before the governor.
ResponseAdmitted(r, n) ==
    /\ lease[r].resp + n <= MaxResponse
    /\ lease[r].body + lease[r].resp + n <= MaxRetained
    /\ ctl.body + ctl.resp + n <= Budget

ChargeResponse(n) == ctl' = [ctl EXCEPT !.resp = @ + n, !.parent = @ + n]

\* reserve_response_bytes (_reserve_response_additional)
ReserveResponse(r, n) ==
    /\ NoRetry
    /\ InUse(r)
    /\ ResponseAdmitted(r, n)
    /\ ChargeResponse(n)
    /\ lease' = [lease EXCEPT ![r].resp = @ + n, ![r].committed = @ + n]
    /\ UNCHANGED <<wq, pend, temp, hold, op>>

\* reserve_temporary_response_bytes (_activate_temporary_response)
ActivateTemp(r, t, n) ==
    /\ NoRetry
    /\ InUse(r)
    /\ temp[r][t].st = "none"
    /\ ResponseAdmitted(r, n)
    /\ ChargeResponse(n)
    /\ lease' = [lease EXCEPT ![r].resp = @ + n, ![r].owners = @ + 1]
    /\ temp' = [temp EXCEPT ![r][t] = [st |-> "active", size |-> n]]
    /\ UNCHANGED <<wq, pend, hold, op>>

\* TemporaryResponseBytesReservation.reserve (_grow_temporary_response): not
\* refused when the lease has been released meanwhile.
GrowTemp(r, t, n) ==
    /\ NoRetry
    /\ temp[r][t].st = "active"
    /\ ResponseAdmitted(r, n)
    /\ ChargeResponse(n)
    /\ lease' = [lease EXCEPT ![r].resp = @ + n]
    /\ temp' = [temp EXCEPT ![r][t].size = @ + n]
    /\ UNCHANGED <<wq, pend, hold, op>>

\* _finalize_request_memory_locked, on the lease l of request r and the
\* counters c that the surrounding section has produced so far.
FinalLease(l) ==
    IF l.final THEN l
    ELSE [l EXCEPT !.body = 0, !.resp = 0, !.committed = 0,
                   !.slot = FALSE, !.final = TRUE]

FinalCtl(c, r, l) ==
    IF l.final THEN c
    ELSE [c EXCEPT !.body = @ - l.body,
                   !.resp = @ - l.resp,
                   !.parent = @ - (l.body + l.resp),
                   !.holders = IF l.slot THEN @ \ {r} ELSE @,
                   !.deferred = @ \ {r}]

Finalize(c, r, l, freed) ==
    /\ lease' = [lease EXCEPT ![r] = FinalLease(l)]
    /\ ctl' = FinalCtl(c, r, l)
    /\ wq' = Woken(wq, freed + (IF l.final THEN 0 ELSE l.body + l.resp))

\* _finish_memory_owner_locked: the last owner of a released lease finalizes.
FinishOwner(c, r, l, freed) ==
    LET left == [l EXCEPT !.owners = @ - 1]
    IN  IF left.st # "active" /\ left.owners = 0
        THEN Finalize(c, r, left, freed)
        ELSE /\ lease' = [lease EXCEPT ![r] = left]
             /\ ctl' = c
             /\ wq' = Woken(wq, freed)

\* TemporaryResponseBytesReservation.release (_release_response_bytes)
ReleaseTemp(r, t) ==
    LET n == temp[r][t].size
    IN  /\ NoRetry
        /\ temp[r][t].st = "active"
        /\ temp' = [temp EXCEPT ![r][t] = [st |-> "released", size |-> 0]]
        /\ FinishOwner([ctl EXCEPT !.resp = @ - n, !.parent = @ - n], r,
                       [lease[r] EXCEPT !.resp = @ - n], n)
        /\ UNCHANGED <<pend, hold, op>>

\* TemporaryResponseBytesReservation.commit (_commit_temporary_response)
CommitTemp(r, t) ==
    /\ NoRetry
    /\ temp[r][t].st = "active"
    /\ temp' = [temp EXCEPT ![r][t] = [st |-> "committed", size |-> 0]]
    /\ FinishOwner(ctl, r,
                   [lease[r] EXCEPT !.committed = @ + temp[r][t].size], 0)
    /\ UNCHANGED <<pend, hold, op>>

\* defer_memory_release (_activate_memory_deferral)
Defer(r) ==
    /\ NoRetry
    /\ InUse(r)
    /\ r \in Deferring
    /\ hold[r] = "none"
    /\ hold' = [hold EXCEPT ![r] = "active"]
    /\ lease' = [lease EXCEPT ![r].owners = @ + 1]
    /\ UNCHANGED <<ctl, wq, pend, temp, op>>

\* MemoryReleaseDeferral.release (_finish_memory_owner)
ReleaseDeferral(r) ==
    /\ NoRetry
    /\ hold[r] = "active"
    /\ hold' = [hold EXCEPT ![r] = "released"]
    /\ FinishOwner(ctl, r, lease[r], 0)
    /\ UNCHANGED <<pend, temp, op>>

\* RequestAdmissionLease.release: the flag is set at once ...
Release(r) ==
    /\ NoRetry
    /\ lease[r].st = "active"
    /\ lease' = [lease EXCEPT ![r].st = "requested"]
    /\ UNCHANGED <<ctl, wq, pend, temp, hold, op>>

\* Mutant of ReleaseRequest: the release does not wait for other owners.
ReleaseRequest_IgnoresOwners(r) ==
    /\ NoRetry
    /\ lease[r].st = "requested"
    /\ Finalize(ctl, r, [lease[r] EXCEPT !.st = "released"], 0)
    /\ UNCHANGED <<pend, temp, hold, op>>

\* ... and _release_request runs later, in a task of its own.
ReleaseRequest(r) ==
    LET l == [lease[r] EXCEPT !.st = "released"]
    IN  /\ NoRetry
        /\ lease[r].st = "requested"
        /\ \/ /\ l.owners > 0
              /\ lease' = [lease EXCEPT ![r] = l]
              /\ ctl' = [ctl EXCEPT !.deferred = @ \cup {r}]
              /\ UNCHANGED wq
           \/ /\ l.owners = 0
              /\ Finalize(ctl, r, l, 0)
        /\ UNCHANGED <<pend, temp, hold, op>>

-----------------------------------------------------------------------------
Kinds == {"pending", "lease"}

BodyStep(r) ==
    \/ \E k \in Kinds, n \in BodyChunks : Reserve(r, k, n)
    \/ TurnResumes(r)
    \/ WaitAbandoned(r)
    \/ TurnAbandoned(r)
    \/ CommitAfterWaitTurn(r)
    \/ Retry(r)
    \/ Transfer(r)
    \/ ReleasePending(r)
    \/ \E n \in BodyChunks : ReleaseBody(r, n)

ResponseStep(r) ==
    \/ \E n \in ResponseChunks : ReserveResponse(r, n)
    \/ \E t \in Temps : \/ \E n \in ResponseChunks : \/ ActivateTemp(r, t, n)
                                                     \/ GrowTemp(r, t, n)
                        \/ ReleaseTemp(r, t)
                        \/ CommitTemp(r, t)

LeaseStep(r) ==
    \/ OpenPending(r)
    \/ OpenLease(r)
    \/ Defer(r)
    \/ ReleaseDeferral(r)
    \/ Release(r)
    \/ ReleaseRequest(r)
    \/ NewRequest(r)

Next == \E r \in Requests : BodyStep(r) \/ ResponseStep(r) \/ LeaseStep(r)

Spec == Init /\ [][Next]_vars

-----------------------------------------------------------------------------
Counters == [body : Int, pending : Int, resp : Int, parent : Int,
             holders : SUBSET Requests, deferred : SUBSET Requests]

Pendings == [st : {"none", "open", "transferred", "released"}, bytes : Nat, slot : BOOLEAN]

Leases == [st : {"none", "active", "requested", "released"},
           body : Nat, resp : Nat, committed : Nat, owners : Nat,
           final : BOOLEAN, slot : BOOLEAN]

Temporaries == [Temps -> [st : {"none", "active", "released", "committed"}, size : Nat]]

Deferrals == {"none", "active", "released"}

Waits == [ph : {"idle", "waiting", "turn", "retry"}, kind : Kinds, n : Nat, lane : Lanes]

TypeOK ==
    /\ ctl \in Counters
    /\ pend \in [Requests -> Pendings]
    /\ lease \in [Requests -> Leases]
    /\ temp \in [Requests -> Temporaries]
    /\ hold \in [Requests -> Deferrals]
    /\ op \in [Requests -> Waits]

BodyOf(r) == pend[r].bytes + lease[r].body

\* The ledger is exact at all times: every counter is the sum of what its
\* owners hold, the governor is charged for exactly the retained bytes, and a
\* lease's response bytes are its committed allocations and its open temporary
\* reservations.  So no underflow error can be raised, nothing leaks when all
\* owners are gone, and finalization never meets unattributed bytes.
LedgerExact ==
    /\ ctl.pending = SumFunctionOnSet([r \in Requests |-> pend[r].bytes], Requests)
    /\ ctl.body = SumFunctionOnSet([r \in Requests |-> BodyOf(r)], Requests)
    /\ ctl.resp = SumFunctionOnSet([r \in Requests |-> lease[r].resp], Requests)
    /\ ctl.parent = ctl.body + ctl.resp
    /\ \A r \in Requests :
          lease[r].resp = lease[r].committed
                            + SumFunctionOnSet([t \in Temps |-> temp[r][t].size], Temps)

\* Retained bytes stay within the global budget and within each request's own
\* limit, also when body and response grow in any order.
BudgetRespected ==
    /\ ctl.body + ctl.resp <= Budget
    /\ \A r \in Requests \ ResourceOnly :
          lease[r].body + lease[r].resp <= MaxRetained

\* Bodies above the small-lane threshold never eat into the memory set aside
\* for small ones, even when a body outgrows the small lane chunk by chunk.
LargeBodiesLeaveReserve ==
    LET large == [r \in Requests |-> IF SmallLane(BodyOf(r)) THEN 0 ELSE BodyOf(r)]
    IN  SumFunctionOnSet(large, Requests) <= Budget - SmallReserve

\* Every body above the large threshold has one large-body claim, no claim
\* survives its owner, and there are never more claims than the limit.
ClaimsExact ==
    /\ TypeOK
    /\ ctl.holders = {r \in Requests : pend[r].slot \/ lease[r].slot}
    /\ \A r \in Requests : ~(pend[r].slot /\ lease[r].slot)
    /\ LargeLimit # 0 => \A r \in Requests :
          BodyOf(r) > LargeThreshold => r \in ctl.holders
    /\ Cardinality(ctl.holders) <= LargeLimit

\* The memory of a lease is finalized once, after the release and after the
\* last temporary reservation and the deferral are gone, and not later:
\* whoever comes last does it.
FinalizedByLastOwner ==
    \A r \in Requests :
        LET l == lease[r]
            open == {t \in Temps : temp[r][t].st = "active"}
        IN  /\ l.owners = Cardinality(open) + (IF hold[r] = "active" THEN 1 ELSE 0)
            /\ l.final => /\ l.st \in {"requested", "released"}
                          /\ l.owners = 0
                          /\ l.body = 0 /\ l.resp = 0
            /\ l.st = "released" /\ ~l.final <=> r \in ctl.deferred
            /\ r \in ctl.deferred => l.owners > 0

\* Memory that a worker or a parser still uses stays charged: while a lease
\* has owners, releasing the request takes nothing off its body bytes.
ChargedWhileOwned ==
    [][\A r \in Requests :
          lease[r].st # "active" /\ lease'[r].owners > 0
          => lease'[r].body = lease[r].body]_vars

\* The turn of a lane belongs to exactly one request that is going to end it.
TurnsOwned ==
    \A l \in Lanes :
        LET holders == {r \in Requests :
                          /\ op[r].lane = l
                          /\ \/ op[r].ph = "turn"
                             \/ op[r].ph = "waiting" /\ wq.wstate[r] = "granted"}
        IN  /\ Cardinality(holders) <= 1
            /\ wq.turn[l] <=> holders # {}

\* No lost wake-up: a lane whose promotions are stopped has memory in use that
\* will start them again, provided every body fits in an empty budget.
BlockedLaneWillWake ==
    MaxBody <= Budget - SmallReserve /\ ResourceOnly = {}
    => \A l \in Lanes :
          ~wq.enabled[l] => ctl.body + ctl.resp > 0

\* A body that waits for memory (core.py, _reserve_body_bytes and its waits) gets and gives
\* back each claim and each turn once, whoever is cancelled where, and no lane stays blocked
\* with nobody to unblock it.
BodyWaitSound == ClaimsExact /\ TurnsOwned /\ BlockedLaneWillWake

\* The ledger is sound (core.py, RequestAdmissionLease and its reservations): the shared
\* counters are the sums over the requests, within the budget and outside the reserve of the
\* small bodies, and the last owner of a request's memory returns it, whatever the order in
\* which parsers, workers and the request itself end.
LedgerSound ==
    LedgerExact /\ BudgetRespected /\ LargeBodiesLeaveReserve /\ FinalizedByLastOwner
=============================================================================
