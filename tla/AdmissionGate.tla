---------------------------- MODULE AdmissionGate ----------------------------
(***************************************************************************)
(* BoundedAdmissionGate of uni_api/admission/core.py: a FIFO gate with     *)
(* Capacity active slots and at most WaiterLimit queued callers, and the   *)
(* AdmissionLease that gives a slot back.                                  *)
(*                                                                         *)
(* The critical sections of the gate contain no await, so the asyncio lock *)
(* is never contended and each one is a single step here.  What does       *)
(* interleave is everything around them:                                   *)
(*   - a waiter's future is resolved by whoever returns a slot, but the    *)
(*     waiter's task only runs later ("waiting" with wstate "granted");    *)
(*   - a timeout or a cancellation may win in that window, and the         *)
(*     clean-up (_abandon_waiter) is a task of its own ("abandoning");     *)
(*   - the finished acquisition task holds a lease that its owner has not  *)
(*     picked up yet ("leased");                                           *)
(*   - lease.release() is a task of its own ("releasing").                 *)
(***************************************************************************)
EXTENDS Integers, Sequences, FiniteSets, SequencesExt

CONSTANTS Callers,      \* the tasks that use the gate
          Capacity,     \* capacity
          WaiterLimit   \* waiter_limit

\* The checks of BoundedAdmissionGate.__init__, and finitely many tasks.
ASSUME GateAssumption == /\ IsFiniteSet(Callers)
                         /\ Capacity \in Nat \ {0}
                         /\ WaiterLimit \in Nat

VARIABLES active,   \* _active
          waiters,  \* _waiters, oldest first; a waiter is named by its caller
          wstate,   \* _Waiter.state of the caller's current waiter
          pc        \* where the caller's acquisition stands

vars == <<active, waiters, wstate, pc>>

WaiterStates == {"none", "queued", "granted", "abandoned"}

Phases == {"idle", "rejected", "waiting", "abandoning",
           "leased", "holding", "releasing"}

TypeOK ==
    /\ active \in Nat
    /\ waiters \in Seq(Callers)
    /\ wstate \in [Callers -> WaiterStates]
    /\ pc \in [Callers -> Phases]

Init ==
    /\ active = 0
    /\ waiters = <<>>
    /\ wstate = [c \in Callers |-> "none"]
    /\ pc = [c \in Callers |-> "idle"]

-----------------------------------------------------------------------------
\* A task may start a new acquisition when its last one is over.
Ready(c) == pc[c] \in {"idle", "rejected"}

\* Mutant of SlotFree: one slot too many.
SlotFree_OffByOne == active <= Capacity /\ waiters = <<>>

\* The fast path: a new caller must not jump ahead of queued callers.
SlotFree == active < Capacity /\ waiters = <<>>

ClaimSlot(c) ==
    /\ active' = active + 1
    /\ pc' = [pc EXCEPT ![c] = "holding"]
    /\ UNCHANGED <<waiters, wstate>>

\* try_acquire: take a slot now or leave without queueing.
TryAcquire(c) ==
    /\ Ready(c)
    /\ SlotFree
    /\ ClaimSlot(c)

\* begin_acquire when no slot can be claimed: refuse, or join the queue.
QueueFull(c) ==
    /\ Len(waiters) >= WaiterLimit
    /\ pc' = [pc EXCEPT ![c] = "rejected"]
    /\ UNCHANGED <<active, waiters, wstate>>

Enqueue(c) ==
    /\ Len(waiters) < WaiterLimit
    /\ waiters' = Append(waiters, c)
    /\ wstate' = [wstate EXCEPT ![c] = "queued"]
    /\ pc' = [pc EXCEPT ![c] = "waiting"]
    /\ UNCHANGED active

BeginAcquire(c) ==
    /\ Ready(c)
    /\ \/ SlotFree /\ ClaimSlot(c)
       \/ ~SlotFree /\ (QueueFull(c) \/ Enqueue(c))

-----------------------------------------------------------------------------
(***************************************************************************)
(* _promote_waiters_locked, applied to the queue q, the waiter states ws   *)
(* and the count n the surrounding critical section has produced so far:   *)
(* pop and grant from the head while a slot is free.  The test that skips  *)
(* a popped waiter which is no longer queued is not repeated here:         *)
(* WaitersAreQueued shows that no such waiter is ever in the queue.        *)
(***************************************************************************)
Grants(q, n) == IF Capacity - n < Len(q) THEN Capacity - n ELSE Len(q)

Promoted(q, n) == {q[i] : i \in 1..Grants(q, n)}

PromoteWaiters(q, ws, n) ==
    /\ active' = n + Grants(q, n)
    /\ waiters' = SubSeq(q, Grants(q, n) + 1, Len(q))
    /\ wstate' = [c \in Callers |->
                    IF c \in Promoted(q, n) THEN "granted" ELSE ws[c]]

\* _wait_for_waiter resumes with the grant and builds the lease.
WaiterResumes(c) ==
    /\ pc[c] = "waiting"
    /\ wstate[c] = "granted"
    /\ pc' = [pc EXCEPT ![c] = "leased"]
    /\ wstate' = [wstate EXCEPT ![c] = "none"]
    /\ UNCHANGED <<active, waiters>>

\* The wait times out, or the waiting task is cancelled (also before its first
\* step, or while the grant is on its way): the clean-up task is scheduled.
StopWaiting(c) ==
    /\ pc[c] = "waiting"
    /\ pc' = [pc EXCEPT ![c] = "abandoning"]
    /\ UNCHANGED <<active, waiters, wstate>>

\* The owner is cancelled and the acquisition finishes with a lease all the
\* same, because the lease was ready or because asyncio.wait_for of
\* Python 3.11 returns a finished future's result in spite of a cancellation:
\* _cancel_and_release_acquisition schedules the release of that lease.
OwnerCancelled(c) ==
    /\ \/ pc[c] = "leased"
       \/ pc[c] = "waiting" /\ wstate[c] = "granted"
    /\ pc' = [pc EXCEPT ![c] = "releasing"]
    /\ wstate' = [wstate EXCEPT ![c] = "none"]
    /\ UNCHANGED <<active, waiters>>

\* _await_owned_acquisition returns the lease to its owner.
OwnerResumes(c) ==
    /\ pc[c] = "leased"
    /\ pc' = [pc EXCEPT ![c] = "holding"]
    /\ UNCHANGED <<active, waiters, wstate>>

\* Mutant of AbandonWaiter: the slot of a waiter granted meanwhile is not returned.
AbandonWaiter_LosesGrant(c) ==
    /\ pc[c] = "abandoning"
    /\ pc' = [pc EXCEPT ![c] = "rejected"]
    /\ LET gone == [wstate EXCEPT ![c] = "abandoned"]
       IN  \/ /\ wstate[c] = "queued"
              /\ PromoteWaiters(Remove(waiters, c), gone, active)
           \/ wstate[c] = "granted" /\ PromoteWaiters(waiters, gone, active)

\* _abandon_waiter.  A waiter that was granted meanwhile owns a slot, which
\* goes back to the gate; either way the queue is promoted.
AbandonWaiter(c) ==
    /\ pc[c] = "abandoning"
    /\ pc' = [pc EXCEPT ![c] = "rejected"]
    /\ LET gone == [wstate EXCEPT ![c] = "abandoned"]
       IN  \/ /\ wstate[c] = "queued"
              /\ \E i \in 1..Len(waiters) :
                    /\ waiters[i] = c
                    /\ PromoteWaiters(RemoveAt(waiters, i), gone, active)
           \/ /\ wstate[c] = "granted"
              /\ PromoteWaiters(waiters, gone, active - 1)

\* AdmissionLease.release: the first call schedules the release task; later
\* calls wait for the same task and change nothing.
Release(c) ==
    /\ pc[c] = "holding"
    /\ pc' = [pc EXCEPT ![c] = "releasing"]
    /\ UNCHANGED <<active, waiters, wstate>>

\* Mutant of ReleaseSlot: the queue is not promoted.
ReleaseSlot_NoPromotion(c) ==
    /\ pc[c] = "releasing"
    /\ pc' = [pc EXCEPT ![c] = "idle"]
    /\ active' = active - 1
    /\ UNCHANGED <<waiters, wstate>>

\* _release_slot, run once by the release task.
ReleaseSlot(c) ==
    /\ pc[c] = "releasing"
    /\ active > 0
    /\ pc' = [pc EXCEPT ![c] = "idle"]
    /\ PromoteWaiters(waiters, wstate, active - 1)

-----------------------------------------------------------------------------
GateStep(c) ==
    \/ TryAcquire(c)
    \/ BeginAcquire(c)
    \/ WaiterResumes(c)
    \/ StopWaiting(c)
    \/ OwnerCancelled(c)
    \/ OwnerResumes(c)
    \/ AbandonWaiter(c)
    \/ Release(c)
    \/ ReleaseSlot(c)

Next == \E c \in Callers : GateStep(c)

\* The event loop runs every scheduled task, and the holder's "finally" block
\* releases every lease.  Nothing obliges a caller to arrive, a timer to fire
\* or a peer to disconnect.
FairCaller(c) ==
    /\ WF_vars(WaiterResumes(c))
    /\ WF_vars(OwnerResumes(c))
    /\ WF_vars(AbandonWaiter(c))
    /\ WF_vars(Release(c))
    /\ WF_vars(ReleaseSlot(c))

Fairness == \A c \in Callers : FairCaller(c)

Spec == Init /\ [][Next]_vars

FairSpec == Spec /\ Fairness

-----------------------------------------------------------------------------
\* The callers that own one of the slots counted by active.
SlotOwners ==
    {c \in Callers : \/ wstate[c] = "granted"
                     \/ pc[c] \in {"leased", "holding", "releasing"}}

\* No slot is lost or counted twice, whichever of a grant, a timeout, a
\* cancellation and a release wins: _active is the number of callers that own
\* a slot or a grant, and it never exceeds the capacity.
SlotsConserved ==
    /\ active = Cardinality(SlotOwners)
    /\ active <= Capacity

\* Queue q holds each waiter once, exactly those that ws has as "queued".
QueueMatches(q, ws) ==
    /\ \A i, j \in 1..Len(q) : q[i] = q[j] => i = j
    /\ \A i \in 1..Len(q) : ws[q[i]] = "queued"
    /\ \A c \in Callers : ws[c] = "queued" => \E i \in 1..Len(q) : q[i] = c

\* The queue holds exactly the waiters still in state "queued", each once: the
\* test that skips other waiters in _promote_waiters_locked is never needed,
\* and _waiters.remove in _abandon_waiter never raises.
WaitersAreQueued == QueueMatches(waiters, wstate)

\* Work conservation: nobody queues while a slot is free, so a missed
\* promotion (a wake-up lost by a release or by an abandoned grant) shows up.
NoIdleSlot == waiters # <<>> => active = Capacity

\* The bound that begin_acquire puts on queued tasks holds at all times.
QueueBounded == Len(waiters) <= WaiterLimit

\* The gate is sound (core.py, _AdmissionGate): whatever races a grant with a timeout, a
\* cancellation or a release, slots are neither lost, duplicated nor over-committed, the
\* queue holds exactly the live waiters, and nobody queues beside a free slot.
GateSound == SlotsConserved /\ WaitersAreQueued /\ NoIdleSlot

\* FIFO: whoever gains a slot in a step was not behind a caller that is still
\* queued after the step.
NoOvertaking ==
    [][\A c \in SlotOwners' \ SlotOwners :
          \A i \in 1..Len(waiters) :
              (\E j \in 1..Len(waiters') : waiters'[j] = waiters[i])
              => \E k \in 1..(i - 1) : waiters[k] = c]_vars

-----------------------------------------------------------------------------
\* The gate is a counting semaphore over its slot owners.
Semaphore == INSTANCE CountingSemaphore
                WITH Users <- Callers, Permits <- Capacity, owners <- SlotOwners

\* Every step of the gate takes or returns permits as the semaphore allows.
ImplementsSemaphore == Semaphore!Spec
=============================================================================
