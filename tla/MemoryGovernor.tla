--------------------------- MODULE MemoryGovernor ---------------------------
(***************************************************************************)
(* AdaptiveMemoryGovernor of uni_api/admission/memory.py: one parent       *)
(* budget for the bytes that the process retains, derived from samples of  *)
(* the cgroup's memory files.                                              *)
(*                                                                         *)
(* The governor is shared by threads: its lock is a threading.RLock, and   *)
(* release may be called outside the event loop.  One section under the    *)
(* lock is one step; the loop of reserve() passes through several of them, *)
(* and a release of another thread can come between any two.  A waiter's   *)
(* event is set by a callback that release posts to the waiter's loop, so  *)
(* it runs only while that waiter's task is suspended.                     *)
(***************************************************************************)
EXTENDS Integers, FiniteSets, Functions

CONSTANTS Tasks,        \* those that reserve and release
          Categories,
          CategoryOf,   \* what each task reserves for
          Amounts,        \* the sizes asked for
          Limits,       \* what memory.max / memory.high may read
          Usages,       \* what memory.current may read
          Fallback,     \* fallback_budget_bytes
          SoftLimit,    \* soft_limit_bytes, 0 when it is not configured
          GuardBytes,   \* guard_bytes
          GuardRatio    \* guard_ratio, as a pair <<numerator, denominator>>

\* The checks of AdaptiveMemoryGovernor.__init__.
ASSUME GovernorAssumption ==
    /\ IsFiniteSet(Tasks) /\ IsFiniteSet(Categories)
    /\ CategoryOf \in [Tasks -> Categories]
    /\ Amounts \subseteq Nat \ {0} /\ Limits \subseteq Nat /\ Usages \subseteq Nat
    /\ Fallback \in Nat \ {0} /\ SoftLimit \in Nat /\ GuardBytes \in Nat
    /\ GuardRatio \in Nat \X (Nat \ {0}) /\ GuardRatio[1] < GuardRatio[2]

VARIABLES reserved,   \* _reserved
          sample,     \* _sample: limit (max or high, the lower) and usage
          failed,     \* _sample_error is not None
          waiters,    \* _waiters
          posted,     \* tasks with an event.set callback posted to their loop
          task        \* where each task stands

governorVars == <<reserved, sample, failed, waiters, posted, task>>

\* An unreadable value, and the sample before the first one is read.
None == -1

NoSample == [limit |-> None, usage |-> None]

\* n: the bytes asked for or held; wake: the waiters a release has noted;
\* seen: the sample by which a sleeping task was refused.
NoCall == [ph |-> "out", n |-> 0, wake |-> {}, seen |-> NoSample]

GovernorInit ==
    /\ reserved = [c \in Categories |-> 0]
    /\ sample = NoSample
    /\ failed = FALSE
    /\ waiters = {}
    /\ posted = {}
    /\ task = [t \in Tasks |-> NoCall]

TotalReserved == SumFunctionOnSet(reserved, Categories)

-----------------------------------------------------------------------------
(* _limits_locked *)

AtMost(a, b) == IF a < b THEN a ELSE b
AtLeast(a, b) == IF a > b THEN a ELSE b

\* The guard without a configured soft limit: an absolute margin, capped at
\* half the limit, or the configured ratio of it if that is larger.
Guard(limit) ==
    AtLeast(AtMost(GuardBytes, limit \div 2),
            (limit * GuardRatio[1]) \div GuardRatio[2])

SoftLimitFor(limit) ==
    IF SoftLimit # 0
    THEN IF limit = None THEN SoftLimit ELSE AtMost(SoftLimit, limit)
    ELSE IF limit = None THEN None
    ELSE AtLeast(1, limit - AtMost(Guard(limit), AtLeast(0, limit - 1)))

\* What the sample alone says may be reserved.
Headroom(s) ==
    IF SoftLimitFor(s.limit) = None \/ s.usage = None
    THEN Fallback
    ELSE SoftLimitFor(s.limit) - s.usage

\* Existing reservations are never called into question; an expansion after a
\* failed sample is limited to the fallback budget.
CapacityOf(s, err, r) ==
    LET whole == AtLeast(r, Headroom(s))
    IN  IF err THEN AtLeast(r, AtMost(whole, Fallback)) ELSE whole

Available(s, err, r) == AtLeast(0, CapacityOf(s, err, r) - r)

\* _refresh_sample_locked: the cached sample is still good enough, a new one is
\* read, or reading fails and the last one stays in use.
Refreshed ==
    \/ sample.usage # None /\ UNCHANGED <<sample, failed>>
    \/ /\ sample' \in [limit : Limits \cup {None}, usage : Usages \cup {None}]
       /\ failed' = FALSE
    \/ failed' = TRUE /\ UNCHANGED sample

-----------------------------------------------------------------------------
At(t, phase) == task[t].ph = phase

Goto(t, phase) == task' = [task EXCEPT ![t].ph = phase, ![t].seen = NoSample]

\* _try_reserve_locked and reserve_nowait_decision decide on the fresh sample.
Fits(n) == n <= Available(sample', failed', TotalReserved)

Charge(t, n) == reserved' = [reserved EXCEPT ![CategoryOf[t]] = @ + n]

\* reserve_nowait_decision
ReserveNowait(t, n) ==
    /\ At(t, "out")
    /\ Refreshed
    /\ \/ /\ Fits(n)
          /\ Charge(t, n)
          /\ task' = [task EXCEPT ![t].ph = "holding", ![t].n = n]
       \/ ~Fits(n) /\ UNCHANGED <<reserved, task>>
    /\ UNCHANGED <<waiters, posted>>

\* reserve: the first attempt ...
ReserveOrWait(t, n) ==
    /\ At(t, "out")
    /\ Refreshed
    /\ \/ /\ Fits(n)
          /\ Charge(t, n)
          /\ task' = [task EXCEPT ![t].ph = "holding", ![t].n = n]
       \/ /\ ~Fits(n)
          /\ task' = [task EXCEPT ![t].ph = "blocked", ![t].n = n]
          /\ UNCHANGED reserved
    /\ UNCHANGED <<waiters, posted>>

\* ... the registration as a waiter, with an event of its own ...
Register(t) ==
    /\ At(t, "blocked")
    /\ waiters' = waiters \cup {t}
    /\ Goto(t, "loop")
    /\ UNCHANGED <<reserved, sample, failed, posted>>

\* Mutant of Recheck: the waiter sleeps without looking again.
Recheck_Skipped(t) ==
    /\ At(t, "loop")
    /\ Refreshed
    /\ task' = [task EXCEPT ![t].ph = "asleep", ![t].seen = sample']
    /\ UNCHANGED <<reserved, waiters, posted>>

\* ... then, in each round, the deadline, event.clear() and the recheck.  The
\* deadline and the clear touch only the task itself.
Recheck(t) ==
    /\ At(t, "loop")
    /\ Refreshed
    /\ \/ /\ Fits(task[t].n)
          /\ Charge(t, task[t].n)
          /\ Goto(t, "granted")
       \/ /\ ~Fits(task[t].n)
          /\ task' = [task EXCEPT ![t].ph = "asleep", ![t].seen = sample']
          /\ UNCHANGED reserved
    /\ UNCHANGED <<waiters, posted>>

DeadlinePassed(t) ==
    /\ At(t, "loop")
    /\ Goto(t, "leaving")
    /\ UNCHANGED <<reserved, sample, failed, waiters, posted>>

\* The posted callback sets the event: the wait ends.
Wake(t) ==
    /\ t \in posted
    /\ At(t, "asleep")
    /\ posted' = posted \ {t}
    /\ Goto(t, "loop")
    /\ UNCHANGED <<reserved, sample, failed, waiters>>

\* The 0.1 s poll interval ends.
Poll(t) ==
    /\ At(t, "asleep")
    /\ Goto(t, "loop")
    /\ UNCHANGED <<reserved, sample, failed, waiters, posted>>

\* The waiting task is cancelled.
CancelWait(t) ==
    /\ At(t, "asleep")
    /\ Goto(t, "leaving")
    /\ UNCHANGED <<reserved, sample, failed, waiters, posted>>

\* "finally": the waiter is unregistered.  Its event dies with it: a callback
\* that is still to come sets an event nobody waits for.
Unregister(t) ==
    /\ At(t, "granted") \/ At(t, "leaving")
    /\ waiters' = waiters \ {t}
    /\ posted' = posted \ {t}
    /\ task' = [u \in Tasks |->
                  IF u # t THEN [task[u] EXCEPT !.wake = @ \ {t}]
                  ELSE IF At(t, "granted") THEN [task[t] EXCEPT !.ph = "holding"]
                  ELSE NoCall]
    /\ UNCHANGED <<reserved, sample, failed>>

\* release: give the bytes back and note who waits ...
Release(t) ==
    /\ At(t, "holding")
    /\ task[t].n <= reserved[CategoryOf[t]]
    /\ reserved' = [reserved EXCEPT ![CategoryOf[t]] = @ - task[t].n]
    /\ task' = [task EXCEPT ![t] = [NoCall EXCEPT !.ph = "releasing",
                                              !.wake = waiters]]
    /\ UNCHANGED <<sample, failed, waiters, posted>>

\* ... then, outside the lock, post a callback to each of them.
PostWakes(t) ==
    /\ At(t, "releasing")
    /\ posted' = posted \cup task[t].wake
    /\ task' = [task EXCEPT ![t] = NoCall]
    /\ UNCHANGED <<reserved, sample, failed, waiters>>

GovernorNext ==
    \E t \in Tasks :
        \/ \E n \in Amounts : ReserveNowait(t, n) \/ ReserveOrWait(t, n)
        \/ Register(t)
        \/ Recheck(t)
        \/ DeadlinePassed(t)
        \/ Wake(t)
        \/ Poll(t)
        \/ CancelWait(t)
        \/ Unregister(t)
        \/ Release(t)
        \/ PostWakes(t)

GovernorSpec == GovernorInit /\ [][GovernorNext]_governorVars

-----------------------------------------------------------------------------
MemorySamples == [limit : Limits \cup {None}, usage : Usages \cup {None}]

Calls == [ph : {"out", "blocked", "loop", "asleep", "granted", "leaving", "holding", "releasing"},
          n : Amounts \cup {0}, wake : SUBSET Tasks, seen : MemorySamples]

GovernorTypeOK ==
    /\ reserved \in [Categories -> Nat]
    /\ sample \in MemorySamples
    /\ failed \in BOOLEAN
    /\ waiters \subseteq Tasks /\ posted \subseteq Tasks
    /\ task \in [Tasks -> Calls]

\* What a task will give back.
HeldBytes(call) == IF call.ph \in {"granted", "holding"} THEN call.n ELSE 0

HeldFor(t, c) == IF CategoryOf[t] = c THEN HeldBytes(task[t]) ELSE 0

\* Each category's counter is what its holders will give back, so no
\* cancellation or time-out loses a reservation and no release underflows.
ReservedExact ==
    \A c \in Categories :
        reserved[c] = SumFunctionOnSet([t \in Tasks |-> HeldFor(t, c)], Tasks)

\* An expansion never leaves the reservations above what the sample allows,
\* nor above the fallback budget when the sample is stale, although both may
\* have shrunk below what is already reserved.
ExpansionFits ==
    [][TotalReserved' > TotalReserved
         => /\ TotalReserved' <= Headroom(sample')
            /\ failed' => TotalReserved' <= Fallback]_governorVars

\* "A release in either race window cannot leave this waiter asleep with
\* available space": a sleeping task whose bytes fit, by the sample it checked
\* last, is about to be woken.
NoLostWakeup ==
    \A t \in Tasks :
        /\ At(t, "asleep")
        /\ task[t].seen = sample
        /\ task[t].n <= Available(sample, TRUE, TotalReserved)
        => \/ t \in posted
           \/ \E u \in Tasks : At(u, "releasing") /\ t \in task[u].wake

\* The governor is sound (admission/memory.py, reserve and release): a grant that races a
\* time-out, a cancellation or a failed sample is neither lost nor counted twice, nobody
\* sleeps beside bytes that fit, and no grant exceeds what the sample or the fallback allows.
GovernorSound == [](ReservedExact /\ NoLostWakeup) /\ ExpansionFits
=============================================================================
