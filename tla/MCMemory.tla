------------------------------- MODULE MCMemory -------------------------------
(***************************************************************************)
(* Bounds for model checking the two places where a request waits for      *)
(* memory: the wait queue, which two tenants share, and the governor.      *)
(* Each behaviour is about one of them.  TurnsSpec adds the history that   *)
(* the ordering property of the wait queue needs.                          *)
(***************************************************************************)
EXTENDS FairWaitQueue, MemoryGovernor, TLC

CONSTANTS a1, a2, a3, b1,   \* tasks, named after their tenants
          A, B,             \* tenants
          t1, t2, t3, bodies, spool

\* Tenant B has one task, tenant A the others.
MCTenantOf == [w \in Requests |-> IF w = b1 THEN B ELSE A]

\* The first two tasks reserve in the same category.
MCCategoryOf == (t1 :> bodies) @@ (t2 :> bodies) @@ (t3 :> spool)

\* One eighth of the limit is kept as a guard, at least.
MCGuardRatio == <<1, 8>>

VARIABLES part,
          passed   \* of each lane: the pairs <<s, t>> such that tenant s got a turn while
                   \* tenant t was waiting, and t has waited without a turn ever since

memoryVars == <<part, passed, queueVars, governorVars>>

NobodyPassed == passed = [l \in Lanes |-> {}]

MemoryInit == part \in {"queue", "governor"} /\ NobodyPassed /\ QueueInit /\ GovernorInit

InQueue == part = "queue" /\ UNCHANGED <<part, passed, governorVars>>

MemoryNext ==
    \/ InQueue /\ QueueNext
    \/ part = "governor" /\ GovernorNext /\ UNCHANGED <<part, passed, queueVars>>

\* See QueueFairness.
MemorySpec ==
    /\ MemoryInit /\ [][MemoryNext]_memoryVars
    /\ \A u \in Requests :
          WF_memoryVars(InQueue /\ TakeTurn(u)) /\ WF_memoryVars(InQueue /\ EndTurn(u))
    /\ WF_memoryVars(InQueue /\ MemoryReleased)

-----------------------------------------------------------------------------
(* The order of the turns *)

Granted(l) == {TenantOf[w] : w \in {v \in Requests : /\ wq'.wstate[v] = "granted"
                                                    /\ wq.wstate[v] # "granted"
                                                    /\ wq'.lane[v] = l}}

Waiting(q, l) == {t \in Tenants : q.queues[l][t] # <<>>}

TurnsInit == part = "queue" /\ NobodyPassed /\ QueueInit /\ GovernorInit

TurnsNext ==
    /\ QueueNext
    /\ passed' = [l \in Lanes |->
                    {p \in passed[l] \cup (Granted(l) \X Waiting(wq', l)) :
                        /\ p[2] \in Waiting(wq, l)
                        /\ p[2] \in Waiting(wq', l)
                        /\ p[2] \notin Granted(l)}]
    /\ UNCHANGED <<part, governorVars>>

TurnsSpec == TurnsInit /\ [][TurnsNext]_memoryVars

\* The class's own description, "Two-lane, tenant-round-robin ordering for
\* memory waiters": no tenant gets a second turn while another tenant that was
\* already waiting at the first one still has not had any.
RoundRobin ==
    [][\A l \in Lanes : \A s \in Granted(l), t \in Waiting(wq', l) :
          s # t => <<s, t>> \notin passed[l]]_memoryVars
=============================================================================
