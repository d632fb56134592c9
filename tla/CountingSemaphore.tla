-------------------------- MODULE CountingSemaphore --------------------------
(***************************************************************************)
(* What a bounded gate promises to its users: at most Permits of them own  *)
(* a permit; a step gives a permit to one user, takes one back, or hands   *)
(* one over.                                                               *)
(***************************************************************************)
EXTENDS Integers, FiniteSets

CONSTANTS Users, Permits

VARIABLE owners

Init == owners = {}

Acquire(u) == /\ u \notin owners
              /\ Cardinality(owners) < Permits
              /\ owners' = owners \cup {u}

Release(u) == /\ u \in owners
              /\ owners' = owners \ {u}

\* A returned permit goes to a waiting user in the same step.
HandOver(u, v) == /\ u \in owners
                  /\ v \notin owners
                  /\ owners' = (owners \ {u}) \cup {v}

Next == \/ \E u \in Users : Acquire(u) \/ Release(u)
        \/ \E u, v \in Users : HandOver(u, v)

Spec == Init /\ [][Next]_owners
=============================================================================
