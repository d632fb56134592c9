--------------------------- MODULE MCRequestMemory ---------------------------
(***************************************************************************)
(* Bounds for model checking RequestMemory, and RustFront next to it: the  *)
(* front is a process of its own, in front of the one that keeps the       *)
(* ledger, and takes the requests of its own clients.  A behaviour moves   *)
(* one of the two.                                                         *)
(***************************************************************************)
EXTENDS RequestMemory, RustFront, TLC

CONSTANTS r1, r2, r3, A, B, f1, f2, f3, k1, k2, k3,
          Parts    \* what a run moves: the memory ledger, the front

\* In the body run all requests belong to one tenant; r3 is queued first, so
\* only r1 and r2 are interchangeable.
MCOneTenant == [r \in Requests |-> A]

MCSymmetry == Permutations({r1, r2})

\* In the response run each of the two requests has its own tenant.
MCTwoTenants == (r1 :> A) @@ (r2 :> B)

Identity(key, hash) == [key |-> key, hash |-> hash]

\* The second request repeats the first, has another key or none; the third has the first
\* one's key with another body, or another key.
MCIdentities ==
    (f1 :> {Identity(k1, 0)}) @@ (f2 :> {Identity(k1, 0), Identity(k2, 0), Identity(NoKey, 0)})
    @@ (f3 :> {Identity(k1, 1), Identity(k3, 0)})

VARIABLE part

MCInit ==
    /\ Init /\ FrontInit /\ part \in Parts
    /\ KeyOf(f2) = k2 <=> KeyOf(f3) = k3
    /\ part = "memory" => KeyOf(f2) = k1

\* All requests of the front have been answered.
FrontIsDone == (\A r \in FrontRequests : At(r, "over")) /\ UNCHANGED frontVars

MCNext ==
    /\ UNCHANGED part
    /\ \/ part = "memory" /\ Next /\ UNCHANGED frontVars
       \/ part = "front" /\ (FrontNext \/ FrontIsDone) /\ UNCHANGED vars

MCSpec == MCInit /\ [][MCNext]_<<vars, frontVars, part>>
==============================================================================
