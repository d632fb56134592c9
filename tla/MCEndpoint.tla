------------------------------ MODULE MCEndpoint ------------------------------
(***************************************************************************)
(* Bounds for model checking what lies between admission and the provider: *)
(* the coordinator of idempotent requests, an endpoint with its upstream   *)
(* attempts, the lease that sums the attempts up (on its own, with the     *)
(* reservations that an endpoint may make in any order), and the queue of  *)
(* the channel statistics.  They share no state but the lease, so a        *)
(* behaviour moves one of them.                                            *)
(***************************************************************************)
EXTENDS Idempotency, Endpoint, ChannelStats

CONSTANTS a1, a2, x1, b1,   \* requests: a1 and a2 are the same, x1 has their
          A, B              \* key and another body, b1 has its own key

MCKeyOf == [c \in Requests |-> IF c = b1 THEN B ELSE A]

MCHashOf == [c \in Requests |-> IF c = x1 THEN 1 ELSE 0]

VARIABLE part

allVars == <<part, vars, endpointVars, statsVars>>

\* Only an endpoint has a request of its own.
MCInit ==
    /\ part \in {"keys", "endpoint", "lease", "stats"}
    /\ Init /\ EndpointInit /\ StatsInit
    /\ part # "endpoint" => rq.auto /\ rq.slots = 1 /\ rq.kind = "chat"

InKeys == part = "keys" /\ UNCHANGED <<part, endpointVars, statsVars>>
InEndpoint == part = "endpoint" /\ UNCHANGED <<part, vars, statsVars>>
InLease == part = "lease" /\ UNCHANGED <<part, vars, rq, att, statsVars>>
InStats == part = "stats" /\ UNCHANGED <<part, vars, endpointVars>>

MCNext == \/ InKeys /\ Next
          \/ InEndpoint /\ EndpointNext
          \/ InLease /\ AttemptsNext
          \/ InStats /\ StatsNext

\* Ready tasks of the coordinator run; see Fairness.
MCFairSpec ==
    /\ MCInit /\ [][MCNext]_allVars
    /\ \A c \in Requests : WF_allVars(InKeys /\ TaskStep(c))
=============================================================================
