------------------------------ MODULE MCUpstream ------------------------------
(***************************************************************************)
(* Bounds for model checking UpstreamPool, NetworkGovernor, OAuthTokens    *)
(* and SearchAffinity: two operations and one background task; three       *)
(* connection attempts with less room for sockets than they and the        *)
(* clients want; three callers of one OAuth key; four searches of two      *)
(* sessions, one of them for another model.  The pool only sees that the   *)
(* governor grants or refuses, and the other two only that a call          *)
(* succeeds, so a behaviour moves one of the four.                         *)
(***************************************************************************)
EXTENDS UpstreamPool, NetworkGovernor, OAuthTokens, SearchAffinity

CONSTANTS o1, o2, a1, a2, a3

MCSessionOf == [s1 |-> "x", s2 |-> "x", s3 |-> "x", s4 |-> "y"]

MCModelOf == [s1 |-> "m", s2 |-> "m", s3 |-> "n", s4 |-> "m"]

VARIABLE part

MCInit ==
    /\ PoolInit /\ NetworkInit /\ OAuthInit /\ AffinityInit
    /\ part \in {"pool", "network", "tokens", "search"}
    /\ part # "pool" => mode = "resource" /\ \A o \in Cleaners : request[o] = "active"

MCNext ==
    /\ UNCHANGED part
    /\ \/ part = "pool" /\ PoolNext /\ UNCHANGED <<net, oauthVars, affinityVars>>
       \/ part = "network" /\ NetworkNext /\ UNCHANGED <<poolVars, oauthVars, affinityVars>>
       \/ part = "tokens" /\ OAuthNext /\ UNCHANGED <<poolVars, net, affinityVars>>
       \/ part = "search" /\ AffinityNext /\ UNCHANGED <<poolVars, net, oauthVars>>

MCFairness ==
    /\ \A o \in Ops : WF_poolVars(part = "pool" /\ Operation(o))
    /\ WF_poolVars(part = "pool" /\ CloseEnds)

MCSpec ==
    MCInit /\ [][MCNext]_<<poolVars, net, oauthVars, affinityVars, part>> /\ MCFairness
=============================================================================
