--------------------------- MODULE NetworkGovernor ---------------------------
(***************************************************************************)
(* AdaptiveNetworkGovernor of uni_api/admission/network.py and the accept  *)
(* guard of uni_api/server.py: connection attempts and inbound sockets are *)
(* admitted against a cached sample of the kernel's counters.  A sample is *)
(* taken again when it is older than the cache time, so at each use it is  *)
(* kept, refreshed, or found to be unknown: a supplier that cannot read    *)
(* the counters returns None.  If a supplier raises, what was counted      *)
(* before it stays, and so do the charges.                                 *)
(* Ephemeral ports are a second account of the same form, without the      *)
(* inbound charges; the model keeps the descriptors.                       *)
(***************************************************************************)
EXTENDS Integers, FiniteSets

CONSTANTS Attempts, \* connection attempts
          FdRoom,   \* nofile soft limit less the reserve and the other open files
          MaxCount  \* bound on inbound sockets and on each charge, for TLC

ASSUME NetworkAssumption == FdRoom \in Nat \ {0} /\ MaxCount \in Nat

\* known, fds: the cached sample; attempts: the operations that own a
\* NetworkResourceLease; completed, inbound: charges since the sample;
\* out, in: the sockets that are really open.
VARIABLE net

NetworkInit ==
    net = [known |-> FALSE, fds |-> 0, attempts |-> {}, completed |-> 0,
           inbound |-> 0, out |-> {}, in |-> 0]

-----------------------------------------------------------------------------
\* The open files are counted again, or cannot be.
Recounted(n) ==
    {[n EXCEPT !.known = TRUE, !.fds = Cardinality(n.out) + n.in],
     [n EXCEPT !.known = FALSE, !.fds = 0]}

\* The end of a sample clears the charges, of an unknown one too.
Cleared(n) == [n EXCEPT !.completed = 0, !.inbound = 0]

\* _sample_locked
Samples(n) == {n} \cup Recounted(n) \cup {Cleared(m) : m \in Recounted(n)}

FdHeadroom(n) ==
    FdRoom - n.fds - Cardinality(n.attempts) - n.completed - n.inbound

\* An unknown headroom refuses nothing.
CanReserve(n) == n.known => FdHeadroom(n) > 0

\* try_acquire, or one turn of the loop in acquire: _try_reserve_locked gives a
\* lease.  Refused, it changes nothing but the sample; the waiter polls again.
Reserve(a) ==
    /\ a \notin net.attempts \cup net.out
    /\ \E n \in Samples(net) :
          net' = IF CanReserve(n) THEN [n EXCEPT !.attempts = @ \cup {a}] ELSE n

\* Mutant: the charge ends with the attempt, before a sample shows its socket.
ReleaseAttemptEarly(a) ==
    /\ a \in net.attempts
    /\ net' = [net EXCEPT !.attempts = @ \ {a}]

\* release, when the headers have come or the attempt has failed: a socket that
\* it may have opened stays charged until the next sample.
ReleaseAttempt(a) ==
    /\ a \in net.attempts
    /\ net.completed < MaxCount
    /\ net' = [net EXCEPT !.attempts = @ \ {a}, !.completed = @ + 1]

\* httpcore opens the connection of an attempt; a reused one opens nothing.
OpenSocket(a) ==
    /\ a \in net.attempts \ net.out
    /\ net' = [net EXCEPT !.out = @ \cup {a}]

CloseSocket(a) ==
    /\ a \in net.out \ net.attempts
    /\ net' = [net EXCEPT !.out = @ \ {a}]

AllowInbound(n) == n.known => FdHeadroom(n) > 0

\* connection_made: the socket is accepted before it is admitted; one that is
\* not admitted is closed at once.
InboundConnection ==
    /\ net.in < MaxCount /\ net.inbound < MaxCount
    /\ \E n \in Samples([net EXCEPT !.in = @ + 1]) :
          net' = IF AllowInbound(n)
                 THEN [n EXCEPT !.inbound = @ + 1]
                 ELSE [n EXCEPT !.in = @ - 1]

InboundLost == net.in > 0 /\ net' = [net EXCEPT !.in = @ - 1]

\* snapshot, for the metrics: a sample is taken, and nobody admitted.
Snapshot == net' \in Samples(net)

NetworkNext ==
    \/ \E a \in Attempts : Reserve(a) \/ ReleaseAttempt(a) \/ OpenSocket(a) \/ CloseSocket(a)
    \/ InboundConnection \/ InboundLost \/ Snapshot

NetworkSpec == NetworkInit /\ [][NetworkNext]_net

-----------------------------------------------------------------------------
(* Properties *)

\* What is open, and what the attempts may still open.
Wanted(n) == Cardinality(n.out) + n.in + Cardinality(n.attempts \ n.out)

\* Whenever there is a sample to go by, however stale, nothing is admitted that
\* does not fit (network.py, acquire, release and allow_inbound_connection): the
\* open sockets and those that the admitted attempts may still open leave the
\* reserve alone.  That includes the first admission after a time without a
\* sample, in which attempts and sockets are let in unseen and their charges are
\* forgotten.
HeadroomRespected ==
    [][net'.known /\ Wanted(net') > Wanted(net) => Wanted(net') <= FdRoom]_net
=============================================================================
