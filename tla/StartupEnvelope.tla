--------------------------- MODULE StartupEnvelope ---------------------------
(***************************************************************************)
(* calculate_startup_concurrency of uni_api/admission/resources.py: how    *)
(* many requests a new process may serve and how many may wait, from its   *)
(* descriptors, ports, memory and CPU share.  The limits are found by a    *)
(* binary search; the reference takes the largest number that fits.        *)
(* Ratios are percentages; None is 0 where the code has an absent value.   *)
(***************************************************************************)
EXTENDS Integers, FiniteSetsExt

CONSTANTS ConnectionMemory, ActiveMemory,  \* bytes per connection and active request
          FdReserveMin, FdReservePct, OutboundFds,
          HeadroomMin, HeadroomPct, PortPct, ControlPct,
          MinimumTotal, BurstPct, BaseActive, ReferenceCpu, ReferenceWeight

Ceil(n, d) == (n + d - 1) \div d
Least(a, b) == IF a < b THEN a ELSE b
Most(a, b) == IF a > b THEN a ELSE b

\* startup_active_limit.
StartupActiveLimit(r) ==
    LET share == IF r.quota > 0 THEN r.quota
                 ELSE IF r.weight > 0 THEN Most(1, (ReferenceCpu * r.weight) \div ReferenceWeight)
                 ELSE r.cpus * 1000
        capped == IF r.cpus > 0 THEN Least(share, r.cpus * 1000) ELSE share
        active == IF capped > 0 THEN Most(1, (BaseActive * capped) \div ReferenceCpu)
                  ELSE BaseActive
    IN IF r.max > 0 THEN Least(active, r.max) ELSE active

PortLimit(r) == Most(1, ((r.ports - r.busy) * PortPct) \div (100 * OutboundFds))
Control(r) == (r.memory * ControlPct) \div 100
FdReserve(r) == Most(Least(FdReserveMin, Most(1, r.nofile \div 2)), Ceil(r.nofile * FdReservePct, 100))
TransportHeadroom(total) == Most(HeadroomMin, Ceil(total * HeadroomPct, 100))

\* fits: descriptors and control memory for so many active and waiting requests.
Fits(r, active, waiters) ==
    LET server == active + waiters + TransportHeadroom(active + waiters)
    IN /\ r.nofile > 0 => r.open + FdReserve(r) + OutboundFds * active + server <= r.nofile
       /\ r.memory > 0 => ConnectionMemory * server + ActiveMemory * active <= Control(r)

\* largest_fitting: a binary search for the last value in fitting, the predicate's set.
LargestFitting(upper, fitting) ==
    LET search[s \in (0..Most(0, upper)) \X (0..Most(0, upper))] ==
            IF s[1] >= s[2] THEN s[1]
            ELSE LET middle == (s[1] + s[2] + 1) \div 2
                 IN IF middle \in fitting THEN search[<<middle, s[2]>>] ELSE search[<<s[1], middle - 1>>]
    IN search[<<0, Most(0, upper)>>]

\* The arithmetic bounds that only limit the search.
SearchLimit(r) ==
    LET bounds == (IF r.ports > 0 THEN {PortLimit(r)} ELSE {})
                  \cup (IF r.memory > 0 THEN {Control(r) \div (ConnectionMemory + ActiveMemory)} ELSE {})
                  \cup (IF r.nofile > 0
                        THEN {Most(0, r.nofile - r.open - FdReserve(r)) \div (OutboundFds + 1)}
                        ELSE {})
    IN IF bounds = {} THEN Most(MinimumTotal, Ceil(StartupActiveLimit(r) * BurstPct, 100))
       ELSE Min(bounds)

\* Mutant: the search stops below its upper end.
ResourceActiveShort(r) ==
    LET upper == SearchLimit(r) - 1 IN LargestFitting(upper, {v \in 0..upper : Fits(r, v, 0)})

ResourceActive(r) ==
    LET upper == SearchLimit(r) IN LargestFitting(upper, {v \in 0..upper : Fits(r, v, 0)})

TargetActive(r) ==
    LET wanted == IF r.active > 0 THEN r.active
                  ELSE IF r.cpuBound THEN StartupActiveLimit(r) ELSE ResourceActive(r)
        capped == IF r.max > 0 THEN Least(wanted, r.max) ELSE wanted
    IN IF r.total > 0 THEN Least(capped, r.total) ELSE capped

WaiterCeiling(r, active) ==
    IF r.total > 0 THEN r.total - active
    ELSE IF r.waiters >= 0 THEN r.waiters
    ELSE Most(0, Most(MinimumTotal, Ceil(active * BurstPct, 100)) - active)

\* Waiting requests that fit beside the active ones, at most desired.
FittingWaiters(r, active, desired) ==
    LargestFitting(desired, {v \in 0..desired : Fits(r, active, v)})

\* The settings contradict each other or the resources (ValueError).
Contradicted(r, active, ceiling, desired, waiters) ==
    \/ r.ports > 0 /\ r.ports <= r.busy
    \/ active = 0
    \/ r.active > 0 /\ ((r.max > 0 /\ r.active > r.max) \/ (r.total > 0 /\ r.active > r.total))
    \/ r.active > 0 /\ active # r.active
    \/ desired > ceiling
    \/ r.waiters >= 0 /\ waiters # r.waiters

Backlog(r, waiters, headroom) ==
    LET backlog == Most(1, waiters + headroom)
    IN IF r.somaxconn > 0 THEN Least(backlog, r.somaxconn) ELSE backlog

\* The envelope, or an error when the process cannot serve what was asked for;
\* waiters -1 is "not requested".
Envelope(r, active, ceiling, desired, waiters) ==
    IF Contradicted(r, active, ceiling, desired, waiters) THEN [ok |-> FALSE]
    ELSE [ok |-> TRUE, active |-> active, waiters |-> waiters,
          server |-> active + waiters + TransportHeadroom(active + waiters),
          backlog |-> Backlog(r, waiters, TransportHeadroom(active + waiters))]

CalculateStartupConcurrency(r) ==
    LET active == Least(TargetActive(r), ResourceActive(r))
        ceiling == WaiterCeiling(r, active)
        desired == IF r.waiters >= 0 THEN r.waiters ELSE ceiling
    IN Envelope(r, active, ceiling, desired, FittingWaiters(r, active, desired))

VARIABLE host   \* what the process found when it started, <<>> before

\* startup_concurrency_from_environment, with the resources and settings h.
StartProcess(h) == host = <<>> /\ host' = <<h>>

-----------------------------------------------------------------------------
SoundEnvelope(h, e, largest) ==
    /\ e.ok =>
          /\ e.active > 0 /\ Fits(h, e.active, e.waiters)
          /\ h.ports > 0 => e.active <= PortLimit(h)
          /\ h.max > 0 => e.active <= h.max
          /\ h.total > 0 => e.active + e.waiters <= h.total
          /\ e.active = Least(largest, TargetActive(h))
          /\ h.active > 0 => e.active = h.active
          /\ h.waiters >= 0 => e.waiters = h.waiters
          /\ e.waiters < WaiterCeiling(h, e.active) =>
                \/ h.waiters >= 0 \/ ~ Fits(h, e.active, e.waiters + 1)
    /\ largest > 0 /\ h.active = 0 /\ h.waiters < 0 /\ h.ports = 0 => e.ok

\* An envelope that is accepted fits the descriptors, ports and memory of the
\* process, honours every limit that was set, serves as many requests as fit,
\* and keeps waiting only what fits beside them; none is refused that would fit.
EnvelopeFits ==
    \A i \in DOMAIN host :
        SoundEnvelope(host[i], CalculateStartupConcurrency(host[i]),
                      Max({v \in 0..SearchLimit(host[i]) : Fits(host[i], v, 0)} \cup {0}))
=============================================================================
