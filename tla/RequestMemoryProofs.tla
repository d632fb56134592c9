-------------------------- MODULE RequestMemoryProofs --------------------------
(***************************************************************************)
(* Proofs about RequestMemory for any finite set of requests, any number   *)
(* of temporary reservations and any limits that the constructor accepts.  *)
(*                                                                         *)
(* A step is about one request.  Owned says what holds of the objects of   *)
(* a request at any time; Charged says that the shared counters follow a   *)
(* change of them; and LedgerStep says that the ledger is sound after a    *)
(* step if the counters have followed it, the objects are Owned again, and *)
(* the step has not gone beyond a limit.  What is left to show of each     *)
(* action is about one request and needs no sum.                           *)
(***************************************************************************)
EXTENDS WaitQueueProofs, RequestMemory, SumTheorems

Sizes(t) == [u \in Temps |-> t[u].size]

Open(t) == {u \in Temps : t[u].st = "active"}

\* Pending bytes are there only before the transfer, and the lease is empty until then.
PendingRules(p, l, t, o) ==
    /\ p.st # "open" => p.bytes = 0 /\ ~p.slot
    /\ p.st = "open" => /\ l.body = 0 /\ l.resp = 0 /\ ~l.slot
                        /\ \A u \in Temps : t[u].st # "active"
    /\ o.ph # "idle" /\ o.kind = "lease" => l.st # "none" /\ p.st # "open"

\* The response bytes and the owners of a lease, from its beginning to its finalization.
LeaseRules(l, t, h) ==
    /\ l.st = "none" => /\ l.body = 0 /\ l.resp = 0 /\ l.committed = 0 /\ ~l.slot /\ ~l.final
                        /\ l.owners = 0 /\ h = "none" /\ \A u \in Temps : t[u].st = "none"
    /\ \A u \in Temps : t[u].st # "active" => t[u].size = 0
    /\ l.resp = l.committed + SumFunctionOnSet(Sizes(t), Temps)
    /\ l.owners = Cardinality(Open(t)) + (IF h = "active" THEN 1 ELSE 0)
    /\ l.final => /\ l.st \in {"requested", "released"} /\ l.owners = 0
                  /\ l.body = 0 /\ l.resp = 0 /\ ~l.slot
    /\ l.st = "released" /\ ~l.final => l.owners > 0

LimitRules(r, p, l) ==
    r \notin ResourceOnly => p.bytes <= MaxBody /\ l.body + l.resp <= MaxRetained

\* A large body has a claim, and a claim a body.
ClaimRules(p, l) ==
    /\ p.slot => p.bytes > 0
    /\ l.slot => l.body > 0
    /\ LargeLimit # 0 /\ p.bytes + l.body > LargeThreshold => p.slot \/ l.slot

Owned(r, p, l, t, h, o) ==
    /\ p \in Pendings /\ l \in Leases /\ t \in Temporaries /\ h \in Deferrals /\ o \in Waits
    /\ PendingRules(p, l, t, o)
    /\ LeaseRules(l, t, h)
    /\ LimitRules(r, p, l)
    /\ ClaimRules(p, l)

Deferred(l) == l.st = "released" /\ ~l.final

\* What a request takes from the memory that is not set aside for small bodies.
LargeShare(p, l) == LET b == p.bytes + l.body IN IF SmallLane(b) THEN 0 ELSE b

Totals ==
    /\ ctl.pending = SumFunctionOnSet([r \in Requests |-> pend[r].bytes], Requests)
    /\ ctl.body = SumFunctionOnSet([r \in Requests |-> BodyOf(r)], Requests)
    /\ ctl.resp = SumFunctionOnSet([r \in Requests |-> lease[r].resp], Requests)
    /\ ctl.parent = ctl.body + ctl.resp

Members ==
    /\ ctl.holders = {r \in Requests : pend[r].slot \/ lease[r].slot}
    /\ ctl.deferred = {r \in Requests : Deferred(lease[r])}

LedgerInv ==
    /\ TypeOK
    /\ \A r \in Requests : Owned(r, pend[r], lease[r], temp[r], hold[r], op[r])
    /\ Totals
    /\ Members
    /\ ctl.body + ctl.resp <= Budget
    /\ LargeBodiesLeaveReserve
    /\ Cardinality(ctl.holders) <= LargeLimit

\* The counters follow when p and l take the place of request r's objects.
Charged(r, p, l) ==
    /\ ctl' \in Counters
    /\ ctl'.pending = ctl.pending - pend[r].bytes + p.bytes
    /\ ctl'.body = ctl.body - (pend[r].bytes + lease[r].body) + (p.bytes + l.body)
    /\ ctl'.resp = ctl.resp - lease[r].resp + l.resp
    /\ ctl'.parent = ctl'.body + ctl'.resp
    /\ ctl'.holders = IF p.slot \/ l.slot THEN ctl.holders \cup {r} ELSE ctl.holders \ {r}
    /\ ctl'.deferred = IF Deferred(l) THEN ctl.deferred \cup {r} ELSE ctl.deferred \ {r}

\* What a step of request r may take: a step that takes more stays within each limit.
WithinLimits(r, p, l) ==
    /\ \/ p.bytes + l.body + l.resp <= pend[r].bytes + lease[r].body + lease[r].resp
       \/ ctl'.body + ctl'.resp <= Budget
    /\ \/ LargeShare(p, l) <= LargeShare(pend[r], lease[r])
       \/ ctl'.body <= Budget - SmallReserve
    /\ \/ p.slot \/ l.slot => r \in ctl.holders
       \/ Cardinality(ctl.holders) < LargeLimit

-----------------------------------------------------------------------------
(* The ledger as a whole *)

LEMMA Constants ==
    /\ IsFiniteSet(Requests) /\ IsFiniteSet(Temps) /\ ResourceOnly \subseteq Requests
    /\ Queued \subseteq Requests /\ Deferring \subseteq Requests
    /\ BodyChunks \subseteq Nat /\ ResponseChunks \subseteq Nat
    /\ MaxBody \in Nat /\ MaxResponse \in Nat /\ MaxRetained \in Nat /\ Budget \in Nat
    /\ SmallThreshold \in Nat /\ SmallReserve \in Nat /\ LargeThreshold \in Nat
    /\ LargeLimit \in Nat /\ SmallReserve <= Budget /\ MaxBody <= MaxRetained
  BY MemoryAssumption, QueueAssumption, RetainedAssumption

\* One request's objects change, and the counters follow: the sums still agree.
LEMMA TotalsKept ==
    ASSUME LedgerInv, NEW r \in Requests, NEW p \in Pendings, NEW l \in Leases,
           pend' = [pend EXCEPT ![r] = p], lease' = [lease EXCEPT ![r] = l], Charged(r, p, l)
    PROVE  Totals'
  <1>1. /\ pend \in [Requests -> Pendings] /\ lease \in [Requests -> Leases]
        /\ ctl \in Counters /\ IsFiniteSet(Requests)
    BY Constants DEF LedgerInv, TypeOK
  <1> DEFINE f == [x \in Requests |-> pend[x].bytes]
             f2 == [x \in Requests |-> pend'[x].bytes]
             g == [x \in Requests |-> pend[x].bytes + lease[x].body]
             g2 == [x \in Requests |-> pend'[x].bytes + lease'[x].body]
             h == [x \in Requests |-> lease[x].resp]
             h2 == [x \in Requests |-> lease'[x].resp]
  <1>2. /\ \A x \in Requests : f[x] \in Nat /\ g[x] \in Nat /\ h[x] \in Nat
        /\ f[r] = pend[r].bytes /\ g[r] = pend[r].bytes + lease[r].body /\ h[r] = lease[r].resp
    BY <1>1 DEF Pendings, Leases
  <1>3. /\ f2[r] = p.bytes /\ g2[r] = p.bytes + l.body /\ h2[r] = l.resp
        /\ f2[r] \in Nat /\ g2[r] \in Nat /\ h2[r] \in Nat
    BY <1>1 DEF Pendings, Leases
  <1>4. \A x \in Requests : x # r => f2[x] = f[x] /\ g2[x] = g[x] /\ h2[x] = h[x]
    BY <1>1
  <1>5. /\ ctl.pending = SumFunctionOnSet(f, Requests) /\ ctl.body = SumFunctionOnSet(g, Requests)
        /\ ctl.resp = SumFunctionOnSet(h, Requests)
    BY DEF LedgerInv, Totals, BodyOf
  <1> HIDE DEF f, f2, g, g2, h, h2
  <1>6. SumFunctionOnSet(f2, Requests) = SumFunctionOnSet(f, Requests) - f[r] + f2[r]
    BY <1>1, <1>2, <1>3, <1>4, SumChanges
  <1>7. SumFunctionOnSet(g2, Requests) = SumFunctionOnSet(g, Requests) - g[r] + g2[r]
    BY <1>1, <1>2, <1>3, <1>4, SumChanges
  <1>8. SumFunctionOnSet(h2, Requests) = SumFunctionOnSet(h, Requests) - h[r] + h2[r]
    BY <1>1, <1>2, <1>3, <1>4, SumChanges
  <1>9. /\ ctl'.pending = SumFunctionOnSet(f2, Requests)
        /\ ctl'.body = SumFunctionOnSet(g2, Requests)
        /\ ctl'.resp = SumFunctionOnSet(h2, Requests)
        /\ ctl'.parent = ctl'.body + ctl'.resp
    BY <1>2, <1>3, <1>5, <1>6, <1>7, <1>8 DEF Charged
  <1> QED
    BY <1>9 DEF Totals, BodyOf, f2, g2, h2

LEMMA ShareIsNat ==
    ASSUME NEW p \in Pendings, NEW l \in Leases
    PROVE  /\ LargeShare(p, l) \in Nat /\ p.bytes + l.body \in Nat
           /\ LargeShare(p, l) <= p.bytes + l.body
  BY DEF LargeShare, Pendings, Leases

\* The large bodies take no more than before, or all bodies together leave the reserve.
LEMMA ReserveKept ==
    ASSUME LedgerInv, NEW r \in Requests, NEW p \in Pendings, NEW l \in Leases,
           pend' = [pend EXCEPT ![r] = p], lease' = [lease EXCEPT ![r] = l],
           Totals', ctl' \in Counters, WithinLimits(r, p, l)
    PROVE  LargeBodiesLeaveReserve'
  <1>1. /\ pend \in [Requests -> Pendings] /\ lease \in [Requests -> Leases]
        /\ ctl \in Counters /\ IsFiniteSet(Requests)
        /\ pend' \in [Requests -> Pendings] /\ lease' \in [Requests -> Leases]
    BY Constants DEF LedgerInv, TypeOK
  <1> DEFINE f == [x \in Requests |-> LargeShare(pend[x], lease[x])]
             f2 == [x \in Requests |-> LargeShare(pend'[x], lease'[x])]
             g2 == [x \in Requests |-> pend'[x].bytes + lease'[x].body]
  <1>2. \A x \in Requests : f[x] \in Nat
    BY <1>1, ShareIsNat
  <1>3. \A x \in Requests : f2[x] \in Nat /\ g2[x] \in Nat /\ f2[x] <= g2[x]
    BY <1>1, ShareIsNat
  <1>4. /\ f[r] = LargeShare(pend[r], lease[r]) /\ f2[r] = LargeShare(p, l)
        /\ \A x \in Requests : x # r => f2[x] = f[x]
    BY <1>1
  <1>5. SumFunctionOnSet(f, Requests) <= Budget - SmallReserve
    <2>1. f = [x \in Requests |-> IF SmallLane(BodyOf(x)) THEN 0 ELSE BodyOf(x)]
      BY DEF LargeShare, BodyOf
    <2> HIDE DEF f
    <2> QED
      BY <2>1 DEF LedgerInv, LargeBodiesLeaveReserve
  <1>6. SumFunctionOnSet(g2, Requests) = ctl'.body
    BY DEF Totals, BodyOf
  <1>7. f2 = [x \in Requests |-> IF SmallLane(BodyOf(x)') THEN 0 ELSE BodyOf(x)']
    BY DEF LargeShare, BodyOf
  <1> HIDE DEF f, f2, g2
  <1>8. SumFunctionOnSet(f2, Requests) <= Budget - SmallReserve
    <2>1. /\ SumFunctionOnSet(f, Requests) \in Nat /\ SumFunctionOnSet(f2, Requests) \in Nat
          /\ SumFunctionOnSet(g2, Requests) \in Nat
          /\ Budget - SmallReserve \in Int
      <3>1. SumFunctionOnSet(f, Requests) \in Nat
        BY <1>1, <1>2, SumIsNat
      <3>2. SumFunctionOnSet(f2, Requests) \in Nat
        BY <1>1, <1>3, SumIsNat
      <3>3. SumFunctionOnSet(g2, Requests) \in Nat
        BY <1>1, <1>3, SumIsNat
      <3> QED
        BY <3>1, <3>2, <3>3, Constants
    <2>2. SumFunctionOnSet(f2, Requests) <= SumFunctionOnSet(g2, Requests)
      BY <1>1, <1>3, SumAtMost
    <2>3. SumFunctionOnSet(f2, Requests) = SumFunctionOnSet(f, Requests) - f[r] + f2[r]
      BY <1>1, <1>2, <1>3, <1>4, SumChanges
    <2>4. CASE f2[r] <= f[r]
      <3>1. f[r] \in Nat /\ f2[r] \in Nat
        BY <1>2, <1>3
      <3> QED
        BY <1>5, <2>1, <2>3, <2>4, <3>1
    <2>5. CASE ctl'.body <= Budget - SmallReserve
      BY <1>6, <2>1, <2>2, <2>5
    <2> QED
      BY <1>4, <2>4, <2>5 DEF WithinLimits
  <1> QED
    BY <1>7, <1>8 DEF LargeBodiesLeaveReserve

\* A step of one request, when the counters follow it and the limits are kept.
LEMMA LedgerStep ==
    ASSUME LedgerInv, NEW r \in Requests, NEW p, NEW l, NEW t, NEW h, NEW o,
           pend' = [pend EXCEPT ![r] = p], lease' = [lease EXCEPT ![r] = l],
           temp' = [temp EXCEPT ![r] = t], hold' = [hold EXCEPT ![r] = h],
           op' = [op EXCEPT ![r] = o],
           Owned(r, p, l, t, h, o), Charged(r, p, l), WithinLimits(r, p, l)
    PROVE  LedgerInv'
  <1>1. TypeOK /\ TypeOK'
    BY DEF LedgerInv, TypeOK, Owned, Charged
  <1>2. ASSUME NEW x \in Requests
        PROVE  Owned(x, pend'[x], lease'[x], temp'[x], hold'[x], op'[x])
    <2>1. CASE x = r
      <3>1. /\ pend'[x] = p /\ lease'[x] = l /\ temp'[x] = t /\ hold'[x] = h /\ op'[x] = o
        BY <1>1, <2>1 DEF TypeOK
      <3> QED
        BY <2>1, <3>1
    <2>2. CASE x # r
      <3>1. /\ pend'[x] = pend[x] /\ lease'[x] = lease[x] /\ temp'[x] = temp[x]
            /\ hold'[x] = hold[x] /\ op'[x] = op[x]
        BY <1>1, <2>2 DEF TypeOK
      <3> QED
        BY <3>1 DEF LedgerInv
    <2> QED
      BY <2>1, <2>2
  <1>3. p \in Pendings /\ l \in Leases
    BY DEF Owned
  <1>4. Totals'
    BY <1>3, TotalsKept
  <1>5. LargeBodiesLeaveReserve'
    BY <1>3, <1>4, ReserveKept DEF Charged
  <1>6. Members'
    BY <1>1 DEF LedgerInv, Members, Charged, TypeOK
  <1>7. (ctl.body + ctl.resp <= Budget)'
    BY <1>1, <1>3, Constants
    DEF LedgerInv, TypeOK, Counters, Charged, WithinLimits, Pendings, Leases
  <1>8. (Cardinality(ctl.holders) <= LargeLimit)'
    <2>1. IsFiniteSet(ctl.holders) /\ ctl.holders \subseteq Requests
      BY <1>1, Constants, FS_Subset DEF TypeOK, Counters
    <2>2. Cardinality(ctl.holders) \in Nat /\ Cardinality(ctl.holders) <= LargeLimit
      BY <2>1, FS_CardinalityType DEF LedgerInv
    <2>3. CASE p.slot \/ l.slot
      <3>1. ctl'.holders = ctl.holders \cup {r}
        BY <2>3 DEF Charged
      <3>2. CASE r \in ctl.holders
        BY <2>2, <3>1, <3>2
      <3>3. CASE r \notin ctl.holders
        <4>1. Cardinality(ctl.holders \cup {r}) = Cardinality(ctl.holders) + 1
          BY <2>1, <3>3, FS_AddElement
        <4>2. Cardinality(ctl.holders) < LargeLimit
          BY <2>3, <3>3 DEF WithinLimits
        <4> QED
          BY <2>2, <3>1, <4>1, <4>2, Constants
      <3> QED
        BY <3>2, <3>3
    <2>4. CASE ~(p.slot \/ l.slot)
      <3>1. ctl'.holders = ctl.holders \ {r}
        BY <2>4 DEF Charged
      <3>2. Cardinality(ctl.holders \ {r}) <= Cardinality(ctl.holders)
        BY <2>1, FS_Subset
      <3>3. Cardinality(ctl.holders \ {r}) \in Nat
        BY <2>1, FS_Subset, FS_CardinalityType
      <3> QED
        BY <2>2, <3>1, <3>2, <3>3, Constants
    <2> QED
      BY <2>3, <2>4
  <1> QED
    BY <1>1, <1>2, <1>4, <1>5, <1>6, <1>7, <1>8 DEF LedgerInv

-----------------------------------------------------------------------------
(* What is known of one request *)

LEMMA Mine ==
    ASSUME LedgerInv, NEW r \in Requests
    PROVE  /\ pend[r] \in Pendings /\ lease[r] \in Leases /\ temp[r] \in Temporaries
           /\ hold[r] \in Deferrals /\ op[r] \in Waits /\ ctl \in Counters
           /\ Owned(r, pend[r], lease[r], temp[r], hold[r], op[r])
           /\ PendingRules(pend[r], lease[r], temp[r], op[r])
           /\ LeaseRules(lease[r], temp[r], hold[r])
           /\ LimitRules(r, pend[r], lease[r]) /\ ClaimRules(pend[r], lease[r])
           /\ r \in ctl.holders <=> pend[r].slot \/ lease[r].slot
           /\ r \in ctl.deferred <=> Deferred(lease[r])
           /\ ctl.parent = ctl.body + ctl.resp /\ ctl.body + ctl.resp <= Budget
           /\ Cardinality(Open(temp[r])) \in Nat
           /\ SumFunctionOnSet(Sizes(temp[r]), Temps) \in Nat
  <1>1. /\ pend[r] \in Pendings /\ lease[r] \in Leases /\ temp[r] \in Temporaries
        /\ hold[r] \in Deferrals /\ op[r] \in Waits /\ ctl \in Counters
        /\ Owned(r, pend[r], lease[r], temp[r], hold[r], op[r])
        /\ PendingRules(pend[r], lease[r], temp[r], op[r])
        /\ LeaseRules(lease[r], temp[r], hold[r])
        /\ LimitRules(r, pend[r], lease[r]) /\ ClaimRules(pend[r], lease[r])
        /\ r \in ctl.holders <=> pend[r].slot \/ lease[r].slot
        /\ r \in ctl.deferred <=> Deferred(lease[r])
        /\ ctl.parent = ctl.body + ctl.resp /\ ctl.body + ctl.resp <= Budget
    BY DEF LedgerInv, TypeOK, Owned, Members, Totals
  <1>2. IsFiniteSet(Temps) /\ IsFiniteSet(Open(temp[r]))
    BY Constants, FS_Subset DEF Open
  <1>3. Cardinality(Open(temp[r])) \in Nat
    BY <1>2, FS_CardinalityType
  <1> DEFINE f == Sizes(temp[r])
  <1>4. \A u \in Temps : f[u] \in Nat
    BY <1>1 DEF Sizes, Temporaries
  <1> HIDE DEF f
  <1>5. SumFunctionOnSet(f, Temps) \in Nat
    BY <1>2, <1>4, SumIsNat
  <1> QED
    BY <1>1, <1>3, <1>5 DEF f

\* The counters are no less than what one request has in them.
LEMMA InCounters ==
    ASSUME LedgerInv, NEW r \in Requests
    PROVE  /\ ctl.body \in Nat /\ ctl.resp \in Nat /\ ctl.pending \in Nat
           /\ pend[r].bytes + lease[r].body <= ctl.body /\ lease[r].resp <= ctl.resp
           /\ pend[r].bytes <= ctl.pending
  <1>1. /\ pend \in [Requests -> Pendings] /\ lease \in [Requests -> Leases]
        /\ IsFiniteSet(Requests)
    BY Constants DEF LedgerInv, TypeOK
  <1> DEFINE f == [x \in Requests |-> pend[x].bytes]
             g == [x \in Requests |-> pend[x].bytes + lease[x].body]
             h == [x \in Requests |-> lease[x].resp]
  <1>2. /\ \A x \in Requests : f[x] \in Nat /\ g[x] \in Nat /\ h[x] \in Nat
        /\ f[r] = pend[r].bytes /\ g[r] = pend[r].bytes + lease[r].body /\ h[r] = lease[r].resp
    BY <1>1 DEF Pendings, Leases
  <1>3. /\ ctl.pending = SumFunctionOnSet(f, Requests) /\ ctl.body = SumFunctionOnSet(g, Requests)
        /\ ctl.resp = SumFunctionOnSet(h, Requests)
    BY DEF LedgerInv, Totals, BodyOf
  <1> HIDE DEF f, g, h
  <1>4. SumFunctionOnSet(f, Requests) \in Nat /\ f[r] <= SumFunctionOnSet(f, Requests)
    <2>1. SumFunctionOnSet(f, Requests) \in Nat
      BY <1>1, <1>2, SumIsNat
    <2> QED
      BY <1>1, <1>2, <2>1, SumSplit
  <1>5. SumFunctionOnSet(g, Requests) \in Nat /\ g[r] <= SumFunctionOnSet(g, Requests)
    <2>1. SumFunctionOnSet(g, Requests) \in Nat
      BY <1>1, <1>2, SumIsNat
    <2> QED
      BY <1>1, <1>2, <2>1, SumSplit
  <1>6. SumFunctionOnSet(h, Requests) \in Nat /\ h[r] <= SumFunctionOnSet(h, Requests)
    <2>1. SumFunctionOnSet(h, Requests) \in Nat
      BY <1>1, <1>2, SumIsNat
    <2> QED
      BY <1>1, <1>2, <2>1, SumSplit
  <1> QED
    BY <1>2, <1>3, <1>4, <1>5, <1>6

\* The functions of objects, and what an assignment to one request's makes of them.
LEMMA Objects ==
    LedgerInv => /\ pend \in [Requests -> Pendings] /\ lease \in [Requests -> Leases]
                 /\ temp \in [Requests -> Temporaries] /\ hold \in [Requests -> Deferrals]
                 /\ op \in [Requests -> Waits] /\ ctl \in Counters
  BY DEF LedgerInv, TypeOK

\* An object that is assigned to itself does not change.
LEMMA Unchanged ==
    ASSUME LedgerInv, NEW r \in Requests
    PROVE  /\ pend = [pend EXCEPT ![r] = pend[r]] /\ lease = [lease EXCEPT ![r] = lease[r]]
           /\ temp = [temp EXCEPT ![r] = temp[r]] /\ hold = [hold EXCEPT ![r] = hold[r]]
           /\ op = [op EXCEPT ![r] = op[r]]
  BY Objects

\* A step that moves no bytes and no claims.
LEMMA Uncharged ==
    ASSUME LedgerInv, NEW r \in Requests, NEW p \in Pendings, NEW l \in Leases, ctl' = ctl,
           p.bytes = pend[r].bytes, l.body = lease[r].body, l.resp = lease[r].resp,
           p.slot \/ l.slot <=> pend[r].slot \/ lease[r].slot,
           Deferred(l) <=> Deferred(lease[r])
    PROVE  Charged(r, p, l) /\ WithinLimits(r, p, l)
  <1>1. Charged(r, p, l)
    <2>1. /\ p.bytes \in Nat /\ l.body \in Nat /\ l.resp \in Nat
          /\ ctl.body \in Int /\ ctl.pending \in Int /\ ctl.resp \in Int
      BY Mine DEF Pendings, Leases, Counters
    <2>2. /\ ctl.parent = ctl.body + ctl.resp /\ ctl \in Counters
          /\ r \in ctl.holders <=> p.slot \/ l.slot
          /\ r \in ctl.deferred <=> Deferred(l)
      BY Mine
    <2>3. ctl.holders = IF p.slot \/ l.slot THEN ctl.holders \cup {r} ELSE ctl.holders \ {r}
      BY <2>2
    <2>4. ctl.deferred = IF Deferred(l) THEN ctl.deferred \cup {r} ELSE ctl.deferred \ {r}
      BY <2>2
    <2> QED
      BY <2>1, <2>2, <2>3, <2>4 DEF Charged
  <1>2. WithinLimits(r, p, l)
    <2>1. LargeShare(p, l) = LargeShare(pend[r], lease[r])
      BY DEF LargeShare
    <2>2. LargeShare(p, l) \in Nat
      BY ShareIsNat
    <2> QED
      BY <2>1, <2>2, Mine DEF WithinLimits, Pendings, Leases
  <1> QED
    BY <1>1, <1>2

\* One temporary reservation changes.
LEMMA TempChanges ==
    ASSUME NEW t \in Temporaries, NEW u \in Temps,
           NEW x \in [st : {"none", "active", "released", "committed"}, size : Nat]
    PROVE  LET t2 == [t EXCEPT ![u] = x]
           IN  /\ t2 \in Temporaries
               /\ SumFunctionOnSet(Sizes(t), Temps) \in Nat /\ Cardinality(Open(t)) \in Nat
               /\ t[u].size <= SumFunctionOnSet(Sizes(t), Temps)
               /\ t[u].st = "active" => Cardinality(Open(t)) > 0
               /\ SumFunctionOnSet(Sizes(t2), Temps)
                    = SumFunctionOnSet(Sizes(t), Temps) - t[u].size + x.size
               /\ Cardinality(Open(t2)) = Cardinality(Open(t))
                                            - (IF t[u].st = "active" THEN 1 ELSE 0)
                                            + (IF x.st = "active" THEN 1 ELSE 0)
  <1> DEFINE t2 == [t EXCEPT ![u] = x]
             f == Sizes(t)
             f2 == Sizes(t2)
  <1>1. t2 \in Temporaries /\ t2[u] = x /\ \A v \in Temps : v # u => t2[v] = t[v]
    BY DEF Temporaries
  <1> HIDE DEF t2
  <1>2. /\ \A v \in Temps : f[v] \in Nat /\ f[v] = t[v].size
        /\ f2[u] = x.size /\ f2[u] \in Nat
        /\ \A v \in Temps : v # u => f2[v] = f[v]
    BY <1>1 DEF Sizes, Temporaries
  <1>0. IsFiniteSet(Temps)
    BY Constants
  <1> HIDE DEF f, f2
  <1>3. SumFunctionOnSet(f2, Temps) = SumFunctionOnSet(f, Temps) - f[u] + f2[u]
    BY <1>0, <1>2, SumChanges
  <1>4. SumFunctionOnSet(f, Temps) \in Nat
    BY <1>0, <1>2, SumIsNat
  <1>5. f[u] <= SumFunctionOnSet(f, Temps)
    BY <1>0, <1>2, SumSplit
  <1>6. IsFiniteSet(Open(t)) /\ Cardinality(Open(t)) \in Nat
    BY <1>0, FS_Subset, FS_CardinalityType DEF Open
  <1>7. Open(t2) = (Open(t) \ {u}) \cup (IF x.st = "active" THEN {u} ELSE {})
    BY <1>1 DEF Open
  <1>8. u \in Open(t) <=> t[u].st = "active"
    BY DEF Open
  <1>9. /\ IsFiniteSet(Open(t) \ {u})
        /\ Cardinality(Open(t) \ {u}) = Cardinality(Open(t)) - (IF u \in Open(t) THEN 1 ELSE 0)
    BY <1>6, FS_RemoveElement
  <1>10. Cardinality(Open(t) \ {u}) \in Nat
    BY <1>9, FS_CardinalityType
  <1>11. Cardinality(Open(t2))
           = Cardinality(Open(t) \ {u}) + (IF x.st = "active" THEN 1 ELSE 0)
    <2>1. CASE x.st = "active"
      <3>1. Cardinality((Open(t) \ {u}) \cup {u}) = Cardinality(Open(t) \ {u}) + 1
        BY <1>9, FS_AddElement
      <3> QED
        BY <1>7, <2>1, <3>1
    <2>2. CASE x.st # "active"
      <3>1. Open(t2) = Open(t) \ {u}
        BY <1>7, <2>2
      <3> QED
        BY <1>10, <2>2, <3>1
    <2> QED
      BY <2>1, <2>2
  <1>12. t[u].st = "active" => Cardinality(Open(t)) > 0
    BY <1>6, <1>8, <1>9, <1>10
  <1>13. Cardinality(Open(t2)) = Cardinality(Open(t))
                                   - (IF t[u].st = "active" THEN 1 ELSE 0)
                                   + (IF x.st = "active" THEN 1 ELSE 0)
    BY <1>6, <1>8, <1>9, <1>10, <1>11
  <1>14. SumFunctionOnSet(f2, Temps) = SumFunctionOnSet(f, Temps) - t[u].size + x.size
    BY <1>2, <1>3
  <1>15. t[u].size <= SumFunctionOnSet(f, Temps)
    BY <1>2, <1>5
  <1> QED
    BY <1>1, <1>4, <1>6, <1>12, <1>13, <1>14, <1>15 DEF t2, f, f2

\* No temporary reservations, no sizes.
LEMMA NoTemps ==
    LET t == [u \in Temps |-> NoTemp]
    IN  /\ t \in Temporaries
        /\ SumFunctionOnSet(Sizes(t), Temps) = 0 /\ Cardinality(Open(t)) = 0
        /\ \A u \in Temps : t[u].st = "none" /\ t[u].size = 0
  <1> DEFINE t == [u \in Temps |-> NoTemp]
             f == Sizes(t)
  <1>1. /\ t \in Temporaries
        /\ \A u \in Temps : t[u].st = "none" /\ t[u].size = 0
    BY DEF Temporaries, NoTemp
  <1> HIDE DEF t
  <1>2. \A u \in Temps : f[u] = 0
    BY <1>1 DEF Sizes
  <1> HIDE DEF f
  <1>3. SumFunctionOnSet(f, Temps) = 0
    BY <1>2, Constants, SumOfZeros
  <1>4. Open(t) = {}
    BY <1>1 DEF Open
  <1>5. Cardinality(Open(t)) = 0
    BY <1>4, FS_EmptySet
  <1> QED
    BY <1>1, <1>3, <1>5 DEF t, f

-----------------------------------------------------------------------------
(* The objects of a request *)

LEMMA OpenPendingKeeps ==
    ASSUME LedgerInv, NEW r \in Requests, OpenPending(r) PROVE LedgerInv'
  <1> DEFINE p == [pend[r] EXCEPT !.st = "open"]
  <1>1. /\ pend[r].st = "none" /\ lease[r].st = "none" /\ ctl' = ctl
        /\ pend' = [pend EXCEPT ![r] = p] /\ UNCHANGED <<lease, temp, hold, op>>
    BY Objects DEF OpenPending
  <1>2. p \in Pendings /\ p.st = "open" /\ p.bytes = pend[r].bytes /\ p.slot = pend[r].slot
    BY Mine DEF Pendings
  <1> HIDE DEF p
  <1>3. Owned(r, p, lease[r], temp[r], hold[r], op[r])
    BY <1>1, <1>2, Mine DEF Owned, PendingRules, LeaseRules, LimitRules, ClaimRules
  <1>4. Charged(r, p, lease[r]) /\ WithinLimits(r, p, lease[r])
    BY <1>1, <1>2, Mine, Uncharged
  <1>5. /\ lease' = [lease EXCEPT ![r] = lease[r]] /\ temp' = [temp EXCEPT ![r] = temp[r]]
        /\ hold' = [hold EXCEPT ![r] = hold[r]] /\ op' = [op EXCEPT ![r] = op[r]]
    BY <1>1, Unchanged
  <1> QED
    BY <1>1, <1>3, <1>4, <1>5, LedgerStep

LEMMA OpenLeaseKeeps ==
    ASSUME LedgerInv, NEW r \in Requests, OpenLease(r) PROVE LedgerInv'
  <1> DEFINE l == [lease[r] EXCEPT !.st = "active"]
  <1>1. /\ lease[r].st = "none" /\ pend[r].st \in {"none", "open"} /\ ctl' = ctl
        /\ lease' = [lease EXCEPT ![r] = l] /\ UNCHANGED <<pend, temp, hold, op>>
    BY Objects DEF OpenLease
  <1>2. /\ l \in Leases /\ l.st = "active" /\ l.body = lease[r].body /\ l.resp = lease[r].resp
        /\ l.committed = lease[r].committed /\ l.owners = lease[r].owners
        /\ l.final = lease[r].final /\ l.slot = lease[r].slot
    BY Mine DEF Leases
  <1> HIDE DEF l
  <1>3. Owned(r, pend[r], l, temp[r], hold[r], op[r])
    BY <1>1, <1>2, Mine DEF Owned, PendingRules, LeaseRules, LimitRules, ClaimRules
  <1>4. Charged(r, pend[r], l) /\ WithinLimits(r, pend[r], l)
    BY <1>1, <1>2, Mine, Uncharged DEF Deferred
  <1>5. /\ pend' = [pend EXCEPT ![r] = pend[r]] /\ temp' = [temp EXCEPT ![r] = temp[r]]
        /\ hold' = [hold EXCEPT ![r] = hold[r]] /\ op' = [op EXCEPT ![r] = op[r]]
    BY <1>1, Unchanged
  <1> QED
    BY <1>1, <1>3, <1>4, <1>5, LedgerStep

\* The objects of a finished request are worth nothing.
LEMMA NewRequestKeeps ==
    ASSUME LedgerInv, NEW r \in Requests, NewRequest(r) PROVE LedgerInv'
  <1> DEFINE t == [u \in Temps |-> NoTemp]
  <1>1. /\ op[r].ph = "idle" /\ pend[r].st # "open" /\ ctl' = ctl
        /\ \/ lease[r].st = "released" /\ lease[r].final
           \/ lease[r].st = "none" /\ pend[r].st = "released"
        /\ pend' = [pend EXCEPT ![r] = NoPending] /\ lease' = [lease EXCEPT ![r] = NoLease]
        /\ temp' = [temp EXCEPT ![r] = t] /\ hold' = [hold EXCEPT ![r] = "none"]
        /\ op' = op
    BY DEF NewRequest, Finished
  <1>2. /\ NoPending \in Pendings /\ NoPending.st = "none" /\ NoPending.bytes = 0
        /\ NoPending.slot = FALSE
    BY DEF NoPending, Pendings
  <1>3. /\ NoLease \in Leases /\ NoLease.st = "none" /\ NoLease.body = 0 /\ NoLease.resp = 0
        /\ NoLease.committed = 0 /\ NoLease.owners = 0 /\ NoLease.final = FALSE
        /\ NoLease.slot = FALSE
    BY DEF NoLease, Leases
  <1>4. /\ t \in Temporaries
        /\ SumFunctionOnSet(Sizes(t), Temps) = 0 /\ Cardinality(Open(t)) = 0
        /\ \A u \in Temps : t[u].st = "none" /\ t[u].size = 0
    BY NoTemps
  <1> HIDE DEF t
  <1>5. Owned(r, NoPending, NoLease, t, "none", op[r])
    BY <1>1, <1>2, <1>3, <1>4, Mine, Constants
    DEF Owned, PendingRules, LeaseRules, LimitRules, ClaimRules, Deferrals
  <1>6. Charged(r, NoPending, NoLease) /\ WithinLimits(r, NoPending, NoLease)
    <2>1. /\ pend[r].bytes = 0 /\ ~pend[r].slot /\ lease[r].body = 0 /\ lease[r].resp = 0
          /\ ~lease[r].slot /\ ~Deferred(lease[r])
      BY <1>1, Mine DEF PendingRules, LeaseRules, Deferred
    <2> QED
      BY <1>1, <1>2, <1>3, <2>1, Uncharged DEF Deferred
  <1>7. op' = [op EXCEPT ![r] = op[r]]
    BY <1>1, Unchanged
  <1> QED
    BY <1>1, <1>5, <1>6, <1>7, LedgerStep

LEMMA DeferKeeps ==
    ASSUME LedgerInv, NEW r \in Requests, Defer(r) PROVE LedgerInv'
  <1> DEFINE l == [lease[r] EXCEPT !.owners = @ + 1]
  <1>1. /\ lease[r].st = "active" /\ pend[r].st # "open" /\ ctl' = ctl /\ hold[r] = "none"
        /\ hold' = [hold EXCEPT ![r] = "active"]
        /\ lease' = [lease EXCEPT ![r] = l] /\ UNCHANGED <<pend, temp, op>>
    BY Objects DEF Defer, InUse
  <1>2. /\ l \in Leases /\ l.st = "active" /\ l.body = lease[r].body /\ l.resp = lease[r].resp
        /\ l.committed = lease[r].committed /\ l.owners = lease[r].owners + 1
        /\ l.final = lease[r].final /\ l.slot = lease[r].slot
    BY <1>1, Mine DEF Leases
  <1> HIDE DEF l
  <1>3. Owned(r, pend[r], l, temp[r], "active", op[r])
    <2>1. /\ lease[r].owners = Cardinality(Open(temp[r])) /\ ~lease[r].final
          /\ Cardinality(Open(temp[r])) \in Nat
      BY <1>1, Mine DEF LeaseRules
    <2>2. LeaseRules(l, temp[r], "active")
      BY <1>1, <1>2, <2>1, Mine DEF LeaseRules
    <2> QED
      BY <1>1, <1>2, <2>2, Mine DEF Owned, PendingRules, LimitRules, ClaimRules, Deferrals
  <1>4. Charged(r, pend[r], l) /\ WithinLimits(r, pend[r], l)
    BY <1>1, <1>2, Mine, Uncharged DEF Deferred
  <1>5. /\ pend' = [pend EXCEPT ![r] = pend[r]] /\ temp' = [temp EXCEPT ![r] = temp[r]]
        /\ op' = [op EXCEPT ![r] = op[r]]
    BY <1>1, Unchanged
  <1> QED
    BY <1>1, <1>3, <1>4, <1>5, LedgerStep

LEMMA ReleaseKeeps ==
    ASSUME LedgerInv, NEW r \in Requests, Release(r) PROVE LedgerInv'
  <1> DEFINE l == [lease[r] EXCEPT !.st = "requested"]
  <1>1. /\ lease[r].st = "active" /\ ctl' = ctl
        /\ lease' = [lease EXCEPT ![r] = l] /\ UNCHANGED <<pend, temp, hold, op>>
    BY Objects DEF Release
  <1>2. /\ l \in Leases /\ l.st = "requested" /\ l.body = lease[r].body /\ l.resp = lease[r].resp
        /\ l.committed = lease[r].committed /\ l.owners = lease[r].owners
        /\ l.final = lease[r].final /\ l.slot = lease[r].slot
    BY Mine DEF Leases
  <1> HIDE DEF l
  <1>3. Owned(r, pend[r], l, temp[r], hold[r], op[r])
    <2>1. LeaseRules(l, temp[r], hold[r])
      BY <1>1, <1>2, Mine DEF LeaseRules
    <2> QED
      BY <1>1, <1>2, <2>1, Mine DEF Owned, PendingRules, LimitRules, ClaimRules
  <1>4. Charged(r, pend[r], l) /\ WithinLimits(r, pend[r], l)
    BY <1>1, <1>2, Mine, Uncharged DEF Deferred
  <1>5. /\ pend' = [pend EXCEPT ![r] = pend[r]] /\ temp' = [temp EXCEPT ![r] = temp[r]]
        /\ hold' = [hold EXCEPT ![r] = hold[r]] /\ op' = [op EXCEPT ![r] = op[r]]
    BY <1>1, Unchanged
  <1> QED
    BY <1>1, <1>3, <1>4, <1>5, LedgerStep

-----------------------------------------------------------------------------
(* Body bytes *)

\* A reservation that waits, or stops waiting, moves nothing.
LEMMA WaitKeeps ==
    ASSUME LedgerInv, NEW r \in Requests, NEW o \in Waits,
           o.ph # "idle" /\ o.kind = "lease" => lease[r].st # "none" /\ pend[r].st # "open",
           op' = [op EXCEPT ![r] = o], UNCHANGED <<ctl, pend, lease, temp, hold>>
    PROVE  LedgerInv'
  <1>1. Owned(r, pend[r], lease[r], temp[r], hold[r], o)
    BY Mine DEF Owned, PendingRules
  <1>2. Charged(r, pend[r], lease[r]) /\ WithinLimits(r, pend[r], lease[r])
    BY Mine, Uncharged
  <1>3. /\ pend' = [pend EXCEPT ![r] = pend[r]] /\ lease' = [lease EXCEPT ![r] = lease[r]]
        /\ temp' = [temp EXCEPT ![r] = temp[r]] /\ hold' = [hold EXCEPT ![r] = hold[r]]
    BY Unchanged
  <1> QED
    BY <1>1, <1>2, <1>3, LedgerStep

LEMMA NoOpIsIdle == NoOp \in Waits /\ NoOp.ph = "idle"
  BY DEF NoOp, Waits, Kinds, Lanes

\* _commit_body_owner_locked, after the tests: one owner takes the bytes and, if it needs one
\* now, a claim.
LEMMA CommitKeeps ==
    ASSUME LedgerInv, NEW r \in Requests, NEW k \in Kinds, NEW n \in Nat,
           OwnerActive(r, k), WithinHardLimits(r, k, OwnerBytes(r, k) + n),
           k = "lease" => pend[r].st # "open",
           ~Unavailable(r, k, n), CommitBody(r, k, n), EndOp(r), UNCHANGED <<temp, hold>>
    PROVE  LedgerInv' /\ ctl'.body + ctl'.resp = ctl.body + ctl.resp + n
  <1> DEFINE claims == NeedsSlot(r, k, OwnerBytes(r, k) + n)
             b == pend[r].slot \/ claims
             c == lease[r].slot \/ claims
             p == IF k = "pending" THEN [pend[r] EXCEPT !.bytes = @ + n, !.slot = b] ELSE pend[r]
             l == IF k = "lease" THEN [lease[r] EXCEPT !.body = @ + n, !.slot = c] ELSE lease[r]
  <1>k. k = "pending" \/ k = "lease"
    BY DEF Kinds
  <1>b. claims \in BOOLEAN /\ b \in BOOLEAN /\ c \in BOOLEAN
    BY DEF NeedsSlot
  <1>1. pend' = [pend EXCEPT ![r] = p] /\ lease' = [lease EXCEPT ![r] = l]
    <2>1. CASE k = "pending"
      <3>1. /\ pend' = [pend EXCEPT ![r].bytes = @ + n, ![r].slot = @ \/ claims]
            /\ lease' = lease
        BY <2>1 DEF CommitBody
      <3>2. pend' = [pend EXCEPT ![r] = p]
        BY <2>1, <3>1, Objects
      <3> QED
        BY <2>1, <3>1, <3>2, Unchanged
    <2>2. CASE k = "lease"
      <3>1. /\ lease' = [lease EXCEPT ![r].body = @ + n, ![r].slot = @ \/ claims]
            /\ pend' = pend
        BY <2>2 DEF CommitBody
      <3>2. lease' = [lease EXCEPT ![r] = l]
        BY <2>2, <3>1, Objects
      <3> QED
        BY <2>2, <3>1, <3>2, Unchanged
    <2> QED
      BY <1>k, <2>1, <2>2
  <1>2. /\ ctl' = [ctl EXCEPT !.body = @ + n, !.parent = @ + n,
                              !.pending = IF k = "pending" THEN @ + n ELSE @,
                              !.holders = IF claims THEN @ \cup {r} ELSE @]
        /\ op' = [op EXCEPT ![r] = NoOp]
    BY DEF CommitBody, EndOp
  <1>c. (b <=> pend[r].slot \/ claims) /\ (c <=> lease[r].slot \/ claims)
    OBVIOUS
  <1> HIDE DEF claims, b, c
  <1>3. /\ p \in Pendings /\ p.st = pend[r].st
        /\ p.bytes = pend[r].bytes + (IF k = "pending" THEN n ELSE 0)
        /\ p.slot <=> pend[r].slot \/ (k = "pending" /\ claims)
    <2>1. pend[r] \in Pendings
      BY Mine
    <2>2. CASE k = "pending"
      <3> DEFINE p1 == [pend[r] EXCEPT !.bytes = @ + n]
      <3>1. p1 \in Pendings /\ p1.st = pend[r].st /\ p1.bytes = pend[r].bytes + n
        BY <2>1 DEF Pendings
      <3>2. p = [p1 EXCEPT !.slot = b]
        BY <2>1, <2>2 DEF Pendings
      <3> HIDE DEF p1, p
      <3>3. p \in Pendings /\ p.st = p1.st /\ p.bytes = p1.bytes /\ p.slot = b
        BY <1>b, <3>1, <3>2 DEF Pendings
      <3> QED
        BY <1>c, <2>2, <3>1, <3>3
    <2>3. CASE k = "lease"
      BY <2>1, <2>3 DEF Pendings
    <2> QED
      BY <1>k, <2>2, <2>3
  <1>4. /\ l \in Leases /\ l.st = lease[r].st /\ l.resp = lease[r].resp
        /\ l.committed = lease[r].committed /\ l.owners = lease[r].owners
        /\ l.final = lease[r].final
        /\ l.body = lease[r].body + (IF k = "lease" THEN n ELSE 0)
        /\ l.slot <=> lease[r].slot \/ (k = "lease" /\ claims)
    <2>1. lease[r] \in Leases
      BY Mine
    <2>2. CASE k = "lease"
      <3> DEFINE l1 == [lease[r] EXCEPT !.body = @ + n]
      <3>1. /\ l1 \in Leases /\ l1.st = lease[r].st /\ l1.resp = lease[r].resp
            /\ l1.committed = lease[r].committed /\ l1.owners = lease[r].owners
            /\ l1.final = lease[r].final /\ l1.body = lease[r].body + n
        BY <2>1 DEF Leases
      <3>2. l = [l1 EXCEPT !.slot = c]
        BY <2>1, <2>2 DEF Leases
      <3> HIDE DEF l1, l
      <3>3. /\ l \in Leases /\ l.st = l1.st /\ l.resp = l1.resp
            /\ l.committed = l1.committed /\ l.owners = l1.owners
            /\ l.final = l1.final /\ l.body = l1.body /\ l.slot = c
        BY <1>b, <3>1, <3>2 DEF Leases
      <3> QED
        BY <1>c, <2>2, <3>1, <3>3
    <2>3. CASE k = "pending"
      BY <2>1, <2>3 DEF Leases
    <2> QED
      BY <1>k, <2>2, <2>3
  <1>5. /\ pend[r].bytes \in Nat /\ lease[r].body \in Nat /\ lease[r].resp \in Nat
        /\ ctl.body \in Int /\ ctl.resp \in Int /\ ctl.pending \in Int /\ ctl.parent \in Int
        /\ ctl.holders \in SUBSET Requests
    BY Mine DEF Pendings, Leases, Counters
  <1>6. /\ ctl' \in Counters /\ ctl'.body = ctl.body + n /\ ctl'.parent = ctl.parent + n
        /\ ctl'.pending = ctl.pending + (IF k = "pending" THEN n ELSE 0)
        /\ ctl'.resp = ctl.resp /\ ctl'.deferred = ctl.deferred
        /\ ctl'.holders = IF claims THEN ctl.holders \cup {r} ELSE ctl.holders
    <2>1. ctl \in Counters
      BY Mine
    <2> DEFINE hs == IF claims THEN ctl.holders \cup {r} ELSE ctl.holders
               ps == IF k = "pending" THEN ctl.pending + n ELSE ctl.pending
    <2>2. hs \in SUBSET Requests /\ ps \in Int
      BY <1>5
    <2>3. ctl' = [ctl EXCEPT !.body = @ + n, !.parent = @ + n, !.pending = ps, !.holders = hs]
      BY <1>2
    <2>4. ps = ctl.pending + (IF k = "pending" THEN n ELSE 0)
      BY <1>5
    <2> HIDE DEF hs, ps
    <2> DEFINE c0 == [ctl EXCEPT !.body = @ + n]
               c1 == [c0 EXCEPT !.parent = @ + n]
               c2 == [c1 EXCEPT !.pending = ps]
    <2>6. ctl' = [c2 EXCEPT !.holders = hs]
      BY <2>1, <2>3 DEF Counters
    <2>9. /\ c0 \in Counters /\ c0.body = ctl.body + n /\ c0.parent = ctl.parent
          /\ c0.resp = ctl.resp /\ c0.deferred = ctl.deferred
      BY <2>1 DEF Counters
    <2> HIDE DEF c0
    <2>5. /\ c1 \in Counters /\ c1.body = ctl.body + n /\ c1.parent = ctl.parent + n
          /\ c1.resp = ctl.resp /\ c1.deferred = ctl.deferred
      BY <2>9 DEF Counters
    <2> HIDE DEF c1
    <2>7. /\ c2 \in Counters /\ c2.body = c1.body /\ c2.parent = c1.parent
          /\ c2.resp = c1.resp /\ c2.deferred = c1.deferred /\ c2.pending = ps
      BY <2>2, <2>5 DEF Counters
    <2> HIDE DEF c2
    <2>8. /\ ctl' \in Counters /\ ctl'.body = c2.body /\ ctl'.parent = c2.parent
          /\ ctl'.resp = c2.resp /\ ctl'.deferred = c2.deferred /\ ctl'.pending = c2.pending
          /\ ctl'.holders = hs
      BY <2>2, <2>6, <2>7 DEF Counters
    <2> QED
      BY <2>4, <2>5, <2>7, <2>8 DEF hs
  \* Only one of the two owners has bytes.
  <1>7. /\ k = "pending" => /\ pend[r].st = "open" /\ lease[r].body = 0 /\ lease[r].resp = 0
                            /\ ~lease[r].slot
        /\ k = "lease" => lease[r].st = "active" /\ pend[r].bytes = 0 /\ ~pend[r].slot
    BY Mine DEF OwnerActive, PendingRules
  <1>8. /\ OwnerBytes(r, k) + n = p.bytes + l.body
        /\ OwnerBytes(r, k) = IF k = "pending" THEN pend[r].bytes ELSE lease[r].body
        /\ OwnerSlot(r, k) = IF k = "pending" THEN pend[r].slot ELSE lease[r].slot
    BY <1>k, <1>3, <1>4, <1>5, <1>7 DEF OwnerBytes, OwnerSlot
  <1>9. claims <=> LargeLimit # 0 /\ ~OwnerSlot(r, k) /\ p.bytes + l.body > LargeThreshold
    BY <1>8 DEF NeedsSlot, claims
  <1>10. /\ ctl.body + ctl.resp + n <= LaneBudget(SmallLane(p.bytes + l.body))
         /\ claims => Cardinality(ctl.holders) < LargeLimit
    <2>1. /\ ctl.body + ctl.resp + n <= LaneBudget(SmallLane(p.bytes + l.body))
          /\ ~(claims /\ Cardinality(ctl.holders) >= LargeLimit)
      <3>1. LaneBudget(SmallLane(p.bytes + l.body)) \in Int
        BY Constants DEF LaneBudget
      <3>2. ~(ctl.body + ctl.resp + n > LaneBudget(SmallLane(p.bytes + l.body)))
        BY <1>8 DEF Unavailable
      <3>3. ~(claims /\ Cardinality(ctl.holders) >= LargeLimit)
        BY DEF Unavailable, claims
      <3> QED
        BY <1>5, <3>1, <3>2, <3>3
    <2>2. Cardinality(ctl.holders) \in Nat
      BY <1>5, Constants, FS_Subset, FS_CardinalityType
    <2> QED
      BY <2>1, <2>2, Constants
  <1>11. r \notin ResourceOnly => /\ p.bytes + l.body <= MaxBody
                                  /\ k = "lease" => p.bytes + l.body + l.resp <= MaxRetained
    BY <1>4, <1>8 DEF WithinHardLimits
  <1> HIDE DEF p, l
  <1>12. Owned(r, p, l, temp[r], hold[r], NoOp)
    <2>1. PendingRules(p, l, temp[r], NoOp)
      BY <1>k, <1>3, <1>4, <1>7, Mine, NoOpIsIdle DEF PendingRules
    <2>2. LeaseRules(l, temp[r], hold[r])
      BY <1>k, <1>3, <1>4, <1>7, Mine DEF LeaseRules
    <2>3. LimitRules(r, p, l)
      <3>1. p.bytes \in Nat /\ l.body \in Nat /\ l.resp \in Nat
        BY <1>3, <1>4 DEF Pendings, Leases
      <3> QED
        BY <1>k, <1>3, <1>4, <1>5, <1>7, <1>11, <3>1, Mine, Constants DEF LimitRules
    <2>4. ClaimRules(p, l)
      <3>1. LargeThreshold \in Nat /\ ClaimRules(pend[r], lease[r])
            /\ p.bytes \in Nat /\ l.body \in Nat
        BY <1>3, <1>4, Constants, Mine DEF Pendings, Leases
      <3>2. CASE k = "pending"
        <4>1. /\ p.bytes = pend[r].bytes + n /\ l.body = 0 /\ ~l.slot
              /\ p.slot <=> pend[r].slot \/ claims
              /\ claims <=> LargeLimit # 0 /\ ~pend[r].slot /\ p.bytes + l.body > LargeThreshold
          BY <1>3, <1>4, <1>7, <1>8, <1>9, <3>2
        <4> QED
          BY ONLY <1>5, <3>1, <4>1, n \in Nat DEF ClaimRules
      <3>3. CASE k = "lease"
        <4>1. /\ l.body = lease[r].body + n /\ p.bytes = 0 /\ ~p.slot
              /\ l.slot <=> lease[r].slot \/ claims
              /\ claims <=> LargeLimit # 0 /\ ~lease[r].slot /\ p.bytes + l.body > LargeThreshold
          BY <1>3, <1>4, <1>7, <1>8, <1>9, <3>3
        <4> QED
          BY ONLY <1>5, <3>1, <4>1, n \in Nat DEF ClaimRules
      <3> QED
        BY <1>k, <3>2, <3>3
    <2> QED
      BY <1>3, <1>4, <2>1, <2>2, <2>3, <2>4, Mine, NoOpIsIdle DEF Owned
  <1>13. Charged(r, p, l)
    <2>1. ctl'.holders = IF p.slot \/ l.slot THEN ctl.holders \cup {r} ELSE ctl.holders \ {r}
      BY <1>k, <1>3, <1>4, <1>6, Mine
    <2>2. ctl'.deferred = IF Deferred(l) THEN ctl.deferred \cup {r} ELSE ctl.deferred \ {r}
      BY <1>4, <1>6, Mine DEF Deferred
    <2>3. /\ ctl'.pending = ctl.pending - pend[r].bytes + p.bytes
          /\ ctl'.body = ctl.body - (pend[r].bytes + lease[r].body) + (p.bytes + l.body)
          /\ ctl'.resp = ctl.resp - lease[r].resp + l.resp
          /\ ctl'.parent = ctl'.body + ctl'.resp
      BY <1>k, <1>3, <1>4, <1>5, <1>6, Mine
    <2> QED
      BY <1>6, <2>1, <2>2, <2>3 DEF Charged
  <1>14. WithinLimits(r, p, l)
    <2>1. ctl'.body + ctl'.resp <= Budget
      BY <1>5, <1>6, <1>10, Constants DEF LaneBudget
    <2>2. \/ LargeShare(p, l) <= LargeShare(pend[r], lease[r])
          \/ ctl'.body <= Budget - SmallReserve
      <3>1. CASE SmallLane(p.bytes + l.body)
        <4>1. LargeShare(p, l) = 0
          BY <3>1 DEF LargeShare
        <4>2. LargeShare(pend[r], lease[r]) \in Nat
          BY Mine, ShareIsNat
        <4> QED
          BY <4>1, <4>2
      <3>2. CASE ~SmallLane(p.bytes + l.body)
        <4>1. ctl.body + n + ctl.resp <= Budget - SmallReserve
          BY <1>5, <1>10, <3>2, Constants DEF LaneBudget
        <4>2. ctl.resp >= 0
          BY InCounters
        <4> QED
          BY <1>5, <1>6, <4>1, <4>2, Constants
      <3> QED
        BY <3>1, <3>2
    <2>3. \/ p.slot \/ l.slot => r \in ctl.holders
          \/ Cardinality(ctl.holders) < LargeLimit
      BY <1>3, <1>4, <1>10, Mine
    <2> QED
      BY <2>1, <2>2, <2>3 DEF WithinLimits
  <1>15. temp' = [temp EXCEPT ![r] = temp[r]] /\ hold' = [hold EXCEPT ![r] = hold[r]]
    BY Unchanged
  <1>16. LedgerInv'
    BY <1>1, <1>2, <1>12, <1>13, <1>14, <1>15, LedgerStep
  <1> QED
    BY <1>5, <1>6, <1>16

\* A reservation that waits for the memory keeps its kind, or is over.
LEMMA RetryKeeps ==
    ASSUME LedgerInv, NEW r \in Requests, NEW ph \in {"waiting", "turn", "retry"},
           op[r].ph # "idle", op' = [op EXCEPT ![r].ph = ph],
           UNCHANGED <<ctl, pend, lease, temp, hold>>
    PROVE  LedgerInv'
  <1> DEFINE o == [op[r] EXCEPT !.ph = ph]
  <1>1. o \in Waits /\ o.kind = op[r].kind
    BY Mine DEF Waits
  <1>2. op' = [op EXCEPT ![r] = o]
    BY Objects
  <1> HIDE DEF o
  <1>3. op[r].kind = "lease" => lease[r].st # "none" /\ pend[r].st # "open"
    BY Mine DEF PendingRules
  <1> QED
    BY <1>1, <1>2, <1>3, WaitKeeps

LEMMA EndOpKeeps ==
    ASSUME LedgerInv, NEW r \in Requests, EndOp(r), UNCHANGED <<ctl, pend, lease, temp, hold>>
    PROVE  LedgerInv'
  BY WaitKeeps, NoOpIsIdle DEF EndOp

LEMMA AttemptKeeps ==
    ASSUME LedgerInv, NEW r \in Requests, NEW k \in Kinds, NEW n \in Nat, Attempt(r, k, n),
           k = "lease" => lease[r].st # "none" /\ pend[r].st # "open"
    PROVE  LedgerInv'
  <1>1. UNCHANGED <<temp, hold>>
    BY DEF Attempt
  <1>2. CASE EndOp(r) /\ UNCHANGED <<ctl, pend, lease>>
    BY <1>1, <1>2, EndOpKeeps
  <1>3. CASE WaitForMemory(r, k, n) /\ UNCHANGED <<ctl, pend, lease>>
    <2> DEFINE small == SmallLane(OwnerBytes(r, k) + n)
               o == [ph |-> "waiting", kind |-> k, n |-> n, lane |-> small]
    <2>1. EndOp(r) \/ op' = [op EXCEPT ![r] = o]
      BY <1>3 DEF WaitForMemory
    <2>2. small \in BOOLEAN
      BY DEF SmallLane
    <2> HIDE DEF small
    <2>3. o \in Waits /\ o.kind = k
      BY <2>2 DEF Waits, Lanes
    <2> HIDE DEF o
    <2>4. CASE op' = [op EXCEPT ![r] = o]
      BY <1>1, <1>3, <2>3, <2>4, WaitKeeps
    <2> QED
      BY <1>1, <1>3, <2>1, <2>4, EndOpKeeps
  <1>4. CASE /\ OwnerActive(r, k) /\ WithinHardLimits(r, k, OwnerBytes(r, k) + n)
             /\ ~MustWait(r, k, n) /\ CommitBody(r, k, n) /\ EndOp(r)
    <2>1. ~Unavailable(r, k, n)
      BY <1>4 DEF MustWait
    <2> QED
      BY <1>1, <1>4, <2>1, CommitKeeps
  <1> QED
    BY <1>2, <1>3, <1>4 DEF Attempt

LEMMA ReserveKeeps ==
    ASSUME LedgerInv, NEW r \in Requests, NEW k \in Kinds, NEW n \in BodyChunks, Reserve(r, k, n)
    PROVE  LedgerInv'
  <1>1. n \in Nat
    BY Constants
  <1>2. k = "lease" => lease[r].st # "none" /\ pend[r].st # "open"
    BY DEF Reserve, InUse
  <1> QED
    BY <1>1, <1>2, AttemptKeeps DEF Reserve

LEMMA RetryAttemptKeeps ==
    ASSUME LedgerInv, NEW r \in Requests, Retry(r) PROVE LedgerInv'
  <1>1. op[r].kind \in Kinds /\ op[r].n \in Nat
    BY Mine DEF Waits
  <1>2. op[r].kind = "lease" => lease[r].st # "none" /\ pend[r].st # "open"
    BY Mine DEF PendingRules, Retry
  <1> QED
    BY <1>1, <1>2, AttemptKeeps DEF Retry

LEMMA TurnKeeps ==
    ASSUME LedgerInv, NEW r \in Requests,
           TurnResumes(r) \/ WaitAbandoned(r) \/ TurnAbandoned(r)
    PROVE  LedgerInv'
  <1>1. CASE TurnResumes(r)
    BY <1>1, RetryKeeps DEF TurnResumes
  <1>2. CASE WaitAbandoned(r)
    BY <1>2, EndOpKeeps DEF WaitAbandoned
  <1>3. CASE TurnAbandoned(r)
    BY <1>3, EndOpKeeps DEF TurnAbandoned
  <1> QED
    BY <1>1, <1>2, <1>3

LEMMA CommitAfterWaitTurnKeeps ==
    ASSUME LedgerInv, NEW r \in Requests, CommitAfterWaitTurn(r) PROVE LedgerInv'
  <1> DEFINE k == op[r].kind
             n == op[r].n
  <1>1. op[r].ph = "turn" /\ UNCHANGED <<temp, hold>>
    BY DEF CommitAfterWaitTurn
  <1>2. k \in Kinds /\ n \in Nat
    BY Mine DEF Waits
  <1>3. k = "lease" => pend[r].st # "open"
    BY <1>1, Mine DEF PendingRules
  <1>4. CASE EndOp(r) /\ UNCHANGED <<ctl, pend, lease>>
    BY <1>1, <1>4, EndOpKeeps
  <1>5. CASE op' = [op EXCEPT ![r].ph = "retry"] /\ UNCHANGED <<ctl, pend, lease>>
    BY <1>1, <1>5, RetryKeeps
  <1>6. CASE /\ OwnerActive(r, k) /\ WithinHardLimits(r, k, OwnerBytes(r, k) + n)
             /\ ~Unavailable(r, k, n) /\ CommitBody(r, k, n) /\ EndOp(r)
    <2> HIDE DEF k, n
    <2> QED
      BY <1>1, <1>2, <1>3, <1>6, CommitKeeps
  <1> QED
    BY <1>4, <1>5, <1>6 DEF CommitAfterWaitTurn

\* The body and the claim of a lease are set together.
WithBody(l, n, b) == [l EXCEPT !.body = n, !.slot = b]

LEMMA BodySet ==
    ASSUME NEW l \in Leases, NEW n \in Nat, NEW b \in BOOLEAN, NEW m, m = WithBody(l, n, b)
    PROVE  /\ m \in Leases /\ m.st = l.st /\ m.resp = l.resp /\ m.committed = l.committed
           /\ m.owners = l.owners /\ m.final = l.final /\ m.body = n /\ m.slot = b
  <1> DEFINE l1 == [l EXCEPT !.body = n]
  <1>1. /\ l1 \in Leases /\ l1.st = l.st /\ l1.resp = l.resp /\ l1.committed = l.committed
        /\ l1.owners = l.owners /\ l1.final = l.final /\ l1.body = n
    BY DEF Leases
  <1>2. m = [l1 EXCEPT !.slot = b]
    BY DEF Leases, WithBody
  <1> HIDE DEF l1
  <1>3. /\ m \in Leases /\ m.st = l1.st /\ m.resp = l1.resp /\ m.committed = l1.committed
        /\ m.owners = l1.owners /\ m.final = l1.final /\ m.body = l1.body /\ m.slot = b
    BY ONLY <1>1, <1>2, b \in BOOLEAN DEF Leases
  <1> QED
    BY <1>1, <1>3

\* The counters of the body, of all bytes and of the claims are set together.
WithCounts(c, n, q, g, hs) ==
    [c EXCEPT !.body = n, !.parent = q, !.pending = g, !.holders = hs]

LEMMA BodyCounted ==
    ASSUME NEW c \in Counters, NEW n \in Int, NEW q \in Int, NEW g \in Int,
           NEW hs \in SUBSET Requests, NEW d, d = WithCounts(c, n, q, g, hs)
    PROVE  /\ d \in Counters /\ d.body = n /\ d.parent = q /\ d.pending = g
           /\ d.holders = hs /\ d.resp = c.resp /\ d.deferred = c.deferred
  <1> DEFINE c1 == [c EXCEPT !.body = n]
             c2 == [c1 EXCEPT !.parent = q]
             c3 == [c2 EXCEPT !.pending = g]
  <1>1. d = [c3 EXCEPT !.holders = hs]
    BY DEF Counters, WithCounts
  <1>2. c1 \in Counters /\ c1.body = n /\ c1.resp = c.resp /\ c1.deferred = c.deferred
    BY DEF Counters
  <1> HIDE DEF c1
  <1>3. /\ c2 \in Counters /\ c2.body = n /\ c2.parent = q
        /\ c2.resp = c.resp /\ c2.deferred = c.deferred
    BY <1>2 DEF Counters
  <1> HIDE DEF c2
  <1>4. /\ c3 \in Counters /\ c3.body = n /\ c3.parent = q /\ c3.pending = g
        /\ c3.resp = c.resp /\ c3.deferred = c.deferred
    BY <1>3 DEF Counters
  <1> HIDE DEF c3
  <1>5. /\ d \in Counters /\ d.body = n /\ d.parent = q /\ d.pending = g /\ d.holders = hs
        /\ d.resp = c.resp /\ d.deferred = c.deferred
    BY ONLY <1>1, <1>4, hs \in SUBSET Requests DEF Counters
  <1> QED
    BY <1>5

LEMMA TransferKeeps ==
    ASSUME LedgerInv, NEW r \in Requests, Transfer(r) PROVE LedgerInv'
  <1> DEFINE p == [st |-> "transferred", bytes |-> 0, slot |-> FALSE]
             n == lease[r].body + pend[r].bytes
             b == lease[r].slot \/ pend[r].slot
             l == [lease[r] EXCEPT !.body = n, !.slot = b]
  <1>1. /\ pend[r].st = "open" /\ op[r].ph = "idle" /\ lease[r].st = "active"
        /\ ctl' = [ctl EXCEPT !.pending = @ - pend[r].bytes]
        /\ pend' = [pend EXCEPT ![r] = p] /\ UNCHANGED <<temp, hold, op>>
    BY DEF Transfer
  <1>2. lease' = [lease EXCEPT ![r] = l]
    BY Objects DEF Transfer
  <1>3. n \in Nat /\ b \in BOOLEAN /\ (b <=> lease[r].slot \/ pend[r].slot)
    BY Mine DEF Pendings, Leases
  <1>4. lease[r].body = 0 /\ lease[r].resp = 0 /\ ~lease[r].slot /\ ~lease[r].final
    BY <1>1, Mine DEF PendingRules, LeaseRules
  <1> HIDE DEF b
  <1>5. /\ l \in Leases /\ l.st = lease[r].st /\ l.resp = lease[r].resp
        /\ l.committed = lease[r].committed /\ l.owners = lease[r].owners
        /\ l.final = lease[r].final /\ l.body = pend[r].bytes /\ l.slot = b
    <2>1. lease[r] \in Leases /\ n = pend[r].bytes /\ n \in Nat
      BY <1>4, Mine DEF Pendings
    <2>2. l = WithBody(lease[r], n, b)
      BY DEF WithBody
    <2> HIDE DEF n, l
    <2>3. /\ l \in Leases /\ l.st = lease[r].st /\ l.resp = lease[r].resp
          /\ l.committed = lease[r].committed /\ l.owners = lease[r].owners
          /\ l.final = lease[r].final /\ l.body = n /\ l.slot = b
      BY ONLY <1>3, <2>1, <2>2, BodySet
    <2> QED
      BY <2>1, <2>3
  <1> HIDE DEF l
  <1>6. p \in Pendings /\ p.st = "transferred" /\ p.bytes = 0 /\ p.slot = FALSE
    BY DEF Pendings
  <1> HIDE DEF p
  <1>7. /\ pend[r].bytes \in Nat /\ ctl.pending \in Int /\ ctl.body \in Int /\ ctl.resp \in Int
    BY Mine DEF Pendings, Counters
  <1>8. /\ ctl' \in Counters /\ ctl'.pending = ctl.pending - pend[r].bytes
        /\ ctl'.body = ctl.body /\ ctl'.resp = ctl.resp /\ ctl'.parent = ctl.parent
        /\ ctl'.holders = ctl.holders /\ ctl'.deferred = ctl.deferred
    BY <1>1, <1>7, Mine DEF Counters
  <1>9. Owned(r, p, l, temp[r], hold[r], op[r])
    <2>1. PendingRules(p, l, temp[r], op[r])
      BY <1>1, <1>6 DEF PendingRules
    <2>2. LeaseRules(l, temp[r], hold[r])
      BY <1>1, <1>4, <1>5, Mine DEF LeaseRules
    <2>3. LimitRules(r, p, l)
      BY <1>4, <1>5, <1>6, <1>7, Mine, Constants DEF LimitRules
    <2>4. ClaimRules(p, l)
      BY <1>3, <1>4, <1>5, <1>6, <1>7, Mine DEF ClaimRules
    <2> QED
      BY <1>5, <1>6, <2>1, <2>2, <2>3, <2>4, Mine DEF Owned
  <1>10. Charged(r, p, l)
    <2>1. ctl'.holders = IF p.slot \/ l.slot THEN ctl.holders \cup {r} ELSE ctl.holders \ {r}
      BY <1>3, <1>5, <1>6, <1>8, Mine
    <2>2. ctl'.deferred = IF Deferred(l) THEN ctl.deferred \cup {r} ELSE ctl.deferred \ {r}
      BY <1>5, <1>8, Mine DEF Deferred
    <2> QED
      BY <1>4, <1>5, <1>6, <1>7, <1>8, <2>1, <2>2, Mine DEF Charged
  <1>11. WithinLimits(r, p, l)
    <2>1. LargeShare(p, l) = LargeShare(pend[r], lease[r])
      BY <1>4, <1>5, <1>6, <1>7 DEF LargeShare
    <2>2. LargeShare(p, l) \in Nat
      BY <1>5, <1>6, ShareIsNat
    <2> QED
      BY <1>3, <1>4, <1>5, <1>6, <1>7, <2>1, <2>2, Mine DEF WithinLimits
  <1>12. /\ temp' = [temp EXCEPT ![r] = temp[r]] /\ hold' = [hold EXCEPT ![r] = hold[r]]
         /\ op' = [op EXCEPT ![r] = op[r]]
    BY <1>1, Unchanged
  <1> QED
    BY <1>1, <1>2, <1>9, <1>10, <1>11, <1>12, LedgerStep

\* What is given back is more than nothing only if somebody owned it.
LEMMA ReleasePendingKeeps ==
    ASSUME LedgerInv, NEW r \in Requests, ReleasePending(r)
    PROVE  LedgerInv' /\ ctl'.body + ctl'.resp = ctl.body + ctl.resp - pend[r].bytes
  <1> DEFINE p == [st |-> "released", bytes |-> 0, slot |-> FALSE]
             hs == IF pend[r].slot THEN ctl.holders \ {r} ELSE ctl.holders
  <1>1. /\ pend[r].st = "open" /\ op[r].ph = "idle"
        /\ ctl' = [ctl EXCEPT !.body = ctl.body - pend[r].bytes,
                              !.parent = ctl.parent - pend[r].bytes,
                              !.pending = ctl.pending - pend[r].bytes,
                              !.holders = hs]
        /\ pend' = [pend EXCEPT ![r] = p] /\ UNCHANGED <<lease, temp, hold, op>>
    BY Mine DEF ReleasePending, Counters
  <1>4. lease[r].body = 0 /\ lease[r].resp = 0 /\ ~lease[r].slot
    BY <1>1, Mine DEF PendingRules
  <1>6. p \in Pendings /\ p.st = "released" /\ p.bytes = 0 /\ p.slot = FALSE
    BY DEF Pendings
  <1> HIDE DEF p
  <1>7. /\ pend[r].bytes \in Nat /\ ctl.pending \in Int /\ ctl.body \in Int /\ ctl.resp \in Int
        /\ ctl.parent \in Int /\ hs \in SUBSET Requests /\ ctl \in Counters
        /\ hs = ctl.holders \ {r}
    BY <1>4, Mine DEF Pendings, Counters
  <1> HIDE DEF hs
  <1>8. /\ ctl' \in Counters /\ ctl'.pending = ctl.pending - pend[r].bytes
        /\ ctl'.body = ctl.body - pend[r].bytes /\ ctl'.resp = ctl.resp
        /\ ctl'.parent = ctl.parent - pend[r].bytes
        /\ ctl'.holders = hs /\ ctl'.deferred = ctl.deferred
    <2> DEFINE n == ctl.body - pend[r].bytes
               q == ctl.parent - pend[r].bytes
               g == ctl.pending - pend[r].bytes
    <2>1. n \in Int /\ q \in Int /\ g \in Int /\ ctl' = WithCounts(ctl, n, q, g, hs)
      BY <1>1, <1>7 DEF WithCounts
    <2> HIDE DEF n, q, g
    <2>2. /\ ctl' \in Counters /\ ctl'.pending = g /\ ctl'.body = n /\ ctl'.resp = ctl.resp
          /\ ctl'.parent = q /\ ctl'.holders = hs /\ ctl'.deferred = ctl.deferred
      BY ONLY <1>7, <2>1, BodyCounted
    <2> QED
      BY <2>2 DEF n, q, g
  <1>9. Owned(r, p, lease[r], temp[r], hold[r], op[r])
    BY <1>1, <1>4, <1>6, <1>7, Mine, Constants
    DEF Owned, PendingRules, LimitRules, ClaimRules
  <1>10. Charged(r, p, lease[r])
    <2>1. ctl'.deferred
            = IF Deferred(lease[r]) THEN ctl.deferred \cup {r} ELSE ctl.deferred \ {r}
      BY <1>8, Mine DEF Deferred
    <2> QED
      BY <1>4, <1>6, <1>7, <1>8, <2>1, Mine DEF Charged
  <1>11. WithinLimits(r, p, lease[r])
    <2>1. LargeShare(p, lease[r]) = 0
      BY <1>4, <1>6 DEF LargeShare
    <2>2. LargeShare(pend[r], lease[r]) \in Nat
      BY Mine, ShareIsNat
    <2> QED
      BY <1>4, <1>6, <1>7, <2>1, <2>2 DEF WithinLimits
  <1>12. /\ lease' = [lease EXCEPT ![r] = lease[r]] /\ temp' = [temp EXCEPT ![r] = temp[r]]
         /\ hold' = [hold EXCEPT ![r] = hold[r]] /\ op' = [op EXCEPT ![r] = op[r]]
    BY <1>1, Unchanged
  <1>13. LedgerInv'
    BY <1>1, <1>9, <1>10, <1>11, <1>12, LedgerStep
  <1> QED
    BY <1>7, <1>8, <1>13

LEMMA ReleaseBodyKeeps ==
    ASSUME LedgerInv, NEW r \in Requests, NEW n \in Nat, ReleaseBody(r, n)
    PROVE  LedgerInv' /\ ctl'.body + ctl'.resp = ctl.body + ctl.resp - n
  <1> DEFINE last == n = lease[r].body
             m == lease[r].body - n
             b == lease[r].slot /\ ~last
             l == WithBody(lease[r], m, b)
             hs == IF last /\ lease[r].slot THEN ctl.holders \ {r} ELSE ctl.holders
             x == ctl.body - n
             q == ctl.parent - n
             g == ctl.pending
  <1>1. /\ lease[r].st = "active" /\ pend[r].st # "open" /\ n > 0 /\ n <= lease[r].body
        /\ UNCHANGED <<pend, temp, hold, op>>
    BY DEF ReleaseBody, InUse
  <1>2. lease' = [lease EXCEPT ![r] = l]
    BY Objects DEF ReleaseBody, WithBody
  <1>3. /\ pend[r].bytes = 0 /\ ~pend[r].slot /\ ~lease[r].final /\ pend[r] \in Pendings
        /\ lease[r] \in Leases /\ ctl \in Counters
    BY <1>1, Mine DEF PendingRules, LeaseRules
  <1>4. /\ m \in Nat /\ b \in BOOLEAN /\ hs \in SUBSET Requests
        /\ x \in Int /\ q \in Int /\ g \in Int
    BY <1>1, <1>3 DEF Leases, Counters
  <1>5. ctl' = WithCounts(ctl, x, q, g, hs)
    <2>1. ctl' = [ctl EXCEPT !.body = x, !.parent = q, !.holders = hs]
      BY DEF ReleaseBody
    <2> HIDE DEF x, q, hs
    <2> QED
      BY <1>3, <2>1 DEF Counters, WithCounts
  <1>6. /\ m = lease[r].body - n /\ (b <=> lease[r].slot /\ m > 0)
        /\ x = ctl.body - n /\ q = ctl.parent - n /\ g = ctl.pending
        /\ hs = IF b THEN ctl.holders \cup {r} ELSE ctl.holders \ {r}
    <2>1. b <=> lease[r].slot /\ m > 0
      <3>1. lease[r].body \in Nat
        BY <1>3 DEF Leases
      <3> QED
        BY <1>1, <3>1
    <2>2. r \in ctl.holders <=> lease[r].slot
      BY <1>3, Mine
    <2>3. hs = IF b THEN ctl.holders \cup {r} ELSE ctl.holders \ {r}
      BY <2>2
    <2> QED
      BY <2>1, <2>3
  <1> HIDE DEF b, m, hs, x, q, g
  <1>7. /\ l \in Leases /\ l.st = lease[r].st /\ l.resp = lease[r].resp
        /\ l.committed = lease[r].committed /\ l.owners = lease[r].owners
        /\ l.final = lease[r].final /\ l.body = m /\ l.slot = b
    BY ONLY <1>3, <1>4, BodySet
  <1> HIDE DEF l
  <1>8. /\ ctl' \in Counters /\ ctl'.pending = g /\ ctl'.body = x /\ ctl'.resp = ctl.resp
        /\ ctl'.parent = q /\ ctl'.holders = hs /\ ctl'.deferred = ctl.deferred
    BY ONLY <1>3, <1>4, <1>5, BodyCounted
  <1>9. /\ lease[r].body \in Nat /\ lease[r].resp \in Nat /\ pend[r].bytes \in Nat
        /\ ctl.body \in Int /\ ctl.resp \in Int /\ ctl.pending \in Int /\ ctl.parent \in Int
    BY <1>3 DEF Pendings, Leases, Counters
  <1>10. Owned(r, pend[r], l, temp[r], hold[r], op[r])
    <2>1. PendingRules(pend[r], l, temp[r], op[r])
      BY <1>1, <1>7, Mine DEF PendingRules
    <2>2. LeaseRules(l, temp[r], hold[r])
      BY <1>1, <1>3, <1>7, Mine DEF LeaseRules
    <2>3. LimitRules(r, pend[r], l)
      BY <1>1, <1>6, <1>7, <1>9, Mine, Constants DEF LimitRules
    <2>4. ClaimRules(pend[r], l)
      <3>1. /\ lease[r].slot => lease[r].body > 0
            /\ LargeLimit # 0 /\ lease[r].body > LargeThreshold => lease[r].slot
        BY <1>3, <1>9, Mine DEF ClaimRules
      <3>2. LargeLimit # 0 /\ m > LargeThreshold => b
        BY <1>6, <1>9, <3>1, Constants
      <3>3. b => m > 0
        BY <1>6
      <3> QED
        BY <1>3, <1>4, <1>7, <3>2, <3>3 DEF ClaimRules
    <2> QED
      BY <1>3, <1>7, <2>1, <2>2, <2>3, <2>4, Mine DEF Owned
  <1>11. Charged(r, pend[r], l)
    <2>1. ctl'.deferred = IF Deferred(l) THEN ctl.deferred \cup {r} ELSE ctl.deferred \ {r}
      BY <1>7, <1>8, Mine DEF Deferred
    <2>2. ctl'.holders
            = IF pend[r].slot \/ l.slot THEN ctl.holders \cup {r} ELSE ctl.holders \ {r}
      BY <1>3, <1>6, <1>7, <1>8
    <2> QED
      BY <1>3, <1>6, <1>7, <1>8, <1>9, <2>1, <2>2, Mine DEF Charged
  <1>12. WithinLimits(r, pend[r], l)
    <2>1. LargeShare(pend[r], l) <= LargeShare(pend[r], lease[r])
      <3>1. m <= lease[r].body /\ SmallThreshold \in Nat /\ m \in Nat
        BY <1>1, <1>4, <1>6, <1>9, Constants
      <3>2. SmallLane(lease[r].body) => SmallLane(m)
        BY <1>9, <3>1 DEF SmallLane
      <3>3. LargeShare(pend[r], l) = IF SmallLane(m) THEN 0 ELSE m
        BY <1>3, <1>4, <1>7 DEF LargeShare
      <3>4. LargeShare(pend[r], lease[r]) = IF SmallLane(lease[r].body) THEN 0 ELSE lease[r].body
        BY <1>3, <1>9 DEF LargeShare
      <3> QED
        BY <1>9, <3>1, <3>2, <3>3, <3>4
    <2> QED
      BY <1>3, <1>4, <1>6, <1>7, <1>9, <2>1, Mine DEF WithinLimits
  <1>13. /\ pend' = [pend EXCEPT ![r] = pend[r]] /\ temp' = [temp EXCEPT ![r] = temp[r]]
         /\ hold' = [hold EXCEPT ![r] = hold[r]] /\ op' = [op EXCEPT ![r] = op[r]]
    BY <1>1, Unchanged
  <1>14. LedgerInv'
    BY <1>2, <1>10, <1>11, <1>12, <1>13, LedgerStep
  <1> QED
    BY <1>6, <1>8, <1>9, <1>14

-----------------------------------------------------------------------------
(* Response bytes *)

WithResp(l, n, c, o) == [l EXCEPT !.resp = n, !.committed = c, !.owners = o]

LEMMA RespSet ==
    ASSUME NEW l \in Leases, NEW n \in Nat, NEW c \in Nat, NEW o \in Nat,
           NEW m, m = WithResp(l, n, c, o)
    PROVE  /\ m \in Leases /\ m.st = l.st /\ m.body = l.body /\ m.resp = n /\ m.committed = c
           /\ m.owners = o /\ m.final = l.final /\ m.slot = l.slot
  <1> DEFINE l1 == [l EXCEPT !.resp = n]
             l2 == [l1 EXCEPT !.committed = c]
  <1>1. m = [l2 EXCEPT !.owners = o]
    BY DEF Leases, WithResp
  <1>2. /\ l1 \in Leases /\ l1.st = l.st /\ l1.body = l.body /\ l1.final = l.final
        /\ l1.slot = l.slot /\ l1.resp = n
    BY DEF Leases
  <1> HIDE DEF l1
  <1>3. /\ l2 \in Leases /\ l2.st = l.st /\ l2.body = l.body /\ l2.final = l.final
        /\ l2.slot = l.slot /\ l2.resp = n /\ l2.committed = c
    BY <1>2 DEF Leases
  <1> HIDE DEF l2
  <1> QED
    BY ONLY <1>1, <1>3, o \in Nat DEF Leases

\* The same, the lease named as a whole.
HasResp(m, l, n, c, o) ==
    /\ m \in Leases /\ m.st = l.st /\ m.body = l.body /\ m.resp = n /\ m.committed = c
    /\ m.owners = o /\ m.final = l.final /\ m.slot = l.slot

LEMMA RespSetWhole ==
    ASSUME NEW l \in Leases, NEW n \in Nat, NEW c \in Nat, NEW o \in Nat
    PROVE  HasResp(WithResp(l, n, c, o), l, n, c, o)
  BY RespSet DEF HasResp

WithCharge(c, n, q) == [c EXCEPT !.resp = n, !.parent = q]

LEMMA RespCounted ==
    ASSUME NEW c \in Counters, NEW n \in Int, NEW q \in Int, NEW d, d = WithCharge(c, n, q)
    PROVE  /\ d \in Counters /\ d.resp = n /\ d.parent = q /\ d.body = c.body
           /\ d.pending = c.pending /\ d.holders = c.holders /\ d.deferred = c.deferred
  <1> DEFINE c1 == [c EXCEPT !.resp = n]
  <1>1. d = [c1 EXCEPT !.parent = q]
    BY DEF Counters, WithCharge
  <1>2. /\ c1 \in Counters /\ c1.resp = n /\ c1.body = c.body
        /\ c1.pending = c.pending /\ c1.holders = c.holders /\ c1.deferred = c.deferred
    BY DEF Counters
  <1> HIDE DEF c1
  <1> QED
    BY ONLY <1>1, <1>2, q \in Int DEF Counters

\* A step by which the response of a request grows, whoever owns the bytes.
LEMMA ResponseGrows ==
    ASSUME LedgerInv, NEW r \in Requests, NEW n \in Nat, NEW l \in Leases, NEW t \in Temporaries,
           pend[r].st # "open", ResponseAdmitted(r, n), ChargeResponse(n),
           l.st = lease[r].st, l.body = lease[r].body, l.final = lease[r].final,
           l.slot = lease[r].slot, l.resp = lease[r].resp + n,
           lease' = [lease EXCEPT ![r] = l], temp' = [temp EXCEPT ![r] = t],
           UNCHANGED <<pend, hold, op>>, LeaseRules(l, t, hold[r])
    PROVE  LedgerInv'
  <1>1. /\ pend[r] \in Pendings /\ lease[r] \in Leases /\ ctl \in Counters
        /\ lease[r].body \in Nat /\ lease[r].resp \in Nat /\ pend[r].bytes \in Nat
        /\ ctl.body \in Int /\ ctl.resp \in Int /\ ctl.pending \in Int /\ ctl.parent \in Int
    BY Mine DEF Pendings, Leases, Counters
  <1> DEFINE x == ctl.resp + n
             q == ctl.parent + n
  <1>2. ctl' = WithCharge(ctl, x, q) /\ x \in Int /\ q \in Int
    BY <1>1 DEF ChargeResponse, WithCharge
  <1>3. x = ctl.resp + n /\ q = ctl.parent + n
    OBVIOUS
  <1> HIDE DEF x, q
  <1>4. /\ ctl' \in Counters /\ ctl'.resp = x /\ ctl'.parent = q /\ ctl'.body = ctl.body
        /\ ctl'.pending = ctl.pending /\ ctl'.holders = ctl.holders
        /\ ctl'.deferred = ctl.deferred
    <2>1. ctl \in Counters
      BY Mine
    <2> QED
      BY ONLY <1>2, <2>1, RespCounted
  <1>5. Owned(r, pend[r], l, t, hold[r], op[r])
    <2>1. PendingRules(pend[r], l, t, op[r])
      BY Mine DEF PendingRules
    <2>2. LimitRules(r, pend[r], l)
      BY <1>1, Mine, Constants DEF LimitRules, ResponseAdmitted
    <2>3. ClaimRules(pend[r], l)
      BY Mine DEF ClaimRules
    <2> QED
      BY <1>1, <2>1, <2>2, <2>3, Mine DEF Owned
  <1>6. Charged(r, pend[r], l)
    <2>1. ctl'.deferred = IF Deferred(l) THEN ctl.deferred \cup {r} ELSE ctl.deferred \ {r}
      BY <1>4, Mine DEF Deferred
    <2>2. ctl'.holders
            = IF pend[r].slot \/ l.slot THEN ctl.holders \cup {r} ELSE ctl.holders \ {r}
      BY <1>4, Mine
    <2> QED
      BY <1>1, <1>3, <1>4, <2>1, <2>2, Mine DEF Charged
  <1>7. WithinLimits(r, pend[r], l)
    <2>1. LargeShare(pend[r], l) = LargeShare(pend[r], lease[r])
      BY DEF LargeShare
    <2>2. LargeShare(pend[r], l) \in Nat
      BY <1>1, ShareIsNat
    <2>3. ctl'.body + ctl'.resp <= Budget
      BY <1>1, <1>3, <1>4, Constants DEF ResponseAdmitted
    <2> QED
      BY <2>1, <2>2, <2>3, Mine DEF WithinLimits
  <1>8. /\ pend' = [pend EXCEPT ![r] = pend[r]] /\ hold' = [hold EXCEPT ![r] = hold[r]]
        /\ op' = [op EXCEPT ![r] = op[r]]
    BY Unchanged
  <1> QED
    BY <1>5, <1>6, <1>7, <1>8, LedgerStep

LEMMA ReserveResponseKeeps ==
    ASSUME LedgerInv, NEW r \in Requests, NEW n \in Nat, ReserveResponse(r, n) PROVE LedgerInv'
  <1> DEFINE x == lease[r].resp + n
             c == lease[r].committed + n
             o == lease[r].owners
             l == WithResp(lease[r], x, c, o)
  <1>1. /\ lease[r].st = "active" /\ pend[r].st # "open" /\ lease[r] \in Leases
        /\ ResponseAdmitted(r, n) /\ ChargeResponse(n) /\ UNCHANGED <<pend, temp, hold, op>>
    BY Mine DEF ReserveResponse, InUse
  <1>2. lease' = [lease EXCEPT ![r] = l]
    <2>1. lease' = [lease EXCEPT ![r] = [lease[r] EXCEPT !.resp = x, !.committed = c]]
      BY Objects DEF ReserveResponse
    <2> HIDE DEF x, c
    <2>2. [lease[r] EXCEPT !.resp = x, !.committed = c] = l
      BY <1>1 DEF WithResp, Leases
    <2> QED
      BY <2>1, <2>2
  <1>3. /\ x \in Nat /\ c \in Nat /\ o \in Nat
    BY <1>1 DEF Leases
  <1>4. x = lease[r].resp + n /\ c = lease[r].committed + n /\ o = lease[r].owners
    OBVIOUS
  <1> HIDE DEF x, c, o
  <1>5. /\ l \in Leases /\ l.st = lease[r].st /\ l.body = lease[r].body /\ l.resp = x
        /\ l.committed = c /\ l.owners = o /\ l.final = lease[r].final /\ l.slot = lease[r].slot
    <2>1. lease[r] \in Leases
      BY Mine
    <2>2. l = WithResp(lease[r], x, c, o)
      OBVIOUS
    <2> HIDE DEF l
    <2> QED
      BY ONLY <1>3, <2>1, <2>2, RespSet, Z3
  <1> HIDE DEF l
  <1>6. LeaseRules(l, temp[r], hold[r])
    <2>1. lease[r].resp \in Nat /\ lease[r].committed \in Nat /\ ~lease[r].final
      BY <1>1, Mine DEF Leases, LeaseRules
    <2> QED
      BY <1>1, <1>4, <1>5, <2>1, Mine DEF LeaseRules
  <1>7. temp' = [temp EXCEPT ![r] = temp[r]] /\ temp[r] \in Temporaries
    BY <1>1, Unchanged, Mine
  <1> QED
    BY <1>1, <1>2, <1>4, <1>5, <1>6, <1>7, ResponseGrows

\* The bytes and the owners of a lease, and its reservations, change together.
LEMMA TempRules ==
    ASSUME LedgerInv, NEW r \in Requests, NEW u \in Temps, NEW l \in Leases,
           NEW x \in [st : {"none", "active", "released", "committed"}, size : Nat],
           x.st # "active" => x.size = 0, lease[r].st # "none",
           l.st = lease[r].st, l.final = lease[r].final, ~l.final,
           l.resp - l.committed
             = lease[r].resp - lease[r].committed - temp[r][u].size + x.size,
           l.owners = lease[r].owners - (IF temp[r][u].st = "active" THEN 1 ELSE 0)
                                      + (IF x.st = "active" THEN 1 ELSE 0),
           l.st = "released" => l.owners > 0
    PROVE  LET t == [temp[r] EXCEPT ![u] = x]
           IN  t \in Temporaries /\ LeaseRules(l, t, hold[r])
  <1> DEFINE t == [temp[r] EXCEPT ![u] = x]
             s == SumFunctionOnSet(Sizes(temp[r]), Temps)
             c == Cardinality(Open(temp[r]))
             s2 == SumFunctionOnSet(Sizes(t), Temps)
             c2 == Cardinality(Open(t))
             k == IF hold[r] = "active" THEN 1 ELSE 0
             a == IF temp[r][u].st = "active" THEN 1 ELSE 0
             b == IF x.st = "active" THEN 1 ELSE 0
  <1>1. temp[r] \in Temporaries /\ lease[r] \in Leases
    BY Mine
  <1>2. /\ t \in Temporaries /\ s \in Nat /\ c \in Nat
        /\ s2 = s - temp[r][u].size + x.size /\ c2 = c - a + b
    BY <1>1, TempChanges
  <1>3. lease[r].resp = lease[r].committed + s /\ lease[r].owners = c + k
    BY Mine DEF LeaseRules
  <1>4. \A v \in Temps : t[v].st # "active" => t[v].size = 0
    <2>1. \A v \in Temps : temp[r][v].st # "active" => temp[r][v].size = 0
      BY Mine DEF LeaseRules
    <2>2. t[u] = x /\ \A v \in Temps : v # u => t[v] = temp[r][v]
      BY <1>1 DEF Temporaries
    <2> HIDE DEF t
    <2> QED
      BY <2>1, <2>2
  <1>5. temp[r][u].size \in Nat /\ x.size \in Nat
    BY <1>1 DEF Temporaries
  <1>6. /\ lease[r].resp \in Nat /\ lease[r].committed \in Nat /\ lease[r].owners \in Nat
        /\ l.resp \in Nat /\ l.committed \in Nat /\ l.owners \in Nat
    BY <1>1 DEF Leases
  <1>7. k \in Nat /\ a \in Nat /\ b \in Nat
    OBVIOUS
  <1>8. l.owners = lease[r].owners - a + b
    OBVIOUS
  <1> HIDE DEF k, a, b, s, c, s2, c2
  <1>9. l.resp = l.committed + s2
    BY <1>2, <1>3, <1>5, <1>6
  <1>10. l.owners = c2 + k
    BY <1>2, <1>3, <1>6, <1>7, <1>8
  <1> HIDE DEF t
  <1>11. LeaseRules(l, t, hold[r])
    BY <1>4, <1>9, <1>10 DEF LeaseRules, s2, c2, k
  <1> QED
    BY <1>2, <1>11 DEF t

LEMMA ActivateTempKeeps ==
    ASSUME LedgerInv, NEW r \in Requests, NEW u \in Temps, NEW n \in Nat, ActivateTemp(r, u, n)
    PROVE  LedgerInv'
  <1> DEFINE x == lease[r].resp + n
             c == lease[r].committed
             o == lease[r].owners + 1
             l == WithResp(lease[r], x, c, o)
             z == [st |-> "active", size |-> n]
             t == [temp[r] EXCEPT ![u] = z]
  <1>1. /\ lease[r].st = "active" /\ pend[r].st # "open" /\ temp[r][u].st = "none"
        /\ ResponseAdmitted(r, n) /\ ChargeResponse(n) /\ UNCHANGED <<pend, hold, op>>
    BY DEF ActivateTemp, InUse
  <1>2. lease' = [lease EXCEPT ![r] = l]
    <2>0. lease[r] \in Leases
      BY Mine
    <2>1. lease' = [lease EXCEPT ![r] = [lease[r] EXCEPT !.resp = x, !.owners = o]]
      BY Objects DEF ActivateTemp
    <2> HIDE DEF x, o
    <2>2. [lease[r] EXCEPT !.resp = x, !.owners = o] = l
      BY <2>0 DEF WithResp, Leases
    <2> QED
      BY <2>1, <2>2
  <1>3. temp' = [temp EXCEPT ![r] = t]
    BY Objects DEF ActivateTemp
  <1>4. /\ x \in Nat /\ c \in Nat /\ o \in Nat /\ lease[r].resp \in Nat /\ lease[r].owners \in Nat
    BY Mine DEF Leases
  <1>5. x = lease[r].resp + n /\ c = lease[r].committed /\ o = lease[r].owners + 1
    OBVIOUS
  <1> HIDE DEF x, c, o
  <1>6. /\ l \in Leases /\ l.st = lease[r].st /\ l.body = lease[r].body /\ l.resp = x
        /\ l.committed = c /\ l.owners = o /\ l.final = lease[r].final /\ l.slot = lease[r].slot
    <2>1. lease[r] \in Leases
      BY Mine
    <2>2. l = WithResp(lease[r], x, c, o)
      OBVIOUS
    <2> HIDE DEF l
    <2>3. x \in Nat /\ c \in Nat /\ o \in Nat
      BY <1>4
    <2>4. HasResp(WithResp(lease[r], x, c, o), lease[r], x, c, o)
      BY ONLY <2>1, <2>3, RespSetWhole
    <2> QED
      BY ONLY <2>2, <2>4 DEF HasResp
  <1> HIDE DEF l
  <1>7. temp[r][u].size = 0 /\ ~lease[r].final
    BY <1>1, Mine DEF LeaseRules
  <1>8. /\ z \in [st : {"none", "active", "released", "committed"}, size : Nat]
        /\ z.st = "active" /\ z.size = n
    OBVIOUS
  <1> HIDE DEF z
  <1>9. l.resp - l.committed
          = lease[r].resp - lease[r].committed - temp[r][u].size + z.size
    BY <1>4, <1>5, <1>6, <1>7, <1>8
  <1>10. t \in Temporaries /\ LeaseRules(l, t, hold[r])
    BY <1>1, <1>4, <1>5, <1>6, <1>7, <1>8, <1>9, TempRules
  <1> HIDE DEF t
  <1> QED
    BY <1>1, <1>2, <1>3, <1>5, <1>6, <1>10, ResponseGrows

LEMMA GrowTempKeeps ==
    ASSUME LedgerInv, NEW r \in Requests, NEW u \in Temps, NEW n \in Nat, GrowTemp(r, u, n)
    PROVE  LedgerInv'
  <1> DEFINE x == lease[r].resp + n
             c == lease[r].committed
             o == lease[r].owners
             l == WithResp(lease[r], x, c, o)
             z == [temp[r][u] EXCEPT !.size = @ + n]
             t == [temp[r] EXCEPT ![u] = z]
  <1>1. /\ temp[r][u].st = "active"
        /\ ResponseAdmitted(r, n) /\ ChargeResponse(n) /\ UNCHANGED <<pend, hold, op>>
    BY DEF GrowTemp
  <1>2. lease' = [lease EXCEPT ![r] = l]
    <2>0. lease[r] \in Leases
      BY Mine
    <2>1. lease' = [lease EXCEPT ![r] = [lease[r] EXCEPT !.resp = x]]
      BY Objects DEF GrowTemp
    <2> HIDE DEF x
    <2>2. [lease[r] EXCEPT !.resp = x] = l
      BY <2>0 DEF WithResp, Leases
    <2> QED
      BY <2>1, <2>2
  <1>3. temp' = [temp EXCEPT ![r] = t]
    <2>1. temp[r] \in Temporaries
      BY Mine
    <2> QED
      BY <2>1, Objects DEF GrowTemp, Temporaries
  <1>4. /\ x \in Nat /\ c \in Nat /\ o \in Nat /\ lease[r].resp \in Nat /\ lease[r].owners \in Nat
    BY Mine DEF Leases
  <1>5. x = lease[r].resp + n /\ c = lease[r].committed /\ o = lease[r].owners
    OBVIOUS
  <1> HIDE DEF x, c, o
  <1>6. /\ l \in Leases /\ l.st = lease[r].st /\ l.body = lease[r].body /\ l.resp = x
        /\ l.committed = c /\ l.owners = o /\ l.final = lease[r].final /\ l.slot = lease[r].slot
    <2>1. lease[r] \in Leases
      BY Mine
    <2>2. l = WithResp(lease[r], x, c, o)
      OBVIOUS
    <2> HIDE DEF l
    <2>3. x \in Nat /\ c \in Nat /\ o \in Nat
      BY <1>4
    <2>4. HasResp(WithResp(lease[r], x, c, o), lease[r], x, c, o)
      BY ONLY <2>1, <2>3, RespSetWhole
    <2> QED
      BY ONLY <2>2, <2>4 DEF HasResp
  <1> HIDE DEF l
  <1>7. lease[r].st # "none" /\ pend[r].st # "open"
    BY <1>1, Mine DEF LeaseRules, PendingRules
  <1>8. /\ z \in [st : {"none", "active", "released", "committed"}, size : Nat]
        /\ z.st = "active" /\ z.size = temp[r][u].size + n /\ temp[r][u].size \in Nat
    BY <1>1, Mine DEF Temporaries
  <1> HIDE DEF z
  <1>9. l.resp - l.committed
          = lease[r].resp - lease[r].committed - temp[r][u].size + z.size
    BY <1>4, <1>5, <1>6, <1>8
  \* There is an owner, so that the memory has not been finalized.
  <1>10. lease[r].owners > 0 /\ ~lease[r].final
    <2>1. Cardinality(Open(temp[r])) > 0 /\ Cardinality(Open(temp[r])) \in Nat
      <3>1. temp[r] \in Temporaries
        BY Mine
      <3>2. temp[r][u].st = "active" => Cardinality(Open(temp[r])) > 0
        BY <1>8, <3>1, TempChanges
      <3> QED
        BY <1>1, <3>2, Mine
    <2>2. lease[r].owners = Cardinality(Open(temp[r])) + (IF hold[r] = "active" THEN 1 ELSE 0)
      BY Mine DEF LeaseRules
    <2>3. lease[r].owners > 0
      BY <2>1, <2>2
    <2> QED
      BY <2>3, Mine DEF LeaseRules
  <1>11. t \in Temporaries /\ LeaseRules(l, t, hold[r])
    BY <1>1, <1>4, <1>5, <1>6, <1>7, <1>8, <1>9, <1>10, TempRules
  <1> HIDE DEF t
  <1> QED
    BY <1>1, <1>2, <1>3, <1>5, <1>6, <1>7, <1>11, ResponseGrows

-----------------------------------------------------------------------------
(* The end of the owners *)

LEMMA FinalLeaseIs ==
    ASSUME NEW l \in Leases, ~l.final, NEW m, m = FinalLease(l)
    PROVE  /\ m \in Leases /\ m.st = l.st /\ m.owners = l.owners
           /\ m.body = 0 /\ m.resp = 0 /\ m.committed = 0 /\ m.slot = FALSE /\ m.final = TRUE
  <1> DEFINE l1 == [l EXCEPT !.body = 0]
             l2 == [l1 EXCEPT !.resp = 0]
             l3 == [l2 EXCEPT !.committed = 0]
             l4 == [l3 EXCEPT !.slot = FALSE]
  <1>1. m = [l4 EXCEPT !.final = TRUE]
    BY DEF Leases, FinalLease
  <1>2. l1 \in Leases /\ l1.st = l.st /\ l1.owners = l.owners /\ l1.body = 0
    BY DEF Leases
  <1> HIDE DEF l1
  <1>3. l2 \in Leases /\ l2.st = l.st /\ l2.owners = l.owners /\ l2.body = 0 /\ l2.resp = 0
    BY <1>2 DEF Leases
  <1> HIDE DEF l2
  <1>4. /\ l3 \in Leases /\ l3.st = l.st /\ l3.owners = l.owners /\ l3.body = 0 /\ l3.resp = 0
        /\ l3.committed = 0
    BY <1>3 DEF Leases
  <1> HIDE DEF l3
  <1>5. /\ l4 \in Leases /\ l4.st = l.st /\ l4.owners = l.owners /\ l4.body = 0 /\ l4.resp = 0
        /\ l4.committed = 0 /\ l4.slot = FALSE
    BY <1>4 DEF Leases
  <1> HIDE DEF l4
  <1> QED
    BY ONLY <1>1, <1>5 DEF Leases

LEMMA FinalCtlIs ==
    ASSUME NEW c \in Counters, NEW r \in Requests, NEW l \in Leases, ~l.final,
           NEW d, d = FinalCtl(c, r, l)
    PROVE  /\ d \in Counters /\ d.pending = c.pending /\ d.body = c.body - l.body
           /\ d.resp = c.resp - l.resp /\ d.parent = c.parent - (l.body + l.resp)
           /\ d.holders = (IF l.slot THEN c.holders \ {r} ELSE c.holders)
           /\ d.deferred = c.deferred \ {r}
  <1> DEFINE x == c.body - l.body
             y == c.resp - l.resp
             q == c.parent - (l.body + l.resp)
             hs == IF l.slot THEN c.holders \ {r} ELSE c.holders
             ds == c.deferred \ {r}
             c1 == [c EXCEPT !.body = x]
             c2 == [c1 EXCEPT !.resp = y]
             c3 == [c2 EXCEPT !.parent = q]
             c4 == [c3 EXCEPT !.holders = hs]
  <1>1. /\ x \in Int /\ y \in Int /\ q \in Int
        /\ hs \in SUBSET Requests /\ ds \in SUBSET Requests
    BY DEF Counters, Leases
  <1>2. d = [c EXCEPT !.body = x, !.resp = y, !.parent = q, !.holders = hs, !.deferred = ds]
    BY DEF FinalCtl
  <1> HIDE DEF x, y, q, hs, ds
  <1>3. d = [c4 EXCEPT !.deferred = ds]
    BY <1>2 DEF Counters
  <1>4. c1 \in Counters /\ c1.body = x /\ c1.pending = c.pending
    BY <1>1 DEF Counters
  <1> HIDE DEF c1
  <1>5. c2 \in Counters /\ c2.body = x /\ c2.pending = c.pending /\ c2.resp = y
    BY <1>1, <1>4 DEF Counters
  <1> HIDE DEF c2
  <1>6. /\ c3 \in Counters /\ c3.body = x /\ c3.pending = c.pending /\ c3.resp = y
        /\ c3.parent = q
    BY <1>1, <1>5 DEF Counters
  <1> HIDE DEF c3
  <1>7. /\ c4 \in Counters /\ c4.body = x /\ c4.pending = c.pending /\ c4.resp = y
        /\ c4.parent = q /\ c4.holders = hs
    BY <1>1, <1>6 DEF Counters
  <1> HIDE DEF c4
  <1>8. /\ d \in Counters /\ d.body = x /\ d.pending = c.pending /\ d.resp = y
        /\ d.parent = q /\ d.holders = hs /\ d.deferred = ds
    BY ONLY <1>1, <1>3, <1>7 DEF Counters
  <1> QED
    BY <1>8 DEF x, y, q, hs, ds

\* The same, the counters named as a whole.
Settled(d, c, r, l) ==
    /\ d \in Counters /\ d.pending = c.pending /\ d.body = c.body - l.body
    /\ d.resp = c.resp - l.resp /\ d.parent = c.parent - (l.body + l.resp)
    /\ d.holders = (IF l.slot THEN c.holders \ {r} ELSE c.holders)
    /\ d.deferred = c.deferred \ {r}

LEMMA FinalCtlWhole ==
    ASSUME NEW c \in Counters, NEW r \in Requests, NEW l \in Leases, ~l.final
    PROVE  Settled(FinalCtl(c, r, l), c, r, l)
  BY FinalCtlIs DEF Settled

\* No owners, no open reservations.
LEMMA NobodyOwns ==
    ASSUME NEW t \in Temporaries, \A u \in Temps : t[u].st # "active" => t[u].size = 0,
           Cardinality(Open(t)) = 0
    PROVE  SumFunctionOnSet(Sizes(t), Temps) = 0
  <1> DEFINE f == Sizes(t)
  <1>1. IsFiniteSet(Temps) /\ IsFiniteSet(Open(t))
    BY Constants, FS_Subset DEF Open
  <1>2. Open(t) = {}
    BY <1>1, FS_EmptySet
  <1>3. \A u \in Temps : f[u] = 0
    BY <1>2 DEF Open, Sizes
  <1> HIDE DEF f
  <1>4. SumFunctionOnSet(f, Temps) = 0
    BY <1>1, <1>3, SumOfZeros
  <1> QED
    BY <1>4 DEF f

\* The last owner gives back all that the lease still has.  The lease l and the counters c are
\* those that the step has made before.
LEMMA FinalizeKeeps ==
    ASSUME LedgerInv, NEW r \in Requests, NEW c \in Counters, NEW l \in Leases,
           NEW t \in Temporaries, NEW h \in Deferrals, NEW freed \in Nat,
           l.st \in {"requested", "released"}, lease[r].st # "none", l.owners = 0, ~l.final,
           l.body = lease[r].body, l.slot = lease[r].slot, l.resp = lease[r].resp - freed,
           c.pending = ctl.pending, c.body = ctl.body, c.resp = ctl.resp - freed,
           c.parent = ctl.parent - freed, c.holders = ctl.holders,
           ctl.deferred \ {r} = c.deferred \ {r},
           \A u \in Temps : t[u].st # "active" => t[u].size = 0,
           h # "active", Cardinality(Open(t)) = 0,
           Finalize(c, r, l, freed),
           temp' = [temp EXCEPT ![r] = t], hold' = [hold EXCEPT ![r] = h],
           UNCHANGED <<pend, op>>
    PROVE  /\ LedgerInv'
           /\ \E k \in Nat : /\ wq' = Woken(wq, k)
                             /\ ctl'.body + ctl'.resp = ctl.body + ctl.resp - k
  <1> DEFINE m == FinalLease(l)
  <1>1. lease' = [lease EXCEPT ![r] = m]
    BY DEF Finalize
  <1> HIDE DEF m
  <1>2. /\ m \in Leases /\ m.st = l.st /\ m.owners = 0
        /\ m.body = 0 /\ m.resp = 0 /\ m.committed = 0 /\ m.slot = FALSE /\ m.final = TRUE
    BY FinalLeaseIs DEF m
  <1>3. /\ ctl' \in Counters /\ ctl'.pending = ctl.pending /\ ctl'.body = ctl.body - l.body
        /\ ctl'.resp = ctl.resp - freed - l.resp
        /\ ctl'.parent = ctl.parent - freed - (l.body + l.resp)
        /\ ctl'.holders = (IF l.slot THEN ctl.holders \ {r} ELSE ctl.holders)
        /\ ctl'.deferred = ctl.deferred \ {r}
    <2>1. ctl' = FinalCtl(c, r, l)
      BY DEF Finalize
    <2>2. Settled(FinalCtl(c, r, l), c, r, l)
      BY ONLY c \in Counters, l \in Leases, r \in Requests, ~l.final, FinalCtlWhole
    <2>3. /\ ctl' \in Counters /\ ctl'.pending = c.pending /\ ctl'.body = c.body - l.body
          /\ ctl'.resp = c.resp - l.resp /\ ctl'.parent = c.parent - (l.body + l.resp)
          /\ ctl'.holders = (IF l.slot THEN c.holders \ {r} ELSE c.holders)
          /\ ctl'.deferred = c.deferred \ {r}
      BY ONLY <2>1, <2>2 DEF Settled
    <2> QED
      BY <2>3
  <1>4. /\ pend[r] \in Pendings /\ lease[r] \in Leases /\ ctl \in Counters
        /\ lease[r].body \in Nat /\ lease[r].resp \in Nat /\ pend[r].bytes \in Nat
        /\ l.body \in Nat /\ l.resp \in Nat
        /\ ctl.body \in Int /\ ctl.resp \in Int /\ ctl.pending \in Int /\ ctl.parent \in Int
        /\ ctl.parent = ctl.body + ctl.resp
    BY Mine DEF Pendings, Leases, Counters
  <1>5. /\ pend[r].st = "open" => lease[r].body = 0 /\ lease[r].resp = 0 /\ ~lease[r].slot
        /\ pend[r].st # "open" => pend[r].bytes = 0 /\ ~pend[r].slot
    BY Mine DEF PendingRules
  <1>6. Owned(r, pend[r], m, t, h, op[r])
    <2>1. PendingRules(pend[r], m, t, op[r])
      <3>1. \A u \in Temps : t[u].st # "active"
        <4>1. IsFiniteSet(Open(t))
          BY Constants, FS_Subset DEF Open
        <4>2. Open(t) = {}
          BY <4>1, FS_EmptySet
        <4> QED
          BY <4>2 DEF Open
      <3> QED
        BY <1>2, <3>1, Mine DEF PendingRules
    <2>2. LeaseRules(m, t, h)
      <3>1. SumFunctionOnSet(Sizes(t), Temps) = 0
        BY NobodyOwns
      <3> QED
        BY <1>2, <3>1 DEF LeaseRules
    <2>3. LimitRules(r, pend[r], m)
      BY <1>2, Mine, Constants DEF LimitRules
    <2>4. ClaimRules(pend[r], m)
      BY <1>2, <1>4, <1>5, Mine, Constants DEF ClaimRules
    <2> QED
      BY <1>2, <2>1, <2>2, <2>3, <2>4, Mine DEF Owned
  <1>7. Charged(r, pend[r], m)
    <2>1. ctl'.deferred = IF Deferred(m) THEN ctl.deferred \cup {r} ELSE ctl.deferred \ {r}
      BY <1>2, <1>3 DEF Deferred
    <2>2. ctl'.holders
            = IF pend[r].slot \/ m.slot THEN ctl.holders \cup {r} ELSE ctl.holders \ {r}
      BY <1>2, <1>3, <1>5, Mine
    <2>3. /\ ctl'.pending = ctl.pending - pend[r].bytes + pend[r].bytes
          /\ ctl'.body = ctl.body - (pend[r].bytes + lease[r].body) + (pend[r].bytes + m.body)
          /\ ctl'.resp = ctl.resp - lease[r].resp + m.resp
      BY <1>2, <1>3, <1>4
    <2>4. ctl'.parent = ctl'.body + ctl'.resp
      BY <1>3, <1>4
    <2> QED
      BY <1>3, <2>1, <2>2, <2>3, <2>4 DEF Charged
  <1>8. WithinLimits(r, pend[r], m)
    <2>1. LargeShare(pend[r], m) <= LargeShare(pend[r], lease[r])
      <3>1. LargeShare(pend[r], lease[r]) \in Nat /\ LargeShare(pend[r], m) \in Nat
        BY <1>2, <1>4, ShareIsNat
      <3>2. CASE pend[r].st = "open"
        BY <1>2, <1>5, <3>1, <3>2 DEF LargeShare
      <3>3. CASE pend[r].st # "open"
        <4>1. LargeShare(pend[r], m) = 0
          BY <1>2, <1>5, <3>3 DEF LargeShare
        <4> QED
          BY <3>1, <4>1
      <3> QED
        BY <3>2, <3>3
    <2> QED
      BY <1>2, <1>4, <2>1, Mine DEF WithinLimits
  <1>9. pend' = [pend EXCEPT ![r] = pend[r]] /\ op' = [op EXCEPT ![r] = op[r]]
    BY Unchanged
  <1>10. LedgerInv'
    BY <1>1, <1>6, <1>7, <1>8, <1>9, LedgerStep
  <1> DEFINE k == freed + (l.body + l.resp)
  <1>11. wq' = Woken(wq, k) /\ k \in Nat
    BY <1>4 DEF Finalize
  <1>12. ctl'.body + ctl'.resp = ctl.body + ctl.resp - k
    BY <1>3, <1>4
  <1> QED
    BY <1>10, <1>11, <1>12

\* One owner is gone, and if it was the last one of a released lease, the memory is returned.
LEMMA FinishOwnerKeeps ==
    ASSUME LedgerInv, NEW r \in Requests, NEW c \in Counters, NEW l \in Leases,
           NEW t \in Temporaries, NEW h \in Deferrals, NEW freed \in Nat,
           l.st = lease[r].st, l.owners = lease[r].owners, lease[r].owners > 0,
           l.final = lease[r].final,
           l.body = lease[r].body, l.slot = lease[r].slot, l.resp = lease[r].resp - freed,
           c.pending = ctl.pending, c.body = ctl.body, c.resp = ctl.resp - freed,
           c.parent = ctl.parent - freed, c.holders = ctl.holders, c.deferred = ctl.deferred,
           \A u \in Temps : t[u].st # "active" => t[u].size = 0,
           \A u \in Temps : t[u].st = "active" => temp[r][u].st = "active",
           l.resp = l.committed + SumFunctionOnSet(Sizes(t), Temps),
           l.owners - 1 = Cardinality(Open(t)) + (IF h = "active" THEN 1 ELSE 0),
           FinishOwner(c, r, l, freed),
           temp' = [temp EXCEPT ![r] = t], hold' = [hold EXCEPT ![r] = h],
           UNCHANGED <<pend, op>>
    PROVE  /\ LedgerInv'
           /\ \E k \in Nat : /\ wq' = Woken(wq, k)
                             /\ ctl'.body + ctl'.resp = ctl.body + ctl.resp - k
  <1> DEFINE m == [l EXCEPT !.owners = @ - 1]
  <1>0. l.owners \in Nat /\ l.owners > 0
    BY DEF Leases
  <1>1. /\ m \in Leases /\ m.st = l.st /\ m.owners = l.owners - 1 /\ m.body = l.body
        /\ m.resp = l.resp /\ m.committed = l.committed /\ m.slot = l.slot /\ m.final = l.final
    BY <1>0 DEF Leases
  <1>2. \/ m.st # "active" /\ m.owners = 0 /\ Finalize(c, r, m, freed)
        \/ /\ ~(m.st # "active" /\ m.owners = 0)
           /\ lease' = [lease EXCEPT ![r] = m] /\ ctl' = c /\ wq' = Woken(wq, freed)
    BY DEF FinishOwner
  <1> HIDE DEF m
  <1>3. lease[r].st # "none" /\ ~lease[r].final
    BY <1>0, Mine DEF LeaseRules
  <1>4. IsFiniteSet(Open(t)) /\ Cardinality(Open(t)) \in Nat
    BY Constants, FS_Subset, FS_CardinalityType DEF Open
  <1>5. CASE m.st # "active" /\ m.owners = 0 /\ Finalize(c, r, m, freed)
    <2>1. m.st \in {"requested", "released"}
      BY <1>1, <1>3, <1>5 DEF Leases
    <2>2. h # "active" /\ Cardinality(Open(t)) = 0
      BY <1>0, <1>1, <1>4, <1>5
    <2>3. ctl.deferred \ {r} = c.deferred \ {r}
      OBVIOUS
    <2>4. /\ m.body = lease[r].body /\ m.slot = lease[r].slot
          /\ m.resp = lease[r].resp - freed /\ ~m.final
      BY <1>1, <1>3
    <2> QED
      BY <1>1, <1>3, <1>5, <2>1, <2>2, <2>3, <2>4, FinalizeKeeps
  <1>6. CASE /\ ~(m.st # "active" /\ m.owners = 0)
             /\ lease' = [lease EXCEPT ![r] = m] /\ ctl' = c /\ wq' = Woken(wq, freed)
    <2>1. /\ pend[r] \in Pendings /\ lease[r] \in Leases /\ ctl \in Counters
          /\ lease[r].body \in Nat /\ lease[r].resp \in Nat /\ pend[r].bytes \in Nat
          /\ ctl.body \in Int /\ ctl.resp \in Int /\ ctl.pending \in Int /\ ctl.parent \in Int
          /\ ctl.parent = ctl.body + ctl.resp
      BY Mine DEF Pendings, Leases, Counters
    <2>2. Owned(r, pend[r], m, t, h, op[r])
      <3>1. PendingRules(pend[r], m, t, op[r])
        <4>1. lease[r].resp = 0 => m.resp = 0
          <5>1. l.resp \in Nat
            BY DEF Leases
          <5> QED
            BY <1>1, <2>1, <5>1
        <4> QED
          BY <1>1, <4>1, Mine DEF PendingRules
      <3>2. LeaseRules(m, t, h)
        <4>1. m.st # "none" /\ ~m.final /\ (m.st = "released" => m.owners > 0)
          <5>1. m.owners \in Nat
            BY <1>1 DEF Leases
          <5>2. m.st # "none"
            BY <1>1, <1>3
          <5>3. ~m.final
            BY <1>1, <1>3
          <5>4. ~(m.st # "active" /\ m.owners = 0)
            BY <1>6
          <5> QED
            BY ONLY <5>1, <5>2, <5>3, <5>4
        <4>2. m.resp = m.committed + SumFunctionOnSet(Sizes(t), Temps)
          BY <1>1
        <4>3. m.owners = Cardinality(Open(t)) + (IF h = "active" THEN 1 ELSE 0)
          BY <1>1
        <4> QED
          BY ONLY <4>1, <4>2, <4>3, \A u \in Temps : t[u].st # "active" => t[u].size = 0
          DEF LeaseRules
      <3>3. LimitRules(r, pend[r], m)
        <4>1. m.body = lease[r].body /\ m.resp = lease[r].resp - freed
          BY <1>1
        <4> QED
          BY <2>1, <4>1, Mine, Constants DEF LimitRules
      <3>4. ClaimRules(pend[r], m)
        BY <1>1, Mine DEF ClaimRules
      <3> QED
        BY <1>1, <3>1, <3>2, <3>3, <3>4, Mine DEF Owned
    <2>3. Charged(r, pend[r], m)
      <3>1. ctl'.deferred = IF Deferred(m) THEN ctl.deferred \cup {r} ELSE ctl.deferred \ {r}
        <4>1. r \in ctl.deferred <=> Deferred(lease[r])
          BY Mine
        <4>2. Deferred(m) <=> Deferred(lease[r])
          BY <1>1 DEF Deferred
        <4>3. ctl'.deferred = ctl.deferred
          BY <1>6
        <4> QED
          BY ONLY <4>1, <4>2, <4>3
      <3>2. ctl'.holders
              = IF pend[r].slot \/ m.slot THEN ctl.holders \cup {r} ELSE ctl.holders \ {r}
        BY <1>1, <1>6, Mine
      <3>3. /\ ctl'.pending = ctl.pending - pend[r].bytes + pend[r].bytes
            /\ ctl'.body = ctl.body - (pend[r].bytes + lease[r].body) + (pend[r].bytes + m.body)
            /\ ctl'.resp = ctl.resp - lease[r].resp + m.resp
        BY <1>1, <1>6, <2>1
      <3>4. ctl'.parent = ctl'.body + ctl'.resp
        BY <1>6, <2>1
      <3> QED
        BY <1>6, <3>1, <3>2, <3>3, <3>4 DEF Charged
    <2>4. WithinLimits(r, pend[r], m)
      <3>1. LargeShare(pend[r], m) = LargeShare(pend[r], lease[r])
        BY <1>1 DEF LargeShare
      <3>2. LargeShare(pend[r], m) \in Nat
        BY <1>1, <2>1, ShareIsNat
      <3>3. /\ pend[r].bytes + m.body + m.resp <= pend[r].bytes + lease[r].body + lease[r].resp
        BY <1>1, <2>1
      <3>4. pend[r].slot \/ m.slot => r \in ctl.holders
        BY <1>1, Mine
      <3> QED
        BY <3>1, <3>2, <3>3, <3>4 DEF WithinLimits
    <2>5. pend' = [pend EXCEPT ![r] = pend[r]] /\ op' = [op EXCEPT ![r] = op[r]]
      BY Unchanged
    <2>6. LedgerInv'
      BY <1>6, <2>2, <2>3, <2>4, <2>5, LedgerStep
    <2>7. ctl'.body + ctl'.resp = ctl.body + ctl.resp - freed
      BY <1>6, <2>1
    <2> QED
      BY <1>6, <2>6, <2>7
  <1> QED
    BY <1>2, <1>5, <1>6

\* A reservation that is open is closed: it holds nothing any more, and owns nothing.
LEMMA TempCloses ==
    ASSUME LedgerInv, NEW r \in Requests, NEW u \in Temps, temp[r][u].st = "active",
           NEW z \in [st : {"none", "active", "released", "committed"}, size : Nat],
           z.st \in {"released", "committed"}, z.size = 0
    PROVE  LET t == [temp[r] EXCEPT ![u] = z]
           IN  /\ t \in Temporaries
               /\ \A v \in Temps : t[v].st # "active" => t[v].size = 0
               /\ \A v \in Temps : t[v].st = "active" => temp[r][v].st = "active"
               /\ temp[r][u].size \in Nat /\ lease[r].owners > 0
               /\ lease[r].resp - temp[r][u].size \in Nat
               /\ lease[r].resp - temp[r][u].size
                    = lease[r].committed + SumFunctionOnSet(Sizes(t), Temps)
               /\ lease[r].owners - 1
                    = Cardinality(Open(t)) + (IF hold[r] = "active" THEN 1 ELSE 0)
  <1> DEFINE t == [temp[r] EXCEPT ![u] = z]
             s == SumFunctionOnSet(Sizes(temp[r]), Temps)
             c == Cardinality(Open(temp[r]))
             s2 == SumFunctionOnSet(Sizes(t), Temps)
             c2 == Cardinality(Open(t))
             n == temp[r][u].size
             k == IF hold[r] = "active" THEN 1 ELSE 0
  <1>1. temp[r] \in Temporaries /\ lease[r] \in Leases
    BY Mine
  <1>2. /\ t \in Temporaries /\ s \in Nat /\ c \in Nat /\ n <= s /\ c > 0
        /\ s2 = s - n + z.size /\ c2 = c - 1 + 0
    BY <1>1, TempChanges
  <1>3. lease[r].resp = lease[r].committed + s /\ lease[r].owners = c + k
    BY Mine DEF LeaseRules
  <1>4. t[u] = z /\ \A v \in Temps : v # u => t[v] = temp[r][v]
    BY <1>1 DEF Temporaries
  <1>5. \A v \in Temps : temp[r][v].st # "active" => temp[r][v].size = 0
    BY Mine DEF LeaseRules
  <1>6. /\ \A v \in Temps : t[v].st # "active" => t[v].size = 0
        /\ \A v \in Temps : t[v].st = "active" => temp[r][v].st = "active"
    <2> HIDE DEF t
    <2> QED
      BY <1>4, <1>5
  <1>7. n \in Nat /\ k \in Nat
    BY <1>1 DEF Temporaries
  <1>8. lease[r].committed \in Nat
    BY <1>1 DEF Leases
  <1> HIDE DEF s, c, s2, c2, n, k, t
  <1>9. /\ lease[r].owners > 0 /\ lease[r].resp - n \in Nat
        /\ lease[r].resp - n = lease[r].committed + s2
        /\ lease[r].owners - 1 = c2 + k
    BY <1>2, <1>3, <1>7, <1>8
  <1> QED
    BY <1>2, <1>6, <1>7, <1>9 DEF s, c, s2, c2, n, k, t

LEMMA ReleaseTempKeeps ==
    ASSUME LedgerInv, NEW r \in Requests, NEW u \in Temps, ReleaseTemp(r, u)
    PROVE  /\ LedgerInv'
           /\ \E k \in Nat : /\ wq' = Woken(wq, k)
                             /\ ctl'.body + ctl'.resp = ctl.body + ctl.resp - k
  <1> DEFINE n == temp[r][u].size
             z == [st |-> "released", size |-> 0]
             t == [temp[r] EXCEPT ![u] = z]
             x == ctl.resp - n
             q == ctl.parent - n
             c == [ctl EXCEPT !.resp = @ - n, !.parent = @ - n]
             l == [lease[r] EXCEPT !.resp = @ - n]
  <1>1. /\ temp[r][u].st = "active" /\ FinishOwner(c, r, l, n) /\ UNCHANGED <<pend, hold, op>>
    BY DEF ReleaseTemp
  <1>2. temp' = [temp EXCEPT ![r] = t]
    BY Objects DEF ReleaseTemp
  <1>3. /\ z \in [st : {"none", "active", "released", "committed"}, size : Nat]
        /\ z.st = "released" /\ z.size = 0
    OBVIOUS
  <1> HIDE DEF z
  <1>4. /\ t \in Temporaries
        /\ \A v \in Temps : t[v].st # "active" => t[v].size = 0
        /\ \A v \in Temps : t[v].st = "active" => temp[r][v].st = "active"
        /\ n \in Nat /\ lease[r].owners > 0 /\ lease[r].resp - n \in Nat
        /\ lease[r].resp - n = lease[r].committed + SumFunctionOnSet(Sizes(t), Temps)
        /\ lease[r].owners - 1 = Cardinality(Open(t)) + (IF hold[r] = "active" THEN 1 ELSE 0)
    BY <1>1, <1>3, TempCloses
  <1> HIDE DEF n, t
  <1>5. /\ l \in Leases /\ l.st = lease[r].st /\ l.body = lease[r].body /\ l.resp = lease[r].resp - n
        /\ l.committed = lease[r].committed /\ l.owners = lease[r].owners
        /\ l.final = lease[r].final /\ l.slot = lease[r].slot
    BY <1>4, Mine DEF Leases
  <1>6. /\ c \in Counters /\ c.resp = ctl.resp - n /\ c.parent = ctl.parent - n
        /\ c.body = ctl.body /\ c.pending = ctl.pending /\ c.holders = ctl.holders
        /\ c.deferred = ctl.deferred
    <2>1. ctl \in Counters
      BY Mine
    <2>2. x \in Int /\ q \in Int /\ c = WithCharge(ctl, x, q)
      BY <1>4, <2>1 DEF Counters, WithCharge
    <2> HIDE DEF x, q, c
    <2>3. /\ c \in Counters /\ c.resp = x /\ c.parent = q /\ c.body = ctl.body
          /\ c.pending = ctl.pending /\ c.holders = ctl.holders /\ c.deferred = ctl.deferred
      BY ONLY <2>1, <2>2, RespCounted
    <2> QED
      BY <2>3 DEF x, q
  <1> HIDE DEF c, l
  <1>7. hold' = [hold EXCEPT ![r] = hold[r]] /\ hold[r] \in Deferrals
    BY <1>1, Unchanged, Mine
  <1>8. /\ l.resp = l.committed + SumFunctionOnSet(Sizes(t), Temps)
        /\ l.owners - 1 = Cardinality(Open(t)) + (IF hold[r] = "active" THEN 1 ELSE 0)
        /\ UNCHANGED <<pend, op>>
    BY <1>1, <1>4, <1>5
  <1> QED
    BY ONLY LedgerInv, r \in Requests, <1>1, <1>2, <1>4, <1>5, <1>6, <1>7, <1>8, FinishOwnerKeeps

LEMMA CommitTempKeeps ==
    ASSUME LedgerInv, NEW r \in Requests, NEW u \in Temps, CommitTemp(r, u)
    PROVE  /\ LedgerInv'
           /\ \E k \in Nat : /\ wq' = Woken(wq, k)
                             /\ ctl'.body + ctl'.resp = ctl.body + ctl.resp - k
  <1> DEFINE n == temp[r][u].size
             z == [st |-> "committed", size |-> 0]
             t == [temp[r] EXCEPT ![u] = z]
             l == [lease[r] EXCEPT !.committed = @ + n]
  <1>1. /\ temp[r][u].st = "active" /\ FinishOwner(ctl, r, l, 0) /\ UNCHANGED <<pend, hold, op>>
    BY DEF CommitTemp
  <1>2. temp' = [temp EXCEPT ![r] = t]
    BY Objects DEF CommitTemp
  <1>3. /\ z \in [st : {"none", "active", "released", "committed"}, size : Nat]
        /\ z.st = "committed" /\ z.size = 0
    OBVIOUS
  <1> HIDE DEF z
  <1>4. /\ t \in Temporaries
        /\ \A v \in Temps : t[v].st # "active" => t[v].size = 0
        /\ \A v \in Temps : t[v].st = "active" => temp[r][v].st = "active"
        /\ n \in Nat /\ lease[r].owners > 0 /\ lease[r].resp - n \in Nat
        /\ lease[r].resp - n = lease[r].committed + SumFunctionOnSet(Sizes(t), Temps)
        /\ lease[r].owners - 1 = Cardinality(Open(t)) + (IF hold[r] = "active" THEN 1 ELSE 0)
    BY <1>1, <1>3, TempCloses
  <1> HIDE DEF n, t
  <1>5. /\ l \in Leases /\ l.st = lease[r].st /\ l.body = lease[r].body /\ l.resp = lease[r].resp
        /\ l.committed = lease[r].committed + n /\ l.owners = lease[r].owners
        /\ l.final = lease[r].final /\ l.slot = lease[r].slot
    BY <1>4, Mine DEF Leases
  <1> HIDE DEF l
  <1>6. l.resp = lease[r].resp - 0 /\ l.resp = l.committed + SumFunctionOnSet(Sizes(t), Temps)
    <2>1. /\ lease[r].resp \in Nat /\ lease[r].committed \in Nat
          /\ SumFunctionOnSet(Sizes(t), Temps) = lease[r].resp - n - lease[r].committed
             \/ SumFunctionOnSet(Sizes(t), Temps) \notin Int
      BY <1>4, Mine DEF Leases
    <2>2. SumFunctionOnSet(Sizes(t), Temps) \in Nat
      <3> DEFINE f == Sizes(t)
      <3>1. \A v \in Temps : f[v] \in Nat
        BY <1>4 DEF Sizes, Temporaries
      <3> HIDE DEF f
      <3>2. SumFunctionOnSet(f, Temps) \in Nat
        BY <3>1, Constants, SumIsNat
      <3> QED
        BY <3>2 DEF f
    <2> QED
      BY <1>4, <1>5, <2>1, <2>2
  <1>7. hold' = [hold EXCEPT ![r] = hold[r]] /\ hold[r] \in Deferrals /\ ctl \in Counters
    BY <1>1, Unchanged, Mine
  <1>8. ctl.resp = ctl.resp - 0 /\ ctl.parent = ctl.parent - 0 /\ 0 \in Nat
    BY <1>7 DEF Counters
  <1>9. /\ l.owners - 1 = Cardinality(Open(t)) + (IF hold[r] = "active" THEN 1 ELSE 0)
        /\ UNCHANGED <<pend, op>>
    BY <1>1, <1>4, <1>5
  <1> QED
    BY ONLY LedgerInv, r \in Requests, <1>1, <1>2, <1>4, <1>5, <1>6, <1>7, <1>8, <1>9,
            FinishOwnerKeeps

LEMMA ReleaseDeferralKeeps ==
    ASSUME LedgerInv, NEW r \in Requests, ReleaseDeferral(r)
    PROVE  /\ LedgerInv'
           /\ \E k \in Nat : /\ wq' = Woken(wq, k)
                             /\ ctl'.body + ctl'.resp = ctl.body + ctl.resp - k
  <1> DEFINE l == lease[r]
             t == temp[r]
             h == "released"
  <1>1. /\ hold[r] = "active" /\ FinishOwner(ctl, r, l, 0) /\ UNCHANGED <<pend, temp, op>>
        /\ hold' = [hold EXCEPT ![r] = h]
    BY DEF ReleaseDeferral
  <1>2. /\ l \in Leases /\ t \in Temporaries /\ h \in Deferrals /\ ctl \in Counters
        /\ LeaseRules(l, t, hold[r]) /\ Cardinality(Open(t)) \in Nat
    BY Mine DEF Deferrals
  <1>3. /\ \A u \in Temps : t[u].st # "active" => t[u].size = 0
        /\ l.resp = l.committed + SumFunctionOnSet(Sizes(t), Temps)
        /\ l.owners = Cardinality(Open(t)) + 1
    BY <1>1, <1>2 DEF LeaseRules
  <1>4. /\ l.owners > 0 /\ h # "active"
        /\ l.owners - 1 = Cardinality(Open(t)) + (IF h = "active" THEN 1 ELSE 0)
    BY <1>2, <1>3
  <1>5. temp' = [temp EXCEPT ![r] = t]
    BY <1>1, Unchanged
  <1>6. /\ ctl.resp = ctl.resp - 0 /\ ctl.parent = ctl.parent - 0 /\ 0 \in Nat
        /\ l.resp = lease[r].resp - 0
    BY <1>2 DEF Counters, Leases
  <1> QED
    BY <1>1, <1>2, <1>3, <1>4, <1>5, <1>6, FinishOwnerKeeps

LEMMA ReleaseRequestKeeps ==
    ASSUME LedgerInv, NEW r \in Requests, ReleaseRequest(r)
    PROVE  /\ LedgerInv'
           /\ \E k \in Nat : /\ wq' = Woken(wq, k)
                             /\ ctl'.body + ctl'.resp = ctl.body + ctl.resp - k
  <1> DEFINE l == [lease[r] EXCEPT !.st = "released"]
  <1>1. /\ lease[r].st = "requested" /\ UNCHANGED <<pend, temp, hold, op>>
        /\ \/ /\ l.owners > 0
              /\ lease' = [lease EXCEPT ![r] = l]
              /\ ctl' = [ctl EXCEPT !.deferred = @ \cup {r}]
              /\ UNCHANGED wq
           \/ l.owners = 0 /\ Finalize(ctl, r, l, 0)
    BY DEF ReleaseRequest
  <1>2. /\ l \in Leases /\ l.st = "released" /\ l.body = lease[r].body /\ l.resp = lease[r].resp
        /\ l.committed = lease[r].committed /\ l.owners = lease[r].owners
        /\ l.final = lease[r].final /\ l.slot = lease[r].slot
    BY Mine DEF Leases
  <1> HIDE DEF l
  <1>3. /\ ctl \in Counters /\ ctl.body \in Int /\ ctl.resp \in Int /\ ctl.pending \in Int
        /\ ctl.parent \in Int /\ pend[r] \in Pendings /\ lease[r] \in Leases
        /\ lease[r].body \in Nat /\ lease[r].resp \in Nat /\ pend[r].bytes \in Nat
        /\ lease[r].owners \in Nat
    BY Mine DEF Counters, Pendings, Leases
  <1>4. /\ temp' = [temp EXCEPT ![r] = temp[r]] /\ hold' = [hold EXCEPT ![r] = hold[r]]
        /\ pend' = [pend EXCEPT ![r] = pend[r]] /\ op' = [op EXCEPT ![r] = op[r]]
    BY <1>1, Unchanged
  <1>5. CASE /\ l.owners > 0 /\ lease' = [lease EXCEPT ![r] = l]
             /\ ctl' = [ctl EXCEPT !.deferred = @ \cup {r}] /\ UNCHANGED wq
    <2>1. ~lease[r].final
      BY <1>2, <1>3, <1>5, Mine DEF LeaseRules
    <2>2. Owned(r, pend[r], l, temp[r], hold[r], op[r])
      <3>1. LeaseRules(l, temp[r], hold[r])
        BY <1>2, <1>5, <2>1, Mine DEF LeaseRules
      <3> QED
        BY <1>1, <1>2, <3>1, Mine DEF Owned, PendingRules, LimitRules, ClaimRules
    <2>3. /\ ctl' \in Counters /\ ctl'.body = ctl.body /\ ctl'.resp = ctl.resp
          /\ ctl'.pending = ctl.pending /\ ctl'.parent = ctl.parent
          /\ ctl'.holders = ctl.holders /\ ctl'.deferred = ctl.deferred \cup {r}
      BY <1>3, <1>5 DEF Counters
    <2>4. Charged(r, pend[r], l)
      <3>1. ctl'.deferred = IF Deferred(l) THEN ctl.deferred \cup {r} ELSE ctl.deferred \ {r}
        BY <1>2, <2>1, <2>3 DEF Deferred
      <3>2. ctl'.holders
              = IF pend[r].slot \/ l.slot THEN ctl.holders \cup {r} ELSE ctl.holders \ {r}
        BY <1>2, <2>3, Mine
      <3> QED
        BY <1>2, <1>3, <2>3, <3>1, <3>2, Mine DEF Charged
    <2>5. WithinLimits(r, pend[r], l)
      <3>1. LargeShare(pend[r], l) = LargeShare(pend[r], lease[r])
        BY <1>2 DEF LargeShare
      <3>2. LargeShare(pend[r], l) \in Nat
        BY <1>2, <1>3, ShareIsNat
      <3> QED
        BY <1>2, <1>3, <3>1, <3>2, Mine DEF WithinLimits
    <2>6. LedgerInv'
      BY <1>4, <1>5, <2>2, <2>4, <2>5, LedgerStep
    <2>7. wq' = Woken(wq, 0) /\ ctl'.body + ctl'.resp = ctl.body + ctl.resp - 0
      BY <1>3, <1>5, <2>3 DEF Woken
    <2> QED
      BY <2>6, <2>7
  <1>6. CASE l.owners = 0 /\ Finalize(ctl, r, l, 0) /\ ~l.final
    <2>1. hold[r] # "active" /\ Cardinality(Open(temp[r])) = 0
      <3>1. /\ lease[r].owners = Cardinality(Open(temp[r])) + (IF hold[r] = "active" THEN 1 ELSE 0)
            /\ Cardinality(Open(temp[r])) \in Nat
        BY Mine DEF LeaseRules
      <3>2. lease[r].owners = 0
        BY <1>2, <1>6
      <3> QED
        BY <3>1, <3>2
    <2>2. \A u \in Temps : temp[r][u].st # "active" => temp[r][u].size = 0
      BY Mine DEF LeaseRules
    <2>3. /\ ctl.resp = ctl.resp - 0 /\ ctl.parent = ctl.parent - 0 /\ 0 \in Nat
          /\ l.resp = lease[r].resp - 0
      BY <1>2, <1>3
    <2>4. temp[r] \in Temporaries /\ hold[r] \in Deferrals
      BY Mine
    <2> QED
      BY <1>1, <1>2, <1>3, <1>4, <1>6, <2>1, <2>2, <2>3, <2>4, FinalizeKeeps
  \* Its last owner has finalized the memory already.
  <1>7. CASE l.owners = 0 /\ Finalize(ctl, r, l, 0) /\ l.final
    <2>1. lease' = [lease EXCEPT ![r] = l] /\ ctl' = ctl /\ wq' = Woken(wq, 0)
      BY <1>7 DEF Finalize, FinalLease, FinalCtl
    <2>2. Owned(r, pend[r], l, temp[r], hold[r], op[r])
      <3>1. LeaseRules(l, temp[r], hold[r])
        <4>1. LeaseRules(lease[r], temp[r], hold[r])
          BY Mine
        <4> QED
          BY ONLY <1>2, <1>7, <4>1 DEF LeaseRules
      <3> QED
        BY <1>1, <1>2, <3>1, Mine DEF Owned, PendingRules, LimitRules, ClaimRules
    <2>3. Charged(r, pend[r], l) /\ WithinLimits(r, pend[r], l)
      BY <1>1, <1>2, <1>3, <1>7, <2>1, Uncharged DEF Deferred
    <2>4. LedgerInv'
      BY <1>4, <2>1, <2>2, <2>3, LedgerStep
    <2>5. ctl'.body + ctl'.resp = ctl.body + ctl.resp - 0
      BY <1>3, <2>1
    <2> QED
      BY <2>1, <2>4, <2>5
  <1> QED
    BY <1>1, <1>5, <1>6, <1>7

-----------------------------------------------------------------------------
(* The ledger *)

LEMMA LedgerInit ==
    ASSUME Init PROVE LedgerInv
  <1> DEFINE t0 == [u \in Temps |-> NoTemp]
  <1>1. /\ NoPending \in Pendings /\ NoPending.st = "none" /\ NoPending.bytes = 0
        /\ NoPending.slot = FALSE
        /\ NoLease \in Leases /\ NoLease.st = "none" /\ NoLease.body = 0 /\ NoLease.resp = 0
        /\ NoLease.committed = 0 /\ NoLease.owners = 0 /\ NoLease.final = FALSE
        /\ NoLease.slot = FALSE
    BY DEF NoPending, Pendings, NoLease, Leases
  <1>2. /\ t0 \in Temporaries
        /\ SumFunctionOnSet(Sizes(t0), Temps) = 0 /\ Cardinality(Open(t0)) = 0
        /\ \A u \in Temps : t0[u].st = "none" /\ t0[u].size = 0
    BY NoTemps
  <1>3. /\ pend = [r \in Requests |-> NoPending] /\ lease = [r \in Requests |-> NoLease]
        /\ temp = [r \in Requests |-> t0] /\ hold = [r \in Requests |-> "none"]
        /\ op = [r \in Requests |-> NoOp]
        /\ ctl = [body |-> 0, pending |-> 0, resp |-> 0, parent |-> 0,
                  holders |-> {}, deferred |-> {}]
    BY DEF Init
  <1>4. /\ ctl \in Counters /\ ctl.body = 0 /\ ctl.pending = 0 /\ ctl.resp = 0 /\ ctl.parent = 0
        /\ ctl.holders = {} /\ ctl.deferred = {}
    BY <1>3 DEF Counters
  <1> HIDE DEF t0
  <1>5. TypeOK
    BY <1>1, <1>2, <1>3, <1>4, NoOpIsIdle DEF TypeOK, Deferrals
  <1>6. ASSUME NEW r \in Requests
        PROVE  /\ Owned(r, pend[r], lease[r], temp[r], hold[r], op[r])
               /\ pend[r].bytes = 0 /\ lease[r].body = 0 /\ lease[r].resp = 0
               /\ ~pend[r].slot /\ ~lease[r].slot /\ ~Deferred(lease[r])
    <2>1. Owned(r, NoPending, NoLease, t0, "none", NoOp)
      <3>1. PendingRules(NoPending, NoLease, t0, NoOp)
        BY <1>1, NoOpIsIdle DEF PendingRules
      <3>2. LeaseRules(NoLease, t0, "none")
        BY <1>1, <1>2 DEF LeaseRules
      <3>3. LimitRules(r, NoPending, NoLease) /\ ClaimRules(NoPending, NoLease)
        BY <1>1, Constants DEF LimitRules, ClaimRules
      <3> QED
        BY <1>1, <1>2, <3>1, <3>2, <3>3, NoOpIsIdle DEF Owned, Deferrals
    <2>2. /\ pend[r] = NoPending /\ lease[r] = NoLease /\ temp[r] = t0 /\ hold[r] = "none"
          /\ op[r] = NoOp
      BY <1>3
    <2> QED
      BY <1>1, <2>1, <2>2 DEF Deferred
  <1> DEFINE f == [r \in Requests |-> pend[r].bytes]
             g == [r \in Requests |-> BodyOf(r)]
             h == [r \in Requests |-> lease[r].resp]
             k == [r \in Requests |-> IF SmallLane(BodyOf(r)) THEN 0 ELSE BodyOf(r)]
  <1>7. \A r \in Requests : f[r] = 0 /\ g[r] = 0 /\ h[r] = 0 /\ k[r] = 0
    BY <1>6 DEF BodyOf
  <1> HIDE DEF f, g, h, k
  <1>8. /\ SumFunctionOnSet(f, Requests) = 0 /\ SumFunctionOnSet(g, Requests) = 0
        /\ SumFunctionOnSet(h, Requests) = 0 /\ SumFunctionOnSet(k, Requests) = 0
    BY <1>7, Constants, SumOfZeros
  <1>9. Totals /\ LargeBodiesLeaveReserve
    BY <1>4, <1>8, Constants DEF Totals, LargeBodiesLeaveReserve, f, g, h, k
  <1>10. Members
    BY <1>4, <1>6 DEF Members
  <1>11. ctl.body + ctl.resp <= Budget /\ Cardinality(ctl.holders) <= LargeLimit
    BY <1>4, Constants, FS_EmptySet
  <1> QED
    BY <1>5, <1>6, <1>9, <1>10, <1>11 DEF LedgerInv

LEMMA LedgerNext ==
    ASSUME LedgerInv, [Next]_vars PROVE LedgerInv'
  <1>1. ASSUME NEW r \in Requests, BodyStep(r) PROVE LedgerInv'
    <2>1. ASSUME NEW k \in Kinds, NEW n \in BodyChunks, Reserve(r, k, n) PROVE LedgerInv'
      BY <2>1, ReserveKeeps
    <2>2. CASE TurnResumes(r) \/ WaitAbandoned(r) \/ TurnAbandoned(r)
      BY <2>2, TurnKeeps
    <2>3. CASE CommitAfterWaitTurn(r)
      BY <2>3, CommitAfterWaitTurnKeeps
    <2>4. CASE Retry(r)
      BY <2>4, RetryAttemptKeeps
    <2>5. CASE Transfer(r)
      BY <2>5, TransferKeeps
    <2>6. CASE ReleasePending(r)
      BY <2>6, ReleasePendingKeeps
    <2>7. ASSUME NEW n \in BodyChunks, ReleaseBody(r, n) PROVE LedgerInv'
      <3>1. n \in Nat
        BY Constants
      <3> QED
        BY <2>7, <3>1, ReleaseBodyKeeps
    <2> QED
      BY <1>1, <2>1, <2>2, <2>3, <2>4, <2>5, <2>6, <2>7 DEF BodyStep
  <1>2. ASSUME NEW r \in Requests, ResponseStep(r) PROVE LedgerInv'
    <2>0. ResponseChunks \subseteq Nat
      BY Constants
    <2>1. ASSUME NEW n \in ResponseChunks, ReserveResponse(r, n) PROVE LedgerInv'
      BY <2>0, <2>1, ReserveResponseKeeps
    <2>2. ASSUME NEW u \in Temps, NEW n \in ResponseChunks, ActivateTemp(r, u, n)
          PROVE  LedgerInv'
      BY <2>0, <2>2, ActivateTempKeeps
    <2>3. ASSUME NEW u \in Temps, NEW n \in ResponseChunks, GrowTemp(r, u, n)
          PROVE  LedgerInv'
      BY <2>0, <2>3, GrowTempKeeps
    <2>4. ASSUME NEW u \in Temps, ReleaseTemp(r, u) PROVE LedgerInv'
      BY <2>4, ReleaseTempKeeps
    <2>5. ASSUME NEW u \in Temps, CommitTemp(r, u) PROVE LedgerInv'
      BY <2>5, CommitTempKeeps
    <2> QED
      BY <1>2, <2>1, <2>2, <2>3, <2>4, <2>5 DEF ResponseStep
  <1>3. ASSUME NEW r \in Requests, LeaseStep(r) PROVE LedgerInv'
    <2>1. CASE OpenPending(r)
      BY <2>1, OpenPendingKeeps
    <2>2. CASE OpenLease(r)
      BY <2>2, OpenLeaseKeeps
    <2>3. CASE Defer(r)
      BY <2>3, DeferKeeps
    <2>4. CASE ReleaseDeferral(r)
      BY <2>4, ReleaseDeferralKeeps
    <2>5. CASE Release(r)
      BY <2>5, ReleaseKeeps
    <2>6. CASE ReleaseRequest(r)
      BY <2>6, ReleaseRequestKeeps
    <2>7. CASE NewRequest(r)
      BY <2>7, NewRequestKeeps
    <2> QED
      BY <1>3, <2>1, <2>2, <2>3, <2>4, <2>5, <2>6, <2>7 DEF LeaseStep
  <1>4. CASE UNCHANGED vars
    BY <1>4 DEF vars, LedgerInv, TypeOK, Totals, Members, BodyOf, LargeBodiesLeaveReserve
  <1> QED
    BY <1>1, <1>2, <1>3, <1>4 DEF Next

LEMMA LedgerSays ==
    ASSUME LedgerInv PROVE TypeOK /\ LedgerSound
  <1>1. LedgerExact
    <2>1. ASSUME NEW r \in Requests
          PROVE  lease[r].resp = lease[r].committed
                   + SumFunctionOnSet([t \in Temps |-> temp[r][t].size], Temps)
      BY Mine DEF LeaseRules, Sizes
    <2> QED
      BY <2>1 DEF LedgerInv, Totals, LedgerExact
  <1>2. BudgetRespected
    BY Mine DEF LedgerInv, BudgetRespected, LimitRules
  <1>3. FinalizedByLastOwner
    <2>1. ASSUME NEW r \in Requests
          PROVE  LET l == lease[r]
                     open == {t \in Temps : temp[r][t].st = "active"}
                 IN  /\ l.owners = Cardinality(open) + (IF hold[r] = "active" THEN 1 ELSE 0)
                     /\ l.final => /\ l.st \in {"requested", "released"}
                                   /\ l.owners = 0
                                   /\ l.body = 0 /\ l.resp = 0
                     /\ l.st = "released" /\ ~l.final <=> r \in ctl.deferred
                     /\ r \in ctl.deferred => l.owners > 0
      <3>1. /\ LeaseRules(lease[r], temp[r], hold[r])
            /\ r \in ctl.deferred <=> Deferred(lease[r])
        BY Mine
      <3> QED
        BY <3>1 DEF LeaseRules, Open, Deferred
    <2> QED
      BY <2>1 DEF FinalizedByLastOwner
  <1> QED
    BY <1>1, <1>2, <1>3 DEF LedgerInv, LedgerSound

\* Every counter, set and object of the ledger keeps its type, and no counter of an owner goes
\* below zero, whatever the order of the calls (core.py, RequestAdmissionController).
THEOREM LedgerTypeCorrect == Spec => []TypeOK
  <1>1. Init => LedgerInv
    BY LedgerInit
  <1>2. LedgerInv /\ [Next]_vars => LedgerInv'
    BY LedgerNext
  <1>3. LedgerInv => TypeOK
    BY LedgerSays
  <1> QED
    BY <1>1, <1>2, <1>3, PTL DEF Spec

\* For any requests, limits and chunk sizes: the shared counters are the sums of what the
\* requests hold, within the budget and outside the reserve of the small bodies, and the last
\* owner of a request's memory returns it (core.py, RequestAdmissionLease and its reservations).
THEOREM LedgerIsSound == Spec => []LedgerSound
  <1>1. Init => LedgerInv
    BY LedgerInit
  <1>2. LedgerInv /\ [Next]_vars => LedgerInv'
    BY LedgerNext
  <1>3. LedgerInv => LedgerSound
    BY LedgerSays
  <1> QED
    BY <1>1, <1>2, <1>3, PTL DEF Spec

-----------------------------------------------------------------------------
(* Memory that is still used stays charged *)

\* What a step of request r makes of its lease.
Charges(r) ==
    \E m : /\ lease' = [lease EXCEPT ![r] = m]
           /\ lease[r].st # "active" /\ m.owners > 0 => m.body = lease[r].body

LEMMA FinishOwnerCharges ==
    ASSUME LedgerInv, NEW r \in Requests, NEW c, NEW l \in Leases, NEW freed,
           l.body = lease[r].body, FinishOwner(c, r, l, freed)
    PROVE  Charges(r)
  <1> DEFINE m == [l EXCEPT !.owners = @ - 1]
  <1>1. m.body = l.body
    BY DEF Leases
  <1>2. \/ m.owners = 0 /\ lease' = [lease EXCEPT ![r] = FinalLease(m)]
        \/ lease' = [lease EXCEPT ![r] = m]
    BY DEF FinishOwner, Finalize
  <1>3. FinalLease(m).owners = m.owners
    BY DEF FinalLease, Leases
  <1> HIDE DEF m
  <1> QED
    BY <1>1, <1>2, <1>3 DEF Charges

LEMMA StepCharges ==
    ASSUME LedgerInv, NEW r \in Requests, BodyStep(r) \/ ResponseStep(r) \/ LeaseStep(r)
    PROVE  Charges(r)
  <1>0. /\ lease \in [Requests -> Leases] /\ lease[r] \in Leases /\ temp[r] \in Temporaries
        /\ lease = [lease EXCEPT ![r] = lease[r]]
    BY Objects, Mine, Unchanged
  <1>1. CASE UNCHANGED lease
    BY <1>0, <1>1 DEF Charges
  <1>2. ASSUME lease[r].st = "active", NEW m, lease' = [lease EXCEPT ![r] = m] PROVE Charges(r)
    BY <1>2 DEF Charges
  <1>3. ASSUME NEW k \in Kinds, NEW n, OwnerActive(r, k), CommitBody(r, k, n) PROVE Charges(r)
    <2>1. CASE k = "pending"
      BY <1>1, <1>3, <2>1 DEF CommitBody
    <2>2. CASE k = "lease"
      <3> DEFINE m == [lease[r] EXCEPT !.body = @ + n,
                                       !.slot = @ \/ NeedsSlot(r, k, OwnerBytes(r, k) + n)]
      <3>1. lease' = [lease EXCEPT ![r] = m] /\ lease[r].st = "active"
        BY <1>0, <1>3, <2>2 DEF CommitBody, OwnerActive
      <3> HIDE DEF m
      <3> QED
        BY <1>2, <3>1
    <2> QED
      BY <2>1, <2>2 DEF Kinds
  <1>4. ASSUME NEW k \in Kinds, NEW n, Attempt(r, k, n) PROVE Charges(r)
    BY <1>1, <1>3, <1>4 DEF Attempt
  <1>5. CASE BodyStep(r)
    <2>1. ASSUME NEW k \in Kinds, NEW n \in BodyChunks, Reserve(r, k, n) PROVE Charges(r)
      BY <1>4, <2>1 DEF Reserve
    <2>2. CASE TurnResumes(r) \/ WaitAbandoned(r) \/ TurnAbandoned(r) \/ ReleasePending(r)
      BY <1>1, <2>2 DEF TurnResumes, WaitAbandoned, TurnAbandoned, ReleasePending
    <2>3. CASE CommitAfterWaitTurn(r)
      <3>1. op[r].kind \in Kinds
        BY Mine DEF Waits
      <3> QED
        BY <1>1, <1>3, <2>3, <3>1 DEF CommitAfterWaitTurn
    <2>4. CASE Retry(r)
      <3>1. op[r].kind \in Kinds
        BY Mine DEF Waits
      <3> QED
        BY <1>4, <2>4, <3>1 DEF Retry
    <2>5. CASE Transfer(r)
      <3> DEFINE m == [lease[r] EXCEPT !.body = @ + pend[r].bytes, !.slot = @ \/ pend[r].slot]
      <3>1. lease' = [lease EXCEPT ![r] = m] /\ lease[r].st = "active"
        BY <1>0, <2>5 DEF Transfer
      <3> HIDE DEF m
      <3> QED
        BY <1>2, <3>1
    <2>6. ASSUME NEW n \in BodyChunks, ReleaseBody(r, n) PROVE Charges(r)
      <3> DEFINE m == [lease[r] EXCEPT !.body = @ - n, !.slot = @ /\ ~(n = lease[r].body)]
      <3>1. lease' = [lease EXCEPT ![r] = m] /\ lease[r].st = "active"
        BY <1>0, <2>6 DEF ReleaseBody, InUse
      <3> HIDE DEF m
      <3> QED
        BY <1>2, <3>1
    <2> QED
      BY <1>5, <2>1, <2>2, <2>3, <2>4, <2>5, <2>6 DEF BodyStep
  <1>6. CASE ResponseStep(r)
    <2>1. ASSUME NEW n \in ResponseChunks, ReserveResponse(r, n) PROVE Charges(r)
      <3> DEFINE m == [lease[r] EXCEPT !.resp = @ + n, !.committed = @ + n]
      <3>1. lease' = [lease EXCEPT ![r] = m] /\ lease[r].st = "active"
        BY <1>0, <2>1 DEF ReserveResponse, InUse
      <3> HIDE DEF m
      <3> QED
        BY <1>2, <3>1
    <2>2. ASSUME NEW u \in Temps, NEW n \in ResponseChunks, ActivateTemp(r, u, n)
          PROVE  Charges(r)
      <3> DEFINE m == [lease[r] EXCEPT !.resp = @ + n, !.owners = @ + 1]
      <3>1. lease' = [lease EXCEPT ![r] = m] /\ lease[r].st = "active"
        BY <1>0, <2>2 DEF ActivateTemp, InUse
      <3> HIDE DEF m
      <3> QED
        BY <1>2, <3>1
    <2>3. ASSUME NEW u \in Temps, NEW n \in ResponseChunks, GrowTemp(r, u, n)
          PROVE  Charges(r)
      <3> DEFINE m == [lease[r] EXCEPT !.resp = @ + n]
      <3>1. lease' = [lease EXCEPT ![r] = m]
        BY <1>0, <2>3 DEF GrowTemp
      <3>2. m.body = lease[r].body
        BY <1>0 DEF Leases
      <3> HIDE DEF m
      <3> QED
        BY <3>1, <3>2 DEF Charges
    <2>4. ASSUME NEW u \in Temps, ReleaseTemp(r, u) PROVE Charges(r)
      <3> DEFINE n == temp[r][u].size
                 l == [lease[r] EXCEPT !.resp = @ - n]
                 c == [ctl EXCEPT !.resp = @ - n, !.parent = @ - n]
      <3>1. FinishOwner(c, r, l, n) /\ temp[r][u].st = "active"
        BY <2>4 DEF ReleaseTemp
      <3>2. lease[r].resp - n \in Nat
        <4> DEFINE z == [st |-> "released", size |-> 0]
        <4>1. /\ z \in [st : {"none", "active", "released", "committed"}, size : Nat]
              /\ z.st \in {"released", "committed"} /\ z.size = 0
          OBVIOUS
        <4> HIDE DEF z
        <4> QED
          BY <3>1, <4>1, TempCloses
      <3> HIDE DEF n, c
      <3>3. l \in Leases /\ l.body = lease[r].body
        BY <1>0, <3>2 DEF Leases
      <3> HIDE DEF l
      <3> QED
        BY <3>1, <3>3, FinishOwnerCharges
    <2>5. ASSUME NEW u \in Temps, CommitTemp(r, u) PROVE Charges(r)
      <3> DEFINE n == temp[r][u].size
                 l == [lease[r] EXCEPT !.committed = @ + n]
      <3>1. FinishOwner(ctl, r, l, 0) /\ n \in Nat
        BY <1>0, <2>5 DEF CommitTemp, Temporaries
      <3> HIDE DEF n
      <3>2. l \in Leases /\ l.body = lease[r].body
        BY <1>0, <3>1 DEF Leases
      <3> HIDE DEF l
      <3> QED
        BY <3>1, <3>2, FinishOwnerCharges
    <2> QED
      BY <1>6, <2>1, <2>2, <2>3, <2>4, <2>5 DEF ResponseStep
  <1>7. CASE LeaseStep(r)
    <2>1. CASE OpenPending(r)
      BY <1>1, <2>1 DEF OpenPending
    <2>2. CASE OpenLease(r)
      <3> DEFINE m == [lease[r] EXCEPT !.st = "active"]
      <3>1. lease' = [lease EXCEPT ![r] = m] /\ m.body = lease[r].body
        BY <1>0, <2>2 DEF OpenLease, Leases
      <3> HIDE DEF m
      <3> QED
        BY <3>1 DEF Charges
    <2>3. CASE Defer(r)
      <3> DEFINE m == [lease[r] EXCEPT !.owners = @ + 1]
      <3>1. lease' = [lease EXCEPT ![r] = m] /\ lease[r].st = "active"
        BY <1>0, <2>3 DEF Defer, InUse
      <3> HIDE DEF m
      <3> QED
        BY <1>2, <3>1
    <2>4. CASE ReleaseDeferral(r)
      <3>1. FinishOwner(ctl, r, lease[r], 0)
        BY <2>4 DEF ReleaseDeferral
      <3> QED
        BY <1>0, <3>1, FinishOwnerCharges
    <2>5. CASE Release(r)
      <3> DEFINE m == [lease[r] EXCEPT !.st = "requested"]
      <3>1. lease' = [lease EXCEPT ![r] = m] /\ lease[r].st = "active"
        BY <1>0, <2>5 DEF Release
      <3> HIDE DEF m
      <3> QED
        BY <1>2, <3>1
    <2>6. CASE ReleaseRequest(r)
      <3> DEFINE l == [lease[r] EXCEPT !.st = "released"]
      <3>1. l.body = lease[r].body /\ FinalLease(l).owners = l.owners
        BY <1>0 DEF Leases, FinalLease
      <3>2. \/ lease' = [lease EXCEPT ![r] = l]
            \/ l.owners = 0 /\ lease' = [lease EXCEPT ![r] = FinalLease(l)]
        BY <2>6 DEF ReleaseRequest, Finalize
      <3> HIDE DEF l
      <3> QED
        BY <3>1, <3>2 DEF Charges
    <2>7. CASE NewRequest(r)
      <3>1. lease' = [lease EXCEPT ![r] = NoLease] /\ ~(NoLease.owners > 0)
        BY <2>7 DEF NewRequest, NoLease
      <3> QED
        BY <3>1 DEF Charges
    <2> QED
      BY <1>7, <2>1, <2>2, <2>3, <2>4, <2>5, <2>6, <2>7 DEF LeaseStep
  <1> QED
    BY <1>5, <1>6, <1>7

LEMMA ChargedStep ==
    ASSUME LedgerInv, [Next]_vars, NEW x \in Requests,
           lease[x].st # "active", lease'[x].owners > 0
    PROVE  lease'[x].body = lease[x].body
  <1>1. CASE UNCHANGED vars
    BY <1>1 DEF vars
  <1>2. CASE Next
    <2>1. PICK r \in Requests : BodyStep(r) \/ ResponseStep(r) \/ LeaseStep(r)
      BY <1>2 DEF Next
    <2>2. PICK m : /\ lease' = [lease EXCEPT ![r] = m]
                   /\ lease[r].st # "active" /\ m.owners > 0 => m.body = lease[r].body
      BY <2>1, StepCharges DEF Charges
    <2> QED
      BY <2>2, Objects
  <1> QED
    BY <1>1, <1>2

\* A worker or a parser that outlives its request finds its bytes still charged: no step takes
\* body bytes off a released lease that has owners left (core.py, _finish_memory_owner_locked).
THEOREM OwnedStaysCharged == Spec => ChargedWhileOwned
  <1>1. Init => LedgerInv
    BY LedgerInit
  <1>2. LedgerInv /\ [Next]_vars => LedgerInv'
    BY LedgerNext
  <1>3. LedgerInv /\ [Next]_vars
          => [\A r \in Requests : lease[r].st # "active" /\ lease'[r].owners > 0
                                  => lease'[r].body = lease[r].body]_vars
    BY ChargedStep
  <1> QED
    BY <1>1, <1>2, <1>3, PTL DEF Spec, ChargedWhileOwned

-----------------------------------------------------------------------------
(* The wait for memory *)

\* Where a request stands in the wait queue, by the reservation that it is in.
PlaceOf(o) == IF o.ph \in {"waiting", "turn"} THEN [ph |-> o.ph, lane |-> o.lane] ELSE Out

Place == [r \in Requests |-> PlaceOf(op[r])]

InUseBytes == ctl.body + ctl.resp

WaitInv == LedgerInv /\ Sound(wq, Place) /\ BlockedLaneWillWake

\* The lanes that a step leaves stopped were stopped, and the memory that would start them is
\* still in use.
StillWakes ==
    \/ \A l \in Lanes : wq'.enabled[l]
    \/ /\ \A l \in Lanes : ~wq'.enabled[l] => ~wq.enabled[l]
       /\ ctl'.body + ctl'.resp >= ctl.body + ctl.resp

LEMMA WaitStep ==
    ASSUME WaitInv, LedgerInv', Sound(wq, Place)', StillWakes
    PROVE  WaitInv'
  <1>1. /\ ctl.body \in Int /\ ctl.resp \in Int /\ ctl'.body \in Int /\ ctl'.resp \in Int
    BY DEF WaitInv, LedgerInv, TypeOK, Counters
  <1>2. BlockedLaneWillWake'
    BY <1>1 DEF WaitInv, BlockedLaneWillWake, StillWakes
  <1> QED
    BY <1>2 DEF WaitInv

LEMMA PlaceMoves ==
    ASSUME LedgerInv, NEW r \in Requests, NEW o, op' = [op EXCEPT ![r] = o]
    PROVE  Place' = Moved(Place, r, PlaceOf(o))
  <1>1. op \in [Requests -> Waits]
    BY Objects
  <1>2. \A x \in Requests : PlaceOf(op'[x]) = IF x = r THEN PlaceOf(o) ELSE PlaceOf(op[x])
    BY <1>1
  <1> QED
    BY <1>2 DEF Place, Moved

\* A step that takes memory without waiting for it, or moves it.
LEMMA TakingKeepsWaits ==
    ASSUME WaitInv, LedgerInv', UNCHANGED wq, Place' = Place,
           ctl'.body + ctl'.resp >= ctl.body + ctl.resp
    PROVE  WaitInv'
  BY WaitStep DEF WaitInv, StillWakes

LEMMA WokenKeeps ==
    ASSUME NEW q, NEW place, Sound(q, place), NEW n \in Nat, NEW p, p = Woken(q, n)
    PROVE  /\ Sound(p, place)
           /\ n > 0 => \A l \in Lanes : p.enabled[l]
           /\ n = 0 => p = q
  <1>1. CASE n > 0
    <2>1. p = NotifyMemoryReleased(q)
      BY <1>1 DEF Woken
    <2>2. Sound(p, place) /\ \A l \in Lanes : p.enabled[l]
      BY <2>1, MemoryReleasedKeeps
    <2> QED
      BY <1>1, <2>2
  <1>2. CASE n = 0
    BY <1>2 DEF Woken
  <1> QED
    BY <1>1, <1>2

\* A step that gives memory back.
LEMMA ReturnKeepsWaits ==
    ASSUME WaitInv, LedgerInv', UNCHANGED op, NEW k \in Nat, wq' = Woken(wq, k),
           ctl'.body + ctl'.resp = ctl.body + ctl.resp - k
    PROVE  WaitInv'
  <1>1. ctl.body \in Int /\ ctl.resp \in Int
    BY DEF WaitInv, LedgerInv, TypeOK, Counters
  <1>2. Place' = Place
    BY DEF Place
  <1>3. Sound(wq, Place)
    BY DEF WaitInv
  <1> DEFINE p == wq'
  <1>4. p = Woken(wq, k)
    OBVIOUS
  <1> HIDE DEF p
  <1>5. Sound(p, Place) /\ (k > 0 => \A l \in Lanes : p.enabled[l]) /\ (k = 0 => p = wq)
    BY ONLY <1>3, <1>4, k \in Nat, WokenKeeps
  <1>6. Sound(wq, Place)'
    BY <1>2, <1>5 DEF p
  <1>7. StillWakes
    <2>1. CASE k > 0
      BY <1>5, <2>1 DEF StillWakes, p
    <2>2. CASE k = 0
      BY <1>1, <1>5, <2>2 DEF StillWakes, p
    <2> QED
      BY <2>1, <2>2
  <1> QED
    BY <1>6, <1>7, WaitStep

\* A body that would fit in an empty budget and cannot be had meets memory that is in use.
LEMMA UnavailableIsUsed ==
    ASSUME LedgerInv, NEW r \in Requests, NEW k \in Kinds, NEW n \in Nat,
           WithinHardLimits(r, k, OwnerBytes(r, k) + n), Unavailable(r, k, n),
           MaxBody <= Budget - SmallReserve, ResourceOnly = {}
    PROVE  ctl.body + ctl.resp > 0
  <1>1. ctl.body \in Nat /\ ctl.resp \in Nat
    BY InCounters
  <1>2. OwnerBytes(r, k) \in Nat
    BY Mine DEF OwnerBytes, Pendings, Leases
  <1>3. OwnerBytes(r, k) + n <= MaxBody
    BY DEF WithinHardLimits
  <1>4. CASE ctl.body + ctl.resp + n > LaneBudget(SmallLane(OwnerBytes(r, k) + n))
    <2>1. LaneBudget(SmallLane(OwnerBytes(r, k) + n)) \in {Budget, Budget - SmallReserve}
      BY DEF LaneBudget
    <2> DEFINE b == LaneBudget(SmallLane(OwnerBytes(r, k) + n))
               s == OwnerBytes(r, k)
    <2>2. b \in Int /\ b >= MaxBody /\ s + n <= MaxBody /\ s \in Nat /\ MaxBody \in Nat
          /\ ctl.body + ctl.resp + n > b
      BY <1>2, <1>3, <1>4, <2>1, Constants
    <2> HIDE DEF b, s
    <2> QED
      BY <1>1, <2>2
  <1>5. CASE LargeLimit # 0 /\ Cardinality(ctl.holders) >= LargeLimit
    <2>1. ctl.holders # {}
      <3>1. LargeLimit > 0
        BY <1>5, Constants
      <3> QED
        BY <1>5, <3>1, FS_EmptySet, Constants
    <2>2. PICK x \in Requests : pend[x].slot \/ lease[x].slot
      BY <2>1 DEF LedgerInv, Members
    <2>3. /\ pend[x].bytes \in Nat /\ lease[x].body \in Nat
          /\ ClaimRules(pend[x], lease[x])
      BY Mine DEF Pendings, Leases
    <2>4. pend[x].bytes + lease[x].body > 0
      BY <2>2, <2>3 DEF ClaimRules
    <2>5. pend[x].bytes + lease[x].body <= ctl.body
      BY InCounters
    <2> QED
      BY <1>1, <2>3, <2>4, <2>5
  <1> QED
    BY <1>4, <1>5 DEF Unavailable, NeedsSlot

LEMMA PlaceIs ==
    ASSUME LedgerInv, NEW r \in Requests
    PROVE  /\ Place[r] = PlaceOf(op[r]) /\ Place \in [Requests -> {PlaceOf(op[x]) : x \in Requests}]
           /\ PlaceOf(NoOp) = Out /\ Out.ph = "out"
  BY DEF Place, PlaceOf, NoOp, Out

\* A reservation that is over, without a place in the queue.
LEMMA NoPlaceKeeps ==
    ASSUME LedgerInv, NEW r \in Requests, op[r].ph \in {"idle", "retry"},
           NEW o, op' = [op EXCEPT ![r] = o], PlaceOf(o) = Out
    PROVE  Place' = Place
  <1>1. Place' = Moved(Place, r, PlaceOf(o))
    BY PlaceMoves
  <1>2. Place[r] = Out
    BY PlaceIs DEF PlaceOf
  <1>3. Place = Moved(Place, r, Place[r])
    BY DEF Place, Moved
  <1> QED
    BY <1>1, <1>2, <1>3

LEMMA WaitForMemoryKeeps ==
    ASSUME WaitInv, LedgerInv', NEW r \in Requests, NEW k \in Kinds, NEW n \in Nat,
           op[r].ph \in {"idle", "retry"}, WithinHardLimits(r, k, OwnerBytes(r, k) + n),
           WaitForMemory(r, k, n), UNCHANGED ctl
    PROVE  WaitInv'
  <1> DEFINE l == SmallLane(OwnerBytes(r, k) + n)
             q == IF Unavailable(r, k, n) /\ QueueLimit # 0
                  THEN BlockUntilRelease(wq, l) ELSE wq
             o == [ph |-> "waiting", kind |-> k, n |-> n, lane |-> l]
             p == wq'
  <1>1. \/ CanWait(q) /\ p = WaitTurn(q, r, l) /\ op' = [op EXCEPT ![r] = o]
        \/ p = q /\ op' = [op EXCEPT ![r] = NoOp]
    BY DEF WaitForMemory, EndOp
  <1>2. l \in Lanes /\ LedgerInv /\ Sound(wq, Place)
    BY DEF SmallLane, Lanes, WaitInv
  <1>3. PlaceOf(o) = [ph |-> "waiting", lane |-> l]
    BY DEF PlaceOf
  <1>u. Unavailable(r, k, n) \in BOOLEAN /\ q = IF Unavailable(r, k, n) /\ QueueLimit # 0
                                               THEN BlockUntilRelease(wq, l) ELSE wq
    BY DEF Unavailable
  <1> HIDE DEF l, q, o, p
  <1>4. /\ Sound(q, Place)
        /\ \/ q.enabled = wq.enabled
           \/ Unavailable(r, k, n) /\ q.enabled = [wq.enabled EXCEPT ![l] = FALSE]
    <2>1. CASE Unavailable(r, k, n) /\ QueueLimit # 0
      <3>1. q = BlockUntilRelease(wq, l)
        BY <1>u, <2>1
      <3>2. Sound(q, Place) /\ q.enabled = [wq.enabled EXCEPT ![l] = FALSE]
        BY <1>2, <3>1, BlockKeeps
      <3> QED
        BY <2>1, <3>2
    <2>2. CASE ~(Unavailable(r, k, n) /\ QueueLimit # 0)
      BY <1>2, <1>u, <2>2
    <2> QED
      BY <2>1, <2>2
  <1>5. Sound(p, Place') /\ p.enabled = q.enabled
    <2>1. CASE CanWait(q) /\ p = WaitTurn(q, r, l) /\ op' = [op EXCEPT ![r] = o]
      <3>1. Place' = Moved(Place, r, [ph |-> "waiting", lane |-> l])
        BY <1>2, <1>3, <2>1, PlaceMoves
      <3>2. Place[r].ph = "out"
        BY <1>2, PlaceIs DEF PlaceOf
      <3> DEFINE next == Place'
      <3>3. next = Moved(Place, r, [ph |-> "waiting", lane |-> l])
        BY <3>1
      <3> HIDE DEF next
      <3>4. Sound(p, next) /\ p.enabled = q.enabled
        <4>1. Sound(q, Place) /\ CanWait(q) /\ p = WaitTurn(q, r, l) /\ l \in Lanes
          BY <1>2, <1>4, <2>1
        <4> QED
          BY ONLY r \in Requests, <4>1, <3>2, <3>3, ArriveKeeps
      <3> QED
        BY <3>4 DEF next
    <2>2. CASE p = q /\ op' = [op EXCEPT ![r] = NoOp]
      <3>1. Place' = Place
        BY <1>2, <2>2, PlaceIs, NoPlaceKeeps
      <3> QED
        BY <1>4, <2>2, <3>1
    <2> QED
      BY <1>1, <2>1, <2>2
  <1>6. BlockedLaneWillWake'
    <2> SUFFICES ASSUME MaxBody <= Budget - SmallReserve, ResourceOnly = {},
                        NEW m \in Lanes, ~wq'.enabled[m]
                 PROVE  ctl'.body + ctl'.resp > 0
      BY DEF BlockedLaneWillWake
    <2>1. CASE Unavailable(r, k, n)
      BY <1>2, <2>1, UnavailableIsUsed
    <2>2. CASE ~Unavailable(r, k, n)
      <3>1. ~wq.enabled[m]
        BY <1>4, <1>5, <2>2 DEF p
      <3> QED
        BY <3>1 DEF WaitInv, BlockedLaneWillWake
    <2> QED
      BY <2>1, <2>2
  <1> QED
    BY <1>5, <1>6 DEF WaitInv, p

LEMMA AttemptKeepsWaits ==
    ASSUME WaitInv, NEW r \in Requests, NEW k \in Kinds, NEW n \in Nat, Attempt(r, k, n),
           op[r].ph \in {"idle", "retry"},
           k = "lease" => lease[r].st # "none" /\ pend[r].st # "open"
    PROVE  WaitInv'
  <1>1. LedgerInv /\ LedgerInv' /\ UNCHANGED <<temp, hold>>
    BY AttemptKeeps DEF WaitInv, Attempt
  <1>2. ctl.body \in Int /\ ctl.resp \in Int
    BY <1>1 DEF LedgerInv, TypeOK, Counters
  <1>3. ASSUME EndOp(r) PROVE Place' = Place
    BY <1>1, <1>3, PlaceIs, NoPlaceKeeps DEF EndOp
  <1>4. CASE EndOp(r) /\ UNCHANGED <<ctl, wq>>
    BY <1>1, <1>2, <1>3, <1>4, TakingKeepsWaits
  <1>5. CASE /\ WithinHardLimits(r, k, OwnerBytes(r, k) + n)
             /\ WaitForMemory(r, k, n) /\ UNCHANGED ctl
    BY <1>1, <1>5, WaitForMemoryKeeps
  <1>6. CASE /\ OwnerActive(r, k) /\ WithinHardLimits(r, k, OwnerBytes(r, k) + n)
             /\ ~MustWait(r, k, n) /\ CommitBody(r, k, n) /\ EndOp(r) /\ UNCHANGED wq
    <2>1. ~Unavailable(r, k, n)
      BY <1>6 DEF MustWait
    <2>2. ctl'.body + ctl'.resp = ctl.body + ctl.resp + n
      BY <1>1, <1>6, <2>1, CommitKeeps
    <2>3. ctl'.body + ctl'.resp >= ctl.body + ctl.resp
      BY <1>2, <2>2
    <2> QED
      BY <1>1, <1>3, <1>6, <2>3, TakingKeepsWaits
  <1> QED
    BY <1>4, <1>5, <1>6 DEF Attempt

LEMMA PlaceOfWaiting ==
    ASSUME LedgerInv, NEW r \in Requests
    PROVE  /\ op[r].ph = "waiting" => Place[r].ph = "waiting" /\ Place[r].lane = op[r].lane
           /\ op[r].ph = "turn" => Place[r].ph = "turn" /\ Place[r].lane = op[r].lane
           /\ op[r].ph \in {"idle", "retry"} => Place[r] = Out
  <1>1. Place[r] = PlaceOf(op[r])
    BY PlaceIs
  <1>2. CASE op[r].ph \in {"waiting", "turn"}
    <2>1. Place[r] = [ph |-> op[r].ph, lane |-> op[r].lane]
      BY <1>1, <1>2 DEF PlaceOf
    <2> QED
      BY <1>2, <2>1
  <1>3. CASE op[r].ph \notin {"waiting", "turn"}
    BY <1>1, <1>3 DEF PlaceOf
  <1> QED
    BY <1>2, <1>3

\* The turn of a request ends, with k bytes given back before.
LEMMA TurnEndsKeeps ==
    ASSUME WaitInv, LedgerInv', NEW r \in Requests, op[r].ph = "turn",
           NEW o, op' = [op EXCEPT ![r] = o], PlaceOf(o) = Out,
           NEW k \in Nat, wq' = FinishTurn(Woken(wq, k), op[r].lane),
           ctl'.body + ctl'.resp >= ctl.body + ctl.resp
    PROVE  WaitInv'
  <1>1. LedgerInv /\ Sound(wq, Place)
    BY DEF WaitInv
  <1>2. Place[r].ph = "turn" /\ Place[r].lane = op[r].lane
    BY <1>1, PlaceOfWaiting
  <1> DEFINE q == Woken(wq, k)
             p == wq'
             next == Place'
  <1>3. next = Moved(Place, r, Out)
    BY <1>1, PlaceMoves
  <1>4. q = Woken(wq, k) /\ p = FinishTurn(q, Place[r].lane)
    BY <1>2
  <1> HIDE DEF q, p, next
  <1>5. Sound(q, Place) /\ (k > 0 => \A l \in Lanes : q.enabled[l]) /\ (k = 0 => q = wq)
    BY ONLY <1>1, <1>4, k \in Nat, WokenKeeps
  <1>6. Sound(p, next) /\ p.enabled = q.enabled
    BY ONLY r \in Requests, <1>2, <1>3, <1>4, <1>5, EndTurnKeeps
  <1>7. StillWakes
    <2>1. CASE k > 0
      BY <1>5, <1>6, <2>1 DEF StillWakes, p
    <2>2. CASE k = 0
      BY <1>5, <1>6, <2>2 DEF StillWakes, p
    <2> QED
      BY <2>1, <2>2
  <1>8. Sound(wq, Place)'
    BY <1>6 DEF p, next
  <1> QED
    BY <1>7, <1>8, WaitStep

LEMMA TurnResumesKeepsWaits ==
    ASSUME WaitInv, NEW r \in Requests, TurnResumes(r) PROVE WaitInv'
  <1>1. LedgerInv /\ Sound(wq, Place) /\ LedgerInv'
    BY TurnKeeps DEF WaitInv
  <1> DEFINE o == [op[r] EXCEPT !.ph = "turn"]
             p == wq'
             next == Place'
  <1>2. /\ op' = [op EXCEPT ![r] = o] /\ p = WaiterDropped(wq, r) /\ UNCHANGED ctl
        /\ op[r].ph = "waiting" /\ wq.wstate[r] = "granted"
    BY DEF TurnResumes
  <1>3. Place[r].ph = "waiting" /\ Place[r].lane = op[r].lane
    BY <1>1, <1>2, PlaceOfWaiting
  <1>4. PlaceOf(o) = [ph |-> "turn", lane |-> Place[r].lane]
    BY <1>1, <1>3, Mine DEF PlaceOf, Waits
  <1> HIDE DEF o
  <1>5. next = Moved(Place, r, [ph |-> "turn", lane |-> Place[r].lane])
    BY <1>1, <1>2, <1>4, PlaceMoves
  <1> HIDE DEF p, next
  <1>6. Sound(p, next) /\ p.enabled = wq.enabled
    BY ONLY r \in Requests, <1>1, <1>2, <1>3, <1>5, TakeTurnKeeps
  <1>7. ctl.body + ctl.resp >= ctl.body + ctl.resp
    BY <1>1, InCounters
  <1>8. StillWakes /\ Sound(wq, Place)'
    BY <1>2, <1>6, <1>7 DEF StillWakes, p, next
  <1> QED
    BY <1>1, <1>8, WaitStep

LEMMA WaitAbandonedKeepsWaits ==
    ASSUME WaitInv, NEW r \in Requests, WaitAbandoned(r) PROVE WaitInv'
  <1>1. LedgerInv /\ Sound(wq, Place) /\ LedgerInv'
    BY TurnKeeps DEF WaitInv
  <1> DEFINE p == wq'
             next == Place'
  <1>2. /\ op' = [op EXCEPT ![r] = NoOp] /\ p = RemoveWaiter(wq, r) /\ UNCHANGED ctl
        /\ op[r].ph = "waiting"
    BY DEF WaitAbandoned, EndOp
  <1>3. Place[r].ph = "waiting"
    BY <1>1, <1>2, PlaceOfWaiting
  <1>4. next = Moved(Place, r, Out)
    BY <1>1, <1>2, PlaceMoves, PlaceIs
  <1> HIDE DEF p, next
  <1>5. Sound(p, next) /\ p.enabled = wq.enabled
    BY ONLY r \in Requests, <1>1, <1>2, <1>3, <1>4, GiveUpKeeps
  <1>6. ctl.body + ctl.resp >= ctl.body + ctl.resp
    BY <1>1, InCounters
  <1>7. StillWakes /\ Sound(wq, Place)'
    BY <1>2, <1>5, <1>6 DEF StillWakes, p, next
  <1> QED
    BY <1>1, <1>7, WaitStep

LEMMA TurnAbandonedKeepsWaits ==
    ASSUME WaitInv, NEW r \in Requests, TurnAbandoned(r) PROVE WaitInv'
  <1>1. LedgerInv /\ LedgerInv'
    BY TurnKeeps DEF WaitInv
  <1>2. /\ op' = [op EXCEPT ![r] = NoOp] /\ UNCHANGED ctl /\ op[r].ph = "turn"
        /\ wq' = FinishTurn(Woken(wq, 0), op[r].lane)
    BY DEF TurnAbandoned, EndOp, Woken
  <1>3. ctl.body + ctl.resp >= ctl.body + ctl.resp /\ 0 \in Nat
    BY <1>1, InCounters
  <1>4. PlaceOf(NoOp) = Out
    BY <1>1, PlaceIs
  <1> QED
    BY <1>1, <1>2, <1>3, <1>4, TurnEndsKeeps

LEMMA CommitAfterWaitTurnKeepsWaits ==
    ASSUME WaitInv, NEW r \in Requests, CommitAfterWaitTurn(r) PROVE WaitInv'
  <1> DEFINE k == op[r].kind
             n == op[r].n
  <1>1. LedgerInv /\ LedgerInv'
    BY CommitAfterWaitTurnKeeps DEF WaitInv
  <1>2. op[r].ph = "turn" /\ UNCHANGED <<temp, hold>>
    BY DEF CommitAfterWaitTurn
  <1>3. k \in Kinds /\ n \in Nat /\ op[r] \in Waits
    BY <1>1, Mine DEF Waits
  <1>4. k = "lease" => pend[r].st # "open"
    BY <1>1, <1>2, Mine DEF PendingRules
  <1>5. PlaceOf(NoOp) = Out
    BY <1>1, PlaceIs
  <1>6. ctl.body \in Int /\ ctl.resp \in Int /\ ctl.body + ctl.resp >= ctl.body + ctl.resp
    BY <1>1, InCounters
  <1>7. CASE EndOp(r) /\ wq' = FinishTurn(Woken(wq, n), op[r].lane) /\ UNCHANGED ctl
    <2>1. op' = [op EXCEPT ![r] = NoOp]
      BY <1>7 DEF EndOp
    <2> HIDE DEF n
    <2> QED
      BY <1>1, <1>2, <1>3, <1>5, <1>6, <1>7, <2>1, TurnEndsKeeps
  <1>8. CASE /\ op' = [op EXCEPT ![r].ph = "retry"]
             /\ wq' = FinishTurn(Woken(wq, n), op[r].lane) /\ UNCHANGED ctl
    <2> DEFINE o == [op[r] EXCEPT !.ph = "retry"]
    <2>1. op' = [op EXCEPT ![r] = o]
      BY <1>8
    <2>2. PlaceOf(o) = Out
      BY <1>3 DEF PlaceOf, Waits
    <2> HIDE DEF n, o
    <2> QED
      BY <1>1, <1>2, <1>3, <1>6, <1>8, <2>1, <2>2, TurnEndsKeeps
  <1>9. CASE /\ OwnerActive(r, k) /\ WithinHardLimits(r, k, OwnerBytes(r, k) + n)
             /\ ~Unavailable(r, k, n) /\ CommitBody(r, k, n) /\ EndOp(r)
             /\ wq' = FinishTurn(wq, op[r].lane)
    <2>1. op' = [op EXCEPT ![r] = NoOp] /\ wq' = FinishTurn(Woken(wq, 0), op[r].lane) /\ 0 \in Nat
      BY <1>9 DEF EndOp, Woken
    <2> HIDE DEF k, n
    <2>2. ctl'.body + ctl'.resp = ctl.body + ctl.resp + n
      BY <1>1, <1>2, <1>3, <1>4, <1>9, CommitKeeps
    <2>3. ctl'.body + ctl'.resp >= ctl.body + ctl.resp
      BY <1>3, <1>6, <2>2
    <2> QED
      BY <1>1, <1>2, <1>5, <2>1, <2>3, TurnEndsKeeps
  <1> QED
    BY <1>7, <1>8, <1>9 DEF CommitAfterWaitTurn

\* A step that charges n response bytes or none, and leaves the wait for memory alone.
LEMMA QuietKeepsWaits ==
    ASSUME WaitInv, LedgerInv', UNCHANGED <<wq, op>>,
           \/ UNCHANGED ctl
           \/ \E n \in ResponseChunks : ChargeResponse(n)
           \/ \E r \in Requests : ctl' = [ctl EXCEPT !.pending = @ - pend[r].bytes]
    PROVE  WaitInv'
  <1>1. Place' = Place
    BY DEF Place
  <1>2. ctl \in Counters /\ ctl.body \in Int /\ ctl.resp \in Int
    BY DEF WaitInv, LedgerInv, TypeOK, Counters
  <1>3. ctl'.body + ctl'.resp >= ctl.body + ctl.resp
    <2>1. CASE UNCHANGED ctl
      BY <1>2, <2>1
    <2>2. ASSUME NEW n \in ResponseChunks, ChargeResponse(n)
          PROVE  ctl'.body + ctl'.resp >= ctl.body + ctl.resp
      <3>1. n \in Nat
        BY Constants
      <3>2. ctl'.body = ctl.body /\ ctl'.resp = ctl.resp + n
        BY <1>2, <2>2 DEF ChargeResponse, Counters
      <3> QED
        BY <1>2, <3>1, <3>2
    <2>3. ASSUME NEW r \in Requests, ctl' = [ctl EXCEPT !.pending = @ - pend[r].bytes]
          PROVE  ctl'.body + ctl'.resp >= ctl.body + ctl.resp
      <3>1. ctl'.body = ctl.body /\ ctl'.resp = ctl.resp
        BY <1>2, <2>3 DEF Counters
      <3> QED
        BY <1>2, <3>1
    <2> QED
      BY <2>1, <2>2, <2>3
  <1> QED
    BY <1>1, <1>3, TakingKeepsWaits

LEMMA BodyStepKeepsWaits ==
    ASSUME WaitInv, LedgerInv', NEW r \in Requests, BodyStep(r) PROVE WaitInv'
  <1>0. LedgerInv
    BY DEF WaitInv
  <1>1. ASSUME NEW k \in Kinds, NEW n \in BodyChunks, Reserve(r, k, n) PROVE WaitInv'
    <2>1. /\ n \in Nat /\ op[r].ph \in {"idle", "retry"} /\ Attempt(r, k, n)
          /\ k = "lease" => lease[r].st # "none" /\ pend[r].st # "open"
      BY <1>1, Constants DEF Reserve, InUse
    <2> QED
      BY <2>1, AttemptKeepsWaits
  <1>2. CASE Retry(r)
    <2>1. op[r].kind \in Kinds /\ op[r].n \in Nat /\ op[r].ph = "retry"
      BY <1>0, <1>2, Mine DEF Waits, Retry
    <2>2. op[r].kind = "lease" => lease[r].st # "none" /\ pend[r].st # "open"
      BY <1>0, <2>1, Mine DEF PendingRules
    <2>3. Attempt(r, op[r].kind, op[r].n)
      BY <1>2 DEF Retry
    <2> QED
      BY <2>1, <2>2, <2>3, AttemptKeepsWaits
  <1>3. CASE TurnResumes(r) \/ WaitAbandoned(r) \/ TurnAbandoned(r) \/ CommitAfterWaitTurn(r)
    BY <1>3, TurnResumesKeepsWaits, WaitAbandonedKeepsWaits, TurnAbandonedKeepsWaits,
       CommitAfterWaitTurnKeepsWaits
  <1>4. CASE Transfer(r)
    BY <1>4, QuietKeepsWaits DEF Transfer
  <1>5. CASE ReleasePending(r)
    <2>1. pend[r].bytes \in Nat
      BY <1>0, Mine DEF Pendings
    <2>2. ctl'.body + ctl'.resp = ctl.body + ctl.resp - pend[r].bytes
      BY <1>0, <1>5, ReleasePendingKeeps
    <2>3. UNCHANGED op /\ wq' = Woken(wq, pend[r].bytes)
      BY <1>5 DEF ReleasePending
    <2> QED
      BY <2>1, <2>2, <2>3, ReturnKeepsWaits
  <1>6. ASSUME NEW n \in BodyChunks, ReleaseBody(r, n) PROVE WaitInv'
    <2>1. n \in Nat
      BY Constants
    <2>2. ctl'.body + ctl'.resp = ctl.body + ctl.resp - n
      BY <1>0, <1>6, <2>1, ReleaseBodyKeeps
    <2>3. UNCHANGED op /\ wq' = Woken(wq, n)
      BY <1>6 DEF ReleaseBody
    <2> QED
      BY <2>1, <2>2, <2>3, ReturnKeepsWaits
  <1> QED
    BY <1>1, <1>2, <1>3, <1>4, <1>5, <1>6 DEF BodyStep

LEMMA OtherStepKeepsWaits ==
    ASSUME WaitInv, LedgerInv', NEW r \in Requests, ResponseStep(r) \/ LeaseStep(r)
    PROVE  WaitInv'
  <1>0. LedgerInv
    BY DEF WaitInv
  <1>1. ASSUME UNCHANGED op,
               \E k \in Nat : /\ wq' = Woken(wq, k)
                              /\ ctl'.body + ctl'.resp = ctl.body + ctl.resp - k
        PROVE  WaitInv'
    BY <1>1, ReturnKeepsWaits
  <1>2. ASSUME NEW n \in ResponseChunks, ReserveResponse(r, n) PROVE WaitInv'
    BY <1>2, QuietKeepsWaits DEF ReserveResponse
  <1>3. ASSUME NEW u \in Temps, NEW n \in ResponseChunks, ActivateTemp(r, u, n) PROVE WaitInv'
    BY <1>3, QuietKeepsWaits DEF ActivateTemp
  <1>4. ASSUME NEW u \in Temps, NEW n \in ResponseChunks, GrowTemp(r, u, n) PROVE WaitInv'
    BY <1>4, QuietKeepsWaits DEF GrowTemp
  <1>5. ASSUME NEW u \in Temps, ReleaseTemp(r, u) PROVE WaitInv'
    <2>1. UNCHANGED op
      BY <1>5 DEF ReleaseTemp
    <2> QED
      BY <1>0, <1>1, <1>5, <2>1, ReleaseTempKeeps
  <1>6. ASSUME NEW u \in Temps, CommitTemp(r, u) PROVE WaitInv'
    <2>1. UNCHANGED op
      BY <1>6 DEF CommitTemp
    <2> QED
      BY <1>0, <1>1, <1>6, <2>1, CommitTempKeeps
  <1>7. CASE OpenPending(r) \/ OpenLease(r) \/ Defer(r) \/ Release(r) \/ NewRequest(r)
    <2>1. UNCHANGED <<wq, op>> /\ UNCHANGED ctl
      BY <1>7 DEF OpenPending, OpenLease, Defer, Release, NewRequest
    <2> QED
      BY <2>1, QuietKeepsWaits
  <1>8. CASE ReleaseDeferral(r)
    <2>1. UNCHANGED op
      BY <1>8 DEF ReleaseDeferral
    <2> QED
      BY <1>0, <1>1, <1>8, <2>1, ReleaseDeferralKeeps
  <1>9. CASE ReleaseRequest(r)
    <2>1. UNCHANGED op
      BY <1>9 DEF ReleaseRequest
    <2> QED
      BY <1>0, <1>1, <1>9, <2>1, ReleaseRequestKeeps
  <1> QED
    BY <1>2, <1>3, <1>4, <1>5, <1>6, <1>7, <1>8, <1>9 DEF ResponseStep, LeaseStep

LEMMA WaitNext == WaitInv /\ [Next]_vars => WaitInv'
  <1> SUFFICES ASSUME WaitInv, [Next]_vars PROVE WaitInv'
    OBVIOUS
  <1>1. LedgerInv'
    BY LedgerNext DEF WaitInv
  <1>2. CASE UNCHANGED vars
    BY <1>1, <1>2, QuietKeepsWaits DEF vars
  <1>3. CASE Next
    BY <1>1, <1>3, BodyStepKeepsWaits, OtherStepKeepsWaits DEF Next
  <1> QED
    BY <1>2, <1>3

LEMMA WaitStarts == Init => WaitInv
  <1> SUFFICES ASSUME Init PROVE WaitInv
    OBVIOUS
  <1>1. LedgerInv
    BY LedgerInit
  <1>2. wq = EmptyQueue /\ Place \in [Requests -> {Out}]
    BY DEF Init, Place, PlaceOf, NoOp
  <1>3. Sound(wq, Place)
    BY <1>2, EmptySound
  <1>4. BlockedLaneWillWake
    BY <1>2 DEF BlockedLaneWillWake, EmptyQueue
  <1> QED
    BY <1>1, <1>3, <1>4 DEF WaitInv

LEMMA WaitSays == WaitInv => BodyWaitSound
  <1> SUFFICES ASSUME WaitInv PROVE BodyWaitSound
    OBVIOUS
  <1>0. LedgerInv /\ Sound(wq, Place) /\ BlockedLaneWillWake
    BY DEF WaitInv
  <1>1. ClaimsExact
    <2>1. ASSUME NEW r \in Requests
          PROVE  /\ ~(pend[r].slot /\ lease[r].slot)
                 /\ LargeLimit # 0 /\ BodyOf(r) > LargeThreshold => r \in ctl.holders
      <3>1. /\ PendingRules(pend[r], lease[r], temp[r], op[r])
            /\ ClaimRules(pend[r], lease[r])
            /\ r \in ctl.holders <=> pend[r].slot \/ lease[r].slot
            /\ pend[r] \in Pendings
        BY <1>0, Mine
      <3> QED
        BY <3>1 DEF PendingRules, ClaimRules, BodyOf
    <2>2. /\ TypeOK /\ Cardinality(ctl.holders) <= LargeLimit
          /\ ctl.holders = {r \in Requests : pend[r].slot \/ lease[r].slot}
      BY <1>0 DEF LedgerInv, Members
    <2> QED
      BY <2>1, <2>2 DEF ClaimsExact
  <1>2. TurnsOwned
    <2>1. OneTurn(wq, Place) /\ WaitsAgree(wq, Place)
      BY <1>0, SoundParts
    <2>2. ASSUME NEW l \in Lanes
          PROVE  LET holders == {r \in Requests :
                                   /\ op[r].lane = l
                                   /\ \/ op[r].ph = "turn"
                                      \/ op[r].ph = "waiting" /\ wq.wstate[r] = "granted"}
                 IN  /\ Cardinality(holders) <= 1
                     /\ wq.turn[l] <=> holders # {}
      <3> DEFINE holders == {r \in Requests :
                               /\ op[r].lane = l
                               /\ \/ op[r].ph = "turn"
                                  \/ op[r].ph = "waiting" /\ wq.wstate[r] = "granted"}
      <3>1. holders = Holders(wq, Place, l)
        <4>1. ASSUME NEW r \in Requests
              PROVE  r \in holders <=> r \in Holders(wq, Place, l)
          BY <1>0, <2>1, PlaceOfWaiting, Mine DEF Holders, WaitsAgree, Waits, Out
        <4> QED
          BY <4>1 DEF Holders
      <3>2. (\A v, w \in holders : v = w) /\ (wq.turn[l] <=> holders # {})
        BY <2>1, <3>1 DEF OneTurn
      <3> HIDE DEF holders
      <3>3. Cardinality(holders) <= 1
        <4>1. CASE holders = {}
          BY <4>1, FS_EmptySet
        <4>2. CASE holders # {}
          <5>1. PICK x : holders = {x}
            BY <3>2, <4>2
          <5> QED
            BY <5>1, FS_Singleton
        <4> QED
          BY <4>1, <4>2
      <3> QED
        BY <3>2, <3>3 DEF holders
    <2> QED
      BY <2>2 DEF TurnsOwned
  <1> QED
    BY <1>0, <1>1, <1>2 DEF BodyWaitSound

LEMMA WaitInvAlways == Spec => []WaitInv
  BY WaitStarts, WaitNext, PTL DEF Spec

\* A body that waits for memory gets and gives back each large-body claim and each turn once,
\* whoever times out or is cancelled where, and a lane whose promotions are stopped has memory
\* in use whose return starts them again (core.py, _reserve_body_owner and its waits).
THEOREM BodyWaitIsSound == Spec => []BodyWaitSound
  BY WaitInvAlways, WaitSays, PTL
=============================================================================
