------------------------- MODULE UpstreamPoolProofs --------------------------
(***************************************************************************)
(* PoolSound of UpstreamPool, and the safety halves of its two temporal    *)
(* properties, for every set of operations, size of the gate, limit of     *)
(* its waiters and room for background clean-ups.  The invariant has four  *)
(* parts: what a phase says of the lease, and the counter (LeaseInv); the  *)
(* gate, where nobody waits twice or beside a permit (GateInv); whose a    *)
(* clean-up is and what a transport is when its lease is gone, for each    *)
(* operation alone (CleanInv); and the charge of each buffered body        *)
(* (BodyInv).  A step moves one operation and leaves the others alone,     *)
(* but for a permit that is handed to the first waiter.                    *)
(***************************************************************************)
EXTENDS UpstreamPool, FiniteSetTheorems, SequenceTheorems, TLAPS

\* The phases of an operation: without a lease yet, with a lease, and giving it back.
Before  == {"idle", "client", "waiting"}
Using   == {"connecting", "streaming", "buffering"}
Closing == {"cooperative", "abort", "conn", "again", "stuck", "raw", "leave"}

Elems(q) == {q[i] : i \in 1..Len(q)}

Distinct(q) == \A i, j \in 1..Len(q) : q[i] = q[j] => i = j

-----------------------------------------------------------------------------
(* Leases and the gate *)

Holders == {o \in Ops : lease[o] = "held"}

\* An operation holds a lease while it uses one, and may while it closes.
LeaseInv ==
    /\ pc \in [Ops -> Before \cup Using \cup Closing \cup {"done"}]
    /\ lease \in [Ops -> {"none", "held", "released"}]
    /\ \A o \in Ops :
          /\ pc[o] \in Before => lease[o] = "none"
          /\ pc[o] \in Using => lease[o] = "held"
          /\ pc[o] = "done" => lease[o] # "held"
    /\ active = Cardinality(Holders)

\* A gate is well formed: nobody waits twice, or beside a permit of its own.
GateFormed(g) ==
    /\ {"owners", "waiters"} \subseteq DOMAIN g
    /\ g.owners \subseteq Ops
    /\ g.waiters \in Seq(Ops)
    /\ Distinct(g.waiters)
    /\ Elems(g.waiters) \cap g.owners = {}

GateInv ==
    /\ GateFormed(gate)
    /\ mode \in {"resource", "legacy"}
    /\ \A o \in gate.owners : lease[o] = "held" \/ pc[o] = "waiting"
    /\ \A o \in Elems(gate.waiters) : pc[o] = "waiting"
    /\ mode = "resource" => gate.waiters = <<>> /\ \A o \in gate.owners : lease[o] = "held"

LEMMA HoldersFinite == IsFiniteSet(Holders) /\ Cardinality(Holders) \in Nat
  <1>1. Holders \subseteq Ops
    BY DEF Holders
  <1> QED
    BY <1>1, PoolAssumption, FS_Subset, FS_CardinalityType

\* Lists of operations.
LEMMA TailElems ==
    ASSUME NEW q \in Seq(Ops), q # <<>>, Distinct(q)
    PROVE  /\ Tail(q) \in Seq(Ops) /\ Distinct(Tail(q))
           /\ Head(q) \in Elems(q) /\ Elems(Tail(q)) \subseteq Elems(q) \ {Head(q)}
  <1>1. /\ Len(q) \in Nat /\ Len(q) > 0
        /\ Tail(q) \in Seq(Ops) /\ Len(Tail(q)) = Len(q) - 1 /\ Head(q) = q[1]
        /\ \A i \in 1..Len(Tail(q)) : Tail(q)[i] = q[i + 1] /\ i + 1 \in 1..Len(q)
    OBVIOUS
  <1>2. Distinct(Tail(q))
    BY <1>1 DEF Distinct
  <1>3. Head(q) \in Elems(q)
    BY <1>1 DEF Elems
  <1>4. ASSUME NEW x \in Elems(Tail(q)) PROVE x \in Elems(q) \ {Head(q)}
    <2>1. PICK i \in 1..Len(Tail(q)) : x = Tail(q)[i]
      BY DEF Elems
    <2>2. x = q[i + 1] /\ i + 1 \in 1..Len(q) /\ 1 \in 1..Len(q) /\ i + 1 # 1
      BY <1>1, <2>1
    <2> QED
      BY <1>1, <2>2 DEF Elems, Distinct
  <1> QED
    BY <1>1, <1>2, <1>3, <1>4

LEMMA AppendElems ==
    ASSUME NEW q \in Seq(Ops), Distinct(q), NEW o \in Ops, o \notin Elems(q)
    PROVE  /\ Append(q, o) \in Seq(Ops) /\ Distinct(Append(q, o))
           /\ Elems(Append(q, o)) = Elems(q) \cup {o}
  <1> DEFINE a == Append(q, o)
  <1>1. /\ Len(q) \in Nat /\ a \in Seq(Ops) /\ Len(a) = Len(q) + 1 /\ a[Len(q) + 1] = o
        /\ \A i \in 1..Len(q) : a[i] = q[i]
    OBVIOUS
  <1> HIDE DEF a
  <1>2. \A i \in 1..Len(q) : q[i] # o
    BY DEF Elems
  <1>3. \A i \in 1..Len(a) : i \in 1..Len(q) \/ i = Len(q) + 1
    BY <1>1
  <1>4. Distinct(a)
    BY <1>1, <1>2, <1>3 DEF Distinct
  <1>5. Elems(a) = Elems(q) \cup {o}
    <2>1. Len(q) + 1 \in 1..Len(a) /\ \A i \in 1..Len(q) : i \in 1..Len(a)
      BY <1>1
    <2> QED
      BY <1>1, <1>3, <2>1 DEF Elems
  <1> QED
    BY <1>1, <1>4, <1>5 DEF a

LEMMA RemoveElems ==
    ASSUME NEW q \in Seq(Ops), Distinct(q), NEW k \in 1..Len(q)
    PROVE  /\ RemoveAt(q, k) \in Seq(Ops) /\ Distinct(RemoveAt(q, k))
           /\ Elems(RemoveAt(q, k)) \subseteq Elems(q) \ {q[k]}
  <1> DEFINE x == SubSeq(q, 1, k - 1)
             y == SubSeq(q, k + 1, Len(q))
             r == x \o y
             from(i) == IF i < k THEN i ELSE i + 1
  <1>1. RemoveAt(q, k) = r
    BY DEF RemoveAt
  <1>2. /\ Len(q) \in Nat /\ k \in Nat /\ k >= 1 /\ k <= Len(q)
        /\ x \in Seq(Ops) /\ Len(x) = k - 1
        /\ y \in Seq(Ops) /\ Len(y) = Len(q) - k
    OBVIOUS
  <1>3. \A i \in 1..(k - 1) : x[i] = q[i]
    BY <1>2
  <1>4. \A i \in 1..(Len(q) - k) : y[i] = q[i + k]
    BY <1>2
  <1> HIDE DEF x, y
  <1>5. r \in Seq(Ops) /\ Len(r) = Len(q) - 1
    BY <1>2
  <1>6. \A i \in 1..Len(r) : r[i] = q[from(i)] /\ from(i) \in 1..Len(q) /\ from(i) # k
    <2> SUFFICES ASSUME NEW i \in 1..Len(r)
                 PROVE  r[i] = q[from(i)] /\ from(i) \in 1..Len(q) /\ from(i) # k
      OBVIOUS
    <2>1. CASE i < k
      <3>1. r[i] = x[i] /\ i \in 1..(k - 1)
        BY <1>2, <1>5, <2>1
      <3> QED
        BY <1>2, <1>3, <2>1, <3>1
    <2>2. CASE ~(i < k)
      <3>1. r[i] = y[i - (k - 1)] /\ i - (k - 1) \in 1..(Len(q) - k)
        BY <1>2, <1>5, <2>2
      <3>2. y[i - (k - 1)] = q[(i - (k - 1)) + k] /\ (i - (k - 1)) + k = i + 1
        BY <1>2, <1>4, <3>1
      <3> QED
        BY <1>2, <1>5, <2>2, <3>1, <3>2
    <2> QED
      BY <2>1, <2>2
  <1>7. \A i, j \in 1..Len(r) : from(i) = from(j) => i = j
    BY <1>2, <1>5
  <1> HIDE DEF r, from
  <1>8. Distinct(r)
    BY <1>6, <1>7 DEF Distinct
  <1>9. Elems(r) \subseteq Elems(q) \ {q[k]}
    BY <1>6 DEF Elems, Distinct
  <1> QED
    BY <1>1, <1>5, <1>8, <1>9

\* What a returned permit does to a well-formed gate.
LEMMA ReleasedFormed ==
    ASSUME NEW g, GateFormed(g), NEW o
    PROVE  /\ GateFormed(GateReleased(g, o))
           /\ o \notin GateReleased(g, o).owners
           /\ GateReleased(g, o).owners \subseteq g.owners \cup Elems(g.waiters)
           /\ Elems(GateReleased(g, o).waiters) \subseteq Elems(g.waiters)
           /\ g.waiters = <<>> => /\ GateReleased(g, o).waiters = <<>>
                                  /\ GateReleased(g, o).owners \subseteq g.owners
  <1> DEFINE h == GateReleased(g, o)
  <1>1. CASE o \notin g.owners
    BY <1>1 DEF GateReleased
  <1>2. CASE o \in g.owners /\ g.waiters = <<>>
    <2>1. h = [g EXCEPT !.owners = @ \ {o}]
      BY <1>2 DEF GateReleased
    <2>2. DOMAIN h = DOMAIN g /\ h.owners = g.owners \ {o} /\ h.waiters = g.waiters
      BY <2>1 DEF GateFormed
    <2> HIDE DEF h
    <2>3. GateFormed(h)
      BY <2>2 DEF GateFormed
    <2> QED
      BY <1>2, <2>2, <2>3 DEF h
  <1>3. CASE o \in g.owners /\ g.waiters # <<>>
    <2>1. h = [owners |-> (g.owners \ {o}) \cup {Head(g.waiters)}, waiters |-> Tail(g.waiters)]
      BY <1>3 DEF GateReleased
    <2>2. /\ {"owners", "waiters"} \subseteq DOMAIN h
          /\ h.owners = (g.owners \ {o}) \cup {Head(g.waiters)} /\ h.waiters = Tail(g.waiters)
      BY <2>1
    <2> HIDE DEF h
    <2>3. /\ Tail(g.waiters) \in Seq(Ops) /\ Distinct(Tail(g.waiters))
          /\ Head(g.waiters) \in Elems(g.waiters)
          /\ Elems(Tail(g.waiters)) \subseteq Elems(g.waiters) \ {Head(g.waiters)}
      BY <1>3, TailElems DEF GateFormed
    <2>4. Head(g.waiters) \in Ops
      BY <1>3 DEF GateFormed
    <2>5. GateFormed(h)
      BY <2>2, <2>3, <2>4 DEF GateFormed
    <2> QED
      BY <1>3, <2>2, <2>3, <2>5 DEF h, GateFormed
  <1> QED
    BY <1>1, <1>2, <1>3

\* Where an operation may go while its lease stays as it is.
Onward(p, w) ==
    /\ p \in Before => w \in Before \cup {"done"}
    /\ p \in Using => w \in Using \cup Closing
    /\ p \in Closing => w \in Closing
    /\ p = "done" => w = "done"

Stays(o, w) ==
    /\ pc' = [pc EXCEPT ![o] = w] /\ Onward(pc[o], w)
    /\ lease' = lease /\ active' = active

LEMMA LeaseStays ==
    ASSUME LeaseInv, NEW o \in Ops, NEW w, Stays(o, w)
    PROVE  LeaseInv'
  <1>1. Holders' = Holders
    BY DEF Holders, Stays
  <1>2. w \in Before \cup Using \cup Closing \cup {"done"}
    BY DEF LeaseInv, Stays, Onward
  <1>3. \A d \in Ops : pc'[d] = IF d = o THEN w ELSE pc[d]
    BY DEF LeaseInv, Stays
  <1>4. \A d \in Ops : /\ pc'[d] \in Before => lease[d] = "none"
                       /\ pc'[d] \in Using => lease[d] = "held"
                       /\ pc'[d] = "done" => lease[d] # "held"
    BY <1>3 DEF LeaseInv, Stays, Onward, Before, Using, Closing
  <1> QED
    BY <1>1, <1>2, <1>4 DEF LeaseInv, Stays

LEMMA LeaseTaken ==
    ASSUME LeaseInv, NEW o \in Ops, pc[o] \in Before, Lease(o)
    PROVE  LeaseInv'
  <1>1. /\ lease[o] = "none" /\ lease' = [lease EXCEPT ![o] = "held"]
        /\ pc' = [pc EXCEPT ![o] = "connecting"] /\ active' = active + 1
    BY DEF LeaseInv, Lease, Goto
  <1>2. Holders' = Holders \cup {o} /\ o \notin Holders
    BY <1>1 DEF Holders, LeaseInv
  <1>3. active' = Cardinality(Holders')
    BY <1>1, <1>2, HoldersFinite, FS_AddElement DEF LeaseInv
  <1> QED
    BY <1>1, <1>3 DEF LeaseInv, Before, Using, Closing

\* A lease is given back once, whoever asks for it.
LEMMA LeaseGiven ==
    ASSUME LeaseInv, NEW o \in Ops, ReleaseLease(o), pc[o] \notin Before,
           NEW w \in Closing \cup {"done"}, pc' = [pc EXCEPT ![o] = w]
    PROVE  LeaseInv'
  <1>0. w \notin Before /\ w \notin Using
    BY DEF Before, Using, Closing
  <1>1. CASE lease[o] = "held"
    <2>1. lease' = [lease EXCEPT ![o] = "released"] /\ active' = active - 1
      BY <1>1 DEF ReleaseLease
    <2>2. Holders' = Holders \ {o} /\ o \in Holders
      BY <1>1, <2>1 DEF Holders, LeaseInv
    <2>3. active' = Cardinality(Holders')
      BY <2>1, <2>2, HoldersFinite, FS_RemoveElement DEF LeaseInv
    <2> QED
      BY <1>0, <2>1, <2>3 DEF LeaseInv
  <1>2. CASE lease[o] # "held"
    <2>1. lease' = lease /\ active' = active
      BY <1>2 DEF ReleaseLease
    <2>2. Holders' = Holders
      BY <2>1 DEF Holders
    <2> QED
      BY <1>0, <1>2, <2>1, <2>2 DEF LeaseInv
  <1> QED
    BY <1>1, <1>2

\* A step of o at the gate: permits go to o or to somebody who waits.
LEMMA GateChanges ==
    ASSUME GateInv, NEW o \in Ops, GateFormed(gate'), mode' = mode,
           \A d \in Ops : d # o => pc'[d] = pc[d] /\ lease'[d] = lease[d],
           gate'.owners \subseteq gate.owners \cup Elems(gate.waiters) \cup {o},
           Elems(gate'.waiters) \subseteq Elems(gate.waiters) \cup {o},
           o \in gate'.owners => lease'[o] = "held" \/ (pc'[o] = "waiting" /\ mode = "legacy"),
           o \in Elems(gate'.waiters) => pc'[o] = "waiting",
           mode = "resource" => gate'.waiters = <<>> /\ gate'.owners \subseteq gate.owners \cup {o}
    PROVE  GateInv'
  <1>1. gate.owners \subseteq Ops /\ gate'.owners \subseteq Ops
    BY DEF GateInv, GateFormed
  <1>2. Elems(gate.waiters) \subseteq Ops /\ Elems(gate'.waiters) \subseteq Ops
    BY DEF GateInv, GateFormed, Elems
  <1>3. \A d \in gate'.owners : lease'[d] = "held" \/ pc'[d] = "waiting"
    BY <1>1, <1>2 DEF GateInv
  <1>4. \A d \in Elems(gate'.waiters) : pc'[d] = "waiting"
    BY <1>1, <1>2 DEF GateInv
  <1>5. mode = "resource" => \A d \in gate'.owners : lease'[d] = "held"
    BY <1>1 DEF GateInv
  <1> QED
    BY <1>3, <1>4, <1>5 DEF GateInv

\* Who does not wait is in the gate with its lease only.
LEMMA NotWaiting ==
    ASSUME GateInv, NEW o \in Ops, pc[o] # "waiting"
    PROVE  (o \in gate.owners => lease[o] = "held") /\ o \notin Elems(gate.waiters)
  BY DEF GateInv

LEMMA GateStays ==
    ASSUME LeaseInv, GateInv, NEW o \in Ops, NEW w, Stays(o, w),
           o \in gate.owners => lease[o] = "held",
           o \notin Elems(gate.waiters), gate' = gate, mode' = mode
    PROVE  GateInv'
  <1>1. \A d \in Ops : d # o => pc'[d] = pc[d] /\ lease'[d] = lease[d]
    BY DEF Stays, LeaseInv
  <1>2. gate'.owners = gate.owners /\ gate'.waiters = gate.waiters /\ GateFormed(gate')
    BY DEF GateInv
  <1>3. o \in gate'.owners => lease'[o] = "held"
    BY <1>2 DEF Stays
  <1>4. /\ gate'.owners \subseteq gate.owners \cup Elems(gate.waiters) \cup {o}
        /\ gate'.owners \subseteq gate.owners \cup {o}
        /\ Elems(gate'.waiters) \subseteq Elems(gate.waiters) \cup {o}
        /\ o \notin Elems(gate'.waiters)
    BY <1>2
  <1>5. mode = "resource" => gate'.waiters = <<>>
    BY <1>2 DEF GateInv
  <1> QED
    BY <1>1, <1>2, <1>3, <1>4, <1>5, GateChanges

\* The gate after o has taken a permit at once.
LEMMA GateTaken ==
    ASSUME LeaseInv, GateInv, NEW o \in Ops, Take(o), Lease(o), mode' = mode,
           o \notin Elems(gate.waiters)
    PROVE  GateInv'
  <1>1. /\ DOMAIN gate' = DOMAIN gate
        /\ gate'.owners = gate.owners \cup {o} /\ gate'.waiters = gate.waiters
    BY DEF Take, GateInv, GateFormed
  <1>2. GateFormed(gate')
    BY <1>1 DEF GateInv, GateFormed
  <1>3. lease'[o] = "held" /\ \A d \in Ops : d # o => pc'[d] = pc[d] /\ lease'[d] = lease[d]
    BY DEF Lease, Goto, LeaseInv
  <1>4. /\ gate'.owners \subseteq gate.owners \cup Elems(gate.waiters) \cup {o}
        /\ gate'.owners \subseteq gate.owners \cup {o}
        /\ Elems(gate'.waiters) \subseteq Elems(gate.waiters) \cup {o}
        /\ o \notin Elems(gate'.waiters)
    BY <1>1
  <1>5. mode = "resource" => gate'.waiters = <<>>
    BY <1>1 DEF GateInv
  <1> QED
    BY <1>1, <1>2, <1>3, <1>4, <1>5, GateChanges

\* The gate after o has returned its permit.
LEMMA GateReturned ==
    ASSUME GateInv, NEW o \in Ops, gate' = GateReleased(gate, o), mode' = mode,
           \A d \in Ops : d # o => pc'[d] = pc[d] /\ lease'[d] = lease[d],
           o \notin Elems(gate.waiters)
    PROVE  GateInv'
  <1> DEFINE h == GateReleased(gate, o)
  <1>1. /\ GateFormed(h) /\ o \notin h.owners
        /\ h.owners \subseteq gate.owners \cup Elems(gate.waiters)
        /\ Elems(h.waiters) \subseteq Elems(gate.waiters)
        /\ gate.waiters = <<>> => h.waiters = <<>> /\ h.owners \subseteq gate.owners
    BY ReleasedFormed DEF GateInv
  <1> HIDE DEF h
  <1>2. gate' = h
    BY DEF h
  <1>3. mode = "resource" => gate'.waiters = <<>> /\ gate'.owners \subseteq gate.owners
    BY <1>1, <1>2 DEF GateInv
  <1> QED
    BY <1>1, <1>2, <1>3, GateChanges

\* Giving a lease back, whether it is the first time or not.
LEMMA GateGiven ==
    ASSUME LeaseInv, GateInv, NEW o \in Ops, ReleaseLease(o), mode' = mode,
           pc[o] # "waiting", NEW w, pc' = [pc EXCEPT ![o] = w]
    PROVE  GateInv'
  <1>1. o \notin Elems(gate.waiters) /\ (o \in gate.owners => lease[o] = "held")
    BY NotWaiting
  <1>2. \A d \in Ops : d # o => pc'[d] = pc[d] /\ lease'[d] = lease[d]
    BY DEF ReleaseLease, LeaseInv
  <1>3. CASE lease[o] = "held"
    BY <1>1, <1>2, <1>3, GateReturned DEF ReleaseLease
  <1>4. CASE lease[o] # "held"
    <2>1. gate' = gate
      BY <1>4 DEF ReleaseLease
    <2>2. gate'.owners = gate.owners /\ gate'.waiters = gate.waiters /\ GateFormed(gate')
      BY <2>1 DEF GateInv
    <2>3. mode = "resource" => gate'.waiters = <<>>
      BY <2>2 DEF GateInv
    <2> QED
      BY <1>1, <1>2, <1>4, <2>2, <2>3, GateChanges
  <1> QED
    BY <1>3, <1>4

\* The steps of an operation that touch neither its lease nor the gate.
Proceeds(o) ==
    \/ GetClient(o) \/ Buffer(o) \/ ForceClose(o) \/ CooperativeDone(o) \/ Evict(o)
    \/ ConnectionsClosed(o) \/ CloseSettled(o) \/ CloseStuck(o) \/ StuckEnds(o)
    \/ \E k \in Steps : PassDeadline(o, k)

LEMMA ProceedsStays ==
    ASSUME LeaseInv, NEW o \in Ops, Proceeds(o)
    PROVE  /\ \E w : Stays(o, w)
           /\ pc[o] # "waiting" /\ gate' = gate /\ mode' = mode
  <1>0. pc = [pc EXCEPT ![o] = pc[o]]
    BY DEF LeaseInv
  <1>1. CASE GetClient(o)
    <2>1. Stays(o, "client") \/ Stays(o, "done")
      BY <1>1 DEF GetClient, Goto, Stays, Onward, Before, Using, Closing
    <2> QED
      BY <1>1, <2>1 DEF GetClient
  <1>2. CASE Buffer(o)
    <2>1. Stays(o, pc[o])
      BY <1>0, <1>2 DEF Buffer, Stays, Onward, Before, Using, Closing
    <2> QED
      BY <1>2, <2>1 DEF Buffer
  <1>3. CASE ForceClose(o)
    <2>1. Stays(o, "cooperative")
      BY <1>3 DEF ForceClose, Goto, Stays, Onward, Before, Using, Closing
    <2> QED
      BY <1>3, <2>1 DEF ForceClose
  <1>4. CASE CooperativeDone(o) \/ CloseSettled(o) \/ StuckEnds(o)
    <2>1. Stays(o, "raw")
      BY <1>4
         DEF CooperativeDone, CloseSettled, StuckEnds, Goto, Stays, Onward, Before, Using, Closing
    <2> QED
      BY <1>4, <2>1 DEF CooperativeDone, CloseSettled, StuckEnds
  <1>5. CASE Evict(o)
    <2>1. Stays(o, "abort") \/ Stays(o, "again")
      BY <1>5 DEF Evict, Goto, Stays, Onward, Before, Using, Closing
    <2> QED
      BY <1>5, <2>1 DEF Evict
  <1>6. CASE ConnectionsClosed(o)
    <2>1. Stays(o, "again")
      BY <1>6 DEF ConnectionsClosed, Goto, Stays, Onward, Before, Using, Closing
    <2> QED
      BY <1>6, <2>1 DEF ConnectionsClosed
  <1>7. CASE CloseStuck(o)
    <2>1. Stays(o, "raw") \/ Stays(o, "stuck")
      BY <1>7 DEF CloseStuck, Goto, Stays, Onward, Before, Using, Closing
    <2> QED
      BY <1>7, <2>1 DEF CloseStuck
  <1>8. ASSUME NEW k \in Steps, PassDeadline(o, k)
        PROVE  (\E w : Stays(o, w)) /\ pc[o] # "waiting" /\ gate' = gate /\ mode' = mode
    <2>1. pc[o] \in {"conn", "raw"}
      BY <1>8 DEF PassDeadline
    <2>2. Stays(o, "again") \/ Stays(o, "leave") \/ Stays(o, pc[o])
      BY <1>0, <1>8, <2>1 DEF PassDeadline, Goto, Stays, Onward, Before, Using, Closing
    <2> QED
      BY <1>8, <2>1, <2>2 DEF PassDeadline
  <1> QED
    BY <1>1, <1>2, <1>3, <1>4, <1>5, <1>6, <1>7, <1>8 DEF Proceeds

\* The others.
Trades(o) ==
    \/ Acquire(o) \/ Poll(o) \/ Resume(o) \/ GiveUp(o)
    \/ Connected(o) \/ ConnectFails(o) \/ CloseBuffered(o) \/ AbortLease(o) \/ Leave(o)

LEMMA TradesHolds ==
    ASSUME LeaseInv, GateInv, NEW o \in Ops, Trades(o)
    PROVE  LeaseInv' /\ GateInv'
  <1>0. /\ mode' = mode /\ mode \in {"resource", "legacy"}
        /\ GateFormed(gate)
    BY DEF Trades, Acquire, Poll, Resume, GiveUp, Connected, ConnectFails, CloseBuffered,
           AbortLease, Leave, GateInv
  <1>d. ASSUME pc[o] \in Before, NoLease(o)
        PROVE  /\ Stays(o, "done") /\ LeaseInv'
               /\ \A d \in Ops : d # o => pc'[d] = pc[d] /\ lease'[d] = lease[d]
    <2>1. Stays(o, "done")
      BY <1>d DEF NoLease, Goto, Stays, Onward, Before, Using, Closing
    <2> QED
      BY <2>1, LeaseStays DEF Stays, LeaseInv
  <1>1. CASE Acquire(o)
    <2>1. /\ pc[o] = "client" /\ o \notin gate.owners /\ o \notin Elems(gate.waiters)
      <3>1. pc[o] = "client" /\ lease[o] = "none"
        BY <1>1 DEF Acquire, LeaseInv, Before
      <3> QED
        BY <3>1, NotWaiting
    <2>2. CASE NoLease(o) /\ gate' = gate
      BY <1>0, <1>d, <2>1, <2>2, GateStays DEF Before
    <2>3. CASE Take(o) /\ Lease(o)
      BY <1>0, <2>1, <2>3, LeaseTaken, GateTaken DEF Before
    <2>4. CASE Goto(o, "waiting") /\ gate' = gate /\ lease' = lease /\ active' = active
      <3>1. Stays(o, "waiting")
        BY <2>1, <2>4 DEF Goto, Stays, Onward, Before, Using, Closing
      <3> QED
        BY <1>0, <2>1, <2>4, <3>1, LeaseStays, GateStays
    <2>5. CASE /\ mode = "legacy" /\ gate' = [gate EXCEPT !.waiters = Append(@, o)]
               /\ Goto(o, "waiting") /\ lease' = lease /\ active' = active
      <3>1. Stays(o, "waiting")
        BY <2>1, <2>5 DEF Goto, Stays, Onward, Before, Using, Closing
      <3>2. /\ DOMAIN gate' = DOMAIN gate /\ gate'.owners = gate.owners
            /\ gate'.waiters = Append(gate.waiters, o)
        BY <1>0, <2>5 DEF GateFormed
      <3>3. /\ Append(gate.waiters, o) \in Seq(Ops) /\ Distinct(Append(gate.waiters, o))
            /\ Elems(Append(gate.waiters, o)) = Elems(gate.waiters) \cup {o}
        BY <1>0, <2>1, AppendElems DEF GateFormed
      <3>4. GateFormed(gate')
        BY <1>0, <2>1, <3>2, <3>3 DEF GateFormed
      <3>5. pc'[o] = "waiting" /\ \A d \in Ops : d # o => pc'[d] = pc[d] /\ lease'[d] = lease[d]
        BY <2>5 DEF Goto, LeaseInv
      <3>6. GateInv'
        BY <1>0, <2>1, <2>5, <3>2, <3>3, <3>4, <3>5, GateChanges
      <3> QED
        BY <3>1, <3>6, LeaseStays
    <2> QED
      BY <1>1, <2>2, <2>3, <2>4, <2>5 DEF Acquire
  <1>2. CASE Poll(o)
    <2>1. /\ pc[o] = "waiting" /\ mode = "resource" /\ lease[o] = "none"
      BY <1>2 DEF Poll, LeaseInv, Before
    <2>2. o \notin gate.owners /\ gate.waiters = <<>> /\ o \notin Elems(gate.waiters)
      BY <2>1 DEF GateInv, Elems
    <2>3. CASE NoLease(o) /\ gate' = gate
      BY <1>0, <1>d, <2>1, <2>2, <2>3, GateStays DEF Before
    <2>4. CASE Take(o) /\ Lease(o)
      BY <1>0, <2>1, <2>2, <2>4, LeaseTaken, GateTaken DEF Before
    <2> QED
      BY <1>2, <2>3, <2>4 DEF Poll
  <1>3. CASE Resume(o)
    <2>1. /\ pc[o] = "waiting" /\ o \in gate.owners /\ lease[o] = "none"
          /\ o \notin Elems(gate.waiters)
      BY <1>0, <1>3 DEF Resume, LeaseInv, Before, GateFormed
    <2>2. CASE NoLease(o) /\ gate' = GateReleased(gate, o)
      BY <1>0, <1>d, <2>1, <2>2, GateReturned DEF Before
    <2>3. CASE Lease(o) /\ gate' = gate
      <3>1. lease'[o] = "held" /\ \A d \in Ops : d # o => pc'[d] = pc[d] /\ lease'[d] = lease[d]
        BY <2>3 DEF Lease, Goto, LeaseInv
      <3>2. gate'.owners = gate.owners /\ gate'.waiters = gate.waiters /\ GateFormed(gate')
        BY <1>0, <2>3
      <3>3. mode = "resource" => gate'.waiters = <<>>
        BY <3>2 DEF GateInv
      <3>4. GateInv'
        BY <1>0, <2>1, <3>1, <3>2, <3>3, GateChanges
      <3> QED
        BY <2>1, <2>3, <3>4, LeaseTaken DEF Before
    <2> QED
      BY <1>3, <2>2, <2>3 DEF Resume
  <1>4. CASE GiveUp(o)
    <2>1. /\ pc[o] = "waiting" /\ o \notin gate.owners /\ NoLease(o)
      BY <1>4 DEF GiveUp
    <2>2. CASE mode = "resource" /\ gate' = gate
      <3>1. o \notin Elems(gate.waiters)
        BY <2>2 DEF GateInv, Elems
      <3> QED
        BY <1>0, <1>d, <2>1, <2>2, <3>1, GateStays DEF Before
    <2>3. ASSUME mode = "legacy", NEW i \in 1..Len(gate.waiters), gate.waiters[i] = o,
                 gate' = [gate EXCEPT !.waiters = RemoveAt(@, i)]
          PROVE  GateInv'
      <3>1. /\ DOMAIN gate' = DOMAIN gate /\ gate'.owners = gate.owners
            /\ gate'.waiters = RemoveAt(gate.waiters, i)
        BY <1>0, <2>3 DEF GateFormed
      <3>2. /\ RemoveAt(gate.waiters, i) \in Seq(Ops) /\ Distinct(RemoveAt(gate.waiters, i))
            /\ Elems(RemoveAt(gate.waiters, i)) \subseteq Elems(gate.waiters) \ {o}
        BY <1>0, <2>3, RemoveElems DEF GateFormed
      <3>3. GateFormed(gate')
        BY <1>0, <3>1, <3>2 DEF GateFormed
      <3>4. \A d \in Ops : d # o => pc'[d] = pc[d] /\ lease'[d] = lease[d]
        BY <1>d, <2>1 DEF Before
      <3> QED
        BY <1>0, <2>1, <2>3, <3>1, <3>2, <3>3, <3>4, GateChanges
    <2> QED
      BY <1>4, <1>d, <2>1, <2>2, <2>3 DEF GiveUp, Before
  <1>5. CASE Connected(o)
    <2>1. /\ pc[o] = "connecting" /\ lease[o] = "held" /\ MarkConnected(o)
          /\ Stays(o, "streaming") \/ Stays(o, "buffering")
      BY <1>5 DEF Connected, Goto, Stays, Onward, Before, Using, Closing, LeaseInv
    <2>2. LeaseInv'
      BY <2>1, LeaseStays
    <2>3. o \notin Elems(gate.waiters)
      BY <2>1, NotWaiting
    <2>4. \A d \in Ops : d # o => pc'[d] = pc[d] /\ lease'[d] = lease[d]
      BY <2>1 DEF Stays, LeaseInv
    <2>5. CASE mode = "resource"
      BY <1>0, <2>1, <2>2, <2>3, <2>4, <2>5, GateReturned DEF MarkConnected
    <2>6. CASE mode # "resource"
      BY <1>0, <2>1, <2>2, <2>3, <2>6, GateStays DEF MarkConnected
    <2> QED
      BY <2>5, <2>6
  <1>6. CASE ConnectFails(o) \/ CloseBuffered(o) \/ Leave(o)
    <2>1. /\ pc[o] \notin Before /\ pc[o] # "waiting" /\ ReleaseLease(o)
          /\ pc' = [pc EXCEPT ![o] = "done"]
      BY <1>6 DEF ConnectFails, CloseBuffered, Leave, Goto, Before
    <2> QED
      BY <1>0, <2>1, LeaseGiven, GateGiven
  <1>7. CASE AbortLease(o)
    <2>1. /\ pc[o] \notin Before /\ pc[o] # "waiting" /\ ReleaseLease(o)
          /\ pc' = [pc EXCEPT ![o] = "conn"]
      BY <1>7 DEF AbortLease, Goto, Before
    <2> QED
      BY <1>0, <2>1, LeaseGiven, GateGiven DEF Closing
  <1> QED
    BY <1>1, <1>2, <1>3, <1>4, <1>5, <1>6, <1>7 DEF Trades

\* A clean-up runs only for an operation that closes, or is over.
RunsLate == \A o \in Ops, k \in Steps : Running(o, k) => pc[o] \in Closing \cup {"done"}

LEMMA HoldStep ==
    ASSUME LeaseInv, GateInv, RunsLate, [PoolNext]_poolVars
    PROVE  LeaseInv' /\ GateInv'
  <1>1. CASE UNCHANGED <<mode, pc, lease, gate, active>>
    <2>1. Holders' = Holders
      BY <1>1 DEF Holders
    <2> QED
      BY <1>1, <2>1 DEF LeaseInv, GateInv
  <1>2. ASSUME NEW o \in Ops, Operation(o) PROVE LeaseInv' /\ GateInv'
    <2>1. Proceeds(o) \/ Trades(o)
      BY <1>2 DEF Operation, Proceeds, Trades
    <2>2. CASE Proceeds(o)
      <3>1. (\E w : Stays(o, w)) /\ pc[o] # "waiting" /\ gate' = gate /\ mode' = mode
        BY <2>2, ProceedsStays
      <3>2. PICK w : Stays(o, w)
        BY <3>1
      <3> QED
        BY <3>1, <3>2, NotWaiting, LeaseStays, GateStays
    <2> QED
      BY <2>1, <2>2, TradesHolds
  <1>3. ASSUME NEW o \in Ops, NEW k \in Steps, NEW how, TaskEnds(o, k, how)
        PROVE  LeaseInv' /\ GateInv'
    <2>1. CASE k # "close"
      BY <1>1, <1>3, <2>1 DEF TaskEnds
    <2>2. CASE k = "close"
      <3>1. /\ ReleaseLease(o) /\ mode' = mode /\ pc' = [pc EXCEPT ![o] = pc[o]]
            /\ pc[o] \in Closing \cup {"done"}
        BY <1>3, <2>2 DEF TaskEnds, Ended, RunsLate, LeaseInv
      <3>2. pc[o] \notin Before /\ pc[o] # "waiting"
        BY <3>1 DEF Before, Closing
      <3> QED
        BY <3>1, <3>2, LeaseGiven, GateGiven
    <2> QED
      BY <2>1, <2>2
  <1>4. CASE UNCHANGED poolVars
    BY <1>1, <1>4 DEF poolVars
  <1>5. CASE (\E o \in Ops : RequestEnds(o)) \/ Close \/ CloseEnds \/ ShutdownCleanups
    BY <1>1, <1>5 DEF RequestEnds, Close, CloseEnds, ShutdownCleanups
  <1> QED
    BY <1>2, <1>3, <1>4, <1>5 DEF PoolNext

-----------------------------------------------------------------------------
(* Clean-ups and transports *)

Tasks == {"none", "running", "ok", "failed"}

CleanTyped ==
    /\ task \in [Ops -> [Steps -> Tasks]]
    /\ bg \subseteq Ops \X Steps
    /\ deferral \in [Ops -> SUBSET Steps]
    /\ request \in [Ops -> {"none", "active", "released"}]
    /\ inline \in [Ops -> SUBSET Steps]
    /\ transport \in [Ops -> {"none", "pool", "idle", "evicted"}]

TableBounded == IsFiniteSet(bg) /\ Cardinality(bg) <= MaxTasks

\* The clean-ups an operation still waits for.
Waited(p) ==
    CASE p \in {"cooperative", "abort", "again", "stuck"} -> {"close"}
      [] p = "conn" -> {"close", "conn"}
      [] p = "raw" -> {"raw"}
      [] OTHER -> {}

\* Whose clean-up it is, and what its request's bytes wait for.
CleanupsOf(o) ==
    /\ pc[o] \in Before \cup Using =>
          \A k \in Steps : task[o][k] = "none" /\ <<o, k>> \notin bg
    /\ \A k \in Steps : Running(o, k) => <<o, k>> \in bg \/ k \in Waited(pc[o])
    /\ request[o] = "released" => pc[o] = "done"
    /\ \A k \in Steps :
          /\ request[o] = "active" /\ <<o, k>> \in bg => k \in deferral[o]
          /\ request[o] = "released" /\ Running(o, k) => k \in deferral[o]

\* The transport of a response, which must be gone when the lease is.
TransportOf(o) ==
    /\ pc[o] \in Before \cup {"connecting"} => transport[o] = "none"
    /\ pc[o] \in {"abort", "conn"} \/ task[o]["close"] = "ok" => transport[o] # "pool"
    /\ pc[o] \in Closing => task[o]["close"] # "none"
    /\ request[o] # "none" /\ transport[o] = "pool"
          /\ (pc[o] \in {"raw", "leave"} \/ lease[o] = "released")
             => task[o]["close"] = "failed"

OpInv(o) == CleanupsOf(o) /\ TransportOf(o)

\* A step of o leaves the others alone.
Alone(o) ==
    \A d \in Ops : d # o =>
        /\ pc'[d] = pc[d] /\ lease'[d] = lease[d] /\ transport'[d] = transport[d]
        /\ task'[d] = task[d] /\ deferral'[d] = deferral[d]
        /\ request'[d] = request[d]
        /\ \A k \in Steps : <<d, k>> \in bg' <=> <<d, k>> \in bg

LEMMA OthersKeep ==
    ASSUME NEW o \in Ops, Alone(o), \A d \in Ops : OpInv(d), OpInv(o)'
    PROVE  \A d \in Ops : OpInv(d)'
  <1> SUFFICES ASSUME NEW d \in Ops, d # o PROVE OpInv(d)'
    OBVIOUS
  <1>1. /\ pc'[d] = pc[d] /\ lease'[d] = lease[d] /\ transport'[d] = transport[d]
        /\ task'[d] = task[d] /\ deferral'[d] = deferral[d] /\ request'[d] = request[d]
        /\ \A k \in Steps : <<d, k>> \in bg' <=> <<d, k>> \in bg
    BY DEF Alone
  <1>2. CleanupsOf(d) /\ TransportOf(d)
    BY DEF OpInv
  <1>3. CleanupsOf(d)'
    BY <1>1, <1>2 DEF CleanupsOf, Running
  <1>4. TransportOf(d)'
    BY <1>1, <1>2 DEF TransportOf
  <1> QED
    BY <1>3, <1>4 DEF OpInv

LEMMA RunsLateHolds ==
    ASSUME LeaseInv, \A o \in Ops : OpInv(o)
    PROVE  RunsLate
  BY DEF LeaseInv, OpInv, CleanupsOf, RunsLate, Running

\* Steps that leave the clean-ups as they are.
Idles(o) ==
    \/ GetClient(o) \/ Acquire(o) \/ Poll(o) \/ Resume(o) \/ GiveUp(o)
    \/ Connected(o) \/ ConnectFails(o) \/ Buffer(o) \/ CloseBuffered(o)
    \/ Evict(o) \/ ConnectionsClosed(o) \/ Leave(o)

LEMMA IdlesKeeps ==
    ASSUME CleanTyped, LeaseInv, NEW o \in Ops, Idles(o)
    PROVE  /\ CleanTyped' /\ Alone(o)
           /\ task' = task /\ bg' = bg /\ deferral' = deferral /\ request' = request
           /\ inline' = inline
  <1>1. task' = task /\ bg' = bg /\ deferral' = deferral /\ request' = request /\ inline' = inline
    BY DEF Idles, GetClient, Acquire, Poll, Resume, GiveUp, Connected, ConnectFails, Buffer,
           CloseBuffered, Evict, ConnectionsClosed, Leave, cleanupVars
  <1>2. \/ transport' = transport
        \/ \E t \in {"pool", "idle", "evicted"} : transport' = [transport EXCEPT ![o] = t]
    BY DEF CleanTyped, Idles, GetClient, Acquire, Poll, Resume, GiveUp, Connected, ConnectFails,
           Buffer, CloseBuffered, Evict, ConnectionsClosed, Leave
  <1>3. CleanTyped'
    BY <1>1, <1>2 DEF CleanTyped
  <1>4. \A d \in Ops : d # o => pc'[d] = pc[d]
    BY DEF LeaseInv, Idles, GetClient, Acquire, Poll, Resume, GiveUp, Connected, ConnectFails,
           Buffer, CloseBuffered, Evict, ConnectionsClosed, Leave, Goto, NoLease, Lease
  <1>5. \A d \in Ops : d # o => lease'[d] = lease[d]
    BY DEF LeaseInv, Idles, GetClient, Acquire, Poll, Resume, GiveUp, Connected, ConnectFails,
           Buffer, CloseBuffered, Evict, ConnectionsClosed, Leave, NoLease, Lease, ReleaseLease
  <1>6. \A d \in Ops : d # o => transport'[d] = transport[d]
    BY <1>2 DEF CleanTyped
  <1> QED
    BY <1>1, <1>3, <1>4, <1>5, <1>6 DEF Alone

LEMMA IdlesHolds ==
    ASSUME CleanTyped, LeaseInv, NEW o \in Ops, OpInv(o), Idles(o)
    PROVE  OpInv(o)'
  <1>0. task' = task /\ bg' = bg /\ deferral' = deferral /\ request' = request
    BY IdlesKeeps
  <1>t. /\ lease \in [Ops -> {"none", "held", "released"}]
        /\ DOMAIN pc = Ops /\ DOMAIN transport = Ops
    BY DEF CleanTyped, LeaseInv
  <1>c. CleanupsOf(o) /\ TransportOf(o)
    BY DEF OpInv
  <1> USE DEF Before, Using, Closing
  \* Before there is a response.
  <1>1. CASE GetClient(o) \/ Acquire(o) \/ Poll(o) \/ Resume(o) \/ GiveUp(o)
    <2>1. /\ pc[o] \in Before /\ pc'[o] \in Before \cup {"connecting", "done"}
          /\ lease'[o] \in {"none", "held"} /\ transport' = transport
      BY <1>1, <1>t DEF GetClient, Acquire, Poll, Resume, GiveUp, NoLease, Lease, Goto, LeaseInv
    <2>2. transport[o] = "none" /\ request[o] # "released"
          /\ \A k \in Steps : task[o][k] = "none" /\ <<o, k>> \notin bg
      BY <1>c, <2>1 DEF CleanupsOf, TransportOf
    <2>3. CleanupsOf(o)'
      BY <1>0, <2>1, <2>2 DEF CleanupsOf, Running
    <2>4. TransportOf(o)'
      BY <1>0, <2>1, <2>2 DEF TransportOf, Steps
    <2> QED
      BY <2>3, <2>4 DEF OpInv
  <1>2. CASE Connected(o) \/ ConnectFails(o) \/ Buffer(o) \/ CloseBuffered(o)
    <2>1. pc[o] \in Using /\ pc'[o] \in {"streaming", "buffering", "done"} /\ lease[o] = "held"
      BY <1>2, <1>t DEF Connected, ConnectFails, Buffer, CloseBuffered, Goto, LeaseInv
    <2>2. request[o] # "released" /\ \A k \in Steps : task[o][k] = "none" /\ <<o, k>> \notin bg
      BY <1>c, <2>1 DEF CleanupsOf
    <2>3. \/ lease'[o] = "held" /\ pc'[o] \in {"streaming", "buffering"}
          \/ pc'[o] = "done" /\ transport'[o] # "pool"
      BY <1>2, <1>c, <1>t, <2>1
         DEF Connected, ConnectFails, Buffer, CloseBuffered, Goto, TransportOf
    <2>4. CleanupsOf(o)'
      BY <1>0, <2>1, <2>2 DEF CleanupsOf, Running
    <2>5. TransportOf(o)'
      BY <1>0, <2>2, <2>3 DEF TransportOf, Steps
    <2> QED
      BY <2>4, <2>5 DEF OpInv
  <1>3. CASE Evict(o)
    <2>1. /\ pc[o] = "cooperative" /\ pc'[o] \in {"abort", "again"} /\ lease' = lease
          /\ task[o]["close"] # "ok"
          /\ \/ transport'[o] = (IF transport[o] = "pool" THEN "evicted" ELSE transport[o])
             \/ transport'[o] = transport[o] /\ pc'[o] = "again"
      BY <1>3, <1>t DEF Evict, Goto
    <2>2. CleanupsOf(o)'
      BY <1>0, <1>c, <2>1 DEF CleanupsOf, Running, Waited
    <2>3. TransportOf(o)'
      BY <1>0, <1>c, <2>1 DEF TransportOf
    <2> QED
      BY <2>2, <2>3 DEF OpInv
  <1>4. CASE ConnectionsClosed(o)
    <2>1. /\ pc[o] = "conn" /\ pc'[o] = "again" /\ ~ Running(o, "conn")
          /\ lease' = lease /\ transport' = transport
      BY <1>4, <1>t DEF ConnectionsClosed, Goto, Settled
    <2>2. CleanupsOf(o)'
      BY <1>0, <1>c, <2>1 DEF CleanupsOf, Running, Waited
    <2>3. TransportOf(o)'
      BY <1>0, <1>c, <2>1 DEF TransportOf
    <2> QED
      BY <2>2, <2>3 DEF OpInv
  <1>5. CASE Leave(o)
    <2>1. /\ pc[o] \in {"raw", "leave"} /\ pc'[o] = "done" /\ transport' = transport
          /\ pc[o] = "raw" => ~ Running(o, "raw")
      BY <1>5, <1>t DEF Leave, Goto, Settled
    <2>2. CleanupsOf(o)'
      BY <1>0, <1>c, <2>1 DEF CleanupsOf, Running, Waited
    <2>3. TransportOf(o)'
      BY <1>0, <1>c, <2>1 DEF TransportOf
    <2> QED
      BY <2>2, <2>3 DEF OpInv
  <1> QED
    BY <1>1, <1>2, <1>3, <1>4, <1>5 DEF Idles

\* Steps that start a clean-up, and what they start.
Starts(o, k) ==
    \/ k = "close" /\ ForceClose(o)
    \/ k = "conn" /\ AbortLease(o)
    \/ k = "raw" /\ (CooperativeDone(o) \/ CloseSettled(o) \/ StuckEnds(o))

LEMMA StartsHolds ==
    ASSUME CleanTyped, LeaseInv, NEW o \in Ops, NEW k \in Steps, Starts(o, k), OpInv(o)
    PROVE  CleanTyped' /\ Alone(o) /\ OpInv(o)' /\ bg' = bg /\ inline' = inline
  <1>1. /\ task' = [task EXCEPT ![o][k] = "running"]
        /\ bg' = bg /\ deferral' = deferral /\ request' = request /\ inline' = inline
        /\ transport' = transport
    BY DEF Starts, ForceClose, AbortLease, CooperativeDone, CloseSettled, StuckEnds, Started
  <1>2. /\ task[o] \in [Steps -> Tasks] /\ task'[o] = [task[o] EXCEPT ![k] = "running"]
        /\ \A d \in Ops : d # o => task'[d] = task[d]
    BY <1>1 DEF CleanTyped
  <1>3. task'[o][k] = "running" /\ \A j \in Steps : j # k => task'[o][j] = task[o][j]
    BY <1>2
  <1>4. CleanTyped'
    BY <1>1 DEF CleanTyped, Tasks
  <1>5. \A d \in Ops : d # o => pc'[d] = pc[d] /\ lease'[d] = lease[d]
    BY DEF LeaseInv, Starts, ForceClose, AbortLease, CooperativeDone, CloseSettled, StuckEnds,
           Goto, ReleaseLease
  <1>6. Alone(o)
    BY <1>1, <1>2, <1>5 DEF Alone
  <1>c. CleanupsOf(o) /\ TransportOf(o)
    BY DEF OpInv
  <1>t. DOMAIN pc = Ops /\ DOMAIN lease = Ops
    BY DEF LeaseInv
  <1>7. CASE k = "close" /\ ForceClose(o)
    <2>1. pc[o] = "streaming" /\ pc'[o] = "cooperative" /\ lease'[o] = "held"
      BY <1>7, <1>t DEF ForceClose, Goto, LeaseInv, Using
    <2>2. CleanupsOf(o)'
      BY <1>1, <1>3, <1>7, <1>c, <2>1 DEF CleanupsOf, Running, Waited, Before, Using
    <2>3. TransportOf(o)'
      BY <1>1, <1>3, <1>7, <1>c, <2>1 DEF TransportOf, Before
    <2> QED
      BY <1>1, <1>4, <1>6, <2>2, <2>3 DEF OpInv
  <1>8. CASE k = "conn" /\ AbortLease(o)
    <2>1. pc[o] = "abort" /\ pc'[o] = "conn"
      BY <1>8, <1>t DEF AbortLease, Goto
    <2>2. CleanupsOf(o)'
      BY <1>1, <1>3, <1>8, <1>c, <2>1 DEF CleanupsOf, Running, Waited, Before, Using
    <2>3. TransportOf(o)'
      BY <1>1, <1>3, <1>8, <1>c, <2>1 DEF TransportOf, Before, Closing, Steps
    <2> QED
      BY <1>1, <1>4, <1>6, <2>2, <2>3 DEF OpInv
  <1>9. CASE k = "raw" /\ (CooperativeDone(o) \/ CloseSettled(o) \/ StuckEnds(o))
    <2>1. /\ pc[o] \in {"cooperative", "again", "stuck"} /\ pc'[o] = "raw" /\ lease' = lease
          /\ ~ Running(o, "close")
      BY <1>9, <1>t DEF CooperativeDone, CloseSettled, StuckEnds, Goto, Settled, Running
    <2>2. task[o]["close"] \in {"ok", "failed"}
      <3>1. task[o]["close"] \in Tasks /\ task[o]["close"] # "none"
        BY <1>2, <1>c, <2>1 DEF TransportOf, Closing, Steps
      <3> QED
        BY <2>1, <3>1 DEF Tasks, Running
    <2>3. CleanupsOf(o)'
      BY <1>1, <1>3, <1>9, <1>c, <2>1 DEF CleanupsOf, Running, Waited, Before, Using
    <2>4. TransportOf(o)'
      BY <1>1, <1>3, <1>9, <1>c, <2>1, <2>2 DEF TransportOf, Before, Closing, Steps
    <2> QED
      BY <1>1, <1>4, <1>6, <2>3, <2>4 DEF OpInv
  <1> QED
    BY <1>7, <1>8, <1>9 DEF Starts

\* A clean-up passes its last deadline.
Overruns(o, k) == (k = "close" /\ CloseStuck(o)) \/ PassDeadline(o, k)

\* What is detached joins the table, with a deferral of a live request's bytes.
LEMMA OverrunsEffect ==
    ASSUME CleanTyped, TableBounded, LeaseInv, NEW o \in Ops, NEW k \in Steps, Overruns(o, k)
    PROVE  /\ CleanTyped' /\ TableBounded' /\ Alone(o)
           /\ bg' = bg \/ bg' = bg \cup {<<o, k>>}
           /\ request' = request /\ transport' = transport /\ lease' = lease
           /\ \A j \in Steps :
                 /\ j \in deferral[o] => j \in deferral'[o]
                 /\ request[o] = "active" /\ <<o, j>> \in bg' \ bg => j \in deferral'[o]
  <1> DEFINE iso == IF pc[o] = "again" THEN Isolated(o) ELSE (k = "conn" \/ safe[o])
  <1>1. /\ DetachOrFinish(o, k, iso)
        /\ request' = request /\ transport' = transport /\ lease' = lease
    BY DEF Overruns, CloseStuck, PassDeadline
  <1>2. task' = task \/ task' = [task EXCEPT ![o]["raw"] = "running"]
    BY DEF Overruns, CloseStuck, PassDeadline, Started
  <1>3. \A d \in Ops : d # o => pc'[d] = pc[d]
    BY DEF Overruns, CloseStuck, PassDeadline, Goto, LeaseInv
  <1> HIDE DEF iso
  <1>4. /\ task' \in [Ops -> [Steps -> Tasks]]
        /\ \A d \in Ops : d # o => task'[d] = task[d]
    BY <1>2 DEF CleanTyped, Tasks, Steps
  <1>5. CASE MayDetach(o, iso)
    <2>1. Detach(o, k) /\ ~ Full
      BY <1>1, <1>5 DEF DetachOrFinish, MayDetach
    <2>2. bg' = bg \cup {<<o, k>>} /\ inline' = inline
      BY <2>1 DEF Detach
    <2>3. /\ deferral' \in [Ops -> SUBSET Steps]
          /\ \A d \in Ops : d # o => deferral'[d] = deferral[d]
          /\ \A j \in Steps : j \in deferral[o] => j \in deferral'[o]
          /\ request[o] = "active" => k \in deferral'[o]
      BY <2>1 DEF Detach, CleanTyped
    <2>4. TableBounded'
      <3>1. Cardinality(bg) \in Nat /\ Cardinality(bg) < MaxTasks
        BY <2>1, FS_CardinalityType, CleanupAssumption DEF Full, TableBounded
      <3>2. /\ IsFiniteSet(bg \cup {<<o, k>>})
            /\ Cardinality(bg \cup {<<o, k>>}) \in {Cardinality(bg), Cardinality(bg) + 1}
        BY FS_AddElement DEF TableBounded
      <3> QED
        BY <2>2, <3>1, <3>2, CleanupAssumption DEF TableBounded
    <2>5. CleanTyped'
      BY <1>1, <1>4, <2>2, <2>3 DEF CleanTyped
    <2>6. Alone(o)
      BY <1>1, <1>3, <1>4, <2>2, <2>3 DEF Alone
    <2> QED
      BY <1>1, <2>2, <2>3, <2>4, <2>5, <2>6
  <1>6. CASE ~ MayDetach(o, iso)
    <2>1. FinishInline(o, k)
      BY <1>1, <1>6 DEF DetachOrFinish
    <2>2. bg' = bg /\ deferral' = deferral /\ inline' = [inline EXCEPT ![o] = @ \cup {k}]
      BY <2>1 DEF FinishInline
    <2>3. CleanTyped'
      BY <1>1, <1>4, <2>2 DEF CleanTyped
    <2>4. Alone(o)
      BY <1>1, <1>3, <1>4, <2>2 DEF Alone
    <2> QED
      BY <1>1, <2>2, <2>3, <2>4 DEF TableBounded
  <1> QED
    BY <1>5, <1>6

LEMMA OverrunsHolds ==
    ASSUME CleanTyped, TableBounded, LeaseInv, NEW o \in Ops, NEW k \in Steps, Overruns(o, k),
           OpInv(o)
    PROVE  OpInv(o)'
  <1>1. /\ bg' = bg \/ bg' = bg \cup {<<o, k>>}
        /\ request' = request /\ transport' = transport /\ lease' = lease
        /\ \A j \in Steps :
              /\ j \in deferral[o] => j \in deferral'[o]
              /\ request[o] = "active" /\ <<o, j>> \in bg' \ bg => j \in deferral'[o]
    BY OverrunsEffect
  <1>c. CleanupsOf(o) /\ TransportOf(o)
    BY DEF OpInv
  <1>t. DOMAIN pc = Ops
    BY DEF LeaseInv
  <1>2. CASE k = "close" /\ CloseStuck(o)
    <2>1. pc[o] = "again" /\ Running(o, "close")
      BY <1>2 DEF CloseStuck
    <2>2. request[o] # "released"
      BY <1>c, <2>1 DEF CleanupsOf
    <2>3. CASE MayDetach(o, Isolated(o))
      <3>1. /\ pc'[o] = "raw" /\ bg' = bg \cup {<<o, "close">>}
            /\ task' = [task EXCEPT ![o]["raw"] = "running"]
        BY <1>2, <1>t, <2>3 DEF CloseStuck, DetachOrFinish, Detach, Started, Goto
      <3>2. task'[o]["raw"] = "running" /\ \A j \in Steps : j # "raw" => task'[o][j] = task[o][j]
        BY <3>1 DEF CleanTyped, Steps
      <3>3. request[o] = "none" \/ transport[o] # "pool"
        BY <2>2, <2>3 DEF MayDetach, Isolated, CleanTyped
      <3>4. CleanupsOf(o)'
        BY <1>1, <1>c, <2>1, <2>2, <3>1, <3>2 DEF CleanupsOf, Running, Waited, Before, Using
      <3>5. TransportOf(o)'
        BY <1>1, <1>c, <2>1, <3>1, <3>2, <3>3 DEF TransportOf, Before, Closing, Steps, Running
      <3> QED
        BY <3>4, <3>5 DEF OpInv
    <2>4. CASE ~ MayDetach(o, Isolated(o))
      <3>1. pc'[o] = "stuck" /\ task' = task /\ bg' = bg
        BY <1>2, <1>t, <2>4 DEF CloseStuck, DetachOrFinish, FinishInline, Goto
      <3>2. CleanupsOf(o)'
        BY <1>1, <1>c, <2>1, <2>2, <3>1 DEF CleanupsOf, Running, Waited, Before, Using
      <3>3. TransportOf(o)'
        BY <1>1, <1>c, <2>1, <3>1 DEF TransportOf, Before, Closing, Running
      <3> QED
        BY <3>2, <3>3 DEF OpInv
    <2> QED
      BY <2>3, <2>4
  <1>3. CASE PassDeadline(o, k)
    <2> DEFINE iso == k = "conn" \/ safe[o]
    <2>1. pc[o] = k /\ k \in {"conn", "raw"} /\ task' = task /\ DetachOrFinish(o, k, iso)
      BY <1>3 DEF PassDeadline
    <2>2. request[o] # "released"
      BY <1>c, <2>1 DEF CleanupsOf
    <2>3. CASE MayDetach(o, iso)
      <3>1. /\ pc'[o] = IF k = "conn" THEN "again" ELSE "leave"
            /\ bg' = bg \cup {<<o, k>>}
        BY <1>3, <1>t, <2>3 DEF PassDeadline, DetachOrFinish, Detach, Goto
      <3>2. CleanupsOf(o)'
        BY <1>1, <1>c, <2>1, <2>2, <3>1 DEF CleanupsOf, Running, Waited, Before, Using
      <3>3. TransportOf(o)'
        BY <1>1, <1>c, <2>1, <3>1 DEF TransportOf, Before, Closing
      <3> QED
        BY <3>2, <3>3 DEF OpInv
    <2>4. CASE ~ MayDetach(o, iso)
      <3>1. pc' = pc /\ bg' = bg
        BY <1>3, <2>4 DEF PassDeadline, DetachOrFinish, FinishInline
      <3>2. CleanupsOf(o)'
        BY <1>1, <1>c, <2>1, <2>2, <3>1 DEF CleanupsOf, Running
      <3>3. TransportOf(o)'
        BY <1>1, <1>c, <2>1, <3>1 DEF TransportOf
      <3> QED
        BY <3>2, <3>3 DEF OpInv
    <2> QED
      BY <2>3, <2>4
  <1> QED
    BY <1>2, <1>3 DEF Overruns

LEMMA EndsHolds ==
    ASSUME CleanTyped, TableBounded, LeaseInv, NEW o \in Ops, NEW k \in Steps,
           NEW how \in {"none", "ok", "failed"}, TaskEnds(o, k, how), OpInv(o)
    PROVE  CleanTyped' /\ TableBounded' /\ Alone(o) /\ OpInv(o)'
  <1>1. /\ task' = [task EXCEPT ![o][k] = how] /\ bg' = bg \ {<<o, k>>}
        /\ deferral' = [deferral EXCEPT ![o] = @ \ {k}]
        /\ inline' = [inline EXCEPT ![o] = @ \ {k}]
        /\ request' = request /\ pc' = pc
        /\ task[o][k] = "running"
    BY DEF TaskEnds, Ended, Running
  <1>2. /\ task[o] \in [Steps -> Tasks] /\ task'[o] = [task[o] EXCEPT ![k] = how]
        /\ \A d \in Ops : d # o => task'[d] = task[d]
    BY <1>1 DEF CleanTyped
  <1>3. task'[o][k] = how /\ \A j \in Steps : j # k => task'[o][j] = task[o][j]
    BY <1>2
  <1>4. /\ \A d \in Ops : d # o => deferral'[d] = deferral[d]
        /\ \A j \in Steps : j # k /\ j \in deferral[o] => j \in deferral'[o]
    BY <1>1 DEF CleanTyped
  <1>5. /\ k = "close" => how # "none"
        /\ k # "close" => lease' = lease /\ transport' = transport
        /\ \A d \in Ops : d # o => lease'[d] = lease[d]
    BY DEF TaskEnds, ReleaseLease, LeaseInv
  <1>6. k = "close" =>
           transport' = [transport EXCEPT ![o] = IF @ = "pool" /\ how = "ok" THEN "idle" ELSE @]
    BY DEF TaskEnds
  <1>7. CleanTyped'
    BY <1>1, <1>5, <1>6 DEF CleanTyped, Tasks
  <1>8. TableBounded'
    <2>1. Cardinality(bg) \in Nat /\ IsFiniteSet(bg')
          /\ Cardinality(bg') \in {Cardinality(bg), Cardinality(bg) - 1}
      BY <1>1, FS_RemoveElement, FS_CardinalityType DEF TableBounded
    <2> QED
      BY <2>1, CleanupAssumption DEF TableBounded
  <1>9. \A d \in Ops : d # o => transport'[d] = transport[d]
    BY <1>5, <1>6 DEF CleanTyped
  <1>a. Alone(o)
    BY <1>1, <1>2, <1>4, <1>5, <1>9 DEF Alone
  <1>c. CleanupsOf(o) /\ TransportOf(o)
    BY DEF OpInv
  <1>d. CleanupsOf(o)'
    BY <1>1, <1>3, <1>4, <1>c DEF CleanupsOf, Running
  <1>e. pc[o] \notin Before \cup Using
    BY <1>1, <1>c DEF CleanupsOf
  <1>f. TransportOf(o)'
    <2>1. CASE k = "close"
      <3>1. transport'[o] = IF transport[o] = "pool" /\ how = "ok" THEN "idle" ELSE transport[o]
        BY <1>6, <2>1 DEF CleanTyped
      <3>2. task'[o]["close"] = how /\ how \in {"ok", "failed"}
        BY <1>3, <1>5, <2>1
      <3> QED
        BY <1>1, <1>c, <1>e, <3>1, <3>2 DEF TransportOf, Using
    <2>2. CASE k # "close"
      <3>1. task'[o]["close"] = task[o]["close"]
        BY <1>3, <2>2 DEF Steps
      <3> QED
        BY <1>1, <1>5, <1>c, <2>2, <3>1 DEF TransportOf
    <2> QED
      BY <2>1, <2>2
  <1> QED
    BY <1>7, <1>8, <1>a, <1>d, <1>f DEF OpInv

LEMMA RequestHolds ==
    ASSUME CleanTyped, TableBounded, LeaseInv, NEW o \in Ops, RequestEnds(o), OpInv(o)
    PROVE  CleanTyped' /\ TableBounded' /\ Alone(o) /\ OpInv(o)'
  <1>1. /\ request[o] = "active" /\ request' = [request EXCEPT ![o] = "released"]
        /\ pc[o] = "done" /\ pc' = pc /\ task' = task /\ bg' = bg /\ deferral' = deferral
        /\ inline' = inline /\ lease' = lease /\ transport' = transport
    BY DEF RequestEnds, ReleaseRequest
  <1>2. request'[o] = "released" /\ \A d \in Ops : d # o => request'[d] = request[d]
    BY <1>1 DEF CleanTyped
  <1>3. CleanupsOf(o)'
    BY <1>1, <1>2 DEF OpInv, CleanupsOf, Running, Waited, Before, Using
  <1>4. TransportOf(o)'
    BY <1>1, <1>2 DEF OpInv, TransportOf
  <1> QED
    BY <1>1, <1>2, <1>3, <1>4 DEF CleanTyped, TableBounded, Alone, OpInv

LEMMA ShutdownHolds ==
    ASSUME CleanTyped, TableBounded, \A o \in Ops : OpInv(o), ShutdownCleanups
    PROVE  CleanTyped' /\ TableBounded' /\ \A o \in Ops : OpInv(o)'
  <1>1. PICK ended \in SUBSET bg : CancelBackground(ended)
    BY DEF ShutdownCleanups
  <1>2. /\ task' = [o \in Ops |-> [k \in Steps |->
                       IF <<o, k>> \notin ended THEN task[o][k]
                       ELSE IF k = "close" THEN "failed" ELSE "none"]]
        /\ bg' = bg \ ended /\ deferral' = deferral /\ request' = request /\ inline' = inline
        /\ pc' = pc /\ lease' = lease /\ transport' = transport
    BY <1>1, PoolAssumption DEF CancelBackground, ShutdownCleanups
  <1>3. CleanTyped'
    BY <1>2 DEF CleanTyped, Tasks
  <1>4. TableBounded'
    <2>1. IsFiniteSet(bg') /\ Cardinality(bg') <= Cardinality(bg)
      BY <1>2, FS_Subset DEF TableBounded
    <2> QED
      BY <2>1, FS_CardinalityType, CleanupAssumption DEF TableBounded
  <1>5. ASSUME NEW o \in Ops PROVE OpInv(o)'
    <2>1. \A k \in Steps : task'[o][k] = IF <<o, k>> \notin ended THEN task[o][k]
                                         ELSE IF k = "close" THEN "failed" ELSE "none"
      BY <1>2
    <2>2. CleanupsOf(o)'
      BY <1>2, <2>1 DEF OpInv, CleanupsOf, Running
    <2>3. TransportOf(o)'
      <3>1. task'[o]["close"] \in {task[o]["close"], "failed"}
        BY <2>1 DEF Steps
      <3> QED
        BY <1>2, <3>1 DEF OpInv, TransportOf
    <2> QED
      BY <2>2, <2>3 DEF OpInv
  <1> QED
    BY <1>3, <1>4, <1>5

CleanInv == CleanTyped /\ TableBounded /\ \A o \in Ops : OpInv(o)

LEMMA CleanStep ==
    ASSUME LeaseInv, CleanInv, [PoolNext]_poolVars
    PROVE  CleanInv'
  <1> USE DEF CleanInv
  <1>1. ASSUME NEW o \in Ops, Operation(o) PROVE CleanInv'
    <2>1. \/ Idles(o) \/ (\E k \in Steps : Starts(o, k)) \/ (\E k \in Steps : Overruns(o, k))
      BY <1>1 DEF Operation, Idles, Starts, Overruns, Steps
    <2>2. CASE Idles(o)
      <3>1. CleanTyped' /\ Alone(o) /\ bg' = bg
        BY <2>2, IdlesKeeps
      <3>2. OpInv(o)'
        BY <2>2, IdlesHolds
      <3> QED
        BY <3>1, <3>2, OthersKeep DEF TableBounded
    <2>3. ASSUME NEW k \in Steps, Starts(o, k) PROVE CleanInv'
      <3>1. CleanTyped' /\ Alone(o) /\ OpInv(o)' /\ bg' = bg
        BY <2>3, StartsHolds
      <3> QED
        BY <3>1, OthersKeep DEF TableBounded
    <2>4. ASSUME NEW k \in Steps, Overruns(o, k) PROVE CleanInv'
      <3>1. CleanTyped' /\ TableBounded' /\ Alone(o)
        BY <2>4, OverrunsEffect
      <3>2. OpInv(o)'
        BY <2>4, OverrunsHolds
      <3> QED
        BY <3>1, <3>2, OthersKeep
    <2> QED
      BY <2>1, <2>2, <2>3, <2>4
  <1>2. ASSUME NEW o \in Ops, RequestEnds(o) PROVE CleanInv'
    <2>1. CleanTyped' /\ TableBounded' /\ Alone(o) /\ OpInv(o)'
      BY <1>2, RequestHolds
    <2> QED
      BY <2>1, OthersKeep
  <1>3. ASSUME NEW o \in Ops, NEW k \in Steps, NEW how \in {"none", "ok", "failed"},
               TaskEnds(o, k, how)
        PROVE  CleanInv'
    <2>1. CleanTyped' /\ TableBounded' /\ Alone(o) /\ OpInv(o)'
      BY <1>3, EndsHolds
    <2> QED
      BY <2>1, OthersKeep
  <1>4. CASE ShutdownCleanups
    BY <1>4, ShutdownHolds
  <1>5. CASE UNCHANGED <<cleanupVars, transport, pc, lease>>
    BY <1>5 DEF CleanTyped, TableBounded, OpInv, CleanupsOf, TransportOf, Running, cleanupVars
  <1>6. CASE Close \/ CloseEnds \/ UNCHANGED poolVars
    BY <1>5, <1>6 DEF Close, CloseEnds, poolVars, cleanupVars
  <1> QED
    BY <1>1, <1>2, <1>3, <1>4, <1>6 DEF PoolNext

-----------------------------------------------------------------------------
(* The bytes of buffered bodies *)

BodyRecord == [ok : BOOLEAN, kept : Nat, charged : Nat, owed : BOOLEAN,
               why : {"none", "parsed", "plain", "too large", "error"}]

\* A body that is still read keeps no more than the limit, and every body that
\* somebody gets is charged.
BodyFits(b) ==
    /\ b \in BodyRecord
    /\ b.why = "none" /\ ~ b.owed => b.kept <= BodyLimit
    /\ b.why = "parsed" => b.charged >= b.kept * Envelope
    /\ b.why \in {"none", "plain"} => b.charged >= b.kept * Multiplier
    /\ b.why \in {"too large", "error"} => b.charged = 0

BodyInv == DOMAIN body = Ops /\ \A o \in Ops : BodyFits(body[o])

LEMMA MoreCopies ==
    ASSUME NEW m \in Nat, NEW a \in Nat, NEW c \in Nat, NEW b \in Nat, b >= a * m
    PROVE  b + c * m \in Nat /\ b + c * m >= (a + c) * m
  <1>1. (a + c) * m = a * m + c * m
    OBVIOUS
  <1>2. a * m \in Nat /\ c * m \in Nat
    OBVIOUS
  <1> QED
    BY <1>1, <1>2

LEMMA BodySet ==
    ASSUME BodyInv, NEW o \in Ops, NEW b, BodyFits(b), Set(o, b)
    PROVE  BodyInv'
  BY DEF BodyInv, Set

LEMMA NoBodyFits == BodyFits(NoBody) /\ \A ok \in BOOLEAN : BodyFits([NoBody EXCEPT !.ok = ok])
  <1>1. 0 * Multiplier = 0 /\ BodyLimit >= 0
    BY BodyAssumption
  <1>2. ASSUME NEW b \in BodyRecord, b.kept = 0, b.charged = 0, b.why = "none"
        PROVE  BodyFits(b)
    BY <1>1, <1>2 DEF BodyFits
  <1> QED
    BY <1>2 DEF NoBody, BodyRecord

LEMMA RetainHolds ==
    ASSUME BodyInv, NEW o \in Ops, NEW n \in ChunkSizes, Retain(o, n)
    PROVE  BodyInv'
  <1> DEFINE b == body[o]
             keep == Smaller(n, BodyLimit - b.kept)
             kept == b.kept + keep
             charged == b.charged + keep * Multiplier
  <1>0. /\ b \in BodyRecord /\ b.why = "none" /\ ~ b.owed /\ b.kept <= BodyLimit
        /\ b.kept \in Nat /\ b.charged \in Nat /\ b.charged >= b.kept * Multiplier
        /\ Multiplier \in Nat /\ BodyLimit \in Nat
    BY BodyAssumption DEF Retain, BodyInv, BodyFits, BodyRecord
  <1>1. keep \in Nat /\ (n <= BodyLimit - b.kept => kept <= BodyLimit)
    <2>1. n \in Nat /\ BodyLimit - b.kept \in Nat
      BY <1>0, BodyAssumption
    <2> QED
      BY <1>0, <2>1 DEF Smaller
  <1>2. kept \in Nat /\ charged \in Nat /\ charged >= kept * Multiplier
    <2> HIDE DEF keep
    <2> QED
      BY <1>0, <1>1, MoreCopies
  <1>3. kept + 1 \in Nat /\ charged + Multiplier \in Nat
        /\ charged + Multiplier >= (kept + 1) * Multiplier
    <2> HIDE DEF kept, charged
    <2>1. charged + 1 * Multiplier >= (kept + 1) * Multiplier
      BY <1>0, <1>2, MoreCopies
    <2> QED
      BY <1>0, <1>2, <2>1
  <1> DEFINE held == [b EXCEPT !.kept = @ + keep, !.charged = @ + keep * Multiplier]
             more == IF n <= BodyLimit - b.kept THEN held
                     ELSE IF b.ok THEN [held EXCEPT !.charged = 0, !.why = "too large"]
                     ELSE [held EXCEPT !.kept = @ + 1, !.charged = @ + Multiplier, !.owed = TRUE]
  <1>4. Set(o, more)
    BY DEF Retain
  <1>5. held = [b EXCEPT !.kept = kept, !.charged = charged]
    BY <1>0 DEF BodyRecord
  <1> HIDE DEF keep, kept, charged, held
  <1>6. held \in BodyRecord /\ held.kept = kept /\ held.charged = charged
        /\ held.why = "none" /\ ~ held.owed
    BY <1>0, <1>2, <1>5 DEF BodyRecord
  <1>7. CASE n <= BodyLimit - b.kept
    BY <1>1, <1>2, <1>4, <1>6, <1>7, BodySet DEF BodyFits
  <1>8. CASE ~(n <= BodyLimit - b.kept) /\ b.ok
    <2> DEFINE c == [held EXCEPT !.charged = 0, !.why = "too large"]
    <2>1. BodyFits(c)
      BY <1>6 DEF BodyFits, BodyRecord
    <2> QED
      BY <1>4, <1>8, <2>1, BodySet
  <1>9. CASE ~(n <= BodyLimit - b.kept) /\ ~ b.ok
    <2> DEFINE c == [held EXCEPT !.kept = @ + 1, !.charged = @ + Multiplier, !.owed = TRUE]
    <2>1. /\ c \in BodyRecord /\ c.kept = kept + 1 /\ c.charged = charged + Multiplier
          /\ c.why = "none" /\ c.owed
      BY <1>3, <1>6 DEF BodyRecord
    <2> HIDE DEF c
    <2>2. BodyFits(c)
      BY <1>3, <2>1 DEF BodyFits
    <2> QED
      BY <1>4, <1>9, <2>2, BodySet DEF c
  <1> QED
    BY <1>7, <1>8, <1>9

LEMMA BodyStep ==
    ASSUME BodyInv, [PoolNext]_poolVars
    PROVE  BodyInv'
  <1>1. CASE body' = body
    BY <1>1 DEF BodyInv
  <1>2. ASSUME NEW o \in Ops, Buffer(o) PROVE BodyInv'
    <2> DEFINE b == body[o]
    <2>1. BodyFits(b)
      BY DEF BodyInv
    <2>2. CASE \E n \in ChunkSizes : Retain(o, n)
      BY <2>2, RetainHolds
    <2>3. CASE BodyEnd(o)
      <3>1. BodyFits([b EXCEPT !.owed = TRUE])
        BY <2>1 DEF BodyFits, BodyRecord
      <3> QED
        BY <2>3, <3>1, BodySet DEF BodyEnd
    <2>4. CASE BodyCommit(o)
      <3>0. b.why = "none" /\ b \in BodyRecord /\ b.kept \in Nat /\ Envelope \in Nat
        BY <2>1, <2>4, BodyAssumption DEF BodyCommit, BodyFits, BodyRecord
      <3>1. b.why = "none" /\ b \in BodyRecord /\ b.kept * Envelope \in Nat
        <4> HIDE DEF b
        <4> QED
          BY <3>0
      <3>2. BodyFits([b EXCEPT !.why = "plain", !.charged = @])
        BY <2>1, <3>1 DEF BodyFits, BodyRecord
      <3>3. BodyFits([b EXCEPT !.why = "parsed", !.charged = b.kept * Envelope])
        <4> DEFINE c == [b EXCEPT !.why = "parsed", !.charged = b.kept * Envelope]
        <4>1. /\ c \in BodyRecord /\ c.why = "parsed" /\ c.kept = b.kept
              /\ c.charged = b.kept * Envelope
          BY <3>1 DEF BodyRecord
        <4> HIDE DEF c
        <4>2. c.charged >= c.kept * Envelope
          BY <3>1, <4>1
        <4>3. BodyFits(c)
          BY <4>1, <4>2 DEF BodyFits
        <4> QED
          BY <4>3 DEF c
      <3>4. \/ Set(o, [b EXCEPT !.why = "plain", !.charged = @])
            \/ Set(o, [b EXCEPT !.why = "parsed", !.charged = b.kept * Envelope])
        BY <2>4 DEF BodyCommit
      <3> QED
        BY <3>2, <3>3, <3>4, BodySet
    <2>5. CASE BodyFail(o)
      <3>1. BodyFits([b EXCEPT !.charged = 0, !.why = "error"])
        BY <2>1 DEF BodyFits, BodyRecord
      <3> QED
        BY <2>5, <3>1, BodySet DEF BodyFail
    <2> QED
      BY <1>2, <2>2, <2>3, <2>4, <2>5 DEF Buffer
  <1>3. ASSUME NEW o \in Ops, Connected(o) \/ RequestEnds(o) PROVE BodyInv'
    <2>1. body' = body \/ Set(o, NoBody) \/ \E ok \in BOOLEAN : Set(o, [NoBody EXCEPT !.ok = ok])
      BY <1>3 DEF Connected, RequestEnds, BodyStart, BodyForget
    <2> QED
      BY <1>1, <2>1, NoBodyFits, BodySet
  <1>4. ASSUME NEW o \in Ops, Operation(o) PROVE BodyInv'
    <2>1. Buffer(o) \/ Connected(o) \/ body' = body
      BY <1>4 DEF Operation, GetClient, Acquire, Poll, Resume, GiveUp, ConnectFails,
         CloseBuffered, ForceClose, CooperativeDone, Evict, AbortLease, ConnectionsClosed,
         CloseSettled, CloseStuck, StuckEnds, PassDeadline, Leave
    <2> QED
      BY <1>1, <1>2, <1>3, <2>1
  <1>5. CASE \/ \E o \in Ops, k \in Steps, how \in {"none", "ok", "failed"} : TaskEnds(o, k, how)
             \/ Close \/ CloseEnds \/ ShutdownCleanups \/ UNCHANGED poolVars
    BY <1>1, <1>5 DEF TaskEnds, Close, CloseEnds, ShutdownCleanups, poolVars
  <1> QED
    BY <1>3, <1>4, <1>5 DEF PoolNext

-----------------------------------------------------------------------------
(* The theorems *)

PoolInv == LeaseInv /\ GateInv /\ CleanInv /\ BodyInv

LEMMA PoolInitHolds == PoolInit => PoolInv
  <1> SUFFICES ASSUME PoolInit PROVE PoolInv
    OBVIOUS
  <1>0. Ops = Cleaners /\ Ops = Readers
    BY PoolAssumption
  <1> USE DEF PoolInit, CleanupInit, BodyInit
  <1>1. LeaseInv
    <2>1. Holders = {}
      BY DEF Holders
    <2>2. active = Cardinality(Holders)
      BY <2>1, FS_EmptySet
    <2>3. \A o \in Ops : pc[o] = "idle" /\ lease[o] = "none"
      OBVIOUS
    <2>4. pc \in [Ops -> {"idle"}] /\ lease \in [Ops -> {"none"}]
      OBVIOUS
    <2> QED
      BY <2>2, <2>3, <2>4 DEF LeaseInv, Before, Using
  <1>2. GateInv
    <2>1. gate.owners = {} /\ gate.waiters = <<>> /\ DOMAIN gate = {"owners", "waiters"}
      OBVIOUS
    <2>2. Elems(gate.waiters) = {} /\ Distinct(gate.waiters) /\ gate.waiters \in Seq(Ops)
      BY <2>1 DEF Elems, Distinct
    <2>3. mode \in {"resource", "legacy"}
      BY PoolAssumption
    <2> QED
      BY <2>1, <2>2, <2>3 DEF GateInv, GateFormed
  <1>3. CleanInv
    <2>1. CleanTyped
      BY <1>0 DEF CleanTyped, Tasks
    <2>2. TableBounded
      BY FS_EmptySet, CleanupAssumption DEF TableBounded
    <2>3. \A o \in Ops : OpInv(o)
      BY <1>0 DEF OpInv, CleanupsOf, TransportOf, Running, Before, Using, Closing, Steps
    <2> QED
      BY <2>1, <2>2, <2>3 DEF CleanInv
  <1>4. BodyInv
    BY <1>0, NoBodyFits DEF BodyInv
  <1> QED
    BY <1>1, <1>2, <1>3, <1>4 DEF PoolInv

LEMMA PoolStep ==
    ASSUME PoolInv, [PoolNext]_poolVars
    PROVE  PoolInv'
  <1>1. RunsLate
    BY RunsLateHolds DEF PoolInv, CleanInv
  <1> QED
    BY <1>1, HoldStep, CleanStep, BodyStep DEF PoolInv

LEMMA PoolInvSound == PoolInv => PoolSound
  <1> SUFFICES ASSUME PoolInv PROVE PoolSound
    OBVIOUS
  <1>1. LeasesExact
    BY DEF PoolInv, LeaseInv, GateInv, CleanInv, OpInv, TransportOf, LeasesExact, Holders
  <1>2. CleanupIsOwned
    <2>1. ASSUME NEW o \in Ops, NEW k \in Steps, Running(o, k)
          PROVE  /\ \/ <<o, k>> \in bg
                    \/ pc[o] \in {"cooperative", "abort", "conn", "again", "stuck", "raw"}
                 /\ request[o] = "released" => k \in deferral[o]
      BY <2>1 DEF PoolInv, CleanInv, OpInv, CleanupsOf, Waited
    <2> QED
      BY <2>1 DEF PoolInv, CleanInv, TableBounded, CleanupIsOwned
  <1>3. BodyIsCharged
    BY PoolAssumption DEF PoolInv, BodyInv, BodyFits, BodyRecord, BodyIsCharged
  <1> QED
    BY <1>1, <1>2, <1>3 DEF PoolSound

\* Whatever the modes, the limits, the operations and the moment the pool is closed, every
\* lease, permit and clean-up has an owner, a lease is free for others only when its transport
\* is, and no byte of a buffered body is kept unpaid (ClientPool and _UpstreamLease of
\* client_pool.py, streaming/cleanup.py and response_limits.py).
THEOREM PoolIsSound == PoolSpec => []PoolSound
  <1>1. PoolInv /\ [PoolNext]_poolVars => PoolInv'
    BY PoolStep
  <1> QED
    BY <1>1, PoolInitHolds, PoolInvSound, PTL DEF PoolSpec

\* Only a lease that is asked for is given.
LEMMA LeasesWhileOpen ==
    ASSUME LeaseInv, [PoolNext]_poolVars, NEW o \in Ops, Shut, lease[o] # "held"
    PROVE  lease'[o] # "held"
  <1>t. DOMAIN lease = Ops
    BY DEF LeaseInv
  <1>1. CASE lease' = lease
    BY <1>1
  <1>2. ASSUME NEW d \in Ops, ReleaseLease(d) PROVE lease'[o] # "held"
    BY <1>t, <1>2 DEF ReleaseLease
  <1>3. ASSUME NEW d \in Ops, Operation(d) PROVE lease'[o] # "held"
    <2>1. CASE Proceeds(d)
      <3>1. PICK w : Stays(d, w)
        BY <2>1, ProceedsStays
      <3> QED
        BY <1>1, <3>1 DEF Stays
    <2>2. CASE Acquire(d) \/ Poll(d) \/ Resume(d) \/ GiveUp(d) \/ Connected(d)
      BY <1>1, <2>2 DEF Acquire, Poll, Resume, GiveUp, Connected, NoLease
    <2>3. CASE ConnectFails(d) \/ CloseBuffered(d) \/ AbortLease(d) \/ Leave(d)
      BY <1>2, <2>3 DEF ConnectFails, CloseBuffered, AbortLease, Leave
    <2> QED
      BY <1>3, <2>1, <2>2, <2>3 DEF Operation, Proceeds
  <1>4. ASSUME NEW d \in Ops, NEW k \in Steps, NEW how, TaskEnds(d, k, how)
        PROVE  lease'[o] # "held"
    BY <1>1, <1>2, <1>4 DEF TaskEnds
  <1>5. CASE (\E d \in Ops : RequestEnds(d)) \/ Close \/ CloseEnds \/ ShutdownCleanups
             \/ UNCHANGED poolVars
    BY <1>1, <1>5 DEF RequestEnds, Close, CloseEnds, ShutdownCleanups, poolVars
  <1> QED
    BY <1>3, <1>4, <1>5 DEF PoolNext

\* Who keeps waiting for the clean-up of an isolated transport had no room to leave it.
LEMMA WaitsWithoutRoom ==
    ASSUME LeaseInv, CleanInv, [PoolNext]_poolVars, NEW o \in Ops, NEW k \in {"close", "conn"},
           Isolated(o), k \notin inline[o], k \in inline'[o]
    PROVE  Full
  <1>t. inline \in [Ops -> SUBSET Steps]
    BY DEF CleanInv, CleanTyped
  <1>1. inline' # inline
    OBVIOUS
  <1>2. ASSUME NEW d \in Ops, NEW j, FinishInline(d, j) PROVE d = o /\ j = k
    BY <1>t, <1>2 DEF FinishInline
  <1>3. ASSUME NEW d \in Ops, Operation(d) PROVE Full
    <2>1. ~ Idles(d)
      BY <1>1, IdlesKeeps DEF CleanInv
    <2>2. \A j \in Steps : ~ Starts(d, j)
      BY <1>1, StartsHolds DEF CleanInv
    <2>3. PICK j \in Steps : Overruns(d, j)
      BY <1>3, <2>1, <2>2 DEF Operation, Idles, Starts, Overruns, Steps
    <2>4. CASE j = "close" /\ CloseStuck(d)
      <3>1. DetachOrFinish(d, "close", Isolated(d))
        BY <2>4 DEF CloseStuck
      <3>2. ~ MayDetach(d, Isolated(d)) /\ FinishInline(d, "close")
        BY <1>1, <3>1 DEF DetachOrFinish, Detach
      <3>3. d = o
        BY <1>2, <3>2
      <3> QED
        BY <3>2, <3>3 DEF MayDetach
    <2>5. CASE PassDeadline(d, j)
      <3>1. DetachOrFinish(d, j, j = "conn" \/ safe[d])
        BY <2>5 DEF PassDeadline
      <3>2. ~ MayDetach(d, j = "conn" \/ safe[d]) /\ FinishInline(d, j)
        BY <1>1, <3>1 DEF DetachOrFinish, Detach
      <3>3. d = o /\ j = k
        BY <1>2, <3>2
      <3>4. j = "conn"
        BY <2>5, <3>3 DEF PassDeadline
      <3> QED
        BY <3>2, <3>4 DEF MayDetach
    <2> QED
      BY <2>3, <2>4, <2>5 DEF Overruns
  <1>4. ASSUME NEW d \in Ops, NEW j \in Steps, NEW how, TaskEnds(d, j, how) PROVE Full
    BY <1>t, <1>4 DEF TaskEnds, Ended
  <1>5. CASE (\E d \in Ops : RequestEnds(d)) \/ Close \/ CloseEnds \/ ShutdownCleanups
             \/ UNCHANGED poolVars
    BY <1>1, <1>5 DEF RequestEnds, ReleaseRequest, Close, CloseEnds, ShutdownCleanups,
                      CancelBackground, cleanupVars, poolVars
  <1> QED
    BY <1>3, <1>4, <1>5 DEF PoolNext

\* Once the pool is closing no operation gets a lease, neither one that waits for the governor
\* nor one that has been handed a permit (_acquire_upstream; the safety half of CloseIsFinal).
THEOREM NoLeaseAfterClose == PoolSpec => NoLeaseWhenShut
  <1>1. PoolInv /\ [PoolNext]_poolVars => PoolInv'
    BY PoolStep
  <1>2. PoolInv /\ [PoolNext]_poolVars
        => [\A o \in Ops : Shut => ~ (lease[o] # "held" /\ lease'[o] = "held")]_poolVars
    BY LeasesWhileOpen DEF PoolInv
  <1> QED
    BY <1>1, <1>2, PoolInitHolds, PTL DEF PoolSpec, NoLeaseWhenShut

\* An operation whose transport was evicted waits without a deadline only while the table of
\* background clean-ups is full (_detach_or_finish_bounded; the safety half of
\* EvictedStreamReturns).
THEOREM EvictedWaitsOnlyWhenFull == PoolSpec => WaitsOnlyWhenFull
  <1>1. PoolInv /\ [PoolNext]_poolVars => PoolInv'
    BY PoolStep
  <1>2. PoolInv /\ [PoolNext]_poolVars
        => [\A o \in Ops, k \in {"close", "conn"} :
               Isolated(o) /\ k \notin inline[o] /\ k \in inline'[o] => Full]_poolVars
    BY WaitsWithoutRoom DEF PoolInv
  <1> QED
    BY <1>1, <1>2, PoolInitHolds, PTL DEF PoolSpec, WaitsOnlyWhenFull
=============================================================================
