------------------------ MODULE QueuedAdmissionProofs ------------------------
(***************************************************************************)
(* The middleware uses the admission gate as the gate expects to be used:  *)
(* whatever a queued request, its client and the clean-up tasks do, they   *)
(* touch the gate by steps of the gate only.  So what is proved of the     *)
(* gate holds with the middleware in front of it.                          *)
(*                                                                         *)
(* Three more arguments need the request's record.  A client that has left *)
(* is not served because the event is looked at in the very step that      *)
(* passes the request on (Follows).  A request is whole because, phase by  *)
(* phase, its acquisition stands only where the code can have left it,     *)
(* receive, observer and bytes are there only in the phases that give them *)
(* back, and the frames handed out, buffered and in hand follow each other *)
(* (Fits, which is inductive with the gate's TypeOK).  Its bytes are       *)
(* accounted for because every step moves as many as it adds (Paid).       *)
(***************************************************************************)
EXTENDS QueuedAdmission, SumTheorems, SequenceTheorems

-----------------------------------------------------------------------------
(***************************************************************************)
(* Proofs about AdmissionGate for any finite set of callers, any capacity  *)
(* and any queue limit.  SlotsConserved is not inductive by itself: a slot *)
(* is handed to the head of the queue, so the proof needs to know that the *)
(* head is really waiting (WaitersAreQueued), that a waiter's state agrees *)
(* with where its caller stands (PhaseInv), and that a queue only exists   *)
(* when the gate is full (NoIdleSlot), which makes every promotion grant   *)
(* at most one waiter.                                                     *)
(***************************************************************************)

\* A caller has a live waiter exactly while its acquisition task waits or is
\* being cleaned up.
PhaseInv ==
    \A c \in Callers :
        wstate[c] \in {"queued", "granted"} <=> pc[c] \in {"waiting", "abandoning"}

GateInv == /\ TypeOK
           /\ WaitersAreQueued
           /\ NoIdleSlot
           /\ QueueBounded
           /\ SlotsConserved
           /\ PhaseInv

\* Arithmetic of Grants, stated on numbers.
LEMMA MinWithOne ==
    ASSUME NEW l \in Nat, l # 0
    PROVE  (IF 1 < l THEN 1 ELSE l) = 1
  OBVIOUS

\* Under the invariant a promotion grants nobody, or the head of the queue.
LEMMA PromoteCases ==
    ASSUME NEW q \in Seq(Callers), NEW n \in Int, n <= Capacity,
           q # <<>> => n >= Capacity - 1
    PROVE  \/ /\ Grants(q, n) = 0
              /\ Promoted(q, n) = {}
              /\ q = <<>> \/ n = Capacity
           \/ /\ Grants(q, n) = 1
              /\ Promoted(q, n) = {q[1]}
              /\ q # <<>>
              /\ n = Capacity - 1
  <1>0. Capacity \in Int
    BY GateAssumption
  <1>1. Len(q) \in Nat /\ (q = <<>> <=> Len(q) = 0)
    OBVIOUS
  <1>2. CASE q = <<>> \/ n = Capacity
    <2>1. Grants(q, n) = 0
      BY <1>0, <1>1, <1>2 DEF Grants
    <2>2. 1..Grants(q, n) = {}
      BY <2>1
    <2>3. QED
      BY <1>2, <2>1, <2>2 DEF Promoted
  <1>3. CASE q # <<>> /\ n = Capacity - 1
    <2>0. Capacity - n = 1 /\ Len(q) # 0
      BY <1>0, <1>1, <1>3
    <2>1. Grants(q, n) = 1
      BY <1>1, <2>0, MinWithOne DEF Grants
    <2>2. 1..Grants(q, n) = {1}
      BY <2>1
    <2>3. QED
      BY <1>3, <2>1, <2>2 DEF Promoted
  <1>4. QED
    BY <1>0, <1>1, <1>2, <1>3

\* Every slot count and every set of owners is finite and well typed.
LEMMA OwnersFinite ==
    /\ IsFiniteSet(SlotOwners)
    /\ Cardinality(SlotOwners) \in Nat
  <1>1. SlotOwners \in SUBSET Callers
    BY DEF SlotOwners
  <1>2. QED
    BY <1>1, GateAssumption, FS_Subset, FS_CardinalityType

\* The initial state satisfies the invariant.
LEMMA GateInit == Init => GateInv
  <1> SUFFICES ASSUME Init PROVE GateInv
    OBVIOUS
  <1>1. TypeOK /\ WaitersAreQueued /\ NoIdleSlot /\ QueueBounded /\ PhaseInv
    BY GateAssumption DEF Init, TypeOK, WaiterStates, Phases, WaitersAreQueued,
       QueueMatches, NoIdleSlot, QueueBounded, PhaseInv
  <1>2. SlotOwners = {}
    BY DEF Init, SlotOwners
  <1>3. SlotsConserved
    BY <1>2, FS_EmptySet, GateAssumption DEF Init, SlotsConserved
  <1>4. QED
    BY <1>1, <1>3 DEF GateInv
-----------------------------------------------------------------------------
(* How the operations on the queue keep QueueMatches. *)

\* Granting the head of a matching queue leaves a matching queue: the popleft of
\* _promote_waiters_locked.
LEMMA TailMatches ==
    ASSUME NEW q \in Seq(Callers), NEW ws \in [Callers -> WaiterStates],
           QueueMatches(q, ws), q # <<>>
    PROVE  /\ Tail(q) \in Seq(Callers)
           /\ Len(Tail(q)) = Len(q) - 1
           /\ q[1] \in Callers
           /\ ws[q[1]] = "queued"
           /\ QueueMatches(Tail(q), [ws EXCEPT ![q[1]] = "granted"])
  <1> DEFINE t == Tail(q)
             w == [ws EXCEPT ![q[1]] = "granted"]
  <1>1. /\ t \in Seq(Callers) /\ Len(t) = Len(q) - 1
        /\ Len(q) \in Nat \ {0}
        /\ \A i \in 1..Len(t) : t[i] = q[i + 1]
    OBVIOUS
  <1>2. q[1] \in Callers /\ ws[q[1]] = "queued"
    BY <1>1 DEF QueueMatches
  <1>3. \A i \in 1..Len(t) : i + 1 \in 1..Len(q) /\ i + 1 # 1
    BY <1>1
  <1>4. \A i, j \in 1..Len(t) : t[i] = t[j] => i = j
    BY <1>1, <1>3 DEF QueueMatches
  <1>5. \A i \in 1..Len(t) : w[t[i]] = "queued"
    <2> SUFFICES ASSUME NEW i \in 1..Len(t) PROVE w[t[i]] = "queued"
      OBVIOUS
    <2>1. 1 \in 1..Len(q)
      BY <1>1
    <2>2. t[i] = q[i + 1] /\ q[i + 1] # q[1] /\ ws[q[i + 1]] = "queued"
      BY <1>1, <1>3, <2>1 DEF QueueMatches
    <2>3. q[i + 1] \in Callers
      BY <1>3
    <2>4. QED
      BY <2>2, <2>3
  <1>6. \A c \in Callers : w[c] = "queued" => \E i \in 1..Len(t) : t[i] = c
    <2> SUFFICES ASSUME NEW c \in Callers, w[c] = "queued"
                 PROVE  \E i \in 1..Len(t) : t[i] = c
      OBVIOUS
    <2>1. c # q[1] /\ ws[c] = "queued"
      BY <1>2
    <2>2. PICK k \in 1..Len(q) : q[k] = c
      BY <2>1 DEF QueueMatches
    <2>3. k - 1 \in 1..Len(t) /\ t[k - 1] = c
      BY <1>1, <2>1, <2>2
    <2>4. QED
      BY <2>3
  <1>7. QED
    BY <1>1, <1>2, <1>4, <1>5, <1>6 DEF QueueMatches

\* Queueing a caller that is not queued leaves a matching queue: begin_acquire.
LEMMA AppendMatches ==
    ASSUME NEW q \in Seq(Callers), NEW ws \in [Callers -> WaiterStates],
           NEW c \in Callers, QueueMatches(q, ws), ws[c] # "queued"
    PROVE  QueueMatches(Append(q, c), [ws EXCEPT ![c] = "queued"])
  <1> DEFINE a == Append(q, c)
             w == [ws EXCEPT ![c] = "queued"]
  <1>1. /\ Len(q) \in Nat
        /\ Len(a) = Len(q) + 1 /\ a[Len(q) + 1] = c
        /\ \A i \in 1..Len(q) : a[i] = q[i] /\ q[i] \in Callers
    OBVIOUS
  <1>2. \A i \in 1..Len(q) : q[i] # c
    BY DEF QueueMatches
  <1>3. \A i \in 1..Len(a) : i \in 1..Len(q) \/ i = Len(q) + 1
    BY <1>1
  <1>4. \A i, j \in 1..Len(a) : a[i] = a[j] => i = j
    BY <1>1, <1>2, <1>3 DEF QueueMatches
  <1>5. \A i \in 1..Len(a) : w[a[i]] = "queued"
    BY <1>1, <1>2, <1>3 DEF QueueMatches
  <1>6. \A d \in Callers : w[d] = "queued" => \E i \in 1..Len(a) : a[i] = d
    <2> SUFFICES ASSUME NEW d \in Callers, w[d] = "queued"
                 PROVE  \E i \in 1..Len(a) : a[i] = d
      OBVIOUS
    <2>1. CASE d = c
      <3>1. Len(q) + 1 \in 1..Len(a)
        BY <1>1
      <3>2. QED
        BY <1>1, <2>1, <3>1
    <2>2. CASE d # c
      <3>1. PICK k \in 1..Len(q) : q[k] = d
        BY <2>2 DEF QueueMatches
      <3>2. k \in 1..Len(a) /\ a[k] = d
        BY <1>1, <3>1
      <3>3. QED
        BY <3>2
    <2>3. QED
      BY <2>1, <2>2
  <1>7. QED
    BY <1>4, <1>5, <1>6 DEF QueueMatches

\* What RemoveAt returns.
LEMMA RemoveAtShape ==
    ASSUME NEW q \in Seq(Callers), NEW l \in Nat, l = Len(q), NEW k \in 1..l
    PROVE  /\ RemoveAt(q, k) \in Seq(Callers)
           /\ Len(RemoveAt(q, k)) = l - 1
           /\ \A i \in 1..(l - 1) :
                 RemoveAt(q, k)[i] = q[IF i < k THEN i ELSE i + 1]
  <1> DEFINE x == SubSeq(q, 1, k - 1)
             y == SubSeq(q, k + 1, l)
  <1>1. k \in Int /\ 1 \in Int /\ k - 1 \in Int /\ k + 1 \in Int
    OBVIOUS
  <1>2. \A i \in 1..l : q[i] \in Callers
    OBVIOUS
  <1>3. /\ x \in Seq(Callers) /\ Len(x) = k - 1
        /\ \A i \in 1..(k - 1) : x[i] = q[i]
    <2>1. \A i \in 1..(k - 1) : q[i] \in Callers
      BY <1>2
    <2>2. /\ x \in Seq(Callers)
          /\ Len(x) = IF 1 <= k - 1 THEN k - 1 - 1 + 1 ELSE 0
          /\ \A i \in 1..(k - 1 - 1 + 1) : x[i] = q[1 + i - 1]
      BY <1>1, <2>1, SubSeqProperties
    <2> HIDE DEF x
    <2>3. QED
      BY <2>2
  <1>4. /\ y \in Seq(Callers) /\ Len(y) = l - k
        /\ \A i \in 1..(l - k) : y[i] = q[i + k]
    <2>1. \A i \in (k + 1)..l : q[i] \in Callers
      BY <1>2
    <2>2. /\ y \in Seq(Callers)
          /\ Len(y) = IF k + 1 <= l THEN l - (k + 1) + 1 ELSE 0
          /\ \A i \in 1..(l - (k + 1) + 1) : y[i] = q[(k + 1) + i - 1]
      BY <1>1, <2>1, SubSeqProperties
    <2> HIDE DEF y
    <2>3. Len(y) = l - k /\ l - (k + 1) + 1 = l - k
      BY <2>2
    <2>4. ASSUME NEW i \in 1..(l - k) PROVE y[i] = q[i + k]
      <3>1. (k + 1) + i - 1 = i + k
        OBVIOUS
      <3>2. QED
        BY <2>2, <2>3, <3>1
    <2>5. QED
      BY <2>2, <2>3, <2>4
  <1>5. RemoveAt(q, k) = x \o y
    BY DEF RemoveAt
  <1> HIDE DEF x, y
  <1>6. /\ x \o y \in Seq(Callers)
        /\ Len(x \o y) = Len(x) + Len(y)
        /\ \A i \in 1..(Len(x) + Len(y)) :
              (x \o y)[i] = IF i <= Len(x) THEN x[i] ELSE y[i - Len(x)]
    BY <1>3, <1>4, ConcatProperties
  <1>7. Len(x) + Len(y) = l - 1
    BY <1>3, <1>4
  <1>8. ASSUME NEW i \in 1..(l - 1)
        PROVE  (x \o y)[i] = q[IF i < k THEN i ELSE i + 1]
    <2>1. (x \o y)[i] = IF i <= k - 1 THEN x[i] ELSE y[i - (k - 1)]
      BY <1>3, <1>6, <1>7
    <2>2. CASE i < k
      <3>1. i \in 1..(k - 1) /\ i <= k - 1
        BY <2>2
      <3>2. QED
        BY <1>3, <2>1, <2>2, <3>1
    <2>3. CASE ~(i < k)
      <3>1. ~(i <= k - 1) /\ i - (k - 1) \in 1..(l - k) /\ (i - (k - 1)) + k = i + 1
        BY <2>3
      <3>2. QED
        BY <1>4, <2>1, <2>3, <3>1
    <2>4. QED
      BY <2>2, <2>3
  <1>9. QED
    BY <1>5, <1>6, <1>7, <1>8

\* Removing a queued waiter leaves a matching queue: _abandon_waiter.
LEMMA RemoveMatches ==
    ASSUME NEW q \in Seq(Callers), NEW ws \in [Callers -> WaiterStates],
           QueueMatches(q, ws), NEW k \in 1..Len(q)
    PROVE  /\ RemoveAt(q, k) \in Seq(Callers)
           /\ Len(RemoveAt(q, k)) = Len(q) - 1
           /\ QueueMatches(RemoveAt(q, k), [ws EXCEPT ![q[k]] = "abandoned"])
  <1> DEFINE r == RemoveAt(q, k)
             w == [ws EXCEPT ![q[k]] = "abandoned"]
             old(i) == IF i < k THEN i ELSE i + 1
  <1>1. Len(q) \in Nat /\ k \in Nat /\ q[k] \in Callers
    OBVIOUS
  <1>2. /\ r \in Seq(Callers)
        /\ Len(r) = Len(q) - 1
        /\ \A i \in 1..Len(r) : r[i] = q[old(i)]
    <2> DEFINE l == Len(q)
    <2>1. l \in Nat /\ k \in 1..l
      OBVIOUS
    <2> HIDE DEF l
    <2>2. /\ RemoveAt(q, k) \in Seq(Callers)
          /\ Len(RemoveAt(q, k)) = l - 1
          /\ \A i \in 1..(l - 1) : RemoveAt(q, k)[i] = q[IF i < k THEN i ELSE i + 1]
      BY <2>1, RemoveAtShape DEF l
    <2>3. QED
      BY <2>2 DEF l
  <1>3. \A i \in 1..Len(r) : old(i) \in 1..Len(q) /\ old(i) # k
    BY <1>1, <1>2
  <1>4. \A i, j \in 1..Len(r) : old(i) = old(j) => i = j
    BY <1>1, <1>2
  <1>5. \A i, j \in 1..Len(r) : r[i] = r[j] => i = j
    <2> SUFFICES ASSUME NEW i \in 1..Len(r), NEW j \in 1..Len(r), r[i] = r[j]
                 PROVE  i = j
      OBVIOUS
    <2>1. q[old(i)] = q[old(j)] /\ old(i) \in 1..Len(q) /\ old(j) \in 1..Len(q)
      BY <1>2, <1>3
    <2> HIDE DEF old
    <2>2. old(i) = old(j)
      BY <2>1 DEF QueueMatches
    <2>3. QED
      BY <1>4, <2>2
  <1>6. \A i \in 1..Len(r) : w[r[i]] = "queued"
    <2> SUFFICES ASSUME NEW i \in 1..Len(r) PROVE w[r[i]] = "queued"
      OBVIOUS
    <2> HIDE DEF old
    <2>1. q[old(i)] # q[k] /\ ws[q[old(i)]] = "queued" /\ q[old(i)] \in Callers
      BY <1>3 DEF QueueMatches
    <2>2. QED
      BY <1>2, <2>1
  <1>7. \A c \in Callers : w[c] = "queued" => \E i \in 1..Len(r) : r[i] = c
    <2> SUFFICES ASSUME NEW c \in Callers, w[c] = "queued"
                 PROVE  \E i \in 1..Len(r) : r[i] = c
      OBVIOUS
    <2>1. c # q[k] /\ ws[c] = "queued"
      BY <1>1
    <2>2. PICK m \in 1..Len(q) : q[m] = c
      BY <2>1 DEF QueueMatches
    <2>3. m # k
      BY <2>1, <2>2
    <2>4. CASE m < k
      <3>1. m \in 1..Len(r) /\ old(m) = m
        BY <1>1, <1>2, <2>4
      <3>2. QED
        BY <1>2, <2>2, <3>1
    <2>5. CASE m > k
      <3>1. m - 1 \in 1..Len(r) /\ old(m - 1) = m
        BY <1>1, <1>2, <2>5
      <3>2. QED
        BY <1>2, <2>2, <3>1
    <2>6. QED
      BY <1>1, <2>3, <2>4, <2>5
  <1>8. QED
    BY <1>2, <1>5, <1>6, <1>7 DEF QueueMatches
-----------------------------------------------------------------------------
(* What a promotion does to a state that satisfies the invariant. *)

\* A promotion keeps the queue matching, leaves nobody queued beside a free slot
\* and grants at most one waiter.
LEMMA PromoteStep ==
    ASSUME NEW q \in Seq(Callers), NEW ws \in [Callers -> WaiterStates],
           NEW n \in Int, n <= Capacity, q # <<>> => n >= Capacity - 1,
           QueueMatches(q, ws), Len(q) <= WaiterLimit,
           PromoteWaiters(q, ws, n)
    PROVE  /\ active' \in Int
           /\ waiters' \in Seq(Callers)
           /\ wstate' \in [Callers -> WaiterStates]
           /\ QueueMatches(waiters', wstate')
           /\ waiters' # <<>> => active' = Capacity
           /\ Len(waiters') <= WaiterLimit
           /\ \/ active' = n /\ wstate' = ws
              \/ /\ n < Capacity
                 /\ active' = n + 1
                 /\ \E d \in Callers : /\ ws[d] = "queued"
                                       /\ wstate' = [ws EXCEPT ![d] = "granted"]
  <1>0. Capacity \in Int /\ WaiterLimit \in Int /\ Len(q) \in Nat
    BY GateAssumption
  <1>1. CASE /\ Grants(q, n) = 0
             /\ Promoted(q, n) = {}
             /\ q = <<>> \/ n = Capacity
    <2>1. active' = n
      BY <1>1 DEF PromoteWaiters
    <2>2. waiters' = q
      BY <1>1 DEF PromoteWaiters
    <2>3. wstate' = ws
      BY <1>1 DEF PromoteWaiters
    <2>4. QED
      BY <1>1, <2>1, <2>2, <2>3
  <1>2. CASE /\ Grants(q, n) = 1
             /\ Promoted(q, n) = {q[1]}
             /\ q # <<>>
             /\ n = Capacity - 1
    <2>1. active' = n + 1 /\ active' = Capacity /\ n < Capacity
      BY <1>0, <1>2 DEF PromoteWaiters
    <2>2. waiters' = Tail(q)
      BY <1>2, TailIsSubSeq DEF PromoteWaiters
    <2>3. wstate' = [ws EXCEPT ![q[1]] = "granted"]
      BY <1>2 DEF PromoteWaiters
    <2>4. wstate' \in [Callers -> WaiterStates]
      BY <2>3 DEF WaiterStates
    <2>5. /\ Tail(q) \in Seq(Callers) /\ Len(Tail(q)) = Len(q) - 1
          /\ q[1] \in Callers /\ ws[q[1]] = "queued"
          /\ QueueMatches(Tail(q), [ws EXCEPT ![q[1]] = "granted"])
      BY <1>2, TailMatches
    <2>6. Len(waiters') <= WaiterLimit
      BY <1>0, <2>2, <2>5
    <2>7. \E d \in Callers : /\ ws[d] = "queued"
                             /\ wstate' = [ws EXCEPT ![d] = "granted"]
      BY <2>3, <2>5
    <2>8. QueueMatches(waiters', wstate') /\ waiters' \in Seq(Callers)
      BY <2>2, <2>3, <2>5
    <2>9. active' \in Int
      BY <1>0, <2>1
    <2>10. QED
      BY <2>1, <2>4, <2>6, <2>7, <2>8, <2>9
  <1>3. QED
    BY <1>1, <1>2, PromoteCases

\* How a step may change the slot owners and the count of active slots.
OwnerStep ==
    \/ SlotOwners' = SlotOwners /\ active' = active
    \/ \E d \in Callers : /\ d \notin SlotOwners
                          /\ active < Capacity
                          /\ active' = active + 1
                          /\ SlotOwners' = SlotOwners \cup {d}
    \/ \E d \in Callers : /\ d \in SlotOwners
                          /\ active' = active - 1
                          /\ SlotOwners' = SlotOwners \ {d}
    \/ \E d, e \in Callers : /\ d \in SlotOwners
                             /\ e \notin SlotOwners
                             /\ active' = active
                             /\ SlotOwners' = (SlotOwners \ {d}) \cup {e}

\* A step that only moves slots this way keeps the count exact.
LEMMA OwnerStepConserves ==
    ASSUME SlotsConserved, active \in Int, OwnerStep
    PROVE  SlotsConserved'
  <1>0. Capacity \in Int /\ active = Cardinality(SlotOwners) /\ active <= Capacity
        /\ IsFiniteSet(SlotOwners) /\ Cardinality(SlotOwners) \in Nat
    BY GateAssumption, OwnersFinite DEF SlotsConserved
  <1>1. CASE SlotOwners' = SlotOwners /\ active' = active
    BY <1>0, <1>1 DEF SlotsConserved
  <1>2. ASSUME NEW d \in Callers, d \notin SlotOwners, active < Capacity,
               active' = active + 1, SlotOwners' = SlotOwners \cup {d}
        PROVE  SlotsConserved'
    <2>1. Cardinality(SlotOwners \cup {d}) = Cardinality(SlotOwners) + 1
      BY <1>0, <1>2, FS_AddElement
    <2>2. active' <= Capacity
      BY <1>0, <1>2
    <2>3. QED
      BY <1>0, <1>2, <2>1, <2>2 DEF SlotsConserved
  <1>3. ASSUME NEW d \in Callers, d \in SlotOwners,
               active' = active - 1, SlotOwners' = SlotOwners \ {d}
        PROVE  SlotsConserved'
    <2>1. Cardinality(SlotOwners \ {d}) = Cardinality(SlotOwners) - 1
      BY <1>0, <1>3, FS_RemoveElement
    <2>2. active' <= Capacity
      BY <1>0, <1>3
    <2>3. QED
      BY <1>0, <1>3, <2>1, <2>2 DEF SlotsConserved
  <1>4. ASSUME NEW d \in Callers, NEW e \in Callers,
               d \in SlotOwners, e \notin SlotOwners, active' = active,
               SlotOwners' = (SlotOwners \ {d}) \cup {e}
        PROVE  SlotsConserved'
    <2>1. /\ IsFiniteSet(SlotOwners \ {d})
          /\ Cardinality(SlotOwners \ {d}) = Cardinality(SlotOwners) - 1
      BY <1>0, <1>4, FS_RemoveElement
    <2>2. e \notin SlotOwners \ {d}
      BY <1>4
    <2>3. Cardinality((SlotOwners \ {d}) \cup {e})
            = Cardinality(SlotOwners \ {d}) + 1
      BY <2>1, <2>2, FS_AddElement
    <2>4. QED
      BY <1>0, <1>4, <2>1, <2>3 DEF SlotsConserved
  <1>5. QED
    BY <1>1, <1>2, <1>3, <1>4 DEF OwnerStep
-----------------------------------------------------------------------------
(* One lemma for the steps that leave the queue alone, one for each of the *)
(* others; together they say that every step keeps the invariant and moves *)
(* slots as OwnerStep allows.                                              *)

Keeps == GateInv' /\ OwnerStep

\* It is enough to show the parts that OwnerStep does not give.
LEMMA KeepsFrom ==
    ASSUME GateInv, OwnerStep,
           TypeOK', QueueMatches(waiters', wstate'),
           waiters' # <<>> => active' = Capacity,
           Len(waiters') <= WaiterLimit, PhaseInv'
    PROVE  Keeps
  <1>1. SlotsConserved'
    BY OwnerStepConserves DEF GateInv, TypeOK
  <1>2. WaitersAreQueued' /\ NoIdleSlot' /\ QueueBounded'
    BY DEF WaitersAreQueued, NoIdleSlot, QueueBounded, QueueMatches
  <1>3. QED
    BY <1>1, <1>2 DEF Keeps, GateInv

\* SlotFree callers take a slot.
LEMMA ClaimKeeps ==
    ASSUME GateInv, NEW c \in Callers, Ready(c), SlotFree, ClaimSlot(c)
    PROVE  Keeps
  <1> USE DEF GateInv
  <1>1. TypeOK' /\ PhaseInv'
    BY DEF TypeOK, Phases, PhaseInv, Ready, ClaimSlot
  <1>2. SlotOwners' = SlotOwners \cup {c} /\ c \notin SlotOwners
    BY DEF TypeOK, Ready, ClaimSlot, SlotOwners, PhaseInv
  <1>3. active < Capacity /\ active' = active + 1
    BY DEF SlotFree, ClaimSlot
  <1>4. OwnerStep
    BY <1>2, <1>3 DEF OwnerStep
  <1>5. /\ QueueMatches(waiters', wstate')
        /\ waiters' = <<>>
        /\ Len(waiters') <= WaiterLimit
    BY DEF SlotFree, ClaimSlot, WaitersAreQueued, QueueBounded
  <1>6. QED
    BY <1>1, <1>4, <1>5, KeepsFrom

\* A caller that finds no free slot joins the queue.
LEMMA EnqueueKeeps ==
    ASSUME GateInv, NEW c \in Callers, Ready(c), ~SlotFree, Enqueue(c)
    PROVE  Keeps
  <1> USE DEF GateInv
  <1>0. Capacity \in Int /\ WaiterLimit \in Int /\ Len(waiters) \in Nat
        /\ active \in Int
    BY GateAssumption DEF TypeOK
  <1>1. TypeOK' /\ PhaseInv'
    BY DEF TypeOK, Phases, WaiterStates, PhaseInv, Ready, Enqueue
  <1>2. SlotOwners' = SlotOwners /\ active' = active
    BY DEF TypeOK, Ready, Enqueue, SlotOwners, PhaseInv
  <1>3. OwnerStep
    BY <1>2 DEF OwnerStep
  <1>4. QueueMatches(waiters', wstate')
    <2>1. wstate[c] # "queued"
      BY DEF PhaseInv, Ready, TypeOK
    <2>2. QED
      BY <2>1, AppendMatches DEF Enqueue, WaitersAreQueued, TypeOK
  <1>5. active = Capacity
    BY <1>0 DEF SlotFree, NoIdleSlot, SlotsConserved
  <1>6. Len(waiters') <= WaiterLimit
    BY <1>0 DEF Enqueue, TypeOK
  <1>7. QED
    BY <1>1, <1>2, <1>3, <1>4, <1>5, <1>6, KeepsFrom

\* Steps that move a caller along without touching the queue or the count.
LEMMA MoveKeeps ==
    ASSUME GateInv, NEW c \in Callers,
           \/ Ready(c) /\ QueueFull(c)
           \/ StopWaiting(c)
           \/ WaiterResumes(c)
           \/ OwnerCancelled(c)
           \/ OwnerResumes(c)
           \/ Release(c)
    PROVE  Keeps
  <1> USE DEF GateInv
  <1> USE DEF Ready, QueueFull, StopWaiting, WaiterResumes, OwnerCancelled,
              OwnerResumes, Release
  <1>1. TypeOK' /\ PhaseInv'
    BY DEF TypeOK, Phases, WaiterStates, PhaseInv
  <1>2. SlotOwners' = SlotOwners /\ active' = active
    BY DEF TypeOK, SlotOwners, PhaseInv
  <1>3. OwnerStep
    BY <1>2 DEF OwnerStep
  <1>4. /\ waiters' = waiters
        /\ \A d \in Callers : wstate'[d] = "queued" <=> wstate[d] = "queued"
    BY DEF TypeOK, PhaseInv
  <1>5. QueueMatches(waiters', wstate')
    <2>1. \A i \in 1..Len(waiters) : waiters[i] \in Callers
      BY DEF TypeOK
    <2>2. QED
      BY <1>4, <2>1 DEF WaitersAreQueued, QueueMatches
  <1>6. /\ waiters' # <<>> => active' = Capacity
        /\ Len(waiters') <= WaiterLimit
    BY <1>2, <1>4 DEF NoIdleSlot, QueueBounded
  <1>7. QED
    BY <1>1, <1>3, <1>5, <1>6, KeepsFrom

\* A slot goes back to the gate, and on to the head of the queue if any.
LEMMA ReturnKeeps ==
    ASSUME GateInv, NEW c \in Callers, c \in SlotOwners,
           NEW ws \in [Callers -> WaiterStates], NEW phase \in {"idle", "rejected"},
           pc' = [pc EXCEPT ![c] = phase],
           ws[c] \in {"none", "abandoned"},
           \A d \in Callers : d # c => ws[d] = wstate[d],
           wstate[c] # "queued",
           PromoteWaiters(waiters, ws, active - 1)
    PROVE  Keeps
  <1> USE DEF GateInv
  <1>0. Capacity \in Int /\ WaiterLimit \in Int /\ active \in Int
        /\ active - 1 \in Int /\ active - 1 <= Capacity
        /\ (waiters # <<>> => active - 1 >= Capacity - 1)
        /\ waiters \in Seq(Callers) /\ Len(waiters) <= WaiterLimit
    BY GateAssumption DEF TypeOK, SlotsConserved, NoIdleSlot, QueueBounded
  <1>1. QueueMatches(waiters, ws)
    <2>1. \A d \in Callers : ws[d] = "queued" <=> wstate[d] = "queued"
      OBVIOUS
    <2>2. \A i \in 1..Len(waiters) : waiters[i] \in Callers
      BY <1>0
    <2>3. QED
      BY <2>1, <2>2 DEF WaitersAreQueued, QueueMatches
  <1>2. /\ active' \in Int
        /\ waiters' \in Seq(Callers)
        /\ wstate' \in [Callers -> WaiterStates]
        /\ QueueMatches(waiters', wstate')
        /\ waiters' # <<>> => active' = Capacity
        /\ Len(waiters') <= WaiterLimit
        /\ \/ active' = active - 1 /\ wstate' = ws
           \/ /\ active - 1 < Capacity
              /\ active' = (active - 1) + 1
              /\ \E d \in Callers : /\ ws[d] = "queued"
                                    /\ wstate' = [ws EXCEPT ![d] = "granted"]
    BY <1>0, <1>1, PromoteStep
  <1>3. TypeOK'
    <2>1. Cardinality(SlotOwners) # 0
      BY OwnersFinite, FS_EmptySet
    <2>2. active \in Nat /\ active # 0
      BY <2>1 DEF TypeOK, SlotsConserved
    <2>3. active' \in Nat
      BY <1>2, <2>2
    <2>4. QED
      BY <1>2, <2>3 DEF TypeOK, Phases
  <1>4. CASE active' = active - 1 /\ wstate' = ws
    <2>1. PhaseInv'
      BY <1>4 DEF PhaseInv, TypeOK
    <2>2. SlotOwners' = SlotOwners \ {c}
      BY <1>4 DEF SlotOwners, TypeOK
    <2>3. OwnerStep
      BY <1>4, <2>2 DEF OwnerStep
    <2>4. QED
      BY <1>2, <1>3, <2>1, <2>3, KeepsFrom
  <1>5. ASSUME NEW d \in Callers, active' = (active - 1) + 1, ws[d] = "queued",
               wstate' = [ws EXCEPT ![d] = "granted"]
        PROVE  Keeps
    <2>0. d # c /\ wstate[d] = "queued"
      BY <1>5
    <2>1. PhaseInv'
      BY <1>5, <2>0 DEF PhaseInv, TypeOK
    <2>2. d \notin SlotOwners
      BY <2>0 DEF SlotOwners, PhaseInv, TypeOK
    <2>3. SlotOwners' = (SlotOwners \ {c}) \cup {d}
      BY <1>5, <2>0 DEF SlotOwners, TypeOK
    <2>4. active' = active
      BY <1>0, <1>5
    <2>5. OwnerStep
      BY <2>2, <2>3, <2>4 DEF OwnerStep
    <2>6. QED
      BY <1>2, <1>3, <2>1, <2>5, KeepsFrom
  <1>6. QED
    BY <1>2, <1>4, <1>5

\* _release_slot keeps the invariant: the releasing caller owns a slot.
LEMMA ReleaseSlotKeeps ==
    ASSUME GateInv, NEW c \in Callers, ReleaseSlot(c)
    PROVE  Keeps
  <1>1. c \in SlotOwners /\ wstate[c] \in {"none", "abandoned"}
    BY DEF ReleaseSlot, SlotOwners, GateInv, TypeOK, PhaseInv, WaiterStates
  <1>2. wstate \in [Callers -> WaiterStates]
    BY DEF GateInv, TypeOK
  <1>3. QED
    BY <1>1, <1>2, ReturnKeeps DEF ReleaseSlot

\* _abandon_waiter keeps the invariant in both cases: a granted waiter returns
\* its slot, a queued one leaves a queue that only exists when the gate is full.
LEMMA AbandonKeeps ==
    ASSUME GateInv, NEW c \in Callers, AbandonWaiter(c)
    PROVE  Keeps
  <1> DEFINE left == [wstate EXCEPT ![c] = "abandoned"]
  <1>0. left \in [Callers -> WaiterStates] /\ left[c] = "abandoned"
        /\ \A d \in Callers : d # c => left[d] = wstate[d]
    BY DEF GateInv, TypeOK, WaiterStates
  <1>1. CASE /\ wstate[c] = "granted"
             /\ PromoteWaiters(waiters, left, active - 1)
    <2>1. c \in SlotOwners /\ wstate[c] # "queued"
      BY <1>1 DEF SlotOwners
    <2>2. pc' = [pc EXCEPT ![c] = "rejected"]
      BY DEF AbandonWaiter
    <2> HIDE DEF left
    <2>3. QED
      BY <1>0, <1>1, <2>1, <2>2, ReturnKeeps
  <1>2. ASSUME wstate[c] = "queued", NEW k \in 1..Len(waiters),
               waiters[k] = c, PromoteWaiters(RemoveAt(waiters, k), left, active)
        PROVE  Keeps
    <2> DEFINE q == RemoveAt(waiters, k)
    <2>0. /\ waiters \in Seq(Callers) /\ wstate \in [Callers -> WaiterStates]
          /\ QueueMatches(waiters, wstate) /\ active \in Int
          /\ Len(waiters) \in Nat /\ WaiterLimit \in Int /\ Capacity \in Int
          /\ Len(waiters) <= WaiterLimit
      BY GateAssumption DEF GateInv, TypeOK, WaitersAreQueued, QueueBounded
    <2>1. q \in Seq(Callers) /\ Len(q) = Len(waiters) - 1 /\ QueueMatches(q, left)
      BY <1>2, <2>0, RemoveMatches
    <2>2. waiters # <<>> /\ active = Capacity
      BY <1>2, <2>0 DEF GateInv, NoIdleSlot
    <2> HIDE DEF q, left
    <2>3. PromoteWaiters(q, left, active)
      BY <1>2 DEF q, left
    <2>4. Len(q) <= WaiterLimit
      BY <2>0, <2>1
    <2>5. /\ active' \in Int
          /\ waiters' \in Seq(Callers)
          /\ wstate' \in [Callers -> WaiterStates]
          /\ QueueMatches(waiters', wstate')
          /\ waiters' # <<>> => active' = Capacity
          /\ Len(waiters') <= WaiterLimit
          /\ \/ active' = active /\ wstate' = left
             \/ active < Capacity
      <3>1. active <= Capacity /\ (q # <<>> => active >= Capacity - 1)
        BY <2>0, <2>2
      <3>2. QED
        BY <1>0, <2>0, <2>1, <2>3, <2>4, <3>1, PromoteStep
    <2>6. active' = active /\ wstate' = left
      BY <2>0, <2>2, <2>5
    <2>7. pc[c] = "abandoning" /\ pc' = [pc EXCEPT ![c] = "rejected"]
      BY DEF AbandonWaiter
    <2>8. TypeOK'
      BY <2>5, <2>6, <2>7 DEF TypeOK, Phases, GateInv
    <2>9. PhaseInv'
      BY <2>6, <2>7 DEF PhaseInv, left, GateInv, TypeOK
    <2>10. SlotOwners' = SlotOwners
      BY <1>2, <2>6, <2>7 DEF SlotOwners, left, GateInv, TypeOK
    <2>11. OwnerStep
      BY <2>6, <2>10 DEF OwnerStep
    <2>12. QED
      BY <2>5, <2>8, <2>9, <2>11, KeepsFrom
  <1>3. QED
    BY <1>1, <1>2 DEF AbandonWaiter

\* Every step of the gate keeps the invariant and moves slots one at a time.
LEMMA StepKeeps ==
    ASSUME GateInv, Next
    PROVE  Keeps
  <1> SUFFICES ASSUME NEW c \in Callers,
                      \/ TryAcquire(c) \/ BeginAcquire(c) \/ WaiterResumes(c)
                      \/ StopWaiting(c) \/ OwnerCancelled(c) \/ OwnerResumes(c)
                      \/ AbandonWaiter(c) \/ Release(c) \/ ReleaseSlot(c)
               PROVE  Keeps
    BY DEF Next, GateStep
  <1>1. CASE TryAcquire(c)
    BY <1>1, ClaimKeeps DEF TryAcquire
  <1>2. CASE BeginAcquire(c)
    BY <1>2, ClaimKeeps, EnqueueKeeps, MoveKeeps DEF BeginAcquire
  <1>3. CASE \/ WaiterResumes(c) \/ StopWaiting(c) \/ OwnerCancelled(c)
             \/ OwnerResumes(c) \/ Release(c)
    BY <1>3, MoveKeeps
  <1>4. CASE AbandonWaiter(c)
    BY <1>4, AbandonKeeps
  <1>5. CASE ReleaseSlot(c)
    BY <1>5, ReleaseSlotKeeps
  <1>6. QED
    BY <1>1, <1>2, <1>3, <1>4, <1>5

-----------------------------------------------------------------------------
(* Who gains a slot in a step was the first of the queue, or there was no queue. *)

InTurn ==
    \A c \in SlotOwners' \ SlotOwners :
       \A i \in 1..Len(waiters) :
          (\E j \in 1..Len(waiters') : waiters'[j] = waiters[i])
          => \E k \in 1..(i - 1) : waiters[k] = c

\* A promotion of the whole queue with one free slot goes to its head, which leaves it.
LEMMA PromotionInTurn ==
    ASSUME GateInv, NEW n \in Int, n <= Capacity, waiters # <<>> => n >= Capacity - 1,
           NEW ws, PromoteWaiters(waiters, ws, n),
           \A c \in SlotOwners' : c \in SlotOwners \/ c \in Promoted(waiters, n)
    PROVE  InTurn
  <1>0. waiters \in Seq(Callers) /\ Len(waiters) \in Nat
    BY DEF GateInv, TypeOK
  <1>1. CASE Promoted(waiters, n) = {}
    BY <1>1 DEF InTurn
  <1>2. CASE Grants(waiters, n) = 1 /\ Promoted(waiters, n) = {waiters[1]}
    <2> SUFFICES ASSUME NEW i \in 1..Len(waiters), NEW j \in 1..Len(waiters'),
                        waiters'[j] = waiters[i]
                 PROVE  \E k \in 1..(i - 1) : waiters[k] = waiters[1]
      BY <1>2 DEF InTurn
    <2>1. waiters' = Tail(waiters)
      BY <1>0, <1>2, TailIsSubSeq DEF PromoteWaiters
    <2>2. j + 1 \in 1..Len(waiters) /\ waiters'[j] = waiters[j + 1] /\ j + 1 # 1
      BY <1>0, <2>1
    <2>3. i # 1
      BY <2>2 DEF GateInv, WaitersAreQueued, QueueMatches
    <2>4. 1 \in 1..(i - 1)
      BY <1>0, <2>3
    <2> QED
      BY <2>4
  <1>3. QED
    BY <1>0, <1>1, <1>2, PromoteCases

\* No step of the gate overtakes.
LEMMA StepInTurn ==
    ASSUME GateInv, Next
    PROVE  InTurn
  <1> SUFFICES ASSUME NEW c \in Callers,
                      \/ TryAcquire(c) \/ BeginAcquire(c) \/ WaiterResumes(c)
                      \/ StopWaiting(c) \/ OwnerCancelled(c) \/ OwnerResumes(c)
                      \/ AbandonWaiter(c) \/ Release(c) \/ ReleaseSlot(c)
               PROVE  InTurn
    BY DEF Next, GateStep
  <1>0. /\ wstate \in [Callers -> WaiterStates] /\ pc \in [Callers -> Phases]
        /\ waiters \in Seq(Callers) /\ active \in Int /\ Capacity \in Int
        /\ active <= Capacity
    BY GateAssumption DEF GateInv, TypeOK, SlotsConserved
  <1>1. CASE SlotFree /\ ClaimSlot(c)
    BY <1>1 DEF SlotFree, InTurn
  <1>2. CASE \/ QueueFull(c) \/ WaiterResumes(c) \/ StopWaiting(c)
             \/ OwnerCancelled(c) \/ OwnerResumes(c) \/ Release(c)
    <2>1. SlotOwners' \subseteq SlotOwners
      BY <1>0, <1>2 DEF SlotOwners, QueueFull, WaiterResumes, StopWaiting, OwnerCancelled,
                        OwnerResumes, Release
    <2> QED
      BY <2>1 DEF InTurn
  <1>3. CASE Enqueue(c)
    <2>1. SlotOwners' \subseteq SlotOwners
      BY <1>0, <1>3 DEF SlotOwners, Enqueue
    <2> QED
      BY <2>1 DEF InTurn
  <1>4. CASE ReleaseSlot(c)
    <2>1. \A d \in SlotOwners' : d \in SlotOwners \/ d \in Promoted(waiters, active - 1)
      BY <1>0, <1>4 DEF SlotOwners, ReleaseSlot, PromoteWaiters
    <2>2. /\ active - 1 \in Int /\ active - 1 <= Capacity
          /\ (waiters # <<>> => active - 1 >= Capacity - 1)
      BY <1>0 DEF GateInv, NoIdleSlot
    <2> QED
      BY <1>4, <2>1, <2>2, PromotionInTurn DEF ReleaseSlot
  <1>5. CASE AbandonWaiter(c)
    <2> DEFINE left == [wstate EXCEPT ![c] = "abandoned"]
    <2>1. CASE PromoteWaiters(waiters, left, active - 1)
      <3>1. \A d \in SlotOwners' : d \in SlotOwners \/ d \in Promoted(waiters, active - 1)
        BY <1>0, <1>5, <2>1 DEF SlotOwners, AbandonWaiter, PromoteWaiters
      <3>2. /\ active - 1 \in Int /\ active - 1 <= Capacity
            /\ (waiters # <<>> => active - 1 >= Capacity - 1)
        BY <1>0 DEF GateInv, NoIdleSlot
      <3> HIDE DEF left
      <3> QED
        BY <2>1, <3>1, <3>2, PromotionInTurn
    <2>2. ASSUME NEW k \in 1..Len(waiters), PromoteWaiters(RemoveAt(waiters, k), left, active)
          PROVE  InTurn
      <3> DEFINE q == RemoveAt(waiters, k)
      <3>1. active = Capacity
        BY <1>0, <2>2 DEF GateInv, NoIdleSlot
      <3>2. Promoted(q, active) = {}
        <4>1. Len(q) \in Nat
          BY <1>0, <2>2, RemoveAtShape
        <4> HIDE DEF q
        <4>2. Grants(q, active) = 0
          BY <1>0, <3>1, <4>1 DEF Grants
        <4>3. 1..Grants(q, active) = {}
          BY <4>2
        <4> QED
          BY <4>3 DEF Promoted
      <3>3. SlotOwners' \subseteq SlotOwners
        BY <1>0, <1>5, <2>2, <3>2 DEF SlotOwners, AbandonWaiter, PromoteWaiters
      <3> QED
        BY <3>3 DEF InTurn
    <2> QED
      BY <1>5, <2>1, <2>2 DEF AbandonWaiter
  <1> QED
    BY <1>1, <1>2, <1>3, <1>4, <1>5 DEF TryAcquire, BeginAcquire

-----------------------------------------------------------------------------
\* GateInv is an inductive invariant of the gate.
THEOREM GateInvariant == Spec => []GateInv
  <1>1. GateInv /\ UNCHANGED vars => GateInv'
    BY DEF GateInv, vars, TypeOK, WaitersAreQueued, QueueMatches, NoIdleSlot,
           QueueBounded, SlotsConserved, SlotOwners, PhaseInv
  <1>2. GateInv /\ [Next]_vars => GateInv'
    BY <1>1, StepKeeps DEF Keeps
  <1>3. QED
    BY <1>2, GateInit, PTL DEF Spec

\* The gate's state always has its declared shape.
THEOREM GateTypeCorrect == Spec => []TypeOK
  <1>1. GateInv => TypeOK
    BY DEF GateInv
  <1>2. QED
    BY <1>1, GateInvariant, PTL

\* No slot is lost, duplicated or over-committed by any race of grant, timeout,
\* cancellation and release, for any number of callers and any capacity.
THEOREM GateSlotsConserved == Spec => []SlotsConserved
  <1>1. GateInv => SlotsConserved
    BY DEF GateInv
  <1>2. QED
    BY <1>1, GateInvariant, PTL

\* The queue holds exactly the live waiters, so the skip in
\* _promote_waiters_locked is dead code and _waiters.remove never raises.
THEOREM GateWaitersAreQueued == Spec => []WaitersAreQueued
  <1>1. GateInv => WaitersAreQueued
    BY DEF GateInv
  <1>2. QED
    BY <1>1, GateInvariant, PTL

\* No wake-up is ever lost: a queue only exists while the gate is full.
THEOREM GateNoIdleSlot == Spec => []NoIdleSlot
  <1>1. GateInv => NoIdleSlot
    BY DEF GateInv
  <1>2. QED
    BY <1>1, GateInvariant, PTL

\* The gate is sound, for any callers, capacity and queue limit: the three facts together.
THEOREM GateIsSound == Spec => []GateSound
  <1>1. SlotsConserved /\ WaitersAreQueued /\ NoIdleSlot => GateSound
    BY DEF GateSound
  <1>2. QED
    BY <1>1, GateSlotsConserved, GateWaitersAreQueued, GateNoIdleSlot, PTL

\* The number of queued tasks never exceeds waiter_limit.
THEOREM GateQueueBounded == Spec => []QueueBounded
  <1>1. GateInv => QueueBounded
    BY DEF GateInv
  <1>2. QED
    BY <1>1, GateInvariant, PTL

\* The gate implements a counting semaphore over its slot owners.
THEOREM GateIsSemaphore == Spec => ImplementsSemaphore
  <1>1. Init => Semaphore!Init
    BY DEF Init, Semaphore!Init, SlotOwners
  <1>2. GateInv /\ Next => Semaphore!Next \/ SlotOwners' = SlotOwners
    <2> SUFFICES ASSUME GateInv, Next
                 PROVE  Semaphore!Next \/ SlotOwners' = SlotOwners
      OBVIOUS
    <2>1. OwnerStep /\ active = Cardinality(SlotOwners)
      BY StepKeeps DEF Keeps, GateInv, SlotsConserved
    <2>2. Semaphore!Cardinality(SlotOwners) = Cardinality(SlotOwners)
      BY Zenon DEF Semaphore!Cardinality, Cardinality, Semaphore!IsFiniteSet, IsFiniteSet
    <2>3. QED
      BY <2>1, <2>2 DEF OwnerStep, Semaphore!Next, Semaphore!Acquire,
                  Semaphore!Release, Semaphore!HandOver
  <1>3. UNCHANGED vars => SlotOwners' = SlotOwners
    BY DEF vars, SlotOwners
  <1>4. GateInv /\ [Next]_vars => [Semaphore!Next]_SlotOwners
    BY <1>2, <1>3
  <1>5. QED
    BY <1>1, <1>4, GateInvariant, PTL
       DEF Spec, ImplementsSemaphore, Semaphore!Spec

\* FIFO for any callers and any capacity: no step gives a slot to a caller that was behind
\* one which is still queued after the step.
THEOREM GateServesInTurn == Spec => NoOvertaking
  <1>1. GateInv /\ [Next]_vars => [InTurn]_vars
    BY StepInTurn
  <1>2. QED
    BY <1>1, GateInvariant, PTL DEF Spec, NoOvertaking, InTurn

-----------------------------------------------------------------------------
(* The middleware in front of the gate                                    *)

\* try_acquire and begin_acquire, as the middleware calls them, are gate steps.
LEMMA AdmitUsesGate ==
    ASSUME NEW c \in Requests, Admit(c)
    PROVE  Next
<1>1. c \in Callers
  BY QueuedAssumption
<1>2. TryAcquire(c) \/ BeginAcquire(c)
  BY DEF Admit, BeginAcquire
<1> QED
  BY <1>1, <1>2 DEF Next, GateStep

\* While it waits, a request touches the gate only to pick up its lease, or to
\* cancel the acquisition or release the lease in the clean-up.
LEMMA QueueUsesGate ==
    ASSUME NEW c \in Requests, QueueStep(c)
    PROVE  [Next]_vars
<1>1. c \in Callers
  BY QueuedAssumption
<1>2. CASE Granted(c)
  <2>1. OwnerResumes(c)
    BY <1>2 DEF Granted
  <2> QED
    BY <1>1, <2>1 DEF Next, GateStep
<1>3. CASE Stop(c)
  <2>1. StopWaiting(c) \/ OwnerCancelled(c) \/ Release(c) \/ UNCHANGED vars
    BY <1>3 DEF Stop, gate
  <2> QED
    BY <1>1, <2>1 DEF Next, GateStep
<1>4. CASE \/ Begun(c) \/ DisconnectWins(c) \/ TimedOut(c) \/ Received(c) \/ Buffer(c)
           \/ BufferAdmitted(c) \/ BufferRefused(c) \/ Unobserved(c) \/ Stopped(c)
  <2>1. UNCHANGED vars
    BY <1>4 DEF Begun, DisconnectWins, TimedOut, Received, Buffer, BufferAdmitted,
                BufferRefused, Unobserved, Stopped, gate
  <2> QED
    BY <2>1
<1> QED
  BY <1>2, <1>3, <1>4 DEF QueueStep

\* With a slot, only the end of the request touches the gate.
LEMMA ServeUsesGate ==
    ASSUME NEW c \in Requests, ServeStep(c)
    PROVE  [Next]_vars
<1>1. c \in Callers
  BY QueuedAssumption
<1>2. CASE Finish(c)
  <2>1. Release(c) \/ UNCHANGED vars
    BY <1>2 DEF Finish, gate
  <2> QED
    BY <1>1, <2>1 DEF Next, GateStep
<1>3. CASE \/ Declare(c) \/ Replay(c) \/ AppReceives(c) \/ AppTakes(c) \/ Charge(c)
           \/ Refused(c) \/ Answered(c)
           \/ \E n \in 1..MaxUse : Use(c, n) \/ Return(c, n)
  <2>1. UNCHANGED vars
    BY <1>3 DEF Declare, Replay, AppReceives, AppTakes, Charge, Refused, Answered, Use,
                Return, gate
  <2> QED
    BY <2>1
<1> QED
  BY <1>2, <1>3 DEF ServeStep

\* Whatever a request, its client or its tasks do is a gate step or leaves the
\* gate alone.
LEMMA RequestUsesGate ==
    ASSUME NEW c \in Requests, RequestStep(c)
    PROVE  [Next]_vars
<1>1. c \in Callers
  BY QueuedAssumption
<1>2. CASE Admit(c)
  BY <1>2, AdmitUsesGate
<1>3. CASE QueueStep(c)
  BY <1>3, QueueUsesGate
<1>4. CASE ServeStep(c)
  BY <1>4, ServeUsesGate
<1>5. CASE GateRuns(c) \/ WaitTimesOut(c)
  <2>1. WaiterResumes(c) \/ AbandonWaiter(c) \/ ReleaseSlot(c) \/ StopWaiting(c)
    BY <1>5 DEF GateRuns, WaitTimesOut
  <2> QED
    BY <1>1, <2>1 DEF Next, GateStep
<1>6. CASE Cancel(c) \/ ReceiveEnds(c) \/ ClientLeaves(c) \/ ObserverRuns(c)
  <2>1. UNCHANGED vars
    BY <1>6 DEF Cancel, ReceiveEnds, ClientLeaves, ObserverRuns, gate
  <2> QED
    BY <2>1
<1> QED
  BY <1>2, <1>3, <1>4, <1>5, <1>6 DEF RequestStep

\* Every behaviour of the middleware, seen at the gate, is a behaviour of the
\* gate: requests queue, give up and release by the gate's own steps.
THEOREM AdmissionUsesGate == AdmissionSpec => Spec
<1>1. AdmissionInit => Init
  BY DEF AdmissionInit
<1>2. [AdmissionNext]_all => [Next]_vars
  <2> SUFFICES ASSUME [AdmissionNext]_all PROVE [Next]_vars
    OBVIOUS
  <2>1. CASE \E c \in Requests : RequestStep(c)
    BY <2>1, RequestUsesGate
  <2>2. CASE \E c \in Callers \ Requests : GateStep(c) /\ UNCHANGED <<gone, mw>>
    BY <2>2 DEF Next
  <2>3. CASE UNCHANGED all
    BY <2>3 DEF all, vars
  <2> QED
    BY <2>1, <2>2, <2>3 DEF AdmissionNext
<1> QED
  BY <1>1, <1>2, PTL DEF AdmissionSpec, Spec

\* With queued requests, clients that leave and cancellations in front of it, the gate is
\* still sound: no slot is lost, counted twice or over-committed, the queue holds exactly the
\* live waiters, and nobody queues beside a free slot.
THEOREM AdmissionGateIsSound == AdmissionSpec => []GateSound
BY AdmissionUsesGate, GateIsSound, PTL

\* The middleware, too, hands slots out as a counting semaphore.
THEOREM AdmissionIsSemaphore == AdmissionSpec => ImplementsSemaphore
BY AdmissionUsesGate, GateIsSemaphore, PTL
-----------------------------------------------------------------------------
(* A client that has left the queue is not served. *)

HasPhase(m) == "ph" \in DOMAIN m

\* A request is described by a record, which has a phase.
RequestsHavePhase ==
    /\ mw = [c \in Requests |-> mw[c]]
    /\ \A c \in Requests : HasPhase(mw[c])

InQueue(c) == mw[c].ph \in {"queued", "admitting", "unobserving"}

\* A step of request c is its own, and passes it on only if its client is there.
Follows(c) ==
    /\ RequestsHavePhase'
    /\ \A d \in Requests : d # c => mw'[d] = mw[d]
    /\ InQueue(c) /\ mw'[c].ph = "declaring" => c \notin gone

LEMMA PhaseInit == AdmissionInit => RequestsHavePhase
  <1> SUFFICES ASSUME AdmissionInit PROVE RequestsHavePhase
    OBVIOUS
  <1>1. mw \in [Requests -> {[Fresh EXCEPT !.body = b] : b \in Bodies}]
    BY DEF AdmissionInit
  <1>2. \A b \in Bodies : HasPhase([Fresh EXCEPT !.body = b])
    BY DEF Fresh, HasPhase
  <1> QED
    BY <1>1, <1>2 DEF RequestsHavePhase

LEMMA BecomesFollows ==
    ASSUME RequestsHavePhase, NEW c \in Requests, NEW m, Become(c, m), HasPhase(m),
           InQueue(c) /\ m.ph = "declaring" => c \notin gone
    PROVE  Follows(c)
  <1>1. mw' = [mw EXCEPT ![c] = m] /\ mw = [d \in Requests |-> mw[d]]
    BY DEF Become, RequestsHavePhase
  <1>2. /\ mw' = [d \in Requests |-> mw'[d]]
        /\ mw'[c] = m /\ \A d \in Requests : d # c => mw'[d] = mw[d]
    BY <1>1
  <1>3. RequestsHavePhase'
    BY <1>2 DEF RequestsHavePhase
  <1> QED
    BY <1>2, <1>3 DEF Follows

\* A request on its way out is not served.
LEMMA LeavingFollows ==
    ASSUME RequestsHavePhase, NEW c \in Requests, NEW m, HasPhase(m), NEW why,
           Become(c, Leaving(m, why))
    PROVE  Follows(c)
  <1>1. HasPhase(Leaving(m, why)) /\ Leaving(m, why).ph = "stopping"
    BY DEF HasPhase, Leaving
  <1> QED
    BY <1>1, BecomesFollows

\* With the slot there, the event is looked at before the request is passed on.
LEMMA TransferFollows ==
    ASSUME RequestsHavePhase, NEW c \in Requests, NEW m, HasPhase(m),
           Become(c, Transferred(c, m))
    PROVE  Follows(c)
  <1>1. /\ HasPhase(Transferred(c, m))
        /\ Transferred(c, m).ph = "declaring" => c \notin gone
    BY DEF HasPhase, Transferred, Leaving
  <1> QED
    BY <1>1, BecomesFollows

\* The steps of a request in the queue.
LEMMA QueueFollows ==
    ASSUME RequestsHavePhase, NEW c \in Requests, QueueStep(c) PROVE Follows(c)
  <1>0. HasPhase(mw[c])
    BY DEF RequestsHavePhase
  <1>1. CASE Begun(c)
    <2> DEFINE m == [mw[c] EXCEPT !.ph = "queued"]
               n == [mw[c] EXCEPT !.ph = "queued", !.rx = "pending", !.obs = "waiting"]
    <2>1. HasPhase(m) /\ m.ph = "queued" /\ HasPhase(n) /\ n.ph = "queued"
      BY <1>0 DEF HasPhase
    <2>2. Become(c, m) \/ Become(c, n)
      BY <1>1 DEF Begun
    <2> HIDE DEF m, n
    <2> QED
      BY <2>1, <2>2, BecomesFollows
  <1>2. CASE DisconnectWins(c) \/ TimedOut(c) \/ BufferRefused(c)
    BY <1>0, <1>2, LeavingFollows DEF DisconnectWins, TimedOut, BufferRefused
  <1>3. CASE Granted(c)
    <2> DEFINE m == [mw[c] EXCEPT !.rx = "none"]
               n == [mw[c] EXCEPT !.rx = "none", !.ph = "admitting"]
    <2>1. HasPhase(m) /\ HasPhase(n) /\ n.ph = "admitting"
      BY <1>0 DEF HasPhase
    <2>2. Become(c, Transferred(c, mw[c])) \/ Become(c, Leaving(m, "gone")) \/ Become(c, n)
      BY <1>3 DEF Granted
    <2> HIDE DEF m, n
    <2> QED
      BY <1>0, <2>1, <2>2, TransferFollows, LeavingFollows, BecomesFollows
  <1>4. CASE Received(c)
    <2> DEFINE m == [mw[c] EXCEPT !.rx = "none"]
               n == [m EXCEPT !.ph = "buffering"]
    <2>1. HasPhase(m) /\ HasPhase(n) /\ n.ph = "buffering"
      BY <1>0 DEF HasPhase
    <2>2. Become(c, Leaving(m, "gone")) \/ Become(c, n)
      BY <1>4 DEF Received
    <2> HIDE DEF m, n
    <2> QED
      BY <2>1, <2>2, LeavingFollows, BecomesFollows
  <1>5. CASE Buffer(c)
    <2> DEFINE b == Buffered(c, mw[c])
               m == [b EXCEPT !.ph = "queued", !.msg = 0,
                              !.rx = IF mw[c].msg # Len(mw[c].body) /\ Len(b.buf) >= HighWater
                                     THEN "none" ELSE "pending"]
    <2>1. HasPhase(b)
      BY <1>0 DEF Buffered, HasPhase
    <2>2. HasPhase(m) /\ m.ph = "queued"
      BY <2>1 DEF HasPhase
    <2>3. Become(c, m)
      <3>1. b.msg = mw[c].msg
        BY DEF Buffered
      <3> QED
        BY <1>5, <3>1 DEF Buffer
    <2> HIDE DEF m
    <2> QED
      BY <2>2, <2>3, BecomesFollows
  <1>6. CASE BufferAdmitted(c)
    <2>1. HasPhase(Buffered(c, mw[c]))
      BY <1>0 DEF Buffered, HasPhase
    <2> QED
      BY <1>6, <2>1, TransferFollows DEF BufferAdmitted
  <1>7. CASE Unobserved(c)
    <2> DEFINE m == [mw[c] EXCEPT !.obs = "none"]
               n == [m EXCEPT !.ph = "declaring"]
    <2>1. HasPhase(m) /\ HasPhase(n)
      BY <1>0 DEF HasPhase
    <2>2. (c \in gone /\ Become(c, Leaving(m, "gone"))) \/ (c \notin gone /\ Become(c, n))
      <3>1. CASE c \in gone
        BY <1>7, <3>1 DEF Unobserved
      <3>2. CASE c \notin gone
        BY <1>7, <3>2 DEF Unobserved
      <3> QED
        BY <3>1, <3>2
    <2> HIDE DEF m, n
    <2> QED
      BY <2>1, <2>2, LeavingFollows, BecomesFollows
  <1>8. CASE Stop(c)
    <2> DEFINE m == [mw[c] EXCEPT !.ph = "stopped", !.rx = "none", !.obs = "none",
                                  !.lease = IF pc[c] = "holding" THEN 0 ELSE @]
    <2>1. HasPhase(m) /\ m.ph = "stopped"
      BY <1>0 DEF HasPhase
    <2>2. Become(c, m)
      BY <1>8 DEF Stop, Become
    <2> HIDE DEF m
    <2> QED
      BY <2>1, <2>2, BecomesFollows
  <1>9. CASE Stopped(c)
    <2> DEFINE m == [Fresh EXCEPT !.ph = IF mw[c].why = "rejected" THEN "rejecting" ELSE "over",
                                  !.rx = mw[c].rx, !.obs = mw[c].obs, !.lease = mw[c].lease]
    <2>1. HasPhase(m) /\ m.ph # "declaring"
      BY DEF Fresh, HasPhase
    <2>2. Become(c, m)
      BY <1>9 DEF Stopped
    <2> HIDE DEF m
    <2> QED
      BY <2>1, <2>2, BecomesFollows
  <1> QED
    BY <1>1, <1>2, <1>3, <1>4, <1>5, <1>6, <1>7, <1>8, <1>9 DEF QueueStep

\* The other steps find a request that is not in the queue, or leave its phase alone.
LEMMA OtherFollows ==
    ASSUME RequestsHavePhase, NEW c \in Requests,
           Admit(c) \/ ServeStep(c) \/ Cancel(c) \/ ReceiveEnds(c) \/ ObserverRuns(c)
    PROVE  Follows(c)
  <1>0. HasPhase(mw[c])
    BY DEF RequestsHavePhase
  <1>1. CASE Admit(c)
    <2>1. PICK m : Become(c, m) /\ HasPhase(m)
      BY <1>0, <1>1 DEF Admit, Enter, Become, HasPhase
    <2> QED
      BY <1>1, <2>1, BecomesFollows DEF Admit, At, InQueue
  <1>2. CASE ServeStep(c)
    <2>1. ~InQueue(c)
      <3>1. mw[c].ph \in {"declaring", "serving", "charging", "rejecting", "leaving"}
        BY <1>2 DEF ServeStep, Declare, Replay, AppReceives, AppTakes, Charge, Refused,
                    Answered, Finish, Use, Return, At
      <3> QED
        BY <3>1 DEF InQueue
    <2>2. \E m : Become(c, m) /\ HasPhase(m)
      <3>1. CASE Declare(c)
        <4> DEFINE m == [mw[c] EXCEPT !.ph = "serving"]
                   n == [m EXCEPT !.lease = Most(@, Target(c)),
                                  !.pre = Most(0, Wire(c) - m.lease),
                                  !.credit = Target(c) - Wire(c)]
        <4>1. HasPhase(m) /\ HasPhase(n)
          BY <1>0 DEF HasPhase
        <4>2. Become(c, m) \/ Become(c, n)
          BY <3>1 DEF Declare
        <4> QED
          BY <4>1, <4>2
      <3>2. CASE Replay(c)
        <4> DEFINE m == [mw[c] EXCEPT !.buf = Tail(@), !.got = Append(@, Head(mw[c].buf)),
                                      !.credit = @ + Size(c, Head(mw[c].buf))]
        <4>1. HasPhase(m)
          BY <1>0 DEF HasPhase
        <4>2. Become(c, m)
          BY <3>2 DEF Replay, Become
        <4> QED
          BY <4>1, <4>2
      <3>3. CASE AppReceives(c) \/ AppTakes(c)
        <4> DEFINE m == [mw[c] EXCEPT !.rx = "pending"]
                   n == [mw[c] EXCEPT !.rx = "none",
                                      !.ph = IF mw[c].msg = 0 THEN "leaving" ELSE "charging"]
        <4>1. HasPhase(m) /\ HasPhase(n)
          BY <1>0 DEF HasPhase
        <4>2. Become(c, m) \/ Become(c, n)
          BY <3>3 DEF AppReceives, AppTakes, Become
        <4> QED
          BY <4>1, <4>2
      <3>4. CASE Charge(c)
        <4> DEFINE m == mw[c]
                   left == Most(0, m.pre - Size(c, m.msg))
                   unused == IF m.msg = Len(mw[c].body) THEN left ELSE 0
                   n == [m EXCEPT !.ph = "serving", !.lease = @ + Uncovered(c) - unused,
                                  !.pre = left - unused, !.credit = @ + Size(c, m.msg),
                                  !.got = Append(@, m.msg), !.msg = 0]
        <4>1. HasPhase(n)
          BY <1>0 DEF HasPhase
        <4>2. Become(c, n)
          BY <3>4 DEF Charge
        <4> QED
          BY <4>1, <4>2
      <3>5. CASE Refused(c) \/ Answered(c)
        <4>1. PICK ph : mw' = [mw EXCEPT ![c].ph = ph]
          BY <3>5 DEF Refused, Answered, Enter
        <4> DEFINE m == [mw[c] EXCEPT !.ph = ph]
        <4>2. HasPhase(m)
          BY <1>0 DEF HasPhase
        <4>3. Become(c, m)
          BY <4>1 DEF Become
        <4> QED
          BY <4>2, <4>3
      <3>6. CASE Finish(c)
        <4> DEFINE m == [Fresh EXCEPT !.ph = "stopped", !.why = "done", !.obs = mw[c].obs,
                               !.pend = mw[c].pend,
                               !.lease = IF pc[c] = "holding" THEN 0 ELSE mw[c].lease]
        <4>1. HasPhase(m)
          BY DEF Fresh, HasPhase
        <4>2. Become(c, m)
          BY <3>6 DEF Finish
        <4> QED
          BY <4>1, <4>2
      <3>7. ASSUME NEW n \in 1..MaxUse, Use(c, n) PROVE \E m : Become(c, m) /\ HasPhase(m)
        <4> DEFINE m == mw[c]
                   credited == Least(n, m.credit)
                   u == [m EXCEPT !.credit = @ - credited, !.lease = @ + n - credited,
                                  !.used = @ + n]
        <4>1. HasPhase(u)
          BY <1>0 DEF HasPhase
        <4>2. Become(c, u)
          BY <3>7 DEF Use
        <4> QED
          BY <4>1, <4>2
      <3>8. ASSUME NEW n \in 1..MaxUse, Return(c, n) PROVE \E m : Become(c, m) /\ HasPhase(m)
        <4> DEFINE m == [mw[c] EXCEPT !.lease = @ - n, !.used = @ - n]
        <4>1. HasPhase(m)
          BY <1>0 DEF HasPhase
        <4>2. Become(c, m)
          BY <3>8 DEF Return, Become
        <4> QED
          BY <4>1, <4>2
      <3> QED
        BY <1>2, <3>1, <3>2, <3>3, <3>4, <3>5, <3>6, <3>7, <3>8 DEF ServeStep
    <2> QED
      BY <2>1, <2>2, BecomesFollows
  <1>3. CASE Cancel(c)
    <2> DEFINE m == [mw[c] EXCEPT !.ph = "leaving"]
    <2>1. HasPhase(m) /\ m.ph = "leaving"
      BY <1>0 DEF HasPhase
    <2>2. Become(c, Leaving(mw[c], "cancelled")) \/ Become(c, m)
      BY <1>3 DEF Cancel, Enter, Become
    <2> HIDE DEF m
    <2> QED
      BY <1>0, <2>1, <2>2, LeavingFollows, BecomesFollows
  <1>4. CASE ReceiveEnds(c) \/ ObserverRuns(c)
    <2> DEFINE m == [mw[c] EXCEPT !.rx = "done", !.msg = mw[c].next, !.next = @ + 1]
               n == [mw[c] EXCEPT !.rx = "done", !.msg = 0]
               o == [mw[c] EXCEPT !.obs = "done"]
    <2>1. /\ HasPhase(m) /\ m.ph = mw[c].ph
          /\ HasPhase(n) /\ n.ph = mw[c].ph
          /\ HasPhase(o) /\ o.ph = mw[c].ph
      BY <1>0 DEF HasPhase
    <2>2. Become(c, m) \/ Become(c, n) \/ Become(c, o)
      BY <1>4 DEF ReceiveEnds, ObserverRuns, Become
    <2> HIDE DEF m, n, o
    <2> QED
      BY <2>1, <2>2, BecomesFollows DEF InQueue
  <1> QED
    BY <1>1, <1>2, <1>3, <1>4

LookedAt ==
    \A c \in Requests : InQueue(c) /\ mw'[c].ph = "declaring" => c \notin gone

LEMMA StepLooks ==
    ASSUME RequestsHavePhase, [AdmissionNext]_all
    PROVE  RequestsHavePhase' /\ LookedAt
  <1>1. CASE mw' = mw
    BY <1>1 DEF RequestsHavePhase, LookedAt, InQueue
  <1>2. ASSUME NEW c \in Requests, Follows(c) PROVE RequestsHavePhase' /\ LookedAt
    BY <1>2 DEF Follows, LookedAt, InQueue
  <1>3. ASSUME NEW c \in Requests, RequestStep(c) PROVE mw' = mw \/ Follows(c)
    <2>1. CASE QueueStep(c)
      BY <2>1, QueueFollows
    <2>2. CASE Admit(c) \/ ServeStep(c) \/ Cancel(c) \/ ReceiveEnds(c) \/ ObserverRuns(c)
      BY <2>2, OtherFollows
    <2>3. CASE ClientLeaves(c) \/ GateRuns(c) \/ WaitTimesOut(c)
      BY <2>3 DEF ClientLeaves, GateRuns, WaitTimesOut
    <2> QED
      BY <1>3, <2>1, <2>2, <2>3 DEF RequestStep
  <1>4. CASE \E c \in Callers \ Requests : GateStep(c) /\ UNCHANGED <<gone, mw>>
    BY <1>1, <1>4
  <1>5. CASE UNCHANGED all
    BY <1>1, <1>5 DEF all
  <1> QED
    BY <1>1, <1>2, <1>3, <1>4, <1>5 DEF AdmissionNext

\* A client that has left while its request was queued is not served, whatever the order in
\* which the grant, a frame and the disconnect are seen.
LEMMA GoneNeverServed == AdmissionSpec => GoneIsNotServed
  <1>1. RequestsHavePhase /\ [AdmissionNext]_all => RequestsHavePhase'
    BY StepLooks
  <1>2. RequestsHavePhase /\ [AdmissionNext]_all => [LookedAt]_all
    BY StepLooks
  <1> QED
    BY <1>1, <1>2, PhaseInit, PTL DEF AdmissionSpec, GoneIsNotServed, LookedAt, InQueue

\* With any number of requests: no step gives a slot to a caller that was behind one still in
\* the queue, and none passes on a request whose client has left the queue.
THEOREM AdmissionServesInTurn == AdmissionSpec => ServedInTurn
  BY AdmissionUsesGate, GateServesInTurn, GoneNeverServed, PTL DEF ServedInTurn
-----------------------------------------------------------------------------
(* A request is whole: its frames in order, and nothing kept. *)

Entering == {"new", "beginning"}
Queueing == {"queued", "buffering", "admitting", "unobserving"}
Serving  == {"declaring", "serving", "charging"}
Answering == {"rejecting", "leaving"}
Ended    == {"stopped", "over"}

\* Where the acquisition of a request stands (a) in each of its phases (p).
PhaseAllows(p, a) ==
    /\ p \in {"new", "over"} => a \in {"idle", "rejected"}
    /\ p \in {"beginning", "queued", "buffering"}
       => a \in {"waiting", "leased", "abandoning", "rejected"}
    /\ p \in {"admitting", "unobserving"} \cup Serving => a = "holding"
    /\ p = "stopping" => a \in {"waiting", "leased", "abandoning", "rejected", "holding"}
    /\ p = "stopped" => a \in {"abandoning", "releasing", "rejected", "idle"}
    /\ p \in Answering => a \in {"holding", "idle", "rejected"}

\* What is owned outside the phases that use it: a receive, an observer, bytes.
OwnedWhenUsed(m, a) ==
    /\ m.ph \in Entering \cup Ended \cup {"buffering", "admitting", "charging"} => m.rx = "none"
    /\ m.ph \in Entering \cup Serving \cup Answering \cup Ended => m.obs = "none"
    /\ m.ph \in Entering \cup {"unobserving", "over"} \cup Serving \cup Answering => m.pend = 0
    /\ a # "holding" => m.lease = 0

\* The frames the application has are the first ones, those in the buffer come next.
Ranked(got, buf) ==
    /\ got \in Seq(Nat) /\ buf \in Seq(Nat)
    /\ \A i \in 1..Len(got) : got[i] = i
    /\ \A i \in 1..Len(buf) : buf[i] = Len(got) + i

Following(got, buf) == Len(got) + Len(buf) + 1

InHand(m) == \/ m.rx = "done" /\ m.msg # 0
             \/ m.ph \in {"buffering", "admitting", "charging"}

\* A frame in hand is the one after them, and the next on the wire comes after it.
Ordered(m) ==
    m.ph \in Entering \cup Queueing \cup Serving =>
    /\ Ranked(m.got, m.buf)
    /\ m.msg \in Nat
    /\ InHand(m) => m.msg = Following(m.got, m.buf) /\ m.next = m.msg + 1
    /\ ~InHand(m) => m.next = Following(m.got, m.buf)
    /\ m.ph \in Entering => m.msg = 0
    /\ m.ph = "charging" => m.buf = <<>>

Fields == {"ph", "rx", "msg", "next", "obs", "buf", "got", "pend", "lease"}

Fits(m, a) ==
    /\ Fields \subseteq DOMAIN m
    /\ m.ph \in Entering \cup Queueing \cup Serving \cup Answering \cup Ended \cup {"stopping"}
    /\ PhaseAllows(m.ph, a)
    /\ OwnedWhenUsed(m, a)
    /\ Ordered(m)

\* Inductive, with the gate's invariant.
RequestsFit ==
    /\ mw = [c \in Requests |-> mw[c]]
    /\ \A c \in Requests : Fits(mw[c], pc[c])

\* A step of request c leaves it fit.
StaysFit(c) == \E m : Become(c, m) /\ Fits(m, pc'[c])

LEMMA FreshFits ==
    ASSUME NEW b, NEW a \in {"idle", "rejected"}
    PROVE  Fits([Fresh EXCEPT !.body = b], a)
  <1> DEFINE m == [Fresh EXCEPT !.body = b]
  <1>1. /\ Fields \subseteq DOMAIN m
        /\ m.ph = "new" /\ m.rx = "none" /\ m.msg = 0 /\ m.next = 1 /\ m.obs = "none"
        /\ m.buf = <<>> /\ m.got = <<>> /\ m.pend = 0 /\ m.lease = 0
    BY DEF Fresh, Fields
  <1> HIDE DEF m
  <1>2. Ranked(m.got, m.buf) /\ Len(m.got) = 0 /\ Len(m.buf) = 0
    BY <1>1 DEF Ranked
  <1>3. Ordered(m)
    BY <1>1, <1>2 DEF Ordered, InHand, Following
  <1>4. PhaseAllows(m.ph, a)
    BY <1>1 DEF PhaseAllows, Serving, Answering
  <1>5. OwnedWhenUsed(m, a)
    BY <1>1 DEF OwnedWhenUsed
  <1> QED
    BY <1>1, <1>3, <1>4, <1>5 DEF Fits, Entering, m

Upto(n) == [i \in 1..n |-> i]

\* The hand is empty, or holds frame n, which is the next.
HandHolds(hand, n, got, buf) ==
    /\ n \in Nat
    /\ \/ hand = <<>>
       \/ hand = <<n>> /\ n = Following(got, buf)

\* What the application has, the buffer and the frame in hand, one after the other.
LEMMA RankedJoins ==
    ASSUME NEW got, NEW buf, Ranked(got, buf), NEW n, NEW hand, HandHolds(hand, n, got, buf)
    PROVE  got \o buf \o hand = Upto(Len(got) + Len(buf) + Len(hand))
  <1>0. n \in Nat /\ <<n>> \in Seq(Nat) /\ <<>> \in Seq(Nat) /\ hand \in {<<>>, <<n>>}
    BY DEF HandHolds
  <1>1. got \in Seq(Nat) /\ buf \in Seq(Nat) /\ hand \in Seq(Nat)
    BY <1>0 DEF Ranked
  <1>2. \A i \in 1..Len(hand) : hand[i] = Len(got) + Len(buf) + i
    <2>1. CASE hand = <<>>
      BY <2>1
    <2>2. CASE hand = <<n>>
      <3>1. Len(hand) = 1 /\ hand[1] = n /\ n = Len(got) + Len(buf) + 1
        BY <2>2 DEF HandHolds, Following
      <3> QED
        BY <1>1, <3>1
    <2> QED
      BY <1>0, <2>1, <2>2
  <1>3. (got \o buf) \in Seq(Nat) /\ Len(got \o buf) = Len(got) + Len(buf)
    BY <1>1
  <1>4. \A i \in 1..Len(got \o buf) : (got \o buf)[i] = i
    <2> SUFFICES ASSUME NEW i \in 1..Len(got \o buf) PROVE (got \o buf)[i] = i
      OBVIOUS
    <2>1. CASE i <= Len(got)
      BY <1>1, <1>3, <2>1 DEF Ranked
    <2>2. CASE i > Len(got)
      <3>1. (got \o buf)[i] = buf[i - Len(got)] /\ i - Len(got) \in 1..Len(buf)
        BY <1>1, <1>3, <2>2
      <3> QED
        BY <1>1, <3>1 DEF Ranked
    <2> QED
      BY <1>1, <1>3, <2>1, <2>2
  <1> DEFINE s == got \o buf
             t == s \o hand
  <1>5. t \in Seq(Nat) /\ Len(t) = Len(s) + Len(hand)
    BY <1>1, <1>3
  <1>6. \A i \in 1..Len(t) : t[i] = i
    <2> HIDE DEF s
    <2> SUFFICES ASSUME NEW i \in 1..Len(t) PROVE t[i] = i
      OBVIOUS
    <2>1. CASE i <= Len(s)
      BY <1>1, <1>3, <1>4, <1>5, <2>1 DEF s
    <2>2. CASE i > Len(s)
      <3>1. s \in Seq(Nat) /\ Len(s) = Len(got) + Len(buf)
        BY <1>3 DEF s
      <3>2. t[i] = hand[i - Len(s)] /\ i - Len(s) \in 1..Len(hand)
        BY <1>1, <3>1, <1>5, <2>2
      <3> QED
        BY <1>1, <1>2, <3>1, <3>2
    <2> QED
      BY <1>5, <1>1, <1>3, <2>1, <2>2 DEF s
  <1> HIDE DEF t
  <1>7. t \in [1..Len(t) -> Nat]
    BY <1>5, LenProperties
  <1>8. t = [i \in 1..Len(t) |-> i]
    BY <1>6, <1>7
  <1> QED
    BY <1>1, <1>3, <1>5, <1>8 DEF t, s, Upto

LEMMA FollowingType ==
    ASSUME NEW got, NEW buf, Ranked(got, buf) PROVE Following(got, buf) \in Nat \ {0}
  BY DEF Ranked, Following

LEMMA RankedAppends ==
    ASSUME NEW got, NEW buf, Ranked(got, buf), NEW n, n = Following(got, buf)
    PROVE  /\ Ranked(got, Append(buf, n)) /\ Following(got, Append(buf, n)) = n + 1
           /\ buf = <<>> => Ranked(Append(got, n), buf) /\ Following(Append(got, n), buf) = n + 1
  <1>1. got \in Seq(Nat) /\ buf \in Seq(Nat) /\ n \in Nat /\ n = Len(got) + Len(buf) + 1
    BY DEF Ranked, Following
  <1>2. Ranked(got, Append(buf, n)) /\ Following(got, Append(buf, n)) = n + 1
    BY <1>1 DEF Ranked, Following
  <1>3. ASSUME buf = <<>> PROVE Ranked(Append(got, n), buf) /\ Following(Append(got, n), buf) = n + 1
    BY <1>1, <1>3 DEF Ranked, Following
  <1> QED
    BY <1>2, <1>3

\* Replaying the head of the buffer.
LEMMA RankedReplays ==
    ASSUME NEW got, NEW buf, Ranked(got, buf), buf # <<>>
    PROVE  /\ Ranked(Append(got, Head(buf)), Tail(buf))
           /\ Following(Append(got, Head(buf)), Tail(buf)) = Following(got, buf)
  <1>1. got \in Seq(Nat) /\ buf \in Seq(Nat) /\ Len(buf) > 0
    BY DEF Ranked
  <1>2. Head(buf) = Len(got) + 1 /\ Head(buf) \in Nat
    BY <1>1 DEF Ranked
  <1>3. Len(Append(got, Head(buf))) = Len(got) + 1 /\ Len(Tail(buf)) = Len(buf) - 1
    BY <1>1, <1>2
  <1>4. Append(got, Head(buf)) \in Seq(Nat) /\ Tail(buf) \in Seq(Nat)
    BY <1>1, <1>2
  <1>5. \A i \in 1..Len(Append(got, Head(buf))) : Append(got, Head(buf))[i] = i
    BY <1>1, <1>2 DEF Ranked
  <1>6. ASSUME NEW i \in 1..Len(Tail(buf)) PROVE Tail(buf)[i] = Len(Append(got, Head(buf))) + i
    <2>1. Tail(buf)[i] = buf[i + 1] /\ i + 1 \in 1..Len(buf)
      BY <1>1, <1>3
    <2> QED
      BY <1>1, <1>3, <2>1 DEF Ranked
  <1> QED
    BY <1>1, <1>3, <1>4, <1>5, <1>6 DEF Ranked, Following

\* Only the caller that steps moves.
LEMMA OthersStay ==
    ASSUME TypeOK, NEW c \in Callers, GateStep(c), NEW d \in Callers, d # c
    PROVE  pc'[d] = pc[d]
  BY DEF TypeOK, GateStep, TryAcquire, BeginAcquire, ClaimSlot, QueueFull, Enqueue, WaiterResumes,
         StopWaiting, OwnerCancelled, OwnerResumes, AbandonWaiter, Release, ReleaseSlot

\* A request leaves the queue.
LEMMA LeavingFits ==
    ASSUME NEW m, NEW a, Fields \subseteq DOMAIN m, NEW why,
           a \in {"waiting", "leased", "abandoning", "rejected", "holding"},
           a # "holding" => m.lease = 0
    PROVE  Fits(Leaving(m, why), a)
  <1> DEFINE n == Leaving(m, why)
  <1>1. Fields \subseteq DOMAIN n /\ n.ph = "stopping" /\ n.lease = m.lease
    BY DEF Leaving, Fields
  <1> HIDE DEF n
  <1>2. PhaseAllows(n.ph, a)
    BY <1>1 DEF PhaseAllows, Serving, Answering
  <1>3. OwnedWhenUsed(n, a)
    BY <1>1 DEF OwnedWhenUsed, Entering, Serving, Answering, Ended
  <1>4. Ordered(n)
    BY <1>1 DEF Ordered, Entering, Queueing, Serving
  <1> QED
    BY <1>1, <1>2, <1>3, <1>4 DEF Fits, n

\* A frame in hand is buffered.
LEMMA BufferedOrdered ==
    ASSUME NEW c, NEW m, Fields \subseteq DOMAIN m, Ordered(m),
           m.ph \in {"buffering", "admitting"}
    PROVE  LET b == Buffered(c, m)
           IN  /\ Fields \subseteq DOMAIN b
               /\ Ranked(b.got, b.buf) /\ b.next = Following(b.got, b.buf)
               /\ b.ph = m.ph /\ b.msg = m.msg /\ b.rx = m.rx /\ b.obs = m.obs /\ b.lease = m.lease
  <1> DEFINE b == Buffered(c, m)
  <1>1. /\ Fields \subseteq DOMAIN b
        /\ b.ph = m.ph /\ b.msg = m.msg /\ b.rx = m.rx /\ b.obs = m.obs /\ b.lease = m.lease
        /\ b.got = m.got /\ b.buf = Append(m.buf, m.msg) /\ b.next = m.next
    BY DEF Buffered, Fields
  <1> HIDE DEF b
  <1>2. Ranked(m.got, m.buf) /\ m.msg = Following(m.got, m.buf) /\ m.next = m.msg + 1
    BY DEF Ordered, InHand, Queueing
  <1>3. /\ Ranked(m.got, Append(m.buf, m.msg))
        /\ Following(m.got, Append(m.buf, m.msg)) = m.msg + 1
    BY <1>2, RankedAppends
  <1> QED
    BY <1>1, <1>2, <1>3 DEF b

\* The lease is there: its pending bytes are the lease's from now on.
LEMMA TransferFits ==
    ASSUME NEW c, NEW m, Fields \subseteq DOMAIN m,
           Ranked(m.got, m.buf), m.msg \in Nat,
           m.rx = "done" /\ m.msg # 0
           => m.msg = Following(m.got, m.buf) /\ m.next = m.msg + 1,
           ~(m.rx = "done" /\ m.msg # 0) => m.next = Following(m.got, m.buf)
    PROVE  Fits(Transferred(c, m), "holding")
  <1> DEFINE t == [m EXCEPT !.lease = @ + m.pend, !.pend = 0]
             n == [t EXCEPT !.msg = IF m.rx = "done" THEN @ ELSE 0,
                            !.ph = IF m.obs = "none" THEN "declaring" ELSE "unobserving"]
  <1>1. CASE c \in gone
    <2>1. Fields \subseteq DOMAIN t
      BY DEF Fields
    <2>2. Transferred(c, m) = Leaving(t, "gone")
      BY <1>1 DEF Transferred
    <2> HIDE DEF t
    <2> QED
      BY <2>1, <2>2, LeavingFits
  <1>2. CASE c \notin gone
    <2>1. Transferred(c, m) = n
      BY <1>2 DEF Transferred
    <2>2. /\ Fields \subseteq DOMAIN n
          /\ n.msg = (IF m.rx = "done" THEN m.msg ELSE 0) /\ n.rx = m.rx /\ n.obs = m.obs
          /\ n.ph = (IF m.obs = "none" THEN "declaring" ELSE "unobserving")
          /\ n.got = m.got /\ n.buf = m.buf /\ n.next = m.next /\ n.pend = 0
      BY DEF Fields
    <2> HIDE DEF n
    <2>3. PhaseAllows(n.ph, "holding")
      BY <2>2 DEF PhaseAllows, Serving, Answering
    <2>4. OwnedWhenUsed(n, "holding")
      BY <2>2 DEF OwnedWhenUsed, Entering, Serving, Answering, Ended
    <2>5. n.msg \in Nat /\ (InHand(n) <=> m.rx = "done" /\ m.msg # 0)
      BY <2>2 DEF InHand
    <2>6. Ordered(n)
      BY <2>2, <2>5 DEF Ordered, Entering
    <2> QED
      BY <2>1, <2>2, <2>3, <2>4, <2>6 DEF Fits, Queueing, Serving
  <1> QED
    BY <1>1, <1>2

\* What Fits says, with the names expanded.
LEMMA FitsFacts ==
    ASSUME NEW m, NEW a, Fits(m, a)
    PROVE  /\ Fields \subseteq DOMAIN m /\ Ordered(m)
           /\ PhaseAllows(m.ph, a) /\ OwnedWhenUsed(m, a)
  BY DEF Fits

\* The steps of a request in the queue and of its clean-up.
LEMMA QueueFits ==
    ASSUME RequestsFit, TypeOK, NEW c \in Requests, QueueStep(c)
    PROVE  StaysFit(c)
  <1>0. /\ c \in Callers /\ Fits(mw[c], pc[c])
        /\ pc \in [Callers -> Phases]
    BY QueuedAssumption DEF RequestsFit, TypeOK
  <1> DEFINE m == mw[c]
             a == pc[c]
  <1>f. /\ Fields \subseteq DOMAIN m /\ Ordered(m)
        /\ PhaseAllows(m.ph, a) /\ OwnedWhenUsed(m, a)
    BY <1>0, FitsFacts
  <1>1. CASE Begun(c)
    <2> DEFINE k == [m EXCEPT !.ph = "queued"]
               n == [m EXCEPT !.ph = "queued", !.rx = "pending", !.obs = "waiting"]
    <2>1. (Become(c, k) \/ Become(c, n)) /\ pc' = pc /\ m.ph = "beginning"
      BY <1>1 DEF Begun, At, gate, vars
    <2>2. /\ Fields \subseteq DOMAIN k /\ k.ph = "queued" /\ k.rx = m.rx /\ k.msg = m.msg
          /\ k.got = m.got /\ k.buf = m.buf /\ k.next = m.next /\ k.lease = m.lease
          /\ Fields \subseteq DOMAIN n /\ n.ph = "queued" /\ n.rx = "pending" /\ n.msg = m.msg
          /\ n.got = m.got /\ n.buf = m.buf /\ n.next = m.next /\ n.lease = m.lease
      BY <1>f DEF Fields
    <2> HIDE DEF k, n, m, a
    <2>3. m.rx = "none" /\ m.msg = 0 /\ ~InHand(m) /\ ~InHand(k) /\ ~InHand(n)
      BY <1>f, <2>1, <2>2 DEF OwnedWhenUsed, Ordered, InHand, Entering
    <2>4. Ordered(k) /\ Ordered(n)
      BY <1>f, <2>1, <2>2, <2>3 DEF Ordered, Entering
    <2>5. PhaseAllows(k.ph, a) /\ OwnedWhenUsed(k, a) /\ PhaseAllows(n.ph, a) /\ OwnedWhenUsed(n, a)
      BY <1>f, <2>1, <2>2
         DEF PhaseAllows, OwnedWhenUsed, Entering, Serving, Answering, Ended
    <2>6. Fits(k, a) /\ Fits(n, a)
      BY <2>2, <2>4, <2>5 DEF Fits, Queueing
    <2> QED
      BY <2>1, <2>6 DEF StaysFit, a
  <1>2. CASE DisconnectWins(c) \/ TimedOut(c) \/ BufferRefused(c)
    <2>1. PICK why : Become(c, Leaving(m, why))
      BY <1>2 DEF DisconnectWins, TimedOut, BufferRefused
    <2>2. m.ph \in {"queued", "buffering", "admitting"} /\ pc' = pc
      BY <1>2 DEF DisconnectWins, TimedOut, BufferRefused, At, gate, vars
    <2> HIDE DEF m, a
    <2>3. /\ a \in {"waiting", "leased", "abandoning", "rejected", "holding"}
          /\ a # "holding" => m.lease = 0
      BY <1>f, <2>2 DEF PhaseAllows, OwnedWhenUsed
    <2> QED
      BY <1>f, <2>1, <2>2, <2>3, LeavingFits DEF StaysFit, a
  <1>3. CASE Granted(c)
    <2> DEFINE k == [m EXCEPT !.rx = "none"]
               n == [m EXCEPT !.rx = "none", !.ph = "admitting"]
    <2>1. m.ph = "queued" /\ a = "leased" /\ pc'[c] = "holding"
      BY <1>0, <1>3 DEF Granted, At, OwnerResumes
    <2>2. \/ m.rx # "done" /\ Become(c, Transferred(c, m))
          \/ Become(c, Leaving(k, "gone"))
          \/ m.rx = "done" /\ m.msg # 0 /\ Become(c, n)
      BY <1>3 DEF Granted
    <2>3. /\ Fields \subseteq DOMAIN k /\ k.lease = m.lease
          /\ Fields \subseteq DOMAIN n /\ n.ph = "admitting" /\ n.rx = "none" /\ n.msg = m.msg
          /\ n.got = m.got /\ n.buf = m.buf /\ n.next = m.next /\ n.lease = m.lease
      BY <1>f DEF Fields
    <2> HIDE DEF m, a, k, n
    <2>4. Fits(Leaving(k, "gone"), "holding")
      BY <2>3, LeavingFits
    <2>5. ASSUME m.rx # "done" PROVE Fits(Transferred(c, m), "holding")
      <3>1. Ranked(m.got, m.buf) /\ m.msg \in Nat /\ m.next = Following(m.got, m.buf)
        BY <1>f, <2>1, <2>5 DEF Ordered, InHand, Queueing
      <3> QED
        BY <1>f, <2>5, <3>1, TransferFits
    <2>6. ASSUME m.rx = "done", m.msg # 0 PROVE Fits(n, "holding")
      <3>1. InHand(m) /\ InHand(n)
        BY <2>3, <2>6 DEF InHand
      <3>2. Ordered(n)
        BY <1>f, <2>1, <2>3, <3>1 DEF Ordered, Queueing, Entering
      <3>3. PhaseAllows(n.ph, "holding") /\ OwnedWhenUsed(n, "holding")
        BY <2>3 DEF PhaseAllows, OwnedWhenUsed, Entering, Serving, Answering, Ended
      <3> QED
        BY <2>3, <3>2, <3>3 DEF Fits, Queueing
    <2> QED
      BY <2>1, <2>2, <2>4, <2>5, <2>6 DEF StaysFit
  <1>4. CASE Received(c)
    <2> DEFINE k == [m EXCEPT !.rx = "none"]
               n == [k EXCEPT !.ph = "buffering"]
    <2>1. m.ph = "queued" /\ pc' = pc /\ m.rx = "done"
      BY <1>4 DEF Received, At, gate, vars
    <2>2. \/ Become(c, Leaving(k, "gone"))
          \/ m.msg # 0 /\ Become(c, n)
      BY <1>4 DEF Received
    <2>3. /\ Fields \subseteq DOMAIN k /\ k.lease = m.lease
          /\ Fields \subseteq DOMAIN n /\ n.ph = "buffering" /\ n.rx = "none" /\ n.msg = m.msg
          /\ n.got = m.got /\ n.buf = m.buf /\ n.next = m.next /\ n.lease = m.lease
      BY <1>f DEF Fields
    <2> HIDE DEF m, a, k, n
    <2>4. /\ a \in {"waiting", "leased", "abandoning", "rejected"}
          /\ m.lease = 0
      BY <1>f, <2>1 DEF PhaseAllows, OwnedWhenUsed
    <2>5. Fits(Leaving(k, "gone"), a)
      BY <2>3, <2>4, LeavingFits
    <2>6. ASSUME m.msg # 0 PROVE Fits(n, a)
      <3>1. InHand(m) /\ InHand(n)
        BY <2>1, <2>3, <2>6 DEF InHand
      <3>2. Ordered(n)
        BY <1>f, <2>1, <2>3, <3>1 DEF Ordered, Queueing, Entering
      <3>3. PhaseAllows(n.ph, a) /\ OwnedWhenUsed(n, a)
        BY <2>3, <2>4 DEF PhaseAllows, OwnedWhenUsed, Entering, Serving, Answering, Ended
      <3> QED
        BY <2>3, <3>2, <3>3 DEF Fits, Queueing
    <2> QED
      BY <2>1, <2>2, <2>5, <2>6 DEF StaysFit, a
  <1>5. CASE Buffer(c)
    <2> DEFINE b == Buffered(c, m)
               r == IF m.msg # Len(mw[c].body) /\ Len(b.buf) >= HighWater THEN "none" ELSE "pending"
               n == [b EXCEPT !.ph = "queued", !.msg = 0, !.rx = r]
    <2>1. m.ph = "buffering" /\ pc' = pc
      BY <1>5 DEF Buffer, At, gate, vars
    <2>2. /\ Fields \subseteq DOMAIN b /\ Ranked(b.got, b.buf) /\ b.next = Following(b.got, b.buf)
          /\ b.msg = m.msg /\ b.lease = m.lease
      BY <1>f, <2>1, BufferedOrdered
    <2>3. Become(c, n)
      BY <1>5, <2>2 DEF Buffer
    <2> HIDE DEF b
    <2>4. /\ Fields \subseteq DOMAIN n /\ n.ph = "queued" /\ n.msg = 0
          /\ n.got = b.got /\ n.buf = b.buf /\ n.next = b.next /\ n.lease = m.lease
      BY <2>2 DEF Fields
    <2> HIDE DEF n, m, a
    <2>5. Ordered(n)
      BY <2>2, <2>4 DEF Ordered, InHand, Entering
    <2>6. PhaseAllows(n.ph, a) /\ OwnedWhenUsed(n, a)
      BY <1>f, <2>1, <2>4 DEF PhaseAllows, OwnedWhenUsed, Entering, Serving, Answering, Ended
    <2> QED
      BY <2>1, <2>3, <2>4, <2>5, <2>6 DEF StaysFit, Fits, Queueing, a
  <1>6. CASE BufferAdmitted(c)
    <2> DEFINE b == Buffered(c, m)
    <2>1. m.ph = "admitting" /\ pc' = pc /\ Become(c, Transferred(c, b))
      BY <1>6 DEF BufferAdmitted, At, gate, vars
    <2>2. /\ Fields \subseteq DOMAIN b /\ Ranked(b.got, b.buf) /\ b.next = Following(b.got, b.buf)
          /\ b.msg = m.msg /\ b.rx = m.rx
      BY <1>f, <2>1, BufferedOrdered
    <2> HIDE DEF b, m, a
    <2>3. a = "holding" /\ m.rx = "none" /\ m.msg \in Nat
      BY <1>f, <2>1 DEF PhaseAllows, OwnedWhenUsed, Ordered, Queueing
    <2>4. Fits(Transferred(c, b), "holding")
      BY <2>2, <2>3, TransferFits
    <2> QED
      BY <2>1, <2>3, <2>4 DEF StaysFit, a
  <1>7. CASE Unobserved(c)
    <2> DEFINE k == [m EXCEPT !.obs = "none"]
               n == [k EXCEPT !.ph = "declaring"]
    <2>1. m.ph = "unobserving" /\ pc' = pc
      BY <1>7 DEF Unobserved, At, gate, vars
    <2>2. Become(c, Leaving(k, "gone")) \/ Become(c, n)
      BY <1>7 DEF Unobserved
    <2>3. /\ Fields \subseteq DOMAIN k /\ k.lease = m.lease
          /\ Fields \subseteq DOMAIN n /\ n.ph = "declaring" /\ n.obs = "none" /\ n.msg = m.msg
          /\ n.got = m.got /\ n.buf = m.buf /\ n.next = m.next /\ n.rx = m.rx /\ n.pend = m.pend
      BY <1>f DEF Fields
    <2> HIDE DEF m, a, k, n
    <2>4. a = "holding" /\ m.pend = 0
      BY <1>f, <2>1 DEF PhaseAllows, OwnedWhenUsed
    <2>5. Fits(Leaving(k, "gone"), a)
      BY <2>3, <2>4, LeavingFits
    <2>6. Fits(n, a)
      <3>1. InHand(m) <=> InHand(n)
        BY <2>1, <2>3 DEF InHand
      <3>2. Ordered(n)
        BY <1>f, <2>1, <2>3, <3>1 DEF Ordered, Queueing, Entering
      <3>3. PhaseAllows(n.ph, a) /\ OwnedWhenUsed(n, a)
        BY <2>3, <2>4 DEF PhaseAllows, OwnedWhenUsed, Entering, Serving, Answering, Ended
      <3> QED
        BY <2>3, <3>2, <3>3 DEF Fits, Serving
    <2> QED
      BY <2>1, <2>2, <2>5, <2>6 DEF StaysFit, a
  <1>8. CASE Stop(c)
    <2> DEFINE n == [m EXCEPT !.ph = "stopped", !.rx = "none", !.obs = "none",
                              !.lease = IF a = "holding" THEN 0 ELSE @]
    <2>1. m.ph = "stopping" /\ Become(c, n)
      BY <1>8 DEF Stop, At, Become
    <2>2. pc'[c] \in {"abandoning", "releasing", "rejected"}
      BY <1>0, <1>8 DEF Stop, StopWaiting, OwnerCancelled, Release, gate, vars
    <2>3. /\ Fields \subseteq DOMAIN n /\ n.ph = "stopped" /\ n.rx = "none" /\ n.obs = "none"
          /\ n.lease = IF a = "holding" THEN 0 ELSE m.lease
      BY <1>f DEF Fields
    <2> HIDE DEF m, a, n
    <2>4. n.lease = 0
      BY <1>f, <2>3 DEF OwnedWhenUsed
    <2>5. Ordered(n) /\ PhaseAllows(n.ph, pc'[c]) /\ OwnedWhenUsed(n, pc'[c])
      BY <2>2, <2>3, <2>4
         DEF Ordered, PhaseAllows, OwnedWhenUsed, Entering, Queueing, Serving, Answering
    <2> QED
      BY <2>1, <2>3, <2>5 DEF StaysFit, Fits, Ended
  <1>9. CASE Stopped(c)
    <2> DEFINE n == [Fresh EXCEPT !.ph = IF m.why = "rejected" THEN "rejecting" ELSE "over",
                                  !.rx = m.rx, !.obs = m.obs, !.lease = m.lease]
    <2>1. m.ph = "stopped" /\ Become(c, n) /\ pc' = pc /\ a \notin {"waiting", "abandoning", "releasing"}
      BY <1>9 DEF Stopped, At, gate, vars
    <2>2. /\ Fields \subseteq DOMAIN n /\ n.ph \in {"rejecting", "over"} /\ n.rx = m.rx /\ n.obs = m.obs
          /\ n.lease = m.lease /\ n.pend = 0
      BY DEF Fields, Fresh
    <2> HIDE DEF m, a, n
    <2>3. a \in {"rejected", "idle"} /\ m.rx = "none" /\ m.obs = "none" /\ m.lease = 0
      BY <1>f, <2>1 DEF PhaseAllows, OwnedWhenUsed, Ended
    <2>4. Ordered(n) /\ PhaseAllows(n.ph, a) /\ OwnedWhenUsed(n, a)
      BY <2>2, <2>3
         DEF Ordered, PhaseAllows, OwnedWhenUsed, Entering, Queueing, Serving, Answering
    <2> QED
      BY <2>1, <2>2, <2>4 DEF StaysFit, Fits, Ended, Answering, a
  <1> QED
    BY <1>1, <1>2, <1>3, <1>4, <1>5, <1>6, <1>7, <1>8, <1>9 DEF QueueStep

\* The steps of a request with a slot, or with nothing left but its answer.
LEMMA ServeFits ==
    ASSUME RequestsFit, TypeOK, NEW c \in Requests, ServeStep(c)
    PROVE  StaysFit(c)
  <1>0. /\ c \in Callers /\ Fits(mw[c], pc[c])
        /\ pc \in [Callers -> Phases]
    BY QueuedAssumption DEF RequestsFit, TypeOK
  <1> DEFINE m == mw[c]
             a == pc[c]
  <1>f. /\ Fields \subseteq DOMAIN m /\ Ordered(m)
        /\ PhaseAllows(m.ph, a) /\ OwnedWhenUsed(m, a)
    BY <1>0, FitsFacts
  \* Most steps keep the slot and the frames.
  <1>k. ASSUME NEW n, Become(c, n), pc' = pc, m.ph \in Serving,
               Fields \subseteq DOMAIN n, n.ph \in Serving, n.obs = m.obs, n.pend = m.pend,
               n.ph = "charging" => n.rx = "none", Ordered(n)
        PROVE  StaysFit(c)
    <2> HIDE DEF m, a
    <2>1. a = "holding" /\ m.obs = "none" /\ m.pend = 0
      BY <1>f, <1>k DEF PhaseAllows, OwnedWhenUsed
    <2>2. PhaseAllows(n.ph, a) /\ OwnedWhenUsed(n, a)
      BY <1>k, <2>1 DEF PhaseAllows, OwnedWhenUsed, Entering, Serving, Answering, Ended
    <2> QED
      BY <1>k, <2>2 DEF StaysFit, Fits, a
  \* The others leave for the answer, or for the end.
  <1>l. ASSUME NEW n, Become(c, n), pc' = pc, m.ph \in Serving \cup {"rejecting"},
               Fields \subseteq DOMAIN n, n.ph \in Answering, n.obs = m.obs, n.pend = m.pend,
               n.lease = m.lease
        PROVE  StaysFit(c)
    <2> HIDE DEF m, a
    <2>1. a \in {"holding", "idle", "rejected"} /\ m.obs = "none" /\ m.pend = 0
      BY <1>f, <1>l DEF PhaseAllows, OwnedWhenUsed, Answering
    <2>2. PhaseAllows(n.ph, a) /\ OwnedWhenUsed(n, a) /\ Ordered(n)
      BY <1>f, <1>l, <2>1
         DEF PhaseAllows, OwnedWhenUsed, Ordered, Entering, Queueing, Serving, Answering, Ended
    <2> QED
      BY <1>l, <2>2 DEF StaysFit, Fits, a
  <1>1. CASE Declare(c)
    <2> DEFINE k == [m EXCEPT !.ph = "serving"]
               n == [k EXCEPT !.lease = Most(@, Target(c)),
                              !.pre = Most(0, Wire(c) - k.lease),
                              !.credit = Target(c) - Wire(c)]
    <2>1. (Become(c, k) \/ Become(c, n)) /\ pc' = pc /\ m.ph = "declaring"
      BY <1>1 DEF Declare, At, gate, vars
    <2>2. /\ Fields \subseteq DOMAIN k /\ k.ph = "serving" /\ k.rx = m.rx /\ k.msg = m.msg
          /\ k.got = m.got /\ k.buf = m.buf /\ k.next = m.next /\ k.obs = m.obs /\ k.pend = m.pend
          /\ Fields \subseteq DOMAIN n /\ n.ph = "serving" /\ n.rx = m.rx /\ n.msg = m.msg
          /\ n.got = m.got /\ n.buf = m.buf /\ n.next = m.next /\ n.obs = m.obs /\ n.pend = m.pend
      BY <1>f DEF Fields
    <2>3. Ordered(k) /\ Ordered(n)
      <3> HIDE DEF k, n, m, a
      <3>1. (InHand(k) <=> InHand(m)) /\ (InHand(n) <=> InHand(m))
        BY <2>1, <2>2 DEF InHand
      <3> QED
        BY <1>f, <2>1, <2>2, <3>1 DEF Ordered, Serving, Entering
    <2> HIDE DEF k, n, m, a
    <2> QED
      BY <1>k, <2>1, <2>2, <2>3 DEF Serving
  <1>2. CASE Replay(c)
    <2> DEFINE n == [m EXCEPT !.buf = Tail(@), !.got = Append(@, Head(m.buf)),
                              !.credit = @ + Size(c, Head(m.buf))]
    <2>1. Become(c, n) /\ pc' = pc /\ m.ph = "serving" /\ m.buf # <<>>
      BY <1>2 DEF Replay, At, Become, gate, vars
    <2>2. /\ Fields \subseteq DOMAIN n /\ n.ph = "serving" /\ n.rx = m.rx /\ n.msg = m.msg
          /\ n.next = m.next /\ n.obs = m.obs /\ n.pend = m.pend
          /\ n.got = Append(m.got, Head(m.buf)) /\ n.buf = Tail(m.buf)
      BY <1>f, <2>1 DEF Fields
    <2>3. Ordered(n)
      <3> HIDE DEF n, m, a
      <3>1. InHand(n) <=> InHand(m)
        BY <2>1, <2>2 DEF InHand
      <3>2. Ranked(m.got, m.buf)
        BY <1>f, <2>1 DEF Ordered, Serving
      <3>3. /\ Ranked(n.got, n.buf) /\ Following(n.got, n.buf) = Following(m.got, m.buf)
        BY <2>1, <2>2, <3>2, RankedReplays
      <3> QED
        BY <1>f, <2>1, <2>2, <3>1, <3>3 DEF Ordered, Serving, Entering
    <2> HIDE DEF n, m, a
    <2> QED
      BY <1>k, <2>1, <2>2, <2>3 DEF Serving
  <1>3. CASE AppReceives(c)
    <2> DEFINE n == [m EXCEPT !.rx = "pending"]
    <2>1. Become(c, n) /\ pc' = pc /\ m.ph = "serving" /\ m.rx = "none"
      BY <1>3 DEF AppReceives, At, Become, gate, vars
    <2>2. /\ Fields \subseteq DOMAIN n /\ n.ph = "serving" /\ n.rx = "pending" /\ n.msg = m.msg
          /\ n.got = m.got /\ n.buf = m.buf /\ n.next = m.next /\ n.obs = m.obs /\ n.pend = m.pend
      BY <1>f, <2>1 DEF Fields
    <2>3. Ordered(n)
      <3> HIDE DEF n, m, a
      <3>1. ~InHand(m) /\ ~InHand(n)
        BY <2>1, <2>2 DEF InHand
      <3> QED
        BY <1>f, <2>1, <2>2, <3>1 DEF Ordered, Serving, Entering
    <2> HIDE DEF n, m, a
    <2> QED
      BY <1>k, <2>1, <2>2, <2>3 DEF Serving
  <1>4. CASE AppTakes(c)
    <2> DEFINE n == [m EXCEPT !.rx = "none", !.ph = IF m.msg = 0 THEN "leaving" ELSE "charging"]
    <2>1. /\ Become(c, n) /\ pc' = pc /\ m.ph = "serving" /\ m.rx = "done"
          /\ m.buf = <<>>
      BY <1>4 DEF AppTakes, At, Become, gate, vars
    <2>2. /\ Fields \subseteq DOMAIN n /\ n.ph = (IF m.msg = 0 THEN "leaving" ELSE "charging")
          /\ n.rx = "none" /\ n.msg = m.msg /\ n.lease = m.lease
          /\ n.got = m.got /\ n.buf = m.buf /\ n.next = m.next /\ n.obs = m.obs /\ n.pend = m.pend
      BY <1>f, <2>1 DEF Fields
    <2> HIDE DEF n
    <2>3. ASSUME m.msg # 0 PROVE Ordered(n)
      <3> HIDE DEF m, a
      <3>1. InHand(m) /\ InHand(n)
        BY <2>1, <2>2, <2>3 DEF InHand
      <3> QED
        BY <1>f, <2>1, <2>2, <2>3, <3>1 DEF Ordered, Serving, Entering
    <2>4. CASE m.msg = 0
      <3> HIDE DEF m, a
      <3> QED
        BY <1>l, <2>1, <2>2, <2>4 DEF Serving, Answering
    <2>5. CASE m.msg # 0
      <3> HIDE DEF m, a
      <3> QED
        BY <1>k, <2>1, <2>2, <2>3, <2>5 DEF Serving
    <2> QED
      BY <2>4, <2>5
  <1>5. CASE Charge(c)
    <2> DEFINE left == Most(0, m.pre - Size(c, m.msg))
               unused == IF m.msg = Len(mw[c].body) THEN left ELSE 0
               n == [m EXCEPT !.ph = "serving", !.lease = @ + Uncovered(c) - unused,
                              !.pre = left - unused, !.credit = @ + Size(c, m.msg),
                              !.got = Append(@, m.msg), !.msg = 0]
    <2>1. Become(c, n) /\ pc' = pc /\ m.ph = "charging"
      BY <1>5 DEF Charge, At, gate, vars
    <2> HIDE DEF left, unused
    <2>2. /\ Fields \subseteq DOMAIN n /\ n.ph = "serving" /\ n.rx = m.rx /\ n.msg = 0
          /\ n.next = m.next /\ n.obs = m.obs /\ n.pend = m.pend
          /\ n.got = Append(m.got, m.msg) /\ n.buf = m.buf
      BY <1>f, <2>1 DEF Fields
    <2>3. Ordered(n)
      <3> HIDE DEF n, m, a
      <3>1. InHand(m) /\ m.rx = "none" /\ ~InHand(n)
        BY <1>f, <2>1, <2>2 DEF InHand, OwnedWhenUsed
      <3>2. /\ Ranked(m.got, m.buf) /\ m.buf = <<>>
            /\ m.msg = Following(m.got, m.buf) /\ m.next = m.msg + 1
        BY <1>f, <2>1, <3>1 DEF Ordered, Serving
      <3>3. Ranked(n.got, n.buf) /\ Following(n.got, n.buf) = m.msg + 1
        BY <2>2, <3>2, RankedAppends
      <3> QED
        BY <2>2, <3>1, <3>2, <3>3 DEF Ordered, Entering
    <2> HIDE DEF n, m, a
    <2> QED
      BY <1>k, <2>1, <2>2, <2>3 DEF Serving
  <1>6. CASE Refused(c)
    <2> DEFINE n == [m EXCEPT !.ph = "rejecting"]
    <2>1. Become(c, n) /\ pc' = pc /\ m.ph \in Serving
      BY <1>6 DEF Refused, At, Enter, Become, Serving, gate, vars
    <2>2. /\ Fields \subseteq DOMAIN n /\ n.ph = "rejecting" /\ n.obs = m.obs /\ n.pend = m.pend
          /\ n.lease = m.lease
      BY <1>f DEF Fields
    <2> HIDE DEF n, m, a
    <2> QED
      BY <1>l, <2>1, <2>2 DEF Answering
  <1>7. CASE Answered(c)
    <2> DEFINE n == [m EXCEPT !.ph = "leaving"]
    <2>1. Become(c, n) /\ pc' = pc /\ m.ph \in {"serving", "rejecting"}
      BY <1>7 DEF Answered, Enter, Become, gate, vars
    <2>2. /\ Fields \subseteq DOMAIN n /\ n.ph = "leaving" /\ n.obs = m.obs /\ n.pend = m.pend
          /\ n.lease = m.lease
      BY <1>f DEF Fields
    <2> HIDE DEF n, m, a
    <2> QED
      BY <1>l, <2>1, <2>2 DEF Answering, Serving
  <1>8. CASE Finish(c)
    <2> DEFINE n == [Fresh EXCEPT !.ph = "stopped", !.why = "done", !.obs = m.obs, !.pend = m.pend,
                                  !.lease = IF a = "holding" THEN 0 ELSE m.lease]
    <2>1. m.ph = "leaving" /\ Become(c, n)
      BY <1>8 DEF Finish, At
    <2>2. pc'[c] = IF a = "holding" THEN "releasing" ELSE a
      BY <1>0, <1>8 DEF Finish, Release, gate, vars
    <2>3. /\ Fields \subseteq DOMAIN n /\ n.ph = "stopped" /\ n.rx = "none" /\ n.obs = m.obs
          /\ n.lease = IF a = "holding" THEN 0 ELSE m.lease
      BY DEF Fields, Fresh
    <2> HIDE DEF n, m, a
    <2>4. a \in {"holding", "idle", "rejected"} /\ m.obs = "none" /\ n.lease = 0
      BY <1>f, <2>1, <2>3 DEF PhaseAllows, OwnedWhenUsed, Answering
    <2>5. Ordered(n) /\ PhaseAllows(n.ph, pc'[c]) /\ OwnedWhenUsed(n, pc'[c])
      BY <2>2, <2>3, <2>4
         DEF Ordered, PhaseAllows, OwnedWhenUsed, Entering, Queueing, Serving, Answering
    <2> QED
      BY <2>1, <2>3, <2>5 DEF StaysFit, Fits, Ended
  <1>9. ASSUME NEW k \in 1..MaxUse, Use(c, k) \/ Return(c, k) PROVE StaysFit(c)
    <2> DEFINE credited == Least(k, m.credit)
               u == [m EXCEPT !.credit = @ - credited, !.lease = @ + k - credited, !.used = @ + k]
               r == [m EXCEPT !.lease = @ - k, !.used = @ - k]
    <2>1. (Become(c, u) \/ Become(c, r)) /\ pc' = pc /\ m.ph = "serving"
      BY <1>9 DEF Use, Return, At, Become, gate, vars
    <2> HIDE DEF credited
    <2>2. /\ Fields \subseteq DOMAIN u /\ u.ph = "serving" /\ u.rx = m.rx /\ u.msg = m.msg
          /\ u.got = m.got /\ u.buf = m.buf /\ u.next = m.next /\ u.obs = m.obs /\ u.pend = m.pend
          /\ Fields \subseteq DOMAIN r /\ r.ph = "serving" /\ r.rx = m.rx /\ r.msg = m.msg
          /\ r.got = m.got /\ r.buf = m.buf /\ r.next = m.next /\ r.obs = m.obs /\ r.pend = m.pend
      BY <1>f, <2>1 DEF Fields
    <2>3. Ordered(u) /\ Ordered(r)
      <3> HIDE DEF u, r, m, a
      <3>1. (InHand(u) <=> InHand(m)) /\ (InHand(r) <=> InHand(m))
        BY <2>1, <2>2 DEF InHand
      <3> QED
        BY <1>f, <2>1, <2>2, <3>1 DEF Ordered, Serving, Entering
    <2> HIDE DEF u, r, m, a
    <2> QED
      BY <1>k, <2>1, <2>2, <2>3 DEF Serving
  <1> QED
    BY <1>1, <1>2, <1>3, <1>4, <1>5, <1>6, <1>7, <1>8, <1>9 DEF ServeStep

\* The request's arrival, its cancellation, and what its transport does.
LEMMA OtherFits ==
    ASSUME RequestsFit, TypeOK, NEW c \in Requests,
           Admit(c) \/ Cancel(c) \/ ReceiveEnds(c) \/ ObserverRuns(c)
    PROVE  StaysFit(c)
  <1>0. /\ c \in Callers /\ Fits(mw[c], pc[c])
        /\ pc \in [Callers -> Phases]
    BY QueuedAssumption DEF RequestsFit, TypeOK
  <1> DEFINE m == mw[c]
             a == pc[c]
  <1>f. /\ Fields \subseteq DOMAIN m /\ Ordered(m)
        /\ PhaseAllows(m.ph, a) /\ OwnedWhenUsed(m, a)
    BY <1>0, FitsFacts
  <1>1. CASE Admit(c)
    <2>1. PICK ph \in {"declaring", "beginning", "rejecting"} :
             /\ Enter(c, ph)
             /\ pc'[c] = CASE ph = "declaring" -> "holding"
                           [] ph = "beginning" -> "waiting"
                           [] ph = "rejecting" -> "rejected"
      BY <1>0, <1>1 DEF Admit, TryAcquire, ClaimSlot, Enqueue, QueueFull
    <2> DEFINE n == [m EXCEPT !.ph = ph]
    <2>2. m.ph = "new" /\ Become(c, n)
      BY <1>1, <2>1 DEF Admit, At, Enter, Become
    <2>3. /\ Fields \subseteq DOMAIN n /\ n.ph = ph /\ n.rx = m.rx /\ n.msg = m.msg
          /\ n.got = m.got /\ n.buf = m.buf /\ n.next = m.next /\ n.obs = m.obs /\ n.pend = m.pend
          /\ n.lease = m.lease
      BY <1>f DEF Fields
    <2> HIDE DEF n, m, a
    <2>4. /\ m.rx = "none" /\ m.obs = "none" /\ m.pend = 0 /\ m.lease = 0 /\ ~InHand(m)
          /\ m.msg = 0
      BY <1>f, <2>2 DEF PhaseAllows, OwnedWhenUsed, Ordered, InHand, Entering
    <2>5. ~InHand(n)
      BY <2>1, <2>3, <2>4 DEF InHand
    <2>6. Ordered(n)
      BY <1>f, <2>1, <2>2, <2>3, <2>4, <2>5 DEF Ordered, Entering
    <2>7. PhaseAllows(n.ph, pc'[c]) /\ OwnedWhenUsed(n, pc'[c])
      BY <2>1, <2>3, <2>4 DEF PhaseAllows, OwnedWhenUsed, Entering, Serving, Answering, Ended
    <2> QED
      BY <2>1, <2>2, <2>3, <2>6, <2>7 DEF StaysFit, Fits, Entering, Serving, Answering
  <1>2. CASE Cancel(c)
    <2> DEFINE n == [m EXCEPT !.ph = "leaving"]
    <2>1. /\ pc' = pc
          /\ \/ /\ m.ph \in {"beginning", "queued", "buffering", "admitting", "unobserving"}
                /\ Become(c, Leaving(m, "cancelled"))
             \/ m.ph \in {"declaring", "charging"} /\ Become(c, n)
      BY <1>2 DEF Cancel, Enter, Become, gate, vars
    <2>2. /\ Fields \subseteq DOMAIN n /\ n.ph = "leaving" /\ n.obs = m.obs /\ n.pend = m.pend
          /\ n.lease = m.lease
      BY <1>f DEF Fields
    <2> HIDE DEF n, m, a
    <2>3. ASSUME m.ph \in {"beginning", "queued", "buffering", "admitting", "unobserving"}
          PROVE  Fits(Leaving(m, "cancelled"), a)
      <3>1. /\ a \in {"waiting", "leased", "abandoning", "rejected", "holding"}
            /\ a # "holding" => m.lease = 0
        BY <1>f, <2>3 DEF PhaseAllows, OwnedWhenUsed
      <3> QED
        BY <1>f, <3>1, LeavingFits
    <2>4. ASSUME m.ph \in {"declaring", "charging"} PROVE Fits(n, a)
      <3>1. a = "holding" /\ m.obs = "none" /\ m.pend = 0
        BY <1>f, <2>4 DEF PhaseAllows, OwnedWhenUsed, Serving
      <3>2. PhaseAllows(n.ph, a) /\ OwnedWhenUsed(n, a) /\ Ordered(n)
        BY <2>2, <3>1
           DEF PhaseAllows, OwnedWhenUsed, Ordered, Entering, Queueing, Serving, Answering, Ended
      <3> QED
        BY <2>2, <3>2 DEF Fits, Answering
    <2> QED
      BY <2>1, <2>3, <2>4 DEF StaysFit, a
  <1>3. CASE ReceiveEnds(c)
    <2> DEFINE k == [m EXCEPT !.rx = "done", !.msg = m.next, !.next = @ + 1]
               n == [m EXCEPT !.rx = "done", !.msg = 0]
    <2>1. (Become(c, k) \/ Become(c, n)) /\ pc' = pc /\ m.rx = "pending"
      BY <1>3 DEF ReceiveEnds, Become, gate, vars
    <2>2. /\ Fields \subseteq DOMAIN k /\ k.ph = m.ph /\ k.rx = "done" /\ k.msg = m.next
          /\ k.got = m.got /\ k.buf = m.buf /\ k.next = m.next + 1 /\ k.obs = m.obs
          /\ k.pend = m.pend /\ k.lease = m.lease
          /\ Fields \subseteq DOMAIN n /\ n.ph = m.ph /\ n.rx = "done" /\ n.msg = 0
          /\ n.got = m.got /\ n.buf = m.buf /\ n.next = m.next /\ n.obs = m.obs
          /\ n.pend = m.pend /\ n.lease = m.lease
      BY <1>f DEF Fields
    <2> HIDE DEF k, n, m, a
    <2>3. m.ph \notin Entering \cup Ended \cup {"buffering", "admitting", "charging"}
      BY <1>f, <2>1 DEF OwnedWhenUsed
    <2>4. Ordered(k) /\ Ordered(n)
      <3>1. CASE m.ph \in Queueing \cup Serving
        <4>1. ~InHand(m) /\ ~InHand(n)
          BY <2>1, <2>2, <2>3 DEF InHand
        <4>2. Ranked(m.got, m.buf) /\ m.next = Following(m.got, m.buf)
          BY <1>f, <3>1, <4>1 DEF Ordered
        <4>3. m.next \in Nat \ {0}
          BY <4>2, FollowingType
        <4>4. InHand(k)
          BY <2>2, <4>3 DEF InHand
        <4> QED
          BY <2>2, <2>3, <4>1, <4>2, <4>3, <4>4 DEF Ordered
      <3>2. CASE m.ph \notin Queueing \cup Serving
        BY <2>2, <2>3, <3>2 DEF Ordered
      <3> QED
        BY <3>1, <3>2
    <2>5. /\ PhaseAllows(k.ph, a) /\ OwnedWhenUsed(k, a)
          /\ PhaseAllows(n.ph, a) /\ OwnedWhenUsed(n, a)
      BY <1>f, <2>2, <2>3 DEF OwnedWhenUsed
    <2>6. Fits(k, a) /\ Fits(n, a)
      BY <1>0, <2>2, <2>4, <2>5 DEF Fits, m, a
    <2> QED
      BY <2>1, <2>6 DEF StaysFit, a
  <1>4. CASE ObserverRuns(c)
    <2> DEFINE n == [m EXCEPT !.obs = "done"]
    <2>1. Become(c, n) /\ pc' = pc /\ m.obs = "waiting"
      BY <1>4 DEF ObserverRuns, Become, gate, vars
    <2>2. /\ Fields \subseteq DOMAIN n /\ n.ph = m.ph /\ n.rx = m.rx /\ n.msg = m.msg
          /\ n.got = m.got /\ n.buf = m.buf /\ n.next = m.next
          /\ n.pend = m.pend /\ n.lease = m.lease
      BY <1>f DEF Fields
    <2> HIDE DEF n, m, a
    <2>3. m.ph \notin Entering \cup Serving \cup Answering \cup Ended
      BY <1>f, <2>1 DEF OwnedWhenUsed
    <2>4. Ordered(n)
      <3>1. InHand(n) <=> InHand(m)
        BY <2>2 DEF InHand
      <3> QED
        BY <1>f, <2>2, <3>1 DEF Ordered
    <2>5. PhaseAllows(n.ph, a) /\ OwnedWhenUsed(n, a)
      BY <1>f, <2>2, <2>3 DEF OwnedWhenUsed
    <2> QED
      BY <1>0, <2>1, <2>2, <2>4, <2>5 DEF StaysFit, Fits, m, a
  <1> QED
    BY <1>1, <1>2, <1>3, <1>4

\* What the gate does of itself, and its timer, leave every request fit.
LEMMA GateFits ==
    ASSUME RequestsFit, TypeOK, NEW c \in Requests, GateRuns(c) \/ WaitTimesOut(c)
    PROVE  Fits(mw[c], pc'[c])
  <1>0. /\ c \in Callers /\ Fits(mw[c], pc[c])
        /\ pc \in [Callers -> Phases]
    BY QueuedAssumption DEF RequestsFit, TypeOK
  <1> DEFINE m == mw[c]
             a == pc[c]
             b == pc'[c]
  <1>1. /\ Fields \subseteq DOMAIN m /\ Ordered(m)
        /\ PhaseAllows(m.ph, a) /\ OwnedWhenUsed(m, a)
        /\ m.ph \in Entering \cup Queueing \cup Serving \cup Answering \cup Ended \cup {"stopping"}
    BY <1>0 DEF Fits
  <1>2. \/ a = "waiting" /\ b \in {"leased", "abandoning"}
        \/ a = "abandoning" /\ b = "rejected"
        \/ a = "releasing" /\ b = "idle"
    BY <1>0 DEF GateRuns, WaitTimesOut, WaiterResumes, AbandonWaiter, ReleaseSlot, StopWaiting
  <1> HIDE DEF m, a, b
  <1>3. PhaseAllows(m.ph, b)
    BY <1>1, <1>2 DEF PhaseAllows, Entering, Queueing, Serving, Answering, Ended
  <1>4. OwnedWhenUsed(m, b)
    BY <1>1, <1>2 DEF OwnedWhenUsed
  <1> QED
    BY <1>1, <1>3, <1>4 DEF Fits, m, b
-----------------------------------------------------------------------------
LEMMA FitInit == AdmissionInit => RequestsFit
  <1> SUFFICES ASSUME AdmissionInit PROVE RequestsFit
    OBVIOUS
  <1>1. mw \in [Requests -> {[Fresh EXCEPT !.body = b] : b \in Bodies}]
    BY DEF AdmissionInit
  <1>2. ASSUME NEW c \in Requests PROVE Fits(mw[c], pc[c])
    <2>1. pc[c] = "idle"
      BY QueuedAssumption DEF AdmissionInit, Init
    <2>2. PICK b : mw[c] = [Fresh EXCEPT !.body = b]
      BY <1>1
    <2> QED
      BY <2>1, <2>2, FreshFits
  <1> QED
    BY <1>1, <1>2 DEF RequestsFit

\* At the gate, a request's step is a step of its own, or none.
LEMMA OwnGateStep ==
    ASSUME NEW c \in Requests, RequestStep(c)
    PROVE  GateStep(c) \/ pc' = pc
  <1>1. CASE Admit(c)
    BY <1>1 DEF Admit, GateStep, BeginAcquire
  <1>2. CASE QueueStep(c)
    <2>1. CASE Granted(c) \/ Stop(c)
      BY <2>1 DEF Granted, Stop, GateStep, gate, vars
    <2>2. CASE Begun(c) \/ DisconnectWins(c) \/ TimedOut(c) \/ Received(c) \/ Stopped(c)
      BY <2>2 DEF Begun, DisconnectWins, TimedOut, Received, Stopped, gate, vars
    <2>3. CASE Buffer(c) \/ BufferAdmitted(c) \/ BufferRefused(c) \/ Unobserved(c)
      BY <2>3 DEF Buffer, BufferAdmitted, BufferRefused, Unobserved, gate, vars
    <2> QED
      BY <1>2, <2>1, <2>2, <2>3 DEF QueueStep
  <1>3. CASE ServeStep(c)
    <2>1. CASE Finish(c)
      BY <2>1 DEF Finish, GateStep, gate, vars
    <2>2. CASE Declare(c) \/ Replay(c) \/ AppReceives(c) \/ AppTakes(c) \/ Charge(c)
      BY <2>2 DEF Declare, Replay, AppReceives, AppTakes, Charge, gate, vars
    <2>3. CASE Refused(c) \/ Answered(c) \/ \E n \in 1..MaxUse : Use(c, n) \/ Return(c, n)
      BY <2>3 DEF Refused, Answered, Use, Return, gate, vars
    <2> QED
      BY <1>3, <2>1, <2>2, <2>3 DEF ServeStep
  <1>4. CASE GateRuns(c) \/ WaitTimesOut(c)
    BY <1>4 DEF GateRuns, WaitTimesOut, GateStep
  <1>5. CASE Cancel(c) \/ ReceiveEnds(c) \/ ClientLeaves(c) \/ ObserverRuns(c)
    BY <1>5 DEF Cancel, ReceiveEnds, ClientLeaves, ObserverRuns, gate, vars
  <1> QED
    BY <1>1, <1>2, <1>3, <1>4, <1>5 DEF RequestStep

LEMMA FitStep ==
    ASSUME RequestsFit, TypeOK, [AdmissionNext]_all
    PROVE  RequestsFit'
  <1>0. mw = [c \in Requests |-> mw[c]] /\ \A c \in Requests : Fits(mw[c], pc[c])
    BY DEF RequestsFit
  \* A step of one request, at the gate and in the middleware.
  <1>1. ASSUME NEW c \in Requests, StaysFit(c), \A d \in Requests : d # c => pc'[d] = pc[d]
        PROVE  RequestsFit'
    <2>1. PICK m : Become(c, m) /\ Fits(m, pc'[c])
      BY <1>1 DEF StaysFit
    <2>2. /\ mw' = [d \in Requests |-> mw'[d]]
          /\ mw'[c] = m /\ \A d \in Requests : d # c => mw'[d] = mw[d]
      BY <1>0, <2>1 DEF Become
    <2>3. \A d \in Requests : Fits(mw'[d], pc'[d])
      BY <1>0, <1>1, <2>1, <2>2
    <2> QED
      BY <2>2, <2>3 DEF RequestsFit
  \* A step of one caller at the gate only.
  <1>2. ASSUME NEW c \in Callers, mw' = mw, \A d \in Requests : d # c => pc'[d] = pc[d],
               c \in Requests => Fits(mw[c], pc'[c])
        PROVE  RequestsFit'
    BY <1>0, <1>2 DEF RequestsFit
  <1>3. ASSUME NEW c \in Requests, RequestStep(c) PROVE RequestsFit'
    <2>1. c \in Callers /\ Requests \subseteq Callers
      BY QueuedAssumption
    <2>2. \A d \in Requests : d # c => pc'[d] = pc[d]
      <3>1. GateStep(c) \/ pc' = pc
        BY <1>3, OwnGateStep
      <3> QED
        BY <2>1, <3>1, OthersStay
    <2>3. CASE QueueStep(c) \/ ServeStep(c) \/ Admit(c) \/ Cancel(c) \/ ReceiveEnds(c) \/ ObserverRuns(c)
      BY <1>1, <2>2, <2>3, QueueFits, ServeFits, OtherFits
    <2>4. CASE ClientLeaves(c)
      BY <1>0, <2>4 DEF ClientLeaves, RequestsFit, gate, vars
    <2>5. CASE GateRuns(c) \/ WaitTimesOut(c)
      <3>1. mw' = mw
        BY <2>5 DEF GateRuns, WaitTimesOut
      <3> QED
        BY <1>2, <2>1, <2>2, <2>5, <3>1, GateFits
    <2> QED
      BY <1>3, <2>3, <2>4, <2>5 DEF RequestStep
  <1>4. ASSUME NEW c \in Callers \ Requests, GateStep(c), UNCHANGED <<gone, mw>>
        PROVE  RequestsFit'
    <2>1. \A d \in Requests : pc'[d] = pc[d]
      BY <1>4, OthersStay, QueuedAssumption
    <2> QED
      BY <1>2, <1>4, <2>1
  <1>5. CASE UNCHANGED all
    BY <1>0, <1>5 DEF all, RequestsFit
  <1> QED
    BY <1>3, <1>4, <1>5 DEF AdmissionNext

LEMMA FitIsWhole == RequestsFit /\ TypeOK /\ PhaseInv => NothingKept /\ FramesInOrder
  <1> SUFFICES ASSUME RequestsFit, TypeOK, PhaseInv PROVE NothingKept /\ FramesInOrder
    OBVIOUS
  <1>0. \A c \in Requests : Fits(mw[c], pc[c]) /\ c \in Callers
    BY QueuedAssumption DEF RequestsFit
  <1>1. ASSUME NEW c \in Requests, mw[c].ph = "over"
        PROVE  /\ c \notin SlotOwners /\ wstate[c] # "queued"
               /\ mw[c].pend = 0 /\ mw[c].lease = 0 /\ mw[c].rx = "none" /\ mw[c].obs = "none"
    <2>1. PhaseAllows(mw[c].ph, pc[c]) /\ OwnedWhenUsed(mw[c], pc[c])
      BY <1>0, FitsFacts
    <2>2. pc[c] \in {"idle", "rejected"}
      BY <1>1, <2>1 DEF PhaseAllows
    <2>3. wstate[c] \notin {"queued", "granted"}
      BY <1>0, <2>2 DEF PhaseInv
    <2>4. mw[c].pend = 0 /\ mw[c].lease = 0 /\ mw[c].rx = "none" /\ mw[c].obs = "none"
      BY <1>1, <2>1, <2>2 DEF OwnedWhenUsed, Ended
    <2> QED
      BY <2>2, <2>3, <2>4 DEF SlotOwners
  <1>2. ASSUME NEW c \in Requests, mw[c].ph \in Queueing \cup Serving
        PROVE  LET m == mw[c]
                   hand == IF \/ m.rx = "done" /\ m.msg # 0
                              \/ m.ph \in {"buffering", "admitting", "charging"}
                           THEN <<m.msg>> ELSE <<>>
               IN  m.got \o m.buf \o hand = [i \in 1..(m.next - 1) |-> i]
    <2> DEFINE m == mw[c]
               hand == IF InHand(m) THEN <<m.msg>> ELSE <<>>
    <2>1. Ordered(m) /\ m.ph \in Queueing \cup Serving
      BY <1>0, <1>2, FitsFacts
    <2> HIDE DEF m
    <2>2. /\ Ranked(m.got, m.buf) /\ m.msg \in Nat
          /\ InHand(m) => m.msg = Following(m.got, m.buf) /\ m.next = m.msg + 1
          /\ ~InHand(m) => m.next = Following(m.got, m.buf)
      BY <2>1 DEF Ordered
    <2>3. /\ HandHolds(hand, m.msg, m.got, m.buf)
          /\ InHand(m) => Len(hand) = 1
          /\ ~InHand(m) => Len(hand) = 0
      <3>1. CASE InHand(m)
        <4>1. hand = <<m.msg>> /\ Len(<<m.msg>>) = 1
          BY <3>1
        <4> QED
          BY <2>2, <3>1, <4>1 DEF HandHolds
      <3>2. CASE ~InHand(m)
        <4>1. hand = <<>> /\ Len(<<>>) = 0
          BY <3>2
        <4> QED
          BY <2>2, <3>2, <4>1 DEF HandHolds
      <3> QED
        BY <3>1, <3>2
    <2> HIDE DEF hand
    <2>4. m.got \o m.buf \o hand = Upto(Len(m.got) + Len(m.buf) + Len(hand))
      <3>1. Ranked(m.got, m.buf) /\ HandHolds(hand, m.msg, m.got, m.buf)
        BY <2>2, <2>3
      <3> QED
        BY <3>1, RankedJoins
    <2>5. Len(m.got) + Len(m.buf) + Len(hand) = m.next - 1
      <3>1. Len(m.got) \in Nat /\ Len(m.buf) \in Nat
        BY <2>2 DEF Ranked
      <3>2. CASE InHand(m)
        <4>1. /\ m.msg = Len(m.got) + Len(m.buf) + 1 /\ m.next = m.msg + 1
              /\ Len(hand) = 1
          BY <2>2, <2>3, <3>2 DEF Following
        <4> QED
          BY <3>1, <4>1
      <3>3. CASE ~InHand(m)
        <4>1. m.next = Len(m.got) + Len(m.buf) + 1 /\ Len(hand) = 0
          BY <2>2, <2>3, <3>3 DEF Following
        <4> QED
          BY <3>1, <4>1
      <3> QED
        BY <3>2, <3>3
    <2> QED
      BY <2>4, <2>5 DEF InHand, m, hand, Upto
  <1> QED
    BY <1>1, <1>2 DEF NothingKept, FramesInOrder, Queueing, Serving

-----------------------------------------------------------------------------
(* Every reserved byte has one use. *)

Accounted == Entering \cup Queueing \cup Serving

\* Before the body is declared nothing is credited.
Undeclared == Entering \cup Queueing \cup {"declaring"}

MoneyFields == {"ph", "body", "next", "buf", "pend", "lease", "pre", "credit", "used"}

BufferedBytes(m) == SumFunctionOnSet(m.body, ToSet(m.buf))

Paid(m) ==
    /\ MoneyFields \subseteq DOMAIN m
    /\ m.body \in Seq(Nat) /\ m.next \in 1 .. Len(m.body) + 1
    /\ m.pend \in Nat /\ m.lease \in Nat /\ m.pre \in Nat /\ m.credit \in Nat /\ m.used \in Nat
    /\ m.ph \in Accounted => m.pend + m.lease = BufferedBytes(m) + m.pre + m.credit + m.used
    /\ m.ph \in Undeclared => m.pre = 0 /\ m.credit = 0 /\ m.used = 0

RequestsPaid == \A c \in Requests : Paid(mw[c])

StaysPaid(c) == \E m : Become(c, m) /\ Paid(m)

\* All that Paid is about but the phase.
SameMoney(n, m) ==
    /\ MoneyFields \subseteq DOMAIN n
    /\ n.body = m.body /\ n.next = m.next /\ n.buf = m.buf
    /\ n.pend = m.pend /\ n.lease = m.lease
    /\ n.pre = m.pre /\ n.credit = m.credit /\ n.used = m.used

LEMMA PhaseKeepsPaid ==
    ASSUME NEW m, Paid(m), NEW n, SameMoney(n, m),
           n.ph \in Accounted => m.ph \in Accounted,
           n.ph \in Undeclared => m.ph \in Undeclared
    PROVE  Paid(n)
  <1>1. BufferedBytes(n) = BufferedBytes(m)
    BY DEF BufferedBytes, SameMoney
  <1> QED
    BY <1>1 DEF Paid, SameMoney

\* The frames in the buffer are frames of the body, and the one in hand is another.
LEMMA BufferIsBody ==
    ASSUME NEW m, Paid(m), Ordered(m), m.ph \in Accounted
    PROVE  /\ m.buf \in Seq(Nat) /\ ToSet(m.buf) \subseteq 1 .. Len(m.body)
           /\ InHand(m) => /\ m.msg \in 1 .. Len(m.body)
                           /\ m.msg = Following(m.got, m.buf) /\ m.msg \notin ToSet(m.buf)
  <1> DEFINE buf == m.buf
             g == Len(m.got)
             l == Len(m.buf)
             w == Len(m.body)
             x == m.msg
             y == m.next
  <1>1. /\ Ranked(m.got, m.buf)
        /\ InHand(m) => x = Following(m.got, m.buf) /\ y = x + 1
        /\ ~InHand(m) => y = Following(m.got, m.buf)
    BY DEF Ordered, Accounted
  <1>2. /\ g \in Nat /\ l \in Nat /\ buf \in Seq(Nat) /\ DOMAIN buf = 1 .. l
        /\ \A i \in 1 .. l : buf[i] = g + i
    BY <1>1 DEF Ranked
  <1>3. w \in Nat /\ y \in 1 .. w + 1
    BY DEF Paid
  <1>4. Following(m.got, m.buf) = g + l + 1
    BY DEF Following
  <1> HIDE DEF buf, g, l, w, x, y
  <1>5. g + l <= w
    <2>1. CASE InHand(m)
      <3>1. x = g + l + 1 /\ y = x + 1
        BY <1>1, <1>4, <2>1
      <3> QED
        BY <1>2, <1>3, <3>1
    <2>2. CASE ~InHand(m)
      <3>1. y = g + l + 1
        BY <1>1, <1>4, <2>2
      <3> QED
        BY <1>2, <1>3, <3>1
    <2> QED
      BY <2>1, <2>2
  <1>6. ASSUME NEW k \in ToSet(buf)
        PROVE  k \in 1 .. w /\ k <= g + l
    <2>1. PICK i \in 1 .. l : k = buf[i]
      BY <1>2 DEF ToSet
    <2>2. k = g + i /\ i \in Nat /\ i >= 1 /\ i <= l
      BY <1>2, <2>1
    <2> QED
      BY <1>2, <1>3, <1>5, <2>2
  <1>7. ASSUME InHand(m)
        PROVE  x \in 1 .. w /\ x \notin ToSet(buf)
    <2>1. x = g + l + 1 /\ y = x + 1
      BY <1>1, <1>4, <1>7
    <2>2. x \in 1 .. w
      BY <1>2, <1>3, <2>1
    <2>3. ~ (x <= g + l)
      BY <1>2, <2>1
    <2> QED
      BY <1>6, <2>2, <2>3
  <1> QED
    BY <1>1, <1>2, <1>6, <1>7 DEF buf, w, x

LEMMA BufferSums ==
    ASSUME NEW m, m.body \in Seq(Nat), ToSet(m.buf) \subseteq 1 .. Len(m.body)
    PROVE  /\ IsFiniteSet(ToSet(m.buf)) /\ \A x \in ToSet(m.buf) : m.body[x] \in Nat
           /\ BufferedBytes(m) \in Nat
           /\ SumFunctionOnSet(m.body, DOMAIN m.body) \in Nat
           /\ BufferedBytes(m) <= SumFunctionOnSet(m.body, DOMAIN m.body)
  <1> DEFINE D == DOMAIN m.body
             b == m.body
             T == ToSet(m.buf)
  <1>1. D = 1 .. Len(m.body) /\ Len(m.body) \in Nat /\ \A x \in D : b[x] \in Nat
    OBVIOUS
  <1>2. IsFiniteSet(D)
    BY <1>1, FS_Interval
  <1>3. T \in SUBSET D
    BY <1>1
  <1> HIDE DEF D, T, b
  <1>4. IsFiniteSet(T)
    BY <1>2, <1>3, FS_Subset
  <1>5. \A x \in T : b[x] \in Nat
    BY <1>1, <1>3
  <1>6. SumFunctionOnSet(b, T) \in Nat /\ SumFunctionOnSet(b, D) \in Nat
    BY <1>1, <1>2, <1>4, <1>5, SumIsNat
  <1>7. SumFunctionOnSet(b, T) <= SumFunctionOnSet(b, D)
    BY <1>1, <1>2, <1>3, SumOfPart
  <1> QED
    BY <1>4, <1>5, <1>6, <1>7 DEF BufferedBytes, D, T, b

LEMMA AppendedSet ==
    ASSUME NEW s \in Seq(Nat), NEW x \in Nat
    PROVE  ToSet(Append(s, x)) = ToSet(s) \cup {x}
  <1> DEFINE t == Append(s, x)
  <1>1. /\ DOMAIN s = 1 .. Len(s) /\ Len(s) \in Nat /\ DOMAIN t = 1 .. Len(s) + 1
        /\ \A i \in 1 .. Len(s) : t[i] = s[i]
        /\ t[Len(s) + 1] = x
    OBVIOUS
  <1> HIDE DEF t
  <1>2. ASSUME NEW y \in ToSet(t) PROVE y \in ToSet(s) \cup {x}
    <2>1. PICK i \in 1 .. Len(s) + 1 : y = t[i]
      BY <1>1 DEF ToSet
    <2>2. CASE i = Len(s) + 1
      BY <1>1, <2>1, <2>2
    <2>3. CASE i # Len(s) + 1
      <3>1. i \in 1 .. Len(s)
        BY <1>1, <2>3
      <3> QED
        BY <1>1, <2>1, <3>1 DEF ToSet
    <2> QED
      BY <2>2, <2>3
  <1>3. ASSUME NEW y \in ToSet(s) PROVE y \in ToSet(t)
    <2>1. PICK i \in 1 .. Len(s) : y = s[i]
      BY <1>1 DEF ToSet
    <2>2. i \in 1 .. Len(s) + 1
      BY <1>1
    <2> QED
      BY <1>1, <2>1, <2>2 DEF ToSet
  <1>4. x \in ToSet(t)
    <2>1. Len(s) + 1 \in 1 .. Len(s) + 1
      BY <1>1
    <2> QED
      BY <1>1, <2>1 DEF ToSet
  <1> QED
    BY <1>2, <1>3, <1>4 DEF t

\* The head of the buffer is the only frame of its number.
LEMMA TailSet ==
    ASSUME NEW got, NEW buf, Ranked(got, buf), buf # <<>>
    PROVE  Head(buf) \in ToSet(buf) /\ ToSet(Tail(buf)) = ToSet(buf) \ {Head(buf)}
  <1> DEFINE t == Tail(buf)
             h == Head(buf)
             l == Len(buf)
             g == Len(got)
  <1>1. /\ l \in Nat \ {0} /\ g \in Nat /\ DOMAIN buf = 1 .. l
        /\ \A i \in 1 .. l : buf[i] = g + i
        /\ h = buf[1] /\ DOMAIN t = 1 .. l - 1
        /\ \A i \in 1 .. l - 1 : t[i] = buf[i + 1]
    BY DEF Ranked
  <1> HIDE DEF t, h, l, g
  <1>2. h \in ToSet(buf)
    <2>1. 1 \in 1 .. l
      BY <1>1
    <2> QED
      BY <1>1, <2>1 DEF ToSet
  <1>3. ASSUME NEW y \in ToSet(t) PROVE y \in ToSet(buf) /\ y # h
    <2>1. PICK i \in 1 .. l - 1 : y = t[i]
      BY <1>1 DEF ToSet
    <2>2. i + 1 \in 1 .. l /\ i >= 1
      BY <1>1, <2>1
    <2>3. y = buf[i + 1] /\ y = g + (i + 1)
      BY <1>1, <2>1, <2>2
    <2>4. 1 \in 1 .. l
      BY <1>1
    <2>5. h = g + 1
      BY <1>1, <2>4
    <2>6. y \in ToSet(buf)
      BY <1>1, <2>2, <2>3 DEF ToSet
    <2>7. y # h
      BY <1>1, <2>2, <2>3, <2>5
    <2> QED
      BY <2>6, <2>7
  <1>4. ASSUME NEW y \in ToSet(buf), y # h PROVE y \in ToSet(t)
    <2>1. PICK i \in 1 .. l : y = buf[i]
      BY <1>1 DEF ToSet
    <2>2. i - 1 \in 1 .. l - 1 /\ t[i - 1] = y
      <3>1. i # 1
        BY <1>1, <1>4, <2>1
      <3>2. i - 1 \in 1 .. l - 1 /\ (i - 1) + 1 = i
        BY <1>1, <3>1
      <3> QED
        BY <1>1, <2>1, <3>2
    <2> QED
      BY <1>1, <2>2 DEF ToSet
  <1> QED
    BY <1>2, <1>3, <1>4 DEF t, h

\* What the buffer stands for.
LEMMA PaidBuffer ==
    ASSUME NEW m, Paid(m), Ordered(m), m.ph \in Accounted
    PROVE  /\ BufferedBytes(m) \in Nat
           /\ SumFunctionOnSet(m.body, DOMAIN m.body) \in Nat
           /\ BufferedBytes(m) <= SumFunctionOnSet(m.body, DOMAIN m.body)
  <1>1. m.body \in Seq(Nat) /\ ToSet(m.buf) \subseteq 1 .. Len(m.body)
    BY BufferIsBody DEF Paid
  <1> QED
    BY <1>1, BufferSums

LEMMA LeavingPaid ==
    ASSUME NEW m, Paid(m), NEW why
    PROVE  Paid(Leaving(m, why))
  <1> DEFINE n == Leaving(m, why)
  <1>1. SameMoney(n, m) /\ n.ph = "stopping"
    BY DEF Leaving, SameMoney, Paid, MoneyFields
  <1> HIDE DEF n
  <1>2. n.ph \notin Accounted /\ n.ph \notin Undeclared
    BY <1>1 DEF Accounted, Undeclared, Entering, Queueing, Serving
  <1>3. Paid(n)
    BY <1>1, <1>2, PhaseKeepsPaid
  <1> QED
    BY <1>3 DEF n

\* The frame in hand is reserved and kept.
LEMMA BufferedPaid ==
    ASSUME NEW c, Paid(mw[c]), Ordered(mw[c]), mw[c].ph \in {"buffering", "admitting"}
    PROVE  LET b == Buffered(c, mw[c]) IN Paid(b) /\ b.ph = mw[c].ph
  <1> DEFINE m == mw[c]
             b == Buffered(c, m)
             s == Size(c, m.msg)
             T == ToSet(m.buf)
             f == m.body
  <1>1. /\ MoneyFields \subseteq DOMAIN b /\ b.ph = m.ph /\ b.body = f /\ b.next = m.next
        /\ b.buf = Append(m.buf, m.msg) /\ b.pend = m.pend + s /\ b.lease = m.lease
        /\ b.pre = m.pre /\ b.credit = m.credit /\ b.used = m.used
    BY DEF Buffered, MoneyFields, Paid
  <1>2. InHand(m) /\ m.ph \in Accounted /\ m.ph \in Undeclared
    BY DEF InHand, Accounted, Undeclared, Queueing
  <1>3. /\ m.buf \in Seq(Nat) /\ T \subseteq 1 .. Len(f)
        /\ m.msg \in 1 .. Len(f) /\ m.msg \notin T
    BY <1>2, BufferIsBody
  <1>4. f \in Seq(Nat)
    BY DEF Paid
  <1>5. s \in Nat /\ s = f[m.msg]
    BY <1>3, <1>4 DEF Size
  <1>6. IsFiniteSet(T) /\ \A x \in T : f[x] \in Nat
    BY <1>3, <1>4, BufferSums
  <1>7. BufferedBytes(m) \in Nat
    BY <1>3, <1>4, BufferSums
  <1>8. ToSet(Append(m.buf, m.msg)) = T \cup {m.msg}
    <2>1. m.msg \in Nat
      BY <1>3
    <2> QED
      BY <1>3, <2>1, AppendedSet
  <1>9. SumFunctionOnSet(f, T \cup {m.msg}) = SumFunctionOnSet(f, T) + s
    <2>1. f[m.msg] \in Nat
      BY <1>5
    <2> DEFINE e == m.msg
    <2>2. e \notin T /\ f[e] \in Nat /\ s = f[e]
      BY <1>3, <1>5
    <2> HIDE DEF T, f, s, m, e
    <2>3. SumFunctionOnSet(f, T \cup {e}) = SumFunctionOnSet(f, T) + f[e]
      BY <1>6, <2>2, SumAdds
    <2> QED
      BY <2>2, <2>3 DEF e
  <1>10. BufferedBytes(b) = BufferedBytes(m) + s
    BY <1>1, <1>8, <1>9 DEF BufferedBytes
  <1>p. Paid(m)
    OBVIOUS
  <1> HIDE DEF b, s, m, f
  <1>11. Paid(b)
    <2>1. /\ b.body \in Seq(Nat) /\ b.next \in 1 .. Len(b.body) + 1
          /\ b.lease \in Nat /\ b.pre \in Nat /\ b.credit \in Nat /\ b.used \in Nat
      BY <1>1, <1>p DEF Paid, f
    <2>2. m.pend \in Nat /\ b.pend \in Nat
      <3>1. m.pend \in Nat /\ s \in Nat
        BY <1>5, <1>p DEF Paid
      <3>2. b.pend = m.pend + s
        BY <1>1
      <3> QED
        BY ONLY <3>1, <3>2
    <2>3. m.pend + m.lease = BufferedBytes(m) + m.pre + m.credit + m.used
      BY <1>2, <1>p DEF Paid
    <2>4. b.pend + b.lease = BufferedBytes(b) + b.pre + b.credit + b.used
      <3> DEFINE B == BufferedBytes(m)
                 L == m.lease
                 R == m.pre
                 C == m.credit
                 U == m.used
                 P == m.pend
      <3>1. /\ b.lease = L /\ b.pre = R /\ b.credit = C /\ b.used = U /\ b.pend = P + s
            /\ BufferedBytes(b) = B + s
        BY <1>1, <1>10
      <3>2. B \in Nat /\ L \in Nat /\ R \in Nat /\ C \in Nat /\ U \in Nat /\ P \in Nat /\ s \in Nat
        BY <1>5, <1>7, <2>1, <2>2, <3>1
      <3>3. P + L = B + R + C + U
        BY <2>3
      <3> HIDE DEF B, L, R, C, U, P
      <3>4. P + s + L = B + s + R + C + U
        BY <3>2, <3>3
      <3> QED
        BY <3>1, <3>4
    <2>5. b.pre = 0 /\ b.credit = 0 /\ b.used = 0
      BY <1>1, <1>2, <1>p DEF Paid
    <2> QED
      BY <1>1, <2>1, <2>2, <2>4, <2>5 DEF Paid
  <1> QED
    BY <1>1, <1>11 DEF b, m

\* The pending bytes are the lease's from now on.
LEMMA TransferPaid ==
    ASSUME NEW c, NEW m, Paid(m), m.ph \in Queueing
    PROVE  Paid(Transferred(c, m))
  <1> DEFINE t == [m EXCEPT !.lease = @ + m.pend, !.pend = 0]
             n == [t EXCEPT !.msg = IF m.rx = "done" THEN @ ELSE 0,
                            !.ph = IF m.obs = "none" THEN "declaring" ELSE "unobserving"]
  <1>1. /\ MoneyFields \subseteq DOMAIN t /\ t.ph = m.ph /\ t.body = m.body /\ t.next = m.next
        /\ t.buf = m.buf /\ t.pend = 0 /\ t.lease = m.lease + m.pend
        /\ t.pre = m.pre /\ t.credit = m.credit /\ t.used = m.used
    BY DEF MoneyFields, Paid
  <1> HIDE DEF t
  <1>2. BufferedBytes(t) = BufferedBytes(m)
    BY <1>1 DEF BufferedBytes
  <1>3. Paid(t)
    BY <1>1, <1>2 DEF Paid
  <1>4. SameMoney(n, t) /\ n.ph \in {"declaring", "unobserving"}
    BY <1>1 DEF SameMoney, MoneyFields
  <1> HIDE DEF n
  <1>5. t.ph \in Accounted /\ t.ph \in Undeclared
    BY <1>1 DEF Accounted, Undeclared
  <1>6. Paid(n)
    BY <1>3, <1>4, <1>5, PhaseKeepsPaid
  <1>7. Paid(Leaving(t, "gone"))
    BY <1>3, LeavingPaid
  <1> QED
    BY <1>6, <1>7 DEF Transferred, t, n

\* A step that moves no byte.
LEMMA MovesNothing ==
    ASSUME NEW c, Paid(mw[c]), NEW n, Become(c, n), SameMoney(n, mw[c]),
           n.ph \in Accounted => mw[c].ph \in Accounted,
           n.ph \in Undeclared => mw[c].ph \in Undeclared
    PROVE  StaysPaid(c)
  BY PhaseKeepsPaid DEF StaysPaid


\* A phase in which the bytes are no longer accounted for.
LEMMA LeavesAccounts ==
    ASSUME NEW p, p \in Answering \cup Ended \cup {"stopping"}
    PROVE  p \notin Accounted /\ p \notin Undeclared
  BY DEF Answering, Ended, Accounted, Undeclared, Entering, Queueing, Serving

LEMMA QueuePaid ==
    ASSUME RequestsPaid, RequestsFit, NEW c \in Requests, QueueStep(c)
    PROVE  StaysPaid(c)
  <1> DEFINE m == mw[c]
  <1>0. Paid(mw[c]) /\ Fits(mw[c], pc[c])
    BY DEF RequestsPaid, RequestsFit
  <1>f. Ordered(mw[c]) /\ OwnedWhenUsed(mw[c], pc[c])
    BY <1>0, FitsFacts
  <1>d. MoneyFields \subseteq DOMAIN m
    BY <1>0 DEF Paid
  <1>1. CASE Begun(c)
    <2> DEFINE k == [m EXCEPT !.ph = "queued"]
               n == [m EXCEPT !.ph = "queued", !.rx = "pending", !.obs = "waiting"]
    <2>1. (Become(c, k) \/ Become(c, n)) /\ m.ph = "beginning"
      BY <1>1 DEF Begun, At
    <2>2. SameMoney(k, m) /\ k.ph = "queued" /\ SameMoney(n, m) /\ n.ph = "queued"
      BY <1>d DEF SameMoney, MoneyFields
    <2> HIDE DEF k, n
    <2>3. m.ph \in Accounted /\ m.ph \in Undeclared
      BY <2>1 DEF Accounted, Undeclared, Entering
    <2> QED
      BY <1>0, <2>1, <2>2, <2>3, MovesNothing
  <1>2. CASE DisconnectWins(c) \/ TimedOut(c) \/ BufferRefused(c)
    <2>1. PICK why : Become(c, Leaving(m, why))
      BY <1>2 DEF DisconnectWins, TimedOut, BufferRefused
    <2> QED
      BY <1>0, <2>1, LeavingPaid DEF StaysPaid
  <1>3. CASE Granted(c)
    <2> DEFINE k == [m EXCEPT !.rx = "none"]
               n == [m EXCEPT !.rx = "none", !.ph = "admitting"]
    <2>1. m.ph = "queued"
      BY <1>3 DEF Granted, At
    <2>2. \/ Become(c, Transferred(c, m))
          \/ Become(c, Leaving(k, "gone"))
          \/ Become(c, n)
      BY <1>3 DEF Granted
    <2>3. SameMoney(k, m) /\ k.ph = m.ph /\ SameMoney(n, m) /\ n.ph = "admitting"
      BY <1>d DEF SameMoney, MoneyFields
    <2> HIDE DEF k, n
    <2>4. m.ph \in Accounted /\ m.ph \in Undeclared /\ m.ph \in Queueing
      BY <2>1 DEF Accounted, Undeclared, Queueing
    <2>5. Paid(k) /\ Paid(n)
      BY <1>0, <2>3, <2>4, PhaseKeepsPaid
    <2>6. Paid(Leaving(k, "gone"))
      BY <2>5, LeavingPaid
    <2>7. Paid(Transferred(c, m))
      BY <1>0, <2>4, TransferPaid
    <2> QED
      BY <2>2, <2>5, <2>6, <2>7 DEF StaysPaid
  <1>4. CASE Received(c)
    <2> DEFINE k == [m EXCEPT !.rx = "none"]
               n == [k EXCEPT !.ph = "buffering"]
    <2>1. m.ph = "queued" /\ (Become(c, Leaving(k, "gone")) \/ Become(c, n))
      BY <1>4 DEF Received, At
    <2>2. SameMoney(k, m) /\ k.ph = m.ph /\ SameMoney(n, m) /\ n.ph = "buffering"
      BY <1>d DEF SameMoney, MoneyFields
    <2> HIDE DEF k, n
    <2>3. m.ph \in Accounted /\ m.ph \in Undeclared
      BY <2>1 DEF Accounted, Undeclared, Queueing
    <2>4. Paid(k) /\ Paid(n)
      BY <1>0, <2>2, <2>3, PhaseKeepsPaid
    <2>5. Paid(Leaving(k, "gone"))
      BY <2>4, LeavingPaid
    <2> QED
      BY <2>1, <2>4, <2>5 DEF StaysPaid
  <1>5. CASE Buffer(c)
    <2> DEFINE b == Buffered(c, m)
               r == IF m.msg # Len(mw[c].body) /\ Len(b.buf) >= HighWater THEN "none" ELSE "pending"
               n == [b EXCEPT !.ph = "queued", !.msg = 0, !.rx = r]
    <2>1. m.ph = "buffering"
      BY <1>5 DEF Buffer, At
    <2>2. Paid(b) /\ b.ph = m.ph
      BY <1>0, <1>f, <2>1, BufferedPaid
    <2>3. Become(c, n)
      <3>1. b.msg = m.msg
        BY DEF Buffered
      <3> QED
        BY <1>5, <3>1 DEF Buffer
    <2> HIDE DEF b
    <2>4. SameMoney(n, b) /\ n.ph = "queued"
      BY <2>2 DEF SameMoney, MoneyFields, Paid
    <2> HIDE DEF n
    <2>5. b.ph \in Accounted /\ b.ph \in Undeclared
      BY <2>1, <2>2 DEF Accounted, Undeclared, Queueing
    <2>6. Paid(n)
      BY <2>2, <2>4, <2>5, PhaseKeepsPaid
    <2> QED
      BY <2>3, <2>6 DEF StaysPaid
  <1>6. CASE BufferAdmitted(c)
    <2> DEFINE b == Buffered(c, m)
    <2>1. m.ph = "admitting" /\ Become(c, Transferred(c, b))
      BY <1>6 DEF BufferAdmitted, At
    <2>2. Paid(b) /\ b.ph = m.ph
      BY <1>0, <1>f, <2>1, BufferedPaid
    <2> HIDE DEF b
    <2>3. b.ph \in Queueing
      BY <2>1, <2>2 DEF Queueing
    <2>4. Paid(Transferred(c, b))
      BY <2>2, <2>3, TransferPaid
    <2> QED
      BY <2>1, <2>4 DEF StaysPaid
  <1>7. CASE Unobserved(c)
    <2> DEFINE k == [m EXCEPT !.obs = "none"]
               n == [k EXCEPT !.ph = "declaring"]
    <2>1. m.ph = "unobserving" /\ (Become(c, Leaving(k, "gone")) \/ Become(c, n))
      BY <1>7 DEF Unobserved, At
    <2>2. SameMoney(k, m) /\ k.ph = m.ph /\ SameMoney(n, m) /\ n.ph = "declaring"
      BY <1>d DEF SameMoney, MoneyFields
    <2> HIDE DEF k, n
    <2>3. m.ph \in Accounted /\ m.ph \in Undeclared
      BY <2>1 DEF Accounted, Undeclared, Queueing
    <2>4. Paid(k) /\ Paid(n)
      BY <1>0, <2>2, <2>3, PhaseKeepsPaid
    <2>5. Paid(Leaving(k, "gone"))
      BY <2>4, LeavingPaid
    <2> QED
      BY <2>1, <2>4, <2>5 DEF StaysPaid
  <1>8. CASE Stop(c)
    <2> DEFINE n == [m EXCEPT !.ph = "stopped", !.rx = "none", !.obs = "none",
                              !.lease = IF pc[c] = "holding" THEN 0 ELSE @]
    <2>1. Become(c, n)
      BY <1>8 DEF Stop, Become
    <2>2. /\ MoneyFields \subseteq DOMAIN n /\ n.ph = "stopped" /\ n.body = m.body
          /\ n.next = m.next /\ n.pend = m.pend /\ n.lease \in {0, m.lease}
          /\ n.pre = m.pre /\ n.credit = m.credit /\ n.used = m.used
      BY <1>d DEF MoneyFields
    <2> HIDE DEF n
    <2>3. n.ph \notin Accounted /\ n.ph \notin Undeclared
      BY <2>2, LeavesAccounts DEF Ended
    <2>4. Paid(n)
      BY <1>0, <2>2, <2>3 DEF Paid
    <2> QED
      BY <2>1, <2>4 DEF StaysPaid
  <1>9. CASE Stopped(c)
    <2> DEFINE n == [Fresh EXCEPT !.ph = IF m.why = "rejected" THEN "rejecting" ELSE "over",
                                  !.rx = m.rx, !.obs = m.obs, !.lease = m.lease]
    <2>1. Become(c, n)
      BY <1>9 DEF Stopped
    <2>2. /\ MoneyFields \subseteq DOMAIN n /\ n.ph \in {"rejecting", "over"} /\ n.body = <<>>
          /\ n.next = 1 /\ n.pend = 0 /\ n.lease = m.lease /\ n.pre = 0 /\ n.credit = 0 /\ n.used = 0
      BY DEF MoneyFields, Fresh
    <2> HIDE DEF n
    <2>3. n.ph \notin Accounted /\ n.ph \notin Undeclared
      BY <2>2, LeavesAccounts DEF Ended, Answering
    <2>4. n.body \in Seq(Nat) /\ n.next \in 1 .. Len(n.body) + 1
      BY <2>2
    <2>5. Paid(n)
      BY <1>0, <2>2, <2>3, <2>4 DEF Paid
    <2> QED
      BY <2>1, <2>5 DEF StaysPaid
  <1> QED
    BY <1>1, <1>2, <1>3, <1>4, <1>5, <1>6, <1>7, <1>8, <1>9 DEF QueueStep

LEMMA TimesAtLeast ==
    ASSUME NEW w \in Nat, NEW k \in Nat \ {0}
    PROVE  w * k \in Nat /\ w <= w * k
  <1>1. k - 1 \in Nat /\ w * k = w + w * (k - 1) /\ w * (k - 1) \in Nat
    OBVIOUS
  <1> QED
    BY <1>1

\* The declared body is reserved: what the buffer has of it, the credit for the wire and the
\* credit for the application are the lease.
LEMMA DeclarePaid ==
    ASSUME NEW c \in Requests, Paid(mw[c]), Ordered(mw[c]), mw[c].pend = 0, Declare(c)
    PROVE  StaysPaid(c)
  <1> DEFINE m == mw[c]
             k == [m EXCEPT !.ph = "serving"]
             n == [k EXCEPT !.lease = Most(@, Target(c)),
                            !.pre = Most(0, Wire(c) - k.lease),
                            !.credit = Target(c) - Wire(c)]
             B == BufferedBytes(m)
             L == m.lease
             W == Wire(c)
             T == Target(c)
  <1>0. Paid(m)
    OBVIOUS
  <1>1. (Become(c, k) \/ Become(c, n)) /\ m.ph = "declaring"
    BY DEF Declare, At
  <1>2. /\ SameMoney(k, m) /\ k.ph = "serving"
        /\ MoneyFields \subseteq DOMAIN n /\ n.ph = "serving" /\ n.body = m.body
        /\ n.next = m.next /\ n.buf = m.buf /\ n.pend = m.pend
        /\ n.lease = Most(L, T) /\ n.pre = Most(0, W - L) /\ n.credit = T - W /\ n.used = m.used
    BY <1>0 DEF SameMoney, MoneyFields, Paid
  <1>3. m.ph \in Accounted /\ m.ph \in Undeclared
    BY <1>1 DEF Accounted, Undeclared, Serving
  <1>4. "serving" \in Accounted /\ "serving" \notin Undeclared
    BY DEF Accounted, Undeclared, Entering, Queueing, Serving
  <1>5. Paid(k)
    <2> HIDE DEF m, k, n
    <2> QED
      BY <1>0, <1>2, <1>3, <1>4, PhaseKeepsPaid
  <1>6. B \in Nat /\ W \in Nat /\ B <= W
    BY <1>3, PaidBuffer DEF Wire
  <1>7. T \in Nat /\ W <= T
    <2>1. Multiplier \in Nat \ {0} /\ T = W * Multiplier
      BY QueuedAssumption DEF Target
    <2> HIDE DEF T, W
    <2> QED
      BY <1>6, <2>1, TimesAtLeast
  <1>8. L = B /\ m.pre = 0 /\ m.credit = 0 /\ m.used = 0 /\ m.pend = 0
    <2>1. m.pre = 0 /\ m.credit = 0 /\ m.used = 0 /\ m.pend = 0 /\ L \in Nat
      BY <1>0, <1>3 DEF Paid
    <2>2. m.pend + L = B + m.pre + m.credit + m.used
      BY <1>0, <1>3 DEF Paid
    <2> HIDE DEF B, L, m
    <2> QED
      BY <1>6, <2>1, <2>2
  <1>9. BufferedBytes(n) = B
    BY <1>2 DEF BufferedBytes
  <1>10. /\ n.lease = T /\ n.pre = W - B /\ n.credit = T - W /\ n.used = 0 /\ n.pend = 0
    <2> HIDE DEF B, L, W, T, m, n
    <2> QED
      BY <1>2, <1>6, <1>7, <1>8 DEF Most
  <1>11. Paid(n)
    <2>1. n.body \in Seq(Nat) /\ n.next \in 1 .. Len(n.body) + 1
      BY <1>0, <1>2 DEF Paid
    <2> HIDE DEF B, L, W, T, m, n
    <2>2. /\ n.pend \in Nat /\ n.lease \in Nat /\ n.pre \in Nat /\ n.credit \in Nat /\ n.used \in Nat
      BY <1>6, <1>7, <1>10
    <2>3. n.pend + n.lease = BufferedBytes(n) + n.pre + n.credit + n.used
      BY <1>6, <1>7, <1>9, <1>10
    <2> QED
      BY <1>2, <1>4, <2>1, <2>2, <2>3 DEF Paid
  <1> QED
    BY <1>1, <1>5, <1>11 DEF StaysPaid

\* The head of the buffer becomes credit.
LEMMA ReplayPaid ==
    ASSUME NEW c \in Requests, Paid(mw[c]), Ordered(mw[c]), Replay(c)
    PROVE  StaysPaid(c)
  <1> DEFINE m == mw[c]
             h == Head(m.buf)
             s == Size(c, h)
             n == [m EXCEPT !.buf = Tail(@), !.got = Append(@, h), !.credit = @ + s]
             T == ToSet(m.buf)
             f == m.body
             B == BufferedBytes(m)
  <1>0. Paid(m)
    OBVIOUS
  <1>1. Become(c, n) /\ m.ph = "serving" /\ m.buf # <<>>
    BY DEF Replay, At, Become
  <1>2. /\ MoneyFields \subseteq DOMAIN n /\ n.ph = "serving" /\ n.body = f
        /\ n.next = m.next /\ n.buf = Tail(m.buf) /\ n.pend = m.pend
        /\ n.lease = m.lease /\ n.pre = m.pre /\ n.credit = m.credit + s /\ n.used = m.used
    BY <1>0, <1>1 DEF MoneyFields, Paid
  <1>3. m.ph \in Accounted /\ "serving" \in Accounted /\ "serving" \notin Undeclared
    BY <1>1 DEF Accounted, Undeclared, Entering, Queueing, Serving
  <1>4. T \subseteq 1 .. Len(f) /\ f \in Seq(Nat)
    BY <1>3, BufferIsBody DEF Paid
  <1>5. IsFiniteSet(T) /\ (\A x \in T : f[x] \in Nat) /\ B \in Nat
    BY <1>4, BufferSums
  <1>6. h \in T /\ ToSet(Tail(m.buf)) = T \ {h}
    <2>1. Ranked(m.got, m.buf)
      BY <1>1 DEF Ordered, Serving
    <2> QED
      BY <1>1, <2>1, TailSet
  <1>7. s = f[h] /\ s \in Nat
    BY <1>5, <1>6 DEF Size
  <1>8. SumFunctionOnSet(f, T) = f[h] + SumFunctionOnSet(f, T \ {h}) /\ SumFunctionOnSet(f, T \ {h}) \in Nat
    <2> HIDE DEF T, f, h, m
    <2> QED
      BY <1>5, <1>6, SumSplit
  <1>9. B = s + BufferedBytes(n) /\ BufferedBytes(n) \in Nat
    BY <1>2, <1>6, <1>7, <1>8 DEF BufferedBytes
  <1>10. Paid(n)
    <2>1. n.body \in Seq(Nat) /\ n.next \in 1 .. Len(n.body) + 1
      BY <1>0, <1>2 DEF Paid
    <2>2. /\ m.pend \in Nat /\ m.lease \in Nat /\ m.pre \in Nat /\ m.credit \in Nat /\ m.used \in Nat
          /\ m.pend + m.lease = B + m.pre + m.credit + m.used
      BY <1>0, <1>3 DEF Paid
    <2> HIDE DEF B, s, m, n
    <2>3. n.credit \in Nat
      BY <1>2, <1>7, <2>2
    <2>4. n.pend + n.lease = BufferedBytes(n) + n.pre + n.credit + n.used
      BY <1>2, <1>5, <1>7, <1>9, <2>2
    <2> QED
      BY <1>2, <1>3, <2>1, <2>2, <2>3, <2>4 DEF Paid
  <1> QED
    BY <1>1, <1>10 DEF StaysPaid

\* The bytes of a request that is being served: any step that keeps the sum.
LEMMA ServedPaid ==
    ASSUME NEW m, Paid(m), m.ph \in Serving, m.pend = 0, BufferedBytes(m) \in Nat,
           NEW n, MoneyFields \subseteq DOMAIN n, n.ph = "serving", n.body = m.body,
           n.next = m.next, n.buf = m.buf, n.pend = m.pend,
           n.pre \in Nat, n.credit \in Nat, n.used \in Nat,
           n.lease - m.lease = (n.pre - m.pre) + (n.credit - m.credit) + (n.used - m.used),
           n.lease \in Int
    PROVE  Paid(n)
  <1> DEFINE B == BufferedBytes(m)
  <1>1. n.body \in Seq(Nat) /\ n.next \in 1 .. Len(n.body) + 1
    BY DEF Paid
  <1>2. /\ m.lease \in Nat /\ m.pre \in Nat /\ m.credit \in Nat /\ m.used \in Nat
        /\ m.pend + m.lease = B + m.pre + m.credit + m.used
    BY DEF Paid, Accounted
  <1>3. BufferedBytes(n) = B
    BY DEF BufferedBytes
  <1> HIDE DEF B
  <1>4. n.lease = B + n.pre + n.credit + n.used /\ n.lease \in Nat
    <2> DEFINE l == m.lease
               r == m.pre
               k == m.credit
               u == m.used
               x == n.lease
               y == n.pre
               z == n.credit
               v == n.used
    <2>1. l \in Nat /\ r \in Nat /\ k \in Nat /\ u \in Nat /\ B \in Nat
      BY <1>2 DEF B
    <2>2. l = B + r + k + u
      <3>1. 0 + l = B + r + k + u
        BY <1>2
      <3> QED
        BY <2>1, <3>1
    <2>3. x \in Int /\ y \in Nat /\ z \in Nat /\ v \in Nat
      OBVIOUS
    <2>4. x - l = (y - r) + (z - k) + (v - u)
      OBVIOUS
    <2> HIDE DEF l, r, k, u, x, y, z, v
    <2>5. x = B + y + z + v /\ x \in Nat
      BY ONLY <2>1, <2>2, <2>3, <2>4
    <2> QED
      BY <2>5 DEF x, y, z, v
  <1>5. n.pend + n.lease = BufferedBytes(n) + n.pre + n.credit + n.used
    BY <1>3, <1>4
  <1>6. "serving" \in Accounted /\ "serving" \notin Undeclared
    BY DEF Accounted, Undeclared, Entering, Queueing, Serving
  <1> QED
    BY <1>1, <1>4, <1>5, <1>6 DEF Paid


\* A frame is paid for from the credit for the wire, then from new bytes; after the last one
\* the credit that is left returns.
LEMMA ChargePaid ==
    ASSUME NEW c \in Requests, Paid(mw[c]), Ordered(mw[c]), mw[c].pend = 0, Charge(c)
    PROVE  StaysPaid(c)
  <1> DEFINE m == mw[c]
             s == Size(c, m.msg)
             r == m.pre
             k == m.credit
             l == m.lease
             left == Most(0, r - s)
             unused == IF m.msg = Len(mw[c].body) THEN left ELSE 0
             n == [m EXCEPT !.ph = "serving", !.lease = @ + Uncovered(c) - unused,
                            !.pre = left - unused, !.credit = @ + s,
                            !.got = Append(@, m.msg), !.msg = 0]
             x == l + Uncovered(c) - unused
             y == left - unused
             z == k + s
  <1>0. Paid(m) /\ m.ph = "charging" /\ Become(c, n)
    BY DEF Charge, At
  <1>1. InHand(m) /\ m.ph \in Serving /\ m.ph \in Accounted
    BY <1>0 DEF InHand, Accounted, Serving
  <1>2. m.msg \in 1 .. Len(m.body)
    BY <1>1, BufferIsBody
  <1>3. s \in Nat
    <2>1. m.body \in Seq(Nat) /\ s = m.body[m.msg]
      BY <1>0 DEF Size, Paid
    <2> HIDE DEF m, s
    <2> QED
      BY <1>2, <2>1
  <1>4. BufferedBytes(m) \in Nat
    BY <1>1, PaidBuffer
  <1>5. r \in Nat /\ k \in Nat /\ l \in Nat /\ m.used \in Nat
    BY <1>0 DEF Paid
  <1>6. unused \in {0, left} /\ Uncovered(c) = Most(0, s - r)
    BY DEF Uncovered
  <1>7. /\ MoneyFields \subseteq DOMAIN n /\ n.ph = "serving" /\ n.body = m.body
        /\ n.next = m.next /\ n.buf = m.buf /\ n.pend = m.pend
        /\ n.lease = x /\ n.pre = y /\ n.credit = z /\ n.used = m.used
    BY <1>0 DEF MoneyFields, Paid
  <1>8. y \in Nat /\ z \in Nat /\ x \in Int /\ x - l = (y - r) + (z - k) + 0
    <2> DEFINE e == unused
               v == Uncovered(c)
    <2>1. e \in {0, left} /\ v = Most(0, s - r)
      BY <1>6
    <2> HIDE DEF s, r, k, l, e, v
    <2> QED
      BY <1>3, <1>5, <2>1 DEF Most, e, v
  <1> HIDE DEF left, unused, n, x, y, z, r, k, l
  <1>9. /\ n.lease \in Int /\ n.pre \in Nat /\ n.credit \in Nat /\ n.used \in Nat
        /\ n.used - m.used = 0
    BY <1>5, <1>7, <1>8
  <1>10. n.lease - m.lease = (n.pre - m.pre) + (n.credit - m.credit) + (n.used - m.used)
    <2>1. n.lease - l = (n.pre - r) + (n.credit - k) + 0
      BY <1>7, <1>8
    <2>2. n.used - m.used = 0
      BY <1>9
    <2> QED
      BY <2>1, <2>2 DEF l, r, k
  <1>11. Paid(n)
    <2>1. m.pend = 0
      OBVIOUS
    <2> HIDE DEF m
    <2> QED
      BY <1>0, <1>1, <1>4, <1>7, <1>9, <1>10, <2>1, ServedPaid
  <1> QED
    BY <1>0, <1>11 DEF StaysPaid

\* The application charges bytes, credit first, and returns them.
LEMMA UsePaid ==
    ASSUME NEW c \in Requests, Paid(mw[c]), Ordered(mw[c]), mw[c].pend = 0,
           NEW j \in 1 .. MaxUse, Use(c, j) \/ Return(c, j)
    PROVE  StaysPaid(c)
  <1> DEFINE m == mw[c]
             k == m.credit
             l == m.lease
             o == m.used
             x == Least(j, k)
             u == [m EXCEPT !.credit = @ - x, !.lease = @ + j - x, !.used = @ + j]
             r == [m EXCEPT !.lease = @ - j, !.used = @ - j]
  <1>0. /\ Paid(m) /\ m.ph = "serving"
        /\ Become(c, u) \/ (j <= o /\ Become(c, r))
    BY DEF Use, Return, At, Become
  <1>1. m.ph \in Serving /\ m.ph \in Accounted
    BY <1>0 DEF Accounted, Serving
  <1>2. BufferedBytes(m) \in Nat
    BY <1>1, PaidBuffer
  <1>3. k \in Nat /\ l \in Nat /\ o \in Nat /\ m.pre \in Nat /\ j \in Nat
    BY <1>0, QueuedAssumption DEF Paid
  <1>4. /\ k - x \in Nat /\ l + j - x \in Int /\ o + j \in Nat
        /\ (l + j - x) - l = 0 + ((k - x) - k) + ((o + j) - o)
        /\ l - j \in Int /\ (l - j) - l = 0 + (k - k) + ((o - j) - o)
        /\ j <= o => o - j \in Nat
    <2>1. x = Least(j, k)
      OBVIOUS
    <2> HIDE DEF k, l, o, x
    <2>2. x \in Nat /\ x <= k
      BY <1>3, <2>1 DEF Least
    <2> QED
      BY <1>3, <2>2
  <1> HIDE DEF x
  <1>5. /\ MoneyFields \subseteq DOMAIN u /\ u.ph = "serving" /\ u.body = m.body
        /\ u.next = m.next /\ u.buf = m.buf /\ u.pend = m.pend
        /\ u.lease = l + j - x /\ u.pre = m.pre /\ u.credit = k - x /\ u.used = o + j
    BY <1>0 DEF MoneyFields, Paid
  <1>6. /\ MoneyFields \subseteq DOMAIN r /\ r.ph = "serving" /\ r.body = m.body
        /\ r.next = m.next /\ r.buf = m.buf /\ r.pend = m.pend
        /\ r.lease = l - j /\ r.pre = m.pre /\ r.credit = k /\ r.used = o - j
    BY <1>0 DEF MoneyFields, Paid
  <1> HIDE DEF u, r
  <1>7. m.pre - m.pre = 0 /\ m.pend = 0
    BY <1>3
  <1>8. Paid(u)
    <2>1. u.lease \in Int /\ u.pre \in Nat /\ u.credit \in Nat /\ u.used \in Nat
      BY <1>3, <1>4, <1>5
    <2>2. u.lease - m.lease = (u.pre - m.pre) + (u.credit - m.credit) + (u.used - m.used)
      BY <1>4, <1>5, <1>7
    <2> HIDE DEF m
    <2> QED
      BY <1>0, <1>1, <1>2, <1>5, <1>7, <2>1, <2>2, ServedPaid
  <1>9. ASSUME j <= o PROVE Paid(r)
    <2>1. r.lease \in Int /\ r.pre \in Nat /\ r.credit \in Nat /\ r.used \in Nat
      BY <1>3, <1>4, <1>6, <1>9
    <2>2. r.lease - m.lease = (r.pre - m.pre) + (r.credit - m.credit) + (r.used - m.used)
      BY <1>4, <1>6, <1>7
    <2> HIDE DEF m
    <2> QED
      BY <1>0, <1>1, <1>2, <1>6, <1>7, <2>1, <2>2, ServedPaid
  <1> QED
    BY <1>0, <1>8, <1>9 DEF StaysPaid

LEMMA ServePaid ==
    ASSUME RequestsPaid, RequestsFit, NEW c \in Requests, ServeStep(c)
    PROVE  StaysPaid(c)
  <1> DEFINE m == mw[c]
  <1>0. Paid(mw[c]) /\ Fits(mw[c], pc[c])
    BY DEF RequestsPaid, RequestsFit
  <1>f. Ordered(mw[c]) /\ OwnedWhenUsed(mw[c], pc[c]) /\ PhaseAllows(mw[c].ph, pc[c])
    BY <1>0, FitsFacts
  <1>d. MoneyFields \subseteq DOMAIN m
    BY <1>0 DEF Paid
  <1>p. m.ph \in Serving => m.pend = 0
    BY <1>f DEF OwnedWhenUsed, PhaseAllows
  <1>1. CASE Declare(c)
    <2>1. m.pend = 0
      BY <1>1, <1>p DEF Declare, At, Serving
    <2> QED
      BY <1>0, <1>1, <1>f, <2>1, DeclarePaid
  <1>2. CASE Replay(c)
    BY <1>0, <1>2, <1>f, ReplayPaid
  <1>3. CASE AppReceives(c)
    <2> DEFINE n == [m EXCEPT !.rx = "pending"]
    <2>1. Become(c, n)
      BY <1>3 DEF AppReceives, Become
    <2>2. SameMoney(n, m) /\ n.ph = m.ph
      BY <1>d DEF SameMoney, MoneyFields
    <2> HIDE DEF n
    <2> QED
      BY <1>0, <2>1, <2>2, MovesNothing
  <1>4. CASE AppTakes(c)
    <2> DEFINE n == [m EXCEPT !.rx = "none", !.ph = IF m.msg = 0 THEN "leaving" ELSE "charging"]
    <2>1. Become(c, n) /\ m.ph = "serving"
      BY <1>4 DEF AppTakes, At, Become
    <2>2. SameMoney(n, m) /\ n.ph \in {"leaving", "charging"}
      BY <1>d DEF SameMoney, MoneyFields
    <2> HIDE DEF n
    <2>3. m.ph \in Accounted /\ n.ph \notin Undeclared
      BY <2>1, <2>2 DEF Accounted, Undeclared, Entering, Queueing, Serving
    <2> QED
      BY <1>0, <2>1, <2>2, <2>3, MovesNothing
  <1>5. CASE Charge(c)
    <2>1. m.pend = 0
      BY <1>5, <1>p DEF Charge, At, Serving
    <2> QED
      BY <1>0, <1>5, <1>f, <2>1, ChargePaid
  <1>6. CASE Refused(c) \/ Answered(c)
    <2>1. PICK p \in Answering : Enter(c, p)
      BY <1>6 DEF Refused, Answered, Answering
    <2> DEFINE n == [m EXCEPT !.ph = p]
    <2>2. Become(c, n)
      BY <2>1 DEF Enter, Become
    <2>3. SameMoney(n, m) /\ n.ph = p
      BY <1>d DEF SameMoney, MoneyFields
    <2> HIDE DEF n
    <2>4. n.ph \notin Accounted /\ n.ph \notin Undeclared
      BY <2>3, LeavesAccounts
    <2> QED
      BY <1>0, <2>2, <2>3, <2>4, MovesNothing
  <1>7. CASE Finish(c)
    <2> DEFINE n == [Fresh EXCEPT !.ph = "stopped", !.why = "done", !.obs = m.obs, !.pend = m.pend,
                                  !.lease = IF pc[c] = "holding" THEN 0 ELSE m.lease]
    <2>1. Become(c, n)
      BY <1>7 DEF Finish
    <2>2. /\ MoneyFields \subseteq DOMAIN n /\ n.ph = "stopped" /\ n.body = <<>>
          /\ n.next = 1 /\ n.pend = m.pend /\ n.lease \in {0, m.lease}
          /\ n.pre = 0 /\ n.credit = 0 /\ n.used = 0
      BY DEF MoneyFields, Fresh
    <2> HIDE DEF n
    <2>3. n.ph \notin Accounted /\ n.ph \notin Undeclared
      BY <2>2, LeavesAccounts DEF Ended
    <2>4. n.body \in Seq(Nat) /\ n.next \in 1 .. Len(n.body) + 1
      BY <2>2
    <2>5. Paid(n)
      BY <1>0, <2>2, <2>3, <2>4 DEF Paid
    <2> QED
      BY <2>1, <2>5 DEF StaysPaid
  <1>8. ASSUME NEW j \in 1 .. MaxUse, Use(c, j) \/ Return(c, j) PROVE StaysPaid(c)
    <2>1. m.pend = 0
      BY <1>8, <1>p DEF Use, Return, At, Serving
    <2> QED
      BY <1>0, <1>8, <1>f, <2>1, UsePaid
  <1> QED
    BY <1>1, <1>2, <1>3, <1>4, <1>5, <1>6, <1>7, <1>8 DEF ServeStep

LEMMA OtherPaid ==
    ASSUME RequestsPaid, RequestsFit, NEW c \in Requests,
           Admit(c) \/ Cancel(c) \/ ReceiveEnds(c) \/ ObserverRuns(c)
    PROVE  StaysPaid(c)
  <1> DEFINE m == mw[c]
  <1>0. Paid(mw[c])
    BY DEF RequestsPaid
  <1>d. MoneyFields \subseteq DOMAIN m
    BY <1>0 DEF Paid
  <1>1. CASE Admit(c)
    <2>1. PICK p \in {"declaring", "beginning", "rejecting"} : Enter(c, p)
      BY <1>1 DEF Admit
    <2> DEFINE n == [m EXCEPT !.ph = p]
    <2>2. m.ph = "new" /\ Become(c, n)
      BY <1>1, <2>1 DEF Admit, At, Enter, Become
    <2>3. SameMoney(n, m) /\ n.ph = p
      BY <1>d DEF SameMoney, MoneyFields
    <2> HIDE DEF n
    <2>4. m.ph \in Accounted /\ m.ph \in Undeclared
      BY <2>2 DEF Accounted, Undeclared, Entering
    <2> QED
      BY <1>0, <2>2, <2>3, <2>4, MovesNothing
  <1>2. CASE Cancel(c)
    <2> DEFINE n == [m EXCEPT !.ph = "leaving"]
    <2>1. Become(c, Leaving(m, "cancelled")) \/ Become(c, n)
      BY <1>2 DEF Cancel, Enter, Become
    <2>2. SameMoney(n, m) /\ n.ph = "leaving"
      BY <1>d DEF SameMoney, MoneyFields
    <2> HIDE DEF n
    <2>3. n.ph \notin Accounted /\ n.ph \notin Undeclared
      BY <2>2, LeavesAccounts DEF Answering
    <2>4. Paid(n)
      BY <1>0, <2>2, <2>3, PhaseKeepsPaid
    <2>5. Paid(Leaving(m, "cancelled"))
      BY <1>0, LeavingPaid
    <2> QED
      BY <2>1, <2>4, <2>5 DEF StaysPaid
  <1>3. CASE ReceiveEnds(c)
    <2> DEFINE k == [m EXCEPT !.rx = "done", !.msg = m.next, !.next = @ + 1]
               n == [m EXCEPT !.rx = "done", !.msg = 0]
    <2>1. (m.next <= Len(m.body) /\ Become(c, k)) \/ Become(c, n)
      BY <1>3 DEF ReceiveEnds, Become
    <2>2. /\ SameMoney(n, m) /\ n.ph = m.ph
          /\ MoneyFields \subseteq DOMAIN k /\ k.ph = m.ph /\ k.body = m.body /\ k.buf = m.buf
          /\ k.next = m.next + 1 /\ k.pend = m.pend /\ k.lease = m.lease
          /\ k.pre = m.pre /\ k.credit = m.credit /\ k.used = m.used
      BY <1>d DEF SameMoney, MoneyFields
    <2> HIDE DEF k, n
    <2>3. Paid(n)
      BY <1>0, <2>2, PhaseKeepsPaid
    <2>4. ASSUME m.next <= Len(m.body) PROVE Paid(k)
      <3>1. k.body \in Seq(Nat) /\ k.next \in 1 .. Len(k.body) + 1
        <4> DEFINE x == m.next
                   w == Len(m.body)
        <4>1. x \in 1 .. w + 1 /\ w \in Nat /\ x <= w /\ m.body \in Seq(Nat)
          BY <1>0, <2>4 DEF Paid
        <4>2. x + 1 \in 1 .. w + 1
          <5> HIDE DEF x, w
          <5> QED
            BY <4>1
        <4> QED
          BY <2>2, <4>1, <4>2
      <3>2. BufferedBytes(k) = BufferedBytes(m)
        BY <2>2 DEF BufferedBytes
      <3> HIDE DEF m
      <3> QED
        BY <1>0, <2>2, <3>1, <3>2 DEF Paid, m
    <2> QED
      BY <2>1, <2>3, <2>4 DEF StaysPaid
  <1>4. CASE ObserverRuns(c)
    <2> DEFINE n == [m EXCEPT !.obs = "done"]
    <2>1. Become(c, n)
      BY <1>4 DEF ObserverRuns, Become
    <2>2. SameMoney(n, m) /\ n.ph = m.ph
      BY <1>d DEF SameMoney, MoneyFields
    <2> HIDE DEF n
    <2> QED
      BY <1>0, <2>1, <2>2, MovesNothing
  <1> QED
    BY <1>1, <1>2, <1>3, <1>4

LEMMA PaidInit == AdmissionInit => RequestsPaid
  <1> SUFFICES ASSUME AdmissionInit, NEW c \in Requests PROVE Paid(mw[c])
    BY DEF RequestsPaid
  <1>1. PICK b \in Bodies : mw[c] = [Fresh EXCEPT !.body = b]
    BY DEF AdmissionInit
  <1> DEFINE n == [Fresh EXCEPT !.body = b]
  <1>2. /\ MoneyFields \subseteq DOMAIN n /\ n.ph = "new" /\ n.body = b /\ n.next = 1
        /\ n.buf = <<>> /\ n.pend = 0 /\ n.lease = 0 /\ n.pre = 0 /\ n.credit = 0 /\ n.used = 0
    BY DEF Fresh, MoneyFields
  <1> HIDE DEF n
  <1>3. b \in Seq(Nat)
    <2>1. PICK l \in 1 .. MaxFrames : b \in [1 .. l -> FrameSizes]
      BY DEF Bodies
    <2>2. l \in Nat /\ FrameSizes \subseteq Nat
      BY QueuedAssumption
    <2>3. \A i \in 1 .. l : b[i] \in Nat
      BY <2>1, <2>2
    <2>4. b = [i \in 1 .. l |-> b[i]]
      BY <2>1
    <2>5. [i \in 1 .. l |-> b[i]] \in Seq(Nat)
      BY <2>2, <2>3
    <2> QED
      BY <2>4, <2>5
  <1>4. n.body \in Seq(Nat) /\ n.next \in 1 .. Len(n.body) + 1
    BY <1>2, <1>3
  <1>5. BufferedBytes(n) = 0
    <2>1. ToSet(n.buf) = {}
      BY <1>2 DEF ToSet
    <2> QED
      BY <2>1, SumOfNothing DEF BufferedBytes
  <1>6. Paid(n)
    BY <1>2, <1>4, <1>5 DEF Paid
  <1> QED
    BY <1>1, <1>6 DEF n

LEMMA PaidStep ==
    ASSUME RequestsPaid, RequestsFit, [AdmissionNext]_all
    PROVE  RequestsPaid'
  <1>0. mw = [c \in Requests |-> mw[c]] /\ \A c \in Requests : Paid(mw[c])
    BY DEF RequestsFit, RequestsPaid
  <1>1. ASSUME NEW c \in Requests, StaysPaid(c) PROVE RequestsPaid'
    <2>1. PICK m : Become(c, m) /\ Paid(m)
      BY <1>1 DEF StaysPaid
    <2>2. mw'[c] = m /\ \A d \in Requests : d # c => mw'[d] = mw[d]
      BY <1>0, <2>1 DEF Become
    <2>3. \A d \in Requests : Paid(mw'[d])
      BY <1>0, <2>1, <2>2
    <2> QED
      BY <2>3 DEF RequestsPaid
  <1>2. ASSUME mw' = mw PROVE RequestsPaid'
    BY <1>0, <1>2 DEF RequestsPaid
  <1>3. ASSUME NEW c \in Requests, RequestStep(c) PROVE RequestsPaid'
    <2>1. CASE QueueStep(c) \/ ServeStep(c) \/ Admit(c) \/ Cancel(c) \/ ReceiveEnds(c) \/ ObserverRuns(c)
      BY <1>1, <2>1, QueuePaid, ServePaid, OtherPaid
    <2>2. CASE ClientLeaves(c) \/ GateRuns(c) \/ WaitTimesOut(c)
      BY <1>2, <2>2 DEF ClientLeaves, GateRuns, WaitTimesOut
    <2> QED
      BY <1>3, <2>1, <2>2 DEF RequestStep
  <1>4. ASSUME UNCHANGED <<gone, mw>> PROVE RequestsPaid'
    BY <1>2, <1>4
  <1>5. CASE UNCHANGED all
    BY <1>2, <1>5 DEF all
  <1> QED
    BY <1>3, <1>4, <1>5 DEF AdmissionNext

LEMMA PaidIsExact == RequestsPaid => CreditExact
  <1> SUFFICES ASSUME RequestsPaid, NEW c \in Requests, mw[c].ph \in Queueing \cup Serving
               PROVE  LET m == mw[c]
                      IN  m.pend + m.lease = Sizes(c, m.buf) + m.pre + m.credit + m.used
    BY DEF CreditExact, Queueing, Serving
  <1>1. Paid(mw[c]) /\ mw[c].ph \in Accounted
    BY DEF RequestsPaid, Accounted
  <1>2. BufferedBytes(mw[c]) = Sizes(c, mw[c].buf)
    BY DEF BufferedBytes, Sizes
  <1> QED
    BY <1>1, <1>2 DEF Paid

\* With any number of requests, bodies and callers, and whatever the bytes of a frame and the
\* weight of a body: when a request is over, however it ended, it keeps no slot, no place in the
\* queue, no bytes, no receive and no observer; while it lasts, its application gets the frames
\* of its body in order and each once; and every byte it has reserved has exactly one use.
THEOREM RequestsAreExact == AdmissionSpec => []RequestExact
  <1>1. AdmissionSpec => [](TypeOK /\ PhaseInv)
    <2>1. GateInv => TypeOK /\ PhaseInv
      BY DEF GateInv
    <2> QED
      BY <2>1, AdmissionUsesGate, GateInvariant, PTL
  <1>2. AdmissionSpec => []RequestsFit
    <2>1. RequestsFit /\ TypeOK /\ [AdmissionNext]_all => RequestsFit'
      BY FitStep
    <2>2. AdmissionSpec => []TypeOK
      BY <1>1, PTL
    <2> QED
      BY <2>1, <2>2, FitInit, PTL DEF AdmissionSpec
  <1>3. RequestsPaid /\ RequestsFit /\ [AdmissionNext]_all => RequestsPaid'
    BY PaidStep
  <1>4. RequestsPaid /\ RequestsFit /\ TypeOK /\ PhaseInv => RequestExact
    BY FitIsWhole, PaidIsExact DEF RequestExact
  <1> QED
    BY <1>1, <1>2, <1>3, <1>4, PaidInit, PTL DEF AdmissionSpec
==============================================================================
