---------------------------- MODULE WaitQueueProofs ----------------------------
(***************************************************************************)
(* Proofs about FairWaitQueue for any finite set of tasks, any tenants and *)
(* any limit.  QueueSound is not inductive by itself: TakeTurn and GiveUp  *)
(* act on a task's word, so the proof needs to know that a task waits      *)
(* exactly while its waiter is queued or granted, in the lane it asked for *)
(* (WaitsAgree).  The queue is sound between any two of the method calls   *)
(* of a step, except that a lane may still have to be promoted: Coherent   *)
(* says so of a queue and of where the tasks stand, and PromoteKeeps that  *)
(* _promote keeps it and serves its lane.                                  *)
(***************************************************************************)
EXTENDS FairWaitQueue, FiniteSetTheorems, SequenceTheorems, WellFoundedInduction, TLAPS

\* A task waits as long as it has a waiter, in the same lane.
WaitsAgree(q, place) ==
    \A w \in Requests : /\ place[w].ph = "waiting" <=> q.wstate[w] # "none"
                        /\ place[w].ph = "waiting" => place[w].lane = q.lane[w]

Coherent(q, place) ==
    /\ q \in Queues /\ place \in Places
    /\ Exact(q) /\ Placed(q) /\ WaitsAgree(q, place) /\ OneTurn(q, place)

\* From q to p no lane but l is left with somebody to promote.
OthersServed(q, p, l) == \A m \in Lanes : m # l /\ Served(q, m) => Served(p, m)

\* p is q with the turn of lane l, or its promotion, switched.
Switched(p, q, l) ==
    \E b \in BOOLEAN : \/ p = [q EXCEPT !.turn[l] = b]
                        \/ p = [q EXCEPT !.enabled[l] = b]

\* p is q with the promotion of lane l on or off.
LaneSet(p, q, l) == \E b \in BOOLEAN : p = [q EXCEPT !.enabled[l] = b]

\* The waiters of p are those of q without w.
Without(p, q, w) ==
    /\ p.wstate[w] = "none"
    /\ \A v \in Requests : v # w => p.wstate[v] = q.wstate[v] /\ p.lane[v] = q.lane[v]

\* What holds of the queue and the tasks between any two steps.
Sound(q, place) ==
    /\ Coherent(q, place)
    /\ \A l \in Lanes : Served(q, l)
    /\ q.count <= QueueLimit

QueueInv == Sound(wq, at)
-----------------------------------------------------------------------------
(* Sequences *)

\* A set of positions has a least one.
LEMMA MinIsLeast ==
    ASSUME NEW S, S \subseteq Nat, S # {}
    PROVE  Min(S) \in S /\ \A y \in S : Min(S) <= y
  <1> DEFINE R == OpToRel(<, Nat)
  <1>1. IsWellFoundedOn(R, Nat)
    BY NatLessThanWellFounded
  <1>2. R = {ss \in Nat \X Nat : ss[1] < ss[2]}
    BY DEF OpToRel
  <1> HIDE DEF R
  <1>3. PICK x \in S : \A y \in S : ~ (<<y, x>> \in R)
    BY <1>1, WFMin
  <1>4. \A y \in S : x <= y
    <2> SUFFICES ASSUME NEW y \in S, ~(x <= y) PROVE FALSE
      OBVIOUS
    <2>1. x \in Nat /\ y \in Nat /\ y < x
      OBVIOUS
    <2> DEFINE p == <<y, x>>
    <2>2. p \in Nat \X Nat /\ p[1] = y /\ p[2] = x
      BY <2>1
    <2> HIDE DEF p
    <2>3. p \in R
      BY <1>2, <2>1, <2>2
    <2> USE DEF p
    <2> QED
      BY <1>3, <2>3
  <1> QED
    BY <1>3, <1>4 DEF Min

\* The deque without its first element: popleft.
LEMMA TailOfDeque ==
    ASSUME NEW S, NEW s \in Seq(S), s # <<>>, IsInjective(s)
    PROVE  /\ Tail(s) \in Seq(S) /\ Head(s) \in S /\ Head(s) \in Range(s)
           /\ IsInjective(Tail(s))
           /\ Range(Tail(s)) = Range(s) \ {Head(s)}
  <1>1. /\ Len(s) \in Nat \ {0} /\ DOMAIN s = 1..Len(s) /\ Head(s) = s[1] /\ s[1] \in S
        /\ Tail(s) \in Seq(S) /\ Len(Tail(s)) = Len(s) - 1
        /\ DOMAIN Tail(s) = 1..(Len(s) - 1)
        /\ \A i \in 1..(Len(s) - 1) : Tail(s)[i] = s[i + 1]
    OBVIOUS
  <1> DEFINE t == Tail(s)
  <1>2. t \in Seq(S) /\ DOMAIN t = 1..(Len(s) - 1) /\ \A i \in 1..(Len(s) - 1) : t[i] = s[i + 1]
    BY <1>1
  <1> HIDE DEF t
  <1>3. IsInjective(t)
    <2> SUFFICES ASSUME NEW i \in 1..(Len(s) - 1), NEW j \in 1..(Len(s) - 1), t[i] = t[j]
                 PROVE  i = j
      BY <1>2 DEF IsInjective
    <2>1. i + 1 \in 1..Len(s) /\ j + 1 \in 1..Len(s) /\ s[i + 1] = s[j + 1]
      BY <1>1, <1>2
    <2> QED
      BY <1>1, <2>1 DEF IsInjective
  <1>4. ASSUME NEW e \in Range(t) PROVE e \in Range(s) /\ e # s[1]
    <2>1. PICK i \in 1..(Len(s) - 1) : e = t[i]
      BY <1>2 DEF Range
    <2>2. i + 1 \in 1..Len(s) /\ i + 1 # 1 /\ 1 \in 1..Len(s) /\ e = s[i + 1]
      BY <1>1, <1>2, <2>1
    <2> QED
      BY <1>1, <2>2 DEF IsInjective, Range
  <1>5. ASSUME NEW e \in Range(s), e # s[1] PROVE e \in Range(t)
    <2>1. PICK i \in 1..Len(s) : e = s[i]
      BY <1>1 DEF Range
    <2>2. i - 1 \in 1..(Len(s) - 1) /\ (i - 1) + 1 = i
      BY <1>1, <1>5, <2>1
    <2>3. t[i - 1] = e
      BY <1>2, <2>1, <2>2
    <2> QED
      BY <1>2, <2>2, <2>3 DEF Range
  <1>6. s[1] \in Range(s)
    BY <1>1 DEF Range
  <1>7. Range(t) = Range(s) \ {s[1]}
    BY <1>4, <1>5
  <1> QED
    BY <1>1, <1>2, <1>3, <1>6, <1>7 DEF t

\* The deque with one more element at its end: append.
LEMMA AppendToDeque ==
    ASSUME NEW S, NEW s \in Seq(S), NEW e \in S, e \notin Range(s), IsInjective(s)
    PROVE  /\ Append(s, e) \in Seq(S) /\ Append(s, e) # <<>>
           /\ IsInjective(Append(s, e))
           /\ Range(Append(s, e)) = Range(s) \cup {e}
  <1> DEFINE t == Append(s, e)
             n == Len(s)
  <1>1. n \in Nat /\ DOMAIN s = 1..n
    OBVIOUS
  <1>2. /\ t \in Seq(S) /\ t # <<>> /\ DOMAIN t = 1..(n + 1)
        /\ t[n + 1] = e /\ \A i \in 1..n : t[i] = s[i]
    OBVIOUS
  <1> HIDE DEF t, n
  <1>3. \A i \in 1..n : s[i] \in Range(s)
    BY <1>1 DEF Range
  <1>4. IsInjective(t)
    <2> SUFFICES ASSUME NEW i \in 1..(n + 1), NEW j \in 1..(n + 1), t[i] = t[j] PROVE i = j
      BY <1>2 DEF IsInjective
    <2>1. (i \in 1..n \/ i = n + 1) /\ (j \in 1..n \/ j = n + 1)
      BY <1>1
    <2> QED
      BY <1>1, <1>2, <1>3, <2>1 DEF IsInjective
  <1>5. \A x : x \in Range(t) <=> x \in Range(s) \/ x = e
    <2>1. ASSUME NEW x \in Range(t) PROVE x \in Range(s) \/ x = e
      <3>1. PICK i \in 1..(n + 1) : x = t[i]
        BY <1>2 DEF Range
      <3>2. i \in 1..n \/ i = n + 1
        BY <1>1
      <3> QED
        BY <1>2, <1>3, <3>1, <3>2
    <2>2. ASSUME NEW x \in Range(s) PROVE x \in Range(t)
      <3>1. PICK i \in 1..n : x = s[i]
        BY <1>1 DEF Range
      <3>2. i \in 1..(n + 1) /\ t[i] = x
        BY <1>1, <1>2, <3>1
      <3> QED
        BY <1>2, <3>2 DEF Range
    <2>3. e \in Range(t)
      <3>1. n + 1 \in 1..(n + 1)
        BY <1>1
      <3> QED
        BY <1>2, <3>1 DEF Range
    <2> QED
      BY <2>1, <2>2, <2>3
  <1>6. Range(t) = Range(s) \cup {e}
    BY <1>5
  <1> QED
    BY <1>2, <1>4, <1>6 DEF t

\* What RemoveAt returns.
LEMMA RemoveAtReturns ==
    ASSUME NEW S, NEW s \in Seq(S), NEW k \in 1..Len(s)
    PROVE  /\ RemoveAt(s, k) \in Seq(S)
           /\ DOMAIN RemoveAt(s, k) = 1..(Len(s) - 1)
           /\ \A i \in 1..(Len(s) - 1) : RemoveAt(s, k)[i] = s[IF i < k THEN i ELSE i + 1]
  <1> DEFINE n == Len(s)
             x == SubSeq(s, 1, k - 1)
             y == SubSeq(s, k + 1, n)
  <1>0. n \in Nat /\ k \in 1..n
    OBVIOUS
  <1>1. k \in Int /\ 1 \in Int /\ k - 1 \in Int /\ k + 1 \in Int /\ \A i \in 1..n : s[i] \in S
    OBVIOUS
  <1>2. /\ x \in Seq(S) /\ Len(x) = k - 1
        /\ \A i \in 1..(k - 1) : x[i] = s[i]
    <2>1. \A i \in 1..(k - 1) : s[i] \in S
      BY <1>1
    <2>2. /\ x \in Seq(S)
          /\ Len(x) = IF 1 <= k - 1 THEN k - 1 - 1 + 1 ELSE 0
          /\ \A i \in 1..(k - 1 - 1 + 1) : x[i] = s[1 + i - 1]
      BY <1>1, <2>1, SubSeqProperties
    <2> HIDE DEF x
    <2> QED
      BY <2>2
  <1>3. /\ y \in Seq(S) /\ Len(y) = n - k
        /\ \A i \in 1..(n - k) : y[i] = s[i + k]
    <2>1. \A i \in (k + 1)..n : s[i] \in S
      BY <1>1
    <2>2. /\ y \in Seq(S)
          /\ Len(y) = IF k + 1 <= n THEN n - (k + 1) + 1 ELSE 0
          /\ \A i \in 1..(n - (k + 1) + 1) : y[i] = s[(k + 1) + i - 1]
      BY <1>1, <2>1, SubSeqProperties
    <2> HIDE DEF y
    <2>3. Len(y) = n - k /\ n - (k + 1) + 1 = n - k
      BY <2>2
    <2>4. \A i \in 1..(n - k) : (k + 1) + i - 1 = i + k
      OBVIOUS
    <2> QED
      BY <2>2, <2>3, <2>4
  <1>4. RemoveAt(s, k) = x \o y
    BY DEF RemoveAt
  <1> HIDE DEF x, y
  <1>5. /\ x \o y \in Seq(S)
        /\ Len(x \o y) = Len(x) + Len(y)
        /\ \A i \in 1..(Len(x) + Len(y)) :
              (x \o y)[i] = IF i <= Len(x) THEN x[i] ELSE y[i - Len(x)]
    BY <1>2, <1>3, ConcatProperties
  <1>6. Len(x) + Len(y) = n - 1
    BY <1>2, <1>3
  <1>7. ASSUME NEW i \in 1..(n - 1) PROVE (x \o y)[i] = s[IF i < k THEN i ELSE i + 1]
    <2>1. (x \o y)[i] = IF i <= k - 1 THEN x[i] ELSE y[i - (k - 1)]
      BY <1>2, <1>5, <1>6
    <2>2. CASE i < k
      <3>1. i \in 1..(k - 1) /\ i <= k - 1
        BY <2>2
      <3> QED
        BY <1>2, <2>1, <2>2, <3>1
    <2>3. CASE ~(i < k)
      <3>1. ~(i <= k - 1) /\ i - (k - 1) \in 1..(n - k) /\ (i - (k - 1)) + k = i + 1
        BY <2>3
      <3> QED
        BY <1>3, <2>1, <2>3, <3>1
    <2> QED
      BY <2>2, <2>3
  <1>8. DOMAIN (x \o y) = 1..(n - 1)
    BY <1>5, <1>6
  <1> QED
    BY <1>4, <1>5, <1>7, <1>8

\* The deque without one of its elements: remove.
LEMMA RemoveFromDeque ==
    ASSUME NEW S, NEW s \in Seq(S), NEW e \in Range(s), IsInjective(s)
    PROVE  /\ RemoveFirst(s, e) \in Seq(S)
           /\ IsInjective(RemoveFirst(s, e))
           /\ Range(RemoveFirst(s, e)) = Range(s) \ {e}
  <1> DEFINE n == Len(s)
             I == {i \in 1..n : s[i] = e}
             k == Min(I)
             t == RemoveAt(s, k)
             from(i) == IF i < k THEN i ELSE i + 1
  <1>1. n \in Nat /\ DOMAIN s = 1..n
    OBVIOUS
  <1>2. PICK i \in 1..n : s[i] = e
    BY <1>1 DEF Range
  <1>3. I # {} /\ I \subseteq Nat
    BY <1>1, <1>2
  <1>4. k \in 1..n /\ s[k] = e
    BY <1>3, MinIsLeast
  <1>5. RemoveFirst(s, e) = t
    BY <1>3 DEF RemoveFirst, SelectInSeq
  <1> HIDE DEF k, n, I
  <1>6. /\ t \in Seq(S) /\ DOMAIN t = 1..(n - 1)
        /\ \A j \in 1..(n - 1) : t[j] = s[from(j)]
    BY <1>4, RemoveAtReturns DEF n
  <1> HIDE DEF t
  <1>7. \A j \in 1..(n - 1) : from(j) \in 1..n /\ from(j) # k
    BY <1>1, <1>4
  <1>8. \A j, m \in 1..(n - 1) : from(j) = from(m) => j = m
    BY <1>1, <1>4
  <1>9. \A m \in 1..n : m # k => \E j \in 1..(n - 1) : from(j) = m
    <2> SUFFICES ASSUME NEW m \in 1..n, m # k PROVE \E j \in 1..(n - 1) : from(j) = m
      OBVIOUS
    <2>1. CASE m < k
      <3>1. m \in 1..(n - 1) /\ from(m) = m
        BY <1>1, <1>4, <2>1
      <3> QED
        BY <3>1
    <2>2. CASE m > k
      <3>1. m - 1 \in 1..(n - 1) /\ from(m - 1) = m
        BY <1>1, <1>4, <2>2
      <3> QED
        BY <3>1
    <2> QED
      BY <1>1, <1>4, <2>1, <2>2
  <1> HIDE DEF from
  <1>10. IsInjective(t)
    <2> SUFFICES ASSUME NEW j \in 1..(n - 1), NEW m \in 1..(n - 1), t[j] = t[m] PROVE j = m
      BY <1>6 DEF IsInjective
    <2>1. s[from(j)] = s[from(m)]
      BY <1>6
    <2> QED
      BY <1>1, <1>7, <1>8, <2>1 DEF IsInjective
  <1>11. ASSUME NEW x \in Range(t) PROVE x \in Range(s) /\ x # e
    <2>1. PICK j \in 1..(n - 1) : x = t[j]
      BY <1>6 DEF Range
    <2>2. x = s[from(j)] /\ from(j) \in 1..n /\ from(j) # k
      BY <1>6, <1>7, <2>1
    <2> QED
      BY <1>1, <1>4, <2>2 DEF IsInjective, Range
  <1>12. ASSUME NEW x \in Range(s), x # e PROVE x \in Range(t)
    <2>1. PICK m \in 1..n : x = s[m]
      BY <1>1 DEF Range
    <2>2. m # k
      BY <1>4, <1>12, <2>1
    <2>3. PICK j \in 1..(n - 1) : from(j) = m
      BY <1>9, <2>2
    <2>4. t[j] = x
      BY <1>6, <2>1, <2>3
    <2> QED
      BY <1>6, <2>4 DEF Range
  <1>13. Range(t) = Range(s) \ {e}
    BY <1>11, <1>12
  <1> QED
    BY <1>5, <1>6, <1>10, <1>13
-----------------------------------------------------------------------------
(* The methods of the queue. *)

LEMMA QueuedIsFinite ==
    ASSUME NEW q \in Queues
    PROVE  IsFiniteSet(AllQueued(q)) /\ Cardinality(AllQueued(q)) \in Nat
  <1>1. AllQueued(q) \in SUBSET Requests
    BY DEF AllQueued
  <1> QED
    BY <1>1, QueueAssumption, FS_Subset, FS_CardinalityType

\* The rotation after a turn: the tenant goes to its end if it has more waiters.
LEMMA RotationAfterTurn ==
    ASSUME NEW rr \in Seq(Tenants), NEW k \in 1..Len(rr), NEW more \in BOOLEAN
    PROVE  LET after == SubSeq(rr, k + 1, Len(rr)) \o (IF more THEN <<rr[k]>> ELSE <<>>)
           IN  /\ after \in Seq(Tenants)
               /\ \A i \in (k + 1)..Len(rr) : rr[i] \in Range(after)
               /\ more => rr[k] \in Range(after)
  <1> DEFINE n == Len(rr)
             x == SubSeq(rr, k + 1, n)
             back == IF more THEN <<rr[k]>> ELSE <<>>
  <1>1. n \in Nat /\ k \in Nat /\ k <= n /\ rr[k] \in Tenants /\ \A i \in (k + 1)..n : rr[i] \in Tenants
    OBVIOUS
  <1>2. /\ x \in Seq(Tenants)
        /\ Len(x) = IF k + 1 <= n THEN n - (k + 1) + 1 ELSE 0
        /\ \A i \in 1..(n - (k + 1) + 1) : x[i] = rr[(k + 1) + i - 1]
    BY <1>1, SubSeqProperties
  <1>3. back \in Seq(Tenants) /\ Len(back) = (IF more THEN 1 ELSE 0) /\ (more => back[1] = rr[k])
    BY <1>1
  <1> HIDE DEF n, x, back
  <1>4. Len(x) = n - k
    BY <1>1, <1>2
  <1>5. /\ x \o back \in Seq(Tenants) /\ Len(x \o back) = Len(x) + Len(back)
        /\ \A i \in 1..(Len(x) + Len(back)) :
              (x \o back)[i] = IF i <= Len(x) THEN x[i] ELSE back[i - Len(x)]
    BY <1>2, <1>3, ConcatProperties
  <1>6. DOMAIN (x \o back) = 1..(Len(x) + Len(back))
    BY <1>5
  <1>7. ASSUME NEW i \in (k + 1)..n PROVE rr[i] \in Range(x \o back)
    <2>1. /\ i - k \in 1..(n - (k + 1) + 1) /\ (k + 1) + (i - k) - 1 = i
          /\ i - k \in 1..(Len(x) + Len(back)) /\ i - k <= Len(x)
      BY <1>1, <1>3, <1>4
    <2>2. (x \o back)[i - k] = rr[i]
      BY <1>2, <1>5, <2>1
    <2> QED
      BY <1>6, <2>1, <2>2 DEF Range
  <1>8. ASSUME more PROVE rr[k] \in Range(x \o back)
    <2>1. /\ Len(x) + 1 \in 1..(Len(x) + Len(back)) /\ ~(Len(x) + 1 <= Len(x))
          /\ (Len(x) + 1) - Len(x) = 1
      BY <1>1, <1>3, <1>4, <1>8
    <2>2. (x \o back)[Len(x) + 1] = rr[k]
      BY <1>3, <1>5, <1>8, <2>1
    <2> QED
      BY <1>6, <2>1, <2>2 DEF Range
  <1> QED
    BY <1>5, <1>7, <1>8 DEF n, x, back

LEMMA QueueParts ==
    ASSUME NEW q \in Queues
    PROVE  /\ q.queues \in [Lanes -> [Tenants -> Seq(Requests)]]
           /\ q.rr \in [Lanes -> Seq(Tenants)]
           /\ q.turn \in [Lanes -> BOOLEAN]
           /\ q.enabled \in [Lanes -> BOOLEAN]
           /\ q.wstate \in [Requests -> {"none", "queued", "granted"}]
           /\ q.lane \in [Requests -> Lanes]
           /\ q.count \in Int
  BY DEF Queues

\* k is the place in the rotation of the first tenant that has a waiter.
FirstWithWaiter(q, l, k) ==
    /\ k \in 1..Len(q.rr[l]) /\ q.queues[l][q.rr[l][k]] # <<>>
    /\ \A i \in 1..Len(q.rr[l]) : q.queues[l][q.rr[l][i]] # <<>> => k <= i

\* p is q after the turn of lane l was given to one of its waiters.
TurnGiven(p, q, l) ==
    /\ p \in Queues /\ Exact(p) /\ Placed(p)
    /\ p.enabled = q.enabled /\ p.lane = q.lane /\ p.count <= q.count
    /\ \A m \in Lanes, u \in Tenants : m # l => p.queues[m][u] = q.queues[m][u]
    /\ p.turn = [q.turn EXCEPT ![l] = TRUE]
    /\ \E w \in AllQueued(q) : /\ q.lane[w] = l
                               /\ p.wstate = [q.wstate EXCEPT ![w] = "granted"]

\* A turn keeps the deques exact and everybody placed, if it goes to the first tenant of the
\* rotation that has a waiter.
LEMMA GiveTurnKeeps ==
    ASSUME NEW q \in Queues, Exact(q), Placed(q), NEW l \in Lanes, NEW k,
           FirstWithWaiter(q, l, k)
    PROVE  TurnGiven(GiveTurn(q, l, k), q, l)
  <1>0. /\ k \in 1..Len(q.rr[l]) /\ q.queues[l][q.rr[l][k]] # <<>>
        /\ \A i \in 1..Len(q.rr[l]) : q.queues[l][q.rr[l][i]] # <<>> => k <= i
    BY DEF FirstWithWaiter
  <1> DEFINE t == q.rr[l][k]
             s == q.queues[l][t]
             w == Head(s)
             p == GiveTurn(q, l, k)
  <1>1. q.rr[l] \in Seq(Tenants) /\ t \in Tenants /\ s \in Seq(Requests) /\ s # <<>>
    BY <1>0 DEF Queues
  <1>2. IsInjective(s) /\ Range(s) = QueuedIn(q, l, t)
    BY <1>1 DEF Exact
  <1>3. /\ Tail(s) \in Seq(Requests) /\ w \in Requests /\ w \in QueuedIn(q, l, t)
        /\ IsInjective(Tail(s)) /\ Range(Tail(s)) = QueuedIn(q, l, t) \ {w}
    <2> HIDE DEF s
    <2> QED
      BY <1>1, <1>2, TailOfDeque
  <1>4. /\ w \in AllQueued(q) /\ q.lane[w] = l /\ TenantOf[w] = t
        /\ q.wstate[w] = "queued"
    BY <1>3 DEF QueuedIn, AllQueued
  <1> DEFINE back == IF Tail(s) = <<>> THEN <<>> ELSE <<t>>
             rot == SubSeq(q.rr[l], k + 1, Len(q.rr[l])) \o back
  <1>5. /\ p.queues = [q.queues EXCEPT ![l][t] = Tail(s)]
        /\ p.rr = [q.rr EXCEPT ![l] = rot]
        /\ p.turn = [q.turn EXCEPT ![l] = TRUE]
        /\ p.wstate = [q.wstate EXCEPT ![w] = "granted"]
        /\ p.count = q.count - 1
        /\ p.enabled = q.enabled /\ p.lane = q.lane
        /\ p = [queues |-> p.queues, rr |-> p.rr, turn |-> p.turn, enabled |-> p.enabled,
                wstate |-> p.wstate, lane |-> p.lane, count |-> p.count]
    <2>1. p = [q EXCEPT !.rr[l] = SubSeq(@, k + 1, Len(@)) \o back,
                    !.queues[l][t] = Tail(s),
                    !.count = @ - 1,
                    !.turn[l] = TRUE,
                    !.wstate[w] = "granted"]
      BY DEF GiveTurn
    <2> HIDE DEF t, s, w, p, back
    <2> QED
      BY <2>1 DEF Queues
  <1> HIDE DEF p
  <1>50. /\ rot \in Seq(Tenants)
         /\ \A i \in (k + 1)..Len(q.rr[l]) : q.rr[l][i] \in Range(rot)
         /\ Tail(s) # <<>> => t \in Range(rot)
    <2>1. rot = SubSeq(q.rr[l], k + 1, Len(q.rr[l]))
                  \o (IF Tail(s) # <<>> THEN <<q.rr[l][k]>> ELSE <<>>)
      OBVIOUS
    <2>2. q.rr[l] \in Seq(Tenants) /\ k \in 1..Len(q.rr[l]) /\ (Tail(s) # <<>>) \in BOOLEAN
          /\ t = q.rr[l][k]
      BY <1>0, <1>1
    <2> HIDE DEF rot, s, t
    <2> QED
      BY <2>1, <2>2, RotationAfterTurn
  <1> HIDE DEF rot
  <1>51. p \in Queues
    <2>1. t \in Tenants /\ Tail(s) \in Seq(Requests) /\ w \in Requests
      BY <1>1, <1>3
    <2> HIDE DEF t, s, w
    <2>2. p.queues \in [Lanes -> [Tenants -> Seq(Requests)]]
      <3>1. p.queues = [q.queues EXCEPT ![l][t] = Tail(s)]
        BY <1>5
      <3>2. q.queues \in [Lanes -> [Tenants -> Seq(Requests)]]
        BY QueueParts
      <3> QED
        BY <2>1, <3>1, <3>2
    <2>3. p.rr \in [Lanes -> Seq(Tenants)]
      <3>1. p.rr = [q.rr EXCEPT ![l] = rot] /\ rot \in Seq(Tenants)
        BY <1>5, <1>50
      <3>2. q.rr \in [Lanes -> Seq(Tenants)]
        BY QueueParts
      <3> QED
        BY <3>1, <3>2
    <2>4. p.turn \in [Lanes -> BOOLEAN]
      <3>1. p.turn = [q.turn EXCEPT ![l] = TRUE] /\ q.turn \in [Lanes -> BOOLEAN]
        BY <1>5, QueueParts
      <3> QED
        BY <3>1
    <2>5. p.wstate \in [Requests -> {"none", "queued", "granted"}]
      <3>1. p.wstate = [q.wstate EXCEPT ![w] = "granted"]
        BY <1>5
      <3>2. q.wstate \in [Requests -> {"none", "queued", "granted"}]
        BY QueueParts
      <3> QED
        BY <3>1, <3>2
    <2>6. p.count \in Int /\ p.enabled \in [Lanes -> BOOLEAN] /\ p.lane \in [Requests -> Lanes]
      BY <1>5, QueueParts
    <2>7. p = [queues |-> p.queues, rr |-> p.rr, turn |-> p.turn, enabled |-> p.enabled,
               wstate |-> p.wstate, lane |-> p.lane, count |-> p.count]
      BY <1>5
    <2> QED
      BY <2>2, <2>3, <2>4, <2>5, <2>6, <2>7 DEF Queues
  <1>6. AllQueued(p) = AllQueued(q) \ {w}
    BY <1>3, <1>5, QueueParts DEF AllQueued
  <1>7. \A m \in Lanes, u \in Tenants : QueuedIn(p, m, u) = QueuedIn(q, m, u) \ {w}
    BY <1>5, <1>6 DEF QueuedIn
  <1>8. \A m \in Lanes, u \in Tenants :
           p.queues[m][u] = IF m = l /\ u = t THEN Tail(s) ELSE q.queues[m][u]
    <2>1. /\ p.queues = [q.queues EXCEPT ![l] = [q.queues[l] EXCEPT ![t] = Tail(s)]]
          /\ q.queues \in [Lanes -> [Tenants -> Seq(Requests)]] /\ t \in Tenants
      BY <1>1, <1>5 DEF Queues
    <2> HIDE DEF t, s
    <2> QED
      BY <2>1
  <1>9. \A m \in Lanes, u \in Tenants :
           IsInjective(p.queues[m][u]) /\ Range(p.queues[m][u]) = QueuedIn(p, m, u)
    <2> SUFFICES ASSUME NEW m \in Lanes, NEW u \in Tenants
                 PROVE  /\ IsInjective(p.queues[m][u])
                        /\ Range(p.queues[m][u]) = QueuedIn(p, m, u)
      OBVIOUS
    <2>1. CASE m = l /\ u = t
      BY <1>3, <1>7, <1>8, <2>1
    <2>2. CASE ~(m = l /\ u = t)
      <3>1. w \notin QueuedIn(q, m, u)
        BY <1>4, <2>2 DEF QueuedIn
      <3>2. QueuedIn(p, m, u) = QueuedIn(q, m, u)
        BY <1>7, <3>1
      <3>3. p.queues[m][u] = q.queues[m][u]
        BY <1>8, <2>2
      <3> QED
        BY <3>2, <3>3 DEF Exact
    <2> QED
      BY <2>1, <2>2
  <1>10. p.count = Cardinality(AllQueued(p))
    BY <1>4, <1>5, <1>6, QueuedIsFinite, FS_RemoveElement DEF Exact
  <1>11. Exact(p)
    BY <1>9, <1>10 DEF Exact
  <1>12. p.count <= q.count
    <2>1. q.count \in Int /\ p.count = q.count - 1
      BY <1>5 DEF Queues
    <2> QED
      BY <2>1
  <1>13. /\ \A i \in (k + 1)..Len(q.rr[l]) : q.rr[l][i] \in Range(p.rr[l])
         /\ Tail(s) # <<>> => t \in Range(p.rr[l])
    <2>1. p.rr = [q.rr EXCEPT ![l] = rot]
      BY <1>5
    <2>2. q.rr \in [Lanes -> Seq(Tenants)]
      BY QueueParts
    <2>3. p.rr[l] = rot
      BY <2>1, <2>2
    <2> QED
      BY <1>50, <2>3
  <1>14. Placed(p)
    <2> SUFFICES ASSUME NEW m \in Lanes, NEW u \in Tenants, p.queues[m][u] # <<>>
                 PROVE  u \in Range(p.rr[m])
      BY DEF Placed
    <2>1. CASE m = l /\ u = t
      BY <1>8, <1>13, <2>1
    <2>2. CASE m = l /\ u # t
      <3>1. q.queues[l][u] # <<>>
        BY <1>8, <2>2
      <3>2. PICK i \in 1..Len(q.rr[l]) : q.rr[l][i] = u
        BY <1>1, <3>1 DEF Placed, Range
      <3>3. k <= i /\ i # k
        BY <1>0, <2>2, <3>1, <3>2
      <3>4. i \in (k + 1)..Len(q.rr[l])
        BY <1>0, <1>1, <3>2, <3>3
      <3> QED
        BY <1>13, <2>2, <3>2, <3>4
    <2>3. CASE m # l
      <3>1. p.rr[m] = q.rr[m] /\ p.queues[m][u] = q.queues[m][u]
        BY <1>5, <1>8, <2>3 DEF Queues
      <3> QED
        BY <3>1 DEF Placed
    <2> QED
      BY <2>1, <2>2, <2>3
  <1>15. \E v \in AllQueued(q) : q.lane[v] = l /\ p.wstate = [q.wstate EXCEPT ![v] = "granted"]
    BY <1>4, <1>5
  <1>16. \A m \in Lanes, u \in Tenants : m # l => p.queues[m][u] = q.queues[m][u]
    BY <1>8
  <1>17. /\ p.enabled = q.enabled /\ p.lane = q.lane
         /\ p.turn = [q.turn EXCEPT ![l] = TRUE]
    BY <1>5
  <1> QED
    BY <1>16, <1>17, <1>51, <1>11, <1>12, <1>14, <1>15 DEF p, TurnGiven

\* A turn that is given to a task that waits for it is that task's alone.
LEMMA GrantKeepsTurns ==
    ASSUME NEW q \in Queues, NEW p \in Queues, NEW place \in Places, NEW l \in Lanes,
           WaitsAgree(q, place), OneTurn(q, place), ~q.turn[l],
           p.lane = q.lane, p.turn = [q.turn EXCEPT ![l] = TRUE],
           NEW w \in AllQueued(q), q.lane[w] = l, p.wstate = [q.wstate EXCEPT ![w] = "granted"]
    PROVE  WaitsAgree(p, place) /\ OneTurn(p, place)
  <1>1. /\ w \in Requests /\ q.wstate[w] = "queued" /\ q.turn \in [Lanes -> BOOLEAN]
        /\ DOMAIN q.wstate = Requests
    BY QueueParts DEF AllQueued
  <1>2. /\ p.wstate[w] = "granted" /\ p.turn[l] /\ p.lane[w] = l
        /\ \A v \in Requests : v # w => p.wstate[v] = q.wstate[v]
        /\ \A m \in Lanes : m # l => p.turn[m] = q.turn[m]
    BY <1>1
  <1>3. WaitsAgree(p, place)
    BY <1>1, <1>2 DEF WaitsAgree
  <1>4. Holders(q, place, l) = {}
    BY DEF OneTurn
  <1>5. Holders(p, place, l) = {w}
    <2>1. \A v \in Holders(p, place, l) : v = w
      BY <1>2, <1>4 DEF Holders
    <2>2. w \in Holders(p, place, l)
      BY <1>1, <1>2 DEF Holders
    <2> QED
      BY <2>1, <2>2
  <1>6. \A m \in Lanes : m # l => Holders(p, place, m) = Holders(q, place, m)
    <2> SUFFICES ASSUME NEW m \in Lanes, m # l
                 PROVE  Holders(p, place, m) = Holders(q, place, m)
      OBVIOUS
    <2>1. \A v \in Requests : (p.wstate[v] = "granted" /\ p.lane[v] = m)
                               <=> (q.wstate[v] = "granted" /\ q.lane[v] = m)
      BY <1>1, <1>2
    <2> QED
      BY <2>1 DEF Holders
  <1>7. OneTurn(p, place)
    <2> SUFFICES ASSUME NEW m \in Lanes
                 PROVE  /\ \A v, x \in Holders(p, place, m) : v = x
                        /\ p.turn[m] <=> Holders(p, place, m) # {}
      BY DEF OneTurn
    <2>1. CASE m = l
      BY <1>2, <1>5, <2>1
    <2>2. CASE m # l
      BY <1>2, <1>6, <2>2 DEF OneTurn
    <2> QED
      BY <2>1, <2>2
  <1> QED
    BY <1>3, <1>7

\* _promote keeps the queue coherent and leaves nobody waiting for a free turn of its lane.
LEMMA PromoteKeeps ==
    ASSUME NEW q, NEW place, Coherent(q, place), NEW l \in Lanes
    PROVE  LET p == Promote(q, l)
           IN  /\ Coherent(p, place) /\ Served(p, l)
               /\ OthersServed(q, p, l)
               /\ p.count <= q.count /\ p.enabled = q.enabled
  <1> DEFINE live == {k \in 1..Len(q.rr[l]) : q.queues[l][q.rr[l][k]] # <<>>}
             p == Promote(q, l)
  <1>0. /\ q \in Queues /\ place \in Places /\ Exact(q) /\ Placed(q)
        /\ WaitsAgree(q, place) /\ OneTurn(q, place) /\ q.count \in Int
        /\ q.rr[l] \in Seq(Tenants)
    BY QueueParts DEF Coherent
  <1>1. CASE q.turn[l] \/ ~q.enabled[l]
    <2>1. p = q
      BY <1>1 DEF Promote
    <2> HIDE DEF p
    <2> QED
      BY <1>0, <1>1, <2>1 DEF Served, OthersServed, p
  <1>2. CASE ~(q.turn[l] \/ ~q.enabled[l]) /\ live = {}
    <2>1. p = [q EXCEPT !.rr[l] = <<>>]
      BY <1>2 DEF Promote
    <2> HIDE DEF p
    <2>2. /\ p.queues = q.queues /\ p.turn = q.turn /\ p.enabled = q.enabled
          /\ p.wstate = q.wstate /\ p.lane = q.lane /\ p.count = q.count
          /\ p.rr = [q.rr EXCEPT ![l] = <<>>]
          /\ p = [queues |-> p.queues, rr |-> p.rr, turn |-> p.turn, enabled |-> p.enabled,
                  wstate |-> p.wstate, lane |-> p.lane, count |-> p.count]
      BY <1>0, <2>1 DEF Queues
    <2>3. p \in Queues
      <3>1. p.rr \in [Lanes -> Seq(Tenants)]
        BY <1>0, <2>2, QueueParts
      <3> QED
        BY <1>0, <2>2, <3>1, QueueParts DEF Queues
    <2>4. Exact(p)
      BY <1>0, <2>2 DEF Exact, QueuedIn, AllQueued
    <2>5. \A u \in Tenants : q.queues[l][u] = <<>>
      <3> SUFFICES ASSUME NEW u \in Tenants, q.queues[l][u] # <<>> PROVE FALSE
        OBVIOUS
      <3>1. PICK i \in 1..Len(q.rr[l]) : q.rr[l][i] = u
        BY <1>0 DEF Placed, Range
      <3> QED
        BY <1>2, <3>1
    <2>6. Placed(p)
      <3>1. \A m \in Lanes : m # l => p.rr[m] = q.rr[m]
        BY <1>0, <2>2, QueueParts
      <3> QED
        BY <1>0, <2>2, <2>5, <3>1 DEF Placed
    <2>7. WaitsAgree(p, place) /\ OneTurn(p, place)
      BY <1>0, <2>2 DEF WaitsAgree, OneTurn, Holders
    <2>8. WaitersOf(p, l) = {}
      BY <2>2, <2>5 DEF WaitersOf, Range
    <2>9. \A m \in Lanes : Served(q, m) => Served(p, m)
      BY <2>2 DEF Served, WaitersOf
    <2> QED
      BY <1>0, <2>2, <2>3, <2>4, <2>6, <2>7, <2>8, <2>9 DEF Coherent, Served, OthersServed, p
  <1>3. CASE ~(q.turn[l] \/ ~q.enabled[l]) /\ live # {}
    <2>1. p = GiveTurn(q, l, Min(live))
      BY <1>3 DEF Promote
    <2>2. Min(live) \in live /\ \A i \in live : Min(live) <= i
      <3>1. live \subseteq Nat
        OBVIOUS
      <3> QED
        BY <1>3, <3>1, MinIsLeast
    <2>3. TurnGiven(p, q, l)
      <3> DEFINE k == Min(live)
      <3>1. FirstWithWaiter(q, l, k)
        BY <2>2 DEF FirstWithWaiter
      <3> HIDE DEF k
      <3> QED
        BY <1>0, <2>1, <3>1, GiveTurnKeeps DEF k
    <2> HIDE DEF p
    <2>4. WaitsAgree(p, place) /\ OneTurn(p, place)
      BY <1>0, <1>3, <2>3, GrantKeepsTurns DEF TurnGiven
    <2>5. q.turn \in [Lanes -> BOOLEAN]
      BY <1>0, QueueParts
    <2>6. Served(p, l)
      BY <2>3, <2>5 DEF Served, TurnGiven
    <2>7. \A m \in Lanes : m # l /\ Served(q, m) => Served(p, m)
      <3> SUFFICES ASSUME NEW m \in Lanes, m # l, Served(q, m) PROVE Served(p, m)
        OBVIOUS
      <3>1. p.turn[m] = q.turn[m] /\ p.enabled[m] = q.enabled[m]
        BY <2>3, <2>5 DEF TurnGiven
      <3>2. WaitersOf(p, m) = WaitersOf(q, m)
        BY <2>3 DEF WaitersOf, TurnGiven
      <3> QED
        BY <3>1, <3>2 DEF Served
    <2> QED
      BY <1>0, <2>3, <2>4, <2>6, <2>7 DEF Coherent, TurnGiven, OthersServed, p
  <1> QED
    BY <1>1, <1>2, <1>3

\* wait_turn, before it promotes: the task is the last of its tenant's deque.
LEMMA EnqueuedKeeps ==
    ASSUME NEW q, NEW place, Coherent(q, place), NEW w \in Requests, NEW l \in Lanes,
           place[w].ph = "out"
    PROVE  LET p    == Enqueued(q, w, l)
               next == [place EXCEPT ![w] = [ph |-> "waiting", lane |-> l]]
           IN  /\ Coherent(p, next)
               /\ OthersServed(q, p, l)
               /\ p.count = q.count + 1 /\ p.enabled = q.enabled
  <1> DEFINE p == Enqueued(q, w, l)
             next == [place EXCEPT ![w] = [ph |-> "waiting", lane |-> l]]
             t == TenantOf[w]
             s == q.queues[l][t]
             rot == IF s = <<>> THEN Append(q.rr[l], t) ELSE q.rr[l]
  <1>0. /\ q \in Queues /\ place \in Places /\ Exact(q) /\ Placed(q)
        /\ WaitsAgree(q, place) /\ OneTurn(q, place) /\ q.count \in Int
        /\ q.rr[l] \in Seq(Tenants) /\ t \in Tenants /\ s \in Seq(Requests)
    BY QueueParts, QueueAssumption DEF Coherent
  <1>1. q.wstate[w] = "none" /\ w \notin AllQueued(q)
    BY <1>0, QueueParts DEF WaitsAgree, AllQueued
  <1>2. IsInjective(s) /\ Range(s) = QueuedIn(q, l, t) /\ w \notin Range(s)
    BY <1>0, <1>1 DEF Exact, QueuedIn
  <1>3. /\ Append(s, w) \in Seq(Requests) /\ Append(s, w) # <<>> /\ IsInjective(Append(s, w))
        /\ Range(Append(s, w)) = QueuedIn(q, l, t) \cup {w}
    <2> HIDE DEF s
    <2> QED
      BY <1>0, <1>2, AppendToDeque
  <1>4. rot \in Seq(Tenants) /\ t \in Range(rot) /\ Range(q.rr[l]) \subseteq Range(rot)
    <2>1. CASE s = <<>>
      <3>1. /\ rot \in Seq(Tenants) /\ DOMAIN rot = 1..(Len(q.rr[l]) + 1)
            /\ rot[Len(q.rr[l]) + 1] = t /\ \A i \in 1..Len(q.rr[l]) : rot[i] = q.rr[l][i]
            /\ Len(q.rr[l]) \in Nat /\ DOMAIN q.rr[l] = 1..Len(q.rr[l])
        BY <1>0, <2>1
      <3> HIDE DEF rot
      <3>2. Len(q.rr[l]) + 1 \in DOMAIN rot /\ \A i \in DOMAIN q.rr[l] : i \in DOMAIN rot
        BY <3>1
      <3> QED
        BY <3>1, <3>2 DEF Range
    <2>2. CASE s # <<>>
      BY <1>0, <2>2 DEF Placed
    <2> QED
      BY <2>1, <2>2
  <1>5. /\ p.queues = [q.queues EXCEPT ![l][t] = Append(s, w)]
        /\ p.rr = [q.rr EXCEPT ![l] = rot]
        /\ p.turn = q.turn /\ p.enabled = q.enabled
        /\ p.wstate = [q.wstate EXCEPT ![w] = "queued"]
        /\ p.lane = [q.lane EXCEPT ![w] = l]
        /\ p.count = q.count + 1
        /\ p = [queues |-> p.queues, rr |-> p.rr, turn |-> p.turn, enabled |-> p.enabled,
                wstate |-> p.wstate, lane |-> p.lane, count |-> p.count]
    <2>1. p = [q EXCEPT !.rr[l] = IF s = <<>> THEN Append(@, t) ELSE @,
                    !.queues[l][t] = Append(@, w),
                    !.count = @ + 1,
                    !.wstate[w] = "queued",
                    !.lane[w] = l]
      BY DEF Enqueued
    <2> HIDE DEF p, t
    <2> QED
      BY <1>0, <2>1 DEF Queues
  <1> HIDE DEF p, next, rot
  <1>6. /\ \A m \in Lanes, u \in Tenants :
              p.queues[m][u] = IF m = l /\ u = t THEN Append(s, w) ELSE q.queues[m][u]
        /\ p.queues \in [Lanes -> [Tenants -> Seq(Requests)]]
    <2>1. p.queues = [q.queues EXCEPT ![l] = [q.queues[l] EXCEPT ![t] = Append(s, w)]]
      BY <1>5
    <2>2. q.queues \in [Lanes -> [Tenants -> Seq(Requests)]]
      BY <1>0, QueueParts
    <2> HIDE DEF s, t
    <2> QED
      BY <1>0, <1>3, <2>1, <2>2
  <1>7. /\ p.rr[l] = rot /\ (\A m \in Lanes : m # l => p.rr[m] = q.rr[m])
        /\ p.rr \in [Lanes -> Seq(Tenants)]
    <2>1. p.rr = [q.rr EXCEPT ![l] = rot] /\ q.rr \in [Lanes -> Seq(Tenants)]
      BY <1>0, <1>5, QueueParts
    <2> QED
      BY <1>4, <2>1
  <1>8. /\ p.wstate[w] = "queued" /\ p.lane[w] = l
        /\ \A v \in Requests : v # w => p.wstate[v] = q.wstate[v] /\ p.lane[v] = q.lane[v]
        /\ p.wstate \in [Requests -> {"none", "queued", "granted"}] /\ p.lane \in [Requests -> Lanes]
    <2>1. /\ p.wstate = [q.wstate EXCEPT ![w] = "queued"] /\ p.lane = [q.lane EXCEPT ![w] = l]
          /\ q.wstate \in [Requests -> {"none", "queued", "granted"}] /\ q.lane \in [Requests -> Lanes]
      BY <1>0, <1>5, QueueParts
    <2> QED
      BY <2>1
  <1>9. p \in Queues
    <2>1. p.turn \in [Lanes -> BOOLEAN] /\ p.enabled \in [Lanes -> BOOLEAN] /\ p.count \in Int
      BY <1>0, <1>5, QueueParts
    <2>2. p = [queues |-> p.queues, rr |-> p.rr, turn |-> p.turn, enabled |-> p.enabled,
                wstate |-> p.wstate, lane |-> p.lane, count |-> p.count]
      BY <1>5
    <2> QED
      BY <1>6, <1>7, <1>8, <2>1, <2>2 DEF Queues
  <1>10. AllQueued(p) = AllQueued(q) \cup {w}
    BY <1>8 DEF AllQueued
  <1>11. \A m \in Lanes, u \in Tenants :
            QueuedIn(p, m, u) = IF m = l /\ u = t THEN QueuedIn(q, m, u) \cup {w}
                                ELSE QueuedIn(q, m, u)
    <2> SUFFICES ASSUME NEW m \in Lanes, NEW u \in Tenants
                 PROVE  QueuedIn(p, m, u) = IF m = l /\ u = t THEN QueuedIn(q, m, u) \cup {w}
                                            ELSE QueuedIn(q, m, u)
      OBVIOUS
    <2>1. AllQueued(q) \subseteq Requests
      BY DEF AllQueued
    <2> QED
      BY <1>1, <1>8, <1>10, <2>1 DEF QueuedIn
  <1>12. Exact(p)
    <2>1. p.count = Cardinality(AllQueued(p))
      BY <1>0, <1>1, <1>5, <1>10, QueuedIsFinite, FS_AddElement DEF Exact
    <2>2. \A m \in Lanes, u \in Tenants :
             IsInjective(p.queues[m][u]) /\ Range(p.queues[m][u]) = QueuedIn(p, m, u)
      <3> SUFFICES ASSUME NEW m \in Lanes, NEW u \in Tenants
                   PROVE  /\ IsInjective(p.queues[m][u])
                          /\ Range(p.queues[m][u]) = QueuedIn(p, m, u)
        OBVIOUS
      <3>1. CASE m = l /\ u = t
        BY <1>3, <1>6, <1>11, <3>1
      <3>2. CASE ~(m = l /\ u = t)
        <4>1. p.queues[m][u] = q.queues[m][u] /\ QueuedIn(p, m, u) = QueuedIn(q, m, u)
          BY <1>6, <1>11, <3>2
        <4> QED
          BY <1>0, <4>1 DEF Exact
      <3> QED
        BY <3>1, <3>2
    <2> QED
      BY <2>1, <2>2 DEF Exact
  <1>13. Placed(p)
    BY <1>0, <1>4, <1>6, <1>7 DEF Placed
  <1>14. /\ next[w].ph = "waiting" /\ next[w].lane = l /\ next \in Places
         /\ \A v \in Requests : v # w => next[v] = place[v]
    BY <1>0 DEF next, Places
  <1>15. WaitsAgree(p, next)
    BY <1>0, <1>8, <1>14 DEF WaitsAgree
  <1>16. OneTurn(p, next)
    <2>1. \A m \in Lanes : Holders(p, next, m) = Holders(q, place, m)
      BY <1>1, <1>8, <1>14 DEF Holders
    <2> QED
      BY <1>0, <1>5, <2>1 DEF OneTurn
  <1>17. \A m \in Lanes : m # l /\ Served(q, m) => Served(p, m)
    <2> SUFFICES ASSUME NEW m \in Lanes, m # l, Served(q, m) PROVE Served(p, m)
      OBVIOUS
    <2>1. \A u \in Tenants : p.queues[m][u] = q.queues[m][u]
      BY <1>6
    <2>2. WaitersOf(p, m) = WaitersOf(q, m)
      BY <2>1 DEF WaitersOf
    <2> QED
      BY <1>5, <2>2 DEF Served
  <1> QED
    BY <1>5, <1>9, <1>12, <1>13, <1>14, <1>15, <1>16, <1>17 DEF Coherent, OthersServed, p, next

\* A waiter that is not queued is dropped: the deques and the rotation stay as they are.
LEMMA DropKeepsQueues ==
    ASSUME NEW q \in Queues, Exact(q), Placed(q), NEW w \in Requests, q.wstate[w] # "queued"
    PROVE  LET p == WaiterDropped(q, w)
           IN  /\ p \in Queues /\ Exact(p) /\ Placed(p)
               /\ p.queues = q.queues /\ p.turn = q.turn /\ p.enabled = q.enabled
               /\ p.count = q.count /\ p.rr = q.rr /\ Without(p, q, w)
  <1> DEFINE p == WaiterDropped(q, w)
  <1>1. /\ p.queues = q.queues /\ p.turn = q.turn /\ p.enabled = q.enabled
        /\ p.count = q.count /\ p.rr = q.rr
        /\ p.wstate = [q.wstate EXCEPT ![w] = "none"]
        /\ p.lane = [q.lane EXCEPT ![w] = TRUE]
        /\ p = [queues |-> p.queues, rr |-> p.rr, turn |-> p.turn, enabled |-> p.enabled,
                wstate |-> p.wstate, lane |-> p.lane, count |-> p.count]
    <2>1. p = [q EXCEPT !.wstate[w] = "none", !.lane[w] = TRUE]
      BY DEF WaiterDropped
    <2> HIDE DEF p
    <2> QED
      BY <2>1 DEF Queues
  <1> HIDE DEF p
  <1>2. /\ p.wstate[w] = "none"
        /\ \A v \in Requests : v # w => p.wstate[v] = q.wstate[v] /\ p.lane[v] = q.lane[v]
        /\ p.wstate \in [Requests -> {"none", "queued", "granted"}] /\ p.lane \in [Requests -> Lanes]
    <2>1. /\ p.wstate = [q.wstate EXCEPT ![w] = "none"] /\ p.lane = [q.lane EXCEPT ![w] = TRUE]
          /\ q.wstate \in [Requests -> {"none", "queued", "granted"}] /\ q.lane \in [Requests -> Lanes]
          /\ TRUE \in Lanes
      BY <1>1, QueueParts DEF Lanes
    <2> QED
      BY <2>1
  <1>3. p \in Queues
    <2>1. /\ p.queues \in [Lanes -> [Tenants -> Seq(Requests)]] /\ p.rr \in [Lanes -> Seq(Tenants)]
          /\ p.turn \in [Lanes -> BOOLEAN] /\ p.enabled \in [Lanes -> BOOLEAN] /\ p.count \in Int
      BY <1>1, QueueParts
    <2>2. p = [queues |-> p.queues, rr |-> p.rr, turn |-> p.turn, enabled |-> p.enabled,
                wstate |-> p.wstate, lane |-> p.lane, count |-> p.count]
      BY <1>1
    <2> QED
      BY <1>2, <2>1, <2>2 DEF Queues
  <1>4. AllQueued(p) = AllQueued(q)
    BY <1>2 DEF AllQueued
  <1>5. \A m \in Lanes, u \in Tenants : QueuedIn(p, m, u) = QueuedIn(q, m, u)
    <2>1. w \notin AllQueued(q) /\ AllQueued(q) \subseteq Requests
      BY DEF AllQueued
    <2> QED
      BY <1>2, <1>4, <2>1 DEF QueuedIn
  <1>6. Exact(p) /\ Placed(p)
    BY <1>1, <1>4, <1>5 DEF Exact, Placed
  <1> QED
    BY <1>1, <1>2, <1>3, <1>6 DEF Without, p

\* The task that has the turn of a lane, or was granted it, gives it back and leaves.
LEMMA TurnReturned ==
    ASSUME NEW q \in Queues, NEW p \in Queues, NEW place \in Places, NEW l \in Lanes,
           WaitsAgree(q, place), OneTurn(q, place), NEW w \in Holders(q, place, l),
           p.turn = [q.turn EXCEPT ![l] = FALSE], Without(p, q, w)
    PROVE  LET next == [place EXCEPT ![w] = Out]
           IN  next \in Places /\ WaitsAgree(p, next) /\ OneTurn(p, next)
  <1> DEFINE next == [place EXCEPT ![w] = Out]
  <1>0. /\ p.wstate[w] = "none"
        /\ \A v \in Requests : v # w => p.wstate[v] = q.wstate[v] /\ p.lane[v] = q.lane[v]
    BY DEF Without
  <1>1. w \in Requests
    BY DEF Holders
  <1>2. /\ next \in Places /\ next[w] = Out
        /\ \A v \in Requests : v # w => next[v] = place[v]
    BY <1>1 DEF Places, Out, Lanes
  <1> HIDE DEF next
  <1>3. WaitsAgree(p, next)
    BY <1>0, <1>2 DEF WaitsAgree, Out
  <1>4. /\ ~p.turn[l]
        /\ \A m \in Lanes : m # l => p.turn[m] = q.turn[m]
    <2>1. q.turn \in [Lanes -> BOOLEAN]
      BY QueueParts
    <2> QED
      BY <2>1
  <1>5. Holders(p, next, l) = {}
    <2> SUFFICES ASSUME NEW v \in Holders(p, next, l) PROVE FALSE
      OBVIOUS
    <2>1. CASE v = w
      BY <1>0, <1>2, <2>1 DEF Holders, Out
    <2>2. CASE v # w
      <3>1. v \in Holders(q, place, l)
        BY <1>0, <1>2, <2>2 DEF Holders
      <3> QED
        BY <2>2, <3>1 DEF OneTurn
    <2> QED
      BY <2>1, <2>2
  <1>6. \A m \in Lanes : m # l => Holders(p, next, m) = Holders(q, place, m)
    <2> SUFFICES ASSUME NEW m \in Lanes, m # l
                 PROVE  Holders(p, next, m) = Holders(q, place, m)
      OBVIOUS
    <2>1. w \notin Holders(q, place, m)
      BY <1>1 DEF Holders, WaitsAgree
    <2>2. w \notin Holders(p, next, m)
      BY <1>0, <1>2 DEF Holders, Out
    <2>3. \A v \in Requests : v # w => (v \in Holders(p, next, m) <=> v \in Holders(q, place, m))
      BY <1>0, <1>2 DEF Holders
    <2>4. Holders(p, next, m) \subseteq Requests /\ Holders(q, place, m) \subseteq Requests
      BY DEF Holders
    <2> QED
      BY <2>1, <2>2, <2>3, <2>4
  <1>7. OneTurn(p, next)
    <2> SUFFICES ASSUME NEW m \in Lanes
                 PROVE  /\ \A v, x \in Holders(p, next, m) : v = x
                        /\ p.turn[m] <=> Holders(p, next, m) # {}
      BY DEF OneTurn
    <2>1. CASE m = l
      BY <1>4, <1>5, <2>1
    <2>2. CASE m # l
      BY <1>4, <1>6, <2>2 DEF OneTurn
    <2> QED
      BY <2>1, <2>2
  <1> QED
    BY <1>2, <1>3, <1>7 DEF next

\* The turn of a lane, or its promotion, is switched.
LEMMA SwitchKeeps ==
    ASSUME NEW q \in Queues, NEW l \in Lanes, NEW p, Switched(p, q, l)
    PROVE  /\ p \in Queues
           /\ p.queues = q.queues /\ p.rr = q.rr /\ p.wstate = q.wstate /\ p.lane = q.lane
           /\ p.count = q.count
           /\ Exact(q) => Exact(p)
           /\ Placed(q) => Placed(p)
           /\ OthersServed(q, p, l)
  <1>0. PICK b \in BOOLEAN : p = [q EXCEPT !.turn[l] = b] \/ p = [q EXCEPT !.enabled[l] = b]
    BY DEF Switched
  <1>1. /\ p.queues = q.queues /\ p.rr = q.rr /\ p.wstate = q.wstate /\ p.lane = q.lane
        /\ p.count = q.count
        /\ \/ p.turn = [q.turn EXCEPT ![l] = b] /\ p.enabled = q.enabled
           \/ p.turn = q.turn /\ p.enabled = [q.enabled EXCEPT ![l] = b]
        /\ p = [queues |-> p.queues, rr |-> p.rr, turn |-> p.turn, enabled |-> p.enabled,
                wstate |-> p.wstate, lane |-> p.lane, count |-> p.count]
    BY <1>0 DEF Queues
  <1>2. q.turn \in [Lanes -> BOOLEAN] /\ q.enabled \in [Lanes -> BOOLEAN]
    BY QueueParts
  <1>3. p.turn \in [Lanes -> BOOLEAN] /\ p.enabled \in [Lanes -> BOOLEAN]
    <2>1. CASE p.turn = [q.turn EXCEPT ![l] = b] /\ p.enabled = q.enabled
      BY <1>2, <2>1
    <2>2. CASE p.turn = q.turn /\ p.enabled = [q.enabled EXCEPT ![l] = b]
      BY <1>2, <2>2
    <2> QED
      BY <1>1, <2>1, <2>2
  <1>4. p \in Queues
    <2>1. /\ p.queues \in [Lanes -> [Tenants -> Seq(Requests)]] /\ p.rr \in [Lanes -> Seq(Tenants)]
          /\ p.wstate \in [Requests -> {"none", "queued", "granted"}]
          /\ p.lane \in [Requests -> Lanes] /\ p.count \in Int
      BY <1>1, QueueParts
    <2>2. p = [queues |-> p.queues, rr |-> p.rr, turn |-> p.turn, enabled |-> p.enabled,
                wstate |-> p.wstate, lane |-> p.lane, count |-> p.count]
      BY <1>1
    <2> QED
      BY <1>3, <2>1, <2>2 DEF Queues
  <1>5. Exact(q) => Exact(p)
    BY <1>1 DEF Exact, QueuedIn, AllQueued
  <1>6. Placed(q) => Placed(p)
    BY <1>1 DEF Placed
  <1>7. \A m \in Lanes : m # l => p.turn[m] = q.turn[m] /\ p.enabled[m] = q.enabled[m]
    BY <1>1, <1>2
  <1>8. \A m \in Lanes : WaitersOf(p, m) = WaitersOf(q, m)
    BY <1>1 DEF WaitersOf
  <1>9. \A m \in Lanes : m # l /\ Served(q, m) => Served(p, m)
    BY <1>7, <1>8 DEF Served
  <1> QED
    BY <1>1, <1>4, <1>5, <1>6, <1>9 DEF OthersServed

\* finish_turn, by the task that has the turn or was granted it: the lane is promoted.
LEMMA FinishTurnKeeps ==
    ASSUME NEW q \in Queues, NEW g \in Queues, NEW place \in Places, NEW l \in Lanes,
           WaitsAgree(q, place), OneTurn(q, place), NEW w \in Holders(q, place, l),
           \A m \in Lanes : Served(q, m),
           Exact(g), Placed(g), g.queues = q.queues, g.turn = q.turn, g.enabled = q.enabled,
           g.count = q.count, Without(g, q, w)
    PROVE  LET p == FinishTurn(g, l)
           IN  /\ Coherent(p, [place EXCEPT ![w] = Out])
               /\ \A m \in Lanes : Served(p, m)
               /\ p.count <= q.count /\ p.enabled = q.enabled
  <1> DEFINE f == [g EXCEPT !.turn[l] = FALSE]
             next == [place EXCEPT ![w] = Out]
             p == FinishTurn(g, l)
  <1>1. /\ f \in Queues /\ Exact(f) /\ Placed(f)
        /\ f.wstate = g.wstate /\ f.lane = g.lane /\ f.count = g.count
        /\ OthersServed(g, f, l) /\ f.enabled = g.enabled
    <2>1. Switched(f, g, l)
      BY DEF Switched
    <2>2. f.enabled = g.enabled
      BY DEF Queues
    <2> HIDE DEF f
    <2> QED
      BY <2>1, <2>2, SwitchKeeps
  <1>2. f.turn = [q.turn EXCEPT ![l] = FALSE]
    BY DEF Queues
  <1>3. p = Promote(f, l)
    BY DEF FinishTurn
  <1>4. \A m \in Lanes : Served(g, m)
    BY DEF Served, WaitersOf
  <1> HIDE DEF f, p, next
  <1>5. next \in Places /\ WaitsAgree(f, next) /\ OneTurn(f, next)
    <2>1. Without(f, q, w)
      BY <1>1 DEF Without
    <2> QED
      BY <1>1, <1>2, <2>1, TurnReturned DEF next
  <1>6. Coherent(f, next)
    BY <1>1, <1>5 DEF Coherent
  <1>7. /\ Coherent(p, next) /\ Served(p, l)
        /\ OthersServed(f, p, l) /\ p.count <= f.count /\ p.enabled = f.enabled
    BY <1>3, <1>6, PromoteKeeps
  <1>8. \A m \in Lanes : Served(p, m)
    BY <1>1, <1>4, <1>7 DEF OthersServed
  <1> QED
    BY <1>1, <1>7, <1>8 DEF p, next
-----------------------------------------------------------------------------
(* The methods, as they are called by a task. *)

Moved(place, w, x) == [place EXCEPT ![w] = x]

LEMMA MovedIs ==
    ASSUME NEW place \in Places, NEW w \in Requests,
           NEW x \in [ph : {"out", "waiting", "turn"}, lane : Lanes], NEW next,
           next = Moved(place, w, x)
    PROVE  next \in Places /\ next[w] = x /\ \A v \in Requests : v # w => next[v] = place[v]
  BY DEF Moved, Places

LEMMA PlacedIn ==
    ASSUME NEW place \in Places, NEW w \in Requests
    PROVE  /\ place[w] \in [ph : {"out", "waiting", "turn"}, lane : Lanes]
           /\ place[w].lane \in Lanes /\ Out \in [ph : {"out", "waiting", "turn"}, lane : Lanes]
  BY DEF Places, Out, Lanes

LEMMA SoundParts ==
    ASSUME NEW q, NEW place, Sound(q, place)
    PROVE  /\ Coherent(q, place) /\ q \in Queues /\ place \in Places
           /\ Exact(q) /\ Placed(q) /\ WaitsAgree(q, place) /\ OneTurn(q, place)
           /\ \A l \in Lanes : Served(q, l)
           /\ q.count <= QueueLimit /\ q.count \in Int
  BY QueueParts DEF Sound, Coherent

\* wait_turn: the queue has room, and the lane is promoted after the task has joined it.
LEMMA ArriveKeeps ==
    ASSUME NEW q, NEW place, Sound(q, place), NEW w \in Requests, NEW l \in Lanes,
           place[w].ph = "out", CanWait(q), NEW p, p = WaitTurn(q, w, l),
           NEW next, next = Moved(place, w, [ph |-> "waiting", lane |-> l])
    PROVE  Sound(p, next) /\ p.enabled = q.enabled
  <1>i. /\ Coherent(q, place) /\ q \in Queues /\ place \in Places
        /\ Exact(q) /\ Placed(q) /\ WaitsAgree(q, place) /\ OneTurn(q, place)
        /\ \A m \in Lanes : Served(q, m)
        /\ q.count <= QueueLimit /\ q.count \in Int
    BY SoundParts
  <1> DEFINE e == Enqueued(q, w, l)
  <1>1. /\ place[w].ph = "out" /\ q.count < QueueLimit /\ p = Promote(e, l)
        /\ next = [place EXCEPT ![w] = [ph |-> "waiting", lane |-> l]]
    BY DEF CanWait, WaitTurn, Moved
  <1> HIDE DEF e
  <1>2. /\ Coherent(e, next)
        /\ OthersServed(q, e, l) /\ e.count = q.count + 1 /\ e.enabled = q.enabled
    <2>1. LET f == Enqueued(q, w, l)
              n == [place EXCEPT ![w] = [ph |-> "waiting", lane |-> l]]
          IN  /\ Coherent(f, n)
              /\ OthersServed(q, f, l) /\ f.count = q.count + 1 /\ f.enabled = q.enabled
      BY ONLY <1>1, <1>i, EnqueuedKeeps, w \in Requests, l \in Lanes
    <2> QED
      BY <1>1, <2>1 DEF e
  <1>3. /\ Coherent(p, next) /\ Served(p, l)
        /\ OthersServed(e, p, l) /\ p.count <= e.count /\ p.enabled = e.enabled
    BY <1>1, <1>2, PromoteKeeps
  <1>4. \A m \in Lanes : Served(p, m)
    BY <1>2, <1>3, <1>i DEF OthersServed
  <1>5. p.count <= QueueLimit
    <2>1. q.count \in Int /\ p.count \in Int /\ QueueLimit \in Nat
      BY <1>3, <1>i, QueueParts, QueueAssumption DEF Coherent
    <2> QED
      BY <1>1, <1>2, <1>3, <2>1
  <1> QED
    BY <1>2, <1>3, <1>4, <1>5 DEF Sound

\* The task resumes with the turn it was granted: the turn stays its own.
LEMMA TakeTurnKeeps ==
    ASSUME NEW q, NEW place, Sound(q, place), NEW w \in Requests,
           place[w].ph = "waiting", q.wstate[w] = "granted", NEW p, p = WaiterDropped(q, w),
           NEW next, next = Moved(place, w, [ph |-> "turn", lane |-> place[w].lane])
    PROVE  Sound(p, next) /\ p.enabled = q.enabled
  <1>i. /\ Coherent(q, place) /\ q \in Queues /\ place \in Places
        /\ Exact(q) /\ Placed(q) /\ WaitsAgree(q, place) /\ OneTurn(q, place)
        /\ \A m \in Lanes : Served(q, m)
        /\ q.count <= QueueLimit /\ q.count \in Int
    BY SoundParts
  <1>1. /\ place[w].ph = "waiting" /\ q.wstate[w] = "granted"
        /\ p = WaiterDropped(q, w)
        /\ next = [place EXCEPT ![w] = [ph |-> "turn", lane |-> place[w].lane]]
    BY DEF Moved
  <1>2. /\ p \in Queues /\ Exact(p) /\ Placed(p)
        /\ p.queues = q.queues /\ p.turn = q.turn /\ p.enabled = q.enabled
        /\ p.count = q.count /\ Without(p, q, w)
    BY <1>1, <1>i, DropKeepsQueues
  <1>3. /\ next \in Places /\ next[w].ph = "turn" /\ next[w].lane = place[w].lane
        /\ \A v \in Requests : v # w => next[v] = place[v]
    <2> DEFINE x == [ph |-> "turn", lane |-> place[w].lane]
    <2>1. x \in [ph : {"out", "waiting", "turn"}, lane : Lanes]
      BY <1>i, PlacedIn
    <2>2. x.ph = "turn" /\ x.lane = place[w].lane /\ next = Moved(place, w, x)
      OBVIOUS
    <2> HIDE DEF x
    <2>3. next \in Places /\ next[w] = x /\ \A v \in Requests : v # w => next[v] = place[v]
      BY ONLY <1>i, w \in Requests, <2>1, <2>2, MovedIs
    <2> QED
      BY <2>2, <2>3
  <1>4. place[w].lane = q.lane[w]
    BY <1>1, <1>i DEF WaitsAgree
  <1>5. WaitsAgree(p, next)
    BY <1>2, <1>3, <1>i DEF WaitsAgree, Without
  <1>6. \A m \in Lanes : Holders(p, next, m) = Holders(q, place, m)
    BY <1>1, <1>2, <1>3, <1>4 DEF Holders, Without
  <1>7. OneTurn(p, next)
    BY <1>2, <1>6, <1>i DEF OneTurn
  <1>8. \A m \in Lanes : Served(p, m)
    BY <1>2, <1>i DEF Served, WaitersOf
  <1> QED
    BY <1>2, <1>3, <1>5, <1>7, <1>8, <1>i DEF Sound, Coherent

\* The turn ends: the next waiter of the lane gets it.
LEMMA EndTurnKeeps ==
    ASSUME NEW q, NEW place, Sound(q, place), NEW w \in Requests,
           place[w].ph = "turn", NEW p, p = FinishTurn(q, place[w].lane),
           NEW next, next = Moved(place, w, Out)
    PROVE  Sound(p, next) /\ p.enabled = q.enabled
  <1>i. /\ Coherent(q, place) /\ q \in Queues /\ place \in Places
        /\ Exact(q) /\ Placed(q) /\ WaitsAgree(q, place) /\ OneTurn(q, place)
        /\ \A m \in Lanes : Served(q, m)
        /\ q.count <= QueueLimit /\ q.count \in Int
    BY SoundParts
  <1> DEFINE l == place[w].lane
  <1>1. /\ place[w].ph = "turn" /\ p = FinishTurn(q, l) /\ next = [place EXCEPT ![w] = Out]
        /\ l \in Lanes
    BY <1>i DEF Places, Moved
  <1>2. w \in Holders(q, place, l)
    BY <1>1 DEF Holders
  <1>3. Without(q, q, w)
    BY <1>1, <1>i, QueueParts DEF Without, WaitsAgree
  <1> HIDE DEF l
  <1>4. /\ Coherent(p, next) /\ \A m \in Lanes : Served(p, m)
        /\ p.count <= q.count /\ p.enabled = q.enabled
    <2>1. LET f == FinishTurn(q, l)
          IN  /\ Coherent(f, [place EXCEPT ![w] = Out])
              /\ \A m \in Lanes : Served(f, m)
              /\ f.count <= q.count /\ f.enabled = q.enabled
      BY <1>1, <1>2, <1>3, <1>i, FinishTurnKeeps
    <2> QED
      BY <1>1, <2>1
  <1>5. p.count <= QueueLimit
    BY <1>4, <1>i, QueueParts, QueueAssumption DEF Coherent
  <1> QED
    BY <1>4, <1>5 DEF Sound

\* _remove of a waiter that is still queued: its tenant keeps its place in the rotation.
LEMMA RemoveQueuedKeeps ==
    ASSUME NEW q, NEW place, Sound(q, place), NEW w \in Requests,
           place[w].ph = "waiting", q.wstate[w] = "queued", NEW p, p = RemoveWaiter(q, w),
           NEW next, next = Moved(place, w, Out)
    PROVE  Sound(p, next) /\ p.enabled = q.enabled
  <1>i. /\ Coherent(q, place) /\ q \in Queues /\ place \in Places
        /\ Exact(q) /\ Placed(q) /\ WaitsAgree(q, place) /\ OneTurn(q, place)
        /\ \A m \in Lanes : Served(q, m)
        /\ q.count <= QueueLimit /\ q.count \in Int
    BY SoundParts
  <1> DEFINE l == q.lane[w]
             t == TenantOf[w]
             s == q.queues[l][t]
  <1>1. /\ place[w].ph = "waiting" /\ next = [place EXCEPT ![w] = Out]
        /\ p = [WaiterDropped(q, w) EXCEPT !.queues[l][t] = RemoveFirst(@, w),
                                              !.count = @ - 1]
    BY DEF RemoveWaiter, Moved
  <1>2. l \in Lanes /\ t \in Tenants /\ s \in Seq(Requests)
    BY <1>i, QueueParts, QueueAssumption
  <1>3. w \in QueuedIn(q, l, t) /\ w \in AllQueued(q)
    BY DEF QueuedIn, AllQueued
  <1>4. IsInjective(s) /\ Range(s) = QueuedIn(q, l, t)
    BY <1>2, <1>i DEF Exact
  <1> DEFINE left == RemoveFirst(s, w)
  <1>5. left \in Seq(Requests) /\ IsInjective(left) /\ Range(left) = Range(s) \ {w}
    <2> HIDE DEF s
    <2> QED
      BY <1>2, <1>3, <1>4, RemoveFromDeque
  <1>6. /\ p.queues = [q.queues EXCEPT ![l] = [q.queues[l] EXCEPT ![t] = left]]
        /\ p.rr = q.rr /\ p.turn = q.turn /\ p.enabled = q.enabled
        /\ p.wstate = [q.wstate EXCEPT ![w] = "none"]
        /\ p.lane = [q.lane EXCEPT ![w] = TRUE]
        /\ p.count = q.count - 1
        /\ p = [queues |-> p.queues, rr |-> p.rr, turn |-> p.turn,
                  enabled |-> p.enabled, wstate |-> p.wstate, lane |-> p.lane,
                  count |-> p.count]
    <2>1. WaiterDropped(q, w) = [q EXCEPT !.wstate[w] = "none", !.lane[w] = TRUE]
      BY DEF WaiterDropped
    <2>2. q \in Queues
      BY <1>i
    <2> HIDE DEF l, t
    <2> QED
      BY <1>1, <1>2, <2>1, <2>2 DEF Queues
  <1> HIDE DEF left
  <1>7. /\ p.queues \in [Lanes -> [Tenants -> Seq(Requests)]]
        /\ \A m \in Lanes, u \in Tenants :
              p.queues[m][u] = IF m = l /\ u = t THEN left ELSE q.queues[m][u]
    <2>1. q.queues \in [Lanes -> [Tenants -> Seq(Requests)]]
      BY <1>i, QueueParts
    <2> HIDE DEF l, t, s
    <2> QED
      BY <1>2, <1>5, <1>6, <2>1
  <1>8. /\ p.wstate \in [Requests -> {"none", "queued", "granted"}]
        /\ p.lane \in [Requests -> Lanes] /\ p.wstate[w] = "none"
        /\ \A v \in Requests : v # w => p.wstate[v] = q.wstate[v] /\ p.lane[v] = q.lane[v]
    <2>1. /\ q.wstate \in [Requests -> {"none", "queued", "granted"}]
          /\ q.lane \in [Requests -> Lanes] /\ TRUE \in Lanes
      BY <1>i, QueueParts DEF Lanes
    <2>2. p.wstate = [q.wstate EXCEPT ![w] = "none"] /\ p.lane = [q.lane EXCEPT ![w] = TRUE]
      BY <1>6
    <2>3. w \in Requests
      OBVIOUS
    <2> QED
      BY ONLY <2>1, <2>2, <2>3
  <1>9. p \in Queues
    <2>1. /\ p.rr \in [Lanes -> Seq(Tenants)] /\ p.turn \in [Lanes -> BOOLEAN]
          /\ p.enabled \in [Lanes -> BOOLEAN] /\ p.count \in Int
      BY <1>6, <1>i, QueueParts
    <2>2. p = [queues |-> p.queues, rr |-> p.rr, turn |-> p.turn,
                 enabled |-> p.enabled, wstate |-> p.wstate, lane |-> p.lane,
                 count |-> p.count]
      BY <1>6
    <2> QED
      BY <1>7, <1>8, <2>1, <2>2 DEF Queues
  <1>10. AllQueued(p) = AllQueued(q) \ {w}
    BY <1>8 DEF AllQueued
  <1>11. \A m \in Lanes, u \in Tenants : QueuedIn(p, m, u) = QueuedIn(q, m, u) \ {w}
    <2>1. AllQueued(q) \subseteq Requests
      BY DEF AllQueued
    <2> QED
      BY <1>8, <1>10, <2>1 DEF QueuedIn
  <1>12. Exact(p)
    <2>1. p.count = Cardinality(AllQueued(p))
      BY <1>3, <1>6, <1>10, <1>i, QueuedIsFinite, FS_RemoveElement DEF Exact
    <2>2. \A m \in Lanes, u \in Tenants :
             IsInjective(p.queues[m][u]) /\ Range(p.queues[m][u]) = QueuedIn(p, m, u)
      <3> SUFFICES ASSUME NEW m \in Lanes, NEW u \in Tenants
                   PROVE  /\ IsInjective(p.queues[m][u])
                          /\ Range(p.queues[m][u]) = QueuedIn(p, m, u)
        OBVIOUS
      <3>1. CASE m = l /\ u = t
        <4>1. p.queues[m][u] = left /\ QueuedIn(p, m, u) = QueuedIn(q, l, t) \ {w}
          BY <1>7, <1>11, <3>1
        <4> HIDE DEF s
        <4> QED
          BY <1>4, <1>5, <4>1
      <3>2. CASE ~(m = l /\ u = t)
        <4>1. p.queues[m][u] = q.queues[m][u]
          BY <1>7, <3>2
        <4>2. QueuedIn(p, m, u) = QueuedIn(q, m, u)
          BY <1>11, <3>2 DEF QueuedIn
        <4> QED
          BY <4>1, <4>2, <1>i DEF Exact
      <3> QED
        BY <3>1, <3>2
    <2> QED
      BY <2>1, <2>2 DEF Exact
  <1>13. Placed(p)
    <2>1. s # <<>>
      BY <1>3, <1>4 DEF Range
    <2> QED
      BY <1>6, <1>7, <2>1, <1>i DEF Placed
  <1>14. /\ next \in Places /\ next[w] = Out
         /\ \A v \in Requests : v # w => next[v] = place[v]
    <2>1. next = Moved(place, w, Out) /\ Out \in [ph : {"out", "waiting", "turn"}, lane : Lanes]
      BY <1>i, PlacedIn
    <2> QED
      BY ONLY <1>i, w \in Requests, <2>1, MovedIs
  <1>15. WaitsAgree(p, next)
    <2>1. next[w].ph # "waiting" /\ p.wstate[w] = "none"
      BY ONLY <1>8, <1>14 DEF Out
    <2> QED
      BY ONLY <1>8, <1>14, <1>i, <2>1 DEF WaitsAgree
  <1>16. OneTurn(p, next)
    <2>1. \A m \in Lanes : Holders(p, next, m) = Holders(q, place, m)
      BY <1>1, <1>8, <1>14 DEF Holders, Out
    <2> QED
      BY ONLY <1>6, <2>1, <1>i DEF OneTurn
  <1>17. \A m \in Lanes : Served(p, m)
    <2> SUFFICES ASSUME NEW m \in Lanes, p.enabled[m], ~p.turn[m]
                 PROVE  WaitersOf(p, m) = {}
      BY DEF Served
    <2>1. WaitersOf(q, m) = {}
      BY <1>6, <1>i DEF Served
    <2>2. m # l
      BY <1>2, <1>3, <1>4, <2>1 DEF WaitersOf
    <2>3. \A u \in Tenants : p.queues[m][u] = q.queues[m][u]
      BY <1>7, <2>2
    <2> QED
      BY <2>1, <2>3 DEF WaitersOf
  <1>18. p.count <= QueueLimit
    BY <1>6, <1>i, QueueAssumption
  <1> QED
    BY <1>6, <1>9, <1>12, <1>13, <1>14, <1>15, <1>16, <1>17, <1>18 DEF Sound, Coherent

\* _remove: a waiter that was granted the turn meanwhile passes it on.
LEMMA GiveUpKeeps ==
    ASSUME NEW q, NEW place, Sound(q, place), NEW w \in Requests,
           place[w].ph = "waiting", NEW p, p = RemoveWaiter(q, w),
           NEW next, next = Moved(place, w, Out)
    PROVE  Sound(p, next) /\ p.enabled = q.enabled
  <1>i. /\ Coherent(q, place) /\ q \in Queues /\ place \in Places
        /\ Exact(q) /\ Placed(q) /\ WaitsAgree(q, place) /\ OneTurn(q, place)
        /\ \A m \in Lanes : Served(q, m)
        /\ q.count <= QueueLimit /\ q.count \in Int
    BY SoundParts
  <1>1. place[w].ph = "waiting" /\ next = [place EXCEPT ![w] = Out] /\ p = RemoveWaiter(q, w)
    BY DEF Moved
  <1>2. q.wstate[w] \in {"queued", "granted"}
    BY <1>1, <1>i, QueueParts DEF WaitsAgree
  <1>3. CASE q.wstate[w] = "granted"
    <2> DEFINE l == q.lane[w]
               g == WaiterDropped(q, w)
    <2>1. p = FinishTurn(g, l) /\ l \in Lanes
      BY <1>1, <1>3, <1>i, QueueParts DEF RemoveWaiter
    <2>2. /\ g \in Queues /\ Exact(g) /\ Placed(g) /\ Without(g, q, w)
          /\ g.queues = q.queues /\ g.turn = q.turn /\ g.enabled = q.enabled
          /\ g.count = q.count
      BY <1>3, <1>i, DropKeepsQueues
    <2>3. w \in Holders(q, place, l)
      BY <1>3 DEF Holders
    <2> HIDE DEF g, l
    <2>4. /\ Coherent(p, next) /\ \A m \in Lanes : Served(p, m)
          /\ p.count <= q.count /\ p.enabled = q.enabled
      <3>1. /\ q \in Queues /\ place \in Places /\ WaitsAgree(q, place) /\ OneTurn(q, place)
            /\ \A m \in Lanes : Served(q, m)
        BY <1>i
      <3>2. LET f == FinishTurn(g, l)
            IN  /\ Coherent(f, [place EXCEPT ![w] = Out])
                /\ \A m \in Lanes : Served(f, m)
                /\ f.count <= q.count /\ f.enabled = q.enabled
        BY <2>1, <2>2, <2>3, <3>1, FinishTurnKeeps
      <3> QED
        BY <1>1, <2>1, <3>2
    <2>5. p.count <= QueueLimit
      BY <2>4, <1>i, QueueParts, QueueAssumption DEF Coherent
    <2> QED
      BY <2>4, <2>5 DEF Sound
  <1>4. CASE q.wstate[w] = "queued"
    BY <1>4, RemoveQueuedKeeps
  <1> QED
    BY <1>2, <1>3, <1>4

\* A switched lane leaves the tasks where they are, if the turn is left alone.
LEMMA EnabledKeeps ==
    ASSUME NEW q, NEW place, Coherent(q, place), NEW l \in Lanes, NEW p, LaneSet(p, q, l)
    PROVE  Coherent(p, place) /\ OthersServed(q, p, l) /\ p.count = q.count
  <1>0. PICK b \in BOOLEAN : p = [q EXCEPT !.enabled[l] = b]
    BY DEF LaneSet
  <1>1. q \in Queues /\ place \in Places /\ Exact(q) /\ Placed(q) /\ WaitsAgree(q, place)
        /\ OneTurn(q, place)
    BY DEF Coherent
  <1>2. Switched(p, q, l)
    BY <1>0 DEF Switched
  <1>3. /\ p \in Queues /\ Exact(p) /\ Placed(p) /\ OthersServed(q, p, l)
        /\ p.wstate = q.wstate /\ p.lane = q.lane /\ p.count = q.count
    BY <1>1, <1>2, SwitchKeeps
  <1>4. p.turn = q.turn /\ p.enabled = [q.enabled EXCEPT ![l] = b]
        /\ q.enabled \in [Lanes -> BOOLEAN]
    BY <1>0, <1>1 DEF Queues
  <1>5. WaitsAgree(p, place) /\ OneTurn(p, place)
    BY <1>1, <1>3, <1>4 DEF WaitsAgree, OneTurn, Holders
  <1> QED
    BY <1>1, <1>3, <1>4, <1>5 DEF Coherent

\* block_until_release: a stopped lane has nobody to promote.
LEMMA BlockKeeps ==
    ASSUME NEW q, NEW place, Sound(q, place), NEW l \in Lanes, NEW p, p = BlockUntilRelease(q, l)
    PROVE  Sound(p, place) /\ p.enabled = [q.enabled EXCEPT ![l] = FALSE] /\ p.count = q.count
  <1>i. /\ Coherent(q, place) /\ q \in Queues /\ place \in Places
        /\ Exact(q) /\ Placed(q) /\ WaitsAgree(q, place) /\ OneTurn(q, place)
        /\ \A m \in Lanes : Served(q, m)
        /\ q.count <= QueueLimit /\ q.count \in Int
    BY SoundParts
  <1>1. p = [q EXCEPT !.enabled[l] = FALSE]
    BY DEF BlockUntilRelease
  <1>2. /\ Coherent(p, place) /\ OthersServed(q, p, l) /\ p.count = q.count
        /\ p.enabled = [q.enabled EXCEPT ![l] = FALSE] /\ ~p.enabled[l]
    <2>1. LaneSet(p, q, l)
      BY <1>1 DEF LaneSet
    <2>2. p.enabled = [q.enabled EXCEPT ![l] = FALSE] /\ ~p.enabled[l]
      BY <1>1, <1>i DEF Queues
    <2> QED
      BY <2>1, <2>2, <1>i, EnabledKeeps
  <1>3. \A m \in Lanes : Served(p, m)
    BY <1>2, <1>i DEF OthersServed, Served
  <1> QED
    BY <1>2, <1>3, <1>i DEF Sound

\* notify_memory_released: each lane is started again and promoted.
LEMMA MemoryReleasedKeeps ==
    ASSUME NEW q, NEW place, Sound(q, place), NEW p, p = NotifyMemoryReleased(q)
    PROVE  Sound(p, place) /\ \A l \in Lanes : p.enabled[l]
  <1>i. /\ Coherent(q, place) /\ q \in Queues /\ place \in Places
        /\ Exact(q) /\ Placed(q) /\ WaitsAgree(q, place) /\ OneTurn(q, place)
        /\ \A m \in Lanes : Served(q, m)
        /\ q.count <= QueueLimit /\ q.count \in Int
    BY SoundParts
  <1> DEFINE a == [q EXCEPT !.enabled[TRUE] = TRUE]
             b == Promote(a, TRUE)
             c == [b EXCEPT !.enabled[FALSE] = TRUE]
  <1>0. TRUE \in Lanes /\ FALSE \in Lanes /\ \A l \in Lanes : l = TRUE \/ l = FALSE
    BY DEF Lanes
  <1>1. p = Promote(c, FALSE)
    BY DEF NotifyMemoryReleased
  <1>2. Coherent(a, place) /\ a.count = q.count /\ a.enabled[TRUE]
    <2>1. LaneSet(a, q, TRUE)
      BY DEF LaneSet
    <2>2. a.enabled[TRUE]
      BY <1>0, <1>i DEF Queues
    <2> HIDE DEF a
    <2> QED
      BY <1>0, <2>1, <2>2, <1>i, EnabledKeeps
  <1> HIDE DEF a
  <1>3. Coherent(b, place) /\ Served(b, TRUE) /\ b.count <= a.count /\ b.enabled = a.enabled
    BY <1>0, <1>2, PromoteKeeps
  <1> HIDE DEF b
  <1>4. /\ Coherent(c, place) /\ OthersServed(b, c, FALSE) /\ c.count = b.count
        /\ c.enabled[TRUE] = b.enabled[TRUE] /\ c.enabled[FALSE]
    <2>1. LaneSet(c, b, FALSE)
      BY DEF LaneSet
    <2>2. c.enabled[TRUE] = b.enabled[TRUE] /\ c.enabled[FALSE]
      BY <1>0, <1>3 DEF Coherent, Queues
    <2> HIDE DEF c
    <2> QED
      BY <1>0, <1>3, <2>1, <2>2, EnabledKeeps
  <1> HIDE DEF c
  <1>5. /\ Coherent(p, place) /\ Served(p, FALSE) /\ OthersServed(c, p, FALSE)
        /\ p.count <= c.count /\ p.enabled = c.enabled
    BY <1>0, <1>1, <1>4, PromoteKeeps
  <1>6. \A l \in Lanes : Served(p, l)
    BY <1>0, <1>3, <1>4, <1>5 DEF OthersServed
  <1>7. p.count <= QueueLimit
    <2>1. /\ q.count \in Int /\ a.count \in Int /\ b.count \in Int /\ c.count \in Int
          /\ p.count \in Int /\ QueueLimit \in Nat
      BY <1>2, <1>3, <1>4, <1>5, <1>i, QueueParts, QueueAssumption DEF Coherent
    <2> QED
      BY <1>2, <1>3, <1>4, <1>5, <2>1, <1>i
  <1> QED
    BY <1>0, <1>2, <1>3, <1>4, <1>5, <1>6, <1>7 DEF Sound

LEMMA EmptySound ==
    ASSUME NEW q, q = EmptyQueue, NEW place \in [Requests -> {Out}]
    PROVE  Sound(q, place)
  <1>1. q = EmptyQueue /\ (\A w \in Requests : place[w] = Out) /\ place \in [Requests -> {Out}]
    OBVIOUS
  <1>2. q \in Queues /\ place \in Places
    <2>1. place \in Places
      <3>1. Out \in [ph : {"out", "waiting", "turn"}, lane : Lanes]
        BY DEF Out, Lanes
      <3> QED
        BY <1>1, <3>1 DEF Places
    <2>2. /\ q.queues \in [Lanes -> [Tenants -> Seq(Requests)]]
          /\ q.rr \in [Lanes -> Seq(Tenants)]
      <3>1. /\ q.queues = [l \in Lanes |-> [t \in Tenants |-> <<>>]]
            /\ q.rr = [l \in Lanes |-> <<>>]
        BY <1>1 DEF EmptyQueue
      <3>2. <<>> \in Seq(Requests) /\ <<>> \in Seq(Tenants)
        OBVIOUS
      <3> QED
        BY <3>1, <3>2
    <2>3. /\ q.turn \in [Lanes -> BOOLEAN] /\ q.enabled \in [Lanes -> BOOLEAN]
          /\ q.wstate \in [Requests -> {"none", "queued", "granted"}]
          /\ q.lane \in [Requests -> Lanes] /\ q.count \in Int
      BY <1>1 DEF EmptyQueue, Lanes
    <2>4. q = [queues |-> q.queues, rr |-> q.rr, turn |-> q.turn, enabled |-> q.enabled,
                wstate |-> q.wstate, lane |-> q.lane, count |-> q.count]
      BY <1>1 DEF EmptyQueue
    <2> QED
      BY <2>1, <2>2, <2>3, <2>4 DEF Queues
  <1>3. /\ AllQueued(q) = {} /\ q.count = 0 /\ \A w \in Requests : q.wstate[w] = "none"
        /\ \A l \in Lanes, t \in Tenants : q.queues[l][t] = <<>>
        /\ \A l \in Lanes : q.turn[l] = FALSE
    BY <1>1 DEF EmptyQueue, AllQueued
  <1>4. \A l \in Lanes, t \in Tenants : QueuedIn(q, l, t) = {}
    BY <1>3 DEF QueuedIn
  <1>5. Exact(q) /\ Placed(q)
    <2>1. IsInjective(<<>>) /\ Range(<<>>) = {}
      BY DEF IsInjective, Range
    <2> QED
      BY <1>3, <1>4, <2>1, FS_EmptySet DEF Exact, Placed
  <1>6. WaitsAgree(q, place)
    BY <1>1, <1>3 DEF WaitsAgree, Out
  <1>7. \A l \in Lanes : Holders(q, place, l) = {} /\ WaitersOf(q, l) = {}
    BY <1>1, <1>3 DEF Holders, WaitersOf, Out, Range
  <1>8. OneTurn(q, place) /\ \A l \in Lanes : Served(q, l)
    BY <1>3, <1>7 DEF OneTurn, Served
  <1> QED
    BY <1>2, <1>3, <1>5, <1>6, <1>8, QueueAssumption DEF Sound, Coherent

LEMMA QueueStarts == QueueInit => QueueInv
  BY EmptySound DEF QueueInit, QueueInv

LEMMA QueueStep == QueueInv /\ [QueueNext]_queueVars => QueueInv'
  <1> SUFFICES ASSUME QueueInv, [QueueNext]_queueVars PROVE QueueInv'
    OBVIOUS
  <1>1. ASSUME NEW w \in Requests, NEW l \in Lanes, Arrive(w, l) PROVE QueueInv'
    <2>1. at' = Moved(at, w, [ph |-> "waiting", lane |-> l])
      BY <1>1 DEF Arrive, Moved
    <2> QED
      BY <1>1, <2>1, ArriveKeeps DEF QueueInv, Arrive
  <1>2. ASSUME NEW w \in Requests, TakeTurn(w) PROVE QueueInv'
    <2>1. at' = Moved(at, w, [ph |-> "turn", lane |-> at[w].lane])
      <3>1. at \in Places
        BY SoundParts DEF QueueInv
      <3>2. at[w] = [ph |-> at[w].ph, lane |-> at[w].lane]
        BY <3>1 DEF Places
      <3>3. at' = [at EXCEPT ![w].ph = "turn"]
        BY <1>2 DEF TakeTurn
      <3>4. [at[w] EXCEPT !.ph = "turn"] = [ph |-> "turn", lane |-> at[w].lane]
        BY <3>2
      <3>5. [at EXCEPT ![w].ph = "turn"] = [at EXCEPT ![w] = [at[w] EXCEPT !.ph = "turn"]]
        BY <3>1 DEF Places
      <3> QED
        BY <3>3, <3>4, <3>5 DEF Moved
    <2> DEFINE next == at'
               p == wq'
    <2>2. /\ next = Moved(at, w, [ph |-> "turn", lane |-> at[w].lane]) /\ p = WaiterDropped(wq, w)
          /\ at[w].ph = "waiting" /\ wq.wstate[w] = "granted" /\ Sound(wq, at)
      BY <1>2, <2>1 DEF QueueInv, TakeTurn
    <2> HIDE DEF next, p
    <2>3. Sound(p, next)
      BY ONLY w \in Requests, <2>2, TakeTurnKeeps
    <2> QED
      BY <2>3 DEF QueueInv, next, p
  <1>3. ASSUME NEW w \in Requests, GiveUp(w) PROVE QueueInv'
    <2>1. at' = Moved(at, w, Out)
      BY <1>3 DEF GiveUp, Moved
    <2> QED
      BY <1>3, <2>1, GiveUpKeeps DEF QueueInv, GiveUp
  <1>4. ASSUME NEW w \in Requests, EndTurn(w) PROVE QueueInv'
    <2>1. at' = Moved(at, w, Out)
      BY <1>4 DEF EndTurn, Moved
    <2> QED
      BY <1>4, <2>1, EndTurnKeeps DEF QueueInv, EndTurn
  <1>5. ASSUME NEW l \in Lanes, Block(l) PROVE QueueInv'
    BY <1>5, BlockKeeps DEF QueueInv, Block
  <1>6. CASE MemoryReleased
    BY <1>6, MemoryReleasedKeeps DEF QueueInv, MemoryReleased
  <1>7. CASE UNCHANGED queueVars
    BY <1>7 DEF queueVars, QueueInv
  <1> QED
    BY <1>1, <1>2, <1>3, <1>4, <1>5, <1>6, <1>7 DEF QueueNext

LEMMA QueueInvAlways == QueueSpec => []QueueInv
  BY QueueStarts, QueueStep, PTL DEF QueueSpec

\* The values the queue and the tasks may have, for any tasks, tenants and limit.
THEOREM QueueTypeCorrect == QueueSpec => []QueueTypeOK
  <1>1. QueueInv => QueueTypeOK
    BY SoundParts DEF QueueInv, QueueTypeOK
  <1> QED
    BY <1>1, QueueInvAlways, PTL

\* The deques, the count and the rotation of the wait queue agree after every removal,
\* promotion and return of memory; no lane with a free turn leaves anybody waiting; and a
\* turn belongs to one task, which still is there to end it (_FairBodyMemoryWaitQueue).
THEOREM QueueIsSound == QueueSpec => []QueueSound
  <1>1. QueueInv => QueueSound
    BY SoundParts DEF QueueInv, QueueSound, QueueIsExact, NobodyForgotten
  <1> QED
    BY <1>1, QueueInvAlways, PTL
==============================================================================
