---------------------------- MODULE ResourceProofs ----------------------------
(***************************************************************************)
(* Proofs about the resources that requests share: the parent memory       *)
(* budget (MemoryGovernor), the descriptors (NetworkGovernor), the CPU     *)
(* tokens with the memory of what is parsed (OwnedJson) and the bytes that *)
(* streams retain (StreamQueue).  The four have no variable in common;     *)
(* each has an invariant of its own.                                       *)
(***************************************************************************)
EXTENDS MemoryGovernor, NetworkGovernor, OwnedJson, StreamQueue, SumTheorems,
        SequenceTheorems

-----------------------------------------------------------------------------
(* OwnedJson: what a task holds is settled by where it stands. *)

OwnedTypeOK ==
    /\ token \in [Parsers -> {"idle", "split", "wants", "held", "over"}]
    /\ thread \in [Parsers -> {"none", "running", "done"}]
    /\ counted \in Nat
    /\ graph \in [Parsers -> {"none", "live", "closed"}]
    /\ paid \in [Parsers -> {"nobody", "owner", "taker", "returned"}]
    /\ space \in [Parsers -> {"none", "held", "returned"}]
    /\ closer \in [Parsers -> {"none", "running", "done"}]
    /\ cancelled \in [Parsers -> BOOLEAN]

HoldingToken == {p \in Parsers : token[p] = "held"}

TokensCounted ==
    /\ IsFiniteSet(HoldingToken)
    /\ counted = Cardinality(HoldingToken) /\ counted <= PhaseLimit

\* Before it is over a task has no value yet and nothing is returned; afterwards what is
\* still held is held by a value that is in use, which a running clean-up is about to close.
PaidByStage(p) ==
    /\ thread[p] = "running" => token[p] = "held"
    /\ token[p] # "over" => graph[p] = "none" /\ closer[p] = "none"
    /\ token[p] # "over" => paid[p] \in {"nobody", "owner"} /\ space[p] # "returned"
    /\ token[p] \in {"idle", "split"} => paid[p] = "nobody"
    /\ token[p] = "over" /\ graph[p] # "live" => paid[p] # "owner" /\ space[p] # "held"
    /\ graph[p] = "live" => paid[p] # "returned" /\ space[p] # "returned"
    /\ closer[p] = "running" => graph[p] = "live"
    /\ closer[p] = "done" => graph[p] = "closed"

OwnedInv == OwnedTypeOK /\ TokensCounted /\ \A p \in Parsers : PaidByStage(p)

\* One more task holds a token, or one fewer.
LEMMA TokenMoves ==
    ASSUME TokensCounted, OwnedTypeOK, NEW p \in Parsers
    PROVE  /\ token[p] # "held" =>
                /\ IsFiniteSet(HoldingToken \cup {p})
                /\ Cardinality(HoldingToken \cup {p}) = counted + 1
           /\ token[p] = "held" =>
                /\ IsFiniteSet(HoldingToken \ {p})
                /\ Cardinality(HoldingToken \ {p}) = counted - 1 /\ counted > 0
  <1>1. CASE token[p] # "held"
    BY <1>1, FS_AddElement DEF TokensCounted, HoldingToken
  <1>2. CASE token[p] = "held"
    <2>1. p \in HoldingToken
      BY <1>2 DEF HoldingToken
    <2>2. /\ IsFiniteSet(HoldingToken \ {p})
          /\ Cardinality(HoldingToken \ {p}) = Cardinality(HoldingToken) - 1
      BY <2>1, FS_RemoveElement DEF TokensCounted
    <2>3. Cardinality(HoldingToken \ {p}) \in Nat
      BY <2>2, FS_CardinalityType
    <2> QED
      BY <1>2, <2>2, <2>3 DEF TokensCounted, OwnedTypeOK
  <1> QED
    BY <1>1, <1>2

\* A step that gives or takes no token leaves the count right.
LEMMA TokensStay ==
    ASSUME TokensCounted, HoldingToken' = HoldingToken, counted' = counted
    PROVE  TokensCounted'
  BY DEF TokensCounted

LEMMA OwnedInvInit == OwnedInit => OwnedInv
  <1> SUFFICES ASSUME OwnedInit PROVE OwnedInv
    OBVIOUS
  <1>1. OwnedTypeOK /\ \A p \in Parsers : PaidByStage(p)
    BY DEF OwnedInit, OwnedTypeOK, PaidByStage
  <1>2. HoldingToken = {}
    BY DEF OwnedInit, HoldingToken
  <1>3. TokensCounted
    BY <1>2, FS_EmptySet, CpuAssumption DEF OwnedInit, TokensCounted
  <1> QED
    BY <1>1, <1>3 DEF OwnedInv

\* Before the parse: the workspace and the graph are reserved or refused, a token is
\* asked for, and the caller may be cancelled.
LEMMA BeforeParse ==
    ASSUME OwnedInv, NEW p \in Parsers,
           \/ ReserveSpace(p) \/ EventWithoutJson(p) \/ RefuseEvent(p) \/ ReserveGraph(p)
           \/ GiveUpToken(p) \/ CancelParser(p) \/ CallbackEnds(p)
    PROVE  OwnedInv'
  <1> USE DEF ReserveSpace, EventWithoutJson, RefuseEvent, ReserveGraph, GiveUpToken,
              CancelParser, CallbackEnds, SpaceReturned, AfterFailure, OwnedInv
  <1>1. OwnedTypeOK'
    <2>1. CASE ReserveSpace(p) \/ ReserveGraph(p)
      BY <2>1 DEF OwnedTypeOK
    <2>2. CASE EventWithoutJson(p) \/ RefuseEvent(p)
      BY <2>2 DEF OwnedTypeOK
    <2>3. CASE GiveUpToken(p)
      BY <2>3 DEF OwnedTypeOK
    <2>4. CASE CancelParser(p) \/ CallbackEnds(p)
      BY <2>4 DEF OwnedTypeOK
    <2> QED
      BY <2>1, <2>2, <2>3, <2>4
  <1>2. TokensCounted'
    <2>1. HoldingToken' = HoldingToken /\ counted' = counted
      BY DEF HoldingToken, OwnedTypeOK
    <2> QED
      BY <2>1, TokensStay
  <1>3. ASSUME NEW other \in Parsers PROVE PaidByStage(other)'
    <2>1. PaidByStage(p) /\ PaidByStage(other)
      OBVIOUS
    <2> QED
      BY <2>1 DEF PaidByStage, OwnedTypeOK
  <1> QED
    BY <1>1, <1>2, <1>3

\* The token is taken only while fewer than the limit are held.
LEMMA AcquireKeeps ==
    ASSUME OwnedInv, NEW p \in Parsers, AcquireToken(p)
    PROVE  OwnedInv'
  <1> USE DEF AcquireToken, OwnedInv
  <1>1. OwnedTypeOK'
    BY DEF OwnedTypeOK
  <1>2. TokensCounted'
    <2>1. HoldingToken' = HoldingToken \cup {p} /\ token[p] # "held"
      BY DEF HoldingToken, OwnedTypeOK
    <2>2. IsFiniteSet(HoldingToken \cup {p}) /\ Cardinality(HoldingToken \cup {p}) = counted + 1
      BY <2>1, TokenMoves
    <2>3. counted' = counted + 1 /\ counted' <= PhaseLimit
      BY CpuAssumption DEF OwnedTypeOK
    <2> QED
      BY <2>1, <2>2, <2>3 DEF TokensCounted
  <1>3. ASSUME NEW other \in Parsers PROVE PaidByStage(other)'
    <2>1. PaidByStage(p) /\ PaidByStage(other)
      OBVIOUS
    <2> QED
      BY <2>1 DEF PaidByStage, OwnedTypeOK
  <1> QED
    BY <1>1, <1>2, <1>3

\* The parse is over: on a thread, which is done by then, or in the caller's own step.
LEMMA ParseKeeps ==
    ASSUME OwnedInv, NEW p \in Parsers, NEW parsed \in BOOLEAN,
           PhaseEnds(p, parsed) \/ ParseInline(p, parsed)
    PROVE  OwnedInv'
  <1> USE DEF PhaseEnds, PhaseOver, ParseInline, SpaceReturned, AfterFailure, OwnedInv
  <1>1. TokensCounted' /\ counted' \in Nat
    <2>1. CASE PhaseEnds(p, parsed)
      <3>1. HoldingToken' = HoldingToken \ {p} /\ token[p] = "held"
        BY <2>1 DEF HoldingToken, OwnedTypeOK
      <3>2. /\ IsFiniteSet(HoldingToken \ {p})
            /\ Cardinality(HoldingToken \ {p}) = counted - 1 /\ counted > 0
        BY <3>1, TokenMoves
      <3>3. counted' = counted - 1 /\ counted' <= PhaseLimit /\ counted' \in Nat
        BY <2>1, <3>2, CpuAssumption DEF OwnedTypeOK, TokensCounted
      <3> QED
        BY <3>1, <3>2, <3>3 DEF TokensCounted
    <2>2. CASE ParseInline(p, parsed)
      <3>1. HoldingToken' = HoldingToken /\ counted' = counted
        BY <2>2 DEF HoldingToken, OwnedTypeOK
      <3> QED
        BY <3>1, TokensStay DEF OwnedTypeOK
    <2> QED
      BY <2>1, <2>2
  <1>2. OwnedTypeOK'
    BY <1>1 DEF OwnedTypeOK
  <1>3. ASSUME NEW other \in Parsers PROVE PaidByStage(other)'
    <2>1. PaidByStage(p) /\ PaidByStage(other)
      OBVIOUS
    <2> QED
      BY <2>1 DEF PaidByStage, OwnedTypeOK
  <1> QED
    BY <1>1, <1>2, <1>3

\* The value is in use until its owner closes it or hands its reservation on.
LEMMA ValueKeeps ==
    ASSUME OwnedInv, NEW p \in Parsers,
           TakeReservation(p) \/ CloseValue(p) \/ CloseOnce(p)
    PROVE  OwnedInv'
  <1> USE DEF TakeReservation, CloseValue, CloseOnce, Open, SpaceReturned, OwnedInv
  <1>1. OwnedTypeOK'
    BY DEF OwnedTypeOK
  <1>2. TokensCounted'
    <2>1. HoldingToken' = HoldingToken /\ counted' = counted
      BY DEF HoldingToken
    <2> QED
      BY <2>1, TokensStay
  <1>3. ASSUME NEW other \in Parsers PROVE PaidByStage(other)'
    <2>1. PaidByStage(p) /\ PaidByStage(other)
      OBVIOUS
    <2> QED
      BY <2>1 DEF PaidByStage, OwnedTypeOK
  <1> QED
    BY <1>1, <1>2, <1>3

\* Running callbacks are among the tokens held, which are no more than the limit.
LEMMA OwnedIsPaid == OwnedInv => JsonPaid
  <1> SUFFICES ASSUME OwnedInv PROVE JsonPaid
    OBVIOUS
  <1> DEFINE Running == {p \in Parsers : thread[p] = "running"}
  <1>1. Running \subseteq HoldingToken
    BY DEF OwnedInv, PaidByStage, HoldingToken
  <1>2. Cardinality(Running) <= Cardinality(HoldingToken) /\ IsFiniteSet(Running)
    BY <1>1, FS_Subset DEF OwnedInv, TokensCounted
  <1>3. Cardinality(Running) <= PhaseLimit
    BY <1>2, FS_CardinalityType, CpuAssumption DEF OwnedInv, OwnedTypeOK, TokensCounted
  <1>4. TokensCoverThreads
    BY <1>3 DEF OwnedInv, TokensCounted, TokensCoverThreads, HoldingToken
  <1>5. GraphPaidOnce
    BY DEF OwnedInv, PaidByStage, GraphPaidOnce
  <1> QED
    BY <1>4, <1>5 DEF JsonPaid

\* For any tasks and any number of tokens: no more callbacks run than there are tokens,
\* wherever their callers are cancelled, and the memory of a graph and of an event's text is
\* held as long as they are in use and is returned or handed on after that.
THEOREM ParsesArePaid == OwnedSpec => []JsonPaid
  <1>1. OwnedInv /\ [OwnedNext]_jsonVars => OwnedInv'
    <2>1. OwnedInv /\ OwnedNext => OwnedInv'
      BY BeforeParse, AcquireKeeps, ParseKeeps, ValueKeeps DEF OwnedNext
    <2>2. OwnedInv /\ UNCHANGED jsonVars => OwnedInv'
      BY DEF OwnedInv, OwnedTypeOK, TokensCounted, HoldingToken, PaidByStage, jsonVars
    <2> QED
      BY <2>1, <2>2
  <1> QED
    BY <1>1, OwnedInvInit, OwnedIsPaid, PTL DEF OwnedSpec

-----------------------------------------------------------------------------
(* NetworkGovernor, for any attempts and any room, with samples taken at any time. *)

Values == [known : BOOLEAN, fds : Nat, attempts : SUBSET Attempts, completed : Nat, inbound : Nat,
           out : SUBSET Attempts, in : Nat]

NetworkTypeOK ==
    /\ net \in Values
    /\ IsFiniteSet(net.attempts) /\ IsFiniteSet(net.out)

Charged(n) == n.fds + Cardinality(n.attempts) + n.completed + n.inbound

\* With a sample to go by, the account never shows less than what is open or may be opened:
\* a socket opened since the sample is charged to its attempt, or to the completed ones, until
\* a sample shows it; one that was let in unseen is shown by the sample that ends the unseen
\* time.  The room itself is not a bound on what is wanted, nor on the account.
NothingUncharged == net.known => Wanted(net) <= Charged(net)

NetworkInv == NetworkTypeOK /\ NothingUncharged

\* What HeadroomRespected says of a step.
WithinRoom == net'.known /\ Wanted(net') > Wanted(net) => Wanted(net') <= FdRoom

\* The three counts of a value of net are numbers.
LEMMA CountsAreNumbers ==
    ASSUME NEW n \in Values, IsFiniteSet(n.attempts), IsFiniteSet(n.out)
    PROVE  /\ Cardinality(n.attempts) \in Nat /\ Cardinality(n.out) \in Nat
           /\ Cardinality(n.attempts \ n.out) \in Nat
           /\ Cardinality(n.attempts \ n.out) <= Cardinality(n.attempts)
           /\ Wanted(n) \in Nat /\ Charged(n) \in Nat
           /\ FdHeadroom(n) = FdRoom - Charged(n)
  <1>1. IsFiniteSet(n.attempts \ n.out)
        /\ Cardinality(n.attempts \ n.out) <= Cardinality(n.attempts)
    <2>1. n.attempts \ n.out \in SUBSET n.attempts
      OBVIOUS
    <2> QED
      BY <2>1, FS_Subset
  <1>2. /\ Cardinality(n.attempts) \in Nat /\ Cardinality(n.out) \in Nat
        /\ Cardinality(n.attempts \ n.out) \in Nat
    BY <1>1, FS_CardinalityType
  <1>3. n.fds \in Nat /\ n.completed \in Nat /\ n.inbound \in Nat /\ n.in \in Nat
    BY DEF Values
  <1> QED
    BY <1>1, <1>2, <1>3, NetworkAssumption DEF Wanted, Charged, FdHeadroom

\* A new sample counts what is open, or is unknown, and keeps the attempts and sockets.
LEMMA SampleParts ==
    ASSUME NEW n \in Values, NEW m \in Samples(n), m # n, Cardinality(n.out) + n.in \in Nat
    PROVE  /\ m \in Values /\ m.attempts = n.attempts /\ m.out = n.out /\ m.in = n.in
           /\ m.known => m.fds = Cardinality(n.out) + n.in
  <1>1. ASSUME NEW k \in Recounted(n)
        PROVE  /\ k \in Values /\ k.attempts = n.attempts /\ k.out = n.out /\ k.in = n.in
               /\ k.known => k.fds = Cardinality(n.out) + n.in
    <2> DEFINE open == Cardinality(n.out) + n.in
    <2>1. open \in Nat
      OBVIOUS
    <2>2. \/ k = [n EXCEPT !.known = TRUE, !.fds = open]
          \/ k = [n EXCEPT !.known = FALSE, !.fds = 0]
      BY <1>1 DEF Recounted
    <2> HIDE DEF open
    <2>3. CASE k = [n EXCEPT !.known = TRUE, !.fds = open]
      BY <2>1, <2>3 DEF Values, open
    <2>4. CASE k = [n EXCEPT !.known = FALSE, !.fds = 0]
      BY <2>4 DEF Values
    <2> QED
      BY <2>2, <2>3, <2>4
  <1>2. ASSUME NEW k \in Recounted(n), m = Cleared(k)
        PROVE  /\ m \in Values /\ m.attempts = n.attempts /\ m.out = n.out /\ m.in = n.in
               /\ m.known => m.fds = Cardinality(n.out) + n.in
    BY <1>1, <1>2 DEF Cleared, Values
  <1> QED
    BY <1>1, <1>2 DEF Samples

\* A sample covers what is open, so nothing becomes uncharged by taking it.
LEMMA SampleCovers ==
    ASSUME NEW n \in Values, IsFiniteSet(n.attempts), IsFiniteSet(n.out),
           n.known => Wanted(n) <= Charged(n), NEW m \in Samples(n)
    PROVE  /\ m \in Values /\ m.attempts = n.attempts /\ m.out = n.out /\ m.in = n.in
           /\ Wanted(m) = Wanted(n) /\ (m.known => Wanted(m) <= Charged(m))
  <1>1. CASE m = n
    BY <1>1
  <1>2. CASE m # n
    <2>1. /\ Cardinality(n.attempts) \in Nat /\ Cardinality(n.out) \in Nat
          /\ Cardinality(n.attempts \ n.out) \in Nat /\ n.in \in Nat
          /\ Cardinality(n.attempts \ n.out) <= Cardinality(n.attempts)
          /\ n.completed \in Nat /\ n.inbound \in Nat
      BY CountsAreNumbers DEF Values
    <2>2. Cardinality(n.out) + n.in \in Nat
      BY <2>1
    <2>3. /\ m \in Values /\ m.attempts = n.attempts /\ m.out = n.out /\ m.in = n.in
          /\ m.known => m.fds = Cardinality(n.out) + n.in
      BY <1>2, <2>2, SampleParts
    <2>4. m.completed \in Nat /\ m.inbound \in Nat
      BY <2>3 DEF Values
    <2> QED
      BY <2>1, <2>3, <2>4 DEF Wanted, Charged
  <1> QED
    BY <1>1, <1>2

\* acquire and try_acquire: only with room below the charges is one more attempt let in.
LEMMA ReserveStep ==
    ASSUME NetworkInv, NEW a \in Attempts, Reserve(a)
    PROVE  NetworkInv' /\ WithinRoom
  <1>0. /\ net \in Values /\ IsFiniteSet(net.attempts) /\ IsFiniteSet(net.out)
        /\ (net.known => Wanted(net) <= Charged(net))
    BY DEF NetworkInv, NetworkTypeOK, NothingUncharged
  <1>1. PICK n \in Samples(net) :
          net' = IF CanReserve(n) THEN [n EXCEPT !.attempts = @ \cup {a}] ELSE n
    BY DEF Reserve
  <1>2. /\ n \in Values /\ n.attempts = net.attempts /\ n.out = net.out /\ n.in = net.in
        /\ Wanted(n) = Wanted(net) /\ (n.known => Wanted(n) <= Charged(n))
    BY <1>0, SampleCovers
  <1>3. CASE ~CanReserve(n)
    <2>1. net' = n /\ Wanted(net) \in Nat
      BY <1>0, <1>1, <1>3, CountsAreNumbers
    <2> QED
      BY <1>0, <1>2, <2>1 DEF NetworkInv, NetworkTypeOK, NothingUncharged, WithinRoom
  <1>4. CASE CanReserve(n)
    <2>1. /\ net' \in Values /\ net'.attempts = n.attempts \cup {a} /\ net'.out = n.out
          /\ net'.in = n.in /\ net'.fds = n.fds /\ net'.completed = n.completed
          /\ net'.inbound = n.inbound /\ net'.known = n.known
      BY <1>1, <1>2, <1>4 DEF Values
    <2>2. a \notin n.attempts /\ a \notin n.out
      BY <1>2 DEF Reserve
    <2>3. /\ IsFiniteSet(net'.attempts)
          /\ Cardinality(net'.attempts) = Cardinality(n.attempts) + 1
      BY <1>0, <1>2, <2>1, <2>2, FS_AddElement
    <2>4. Cardinality(net'.attempts \ net'.out) = Cardinality(n.attempts \ n.out) + 1
      <3>1. net'.attempts \ net'.out = (n.attempts \ n.out) \cup {a}
        BY <2>1, <2>2
      <3>2. IsFiniteSet(n.attempts \ n.out)
        BY <1>0, <1>2, FS_Difference
      <3> QED
        BY <2>2, <3>1, <3>2, FS_AddElement
    <2>5. /\ Wanted(n) \in Nat /\ Charged(n) \in Nat /\ FdHeadroom(n) = FdRoom - Charged(n)
          /\ Cardinality(n.attempts) \in Nat /\ Cardinality(n.out) \in Nat
          /\ Cardinality(n.attempts \ n.out) \in Nat
      BY <1>0, <1>2, CountsAreNumbers
    <2>6. n.in \in Nat /\ n.fds \in Nat /\ n.completed \in Nat /\ n.inbound \in Nat
      BY <1>2 DEF Values
    <2>7. Wanted(net)' = Wanted(n) + 1 /\ Charged(net)' = Charged(n) + 1
      BY <2>1, <2>3, <2>4, <2>5, <2>6 DEF Wanted, Charged
    <2>8. n.known => Charged(n) < FdRoom
      BY <1>4, <2>5, NetworkAssumption DEF CanReserve
    <2>9. n.known => Wanted(net)' <= Charged(net)' /\ Wanted(net)' <= FdRoom
      BY <1>2, <2>5, <2>7, <2>8, NetworkAssumption
    <2> QED
      BY <1>0, <1>2, <2>1, <2>3, <2>9
         DEF NetworkInv, NetworkTypeOK, NothingUncharged, WithinRoom
  <1> QED
    BY <1>3, <1>4

\* The end of an attempt: its charge goes over to the completed ones.
LEMMA ReleaseStep ==
    ASSUME NetworkInv, NEW a \in Attempts, ReleaseAttempt(a)
    PROVE  NetworkInv' /\ WithinRoom
  <1>0. /\ net \in Values /\ IsFiniteSet(net.attempts) /\ IsFiniteSet(net.out)
        /\ (net.known => Wanted(net) <= Charged(net))
    BY DEF NetworkInv, NetworkTypeOK, NothingUncharged
  <1>1. /\ net' \in Values /\ net'.attempts = net.attempts \ {a} /\ net'.out = net.out
        /\ net'.in = net.in /\ net'.fds = net.fds /\ net'.completed = net.completed + 1
        /\ net'.inbound = net.inbound /\ net'.known = net.known /\ a \in net.attempts
    <2>1. net.completed + 1 \in Nat /\ net.attempts \ {a} \in SUBSET Attempts
      BY <1>0 DEF Values
    <2> QED
      BY <1>0, <2>1 DEF ReleaseAttempt, Values
  <1>2. IsFiniteSet(net'.attempts) /\ Cardinality(net'.attempts) = Cardinality(net.attempts) - 1
    BY <1>0, <1>1, FS_RemoveElement
  <1>3. /\ Cardinality(net.attempts) \in Nat /\ Cardinality(net.out) \in Nat
        /\ Cardinality(net.attempts \ net.out) \in Nat
        /\ Wanted(net) \in Nat /\ Charged(net) \in Nat
    BY <1>0, CountsAreNumbers
  <1>4. /\ Cardinality(net'.attempts \ net'.out) \in Nat
        /\ Cardinality(net'.attempts \ net'.out) <= Cardinality(net.attempts \ net.out)
    <2>1. net'.attempts \ net'.out \in SUBSET (net.attempts \ net.out)
      BY <1>1
    <2>2. IsFiniteSet(net.attempts \ net.out)
      BY <1>0, FS_Difference
    <2> QED
      BY <2>1, <2>2, FS_Subset, FS_CardinalityType
  <1>5. net.in \in Nat /\ net.fds \in Nat /\ net.completed \in Nat /\ net.inbound \in Nat
    BY <1>0 DEF Values
  <1>6. Wanted(net)' <= Wanted(net) /\ Charged(net)' = Charged(net)
    BY <1>1, <1>2, <1>3, <1>4, <1>5 DEF Wanted, Charged
  <1>7. Wanted(net)' \in Nat
    BY <1>1, <1>3, <1>4, <1>5 DEF Wanted
  <1>8. net.known => Wanted(net)' <= Charged(net)'
    BY <1>0, <1>3, <1>6, <1>7
  <1> QED
    BY <1>0, <1>1, <1>2, <1>3, <1>6, <1>7, <1>8
       DEF NetworkInv, NetworkTypeOK, NothingUncharged, WithinRoom

\* A connection that is opened moves from what may be opened to what is open; one that is
\* closed was no attempt's any more.
LEMMA SocketStep ==
    ASSUME NetworkInv, NEW a \in Attempts, OpenSocket(a) \/ CloseSocket(a)
    PROVE  NetworkInv' /\ WithinRoom
  <1>0. /\ net \in Values /\ IsFiniteSet(net.attempts) /\ IsFiniteSet(net.out)
        /\ (net.known => Wanted(net) <= Charged(net))
    BY DEF NetworkInv, NetworkTypeOK, NothingUncharged
  <1>1. /\ Cardinality(net.attempts) \in Nat /\ Cardinality(net.out) \in Nat
        /\ Cardinality(net.attempts \ net.out) \in Nat
        /\ Wanted(net) \in Nat /\ Charged(net) \in Nat
        /\ net.in \in Nat
    BY <1>0, CountsAreNumbers DEF Values
  <1>2. IsFiniteSet(net.attempts \ net.out)
    BY <1>0, FS_Difference
  <1>3. CASE OpenSocket(a)
    <2>1. /\ net' \in Values /\ net' = [net EXCEPT !.out = @ \cup {a}]
          /\ net'.attempts = net.attempts /\ net'.out = net.out \cup {a}
          /\ net'.in = net.in /\ a \in net.attempts \ net.out /\ net'.known = net.known
      BY <1>0, <1>3 DEF OpenSocket, Values
    <2>2. IsFiniteSet(net'.out) /\ Cardinality(net'.out) = Cardinality(net.out) + 1
      BY <1>0, <2>1, FS_AddElement
    <2>3. net'.attempts \ net'.out = (net.attempts \ net.out) \ {a}
      BY <2>1
    <2>4. Cardinality(net'.attempts \ net'.out) = Cardinality(net.attempts \ net.out) - 1
      <3>1. Cardinality((net.attempts \ net.out) \ {a}) = Cardinality(net.attempts \ net.out) - 1
        BY <1>2, <2>1, FS_RemoveElement
      <3> QED
        BY <2>3, <3>1
    <2>5. Wanted(net)' = Wanted(net) /\ Charged(net)' = Charged(net)
      BY <1>0, <1>1, <2>1, <2>2, <2>4 DEF Wanted, Charged, Values
    <2> QED
      BY <1>0, <1>1, <2>1, <2>2, <2>5
         DEF NetworkInv, NetworkTypeOK, NothingUncharged, WithinRoom
  <1>4. CASE CloseSocket(a)
    <2>1. /\ net' \in Values /\ net' = [net EXCEPT !.out = @ \ {a}]
          /\ net'.attempts = net.attempts /\ net'.out = net.out \ {a}
          /\ net'.in = net.in /\ a \in net.out /\ a \notin net.attempts
          /\ net'.fds = net.fds /\ net'.completed = net.completed
          /\ net'.inbound = net.inbound /\ net'.known = net.known
      BY <1>0, <1>4 DEF CloseSocket, Values
    <2>2. IsFiniteSet(net'.out) /\ Cardinality(net'.out) = Cardinality(net.out) - 1
      BY <1>0, <2>1, FS_RemoveElement
    <2>3. Cardinality(net'.attempts \ net'.out) = Cardinality(net.attempts \ net.out)
      <3>1. net'.attempts \ net'.out = net.attempts \ net.out
        BY <2>1
      <3> QED
        BY <3>1
    <2>4. Wanted(net)' = Wanted(net) - 1 /\ Charged(net)' = Charged(net)
      <3>1. Wanted(net)' = Cardinality(net.out) - 1 + net.in + Cardinality(net.attempts \ net.out)
        BY <2>1, <2>2, <2>3 DEF Wanted
      <3>2. Charged(net)' = Charged(net)
        BY <2>1 DEF Charged
      <3> QED
        BY <1>1, <3>1, <3>2 DEF Wanted
    <2>5. net.known => Wanted(net)' <= Charged(net)'
      BY <1>0, <1>1, <2>4
    <2> QED
      BY <1>0, <1>1, <2>1, <2>2, <2>4, <2>5
         DEF NetworkInv, NetworkTypeOK, NothingUncharged, WithinRoom
  <1> QED
    BY <1>3, <1>4

\* connection_made, for a client that is let in and for one that is closed at once, and the
\* end of a connection.
LEMMA InboundStep ==
    ASSUME NetworkInv, InboundConnection \/ InboundLost
    PROVE  NetworkInv' /\ WithinRoom
  <1>0. /\ net \in Values /\ IsFiniteSet(net.attempts) /\ IsFiniteSet(net.out)
        /\ (net.known => Wanted(net) <= Charged(net))
    BY DEF NetworkInv, NetworkTypeOK, NothingUncharged
  <1>1. /\ Cardinality(net.attempts) \in Nat /\ Cardinality(net.out) \in Nat
        /\ Cardinality(net.attempts \ net.out) \in Nat
        /\ Cardinality(net.attempts \ net.out) <= Cardinality(net.attempts)
        /\ Wanted(net) \in Nat /\ Charged(net) \in Nat
        /\ net.in \in Nat /\ net.fds \in Nat /\ net.completed \in Nat /\ net.inbound \in Nat
    BY <1>0, CountsAreNumbers DEF Values
  <1>2. SUFFICES /\ net' \in Values /\ net'.attempts = net.attempts /\ net'.out = net.out
                 /\ (net'.known => Wanted(net)' <= Charged(net)')
                 /\ WithinRoom
    BY <1>0 DEF NetworkInv, NetworkTypeOK, NothingUncharged
  <1>3. CASE InboundLost
    <2>1. /\ net' \in Values /\ net' = [net EXCEPT !.in = @ - 1]
          /\ net'.attempts = net.attempts /\ net'.out = net.out /\ net'.in = net.in - 1
          /\ net'.fds = net.fds /\ net'.completed = net.completed /\ net'.inbound = net.inbound
          /\ net'.known = net.known
      BY <1>0, <1>1, <1>3 DEF InboundLost, Values
    <2>2. Wanted(net)' = Wanted(net) - 1 /\ Charged(net)' = Charged(net)
      BY <1>1, <2>1 DEF Wanted, Charged
    <2> QED
      BY <1>0, <1>1, <2>1, <2>2 DEF WithinRoom
  <1>4. CASE InboundConnection
    <2> DEFINE accepted == [net EXCEPT !.in = @ + 1]
    <2>1. PICK n \in Samples(accepted) :
            net' = IF AllowInbound(n) THEN [n EXCEPT !.inbound = @ + 1]
                   ELSE [n EXCEPT !.in = @ - 1]
      BY <1>4 DEF InboundConnection
    <2>2. /\ accepted \in Values /\ accepted.attempts = net.attempts
          /\ accepted.out = net.out /\ accepted.in = net.in + 1
          /\ accepted.fds = net.fds /\ accepted.completed = net.completed
          /\ accepted.inbound = net.inbound /\ accepted.known = net.known
      BY <1>0, <1>1 DEF Values
    <2>3. /\ n \in Values /\ n.attempts = net.attempts /\ n.out = net.out /\ n.in = net.in + 1
          /\ \/ Charged(n) = Charged(net) /\ n.known = net.known
             \/ n.known = FALSE
             \/ n.fds = Cardinality(net.out) + (net.in + 1)
      <3>1. CASE n = accepted
        BY <1>1, <2>2, <3>1 DEF Charged
      <3>2. CASE n # accepted
        <4>1. Cardinality(accepted.out) + accepted.in \in Nat
          BY <1>1, <2>2
        <4>2. /\ n \in Values /\ n.attempts = accepted.attempts /\ n.out = accepted.out
              /\ n.in = accepted.in
              /\ n.known => n.fds = Cardinality(accepted.out) + accepted.in
          BY <2>1, <2>2, <3>2, <4>1, SampleParts
        <4>3. n.known \in BOOLEAN
          BY <4>2 DEF Values
        <4> QED
          BY <2>2, <4>2, <4>3
      <3> QED
        BY <3>1, <3>2
    <2>4. Wanted(n) = Wanted(net) + 1 /\ Charged(n) \in Nat
          /\ FdHeadroom(n) = FdRoom - Charged(n)
      <3>1. Wanted(n) = Wanted(net) + 1
        BY <1>1, <2>3 DEF Wanted
      <3> QED
        BY <1>0, <2>3, <3>1, CountsAreNumbers
    <2>5. n.in \in Nat /\ n.fds \in Nat /\ n.completed \in Nat /\ n.inbound \in Nat
      BY <2>3 DEF Values
    <2>6. n.known => Wanted(net) <= Charged(n)
      <3>1. CASE n.fds = Cardinality(net.out) + (net.in + 1)
        <4>1. n.attempts = net.attempts
          BY <2>3
        <4> QED
          BY <1>1, <2>5, <3>1, <4>1 DEF Wanted, Charged
      <3> QED
        BY <1>0, <2>3, <3>1
    <2>7. CASE AllowInbound(n)
      <3>1. /\ net' \in Values /\ net'.attempts = n.attempts /\ net'.out = n.out
            /\ net'.in = n.in /\ net'.fds = n.fds /\ net'.completed = n.completed
            /\ net'.inbound = n.inbound + 1 /\ net'.known = n.known
        BY <2>1, <2>3, <2>5, <2>7 DEF Values
      <3>2. Wanted(net)' = Wanted(n) /\ Charged(net)' = Charged(n) + 1
        BY <1>1, <2>3, <2>5, <3>1 DEF Wanted, Charged
      <3>3. n.known => Charged(n) < FdRoom
        BY <2>4, <2>7, NetworkAssumption DEF AllowInbound
      <3> QED
        BY <1>1, <2>3, <2>4, <2>6, <3>1, <3>2, <3>3, NetworkAssumption DEF WithinRoom
    <2>8. CASE ~AllowInbound(n)
      <3>1. /\ net' \in Values /\ net'.attempts = n.attempts /\ net'.out = n.out
            /\ net'.in = net.in /\ net'.fds = n.fds /\ net'.completed = n.completed
            /\ net'.inbound = n.inbound /\ net'.known = n.known
        BY <1>1, <2>1, <2>3, <2>5, <2>8 DEF Values
      <3>2. Wanted(net)' = Wanted(net) /\ Charged(net)' = Charged(n)
        BY <1>1, <2>3, <3>1 DEF Wanted, Charged
      <3> QED
        BY <1>0, <1>1, <2>3, <2>6, <3>1, <3>2 DEF WithinRoom
    <2> QED
      BY <2>7, <2>8
  <1> QED
    BY <1>3, <1>4

\* snapshot: a sample without an admission.
LEMMA SnapshotStep ==
    ASSUME NetworkInv, Snapshot
    PROVE  NetworkInv' /\ WithinRoom
  <1>1. /\ net \in Values /\ IsFiniteSet(net.attempts) /\ IsFiniteSet(net.out)
        /\ (net.known => Wanted(net) <= Charged(net))
    BY DEF NetworkInv, NetworkTypeOK, NothingUncharged
  <1>2. /\ net' \in Values /\ net'.attempts = net.attempts /\ net'.out = net.out
        /\ Wanted(net') = Wanted(net) /\ (net'.known => Wanted(net') <= Charged(net'))
    BY <1>1, SampleCovers DEF Snapshot
  <1>3. Wanted(net) \in Nat
    BY <1>1, CountsAreNumbers
  <1> QED
    BY <1>1, <1>2, <1>3 DEF NetworkInv, NetworkTypeOK, NothingUncharged, WithinRoom

\* Whenever there is a sample to go by, an attempt or a client is admitted only if the open
\* sockets and those that admitted attempts may still open fit the room for descriptors
\* (network.py, acquire, release and allow_inbound_connection), however old the sample is and
\* whatever was let in while there was none, for any number of attempts and any room.
THEOREM HeadroomIsRespected == NetworkSpec => HeadroomRespected
  <1>1. NetworkInit => NetworkInv
    <2> SUFFICES ASSUME NetworkInit PROVE NetworkInv
      OBVIOUS
    <2>1. net.attempts = {} /\ net.out = {} /\ net.known = FALSE /\ net \in Values
      BY DEF NetworkInit, Values
    <2>2. IsFiniteSet({})
      BY FS_EmptySet
    <2> QED
      BY <2>1, <2>2 DEF NetworkInv, NetworkTypeOK, NothingUncharged
  <1>2. NetworkInv /\ [NetworkNext]_net => NetworkInv' /\ [WithinRoom]_net
    <2> SUFFICES ASSUME NetworkInv, [NetworkNext]_net PROVE NetworkInv' /\ [WithinRoom]_net
      OBVIOUS
    <2>1. CASE NetworkNext
      BY <2>1, ReserveStep, ReleaseStep, SocketStep, InboundStep, SnapshotStep DEF NetworkNext
    <2>2. CASE UNCHANGED net
      BY <2>2 DEF NetworkInv, NetworkTypeOK, NothingUncharged, Wanted, Charged
    <2> QED
      BY <2>1, <2>2
  <1> QED
    BY <1>1, <1>2, PTL DEF NetworkSpec, HeadroomRespected, WithinRoom

-----------------------------------------------------------------------------
(***************************************************************************)
(* MemoryGovernor.  ReservedExact needs that a task gives back what it     *)
(* took; NoLostWakeup, that a task is registered from before it looks      *)
(* until it leaves, and that what was too little when it looked stays too  *)
(* little until somebody releases, even if samples come and go meanwhile   *)
(* (SleepsWell, which therefore speaks of the sample that the task saw).   *)
(***************************************************************************)
Registered == {"loop", "asleep", "granted", "leaving"}

AboutToWake(t) ==
    \/ t \in posted
    \/ \E u \in Tasks : At(u, "releasing") /\ t \in task[u].wake

\* What is left for an expansion when the sample is stale.
StaleRoom(s, r) == Available(s, TRUE, r)

SleepsWell(t) ==
    At(t, "asleep") /\ task[t].n <= StaleRoom(task[t].seen, TotalReserved)
    => AboutToWake(t)

GovernorInv ==
    /\ GovernorTypeOK
    /\ ReservedExact
    /\ \A t \in Tasks : task[t].ph \in Registered => t \in waiters
    /\ \A t \in Tasks : SleepsWell(t)

LEMMA GovernorConstants ==
    /\ IsFiniteSet(Tasks) /\ IsFiniteSet(Categories) /\ CategoryOf \in [Tasks -> Categories]
    /\ Amounts \subseteq Nat /\ Limits \subseteq Nat /\ Usages \subseteq Nat
    /\ Fallback \in Nat /\ SoftLimit \in Nat /\ GuardBytes \in Nat
    /\ GuardRatio[1] \in Nat /\ GuardRatio[2] \in Nat \ {0}
  BY GovernorAssumption

\* What a sample allows is a number.
LEMMA HeadroomIsInt ==
    ASSUME NEW s \in MemorySamples
    PROVE  Headroom(s) \in Int
  <1>1. s.limit \in Int /\ s.usage \in Int
    <2>1. Limits \cup {None} \subseteq Int /\ Usages \cup {None} \subseteq Int
      BY GovernorConstants DEF None
    <2>2. s.limit \in Limits \cup {None} /\ s.usage \in Usages \cup {None}
      BY DEF MemorySamples
    <2> QED
      BY <2>1, <2>2
  <1>2. ASSUME NEW a \in Int, NEW b \in Int PROVE AtMost(a, b) \in Int /\ AtLeast(a, b) \in Int
    BY DEF AtMost, AtLeast
  <1>3. Guard(s.limit) \in Int
    <2>1. s.limit \div 2 \in Int
      BY <1>1
    <2>2. s.limit * GuardRatio[1] \in Int
      BY <1>1, GovernorConstants
    <2>3. (s.limit * GuardRatio[1]) \div GuardRatio[2] \in Int
      BY <2>2, GovernorConstants
    <2>4. AtMost(GuardBytes, s.limit \div 2) \in Int
      BY <1>2, <2>1, GovernorConstants
    <2> QED
      BY <1>2, <2>3, <2>4 DEF Guard
  <1>4. SoftLimitFor(s.limit) \in Int
    <2>1. s.limit - 1 \in Int /\ 0 \in Int /\ 1 \in Int /\ SoftLimit \in Int /\ None \in Int
      BY <1>1, GovernorConstants DEF None
    <2>2. AtLeast(0, s.limit - 1) \in Int
      BY <1>2, <2>1
    <2>3. AtMost(Guard(s.limit), AtLeast(0, s.limit - 1)) \in Int
      BY <1>2, <1>3, <2>2
    <2>4. s.limit - AtMost(Guard(s.limit), AtLeast(0, s.limit - 1)) \in Int
      BY <1>1, <2>3
    <2>5. /\ AtLeast(1, s.limit - AtMost(Guard(s.limit), AtLeast(0, s.limit - 1))) \in Int
          /\ AtMost(SoftLimit, s.limit) \in Int
      BY <1>1, <1>2, <2>1, <2>4
    <2> QED
      BY <2>1, <2>5 DEF SoftLimitFor
  <1> QED
    BY <1>1, <1>4, GovernorConstants DEF Headroom

\* What fits leaves the total within the sample and, if that is stale, the fallback budget.
LEMMA FitsMeans ==
    ASSUME NEW s \in MemorySamples, NEW err \in BOOLEAN, NEW r \in Nat, NEW n \in Nat, n > 0,
           n <= Available(s, err, r)
    PROVE  r + n <= Headroom(s) /\ (err => r + n <= Fallback)
  <1>1. Headroom(s) \in Int /\ Fallback \in Int
    BY HeadroomIsInt, GovernorConstants
  <1> QED
    BY <1>1 DEF Available, CapacityOf, AtMost, AtLeast

\* What does not fit now does not fit when more is reserved, nor when the sample is stale.
LEMMA AvailableFalls ==
    ASSUME NEW s \in MemorySamples, NEW r \in Nat, NEW total \in Nat, r <= total, NEW err \in BOOLEAN
    PROVE  /\ StaleRoom(s, total) <= StaleRoom(s, r)
           /\ StaleRoom(s, r) <= Available(s, err, r)
           /\ StaleRoom(s, r) \in Int /\ Available(s, err, r) \in Int
           /\ StaleRoom(s, total) \in Int
  <1>1. Headroom(s) \in Int /\ Fallback \in Int
    BY HeadroomIsInt, GovernorConstants
  <1> QED
    BY <1>1 DEF StaleRoom, Available, CapacityOf, AtMost, AtLeast

LEMMA FieldsOfCall ==
    ASSUME NEW c \in Calls
    PROVE  /\ c.n \in Nat /\ HeldBytes(c) \in Nat
           /\ c.wake \subseteq Tasks /\ c.seen \in MemorySamples
           /\ c = [ph |-> c.ph, n |-> c.n, wake |-> c.wake, seen |-> c.seen]
  <1>1. c.n \in Amounts \cup {0} /\ c.wake \subseteq Tasks /\ c.seen \in MemorySamples
    BY DEF Calls
  <1>2. c = [ph |-> c.ph, n |-> c.n, wake |-> c.wake, seen |-> c.seen]
    BY DEF Calls
  <1>3. c.n \in Nat
    <2>1. Amounts \cup {0} \subseteq Nat
      BY GovernorConstants
    <2> QED
      BY <1>1, <2>1
  <1> QED
    BY <1>1, <1>2, <1>3 DEF HeldBytes

LEMMA CallIs ==
    ASSUME GovernorInv, NEW t \in Tasks
    PROVE  /\ task \in [Tasks -> Calls] /\ task[t] \in Calls /\ reserved \in [Categories -> Nat]
           /\ task[t].n \in Nat /\ HeldBytes(task[t]) \in Nat /\ TotalReserved \in Nat
           /\ task[t].wake \subseteq Tasks /\ task[t].seen \in MemorySamples
           /\ CategoryOf[t] \in Categories /\ reserved[CategoryOf[t]] \in Nat
           /\ task[t] = [ph |-> task[t].ph, n |-> task[t].n, wake |-> task[t].wake,
                         seen |-> task[t].seen]
  <1>1. /\ task \in [Tasks -> Calls] /\ task[t] \in Calls /\ reserved \in [Categories -> Nat]
    BY DEF GovernorInv, GovernorTypeOK
  <1>2. /\ task[t].n \in Nat /\ task[t].wake \subseteq Tasks /\ task[t].seen \in MemorySamples
        /\ task[t] = [ph |-> task[t].ph, n |-> task[t].n, wake |-> task[t].wake,
                      seen |-> task[t].seen]
    BY <1>1, FieldsOfCall
  <1>3. TotalReserved \in Nat
    BY <1>1, SumIsNat, GovernorConstants DEF TotalReserved
  <1> QED
    BY <1>1, <1>2, <1>3, GovernorConstants DEF HeldBytes

\* A task takes or gives back bytes, and its category's counter follows.
LEMMA HeldMoves ==
    ASSUME GovernorInv, NEW t \in Tasks, NEW c \in Calls, task' = [task EXCEPT ![t] = c],
           NEW m \in Nat, m = reserved[CategoryOf[t]] - HeldBytes(task[t]) + HeldBytes(c),
           reserved' = [reserved EXCEPT ![CategoryOf[t]] = m]
    PROVE  /\ reserved' \in [Categories -> Nat] /\ ReservedExact'
           /\ TotalReserved' = TotalReserved - HeldBytes(task[t]) + HeldBytes(c)
  <1> DEFINE k == CategoryOf[t]
             a == HeldBytes(task[t])
             b == HeldBytes(c)
  <1>1. /\ task \in [Tasks -> Calls] /\ reserved \in [Categories -> Nat] /\ k \in Categories
        /\ a \in Nat /\ b \in Nat /\ reserved[k] \in Nat
    BY CallIs, FieldsOfCall
  <1>2. /\ reserved' \in [Categories -> Nat] /\ reserved'[k] = m
        /\ \A x \in Categories : x # k => reserved'[x] = reserved[x]
    BY <1>1
  <1>3. TotalReserved' = TotalReserved - a + b
    <2>1. /\ IsFiniteSet(Categories) /\ (\A x \in Categories : reserved[x] \in Nat)
          /\ m \in Nat /\ m = reserved[k] - a + b
      BY <1>1, GovernorConstants
    <2> DEFINE new == reserved'
    <2>2. new[k] = m /\ \A x \in Categories : x # k => new[x] = reserved[x]
      BY <1>2
    <2> HIDE DEF new, k, a, b
    <2>3. SumFunctionOnSet(new, Categories)
            = SumFunctionOnSet(reserved, Categories) - reserved[k] + new[k]
      BY ONLY <1>1, <2>1, <2>2, SumChanges
    <2>4. SumFunctionOnSet(reserved, Categories) \in Nat
      BY <2>1, SumIsNat
    <2> QED
      BY <1>1, <2>1, <2>2, <2>3, <2>4 DEF TotalReserved, new
  <1>4. ReservedExact'
    <2> SUFFICES ASSUME NEW x \in Categories
                 PROVE  reserved'[x] = SumFunctionOnSet([u \in Tasks |-> HeldFor(u, x)'], Tasks)
      BY DEF ReservedExact
    <2> DEFINE f == [u \in Tasks |-> HeldFor(u, x)]
               g == [u \in Tasks |-> HeldFor(u, x)']
    <2>1. /\ \A u \in Tasks : f[u] \in Nat
          /\ reserved[x] = SumFunctionOnSet(f, Tasks)
      BY CallIs DEF GovernorInv, ReservedExact, HeldFor
    <2>2. /\ \A u \in Tasks : u # t => g[u] = f[u]
          /\ f[t] = (IF k = x THEN a ELSE 0) /\ g[t] = (IF k = x THEN b ELSE 0)
      BY <1>1 DEF HeldFor
    <2>3. IsFiniteSet(Tasks) /\ g[t] \in Nat
      BY <1>1, <2>2, GovernorConstants
    <2> HIDE DEF f, g, k, a, b
    <2>4. SumFunctionOnSet(g, Tasks) = SumFunctionOnSet(f, Tasks) - f[t] + g[t]
      BY ONLY t \in Tasks, <2>1, <2>2, <2>3, SumChanges
    <2>5. reserved'[x] = SumFunctionOnSet(g, Tasks)
      <3>1. CASE x = k
        BY <1>1, <1>2, <2>1, <2>2, <2>4, <3>1 DEF k, a, b
      <3>2. CASE x # k
        BY <1>1, <1>2, <2>1, <2>2, <2>4, <3>2
      <3> QED
        BY <3>1, <3>2
    <2> QED
      BY <2>5 DEF g
  <1> QED
    BY <1>2, <1>3, <1>4

\* One step of one task.
LEMMA TaskMoves ==
    ASSUME GovernorInv, NEW t \in Tasks, NEW c \in Calls, task' = [task EXCEPT ![t] = c],
           sample' \in MemorySamples, failed' \in BOOLEAN,
           waiters \subseteq waiters', waiters' \subseteq Tasks,
           posted \ {t} \subseteq posted', posted' \subseteq Tasks,
           task[t].ph = "releasing" => task[t].wake \subseteq posted',
           c.ph \in Registered => t \in waiters',
           c.ph = "asleep" => /\ HeldBytes(task[t]) = 0
                              /\ c.n > StaleRoom(c.seen, TotalReserved),
           HeldBytes(c) < HeldBytes(task[t]) => c.ph = "releasing" /\ waiters \subseteq c.wake,
           NEW m \in Nat, m = reserved[CategoryOf[t]] - HeldBytes(task[t]) + HeldBytes(c),
           reserved' = [reserved EXCEPT ![CategoryOf[t]] = m]
    PROVE  GovernorInv' /\ TotalReserved' = TotalReserved - HeldBytes(task[t]) + HeldBytes(c)
  <1>1. /\ reserved' \in [Categories -> Nat] /\ ReservedExact'
        /\ TotalReserved' = TotalReserved - HeldBytes(task[t]) + HeldBytes(c)
    BY HeldMoves
  <1>2. /\ task \in [Tasks -> Calls] /\ TotalReserved \in Nat
        /\ HeldBytes(task[t]) \in Nat /\ HeldBytes(c) \in Nat
    BY CallIs, FieldsOfCall
  <1>3. task' \in [Tasks -> Calls] /\ task'[t] = c /\ \A u \in Tasks : u # t => task'[u] = task[u]
    BY <1>2
  <1>4. GovernorTypeOK'
    BY <1>1, <1>3 DEF GovernorTypeOK
  <1>5. ASSUME NEW u \in Tasks, task'[u].ph \in Registered PROVE u \in waiters'
    <2>1. CASE u = t
      BY <1>3, <1>5, <2>1
    <2>2. CASE u # t
      BY <1>3, <1>5, <2>2 DEF GovernorInv
    <2> QED
      BY <2>1, <2>2
  <1>6. TotalReserved' \in Nat
    BY <1>1, SumIsNat, GovernorConstants DEF TotalReserved
  <1>7. ASSUME NEW u \in Tasks, At(u, "asleep")',
               task'[u].n <= StaleRoom(task'[u].seen, TotalReserved')
        PROVE  AboutToWake(u)'
    <2>1. CASE u = t
      <3>1. /\ c.ph = "asleep" /\ c.n <= StaleRoom(c.seen, TotalReserved')
        BY <1>3, <1>7, <2>1 DEF At
      <3>2. HeldBytes(c) = 0
        BY <3>1 DEF HeldBytes
      <3>3. TotalReserved' = TotalReserved
        BY <1>1, <1>2, <3>1, <3>2
      <3>4. c.n \in Int /\ StaleRoom(c.seen, TotalReserved) \in Int
        <4>1. c.n \in Nat /\ c.seen \in MemorySamples /\ TotalReserved <= TotalReserved
          BY <1>2, FieldsOfCall
        <4>2. \A s \in MemorySamples : StaleRoom(s, TotalReserved) \in Int
          BY ONLY <1>2, <4>1, AvailableFalls
        <4> QED
          BY <4>1, <4>2
      <3>5. StaleRoom(c.seen, TotalReserved') = StaleRoom(c.seen, TotalReserved)
        BY <3>3
      <3>6. c.n > StaleRoom(c.seen, TotalReserved)
        BY <3>1
      <3> QED
        BY ONLY <3>1, <3>4, <3>5, <3>6
    <2>2. CASE u # t
      <3>1. At(u, "asleep") /\ task[u].n <= StaleRoom(task[u].seen, TotalReserved')
            /\ u \in waiters
        BY <1>3, <1>7, <2>2 DEF At, GovernorInv, Registered
      <3>2. CASE HeldBytes(c) < HeldBytes(task[t])
        BY <1>3, <3>1, <3>2 DEF AboutToWake, At
      <3>3. CASE HeldBytes(c) >= HeldBytes(task[t])
        <4>1. TotalReserved <= TotalReserved'
          BY <1>1, <1>2, <3>3
        <4>2. task[u].n \in Nat /\ task[u].seen \in MemorySamples
          BY CallIs
        <4>3. /\ StaleRoom(task[u].seen, TotalReserved')
                   <= StaleRoom(task[u].seen, TotalReserved)
              /\ StaleRoom(task[u].seen, TotalReserved') \in Int
              /\ StaleRoom(task[u].seen, TotalReserved) \in Int
          BY <1>2, <1>6, <4>1, <4>2, AvailableFalls
        <4>4. task[u].n <= StaleRoom(task[u].seen, TotalReserved)
          BY ONLY <3>1, <4>2, <4>3
        <4>5. AboutToWake(u)
          BY <3>1, <4>4 DEF GovernorInv, SleepsWell
        <4>6. CASE u \in posted
          BY <2>2, <4>6 DEF AboutToWake
        <4>7. ASSUME NEW v \in Tasks, At(v, "releasing"), u \in task[v].wake
              PROVE  AboutToWake(u)'
          <5>1. CASE v = t
            BY <4>7, <5>1 DEF AboutToWake, At
          <5>2. CASE v # t
            BY <1>3, <4>7, <5>2 DEF AboutToWake, At
          <5> QED
            BY <5>1, <5>2
        <4> QED
          BY <4>5, <4>6, <4>7 DEF AboutToWake
      <3> QED
        BY <1>2, <3>2, <3>3
    <2> QED
      BY <2>1, <2>2
  <1> QED
    BY <1>1, <1>4, <1>5, <1>7 DEF GovernorInv, SleepsWell

\* A step expands the total only within the sample, and the fallback if that is stale.
ExpandsWithin ==
    TotalReserved' > TotalReserved
    => /\ TotalReserved' <= Headroom(sample')
       /\ failed' => TotalReserved' <= Fallback

LEMMA RefreshedIs ==
    ASSUME GovernorInv, Refreshed \/ UNCHANGED <<sample, failed>>
    PROVE  sample' \in MemorySamples /\ failed' \in BOOLEAN
  BY DEF GovernorInv, GovernorTypeOK, Refreshed, MemorySamples

\* A task gets n bytes that fit.
LEMMA TaskTakes ==
    ASSUME GovernorInv, NEW t \in Tasks, NEW n \in Nat, Refreshed, Fits(n), Charge(t, n),
           NEW c \in Calls, task' = [task EXCEPT ![t] = c], c.ph \in {"granted", "holding"},
           c.n = n, HeldBytes(task[t]) = 0, task[t].ph # "releasing",
           c.ph = "granted" => t \in waiters, UNCHANGED <<waiters, posted>>
    PROVE  GovernorInv' /\ ExpandsWithin
  <1>1. HeldBytes(c) = n /\ c.ph # "asleep"
    BY DEF HeldBytes
  <1>2. /\ reserved \in [Categories -> Nat] /\ TotalReserved \in Nat
        /\ reserved[CategoryOf[t]] \in Nat
    BY CallIs
  <1> DEFINE m == reserved[CategoryOf[t]] + n
  <1>3. /\ m \in Nat /\ m = reserved[CategoryOf[t]] - HeldBytes(task[t]) + HeldBytes(c)
        /\ reserved' = [reserved EXCEPT ![CategoryOf[t]] = m]
    BY <1>1, <1>2 DEF Charge
  <1>4. sample' \in MemorySamples /\ failed' \in BOOLEAN /\ n <= Available(sample', failed', TotalReserved)
    BY RefreshedIs DEF Fits
  <1>5. /\ waiters \subseteq waiters' /\ waiters' \subseteq Tasks
        /\ posted \ {t} \subseteq posted' /\ posted' \subseteq Tasks
        /\ c.ph \in Registered => t \in waiters'
        /\ ~(HeldBytes(c) < HeldBytes(task[t]))
    BY <1>1 DEF GovernorInv, GovernorTypeOK, Registered
  <1> HIDE DEF m
  <1>6. GovernorInv' /\ TotalReserved' = TotalReserved - HeldBytes(task[t]) + HeldBytes(c)
    BY <1>1, <1>3, <1>4, <1>5, TaskMoves
  <1>7. TotalReserved' = TotalReserved + n
    BY <1>1, <1>2, <1>6
  <1>8. ExpandsWithin
    <2> DEFINE s == sample'
               err == failed'
               total == TotalReserved'
    <2>1. s \in MemorySamples /\ err \in BOOLEAN /\ n <= Available(s, err, TotalReserved)
          /\ total = TotalReserved + n
      BY <1>4, <1>7
    <2> HIDE DEF s, err, total
    <2>2. n > 0 => TotalReserved + n <= Headroom(s) /\ (err => TotalReserved + n <= Fallback)
      BY ONLY n \in Nat, <1>2, <2>1, FitsMeans
    <2>3. total > TotalReserved => total <= Headroom(s) /\ (err => total <= Fallback)
      BY <1>2, <2>1, <2>2
    <2> QED
      BY <2>3 DEF ExpandsWithin, s, err, total
  <1> QED
    BY <1>6, <1>8

\* A task moves on with what it has.
LEMMA TaskGoes ==
    ASSUME GovernorInv, NEW t \in Tasks, UNCHANGED reserved,
           Refreshed \/ UNCHANGED <<sample, failed>>,
           NEW c \in Calls, task' = [task EXCEPT ![t] = c], HeldBytes(c) = HeldBytes(task[t]),
           waiters \subseteq waiters', waiters' \subseteq Tasks,
           posted \ {t} \subseteq posted', posted' \subseteq Tasks,
           task[t].ph = "releasing" => task[t].wake \subseteq posted',
           c.ph \in Registered => t \in waiters',
           c.ph = "asleep" => /\ HeldBytes(task[t]) = 0
                              /\ c.n > StaleRoom(c.seen, TotalReserved)
    PROVE  GovernorInv' /\ ExpandsWithin
  <1>1. sample' \in MemorySamples /\ failed' \in BOOLEAN
    BY RefreshedIs
  <1> DEFINE m == reserved[CategoryOf[t]]
  <1>2. /\ reserved \in [Categories -> Nat] /\ TotalReserved \in Nat /\ m \in Nat
        /\ HeldBytes(task[t]) \in Nat
    BY CallIs
  <1>3. /\ m = reserved[CategoryOf[t]] - HeldBytes(task[t]) + HeldBytes(c)
        /\ reserved' = [reserved EXCEPT ![CategoryOf[t]] = m]
        /\ ~(HeldBytes(c) < HeldBytes(task[t]))
    BY <1>2
  <1> HIDE DEF m
  <1>4. GovernorInv' /\ TotalReserved' = TotalReserved - HeldBytes(task[t]) + HeldBytes(c)
    BY <1>1, <1>2, <1>3, TaskMoves
  <1>5. TotalReserved' = TotalReserved
    BY <1>2, <1>4
  <1>6. ExpandsWithin
    BY <1>2, <1>5 DEF ExpandsWithin
  <1> QED
    BY <1>4, <1>6

\* The call of a task, with its phase and what goes with it changed.
WithBytes(t, ph, n) == [task EXCEPT ![t].ph = ph, ![t].n = n]

WithSeen(t, ph, seen) == [task EXCEPT ![t].ph = ph, ![t].seen = seen]

LEMMA CallWith ==
    ASSUME GovernorInv, NEW t \in Tasks,
           NEW ph \in {"out", "blocked", "loop", "asleep", "granted", "leaving", "holding",
                       "releasing"}, NEW n \in Amounts \cup {0}, NEW seen \in MemorySamples
    PROVE  LET c == [ph |-> ph, n |-> n, wake |-> task[t].wake, seen |-> seen]
           IN  /\ c \in Calls
               /\ seen = task[t].seen
                    => WithBytes(t, ph, n) = [task EXCEPT ![t] = c]
               /\ n = task[t].n
                    => WithSeen(t, ph, seen) = [task EXCEPT ![t] = c]
  <1> DEFINE c == [ph |-> ph, n |-> n, wake |-> task[t].wake, seen |-> seen]
             d == task[t]
  <1>1. /\ task \in [Tasks -> Calls] /\ d.wake \subseteq Tasks
        /\ d = [ph |-> d.ph, n |-> d.n, wake |-> d.wake, seen |-> d.seen]
    BY CallIs
  <1>2. c \in Calls
    BY <1>1 DEF Calls
  <1>3. seen = d.seen => [task EXCEPT ![t].ph = ph, ![t].n = n] = [task EXCEPT ![t] = c]
    <2>1. [task EXCEPT ![t].ph = ph, ![t].n = n]
            = [task EXCEPT ![t] = [d EXCEPT !.ph = ph, !.n = n]]
      BY <1>1 DEF d
    <2>2. seen = d.seen => [d EXCEPT !.ph = ph, !.n = n] = c
      <3> DEFINE e == [d EXCEPT !.ph = ph]
      <3>1. e = [ph |-> ph, n |-> d.n, wake |-> d.wake, seen |-> d.seen]
        BY ONLY <1>1
      <3>2. [d EXCEPT !.ph = ph, !.n = n] = [e EXCEPT !.n = n]
        OBVIOUS
      <3> HIDE DEF e
      <3>3. seen = d.seen => [e EXCEPT !.n = n] = c
        BY ONLY <3>1 DEF c
      <3> QED
        BY <3>2, <3>3
    <2> QED
      BY <2>1, <2>2
  <1>4. n = d.n => [task EXCEPT ![t].ph = ph, ![t].seen = seen] = [task EXCEPT ![t] = c]
    <2>1. [task EXCEPT ![t].ph = ph, ![t].seen = seen]
            = [task EXCEPT ![t] = [d EXCEPT !.ph = ph, !.seen = seen]]
      BY <1>1 DEF d
    <2>2. n = d.n => [d EXCEPT !.ph = ph, !.seen = seen] = c
      <3> DEFINE e == [d EXCEPT !.ph = ph]
      <3>1. e = [ph |-> ph, n |-> d.n, wake |-> d.wake, seen |-> d.seen]
        BY ONLY <1>1
      <3>2. [d EXCEPT !.ph = ph, !.seen = seen] = [e EXCEPT !.seen = seen]
        OBVIOUS
      <3> HIDE DEF e
      <3>3. n = d.n => [e EXCEPT !.seen = seen] = c
        BY ONLY <3>1 DEF c
      <3> QED
        BY <3>2, <3>3
    <2> QED
      BY <2>1, <2>2
  <1> QED
    BY <1>2, <1>3, <1>4 DEF WithBytes, WithSeen

\* A sample of which what is asked for does not fit leaves too little when it is stale, too.
LEMMA RefusedHasNoRoom ==
    ASSUME GovernorInv, Refreshed, NEW n \in Nat, ~Fits(n)
    PROVE  n > StaleRoom(sample', TotalReserved)
  <1> DEFINE s == sample'
             err == failed'
             r == TotalReserved
  <1>1. s \in MemorySamples /\ err \in BOOLEAN /\ ~(n <= Available(s, err, r))
    BY RefreshedIs DEF Fits
  <1>2. r \in Nat /\ r <= r
    BY SumIsNat, GovernorConstants DEF GovernorInv, GovernorTypeOK, TotalReserved
  <1> HIDE DEF s, err, r
  <1>3. /\ StaleRoom(s, r) <= Available(s, err, r)
        /\ StaleRoom(s, r) \in Int /\ Available(s, err, r) \in Int
    BY ONLY <1>1, <1>2, AvailableFalls
  <1>4. n > StaleRoom(s, r)
    BY ONLY n \in Nat, <1>1, <1>3
  <1> QED
    BY <1>4 DEF s, r

LEMMA FirstTryKeeps ==
    ASSUME GovernorInv, NEW t \in Tasks, NEW n \in Amounts,
           ReserveNowait(t, n) \/ ReserveOrWait(t, n)
    PROVE  GovernorInv' /\ ExpandsWithin
  <1>1. /\ At(t, "out") /\ Refreshed /\ UNCHANGED <<waiters, posted>>
        /\ \/ Fits(n) /\ Charge(t, n) /\ task' = WithBytes(t, "holding", n)
           \/ UNCHANGED <<reserved, task>>
           \/ UNCHANGED reserved /\ task' = WithBytes(t, "blocked", n)
    BY DEF ReserveNowait, ReserveOrWait, WithBytes
  <1>2. /\ n \in Nat /\ n \in Amounts \cup {0} /\ task[t] \in Calls /\ task[t].seen \in MemorySamples
        /\ task = [task EXCEPT ![t] = task[t]] /\ posted \subseteq Tasks /\ waiters \subseteq Tasks
        /\ task[t].ph = "out" /\ HeldBytes(task[t]) = 0
    BY <1>1, CallIs, GovernorConstants DEF At, HeldBytes, GovernorInv, GovernorTypeOK
  <1> DEFINE h == [ph |-> "holding", n |-> n, wake |-> task[t].wake, seen |-> task[t].seen]
             b == [ph |-> "blocked", n |-> n, wake |-> task[t].wake, seen |-> task[t].seen]
  <1>3. h \in Calls /\ WithBytes(t, "holding", n) = [task EXCEPT ![t] = h]
    BY <1>2, CallWith
  <1>4. b \in Calls /\ WithBytes(t, "blocked", n) = [task EXCEPT ![t] = b]
    BY <1>2, CallWith
  <1>5. h.ph = "holding" /\ h.n = n /\ b.ph = "blocked" /\ HeldBytes(b) = 0
    BY DEF HeldBytes
  <1> HIDE DEF h, b
  <1>6. CASE Fits(n) /\ Charge(t, n) /\ task' = WithBytes(t, "holding", n)
    <2>1. task' = [task EXCEPT ![t] = h]
      BY <1>3, <1>6
    <2> QED
      BY <1>1, <1>2, <1>3, <1>5, <1>6, <2>1, TaskTakes
  <1>7. CASE UNCHANGED <<reserved, task>>
    <2>1. task' = [task EXCEPT ![t] = task[t]] /\ "out" \notin Registered
      BY <1>2, <1>7 DEF Registered
    <2> QED
      BY <1>1, <1>2, <1>7, <2>1, TaskGoes
  <1>8. CASE UNCHANGED reserved /\ task' = WithBytes(t, "blocked", n)
    <2>1. task' = [task EXCEPT ![t] = b] /\ "blocked" \notin Registered
      BY <1>4, <1>8 DEF Registered
    <2> QED
      BY <1>1, <1>2, <1>4, <1>5, <1>8, <2>1, TaskGoes
  <1> QED
    BY <1>1, <1>6, <1>7, <1>8

LEMMA RecheckKeeps ==
    ASSUME GovernorInv, NEW t \in Tasks, Recheck(t)
    PROVE  GovernorInv' /\ ExpandsWithin
  <1> DEFINE n == task[t].n
             s == sample'
             g == [ph |-> "granted", n |-> n, wake |-> task[t].wake, seen |-> NoSample]
             a == [ph |-> "asleep", n |-> n, wake |-> task[t].wake, seen |-> s]
  <1>1. /\ At(t, "loop") /\ Refreshed /\ UNCHANGED <<waiters, posted>>
        /\ \/ /\ Fits(n) /\ Charge(t, n)
              /\ task' = WithSeen(t, "granted", NoSample)
           \/ /\ ~Fits(n) /\ UNCHANGED reserved
              /\ task' = WithSeen(t, "asleep", s)
    BY DEF Recheck, Goto, WithSeen
  <1>2. /\ n \in Nat /\ n \in Amounts \cup {0} /\ NoSample \in MemorySamples /\ s \in MemorySamples
        /\ posted \subseteq Tasks /\ waiters \subseteq Tasks
        /\ task[t].ph = "loop" /\ HeldBytes(task[t]) = 0 /\ t \in waiters
    <2>1. n \in Nat /\ n \in Amounts \cup {0} /\ posted \subseteq Tasks /\ waiters \subseteq Tasks
      BY CallIs DEF GovernorInv, GovernorTypeOK, Calls
    <2>2. NoSample \in MemorySamples /\ s \in MemorySamples
      BY <1>1, RefreshedIs DEF NoSample, MemorySamples
    <2>3. task[t].ph = "loop" /\ HeldBytes(task[t]) = 0 /\ t \in waiters
      BY <1>1 DEF At, HeldBytes, GovernorInv, Registered
    <2> QED
      BY <2>1, <2>2, <2>3
  <1>3. /\ g \in Calls
        /\ WithSeen(t, "granted", NoSample) = [task EXCEPT ![t] = g]
    BY <1>2, CallWith
  <1> HIDE DEF s
  <1>4. a \in Calls /\ WithSeen(t, "asleep", s) = [task EXCEPT ![t] = a]
    BY <1>2, CallWith
  <1>5. /\ g.ph = "granted" /\ g.n = n /\ a.ph = "asleep" /\ HeldBytes(a) = 0 /\ a.n = n
        /\ a.seen = s
    BY DEF HeldBytes
  <1> HIDE DEF g, a, n
  <1>6. CASE /\ Fits(n) /\ Charge(t, n)
             /\ task' = WithSeen(t, "granted", NoSample)
    <2>1. task' = [task EXCEPT ![t] = g]
      BY <1>3, <1>6
    <2> QED
      BY <1>1, <1>2, <1>3, <1>5, <1>6, <2>1, TaskTakes
  <1>7. CASE /\ ~Fits(n) /\ UNCHANGED reserved
             /\ task' = WithSeen(t, "asleep", s)
    <2>1. task' = [task EXCEPT ![t] = a]
      BY <1>4, <1>7
    <2>2. a.n > StaleRoom(a.seen, TotalReserved)
      BY <1>1, <1>2, <1>5, <1>7, RefusedHasNoRoom DEF s
    <2> QED
      BY <1>1, <1>2, <1>4, <1>5, <1>7, <2>1, <2>2, TaskGoes
  <1> QED
    BY <1>1, <1>6, <1>7

LEMMA WalkKeeps ==
    ASSUME GovernorInv, NEW t \in Tasks,
           Register(t) \/ DeadlinePassed(t) \/ Wake(t) \/ Poll(t) \/ CancelWait(t)
    PROVE  GovernorInv' /\ ExpandsWithin
  <1>1. PICK ph \in {"loop", "leaving"} :
          /\ task' = WithSeen(t, ph, NoSample)
          /\ UNCHANGED <<reserved, sample, failed>>
          /\ waiters' \in {waiters, waiters \cup {t}} /\ posted' \in {posted, posted \ {t}}
          /\ task[t].ph \in {"blocked", "loop", "asleep"}
          /\ task[t].ph = "blocked" => t \in waiters'
    <2>1. CASE Register(t)
      BY <2>1 DEF Register, Goto, At, WithSeen
    <2>2. CASE DeadlinePassed(t)
      BY <2>2 DEF DeadlinePassed, Goto, At, WithSeen
    <2>3. CASE Wake(t)
      BY <2>3 DEF Wake, Goto, At, WithSeen
    <2>4. CASE Poll(t)
      BY <2>4 DEF Poll, Goto, At, WithSeen
    <2>5. CASE CancelWait(t)
      BY <2>5 DEF CancelWait, Goto, At, WithSeen
    <2> QED
      BY <2>1, <2>2, <2>3, <2>4, <2>5
  <1> DEFINE n == task[t].n
             c == [ph |-> ph, n |-> n, wake |-> task[t].wake, seen |-> NoSample]
  <1>2. n \in Amounts \cup {0} /\ posted \subseteq Tasks /\ waiters \subseteq Tasks
    BY CallIs DEF GovernorInv, GovernorTypeOK, Calls
  <1>3. NoSample \in MemorySamples
    BY DEF NoSample, MemorySamples
  <1>4. c \in Calls /\ WithSeen(t, ph, NoSample) = [task EXCEPT ![t] = c]
    BY <1>2, <1>3, CallWith
  <1>5. c.ph \in {"loop", "leaving"} /\ HeldBytes(c) = 0 /\ HeldBytes(task[t]) = 0
    BY <1>1 DEF HeldBytes
  <1> HIDE DEF c, n
  <1>6. task' = [task EXCEPT ![t] = c]
    BY <1>1, <1>4
  <1>7. t \in waiters'
    BY <1>1 DEF GovernorInv, Registered
  <1>8. /\ waiters \subseteq waiters' /\ waiters' \subseteq Tasks
        /\ posted \ {t} \subseteq posted' /\ posted' \subseteq Tasks
        /\ task[t].ph # "releasing" /\ c.ph # "asleep"
    BY <1>1, <1>2, <1>5
  <1> QED
    BY <1>1, <1>4, <1>5, <1>6, <1>7, <1>8, TaskGoes

LEMMA ReleaseKeepsBytes ==
    ASSUME GovernorInv, NEW t \in Tasks, Release(t)
    PROVE  GovernorInv' /\ ExpandsWithin
  <1> DEFINE c == [NoCall EXCEPT !.ph = "releasing", !.wake = waiters]
             m == reserved[CategoryOf[t]] - task[t].n
  <1>1. /\ task[t].ph = "holding" /\ task[t].n <= reserved[CategoryOf[t]]
        /\ reserved' = [reserved EXCEPT ![CategoryOf[t]] = m]
        /\ task' = [task EXCEPT ![t] = c] /\ UNCHANGED <<sample, failed, waiters, posted>>
    BY DEF Release, At
  <1>2. NoSample \in MemorySamples /\ waiters \subseteq Tasks /\ posted \subseteq Tasks
    BY DEF NoSample, MemorySamples, GovernorInv, GovernorTypeOK
  <1>3. c \in Calls /\ c.ph = "releasing" /\ c.wake = waiters /\ HeldBytes(c) = 0
    <2>1. c = [ph |-> "releasing", n |-> 0, wake |-> waiters, seen |-> NoSample]
      <3> DEFINE d == [NoCall EXCEPT !.ph = "releasing"]
      <3>1. d = [ph |-> "releasing", n |-> 0, wake |-> {}, seen |-> NoSample]
        BY DEF NoCall
      <3>2. c = [d EXCEPT !.wake = waiters]
        OBVIOUS
      <3> HIDE DEF d, c
      <3> QED
        BY <3>1, <3>2
    <2> HIDE DEF c
    <2> QED
      BY <1>2, <2>1 DEF Calls, HeldBytes
  <1>4. /\ HeldBytes(task[t]) = task[t].n /\ task[t].n \in Nat /\ TotalReserved \in Nat
        /\ reserved[CategoryOf[t]] \in Nat
    BY <1>1, CallIs DEF HeldBytes
  <1>5. m \in Nat /\ m = reserved[CategoryOf[t]] - HeldBytes(task[t]) + HeldBytes(c)
    BY <1>1, <1>3, <1>4
  <1>6. sample' \in MemorySamples /\ failed' \in BOOLEAN
    BY <1>1, RefreshedIs
  <1> HIDE DEF c, m
  <1>7. /\ waiters \subseteq waiters' /\ waiters' \subseteq Tasks
        /\ posted \ {t} \subseteq posted' /\ posted' \subseteq Tasks
        /\ task[t].ph # "releasing" /\ c.ph # "asleep" /\ c.ph \notin Registered
        /\ waiters \subseteq c.wake
    BY <1>1, <1>2, <1>3 DEF Registered
  <1>8. GovernorInv' /\ TotalReserved' = TotalReserved - HeldBytes(task[t]) + HeldBytes(c)
    BY <1>1, <1>3, <1>5, <1>6, <1>7, TaskMoves
  <1>9. TotalReserved' <= TotalReserved
    BY <1>3, <1>4, <1>8
  <1>10. ExpandsWithin
    <2>1. TotalReserved' \in Int
      BY <1>3, <1>4, <1>8
    <2> QED
      BY <1>4, <1>9, <2>1 DEF ExpandsWithin
  <1> QED
    BY <1>8, <1>10

LEMMA PostWakesKeeps ==
    ASSUME GovernorInv, NEW t \in Tasks, PostWakes(t)
    PROVE  GovernorInv' /\ ExpandsWithin
  <1>1. /\ task[t].ph = "releasing" /\ posted' = posted \cup task[t].wake
        /\ task' = [task EXCEPT ![t] = NoCall] /\ UNCHANGED <<reserved, sample, failed, waiters>>
    BY DEF PostWakes, At
  <1>2. /\ task[t].wake \subseteq Tasks /\ waiters \subseteq Tasks /\ posted \subseteq Tasks
        /\ HeldBytes(task[t]) = 0
    BY <1>1, CallIs DEF HeldBytes, GovernorInv, GovernorTypeOK
  <1>3. NoCall \in Calls /\ NoCall.ph = "out" /\ HeldBytes(NoCall) = 0
    BY DEF NoCall, Calls, NoSample, MemorySamples, HeldBytes
  <1>4. "out" \notin Registered
    BY DEF Registered
  <1>5. /\ waiters \subseteq waiters' /\ waiters' \subseteq Tasks
        /\ posted \ {t} \subseteq posted' /\ posted' \subseteq Tasks
        /\ task[t].wake \subseteq posted'
    BY <1>1, <1>2
  <1> QED
    BY <1>1, <1>2, <1>3, <1>4, <1>5, TaskGoes

LEMMA UnregisterKeeps ==
    ASSUME GovernorInv, NEW t \in Tasks, Unregister(t)
    PROVE  GovernorInv' /\ ExpandsWithin
  <1>1. /\ task[t].ph \in {"granted", "leaving"}
        /\ waiters' = waiters \ {t} /\ posted' = posted \ {t}
        /\ task' = [u \in Tasks |->
                      IF u # t THEN [task[u] EXCEPT !.wake = @ \ {t}]
                      ELSE IF task[t].ph = "granted" THEN [task[t] EXCEPT !.ph = "holding"]
                      ELSE NoCall]
        /\ UNCHANGED <<reserved, sample, failed>>
    BY DEF Unregister, At
  <1>2. task \in [Tasks -> Calls]
    BY CallIs
  <1>3. ASSUME NEW u \in Tasks, u # t
        PROVE  /\ task'[u] \in Calls /\ task'[u].ph = task[u].ph /\ task'[u].n = task[u].n
               /\ task'[u].seen = task[u].seen /\ task'[u].wake = task[u].wake \ {t}
    <2> DEFINE d == task[u]
               e == [d EXCEPT !.wake = d.wake \ {t}]
    <2>1. task'[u] = e /\ d \in Calls
      BY <1>1, <1>2, <1>3
    <2> HIDE DEF d
    <2>2. /\ e \in Calls /\ e.ph = d.ph /\ e.n = d.n /\ e.seen = d.seen /\ e.wake = d.wake \ {t}
      BY <2>1 DEF Calls
    <2> QED
      BY <2>1, <2>2 DEF d
  <1>4. /\ task'[t] \in Calls /\ task'[t].ph \in {"holding", "out"}
        /\ HeldBytes(task'[t]) = HeldBytes(task[t])
    <2>1. CASE task[t].ph = "granted"
      <3>1. task'[t] = [task[t] EXCEPT !.ph = "holding"]
        BY <1>1, <2>1
      <3>2. task'[t] \in Calls /\ task'[t].ph = "holding" /\ task'[t].n = task[t].n
        BY <1>2, <3>1 DEF Calls
      <3> QED
        BY <2>1, <3>2 DEF HeldBytes
    <2>2. CASE task[t].ph = "leaving"
      <3>1. task'[t] = NoCall
        BY <1>1, <2>2
      <3>2. NoCall \in Calls /\ NoCall.ph = "out"
        BY DEF NoCall, Calls, NoSample, MemorySamples
      <3> QED
        BY <2>2, <3>1, <3>2 DEF HeldBytes
    <2> QED
      BY <1>1, <2>1, <2>2
  <1>5. \A u \in Tasks : HeldBytes(task'[u]) = HeldBytes(task[u]) /\ task'[u] \in Calls
    BY <1>3, <1>4 DEF HeldBytes
  <1>6. GovernorTypeOK'
    <2>1. task' \in [Tasks -> Calls]
      BY <1>1, <1>5
    <2> QED
      BY <1>1, <2>1 DEF GovernorInv, GovernorTypeOK
  <1>7. ReservedExact'
    <2> SUFFICES ASSUME NEW x \in Categories
                 PROVE  reserved'[x] = SumFunctionOnSet([u \in Tasks |-> HeldFor(u, x)'], Tasks)
      BY DEF ReservedExact
    <2>1. [u \in Tasks |-> HeldFor(u, x)'] = [u \in Tasks |-> HeldFor(u, x)]
      BY <1>5 DEF HeldFor
    <2> QED
      BY <1>1, <2>1 DEF GovernorInv, ReservedExact
  <1>8. ASSUME NEW u \in Tasks, task'[u].ph \in Registered PROVE u \in waiters'
    BY <1>1, <1>3, <1>4, <1>8 DEF GovernorInv, Registered
  <1>9. TotalReserved' = TotalReserved /\ TotalReserved \in Nat
    BY <1>1, CallIs DEF TotalReserved
  <1>10. ASSUME NEW u \in Tasks, At(u, "asleep")',
                task'[u].n <= StaleRoom(task'[u].seen, TotalReserved')
         PROVE  AboutToWake(u)'
    <2>1. u # t
      BY <1>4, <1>10 DEF At
    <2>2. At(u, "asleep") /\ task[u].n <= StaleRoom(task[u].seen, TotalReserved)
      BY <1>3, <1>9, <1>10, <2>1 DEF At
    <2>3. AboutToWake(u)
      BY <2>2 DEF GovernorInv, SleepsWell
    <2>4. CASE u \in posted
      BY <1>1, <2>1, <2>4 DEF AboutToWake
    <2>5. ASSUME NEW v \in Tasks, At(v, "releasing"), u \in task[v].wake
          PROVE  AboutToWake(u)'
      BY <1>1, <1>3, <2>1, <2>5 DEF AboutToWake, At
    <2> QED
      BY <2>3, <2>4, <2>5 DEF AboutToWake
  <1>11. GovernorInv'
    BY <1>6, <1>7, <1>8, <1>10 DEF GovernorInv, SleepsWell
  <1>12. ExpandsWithin
    BY <1>9 DEF ExpandsWithin
  <1> QED
    BY <1>11, <1>12

LEMMA GovernorStep ==
    ASSUME GovernorInv, [GovernorNext]_governorVars
    PROVE  GovernorInv' /\ ExpandsWithin
  <1>1. CASE UNCHANGED governorVars
    <2>1. UNCHANGED <<reserved, sample, failed, waiters, posted, task>>
      BY <1>1 DEF governorVars
    <2>2. TotalReserved' = TotalReserved /\ TotalReserved \in Nat
      BY <2>1, SumIsNat, GovernorConstants DEF TotalReserved, GovernorInv, GovernorTypeOK
    <2>3. GovernorInv'
      BY <2>1, <2>2 DEF GovernorInv, GovernorTypeOK, ReservedExact, HeldFor, SleepsWell,
                        AboutToWake, At
    <2> QED
      BY <2>2, <2>3 DEF ExpandsWithin
  <1>2. CASE GovernorNext
    <2>1. PICK t \in Tasks :
            \/ \E n \in Amounts : ReserveNowait(t, n) \/ ReserveOrWait(t, n)
            \/ Register(t) \/ DeadlinePassed(t) \/ Wake(t) \/ Poll(t) \/ CancelWait(t)
            \/ Recheck(t) \/ Unregister(t) \/ Release(t) \/ PostWakes(t)
      BY <1>2 DEF GovernorNext
    <2> QED
      BY <2>1, FirstTryKeeps, WalkKeeps, RecheckKeeps, UnregisterKeeps, ReleaseKeepsBytes,
         PostWakesKeeps
  <1> QED
    BY <1>1, <1>2

LEMMA GovernorStarts == GovernorInit => GovernorInv
  <1> SUFFICES ASSUME GovernorInit PROVE GovernorInv
    OBVIOUS
  <1>1. /\ reserved = [c \in Categories |-> 0] /\ task = [t \in Tasks |-> NoCall]
        /\ sample = NoSample /\ failed = FALSE /\ waiters = {} /\ posted = {}
    BY DEF GovernorInit
  <1>2. NoCall \in Calls /\ NoCall.ph = "out" /\ HeldBytes(NoCall) = 0 /\ NoSample \in MemorySamples
    BY DEF NoCall, Calls, NoSample, MemorySamples, HeldBytes
  <1>3. GovernorTypeOK
    BY <1>1, <1>2 DEF GovernorTypeOK
  <1>4. ReservedExact
    <2> SUFFICES ASSUME NEW c \in Categories
                 PROVE  SumFunctionOnSet([t \in Tasks |-> HeldFor(t, c)], Tasks) = 0
      BY <1>1 DEF ReservedExact
    <2> DEFINE f == [t \in Tasks |-> HeldFor(t, c)]
    <2>1. \A t \in Tasks : f[t] = 0
      BY <1>1, <1>2 DEF HeldFor
    <2> HIDE DEF f
    <2>2. SumFunctionOnSet(f, Tasks) = 0
      BY <2>1, SumOfZeros, GovernorConstants
    <2> QED
      BY <2>2 DEF f
  <1>5. \A t \in Tasks : (task[t].ph \in Registered => t \in waiters) /\ SleepsWell(t)
    BY <1>1, <1>2 DEF Registered, SleepsWell, At
  <1> QED
    BY <1>3, <1>4, <1>5 DEF GovernorInv

LEMMA GovernorSays == GovernorInv => ReservedExact /\ NoLostWakeup
  BY DEF GovernorInv, SleepsWell, StaleRoom, AboutToWake, NoLostWakeup

\* For any tasks, categories, sizes, samples and configured budgets: each category's counter is
\* what its holders will give back, a waiter for which a release has made room is about to be
\* woken, and no expansion exceeds the sample or, when that is stale, the fallback budget,
\* with time-outs, cancellations and releases of other threads between any two sections.
THEOREM GovernorIsSound == GovernorSpec => GovernorSound
  <1>1. GovernorInv /\ [GovernorNext]_governorVars => GovernorInv'
    BY GovernorStep
  <1>2. GovernorInv /\ [GovernorNext]_governorVars
          => [TotalReserved' > TotalReserved
                => /\ TotalReserved' <= Headroom(sample')
                   /\ failed' => TotalReserved' <= Fallback]_governorVars
    BY GovernorStep DEF ExpandsWithin
  <1>3. GovernorSpec => []GovernorInv
    BY <1>1, GovernorStarts, PTL DEF GovernorSpec
  <1>4. GovernorSpec => []ReservedExact /\ []NoLostWakeup
    BY <1>3, GovernorSays, PTL
  <1>5. GovernorSpec => ExpansionFits
    BY <1>1, <1>2, GovernorStarts, PTL DEF GovernorSpec, ExpansionFits
  <1> QED
    BY <1>4, <1>5, PTL DEF GovernorSound
-----------------------------------------------------------------------------
(* StreamQueue: the bytes of a sequence of chunks *)

LEMMA TotalTerms ==
    ASSUME NEW s \in Seq(Nat)
    PROVE  /\ Len(s) \in Nat /\ DOMAIN s = 1 .. Len(s) /\ IsFiniteSet(DOMAIN s)
           /\ \A i \in DOMAIN s : s[i] \in Nat
  <1>1. Len(s) \in Nat /\ DOMAIN s = 1 .. Len(s) /\ s \in [1 .. Len(s) -> Nat]
    BY LenProperties
  <1>2. IsFiniteSet(1 .. Len(s))
    BY <1>1, FS_Interval
  <1> QED
    BY <1>1, <1>2

LEMMA TotalIsNat ==
    ASSUME NEW s \in Seq(Nat)
    PROVE  Total(s) \in Nat
  BY TotalTerms, SumIsNat DEF Total

LEMMA TotalOfNone == Total(<<>>) = 0
  <1>1. DOMAIN <<>> = {}
    OBVIOUS
  <1> QED
    BY <1>1, SumOfNothing DEF Total

LEMMA TotalOfOne ==
    ASSUME NEW n \in Nat
    PROVE  Total(<<n>>) = n
  <1> DEFINE s == <<n>>
  <1>1. DOMAIN s = {1} /\ s[1] = n
    OBVIOUS
  <1> HIDE DEF s
  <1>2. IsFiniteSet({1}) /\ \A i \in {1} : s[i] \in Nat
    BY <1>1, FS_Singleton
  <1>3. SumFunctionOnSet(s, {1}) = s[1] + SumFunctionOnSet(s, {1} \ {1})
    BY <1>2, SumSplit
  <1>4. {1} \ {1} = {}
    OBVIOUS
  <1>5. SumFunctionOnSet(s, {}) = 0
    BY SumOfNothing
  <1>6. SumFunctionOnSet(s, {1}) = n
    <2>1. SumFunctionOnSet(s, {1} \ {1}) = 0
      BY ONLY <1>4, <1>5
    <2>2. SumFunctionOnSet(s, {1}) = n + 0
      BY <1>1, <1>3, <2>1
    <2>3. n + 0 = n
      OBVIOUS
    <2> QED
      BY ONLY <2>2, <2>3
  <1> QED
    BY <1>1, <1>6 DEF Total, s

\* Of two sequences, one after the other.
LEMMA TotalJoined ==
    ASSUME NEW s \in Seq(Nat), NEW t \in Seq(Nat)
    PROVE  Total(s \o t) = Total(s) + Total(t)
  <1> DEFINE m == Len(s)
             k == Len(t)
             j == s \o t
             low == 1 .. m
             high == m + 1 .. m + k
             h == [i \in 1 .. k |-> i + m]
  <1>1. m \in Nat /\ DOMAIN s = low /\ IsFiniteSet(low) /\ \A i \in low : s[i] \in Nat
    BY TotalTerms
  <1>2. k \in Nat /\ DOMAIN t = 1 .. k /\ IsFiniteSet(1 .. k) /\ \A i \in 1 .. k : t[i] \in Nat
    BY TotalTerms
  <1>3. /\ j \in Seq(Nat) /\ Len(j) = m + k
        /\ \A i \in 1 .. m + k : j[i] = IF i <= m THEN s[i] ELSE t[i - m]
    BY ConcatProperties
  <1>4. DOMAIN j = 1 .. m + k
    BY <1>3, LenProperties
  <1> HIDE DEF m, k, j
  <1>5. DOMAIN j = low \cup high /\ low \cap high = {}
    BY <1>1, <1>2, <1>4
  <1>6. h \in Bijection(1 .. k, high)
    <2>1. \A i \in 1 .. k : h[i] \in high
      BY <1>1, <1>2
    <2>2. \A x, y \in 1 .. k : h[x] = h[y] => x = y
      BY <1>1, <1>2
    <2>3. \A v \in high : \E x \in 1 .. k : h[x] = v
      <3>1. ASSUME NEW v \in high PROVE v - m \in 1 .. k /\ h[v - m] = v
        BY <1>1, <1>2
      <3> QED
        BY <3>1
    <2>4. h \in [1 .. k -> high]
      BY <2>1
    <2> HIDE DEF h, high
    <2> QED
      BY <2>2, <2>3, <2>4 DEF Bijection, Injection, Surjection, IsInjective
  <1>7. \A i \in 1 .. k : j[h[i]] = t[i]
    BY <1>1, <1>2, <1>3
  <1> HIDE DEF h
  <1>8. IsFiniteSet(high) /\ SumFunctionOnSet(j, high) = SumFunctionOnSet(t, 1 .. k)
    <2> DEFINE base == 1 .. k
    <2>1. /\ IsFiniteSet(base) /\ \A i \in base : t[i] \in Nat
          /\ h \in Bijection(base, high) /\ \A i \in base : j[h[i]] = t[i]
      BY <1>2, <1>6, <1>7
    <2> HIDE DEF base, high
    <2>2. IsFiniteSet(high) /\ SumFunctionOnSet(j, high) = SumFunctionOnSet(t, base)
      BY ONLY <2>1, SumMoved
    <2> QED
      BY <2>2 DEF base
  <1>9. \A i \in low : j[i] = s[i]
    BY <1>1, <1>2, <1>3
  <1>10. SumFunctionOnSet(j, low) = SumFunctionOnSet(s, low)
    BY <1>1, <1>9, SumSame
  <1>11. \A i \in low \cup high : j[i] \in Nat
    BY <1>3, <1>5, TotalTerms
  <1> HIDE DEF low, high
  <1>12. SumFunctionOnSet(j, low \cup high) = SumFunctionOnSet(j, low) + SumFunctionOnSet(j, high)
    BY <1>1, <1>5, <1>8, <1>11, SumOfParts
  <1>13. Total(j) = Total(s) + Total(t)
    BY <1>1, <1>2, <1>5, <1>8, <1>10, <1>12 DEF Total
  <1> QED
    BY <1>13 DEF j

LEMMA TotalAppended ==
    ASSUME NEW s \in Seq(Nat), NEW n \in Nat
    PROVE  Total(Append(s, n)) = Total(s) + n
  <1>1. Append(s, n) = s \o <<n>>
    OBVIOUS
  <1>2. <<n>> \in Seq(Nat)
    OBVIOUS
  <1> QED
    BY <1>1, <1>2, TotalJoined, TotalOfOne

LEMMA TotalOfTail ==
    ASSUME NEW s \in Seq(Nat), s # <<>>
    PROVE  /\ Head(s) \in Nat /\ Tail(s) \in Seq(Nat)
           /\ Total(s) = Head(s) + Total(Tail(s))
  <1>1. Head(s) \in Nat /\ Tail(s) \in Seq(Nat)
    BY HeadTailProperties
  <1>2. s = <<Head(s)>> \o Tail(s)
    OBVIOUS
  <1>3. <<Head(s)>> \in Seq(Nat)
    BY <1>1
  <1>4. Total(<<Head(s)>> \o Tail(s)) = Total(<<Head(s)>>) + Total(Tail(s))
    BY <1>1, <1>3, TotalJoined
  <1>5. Total(<<Head(s)>>) = Head(s)
    BY <1>1, TotalOfOne
  <1> QED
    BY <1>1, <1>2, <1>4, <1>5

-----------------------------------------------------------------------------
(* StreamQueue: one stream, and the budget that all streams charge *)

Contents == [items : Seq(Sizes), bytes : Nat, out : 0..1, outBytes : Nat, closed : BOOLEAN]

\* The producer of a put that has begun has a chunk.
Producers ==
    {p \in [ph : Waiting \cup {"idle", "failing"}, n : Sizes \cup {0},
            to : Buffers \cup {"queue"}, why : {"none", "timeout", "cancel", "closed"}] :
        p.ph # "idle" => p.n \in Sizes}

Consumers == [ph : {"idle", "asleep", "awake", "holding", "settling", "ended"},
              n : Sizes \cup {0}]

\* x is a queue, bs its buffers, d its release tasks, p its producer and g its consumer.
StreamTyped(x, bs, d, p, g) ==
    /\ x \in Contents /\ bs \in [Buffers -> Seq(Sizes)] /\ d \in Seq(Sizes)
    /\ p \in Producers /\ g \in Consumers

\* The item that is out is the one the consumer holds; only one that holds or settles an
\* item has its size.
Carried(x, g) ==
    /\ g.ph = "holding" => x.out = 1 /\ x.outBytes = g.n
    /\ g.ph # "holding" => x.out = 0 /\ x.outBytes = 0
    /\ g.n # 0 => g.ph \in {"holding", "settling"}

Bounded(x) ==
    /\ Len(x.items) + x.out <= MaxItems
    /\ x.bytes <= MaxBytes
    /\ x.bytes = Total(x.items) + x.outBytes

RoomFor(x, n) == Len(x.items) + x.out < MaxItems /\ x.bytes + n <= MaxBytes

WaitsWell(x, p, g) ==
    /\ p.ph = "queue asleep" => ~x.closed /\ ~RoomFor(x, p.n)
    /\ g.ph = "asleep" => x.items = <<>> /\ ~x.closed

StreamFine(x, bs, d, p, g) ==
    StreamTyped(x, bs, d, p, g) /\ Carried(x, g) /\ Bounded(x) /\ WaitsWell(x, p, g)

\* What the stream has charged, with the put of a producer in one of the phases.
BufferBytes(bs) == SumFunctionOnSet([c \in Buffers |-> Total(bs[c])], Buffers)

Put(p, phases) == IF p.ph \in phases THEN p.n ELSE 0

Stored(x, bs, d, g) == Total(x.items) + Total(d) + g.n + BufferBytes(bs)

Owing(x, bs, d, p, g, phases) == Stored(x, bs, d, g) + Put(p, phases)

Reserving == Holding \cup {"parent"}

OwedBy(s, phases) == Owing(q[s], buf[s], drop[s], put[s], get[s], phases)

Accounts(phases) == [s \in Streams |-> OwedBy(s, phases)]

StreamsFine ==
    /\ q \in [Streams -> Contents] /\ buf \in [Streams -> [Buffers -> Seq(Sizes)]]
    /\ drop \in [Streams -> Seq(Sizes)] /\ put \in [Streams -> Producers]
    /\ get \in [Streams -> Consumers]
    /\ \A s \in Streams : StreamFine(q[s], buf[s], drop[s], put[s], get[s])

\* The budget has room for nobody who sleeps beside it.
BudgetFine ==
    /\ budget \in [used : Nat, parent : Nat]
    /\ budget.used <= Capacity
    /\ budget.used = SumFunctionOnSet(Accounts(Reserving), Streams)
    /\ budget.parent = SumFunctionOnSet(Accounts(Holding), Streams)
    /\ \A s \in Streams : put[s].ph = "budget asleep" => ~BudgetFits(put[s].n)

\* Each stream is in order by itself, and the budget is the sum of what they owe.
QueueInv == StreamsFine /\ BudgetFine

\* QueueExact is what this says.
LEMMA QueueSays == QueueInv => QueueExact
  <1> SUFFICES ASSUME QueueInv PROVE QueueExact
    OBVIOUS
  <1>1. \A s \in Streams : /\ Leased(s) = Stored(q[s], buf[s], drop[s], get[s])
                           /\ PutBytes(s, Reserving) = Put(put[s], Reserving)
                           /\ PutBytes(s, Holding) = Put(put[s], Holding)
    BY DEF Leased, Stored, BufferBytes, PutBytes, Put
  <1>2. /\ Accounts(Reserving) = [s \in Streams |-> Leased(s) + PutBytes(s, Reserving)]
        /\ Accounts(Holding) = [s \in Streams |-> Leased(s) + PutBytes(s, Holding)]
    BY <1>1 DEF Accounts, OwedBy, Owing
  <1>3. BudgetExact
    BY <1>2 DEF QueueInv, BudgetFine, BudgetExact, Reserving
  <1>4. QueueBounded
    BY DEF QueueInv, BudgetFine, StreamsFine, StreamFine, Bounded, QueueBounded
  <1>5. NoSleeperForgotten
    BY DEF QueueInv, BudgetFine, StreamsFine, StreamFine, WaitsWell, RoomFor, CanPut,
           NoSleeperForgotten
  <1> QED
    BY <1>3, <1>4, <1>5 DEF QueueExact

LEMMA ChunkSizes ==
    /\ Sizes \subseteq Nat /\ \A n \in Sizes : n <= MaxBytes /\ n <= Capacity
    /\ \A s \in Seq(Sizes) : s \in Seq(Nat)
    /\ Capacity \in Nat /\ MaxItems \in Nat \ {0} /\ MaxBytes \in Nat /\ MaxBuffer \in Nat
  <1>1. Sizes \subseteq Nat /\ \A n \in Sizes : n <= MaxBytes /\ n <= Capacity
    BY StreamAssumption
  <1>2. \A s \in Seq(Sizes) : s \in Seq(Nat)
    BY <1>1, SeqMonotonic
  <1> QED
    BY <1>1, <1>2, StreamAssumption

LEMMA SizeIsNat ==
    ASSUME NEW n \in Sizes \cup {0}
    PROVE  n \in Nat
  <1>1. CASE n \in Sizes
    BY <1>1, ChunkSizes
  <1>2. CASE n = 0
    BY <1>2
  <1> QED
    BY <1>1, <1>2

LEMMA BufferBytesIsNat ==
    ASSUME NEW bs \in [Buffers -> Seq(Sizes)]
    PROVE  BufferBytes(bs) \in Nat /\ \A c \in Buffers : Total(bs[c]) \in Nat
  <1> DEFINE f == [c \in Buffers |-> Total(bs[c])]
  <1>1. \A c \in Buffers : Total(bs[c]) \in Nat
    BY ChunkSizes, TotalIsNat
  <1>2. IsFiniteSet(Buffers)
    BY StreamAssumption
  <1>3. \A c \in Buffers : f[c] \in Nat
    BY <1>1
  <1> HIDE DEF f
  <1>4. SumFunctionOnSet(f, Buffers) \in Nat
    BY ONLY <1>2, <1>3, SumIsNat
  <1> QED
    BY <1>1, <1>4 DEF BufferBytes, f

\* One buffer changes.
LEMMA BufferMoves ==
    ASSUME NEW bs \in [Buffers -> Seq(Sizes)], NEW b \in Buffers, NEW c \in Seq(Sizes)
    PROVE  /\ [bs EXCEPT ![b] = c] \in [Buffers -> Seq(Sizes)]
           /\ BufferBytes([bs EXCEPT ![b] = c]) = BufferBytes(bs) - Total(bs[b]) + Total(c)
  <1> DEFINE new == [bs EXCEPT ![b] = c]
             f == [a \in Buffers |-> Total(bs[a])]
             g == [a \in Buffers |-> Total(new[a])]
  <1>1. new \in [Buffers -> Seq(Sizes)] /\ new[b] = c /\ \A a \in Buffers : a # b => new[a] = bs[a]
    OBVIOUS
  <1> HIDE DEF new
  <1>2. /\ \A a \in Buffers : f[a] \in Nat
        /\ f[b] = Total(bs[b])
    BY BufferBytesIsNat
  <1>3. g[b] \in Nat /\ g[b] = Total(c)
    BY <1>1, BufferBytesIsNat
  <1>4. \A a \in Buffers : a # b => g[a] = f[a]
    BY <1>1
  <1>5. IsFiniteSet(Buffers)
    BY StreamAssumption
  <1> HIDE DEF f, g
  <1>8. \A a \in Buffers : f[a] \in Nat
    BY <1>2
  <1>9. g[b] \in Nat
    BY <1>3
  <1>6. SumFunctionOnSet(g, Buffers) = SumFunctionOnSet(f, Buffers) - f[b] + g[b]
    BY ONLY <1>8, <1>9, <1>4, <1>5, b \in Buffers, SumChanges
  <1>7. BufferBytes(new) = BufferBytes(bs) - Total(bs[b]) + Total(c)
    BY <1>2, <1>3, <1>6 DEF BufferBytes, f, g
  <1> QED
    BY <1>1, <1>7 DEF new

LEMMA OwingIsNat ==
    ASSUME NEW x, NEW bs, NEW d, NEW p, NEW g, StreamTyped(x, bs, d, p, g), NEW phases
    PROVE  /\ Total(x.items) \in Nat /\ Total(d) \in Nat /\ g.n \in Nat /\ p.n \in Nat
           /\ BufferBytes(bs) \in Nat /\ Stored(x, bs, d, g) \in Nat
           /\ Owing(x, bs, d, p, g, phases) \in Nat
           /\ Put(p, phases) <= Owing(x, bs, d, p, g, phases)
  <1>1. Total(x.items) \in Nat /\ Total(d) \in Nat
    BY ChunkSizes, TotalIsNat DEF StreamTyped, Contents
  <1>2. g.n \in Nat /\ p.n \in Nat
    <2>1. g.n \in Sizes \cup {0} /\ p.n \in Sizes \cup {0}
      BY DEF StreamTyped, Producers, Consumers
    <2> QED
      BY ONLY <2>1, SizeIsNat
  <1>3. BufferBytes(bs) \in Nat
    BY BufferBytesIsNat DEF StreamTyped
  <1> QED
    BY <1>1, <1>2, <1>3 DEF Owing, Stored, Put

LEMMA OwedIsNat ==
    ASSUME StreamsFine, NEW s \in Streams, NEW phases
    PROVE  OwedBy(s, phases) \in Nat /\ Put(put[s], phases) <= OwedBy(s, phases)
  BY OwingIsNat DEF StreamsFine, StreamFine, OwedBy

\* One stream owes d more, the others what they owed.
LEMMA AccountMoves ==
    ASSUME StreamsFine, StreamsFine', NEW s \in Streams, NEW phases, NEW d \in Int,
           OwedBy(s, phases)' = OwedBy(s, phases) + d,
           \A t \in Streams : t # s => OwedBy(t, phases)' = OwedBy(t, phases)
    PROVE  /\ SumFunctionOnSet(Accounts(phases), Streams)'
                  = SumFunctionOnSet(Accounts(phases), Streams) + d
           /\ SumFunctionOnSet(Accounts(phases), Streams)' \in Nat
  <1> DEFINE f == Accounts(phases)
             g == Accounts(phases)'
  <1>1. \A t \in Streams : f[t] = OwedBy(t, phases) /\ f[t] \in Nat
    BY OwedIsNat DEF Accounts
  <1>2. \A t \in Streams : g[t] = OwedBy(t, phases)'
    BY DEF Accounts
  <1>3. \A t \in Streams : OwedBy(t, phases)' \in Nat
    <2>1. ASSUME NEW t \in Streams PROVE OwedBy(t, phases)' \in Nat
      <3>1. StreamTyped(q[t]', buf[t]', drop[t]', put[t]', get[t]')
        BY DEF StreamsFine, StreamFine
      <3>2. Owing(q[t]', buf[t]', drop[t]', put[t]', get[t]', phases) \in Nat
        BY <3>1, OwingIsNat
      <3> QED
        BY <3>2 DEF OwedBy
    <2> QED
      BY <2>1
  <1>4. \A t \in Streams : g[t] \in Nat
    BY <1>2, <1>3
  <1>5. \A t \in Streams : t # s => g[t] = f[t]
    BY <1>1, <1>2
  <1>6. f[s] \in Nat /\ g[s] \in Nat /\ g[s] = f[s] + d
    BY <1>1, <1>2, <1>4
  <1>7. IsFiniteSet(Streams)
    BY StreamAssumption
  <1>8. \A t \in Streams : f[t] \in Nat
    BY <1>1
  <1>9. SumFunctionOnSet(Accounts(phases), Streams)' = SumFunctionOnSet(g, Streams)
    OBVIOUS
  <1> HIDE DEF f, g
  <1>10. g[s] \in Nat
    BY <1>6
  <1>11. SumFunctionOnSet(g, Streams) = SumFunctionOnSet(f, Streams) - f[s] + g[s]
    BY ONLY <1>5, <1>7, <1>8, <1>10, s \in Streams, SumChanges
  <1>12. SumFunctionOnSet(f, Streams) \in Nat
    BY ONLY <1>7, <1>8, SumIsNat
  <1>13. SumFunctionOnSet(g, Streams) \in Nat
    BY ONLY <1>4, <1>7, SumIsNat
  <1>14. SumFunctionOnSet(g, Streams) = SumFunctionOnSet(f, Streams) + d
    BY <1>6, <1>11, <1>12
  <1> QED
    BY <1>9, <1>13, <1>14 DEF f

\* The budget moves by what one stream owes more or less, and stays above those who sleep.
LEMMA BudgetMoves ==
    ASSUME QueueInv, StreamsFine', NEW s \in Streams, NEW d \in Int, NEW e \in Int,
           OwedBy(s, Reserving)' = OwedBy(s, Reserving) + d,
           OwedBy(s, Holding)' = OwedBy(s, Holding) + e,
           \A t \in Streams : t # s => /\ OwedBy(t, Reserving)' = OwedBy(t, Reserving)
                                       /\ OwedBy(t, Holding)' = OwedBy(t, Holding),
           budget' = [used |-> budget.used + d, parent |-> budget.parent + e],
           budget.used + d <= Capacity,
           \A t \in Streams : put'[t].ph = "budget asleep"
                                  => ~ (budget.used + d + put'[t].n <= Capacity)
    PROVE  QueueInv'
  <1>1. StreamsFine /\ BudgetFine
    BY DEF QueueInv
  <1>2. /\ SumFunctionOnSet(Accounts(Reserving), Streams)'
               = SumFunctionOnSet(Accounts(Reserving), Streams) + d
        /\ SumFunctionOnSet(Accounts(Reserving), Streams)' \in Nat
    BY <1>1, AccountMoves
  <1>3. /\ SumFunctionOnSet(Accounts(Holding), Streams)'
               = SumFunctionOnSet(Accounts(Holding), Streams) + e
        /\ SumFunctionOnSet(Accounts(Holding), Streams)' \in Nat
    BY <1>1, AccountMoves
  <1>4. /\ budget.used = SumFunctionOnSet(Accounts(Reserving), Streams)
        /\ budget.parent = SumFunctionOnSet(Accounts(Holding), Streams)
    BY <1>1 DEF BudgetFine
  <1>5. budget'.used = budget.used + d /\ budget'.parent = budget.parent + e
    OBVIOUS
  <1>6. /\ budget'.used = SumFunctionOnSet(Accounts(Reserving), Streams)'
        /\ budget'.parent = SumFunctionOnSet(Accounts(Holding), Streams)'
    BY <1>2, <1>3, <1>4, <1>5
  <1>7. budget' \in [used : Nat, parent : Nat]
    <2>1. budget.used + d \in Nat /\ budget.parent + e \in Nat
      BY <1>2, <1>3, <1>5, <1>6
    <2> QED
      BY <2>1
  <1>8. budget'.used <= Capacity
    BY <1>5
  <1>9. \A t \in Streams : put'[t].ph = "budget asleep" => ~BudgetFits(put[t].n)'
    BY <1>5 DEF BudgetFits
  <1> QED
    BY <1>6, <1>7, <1>8, <1>9 DEF QueueInv, BudgetFine

\* Stream s becomes x, bs, dd, p, g, in order by itself; its producer is p but for being
\* woken.  It then owes d more, or less, to the budget and e to the governor.
StreamBecomes(s, x, bs, dd, p, g) ==
    /\ StreamFine(x, bs, dd, p, g)
    /\ q' = [q EXCEPT ![s] = x] /\ buf' = [buf EXCEPT ![s] = bs]
    /\ drop' = [drop EXCEPT ![s] = dd] /\ get' = [get EXCEPT ![s] = g]

OwesMore(s, x, bs, dd, p, g, d, e) ==
    /\ Owing(x, bs, dd, p, g, Reserving) = OwedBy(s, Reserving) + d
    /\ Owing(x, bs, dd, p, g, Holding) = OwedBy(s, Holding) + e

OwesLess(s, x, bs, dd, p, g, d, e) ==
    /\ Owing(x, bs, dd, p, g, Reserving) = OwedBy(s, Reserving) - d
    /\ Owing(x, bs, dd, p, g, Holding) = OwedBy(s, Holding) - e

Charges(d, e) ==
    /\ budget' = [used |-> budget.used + d, parent |-> budget.parent + e]
    /\ budget.used + d <= Capacity

\* p, if it falls asleep beside the budget, does so because d more leave no room for it.
Placed(p, d) == p.ph = "budget asleep" => ~ (budget.used + d + p.n <= Capacity)

\* One stream changes, with the phases of its producer as they are.
LEMMA StreamMoves ==
    ASSUME QueueInv, NEW s \in Streams, NEW x, NEW bs, NEW dd, NEW p, NEW g,
           StreamBecomes(s, x, bs, dd, p, g), put' = [put EXCEPT ![s] = p],
           NEW d \in Int, NEW e \in Int, d >= 0,
           OwesMore(s, x, bs, dd, p, g, d, e), Charges(d, e), Placed(p, d)
    PROVE  QueueInv'
  <1>0. /\ StreamFine(x, bs, dd, p, g)
        /\ q' = [q EXCEPT ![s] = x] /\ buf' = [buf EXCEPT ![s] = bs]
        /\ drop' = [drop EXCEPT ![s] = dd] /\ get' = [get EXCEPT ![s] = g]
        /\ put' = [put EXCEPT ![s] = p]
    BY DEF StreamBecomes
  <1>1. StreamsFine /\ BudgetFine
    BY DEF QueueInv
  <1>2. /\ q \in [Streams -> Contents] /\ buf \in [Streams -> [Buffers -> Seq(Sizes)]]
        /\ drop \in [Streams -> Seq(Sizes)] /\ put \in [Streams -> Producers]
        /\ get \in [Streams -> Consumers]
        /\ \A t \in Streams : StreamFine(q[t], buf[t], drop[t], put[t], get[t])
    BY <1>1 DEF StreamsFine
  <1>3. StreamTyped(x, bs, dd, p, g)
    BY <1>0 DEF StreamFine
  <1>4. /\ q'[s] = x /\ buf'[s] = bs /\ drop'[s] = dd /\ put'[s] = p /\ get'[s] = g
        /\ \A t \in Streams : t # s => /\ q'[t] = q[t] /\ buf'[t] = buf[t] /\ drop'[t] = drop[t]
                                       /\ put'[t] = put[t] /\ get'[t] = get[t]
    BY <1>0, <1>2
  <1>5. /\ q' \in [Streams -> Contents] /\ buf' \in [Streams -> [Buffers -> Seq(Sizes)]]
        /\ drop' \in [Streams -> Seq(Sizes)] /\ put' \in [Streams -> Producers]
        /\ get' \in [Streams -> Consumers]
    BY <1>0, <1>2, <1>3 DEF StreamTyped
  <1>6. \A t \in Streams : StreamFine(q'[t], buf'[t], drop'[t], put'[t], get'[t])
    BY <1>0, <1>2, <1>4
  <1>7. StreamsFine'
    BY <1>5, <1>6 DEF StreamsFine
  <1>8. /\ OwedBy(s, Reserving)' = OwedBy(s, Reserving) + d
        /\ OwedBy(s, Holding)' = OwedBy(s, Holding) + e
    BY <1>4 DEF OwedBy, OwesMore, Reserving, Holding
  <1>9. \A t \in Streams : t # s => /\ OwedBy(t, Reserving)' = OwedBy(t, Reserving)
                                    /\ OwedBy(t, Holding)' = OwedBy(t, Holding)
    BY <1>4 DEF OwedBy, Reserving, Holding
  <1>10. \A t \in Streams : put'[t].ph = "budget asleep"
                                => ~ (budget.used + d + put'[t].n <= Capacity)
    <2>1. ASSUME NEW t \in Streams, t # s, put'[t].ph = "budget asleep"
          PROVE  ~ (budget.used + d + put'[t].n <= Capacity)
      <3>1. put'[t] = put[t] /\ ~ (budget.used + put[t].n <= Capacity)
        BY <1>1, <1>4, <2>1 DEF BudgetFine, BudgetFits
      <3>2. budget.used \in Nat /\ put[t].n \in Nat /\ Capacity \in Nat
        BY <1>1, <1>2, OwingIsNat, ChunkSizes DEF BudgetFine, StreamFine
      <3>3. d \in Int /\ d >= 0
        OBVIOUS
      <3> QED
        BY ONLY <3>1, <3>2, <3>3
    <2> QED
      BY <1>4, <2>1 DEF Placed
  <1>11. /\ budget' = [used |-> budget.used + d, parent |-> budget.parent + e]
         /\ budget.used + d <= Capacity
    BY DEF Charges
  <1> QED
    BY <1>7, <1>8, <1>9, <1>10, <1>11, BudgetMoves

Woken(p) == IF p.ph = "budget asleep" THEN [p EXCEPT !.ph = "budget awake"] ELSE p

LEMMA WokenIsFine ==
    ASSUME NEW x, NEW bs, NEW d, NEW p, NEW g, StreamFine(x, bs, d, p, g)
    PROVE  /\ StreamFine(x, bs, d, Woken(p), g)
           /\ Owing(x, bs, d, Woken(p), g, Reserving) = Owing(x, bs, d, p, g, Reserving)
           /\ Owing(x, bs, d, Woken(p), g, Holding) = Owing(x, bs, d, p, g, Holding)
           /\ Woken(p).ph # "budget asleep" /\ Woken(p) \in Producers
  <1>1. CASE p.ph = "budget asleep"
    <2>1. p \in Producers
      BY DEF StreamFine, StreamTyped
    <2>2. Woken(p) = [p EXCEPT !.ph = "budget awake"]
      BY <1>1 DEF Woken
    <2>3. Woken(p) \in Producers /\ Woken(p).ph = "budget awake"
      BY ONLY <1>1, <2>1, <2>2 DEF Producers, Waiting
    <2> QED
      BY <1>1, <2>3 DEF StreamFine, StreamTyped, WaitsWell, Owing, Put, Reserving, Holding
  <1>2. CASE p.ph # "budget asleep"
    <2>1. Woken(p) = p
      BY <1>2 DEF Woken
    <2> QED
      BY <1>2, <2>1 DEF StreamFine, StreamTyped
  <1> QED
    BY <1>1, <1>2

\* One stream returns bytes, and all who sleep beside the budget are woken.
LEMMA StreamReturns ==
    ASSUME QueueInv, NEW s \in Streams, NEW x, NEW bs, NEW dd, NEW p, NEW g,
           StreamBecomes(s, x, bs, dd, p, g), put' = BudgetNotified([put EXCEPT ![s] = p]),
           NEW d \in Nat, NEW e \in Nat, OwesLess(s, x, bs, dd, p, g, d, e),
           budget' = [used |-> budget.used - d, parent |-> budget.parent - e]
    PROVE  QueueInv'
  <1>0. /\ StreamFine(x, bs, dd, p, g)
        /\ q' = [q EXCEPT ![s] = x] /\ buf' = [buf EXCEPT ![s] = bs]
        /\ drop' = [drop EXCEPT ![s] = dd] /\ get' = [get EXCEPT ![s] = g]
    BY DEF StreamBecomes
  <1>1. StreamsFine /\ BudgetFine
    BY DEF QueueInv
  <1>2. /\ q \in [Streams -> Contents] /\ buf \in [Streams -> [Buffers -> Seq(Sizes)]]
        /\ drop \in [Streams -> Seq(Sizes)] /\ put \in [Streams -> Producers]
        /\ get \in [Streams -> Consumers]
        /\ \A t \in Streams : StreamFine(q[t], buf[t], drop[t], put[t], get[t])
    BY <1>1 DEF StreamsFine
  <1>3. StreamTyped(x, bs, dd, p, g)
    BY <1>0 DEF StreamFine
  <1>4. /\ q'[s] = x /\ buf'[s] = bs /\ drop'[s] = dd /\ get'[s] = g
        /\ \A t \in Streams : t # s => /\ q'[t] = q[t] /\ buf'[t] = buf[t] /\ drop'[t] = drop[t]
                                       /\ get'[t] = get[t]
    BY <1>0, <1>2
  <1>5. /\ put' = [t \in Streams |-> Woken([put EXCEPT ![s] = p][t])]
        /\ put'[s] = Woken(p)
        /\ \A t \in Streams : t # s => put'[t] = Woken(put[t])
    BY <1>2 DEF BudgetNotified, Woken
  <1>6. /\ StreamFine(x, bs, dd, Woken(p), g)
        /\ Owing(x, bs, dd, Woken(p), g, Reserving) = OwedBy(s, Reserving) - d
        /\ Owing(x, bs, dd, Woken(p), g, Holding) = OwedBy(s, Holding) - e
        /\ Woken(p).ph # "budget asleep" /\ Woken(p) \in Producers
    BY <1>0, WokenIsFine DEF OwesLess
  <1>7. \A t \in Streams : t # s =>
            /\ StreamFine(q[t], buf[t], drop[t], Woken(put[t]), get[t])
            /\ Owing(q[t], buf[t], drop[t], Woken(put[t]), get[t], Reserving) = OwedBy(t, Reserving)
            /\ Owing(q[t], buf[t], drop[t], Woken(put[t]), get[t], Holding) = OwedBy(t, Holding)
            /\ Woken(put[t]).ph # "budget asleep" /\ Woken(put[t]) \in Producers
    BY <1>2, WokenIsFine DEF OwedBy
  <1>8. put' \in [Streams -> Producers]
    BY <1>5, <1>6, <1>7
  <1>9. /\ q' \in [Streams -> Contents] /\ buf' \in [Streams -> [Buffers -> Seq(Sizes)]]
        /\ drop' \in [Streams -> Seq(Sizes)] /\ get' \in [Streams -> Consumers]
    BY <1>0, <1>2, <1>3 DEF StreamTyped
  <1>10. \A t \in Streams : StreamFine(q'[t], buf'[t], drop'[t], put'[t], get'[t])
    BY <1>4, <1>5, <1>6, <1>7
  <1>11. StreamsFine'
    BY <1>8, <1>9, <1>10 DEF StreamsFine
  <1>12. /\ OwedBy(s, Reserving) \in Nat /\ OwedBy(s, Holding) \in Nat
    BY <1>1, OwedIsNat
  <1>13. /\ OwedBy(s, Reserving)' = OwedBy(s, Reserving) + (-d)
         /\ OwedBy(s, Holding)' = OwedBy(s, Holding) + (-e)
    <2>1. /\ OwedBy(s, Reserving)' = OwedBy(s, Reserving) - d
          /\ OwedBy(s, Holding)' = OwedBy(s, Holding) - e
      BY <1>4, <1>5, <1>6 DEF OwedBy, Reserving, Holding
    <2> QED
      BY <1>12, <2>1
  <1>14. \A t \in Streams : t # s => /\ OwedBy(t, Reserving)' = OwedBy(t, Reserving)
                                     /\ OwedBy(t, Holding)' = OwedBy(t, Holding)
    BY <1>4, <1>5, <1>7 DEF OwedBy, Reserving, Holding
  <1>15. \A t \in Streams : put'[t].ph # "budget asleep"
    BY <1>5, <1>6, <1>7
  <1>16. /\ budget' = [used |-> budget.used + (-d), parent |-> budget.parent + (-e)]
         /\ budget.used + (-d) <= Capacity
    <2>1. budget.used \in Nat /\ budget.parent \in Nat /\ budget.used <= Capacity /\ Capacity \in Nat
      BY <1>1, ChunkSizes DEF BudgetFine
    <2>2. budget.used - d = budget.used + (-d) /\ budget.parent - e = budget.parent + (-e)
      BY <2>1
    <2>3. budget.used + (-d) <= Capacity
      BY ONLY <2>1, d \in Nat
    <2> QED
      BY <2>2, <2>3
  <1>17. -d \in Int /\ -e \in Int
    OBVIOUS
  <1> QED
    BY <1>11, <1>13, <1>14, <1>15, <1>16, <1>17, BudgetMoves

\* A variable that stays is a variable of which one component stays.
LEMMA StreamStays ==
    ASSUME StreamsFine, NEW s \in Streams
    PROVE  /\ q = [q EXCEPT ![s] = q[s]] /\ buf = [buf EXCEPT ![s] = buf[s]]
           /\ drop = [drop EXCEPT ![s] = drop[s]] /\ put = [put EXCEPT ![s] = put[s]]
           /\ get = [get EXCEPT ![s] = get[s]]
  BY DEF StreamsFine

-----------------------------------------------------------------------------
(* StreamQueue: the producer's steps *)

LEMMA StreamFacts ==
    ASSUME QueueInv, NEW s \in Streams
    PROVE  /\ StreamFine(q[s], buf[s], drop[s], put[s], get[s])
           /\ StreamTyped(q[s], buf[s], drop[s], put[s], get[s])
           /\ put[s] \in Producers /\ put[s].n \in Nat /\ get[s] \in Consumers /\ get[s].n \in Nat
           /\ Stored(q[s], buf[s], drop[s], get[s]) \in Nat
           /\ budget = [used |-> budget.used, parent |-> budget.parent]
           /\ budget.used \in Nat /\ budget.parent \in Nat /\ budget.used <= Capacity
           /\ \A phases : OwedBy(s, phases)
                              = Stored(q[s], buf[s], drop[s], get[s]) + Put(put[s], phases)
  <1>1. StreamFine(q[s], buf[s], drop[s], put[s], get[s])
    BY DEF QueueInv, StreamsFine
  <1>2. StreamTyped(q[s], buf[s], drop[s], put[s], get[s])
    BY <1>1 DEF StreamFine
  <1>3. put[s] \in Producers /\ get[s] \in Consumers
    BY <1>2 DEF StreamTyped
  <1>4. put[s].n \in Nat /\ get[s].n \in Nat /\ Stored(q[s], buf[s], drop[s], get[s]) \in Nat
    BY <1>2, OwingIsNat
  <1>5. budget \in [used : Nat, parent : Nat] /\ budget.used <= Capacity
    BY DEF QueueInv, BudgetFine
  <1>6. /\ budget = [used |-> budget.used, parent |-> budget.parent]
        /\ budget.used \in Nat /\ budget.parent \in Nat
    BY <1>5
  <1>7. \A phases : OwedBy(s, phases)
                        = Stored(q[s], buf[s], drop[s], get[s]) + Put(put[s], phases)
    BY DEF OwedBy, Owing
  <1> QED
    BY <1>1, <1>2, <1>3, <1>4, <1>5, <1>6, <1>7

\* What a put counts for, by its phase.
LEMMA PutCounts ==
    ASSUME NEW p, p.n \in Nat
    PROVE  /\ p.ph \in {"idle", "budget asleep", "budget awake"}
                  => Put(p, Reserving) = 0 /\ Put(p, Holding) = 0
           /\ p.ph = "parent" => Put(p, Reserving) = p.n /\ Put(p, Holding) = 0
           /\ p.ph \in {"parent held", "queue asleep", "queue awake", "failing"}
                  => Put(p, Reserving) = p.n /\ Put(p, Holding) = p.n
           /\ Put(p, Reserving) \in Nat /\ Put(p, Holding) \in Nat
  BY DEF Put, Reserving, Holding

LEMMA ProducerFine ==
    ASSUME NEW x, NEW bs, NEW d, NEW o, NEW g, StreamFine(x, bs, d, o, g),
           NEW p \in Producers, p.ph # "queue asleep"
    PROVE  StreamFine(x, bs, d, p, g)
  BY DEF StreamFine, StreamTyped, WaitsWell

PutsMore(s, p, d, e) ==
    /\ Put(p, Reserving) = Put(put[s], Reserving) + d
    /\ Put(p, Holding) = Put(put[s], Holding) + e

PutsLess(s, p, d, e) ==
    /\ Put(p, Reserving) = Put(put[s], Reserving) - d
    /\ Put(p, Holding) = Put(put[s], Holding) - e

\* Only the producer moves, to p; it charges d more to the budget and e to the governor.
LEMMA ProducerMoves ==
    ASSUME QueueInv, NEW s \in Streams, NEW p \in Producers, p.ph # "queue asleep",
           UNCHANGED <<q, buf, drop, get>>, put' = [put EXCEPT ![s] = p],
           NEW d \in Nat, NEW e \in Int, PutsMore(s, p, d, e), Charges(d, e), Placed(p, d)
    PROVE  QueueInv'
  <1>1. StreamFine(q[s], buf[s], drop[s], p, get[s])
    BY StreamFacts, ProducerFine
  <1>2. /\ q' = [q EXCEPT ![s] = q[s]] /\ buf' = [buf EXCEPT ![s] = buf[s]]
        /\ drop' = [drop EXCEPT ![s] = drop[s]] /\ get' = [get EXCEPT ![s] = get[s]]
    BY StreamStays DEF QueueInv
  <1>3. Stored(q[s], buf[s], drop[s], get[s]) \in Nat /\ put[s].n \in Nat
    BY StreamFacts
  <1>4. /\ OwedBy(s, Reserving) = Stored(q[s], buf[s], drop[s], get[s]) + Put(put[s], Reserving)
        /\ OwedBy(s, Holding) = Stored(q[s], buf[s], drop[s], get[s]) + Put(put[s], Holding)
    BY StreamFacts
  <1>5. Put(put[s], Reserving) \in Nat /\ Put(put[s], Holding) \in Nat
    BY <1>3, PutCounts
  <1>7. d \in Int /\ d >= 0
    BY ONLY d \in Nat
  <1>8. /\ Put(p, Reserving) = Put(put[s], Reserving) + d
        /\ Put(p, Holding) = Put(put[s], Holding) + e
    BY DEF PutsMore
  <1>6. OwesMore(s, q[s], buf[s], drop[s], p, get[s], d, e)
    BY ONLY <1>3, <1>4, <1>5, <1>7, <1>8, e \in Int DEF OwesMore, Owing
  <1>9. StreamBecomes(s, q[s], buf[s], drop[s], p, get[s])
    BY <1>1, <1>2 DEF StreamBecomes
  <1> QED
    BY <1>6, <1>7, <1>9, StreamMoves

\* The producer lets go of what it charged.
LEMMA ProducerReturns ==
    ASSUME QueueInv, NEW s \in Streams, NEW p \in Producers, p.ph # "queue asleep",
           UNCHANGED <<q, buf, drop, get>>, put' = BudgetNotified([put EXCEPT ![s] = p]),
           NEW d \in Nat, NEW e \in Nat, PutsLess(s, p, d, e),
           budget' = [used |-> budget.used - d, parent |-> budget.parent - e]
    PROVE  QueueInv'
  <1>1. StreamFine(q[s], buf[s], drop[s], p, get[s])
    BY StreamFacts, ProducerFine
  <1>2. /\ q' = [q EXCEPT ![s] = q[s]] /\ buf' = [buf EXCEPT ![s] = buf[s]]
        /\ drop' = [drop EXCEPT ![s] = drop[s]] /\ get' = [get EXCEPT ![s] = get[s]]
    BY StreamStays DEF QueueInv
  <1>3. Stored(q[s], buf[s], drop[s], get[s]) \in Nat /\ put[s].n \in Nat
    BY StreamFacts
  <1>4. /\ OwedBy(s, Reserving) = Stored(q[s], buf[s], drop[s], get[s]) + Put(put[s], Reserving)
        /\ OwedBy(s, Holding) = Stored(q[s], buf[s], drop[s], get[s]) + Put(put[s], Holding)
    BY StreamFacts
  <1>5. Put(put[s], Reserving) \in Nat /\ Put(put[s], Holding) \in Nat
    BY <1>3, PutCounts
  <1>7. d \in Int /\ d >= 0
    BY ONLY d \in Nat
  <1>8. /\ Put(p, Reserving) = Put(put[s], Reserving) - d
        /\ Put(p, Holding) = Put(put[s], Holding) - e
    BY DEF PutsLess
  <1>6. OwesLess(s, q[s], buf[s], drop[s], p, get[s], d, e)
    BY ONLY <1>3, <1>4, <1>5, <1>7, <1>8, e \in Nat DEF OwesLess, Owing
  <1>9. StreamBecomes(s, q[s], buf[s], drop[s], p, get[s])
    BY <1>1, <1>2 DEF StreamBecomes
  <1> QED
    BY <1>6, <1>9, StreamReturns

LEMMA ZeroIsNat == 0 \in Nat /\ 0 \in Int
  OBVIOUS

LEMMA BudgetStands ==
    ASSUME budget' = budget, budget.used \in Nat, budget.parent \in Nat, budget.used <= Capacity,
           budget = [used |-> budget.used, parent |-> budget.parent]
    PROVE  Charges(0, 0)
  <1>1. budget.used + 0 = budget.used /\ budget.parent + 0 = budget.parent
    OBVIOUS
  <1> QED
    BY <1>1 DEF Charges

LEMMA TakeBudgetKeeps ==
    ASSUME QueueInv, NEW s \in Streams, NEW p \in Producers, p.n \in Sizes,
           put[s].ph \in {"idle", "budget awake"}, TakeBudget(s, p),
           UNCHANGED <<q, buf, drop, get>>
    PROVE  QueueInv'
  <1>1. /\ budget.used \in Nat /\ budget.parent \in Nat /\ budget.used <= Capacity
        /\ budget = [used |-> budget.used, parent |-> budget.parent]
    BY StreamFacts
  <1>2. Put(put[s], Reserving) = 0 /\ Put(put[s], Holding) = 0
    BY StreamFacts, PutCounts
  <1>3. p.n \in Nat
    <2>1. p.n \in Sizes \cup {0}
      BY DEF Producers
    <2> QED
      BY ONLY <2>1, SizeIsNat
  <1>4. CASE BudgetFits(p.n)
    <2> DEFINE o == [p EXCEPT !.ph = "parent"]
    <2>1. o \in Producers /\ o.ph = "parent" /\ o.n = p.n
      BY DEF Producers, Waiting
    <2>2. /\ budget' = [budget EXCEPT !.used = @ + p.n] /\ put' = [put EXCEPT ![s] = o]
          /\ budget.used + p.n <= Capacity
      BY <1>4 DEF TakeBudget, BudgetFits
    <2> HIDE DEF o
    <2>3. Charges(p.n, 0)
      <3>1. budget' = [used |-> budget.used + p.n, parent |-> budget.parent]
        BY ONLY <1>1, <2>2
      <3>2. budget.parent + 0 = budget.parent
        BY ONLY <1>1
      <3> QED
        BY ONLY <2>2, <3>1, <3>2 DEF Charges
    <2>4. PutsMore(s, o, p.n, 0)
      <3>1. Put(o, Reserving) = p.n /\ Put(o, Holding) = 0
        BY ONLY <1>3, <2>1, PutCounts
      <3> QED
        BY ONLY <1>2, <1>3, <3>1 DEF PutsMore
    <2>5. Placed(o, p.n) /\ o.ph # "queue asleep"
      BY ONLY <2>1 DEF Placed
    <2>6. PICK d \in Nat, e \in Int : PutsMore(s, o, d, e) /\ Charges(d, e) /\ Placed(o, d)
      BY ONLY <1>3, <2>3, <2>4, <2>5, ZeroIsNat
    <2>7. put' = [put EXCEPT ![s] = o] /\ o \in Producers /\ o.ph # "queue asleep"
      BY <2>1, <2>2
    <2> QED
      BY ONLY QueueInv, s \in Streams, UNCHANGED <<q, buf, drop, get>>, <2>6, <2>7, ProducerMoves
  <1>5. CASE ~BudgetFits(p.n)
    <2> DEFINE o == [p EXCEPT !.ph = "budget asleep"]
    <2>1. o \in Producers /\ o.ph = "budget asleep" /\ o.n = p.n
      BY DEF Producers, Waiting
    <2>2. /\ budget' = budget /\ put' = [put EXCEPT ![s] = o]
          /\ ~ (budget.used + p.n <= Capacity)
      BY <1>5 DEF TakeBudget, BudgetFits
    <2> HIDE DEF o
    <2>3. Charges(0, 0)
      BY <1>1, <2>2, BudgetStands
    <2>4. PutsMore(s, o, 0, 0)
      <3>1. Put(o, Reserving) = 0 /\ Put(o, Holding) = 0
        BY ONLY <1>3, <2>1, PutCounts
      <3> QED
        BY ONLY <1>2, <3>1 DEF PutsMore
    <2>5. Placed(o, 0)
      <3>1. budget.used + 0 = budget.used /\ o.n = p.n
        <4>1. budget.used \in Nat
          BY ONLY <1>1
        <4>2. budget.used + 0 = budget.used
          BY ONLY <4>1
        <4> QED
          BY <2>1, <4>2
      <3> QED
        BY ONLY <2>2, <3>1 DEF Placed
    <2>6. o.ph # "queue asleep"
      BY ONLY <2>1
    <2> QED
      BY <2>1, <2>2, <2>3, <2>4, <2>5, <2>6, ZeroIsNat, ProducerMoves
  <1> QED
    BY <1>4, <1>5

LEMMA IdleProducers ==
    ASSUME NEW why \in {"none", "timeout", "cancel", "closed"}
    PROVE  /\ [Idle EXCEPT !.why = why] \in Producers
           /\ [Idle EXCEPT !.why = why].ph = "idle"
           /\ Put([Idle EXCEPT !.why = why], Reserving) = 0
           /\ Put([Idle EXCEPT !.why = why], Holding) = 0
  <1> DEFINE o == [Idle EXCEPT !.why = why]
  <1>1. o = [ph |-> "idle", n |-> 0, to |-> "queue", why |-> why]
    BY DEF Idle
  <1>2. o \in Producers /\ o.ph = "idle" /\ o.n \in Nat
    BY <1>1 DEF Producers
  <1> HIDE DEF o
  <1>3. Put(o, Reserving) = 0 /\ Put(o, Holding) = 0
    BY <1>2, PutCounts
  <1> QED
    BY <1>2, <1>3 DEF o

LEMMA ReserveKeeps ==
    ASSUME QueueInv, NEW s \in Streams, NEW n \in Sizes, NEW to \in Buffers \cup {"queue"},
           ReserveChunk(s, n, to)
    PROVE  QueueInv'
  <1> DEFINE p == [Idle EXCEPT !.n = n, !.to = to]
  <1>1. p \in Producers
    <2>1. Idle \in Producers
      BY DEF Idle, Producers
    <2> QED
      BY ONLY <2>1, n \in Sizes, to \in Buffers \cup {"queue"} DEF Producers
  <1>2. /\ put[s].ph = "idle" /\ TakeBudget(s, p) /\ UNCHANGED <<q, buf, drop, get>>
        /\ p.n \in Sizes
    BY DEF ReserveChunk, Idle
  <1> HIDE DEF p
  <1> QED
    BY <1>1, <1>2, TakeBudgetKeeps

LEMMA BudgetRetryKeeps ==
    ASSUME QueueInv, NEW s \in Streams, BudgetRetry(s)
    PROVE  QueueInv'
  <1>1. put[s] \in Producers
    BY StreamFacts
  <1>2. put[s].ph = "budget awake" /\ TakeBudget(s, put[s]) /\ UNCHANGED <<q, buf, drop, get>>
    BY DEF BudgetRetry
  <1>3. put[s].n \in Sizes
    BY <1>1, <1>2 DEF Producers
  <1> QED
    BY <1>1, <1>2, <1>3, TakeBudgetKeeps

LEMMA ParentGrantsKeeps ==
    ASSUME QueueInv, NEW s \in Streams, ParentGrants(s)
    PROVE  QueueInv'
  <1> DEFINE o == [put[s] EXCEPT !.ph = "parent held"]
  <1>1. /\ put[s] \in Producers /\ put[s].n \in Nat
        /\ budget.used \in Nat /\ budget.parent \in Nat /\ budget.used <= Capacity
        /\ budget = [used |-> budget.used, parent |-> budget.parent]
    BY StreamFacts
  <1>2. o \in Producers /\ o.ph = "parent held" /\ o.n = put[s].n
    <2>1. put[s].ph = "parent"
      BY DEF ParentGrants
    <2> QED
      BY <1>1, <2>1 DEF Producers, Waiting
  <1>3. /\ put[s].ph = "parent" /\ put' = [put EXCEPT ![s] = o]
        /\ budget' = [budget EXCEPT !.parent = @ + put[s].n] /\ UNCHANGED <<q, buf, drop, get>>
    BY DEF ParentGrants
  <1> HIDE DEF o
  <1>4. Charges(0, put[s].n)
    <2>1. budget' = [used |-> budget.used, parent |-> budget.parent + put[s].n]
      BY ONLY <1>1, <1>3
    <2>2. budget.used + 0 = budget.used
      BY ONLY <1>1
    <2> QED
      BY ONLY <1>1, <2>1, <2>2 DEF Charges
  <1>5. PutsMore(s, o, 0, put[s].n)
    <2>1. Put(o, Reserving) = put[s].n /\ Put(o, Holding) = put[s].n
      BY ONLY <1>1, <1>2, PutCounts
    <2>2. Put(put[s], Reserving) = put[s].n /\ Put(put[s], Holding) = 0
      BY ONLY <1>1, <1>3, PutCounts
    <2> QED
      BY ONLY <1>1, <2>1, <2>2 DEF PutsMore
  <1>6. put[s].n \in Int /\ 0 \in Nat
    BY ONLY <1>1
  <1>7. Placed(o, 0) /\ o.ph # "queue asleep"
    BY ONLY <1>2 DEF Placed
  <1> QED
    BY <1>2, <1>3, <1>4, <1>5, <1>6, <1>7, ProducerMoves

LEMMA RollBackKeeps ==
    ASSUME QueueInv, NEW s \in Streams, NEW why \in {"timeout", "cancel"},
           RollBack(s, why), UNCHANGED <<q, buf, drop, get>>
    PROVE  QueueInv'
  <1> DEFINE o == [Idle EXCEPT !.why = why]
             e == IF put[s].ph = "parent held" THEN put[s].n ELSE 0
  <1>1. put[s] \in Producers /\ put[s].n \in Nat
    BY StreamFacts
  <1>2. o \in Producers /\ o.ph = "idle" /\ Put(o, Reserving) = 0 /\ Put(o, Holding) = 0
    BY IdleProducers
  <1>3. /\ put[s].ph \in {"parent", "parent held"}
        /\ budget' = [used |-> budget.used - put[s].n, parent |-> budget.parent - e]
        /\ put' = BudgetNotified([put EXCEPT ![s] = o])
    BY DEF RollBack
  <1> HIDE DEF o
  <1>4. e \in Nat
    BY <1>1
  <1>5. PutsLess(s, o, put[s].n, e)
    <2>1. Put(put[s], Reserving) = put[s].n /\ Put(put[s], Holding) = e
      BY ONLY <1>1, <1>3, PutCounts DEF e
    <2> HIDE DEF e
    <2>2. 0 = put[s].n - put[s].n /\ 0 = e - e
      BY ONLY <1>1, <1>4
    <2> QED
      BY ONLY <1>2, <2>1, <2>2 DEF PutsLess
  <1> HIDE DEF e
  <1>6. o.ph # "queue asleep"
    BY ONLY <1>2
  <1> QED
    BY <1>1, <1>2, <1>3, <1>4, <1>5, <1>6, ProducerReturns

LEMMA StopPutKeeps ==
    ASSUME QueueInv, NEW s \in Streams, NEW why \in {"timeout", "cancel"}, StopPut(s, why)
    PROVE  QueueInv'
  <1>1. UNCHANGED <<q, buf, drop, get>>
    BY DEF StopPut
  <1>2. put[s] \in Producers /\ put[s].n \in Nat /\ 0 \in Nat /\ 0 \in Int
    BY StreamFacts
  <1>3. ASSUME budget' = budget PROVE Charges(0, 0)
    BY <1>3, StreamFacts, BudgetStands
  <1>4. CASE /\ put[s].ph \in {"budget asleep", "budget awake"}
             /\ put' = [put EXCEPT ![s] = [Idle EXCEPT !.why = why]] /\ budget' = budget
    <2> DEFINE o == [Idle EXCEPT !.why = why]
    <2>1. o \in Producers /\ o.ph = "idle" /\ Put(o, Reserving) = 0 /\ Put(o, Holding) = 0
      BY IdleProducers
    <2>2. put' = [put EXCEPT ![s] = o]
      BY <1>4
    <2> HIDE DEF o
    <2>3. PutsMore(s, o, 0, 0)
      <3>1. Put(put[s], Reserving) = 0 /\ Put(put[s], Holding) = 0
        BY ONLY <1>2, <1>4, PutCounts
      <3> QED
        BY ONLY <2>1, <3>1 DEF PutsMore
    <2>4. Placed(o, 0) /\ o.ph # "queue asleep"
      BY ONLY <2>1 DEF Placed
    <2> QED
      BY <1>1, <1>2, <1>3, <1>4, <2>1, <2>2, <2>3, <2>4, ProducerMoves
  <1>5. CASE RollBack(s, why)
    BY <1>1, <1>5, RollBackKeeps
  <1>6. CASE /\ put[s].ph \in {"queue asleep", "queue awake"}
             /\ put' = [put EXCEPT ![s].ph = "failing", ![s].why = why] /\ budget' = budget
    <2> DEFINE o == [put[s] EXCEPT !.ph = "failing", !.why = why]
    <2>1. o \in Producers /\ o.ph = "failing" /\ o.n = put[s].n
      BY <1>2, <1>6 DEF Producers
    <2>2. put' = [put EXCEPT ![s] = o]
      <3>1. put \in [Streams -> Producers]
        BY DEF QueueInv, StreamsFine
      <3> QED
        BY <1>6, <3>1
    <2> HIDE DEF o
    <2>3. PutsMore(s, o, 0, 0)
      <3>1. Put(o, Reserving) = put[s].n /\ Put(o, Holding) = put[s].n
        BY ONLY <1>2, <2>1, PutCounts
      <3>2. Put(put[s], Reserving) = put[s].n /\ Put(put[s], Holding) = put[s].n
        BY ONLY <1>2, <1>6, PutCounts
      <3> QED
        BY ONLY <1>2, <3>1, <3>2 DEF PutsMore
    <2>4. Placed(o, 0) /\ o.ph # "queue asleep"
      BY ONLY <2>1 DEF Placed
    <2> QED
      BY <1>1, <1>2, <1>3, <1>6, <2>1, <2>2, <2>3, <2>4, ProducerMoves
  <1> QED
    BY <1>4, <1>5, <1>6 DEF StopPut

LEMMA PutFailedKeeps ==
    ASSUME QueueInv, NEW s \in Streams, PutFailed(s)
    PROVE  QueueInv'
  <1> DEFINE o == [Idle EXCEPT !.why = put[s].why]
  <1>1. put[s] \in Producers /\ put[s].n \in Nat
    BY StreamFacts
  <1>2. o \in Producers /\ o.ph = "idle" /\ Put(o, Reserving) = 0 /\ Put(o, Holding) = 0
    <2>1. put[s].why \in {"none", "timeout", "cancel", "closed"}
      BY <1>1 DEF Producers
    <2> QED
      BY <2>1, IdleProducers
  <1>3. /\ put[s].ph = "failing" /\ put' = BudgetNotified([put EXCEPT ![s] = o])
        /\ budget' = [used |-> budget.used - put[s].n, parent |-> budget.parent - put[s].n]
        /\ UNCHANGED <<q, buf, drop, get>>
    BY DEF PutFailed, Returned
  <1> HIDE DEF o
  <1>4. PutsLess(s, o, put[s].n, put[s].n)
    <2>1. Put(put[s], Reserving) = put[s].n /\ Put(put[s], Holding) = put[s].n
      BY ONLY <1>1, <1>3, PutCounts
    <2> QED
      BY ONLY <1>1, <1>2, <2>1 DEF PutsLess
  <1>5. o.ph # "queue asleep"
    BY ONLY <1>2
  <1> QED
    BY <1>1, <1>2, <1>3, <1>4, <1>5, ProducerReturns

-----------------------------------------------------------------------------
(* StreamQueue: the queue, its consumer and the release tasks *)

\* A stream moves without a charge.
LEMMA QuietMoves ==
    ASSUME QueueInv, NEW s \in Streams, NEW x, NEW bs, NEW dd, NEW p, NEW g,
           StreamBecomes(s, x, bs, dd, p, g), put' = [put EXCEPT ![s] = p], budget' = budget,
           OwesMore(s, x, bs, dd, p, g, 0, 0), p.ph # "budget asleep" \/ p = put[s]
    PROVE  QueueInv'
  <1>1. Charges(0, 0)
    BY StreamFacts, BudgetStands
  <1>2. Placed(p, 0)
    <2>1. CASE p.ph # "budget asleep"
      BY <2>1 DEF Placed
    <2>2. CASE p = put[s] /\ p.ph = "budget asleep"
      <3>1. ~ (budget.used + p.n <= Capacity)
        BY <2>2 DEF QueueInv, BudgetFine, BudgetFits
      <3>2. budget.used + 0 = budget.used
        <4>1. budget.used \in Nat
          BY StreamFacts
        <4> QED
          BY ONLY <4>1
      <3> QED
        BY ONLY <3>1, <3>2 DEF Placed
    <2> QED
      BY <2>1, <2>2
  <1>3. \E d \in Int, e \in Int : d >= 0 /\ OwesMore(s, x, bs, dd, p, g, d, e) /\ Charges(d, e) /\ Placed(p, d)
    BY ONLY <1>1, <1>2, OwesMore(s, x, bs, dd, p, g, 0, 0), ZeroIsNat
  <1> QED
    BY <1>3, StreamMoves

\* Its sum is what it was.
LEMMA SameSum ==
    ASSUME QueueInv, NEW s \in Streams, NEW x, NEW bs, NEW dd, NEW p, NEW g,
           Stored(x, bs, dd, g) + Put(p, Reserving)
               = Stored(q[s], buf[s], drop[s], get[s]) + Put(put[s], Reserving),
           Stored(x, bs, dd, g) + Put(p, Holding)
               = Stored(q[s], buf[s], drop[s], get[s]) + Put(put[s], Holding)
    PROVE  OwesMore(s, x, bs, dd, p, g, 0, 0)
  <1>1. /\ OwedBy(s, Reserving) = Stored(q[s], buf[s], drop[s], get[s]) + Put(put[s], Reserving)
        /\ OwedBy(s, Holding) = Stored(q[s], buf[s], drop[s], get[s]) + Put(put[s], Holding)
    BY StreamFacts
  <1>2. OwedBy(s, Reserving) \in Nat /\ OwedBy(s, Holding) \in Nat
    BY OwedIsNat DEF QueueInv
  <1>3. OwedBy(s, Reserving) + 0 = OwedBy(s, Reserving) /\ OwedBy(s, Holding) + 0 = OwedBy(s, Holding)
    BY ONLY <1>2
  <1> QED
    BY <1>1, <1>3 DEF OwesMore, Owing

GetWoken(g) == IF g.ph = "asleep" THEN [g EXCEPT !.ph = "awake"] ELSE g

PutWoken(p) == IF p.ph = "queue asleep" THEN [p EXCEPT !.ph = "queue awake"] ELSE p

LEMMA ConsumerWoken ==
    ASSUME NEW g \in Consumers
    PROVE  /\ GetWoken(g) \in Consumers /\ GetWoken(g).n = g.n /\ GetWoken(g).ph # "asleep"
           /\ \A ph \in {"holding", "settling"} : GetWoken(g).ph = ph <=> g.ph = ph
  <1>1. CASE g.ph = "asleep"
    <2>1. GetWoken(g) = [g EXCEPT !.ph = "awake"]
      BY <1>1 DEF GetWoken
    <2>2. GetWoken(g) \in Consumers /\ GetWoken(g).n = g.n /\ GetWoken(g).ph = "awake"
      BY <2>1 DEF Consumers
    <2> QED
      BY <1>1, <2>2
  <1>2. CASE g.ph # "asleep"
    BY <1>2 DEF GetWoken
  <1> QED
    BY <1>1, <1>2

LEMMA ProducerWoken ==
    ASSUME NEW p \in Producers
    PROVE  /\ PutWoken(p) \in Producers /\ PutWoken(p).ph # "queue asleep"
           /\ Put(PutWoken(p), Reserving) = Put(p, Reserving)
           /\ Put(PutWoken(p), Holding) = Put(p, Holding)
           /\ PutWoken(p).ph # "budget asleep" \/ PutWoken(p) = p
  <1>1. CASE p.ph = "queue asleep"
    <2>1. PutWoken(p) = [p EXCEPT !.ph = "queue awake"]
      BY <1>1 DEF PutWoken
    <2>2. PutWoken(p) \in Producers /\ PutWoken(p).n = p.n /\ PutWoken(p).ph = "queue awake"
      BY ONLY <1>1, <2>1, p \in Producers DEF Producers, Waiting
    <2>3. p.n \in Nat
      <3>1. p.n \in Sizes \cup {0}
        BY DEF Producers
      <3> QED
        BY ONLY <3>1, SizeIsNat
    <2>4. /\ Put(p, Reserving) = p.n /\ Put(p, Holding) = p.n
          /\ Put(PutWoken(p), Reserving) = p.n /\ Put(PutWoken(p), Holding) = p.n
      BY ONLY <1>1, <2>2, <2>3, PutCounts
    <2> QED
      BY <2>2, <2>4
  <1>2. CASE p.ph # "queue asleep"
    <2>1. PutWoken(p) = p
      BY <1>2 DEF PutWoken
    <2> QED
      BY <1>2, <2>1
  <1> QED
    BY <1>1, <1>2

\* Who is told, as one component of a function.
LEMMA Told ==
    ASSUME QueueInv, NEW s \in Streams
    PROVE  /\ GetNotified(s) = [get EXCEPT ![s] = GetWoken(get[s])]
           /\ PutNotified(s, put) = [put EXCEPT ![s] = PutWoken(put[s])]
  <1>1. get \in [Streams -> Consumers] /\ put \in [Streams -> Producers]
    BY DEF QueueInv, StreamsFine
  <1>2. GetNotified(s) = [get EXCEPT ![s] = GetWoken(get[s])]
    BY <1>1 DEF GetNotified, GetWoken
  <1>3. PutNotified(s, put) = [put EXCEPT ![s] = PutWoken(put[s])]
    BY <1>1 DEF PutNotified, PutWoken
  <1> QED
    BY <1>2, <1>3

\* The parts of a stream, as numbers and sequences.
LEMMA StreamParts ==
    ASSUME QueueInv, NEW s \in Streams
    PROVE  /\ q[s] \in Contents /\ buf[s] \in [Buffers -> Seq(Sizes)] /\ drop[s] \in Seq(Sizes)
           /\ q[s].items \in Seq(Sizes) /\ q[s].items \in Seq(Nat) /\ drop[s] \in Seq(Nat)
           /\ q[s].bytes \in Nat /\ q[s].out \in 0..1 /\ q[s].outBytes \in Nat
           /\ q[s].closed \in BOOLEAN /\ Len(q[s].items) \in Nat
           /\ Total(q[s].items) \in Nat /\ Total(drop[s]) \in Nat
           /\ BufferBytes(buf[s]) \in Nat
           /\ Carried(q[s], get[s]) /\ Bounded(q[s]) /\ WaitsWell(q[s], put[s], get[s])
  <1>1. StreamTyped(q[s], buf[s], drop[s], put[s], get[s])
    BY StreamFacts
  <1>2. q[s] \in Contents /\ buf[s] \in [Buffers -> Seq(Sizes)] /\ drop[s] \in Seq(Sizes)
    BY <1>1 DEF StreamTyped
  <1>3. /\ q[s].items \in Seq(Sizes) /\ q[s].bytes \in Nat /\ q[s].out \in 0..1
        /\ q[s].outBytes \in Nat /\ q[s].closed \in BOOLEAN
    BY <1>2 DEF Contents
  <1>4. q[s].items \in Seq(Nat) /\ drop[s] \in Seq(Nat)
    BY <1>2, <1>3, ChunkSizes
  <1>5. /\ Total(q[s].items) \in Nat /\ Total(drop[s]) \in Nat /\ BufferBytes(buf[s]) \in Nat
    BY <1>1, OwingIsNat
  <1>6. Len(q[s].items) \in Nat
    BY <1>3, LenProperties
  <1>7. Carried(q[s], get[s]) /\ Bounded(q[s]) /\ WaitsWell(q[s], put[s], get[s])
    BY StreamFacts DEF StreamFine
  <1> QED
    BY <1>2, <1>3, <1>4, <1>5, <1>6, <1>7

PartsAre(x, bs, d, g, i, r, c, b) ==
    Total(x.items) = i /\ Total(d) = r /\ g.n = c /\ BufferBytes(bs) = b

LEMMA StoredSum ==
    ASSUME NEW x, NEW bs, NEW d, NEW g, NEW i, NEW r, NEW c, NEW b,
           PartsAre(x, bs, d, g, i, r, c, b)
    PROVE  Stored(x, bs, d, g) = i + r + c + b
  BY DEF Stored, PartsAre

\* The producer p enters the queue of s: with a chunk that it holds already, or with one
\* that leaves a buffer.
LEMMA EnterKeeps ==
    ASSUME QueueInv, NEW s \in Streams, NEW p \in Producers, p.n \in Sizes,
           NEW bs \in [Buffers -> Seq(Sizes)], EnterQueue(s, p), buf' = [buf EXCEPT ![s] = bs],
           UNCHANGED <<budget, drop>>,
           BufferBytes(bs) + p.n = BufferBytes(buf[s]) + Put(put[s], Reserving),
           Put(put[s], Holding) = Put(put[s], Reserving)
    PROVE  QueueInv'
  <1> DEFINE held == Put(put[s], Reserving)
  <1>1. /\ q[s] \in Contents /\ drop[s] \in Seq(Sizes) /\ get[s] \in Consumers
        /\ q[s].items \in Seq(Sizes) /\ q[s].items \in Seq(Nat)
        /\ q[s].bytes \in Nat /\ q[s].out \in 0..1 /\ q[s].outBytes \in Nat
        /\ Len(q[s].items) \in Nat /\ Total(q[s].items) \in Nat /\ Total(drop[s]) \in Nat
        /\ BufferBytes(buf[s]) \in Nat /\ get[s].n \in Nat /\ put[s].n \in Nat
        /\ Carried(q[s], get[s]) /\ Bounded(q[s]) /\ WaitsWell(q[s], put[s], get[s])
    BY StreamParts, StreamFacts
  <1>2. p.n \in Nat /\ BufferBytes(bs) \in Nat /\ held \in Nat
    <2>1. held \in Nat
      BY <1>1, PutCounts
    <2> QED
      BY <2>1, ChunkSizes, BufferBytesIsNat
  <1>3. /\ BufferBytes(bs) + p.n = BufferBytes(buf[s]) + held
        /\ Put(put[s], Holding) = held /\ Put(put[s], Reserving) = held
    OBVIOUS
  <1> HIDE DEF held
  <1>4. /\ drop' = [drop EXCEPT ![s] = drop[s]]
        /\ get = [get EXCEPT ![s] = get[s]] /\ q = [q EXCEPT ![s] = q[s]]
    BY StreamStays DEF QueueInv
  <1> DEFINE i == Total(q[s].items)
             r == Total(drop[s])
             c == get[s].n
             b == BufferBytes(buf[s])
             new == BufferBytes(bs)
             n == p.n
  <1>10. i \in Nat /\ r \in Nat /\ c \in Nat /\ b \in Nat /\ n \in Nat /\ new \in Nat /\ held \in Nat
    BY <1>1, <1>2
  <1>11. new + n = b + held
    BY <1>3
  <1>12. /\ Total(q[s].items) = i /\ Total(drop[s]) = r /\ get[s].n = c /\ BufferBytes(buf[s]) = b
         /\ BufferBytes(bs) = new /\ p.n = n
    OBVIOUS
  <1> HIDE DEF i, r, c, b, new, n
  <1>13. Stored(q[s], buf[s], drop[s], get[s]) = i + r + c + b
    <2>1. PartsAre(q[s], buf[s], drop[s], get[s], i, r, c, b)
      BY ONLY <1>10, <1>12 DEF PartsAre
    <2> QED
      BY ONLY <2>1, StoredSum
  <1>5. budget' = budget /\ buf' = [buf EXCEPT ![s] = bs]
    OBVIOUS
  \* A producer that keeps its chunk.
  <1>6. ASSUME NEW o \in Producers, o.n = p.n, o.ph \in {"failing", "queue asleep"},
               o.ph = "queue asleep" => ~q[s].closed /\ ~RoomFor(q[s], o.n),
               put' = [put EXCEPT ![s] = o], q' = q, get' = get
        PROVE  QueueInv'
    <2>1. StreamFine(q[s], bs, drop[s], o, get[s])
      BY <1>1, <1>6 DEF StreamFine, StreamTyped, WaitsWell
    <2>2. StreamBecomes(s, q[s], bs, drop[s], o, get[s])
      BY <1>4, <1>5, <1>6, <2>1 DEF StreamBecomes
    <2>3. Put(o, Reserving) = p.n /\ Put(o, Holding) = p.n
      BY <1>2, <1>6, PutCounts
    <2>4. /\ Stored(q[s], bs, drop[s], get[s]) + Put(o, Reserving)
                 = Stored(q[s], buf[s], drop[s], get[s]) + Put(put[s], Reserving)
          /\ Stored(q[s], bs, drop[s], get[s]) + Put(o, Holding)
                 = Stored(q[s], buf[s], drop[s], get[s]) + Put(put[s], Holding)
      <3>1. Stored(q[s], bs, drop[s], get[s]) = i + r + c + new
        <4>1. PartsAre(q[s], bs, drop[s], get[s], i, r, c, new)
          BY ONLY <1>10, <1>12 DEF PartsAre
        <4> QED
          BY ONLY <4>1, StoredSum
      <3>2. i + r + c + new + n = i + r + c + b + held
        BY ONLY <1>10, <1>11
      <3> QED
        BY ONLY <1>3, <1>12, <1>13, <2>3, <3>1, <3>2
    <2>5. OwesMore(s, q[s], bs, drop[s], o, get[s], 0, 0)
      BY <2>4, SameSum
    <2>6. o.ph # "budget asleep"
      BY <1>6
    <2> QED
      BY <1>5, <1>6, <2>2, <2>5, <2>6, QuietMoves
  <1>7. CASE q[s].closed
    <2> DEFINE o == [p EXCEPT !.ph = "failing", !.why = "closed"]
    <2>1. put' = [put EXCEPT ![s] = o] /\ q' = q /\ get' = get
      BY <1>7 DEF EnterQueue
    <2>2. o \in Producers /\ o.n = p.n /\ o.ph = "failing"
      BY DEF Producers
    <2> HIDE DEF o
    <2> QED
      BY <1>6, <2>1, <2>2
  <1>8. CASE ~q[s].closed /\ ~CanPut(s, p.n)
    <2> DEFINE o == [p EXCEPT !.ph = "queue asleep"]
    <2>1. put' = [put EXCEPT ![s] = o] /\ q' = q /\ get' = get
      BY <1>8 DEF EnterQueue
    <2>2. o \in Producers /\ o.n = p.n /\ o.ph = "queue asleep"
      BY DEF Producers, Waiting
    <2>3. ~RoomFor(q[s], o.n)
      BY <1>8, <2>2 DEF CanPut, RoomFor
    <2> HIDE DEF o
    <2> QED
      BY <1>6, <1>8, <2>1, <2>2, <2>3
  <1>9. CASE ~q[s].closed /\ CanPut(s, p.n)
    <2> DEFINE x == [q[s] EXCEPT !.items = Append(q[s].items, p.n), !.bytes = q[s].bytes + p.n]
               g == GetWoken(get[s])
    <2>1. /\ q' = [q EXCEPT ![s].items = Append(@, p.n), ![s].bytes = @ + p.n]
          /\ put' = [put EXCEPT ![s] = Idle] /\ get' = [get EXCEPT ![s] = g]
      BY <1>9, Told DEF EnterQueue
    <2>2. q' = [q EXCEPT ![s] = x]
      <3>1. q \in [Streams -> Contents]
        BY DEF QueueInv, StreamsFine
      <3> QED
        BY ONLY <2>1, <3>1, s \in Streams DEF Contents
    <2>3. /\ Append(q[s].items, p.n) \in Seq(Sizes)
          /\ Len(Append(q[s].items, p.n)) = Len(q[s].items) + 1
          /\ Total(Append(q[s].items, p.n)) = Total(q[s].items) + p.n
      <3>1. q[s].items \in Seq(Sizes) /\ q[s].items \in Seq(Nat) /\ p.n \in Sizes /\ p.n \in Nat
        BY <1>1, <1>2
      <3>2. /\ Append(q[s].items, p.n) \in Seq(Sizes)
            /\ Len(Append(q[s].items, p.n)) = Len(q[s].items) + 1
        BY ONLY <3>1
      <3>3. Total(Append(q[s].items, p.n)) = Total(q[s].items) + p.n
        BY ONLY <3>1, TotalAppended
      <3> QED
        BY <3>2, <3>3
    <2>4. /\ x \in Contents /\ x.items = Append(q[s].items, p.n) /\ x.bytes = q[s].bytes + p.n
          /\ x.out = q[s].out /\ x.outBytes = q[s].outBytes
      <3>1. q[s] \in Contents /\ q[s].bytes + p.n \in Nat
        <4>1. q[s] \in Contents /\ q[s].bytes \in Nat /\ p.n \in Nat
          BY ONLY <1>1, <1>2
        <4>2. \A j, k \in Nat : j + k \in Nat
          OBVIOUS
        <4> QED
          BY ONLY <4>1, <4>2
      <3> QED
        BY ONLY <2>3, <3>1 DEF Contents
    <2>5. /\ g \in Consumers /\ g.n = get[s].n /\ g.ph # "asleep"
          /\ \A ph \in {"holding", "settling"} : g.ph = ph <=> get[s].ph = ph
      BY <1>1, ConsumerWoken
    <2> HIDE DEF x, g
    <2>6. Carried(x, g)
      BY ONLY <1>1, <2>4, <2>5 DEF Carried
    <2>7. Bounded(x)
      <3>1. Len(q[s].items) + q[s].out < MaxItems /\ q[s].bytes + p.n <= MaxBytes
        BY <1>9 DEF CanPut
      <3>2. q[s].bytes = Total(q[s].items) + q[s].outBytes
        BY <1>1 DEF Bounded
      <3>3. MaxItems \in Nat
        BY ChunkSizes
      <3>4. Len(x.items) + x.out <= MaxItems
        <4> DEFINE many == Len(q[s].items)
                   out == q[s].out
        <4>1. many \in Nat /\ out \in Int /\ MaxItems \in Nat /\ many + out < MaxItems
          BY <1>1, <3>1, <3>3
        <4>2. Len(x.items) = many + 1 /\ x.out = out
          BY <2>3, <2>4
        <4> HIDE DEF many, out
        <4>3. many + 1 + out <= MaxItems
          BY ONLY <4>1
        <4> QED
          BY ONLY <4>2, <4>3
      <3>5. x.bytes <= MaxBytes
        BY ONLY <2>4, <3>1
      <3>6. x.bytes = Total(x.items) + x.outBytes
        BY ONLY <1>1, <1>2, <2>3, <2>4, <3>2
      <3> QED
        BY <3>4, <3>5, <3>6 DEF Bounded
    <2>8. Idle \in Producers /\ Idle.ph = "idle" /\ Idle.n = 0
      BY DEF Idle, Producers
    <2>9. StreamFine(x, bs, drop[s], Idle, g)
      BY <1>1, <2>4, <2>5, <2>6, <2>7, <2>8 DEF StreamFine, StreamTyped, WaitsWell
    <2>10. StreamBecomes(s, x, bs, drop[s], Idle, g)
      BY <1>4, <1>5, <2>1, <2>2, <2>9 DEF StreamBecomes
    <2>11. Put(Idle, Reserving) = 0 /\ Put(Idle, Holding) = 0
      BY <2>8, ZeroIsNat, PutCounts
    <2>12. /\ Stored(x, bs, drop[s], g) + Put(Idle, Reserving)
                  = Stored(q[s], buf[s], drop[s], get[s]) + Put(put[s], Reserving)
           /\ Stored(x, bs, drop[s], g) + Put(Idle, Holding)
                  = Stored(q[s], buf[s], drop[s], get[s]) + Put(put[s], Holding)
      <3>1. Total(x.items) = i + n /\ g.n = c
        BY <1>12, <2>3, <2>4, <2>5
      <3>2. i + n \in Nat
        BY ONLY <1>10
      <3>3. Stored(x, bs, drop[s], g) = i + n + r + c + new
        <4>1. PartsAre(x, bs, drop[s], g, i + n, r, c, new)
          BY ONLY <1>10, <1>12, <3>1, <3>2 DEF PartsAre
        <4> QED
          BY ONLY <4>1, StoredSum
      <3>4. i + n + r + c + new + 0 = i + r + c + b + held
        BY ONLY <1>10, <1>11
      <3> QED
        BY ONLY <1>3, <1>13, <2>11, <3>3, <3>4
    <2>13. OwesMore(s, x, bs, drop[s], Idle, g, 0, 0)
      BY <2>12, SameSum
    <2>14. Idle.ph # "budget asleep"
      BY ONLY <2>8
    <2> QED
      BY <1>5, <2>1, <2>10, <2>13, <2>14, QuietMoves
  <1> QED
    BY <1>7, <1>8, <1>9

LEMMA QueueRetryKeeps ==
    ASSUME QueueInv, NEW s \in Streams, QueueRetry(s)
    PROVE  QueueInv'
  <1>1. put[s] \in Producers /\ put[s].n \in Nat
    BY StreamFacts
  <1>2. put[s].ph = "queue awake" /\ EnterQueue(s, put[s]) /\ UNCHANGED <<budget, buf, drop>>
    BY DEF QueueRetry
  <1>3. put[s].n \in Sizes
    BY <1>1, <1>2 DEF Producers
  <1>4. Put(put[s], Reserving) = put[s].n /\ Put(put[s], Holding) = put[s].n
    BY <1>1, <1>2, PutCounts
  <1>5. /\ buf[s] \in [Buffers -> Seq(Sizes)] /\ buf' = [buf EXCEPT ![s] = buf[s]]
        /\ UNCHANGED <<budget, drop>>
    BY <1>2, StreamParts, StreamStays DEF QueueInv
  <1>6. BufferBytes(buf[s]) + put[s].n = BufferBytes(buf[s]) + Put(put[s], Reserving)
    BY <1>4
  <1>7. Put(put[s], Holding) = Put(put[s], Reserving)
    BY <1>4
  <1> QED
    BY <1>1, <1>2, <1>3, <1>5, <1>6, <1>7, EnterKeeps

LEMMA LeaseTakenKeeps ==
    ASSUME QueueInv, NEW s \in Streams, LeaseTaken(s)
    PROVE  QueueInv'
  <1>1. put[s] \in Producers /\ put[s].n \in Nat /\ put[s].ph = "parent held"
    BY StreamFacts DEF LeaseTaken
  <1>2. put[s].n \in Sizes
    BY <1>1 DEF Producers
  <1>3. Put(put[s], Reserving) = put[s].n /\ Put(put[s], Holding) = put[s].n
    BY <1>1, PutCounts
  <1>4. CASE /\ EnterQueue(s, put[s]) /\ UNCHANGED <<budget, buf, drop>>
    <2>1. /\ buf[s] \in [Buffers -> Seq(Sizes)] /\ buf' = [buf EXCEPT ![s] = buf[s]]
          /\ UNCHANGED <<budget, drop>>
      BY <1>4, StreamParts, StreamStays DEF QueueInv
    <2>2. BufferBytes(buf[s]) + put[s].n = BufferBytes(buf[s]) + Put(put[s], Reserving)
      BY <1>3
    <2>3. Put(put[s], Holding) = Put(put[s], Reserving)
      BY <1>3
    <2> QED
      BY <1>1, <1>2, <1>4, <2>1, <2>2, <2>3, EnterKeeps
  <1>5. CASE /\ put[s].to # "queue"
             /\ buf' = [buf EXCEPT ![s][put[s].to] = Append(@, put[s].n)]
             /\ put' = [put EXCEPT ![s] = Idle] /\ UNCHANGED <<budget, q, drop, get>>
    <2> DEFINE to == put[s].to
               chunks == Append(buf[s][to], put[s].n)
               bs == [buf[s] EXCEPT ![to] = chunks]
    <2>1. to \in Buffers
      BY <1>1, <1>5 DEF Producers
    <2>2. /\ buf \in [Streams -> [Buffers -> Seq(Sizes)]]
          /\ buf[s] \in [Buffers -> Seq(Sizes)] /\ buf[s][to] \in Seq(Sizes)
      BY <2>1 DEF QueueInv, StreamsFine
    <2>3. chunks \in Seq(Sizes) /\ Total(chunks) = Total(buf[s][to]) + put[s].n
      <3>1. buf[s][to] \in Seq(Nat)
        BY <2>2, ChunkSizes
      <3>2. chunks \in Seq(Sizes)
        BY ONLY <1>2, <2>2
      <3>3. Total(chunks) = Total(buf[s][to]) + put[s].n
        BY ONLY <1>1, <3>1, TotalAppended
      <3> QED
        BY <3>2, <3>3
    <2>4. buf' = [buf EXCEPT ![s] = bs]
      BY <1>5, <2>1, <2>2
    <2> HIDE DEF chunks
    <2>5. /\ bs \in [Buffers -> Seq(Sizes)]
          /\ BufferBytes(bs) = BufferBytes(buf[s]) - Total(buf[s][to]) + Total(chunks)
      BY <2>1, <2>2, <2>3, BufferMoves
    <2>6. BufferBytes(buf[s]) \in Nat /\ Total(buf[s][to]) \in Nat
      BY <2>1, <2>2, BufferBytesIsNat
    <2> HIDE DEF bs, to
    <2> DEFINE i == Total(q[s].items)
               r == Total(drop[s])
               c == get[s].n
               b == BufferBytes(buf[s])
               n == put[s].n
               new == BufferBytes(bs)
               old == Total(buf[s][to])
               joined == Total(chunks)
    <2>7. /\ i \in Nat /\ r \in Nat /\ c \in Nat /\ b \in Nat /\ n \in Nat /\ old \in Nat
          /\ joined = old + n /\ new = b - old + joined
      BY <1>1, <2>3, <2>5, <2>6, StreamParts, StreamFacts
    <2>8. /\ Total(q[s].items) = i /\ Total(drop[s]) = r /\ get[s].n = c /\ BufferBytes(buf[s]) = b
          /\ BufferBytes(bs) = new /\ put[s].n = n
      OBVIOUS
    <2> HIDE DEF i, r, c, b, n, new, old, joined
    <2>9. new = b + n /\ new \in Nat
      BY ONLY <2>7
    <2>10. Stored(q[s], buf[s], drop[s], get[s]) = i + r + c + b
      <3>1. PartsAre(q[s], buf[s], drop[s], get[s], i, r, c, b)
        BY ONLY <2>7, <2>8 DEF PartsAre
      <3> QED
        BY ONLY <3>1, StoredSum
    <2>11. Stored(q[s], bs, drop[s], get[s]) = i + r + c + new
      <3>1. PartsAre(q[s], bs, drop[s], get[s], i, r, c, new)
        BY ONLY <2>7, <2>8, <2>9 DEF PartsAre
      <3> QED
        BY ONLY <3>1, StoredSum
    <2>12. Idle \in Producers /\ Idle.ph = "idle" /\ Idle.n = 0
      BY DEF Idle, Producers
    <2>13. Put(Idle, Reserving) = 0 /\ Put(Idle, Holding) = 0
      BY <2>12, ZeroIsNat, PutCounts
    <2>14. i + r + c + new + 0 = i + r + c + b + n
      BY ONLY <2>7, <2>9
    <2>15. OwesMore(s, q[s], bs, drop[s], Idle, get[s], 0, 0)
      <3>1. /\ Stored(q[s], bs, drop[s], get[s]) + Put(Idle, Reserving)
                   = Stored(q[s], buf[s], drop[s], get[s]) + Put(put[s], Reserving)
            /\ Stored(q[s], bs, drop[s], get[s]) + Put(Idle, Holding)
                   = Stored(q[s], buf[s], drop[s], get[s]) + Put(put[s], Holding)
        BY ONLY <1>3, <2>8, <2>10, <2>11, <2>13, <2>14
      <3> QED
        BY <3>1, SameSum
    <2>16. StreamFine(q[s], bs, drop[s], Idle, get[s])
      BY <2>5, <2>12, StreamFacts DEF StreamFine, StreamTyped, WaitsWell
    <2>17. StreamBecomes(s, q[s], bs, drop[s], Idle, get[s])
      <3>1. /\ q' = [q EXCEPT ![s] = q[s]] /\ drop' = [drop EXCEPT ![s] = drop[s]]
            /\ get' = [get EXCEPT ![s] = get[s]]
        BY <1>5, StreamStays DEF QueueInv
      <3> QED
        BY <2>4, <2>16, <3>1 DEF StreamBecomes
    <2>18. Idle.ph # "budget asleep"
      BY ONLY <2>12
    <2>19. budget' = budget /\ put' = [put EXCEPT ![s] = Idle]
      BY <1>5
    <2> QED
      BY <2>15, <2>17, <2>18, <2>19, QuietMoves
  <1> QED
    BY <1>4, <1>5 DEF LeaseTaken

LEMMA PutBufferedKeeps ==
    ASSUME QueueInv, NEW s \in Streams, NEW b \in Buffers, PutBuffered(s, b)
    PROVE  QueueInv'
  <1> DEFINE rest == Tail(buf[s][b])
             bs == [buf[s] EXCEPT ![b] = rest]
             p == [Idle EXCEPT !.n = Head(buf[s][b])]
  <1>1. /\ put[s].ph = "idle" /\ buf[s][b] # <<>> /\ buf' = [buf EXCEPT ![s][b] = rest]
        /\ EnterQueue(s, p) /\ UNCHANGED <<budget, drop>>
    <2>1. buf \in [Streams -> [Buffers -> Seq(Sizes)]]
      BY DEF QueueInv, StreamsFine
    <2> QED
      BY <2>1 DEF PutBuffered
  <1>2. /\ buf \in [Streams -> [Buffers -> Seq(Sizes)]]
        /\ buf[s] \in [Buffers -> Seq(Sizes)] /\ buf[s][b] \in Seq(Sizes)
    BY DEF QueueInv, StreamsFine
  <1>3. Head(buf[s][b]) \in Sizes /\ rest \in Seq(Sizes)
    BY <1>1, <1>2, HeadTailProperties
  <1>4. Total(buf[s][b]) = Head(buf[s][b]) + Total(rest)
    <2>1. buf[s][b] \in Seq(Nat)
      BY <1>2, ChunkSizes
    <2> QED
      BY <1>1, <2>1, TotalOfTail
  <1>5. buf' = [buf EXCEPT ![s] = bs]
    BY <1>1, <1>2
  <1>6. p \in Producers /\ p.n = Head(buf[s][b]) /\ p.n \in Sizes
    <2>1. Idle \in Producers /\ Idle.ph = "idle"
      BY DEF Idle, Producers
    <2>2. p.n = Head(buf[s][b])
      BY DEF Idle
    <2>3. p \in Producers
      BY ONLY <1>3, <2>1 DEF Producers
    <2> QED
      BY <1>3, <2>2, <2>3
  <1> HIDE DEF rest, p
  <1>7. /\ bs \in [Buffers -> Seq(Sizes)]
        /\ BufferBytes(bs) = BufferBytes(buf[s]) - Total(buf[s][b]) + Total(rest)
    BY <1>2, <1>3, BufferMoves
  <1>8. BufferBytes(buf[s]) \in Nat /\ Total(buf[s][b]) \in Nat
    BY <1>2, BufferBytesIsNat
  <1>9. Put(put[s], Reserving) = 0 /\ Put(put[s], Holding) = 0
    BY <1>1, StreamFacts, PutCounts
  <1>10. BufferBytes(bs) + p.n = BufferBytes(buf[s]) + Put(put[s], Reserving)
    <2> DEFINE old == BufferBytes(buf[s])
               all == Total(buf[s][b])
               left == Total(rest)
               new == BufferBytes(bs)
               n == p.n
    <2>1. old \in Nat /\ all \in Nat /\ n \in Nat /\ left \in Nat
      <3>1. n \in Nat
        BY <1>6, ChunkSizes
      <3>2. rest \in Seq(Nat)
        BY <1>3, ChunkSizes
      <3> QED
        BY <1>8, <3>1, <3>2, TotalIsNat
    <2>2. new = old - all + left /\ all = n + left
      BY <1>4, <1>6, <1>7
    <2> HIDE DEF old, all, left, new, n
    <2>3. new + n = old + 0
      BY ONLY <2>1, <2>2
    <2> QED
      BY <1>9, <2>3 DEF old, new, n
  <1> HIDE DEF bs
  <1>11. Put(put[s], Holding) = Put(put[s], Reserving)
    BY <1>9
  <1> QED
    BY <1>1, <1>5, <1>6, <1>7, <1>10, <1>11, EnterKeeps

LEMMA TakeKeeps ==
    ASSUME QueueInv, NEW s \in Streams, get[s].ph \in {"idle", "awake"}, Take(s),
           UNCHANGED <<budget, buf, drop, put>>
    PROVE  QueueInv'
  <1>1. /\ q[s] \in Contents /\ buf[s] \in [Buffers -> Seq(Sizes)] /\ drop[s] \in Seq(Sizes)
        /\ q[s].items \in Seq(Sizes) /\ q[s].items \in Seq(Nat) /\ Len(q[s].items) \in Nat
        /\ q[s].bytes \in Nat /\ q[s].out \in 0..1 /\ q[s].outBytes \in Nat
        /\ Total(q[s].items) \in Nat /\ Total(drop[s]) \in Nat /\ BufferBytes(buf[s]) \in Nat
        /\ Bounded(q[s]) /\ WaitsWell(q[s], put[s], get[s])
    BY StreamParts
  <1>2. put[s] \in Producers /\ get[s] \in Consumers /\ get[s].n \in Nat
    BY StreamFacts
  <1>3. q[s].out = 0 /\ q[s].outBytes = 0 /\ get[s].n = 0
    BY StreamParts DEF Carried
  <1>4. /\ q \in [Streams -> Contents] /\ get \in [Streams -> Consumers]
    BY DEF QueueInv, StreamsFine
  <1>5. /\ buf' = [buf EXCEPT ![s] = buf[s]] /\ drop' = [drop EXCEPT ![s] = drop[s]]
        /\ put' = [put EXCEPT ![s] = put[s]] /\ q = [q EXCEPT ![s] = q[s]] /\ budget' = budget
    BY StreamStays DEF QueueInv
  \* A consumer that takes nothing.
  <1>6. ASSUME NEW g \in Consumers, g.n = 0, g.ph \in {"ended", "asleep"},
               g.ph = "asleep" => q[s].items = <<>> /\ ~q[s].closed,
               get' = [get EXCEPT ![s] = g], q' = q
        PROVE  QueueInv'
    <2>1. Carried(q[s], g)
      BY ONLY <1>3, <1>6 DEF Carried
    <2>2. StreamFine(q[s], buf[s], drop[s], put[s], g)
      BY <1>1, <1>2, <1>6, <2>1 DEF StreamFine, StreamTyped, WaitsWell
    <2>3. StreamBecomes(s, q[s], buf[s], drop[s], put[s], g)
      BY <1>5, <1>6, <2>2 DEF StreamBecomes
    <2>4. Stored(q[s], buf[s], drop[s], g) = Stored(q[s], buf[s], drop[s], get[s])
      BY <1>3, <1>6 DEF Stored
    <2>5. OwesMore(s, q[s], buf[s], drop[s], put[s], g, 0, 0)
      BY <2>4, SameSum
    <2> QED
      BY <1>5, <2>3, <2>5, QuietMoves
  <1>7. CASE q[s].items = <<>>
    <2> DEFINE g(ph) == [get[s] EXCEPT !.ph = ph]
    <2>1. PICK ph \in {"ended", "asleep"} : /\ get' = [get EXCEPT ![s].ph = ph] /\ q' = q
                                            /\ ph = "asleep" => ~q[s].closed
      BY <1>7 DEF Take
    <2>2. get' = [get EXCEPT ![s] = g(ph)]
      BY ONLY <1>4, <2>1, s \in Streams
    <2>3. g(ph) \in Consumers /\ g(ph).n = 0 /\ g(ph).ph = ph
      BY ONLY <1>2, <1>3, ph \in {"ended", "asleep"} DEF Consumers
    <2> HIDE DEF g
    <2> QED
      BY <1>6, <1>7, <2>1, <2>2, <2>3
  <1>8. CASE q[s].items # <<>>
    <2> DEFINE head == Head(q[s].items)
               rest == Tail(q[s].items)
               x == [q[s] EXCEPT !.items = rest, !.out = q[s].out + 1,
                                 !.outBytes = q[s].outBytes + head]
               g == [ph |-> "holding", n |-> head]
    <2>1. /\ q' = [q EXCEPT ![s].items = Tail(@), ![s].out = @ + 1,
                            ![s].outBytes = @ + Head(q[s].items)]
          /\ get' = [get EXCEPT ![s] = g]
      BY <1>8 DEF Take
    <2>2. q' = [q EXCEPT ![s] = x]
      BY ONLY <1>4, <2>1, s \in Streams DEF Contents
    <2>3. head \in Sizes /\ rest \in Seq(Sizes) /\ Len(rest) = Len(q[s].items) - 1
      BY <1>1, <1>8, HeadTailProperties
    <2>4. Total(q[s].items) = head + Total(rest) /\ head \in Nat /\ Total(rest) \in Nat
      <3>1. Total(q[s].items) = head + Total(rest) /\ head \in Nat /\ rest \in Seq(Nat)
        BY <1>1, <1>8, TotalOfTail
      <3> QED
        BY <3>1, TotalIsNat
    <2> HIDE DEF head, rest
    <2>5. /\ x \in Contents /\ x.items = rest /\ x.bytes = q[s].bytes /\ x.out = 1
          /\ x.outBytes = head /\ x.closed = q[s].closed
      <3>1. q[s].out + 1 = 1 /\ q[s].outBytes + head = head
        BY ONLY <1>3, <2>4
      <3>2. x = [q[s] EXCEPT !.items = rest, !.out = 1, !.outBytes = head]
        BY <3>1
      <3> HIDE DEF x
      <3>3. q[s] \in Contents /\ head \in Nat /\ rest \in Seq(Sizes) /\ 1 \in 0..1
        BY <1>1, <2>3, <2>4
      <3> QED
        BY ONLY <3>2, <3>3 DEF Contents
    <2>6. g \in Consumers /\ g.ph = "holding" /\ g.n = head
      BY <2>3 DEF Consumers
    <2> HIDE DEF x, g
    <2>7. Carried(x, g)
      BY ONLY <2>5, <2>6 DEF Carried
    <2>8. Bounded(x)
      <3>1. /\ Len(q[s].items) + q[s].out <= MaxItems /\ q[s].bytes <= MaxBytes
            /\ q[s].bytes = Total(q[s].items) + q[s].outBytes
        BY <1>1 DEF Bounded
      <3>2. MaxItems \in Nat /\ Len(q[s].items) \in Nat
        BY <1>1, ChunkSizes
      <3>3. Len(x.items) + x.out <= MaxItems
        BY ONLY <1>3, <2>3, <2>5, <3>1, <3>2
      <3>4. Total(q[s].items) + 0 = Total(rest) + head
        BY ONLY <2>4
      <3>5. x.bytes = Total(x.items) + x.outBytes
        BY ONLY <1>3, <2>5, <3>1, <3>4
      <3> QED
        BY <2>5, <3>1, <3>3, <3>5 DEF Bounded
    <2>9. WaitsWell(x, put[s], g)
      <3>1. Len(x.items) + x.out = Len(q[s].items) + q[s].out
        BY ONLY <1>1, <1>3, <2>3, <2>5
      <3>2. g.ph # "asleep"
        BY ONLY <2>6
      <3> QED
        BY ONLY <1>1, <2>5, <3>1, <3>2 DEF WaitsWell, RoomFor
    <2>10. StreamFine(x, buf[s], drop[s], put[s], g)
      BY <1>1, <1>2, <2>5, <2>6, <2>7, <2>8, <2>9 DEF StreamFine, StreamTyped
    <2>11. StreamBecomes(s, x, buf[s], drop[s], put[s], g)
      BY <1>5, <2>1, <2>2, <2>10 DEF StreamBecomes
    <2>12. Stored(x, buf[s], drop[s], g) = Stored(q[s], buf[s], drop[s], get[s])
      <3> DEFINE i == Total(q[s].items)
                 k == Total(rest)
                 r == Total(drop[s])
                 b == BufferBytes(buf[s])
      <3>1. i \in Nat /\ k \in Nat /\ r \in Nat /\ b \in Nat /\ head \in Nat /\ i = head + k
        BY <1>1, <2>4
      <3>2. /\ Total(q[s].items) = i /\ Total(x.items) = k /\ Total(drop[s]) = r
            /\ BufferBytes(buf[s]) = b
        BY <2>5
      <3> HIDE DEF i, k, r, b
      <3>3. Stored(q[s], buf[s], drop[s], get[s]) = i + r + 0 + b
        <4>1. PartsAre(q[s], buf[s], drop[s], get[s], i, r, 0, b)
          BY ONLY <1>3, <3>1, <3>2 DEF PartsAre
        <4> QED
          BY ONLY <4>1, StoredSum
      <3>4. Stored(x, buf[s], drop[s], g) = k + r + head + b
        <4>1. PartsAre(x, buf[s], drop[s], g, k, r, head, b)
          BY ONLY <2>6, <3>1, <3>2 DEF PartsAre
        <4> QED
          BY ONLY <4>1, StoredSum
      <3>5. i + r + 0 + b = k + r + head + b
        BY ONLY <3>1
      <3> QED
        BY ONLY <3>3, <3>4, <3>5
    <2>13. OwesMore(s, x, buf[s], drop[s], put[s], g, 0, 0)
      BY <2>12, SameSum
    <2> QED
      BY <1>5, <2>11, <2>13, QuietMoves
  <1> QED
    BY <1>7, <1>8

LEMMA GetCancelledKeeps ==
    ASSUME QueueInv, NEW s \in Streams, GetCancelled(s)
    PROVE  QueueInv'
  <1> DEFINE g == [get[s] EXCEPT !.ph = "idle"]
  <1>1. /\ get[s].ph \in {"asleep", "awake"} /\ get' = [get EXCEPT ![s].ph = "idle"]
        /\ UNCHANGED <<budget, q, buf, drop, put>>
    BY DEF GetCancelled
  <1>2. get' = [get EXCEPT ![s] = g]
    <2>1. get \in [Streams -> Consumers]
      BY DEF QueueInv, StreamsFine
    <2> QED
      BY ONLY <1>1, <2>1, s \in Streams
  <1>3. get[s] \in Consumers /\ StreamFine(q[s], buf[s], drop[s], put[s], get[s])
    BY StreamFacts
  <1>4. g \in Consumers /\ g.ph = "idle" /\ g.n = get[s].n
    BY ONLY <1>3 DEF Consumers
  <1> HIDE DEF g
  <1>5. StreamFine(q[s], buf[s], drop[s], put[s], g)
    BY ONLY <1>1, <1>3, <1>4 DEF StreamFine, StreamTyped, Carried, WaitsWell
  <1>6. StreamBecomes(s, q[s], buf[s], drop[s], put[s], g)
    BY <1>1, <1>2, <1>5, StreamStays DEF StreamBecomes, QueueInv
  <1>7. Stored(q[s], buf[s], drop[s], g) = Stored(q[s], buf[s], drop[s], get[s])
    BY ONLY <1>4 DEF Stored
  <1>8. OwesMore(s, q[s], buf[s], drop[s], put[s], g, 0, 0)
    BY <1>7, SameSum
  <1>9. put' = [put EXCEPT ![s] = put[s]] /\ budget' = budget
    BY <1>1, StreamStays DEF QueueInv
  <1> QED
    BY <1>6, <1>8, <1>9, QuietMoves

LEMMA ReleaseInflightKeeps ==
    ASSUME QueueInv, NEW s \in Streams, ReleaseInflight(s)
    PROVE  QueueInv'
  <1> DEFINE n == get[s].n
             x == [q[s] EXCEPT !.out = q[s].out - 1, !.outBytes = q[s].outBytes - n,
                               !.bytes = q[s].bytes - n]
             g == [get[s] EXCEPT !.ph = "settling"]
             p == PutWoken(put[s])
  <1>1. /\ get[s].ph = "holding" /\ put' = PutNotified(s, put)
        /\ get' = [get EXCEPT ![s].ph = "settling"]
        /\ q' = [q EXCEPT ![s].out = @ - 1, ![s].outBytes = @ - get[s].n, ![s].bytes = @ - get[s].n]
        /\ UNCHANGED <<budget, buf, drop>>
    BY DEF ReleaseInflight
  <1>2. q \in [Streams -> Contents] /\ get \in [Streams -> Consumers]
    BY DEF QueueInv, StreamsFine
  <1>3. q' = [q EXCEPT ![s] = x]
    BY ONLY <1>1, <1>2, s \in Streams DEF Contents
  <1>4. get' = [get EXCEPT ![s] = g]
    BY ONLY <1>1, <1>2, s \in Streams
  <1>5. put' = [put EXCEPT ![s] = p]
    BY <1>1, Told
  <1>6. /\ q[s] \in Contents /\ buf[s] \in [Buffers -> Seq(Sizes)] /\ drop[s] \in Seq(Sizes)
        /\ q[s].bytes \in Nat /\ Len(q[s].items) \in Nat /\ Total(q[s].items) \in Nat
        /\ Bounded(q[s])
    BY StreamParts
  <1>7. q[s].out = 1 /\ q[s].outBytes = n
    BY <1>1, StreamParts DEF Carried
  <1>8. put[s] \in Producers /\ get[s] \in Consumers /\ n \in Nat
    BY StreamFacts
  <1>9. g \in Consumers /\ g.ph = "settling" /\ g.n = n
    BY ONLY <1>8 DEF Consumers
  <1>10. /\ p \in Producers /\ p.ph # "queue asleep"
         /\ Put(p, Reserving) = Put(put[s], Reserving) /\ Put(p, Holding) = Put(put[s], Holding)
         /\ p.ph # "budget asleep" \/ p = put[s]
    BY <1>8, ProducerWoken
  <1>11. q[s].bytes - n = Total(q[s].items)
    <2> DEFINE i == Total(q[s].items)
    <2>1. q[s].bytes = i + n /\ i \in Nat
      BY <1>6, <1>7 DEF Bounded
    <2> HIDE DEF i, n
    <2>2. q[s].bytes - n = i
      BY ONLY <1>8, <2>1
    <2> QED
      BY <2>2 DEF i
  <1> HIDE DEF n, g, p
  <1>12. /\ x \in Contents /\ x.items = q[s].items /\ x.bytes = Total(q[s].items) /\ x.out = 0
         /\ x.outBytes = 0 /\ x.closed = q[s].closed
    <2>1. q[s].out - 1 = 0 /\ q[s].outBytes - n = 0
      BY ONLY <1>7, <1>8
    <2>2. x = [q[s] EXCEPT !.out = 0, !.outBytes = 0, !.bytes = Total(q[s].items)]
      BY <1>11, <2>1
    <2> HIDE DEF x
    <2>3. q[s] \in Contents /\ Total(q[s].items) \in Nat /\ 0 \in Nat /\ 0 \in 0..1
      BY <1>6
    <2> QED
      BY ONLY <2>2, <2>3 DEF Contents
  <1> HIDE DEF x
  <1>13. Carried(x, g)
    BY ONLY <1>9, <1>12 DEF Carried
  <1>14. Bounded(x)
    <2>1. /\ Len(q[s].items) + q[s].out <= MaxItems /\ q[s].bytes <= MaxBytes
      BY <1>6 DEF Bounded
    <2>2. MaxItems \in Nat /\ MaxBytes \in Nat
      BY ChunkSizes
    <2>3. Len(x.items) + x.out <= MaxItems
      BY ONLY <1>6, <1>7, <1>12, <2>1, <2>2
    <2>4. x.bytes <= MaxBytes
      <3>1. q[s].bytes - n <= MaxBytes
        BY ONLY <1>6, <1>8, <2>1, <2>2
      <3> QED
        BY ONLY <1>11, <1>12, <3>1
    <2>5. x.bytes = Total(x.items) + x.outBytes
      BY ONLY <1>6, <1>12
    <2> QED
      BY <2>3, <2>4, <2>5 DEF Bounded
  <1>15. StreamFine(x, buf[s], drop[s], p, g)
    BY <1>6, <1>9, <1>10, <1>12, <1>13, <1>14 DEF StreamFine, StreamTyped, WaitsWell
  <1>16. StreamBecomes(s, x, buf[s], drop[s], p, g)
    BY <1>1, <1>3, <1>4, <1>15, StreamStays DEF StreamBecomes, QueueInv
  <1>17. Stored(x, buf[s], drop[s], g) = Stored(q[s], buf[s], drop[s], get[s])
    BY <1>9, <1>12 DEF Stored, n
  <1>18. OwesMore(s, x, buf[s], drop[s], p, g, 0, 0)
    BY <1>10, <1>17, SameSum
  <1>19. budget' = budget
    BY <1>1
  <1> QED
    BY <1>5, <1>10, <1>16, <1>18, <1>19, QuietMoves

\* The lease n of an item or of a chunk goes back to the budget.
LEMMA LeaseGoes ==
    ASSUME QueueInv, NEW s \in Streams, NEW dd, NEW g, NEW n \in Nat,
           StreamBecomes(s, q[s], buf[s], dd, put[s], g),
           Stored(q[s], buf[s], dd, g) + n = Stored(q[s], buf[s], drop[s], get[s]),
           Stored(q[s], buf[s], dd, g) \in Nat,
           put' = BudgetNotified(put), budget' = Returned(n)
    PROVE  QueueInv'
  <1>1. put' = BudgetNotified([put EXCEPT ![s] = put[s]])
    BY StreamStays DEF QueueInv
  <1>2. budget' = [used |-> budget.used - n, parent |-> budget.parent - n]
    BY DEF Returned
  <1>3. OwesLess(s, q[s], buf[s], dd, put[s], g, n, n)
    <2> DEFINE new == Stored(q[s], buf[s], dd, g)
               old == Stored(q[s], buf[s], drop[s], get[s])
               a == Put(put[s], Reserving)
               c == Put(put[s], Holding)
    <2>1. new \in Nat /\ new + n = old /\ a \in Nat /\ c \in Nat
      BY StreamFacts, PutCounts
    <2>2. OwedBy(s, Reserving) = old + a /\ OwedBy(s, Holding) = old + c
      BY StreamFacts
    <2>3. /\ Owing(q[s], buf[s], dd, put[s], g, Reserving) = new + a
          /\ Owing(q[s], buf[s], dd, put[s], g, Holding) = new + c
      BY DEF Owing
    <2> HIDE DEF new, old, a, c
    <2>4. new + a = old + a - n /\ new + c = old + c - n
      BY ONLY <2>1, n \in Nat
    <2> DEFINE more == OwedBy(s, Reserving)
               less == OwedBy(s, Holding)
    <2>5. more = old + a /\ less = old + c
      BY <2>2
    <2> HIDE DEF more, less
    <2>6. more - n = old + a - n /\ less - n = old + c - n
      BY ONLY <2>1, <2>5, n \in Nat
    <2>7. /\ Owing(q[s], buf[s], dd, put[s], g, Reserving) = more - n
          /\ Owing(q[s], buf[s], dd, put[s], g, Holding) = less - n
      BY ONLY <2>3, <2>4, <2>6
    <2> QED
      BY <2>7 DEF OwesLess, more, less
  <1> QED
    BY <1>1, <1>2, <1>3, StreamReturns

LEMMA ItemSettledKeeps ==
    ASSUME QueueInv, NEW s \in Streams, ItemSettled(s)
    PROVE  QueueInv'
  <1> DEFINE g == [ph |-> "idle", n |-> 0]
             n == get[s].n
  <1>1. /\ get[s].ph = "settling" /\ get' = [get EXCEPT ![s] = g] /\ UNCHANGED <<q, buf, drop>>
        /\ budget' = Returned(n) /\ put' = BudgetNotified(put)
    BY DEF ItemSettled
  <1>2. StreamFine(q[s], buf[s], drop[s], put[s], get[s]) /\ n \in Nat
    BY StreamFacts
  <1>3. g \in Consumers /\ g.ph = "idle" /\ g.n = 0
    BY DEF Consumers
  <1> HIDE DEF g
  <1>4. StreamFine(q[s], buf[s], drop[s], put[s], g)
    BY ONLY <1>1, <1>2, <1>3 DEF StreamFine, StreamTyped, Carried, WaitsWell
  <1>5. StreamBecomes(s, q[s], buf[s], drop[s], put[s], g)
    BY <1>1, <1>4, StreamStays DEF StreamBecomes, QueueInv
  <1>6. /\ Stored(q[s], buf[s], drop[s], g) + n = Stored(q[s], buf[s], drop[s], get[s])
        /\ Stored(q[s], buf[s], drop[s], g) \in Nat
    <2> DEFINE i == Total(q[s].items)
               r == Total(drop[s])
               b == BufferBytes(buf[s])
    <2>1. i \in Nat /\ r \in Nat /\ b \in Nat
      BY StreamParts
    <2>2. Total(q[s].items) = i /\ Total(drop[s]) = r /\ BufferBytes(buf[s]) = b /\ get[s].n = n
      OBVIOUS
    <2> HIDE DEF i, r, b, n
    <2>3. Stored(q[s], buf[s], drop[s], get[s]) = i + r + n + b
      <3>1. PartsAre(q[s], buf[s], drop[s], get[s], i, r, n, b)
        BY ONLY <1>2, <2>1, <2>2 DEF PartsAre
      <3> QED
        BY ONLY <3>1, StoredSum
    <2>4. Stored(q[s], buf[s], drop[s], g) = i + r + 0 + b
      <3>1. PartsAre(q[s], buf[s], drop[s], g, i, r, 0, b)
        BY ONLY <1>3, <2>1, <2>2 DEF PartsAre
      <3> QED
        BY ONLY <3>1, StoredSum
    <2>5. i + r + 0 + b + n = i + r + n + b /\ i + r + 0 + b \in Nat
      BY ONLY <1>2, <2>1
    <2> QED
      BY ONLY <2>3, <2>4, <2>5
  <1> HIDE DEF n
  <1> QED
    BY <1>1, <1>2, <1>5, <1>6, LeaseGoes

LEMMA DropReturnedKeeps ==
    ASSUME QueueInv, NEW s \in Streams, DropReturned(s)
    PROVE  QueueInv'
  <1> DEFINE n == Head(drop[s])
             rest == Tail(drop[s])
  <1>1. /\ drop[s] # <<>> /\ UNCHANGED <<q, buf, get>> /\ drop' = [drop EXCEPT ![s] = Tail(@)]
        /\ budget' = Returned(n) /\ put' = BudgetNotified(put)
    BY DEF DropReturned
  <1>2. drop' = [drop EXCEPT ![s] = rest]
    <2>1. drop \in [Streams -> Seq(Sizes)]
      BY DEF QueueInv, StreamsFine
    <2> QED
      BY ONLY <1>1, <2>1, s \in Streams
  <1>3. StreamFine(q[s], buf[s], drop[s], put[s], get[s])
    BY StreamFacts
  <1>4. rest \in Seq(Sizes)
    BY <1>1, StreamParts, HeadTailProperties
  <1>5. n \in Nat /\ Total(drop[s]) = n + Total(rest) /\ Total(rest) \in Nat
    <2>1. drop[s] \in Seq(Nat) /\ drop[s] # <<>>
      BY <1>1, StreamParts
    <2>2. n \in Nat /\ rest \in Seq(Nat) /\ Total(drop[s]) = n + Total(rest)
      BY <2>1, TotalOfTail
    <2> QED
      BY <2>2, TotalIsNat
  <1> HIDE DEF n, rest
  <1>6. StreamFine(q[s], buf[s], rest, put[s], get[s])
    BY ONLY <1>3, <1>4 DEF StreamFine, StreamTyped
  <1>7. StreamBecomes(s, q[s], buf[s], rest, put[s], get[s])
    BY <1>1, <1>2, <1>6, StreamStays DEF StreamBecomes, QueueInv
  <1>8. /\ Stored(q[s], buf[s], rest, get[s]) + n = Stored(q[s], buf[s], drop[s], get[s])
        /\ Stored(q[s], buf[s], rest, get[s]) \in Nat
    <2> DEFINE i == Total(q[s].items)
               r == Total(drop[s])
               k == Total(rest)
               c == get[s].n
               b == BufferBytes(buf[s])
    <2>1. i \in Nat /\ r \in Nat /\ b \in Nat /\ c \in Nat /\ k \in Nat /\ n \in Nat /\ r = n + k
      BY <1>5, StreamParts, StreamFacts
    <2>2. /\ Total(q[s].items) = i /\ Total(drop[s]) = r /\ BufferBytes(buf[s]) = b
          /\ get[s].n = c /\ Total(rest) = k
      OBVIOUS
    <2> HIDE DEF i, r, k, c, b
    <2>3. Stored(q[s], buf[s], drop[s], get[s]) = i + r + c + b
      <3>1. PartsAre(q[s], buf[s], drop[s], get[s], i, r, c, b)
        BY ONLY <2>1, <2>2 DEF PartsAre
      <3> QED
        BY ONLY <3>1, StoredSum
    <2>4. Stored(q[s], buf[s], rest, get[s]) = i + k + c + b
      <3>1. PartsAre(q[s], buf[s], rest, get[s], i, k, c, b)
        BY ONLY <2>1, <2>2 DEF PartsAre
      <3> QED
        BY ONLY <3>1, StoredSum
    <2>5. i + k + c + b + n = i + r + c + b /\ i + k + c + b \in Nat
      BY ONLY <2>1
    <2> QED
      BY ONLY <2>3, <2>4, <2>5
  <1> QED
    BY <1>1, <1>5, <1>7, <1>8, LeaseGoes

\* close, with what it does to the producer and to the consumer; what is discarded is
\* charged until its release task has run.
LEMMA CloseKeeps ==
    ASSUME QueueInv, NEW s \in Streams, NEW discard \in BOOLEAN, Close(s, discard)
    PROVE  QueueInv'
  <1> DEFINE left == IF discard THEN <<>> ELSE q[s].items
             x == [q[s] EXCEPT !.closed = TRUE, !.items = left,
                               !.bytes = IF discard THEN q[s].outBytes ELSE q[s].bytes]
             dd == IF discard THEN drop[s] \o q[s].items ELSE drop[s]
             p == PutWoken(put[s])
             g == GetWoken(get[s])
  <1>1. /\ q' = [q EXCEPT ![s].closed = TRUE, ![s].items = IF discard THEN <<>> ELSE @,
                          ![s].bytes = IF discard THEN q[s].outBytes ELSE @]
        /\ drop' = [drop EXCEPT ![s] = IF discard THEN @ \o q[s].items ELSE @]
        /\ put' = PutNotified(s, put) /\ get' = GetNotified(s) /\ UNCHANGED <<budget, buf>>
    BY DEF Close
  <1>2. q \in [Streams -> Contents] /\ drop \in [Streams -> Seq(Sizes)]
    BY DEF QueueInv, StreamsFine
  <1>3. q' = [q EXCEPT ![s] = x]
    <2>1. CASE discard
      BY ONLY <1>1, <1>2, <2>1, s \in Streams DEF Contents
    <2>2. CASE ~discard
      BY ONLY <1>1, <1>2, <2>2, s \in Streams DEF Contents
    <2> QED
      BY <2>1, <2>2
  <1>4. drop' = [drop EXCEPT ![s] = dd]
    BY ONLY <1>1, <1>2, s \in Streams
  <1>5. put' = [put EXCEPT ![s] = p] /\ get' = [get EXCEPT ![s] = g]
    BY <1>1, Told
  <1>6. /\ q[s] \in Contents /\ buf[s] \in [Buffers -> Seq(Sizes)] /\ drop[s] \in Seq(Sizes)
        /\ q[s].items \in Seq(Sizes) /\ q[s].items \in Seq(Nat) /\ drop[s] \in Seq(Nat)
        /\ q[s].bytes \in Nat /\ q[s].out \in 0..1 /\ q[s].outBytes \in Nat
        /\ Len(q[s].items) \in Nat /\ Total(q[s].items) \in Nat /\ Total(drop[s]) \in Nat
        /\ BufferBytes(buf[s]) \in Nat
        /\ Carried(q[s], get[s]) /\ Bounded(q[s])
    BY StreamParts
  <1>7. put[s] \in Producers /\ get[s] \in Consumers /\ get[s].n \in Nat
    BY StreamFacts
  <1>8. /\ p \in Producers /\ p.ph # "queue asleep"
        /\ Put(p, Reserving) = Put(put[s], Reserving) /\ Put(p, Holding) = Put(put[s], Holding)
        /\ p.ph # "budget asleep" \/ p = put[s]
    BY <1>7, ProducerWoken
  <1>9. /\ g \in Consumers /\ g.n = get[s].n /\ g.ph # "asleep"
        /\ \A ph \in {"holding", "settling"} : g.ph = ph <=> get[s].ph = ph
    BY <1>7, ConsumerWoken
  <1> HIDE DEF p, g
  <1>10. /\ left \in Seq(Sizes) /\ dd \in Seq(Sizes) /\ Len(left) <= Len(q[s].items) /\ Len(left) \in Nat
         /\ Total(left) + Total(dd) = Total(q[s].items) + Total(drop[s])
         /\ Total(left) \in Nat /\ Total(dd) \in Nat
    <2>1. CASE discard
      <3>1. left = <<>> /\ dd = drop[s] \o q[s].items
        BY <2>1
      <3> HIDE DEF left, dd
      <3>2. left \in Seq(Sizes) /\ Len(left) = 0 /\ dd \in Seq(Sizes)
        BY ONLY <1>6, <3>1
      <3>3. Total(left) = 0
        BY <3>1, TotalOfNone
      <3>4. Total(dd) = Total(drop[s]) + Total(q[s].items)
        BY <1>6, <3>1, TotalJoined
      <3>5. Total(left) + Total(dd) = Total(q[s].items) + Total(drop[s])
            /\ Total(left) \in Nat /\ Total(dd) \in Nat
        <4> DEFINE i == Total(q[s].items)
                   r == Total(drop[s])
        <4>1. i \in Nat /\ r \in Nat /\ Total(left) = 0 /\ Total(dd) = r + i
          BY <1>6, <3>3, <3>4
        <4> HIDE DEF i, r
        <4>2. Total(left) + Total(dd) = i + r /\ Total(left) \in Nat /\ Total(dd) \in Nat
          BY ONLY <4>1
        <4> QED
          BY <4>2 DEF i, r
      <3>6. Len(left) <= Len(q[s].items) /\ Len(left) \in Nat
        BY ONLY <1>6, <3>2
      <3> QED
        BY <3>2, <3>5, <3>6
    <2>2. CASE ~discard
      <3>1. left = q[s].items /\ dd = drop[s]
        BY <2>2
      <3> HIDE DEF left, dd
      <3> QED
        BY <1>6, <3>1
    <2> QED
      BY <2>1, <2>2
  <1>11. /\ x \in Contents /\ x.items = left /\ x.out = q[s].out /\ x.outBytes = q[s].outBytes
         /\ x.bytes <= q[s].bytes /\ x.bytes = Total(left) + q[s].outBytes
    <2> DEFINE bytes == IF discard THEN q[s].outBytes ELSE q[s].bytes
    <2>1. bytes \in Nat /\ bytes <= q[s].bytes /\ bytes = Total(left) + q[s].outBytes
      <3>1. q[s].bytes = Total(q[s].items) + q[s].outBytes
        BY <1>6 DEF Bounded
      <3>2. CASE discard
        <4>1. bytes = q[s].outBytes /\ Total(left) = 0
          BY <3>2, TotalOfNone
        <4> HIDE DEF bytes, left
        <4>2. q[s].outBytes <= Total(q[s].items) + q[s].outBytes /\ 0 + q[s].outBytes = q[s].outBytes
          BY ONLY <1>6
        <4> QED
          BY ONLY <1>6, <3>1, <4>1, <4>2
      <3>3. CASE ~discard
        <4>1. bytes = q[s].bytes /\ left = q[s].items
          BY <3>3
        <4>2. q[s].bytes <= q[s].bytes
          BY ONLY <1>6
        <4> HIDE DEF bytes, left
        <4> QED
          BY <1>6, <3>1, <4>1, <4>2
      <3> QED
        BY <3>2, <3>3
    <2>2. x = [q[s] EXCEPT !.closed = TRUE, !.items = left, !.bytes = bytes]
      OBVIOUS
    <2> HIDE DEF x, left, bytes
    <2>3. q[s] \in Contents /\ left \in Seq(Sizes) /\ bytes \in Nat
      BY <1>6, <1>10, <2>1
    <2>4. /\ x \in Contents /\ x.items = left /\ x.out = q[s].out /\ x.outBytes = q[s].outBytes
          /\ x.bytes = bytes
      BY ONLY <2>2, <2>3 DEF Contents
    <2> QED
      BY <2>1, <2>4
  <1> HIDE DEF x, left, dd
  <1>12. Carried(x, g)
    BY ONLY <1>6, <1>9, <1>11 DEF Carried
  <1>13. Bounded(x)
    <2>1. Len(q[s].items) + q[s].out <= MaxItems /\ q[s].bytes <= MaxBytes
      BY <1>6 DEF Bounded
    <2>2. MaxItems \in Nat /\ MaxBytes \in Nat
      BY ChunkSizes
    <2>3. Len(x.items) + x.out <= MaxItems
      <3>1. Len(left) + q[s].out <= MaxItems
        <4> DEFINE few == Len(left)
                   many == Len(q[s].items)
                   out == q[s].out
        <4>1. few \in Nat /\ many \in Nat /\ few <= many
          BY <1>6, <1>10
        <4>2. out \in Int /\ many + out <= MaxItems /\ MaxItems \in Nat
          BY <1>6, <2>1, <2>2
        <4> HIDE DEF few, many, out
        <4>3. few + out <= MaxItems
          BY ONLY <4>1, <4>2
        <4> QED
          BY <4>3 DEF few, out
      <3> QED
        BY ONLY <1>11, <3>1
    <2>4. x.bytes <= MaxBytes
      <3>1. x.bytes \in Nat
        BY <1>11 DEF Contents
      <3> QED
        BY ONLY <1>6, <1>11, <2>1, <2>2, <3>1
    <2>5. x.bytes = Total(x.items) + x.outBytes
      BY ONLY <1>11
    <2> QED
      BY <2>3, <2>4, <2>5 DEF Bounded
  <1>14. StreamFine(x, buf[s], dd, p, g)
    BY <1>6, <1>8, <1>9, <1>10, <1>11, <1>12, <1>13 DEF StreamFine, StreamTyped, WaitsWell
  <1>15. StreamBecomes(s, x, buf[s], dd, p, g)
    BY <1>1, <1>3, <1>4, <1>5, <1>14, StreamStays DEF StreamBecomes, QueueInv
  <1>16. Stored(x, buf[s], dd, g) = Stored(q[s], buf[s], drop[s], get[s])
    <2> DEFINE i == Total(q[s].items)
               r == Total(drop[s])
               k == Total(left)
               m == Total(dd)
               c == get[s].n
               b == BufferBytes(buf[s])
    <2>1. /\ i \in Nat /\ r \in Nat /\ k \in Nat /\ m \in Nat /\ c \in Nat /\ b \in Nat
          /\ k + m = i + r
      BY <1>6, <1>7, <1>10
    <2>2. /\ Total(q[s].items) = i /\ Total(drop[s]) = r /\ BufferBytes(buf[s]) = b
          /\ get[s].n = c /\ Total(x.items) = k /\ Total(dd) = m /\ g.n = c
      BY <1>9, <1>11
    <2> HIDE DEF i, r, k, m, c, b
    <2>3. Stored(q[s], buf[s], drop[s], get[s]) = i + r + c + b
      <3>1. PartsAre(q[s], buf[s], drop[s], get[s], i, r, c, b)
        BY ONLY <2>1, <2>2 DEF PartsAre
      <3> QED
        BY ONLY <3>1, StoredSum
    <2>4. Stored(x, buf[s], dd, g) = k + m + c + b
      <3>1. PartsAre(x, buf[s], dd, g, k, m, c, b)
        BY ONLY <2>1, <2>2 DEF PartsAre
      <3> QED
        BY ONLY <3>1, StoredSum
    <2>5. k + m + c + b = i + r + c + b
      BY ONLY <2>1
    <2> QED
      BY ONLY <2>3, <2>4, <2>5
  <1>17. OwesMore(s, x, buf[s], dd, p, g, 0, 0)
    BY <1>8, <1>16, SameSum
  <1>18. budget' = budget
    BY <1>1
  <1> QED
    BY <1>5, <1>8, <1>15, <1>17, <1>18, QuietMoves

LEMMA ClearKeeps ==
    ASSUME QueueInv, NEW s \in Streams, NEW b \in Buffers, Clear(s, b)
    PROVE  QueueInv'
  <1> DEFINE bs == [buf[s] EXCEPT ![b] = <<>>]
             dd == drop[s] \o buf[s][b]
  <1>1. /\ buf' = [buf EXCEPT ![s][b] = <<>>] /\ drop' = [drop EXCEPT ![s] = @ \o buf[s][b]]
        /\ UNCHANGED <<budget, q, put, get>>
    BY DEF Clear
  <1>2. /\ buf \in [Streams -> [Buffers -> Seq(Sizes)]] /\ drop \in [Streams -> Seq(Sizes)]
        /\ buf[s] \in [Buffers -> Seq(Sizes)] /\ buf[s][b] \in Seq(Sizes) /\ drop[s] \in Seq(Sizes)
    BY DEF QueueInv, StreamsFine
  <1>3. buf' = [buf EXCEPT ![s] = bs] /\ drop' = [drop EXCEPT ![s] = dd]
    BY ONLY <1>1, <1>2, s \in Streams, b \in Buffers
  <1>4. buf[s][b] \in Seq(Nat) /\ drop[s] \in Seq(Nat)
    BY <1>2, ChunkSizes
  <1>5. dd \in Seq(Sizes) /\ Total(dd) = Total(drop[s]) + Total(buf[s][b])
    BY <1>2, <1>4, TotalJoined
  <1>6. <<>> \in Seq(Sizes) /\ Total(<<>>) = 0
    BY TotalOfNone
  <1>7. /\ bs \in [Buffers -> Seq(Sizes)]
        /\ BufferBytes(bs) = BufferBytes(buf[s]) - Total(buf[s][b]) + Total(<<>>)
    <2> DEFINE none == <<>>
               before == buf[s]
    <2>1. before \in [Buffers -> Seq(Sizes)] /\ b \in Buffers /\ none \in Seq(Sizes)
      BY <1>2, <1>6
    <2> HIDE DEF none, before
    <2>2. /\ [before EXCEPT ![b] = none] \in [Buffers -> Seq(Sizes)]
          /\ BufferBytes([before EXCEPT ![b] = none])
                 = BufferBytes(before) - Total(before[b]) + Total(none)
      BY ONLY <2>1, BufferMoves
    <2> QED
      BY <2>2 DEF none, before, bs
  <1>8. /\ BufferBytes(buf[s]) \in Nat /\ Total(buf[s][b]) \in Nat /\ BufferBytes(bs) \in Nat
    BY <1>2, <1>7, BufferBytesIsNat
  <1> HIDE DEF bs, dd
  <1>9. StreamFine(q[s], bs, dd, put[s], get[s])
    <2>1. StreamFine(q[s], buf[s], drop[s], put[s], get[s])
      BY StreamFacts
    <2> QED
      BY ONLY <1>5, <1>7, <2>1 DEF StreamFine, StreamTyped
  <1>10. StreamBecomes(s, q[s], bs, dd, put[s], get[s])
    BY <1>1, <1>3, <1>9, StreamStays DEF StreamBecomes, QueueInv
  <1>11. Stored(q[s], bs, dd, get[s]) = Stored(q[s], buf[s], drop[s], get[s])
    <2> DEFINE i == Total(q[s].items)
               r == Total(drop[s])
               m == Total(dd)
               c == get[s].n
               old == BufferBytes(buf[s])
               new == BufferBytes(bs)
               n == Total(buf[s][b])
    <2>1. /\ i \in Nat /\ r \in Nat /\ c \in Nat /\ old \in Nat /\ new \in Nat /\ n \in Nat
          /\ m = r + n /\ new = old - n + 0
      BY <1>5, <1>6, <1>7, <1>8, StreamParts, StreamFacts
    <2>2. /\ Total(q[s].items) = i /\ Total(drop[s]) = r /\ BufferBytes(buf[s]) = old
          /\ get[s].n = c /\ Total(dd) = m /\ BufferBytes(bs) = new
      OBVIOUS
    <2> HIDE DEF i, r, m, c, old, new, n
    <2>3. Stored(q[s], buf[s], drop[s], get[s]) = i + r + c + old
      <3>1. PartsAre(q[s], buf[s], drop[s], get[s], i, r, c, old)
        BY ONLY <2>1, <2>2 DEF PartsAre
      <3> QED
        BY ONLY <3>1, StoredSum
    <2>4. m \in Nat
      BY ONLY <2>1
    <2>5. Stored(q[s], bs, dd, get[s]) = i + m + c + new
      <3>1. PartsAre(q[s], bs, dd, get[s], i, m, c, new)
        BY ONLY <2>1, <2>2, <2>4 DEF PartsAre
      <3> QED
        BY ONLY <3>1, StoredSum
    <2>6. i + m + c + new = i + r + c + old
      BY ONLY <2>1
    <2> QED
      BY ONLY <2>3, <2>5, <2>6
  <1>12. OwesMore(s, q[s], bs, dd, put[s], get[s], 0, 0)
    BY <1>11, SameSum
  <1>13. budget' = budget /\ put' = [put EXCEPT ![s] = put[s]]
    BY <1>1, StreamStays DEF QueueInv
  <1> QED
    BY <1>10, <1>12, <1>13, QuietMoves

-----------------------------------------------------------------------------
(* StreamQueue: the theorem *)

\* At first nothing is owed and nothing is charged.
LEMMA QueueInitHolds == QueueInit => QueueInv
  <1> SUFFICES ASSUME QueueInit PROVE QueueInv
    OBVIOUS
  <1> DEFINE none == [items |-> <<>>, bytes |-> 0, out |-> 0, outBytes |-> 0, closed |-> FALSE]
             empty == [b \in Buffers |-> <<>>]
             rest == [ph |-> "idle", n |-> 0]
  <1>1. /\ budget = [used |-> 0, parent |-> 0]
        /\ q = [s \in Streams |-> none] /\ buf = [s \in Streams |-> empty]
        /\ drop = [s \in Streams |-> <<>>] /\ put = [s \in Streams |-> Idle]
        /\ get = [s \in Streams |-> rest]
    BY DEF QueueInit
  <1>2. <<>> \in Seq(Sizes) /\ Len(<<>>) = 0 /\ Total(<<>>) = 0
    BY TotalOfNone
  <1>3. none \in Contents /\ none.items = <<>> /\ none.bytes = 0 /\ none.out = 0 /\ none.outBytes = 0
    BY <1>2 DEF Contents
  <1>4. empty \in [Buffers -> Seq(Sizes)] /\ BufferBytes(empty) = 0
    <2> DEFINE f == [b \in Buffers |-> Total(empty[b])]
    <2>1. empty \in [Buffers -> Seq(Sizes)] /\ \A b \in Buffers : f[b] = 0
      BY <1>2
    <2>2. IsFiniteSet(Buffers)
      BY StreamAssumption
    <2>3. BufferBytes(empty) = SumFunctionOnSet(f, Buffers)
      BY DEF BufferBytes
    <2> HIDE DEF f, empty
    <2>4. SumFunctionOnSet(f, Buffers) = 0
      BY ONLY <2>1, <2>2, SumOfZeros
    <2> QED
      BY <2>1, <2>3, <2>4
  <1>5. Idle \in Producers /\ Idle.ph = "idle" /\ Idle.n = 0
    BY DEF Idle, Producers
  <1>6. rest \in Consumers /\ rest.ph = "idle" /\ rest.n = 0
    BY DEF Consumers
  <1> HIDE DEF none, empty, rest
  <1>7. StreamFine(none, empty, <<>>, Idle, rest)
    <2>1. StreamTyped(none, empty, <<>>, Idle, rest)
      BY <1>2, <1>3, <1>4, <1>5, <1>6 DEF StreamTyped
    <2>2. Carried(none, rest) /\ WaitsWell(none, Idle, rest)
      BY <1>3, <1>5, <1>6 DEF Carried, WaitsWell
    <2>3. Bounded(none)
      <3>1. 0 + 0 <= MaxItems /\ 0 <= MaxBytes /\ 0 = 0 + 0
        BY ChunkSizes
      <3> QED
        BY <1>2, <1>3, <3>1 DEF Bounded
    <2> QED
      BY <2>1, <2>2, <2>3 DEF StreamFine
  <1>8. StreamsFine
    <2>1. \A s \in Streams : /\ q[s] = none /\ buf[s] = empty /\ drop[s] = <<>> /\ put[s] = Idle
                             /\ get[s] = rest
      BY <1>1
    <2>2. \A s \in Streams : StreamFine(q[s], buf[s], drop[s], put[s], get[s])
      BY <1>7, <2>1
    <2>3. /\ q \in [Streams -> Contents] /\ buf \in [Streams -> [Buffers -> Seq(Sizes)]]
          /\ drop \in [Streams -> Seq(Sizes)] /\ put \in [Streams -> Producers]
          /\ get \in [Streams -> Consumers]
      BY <1>1, <1>2, <1>3, <1>4, <1>5, <1>6
    <2> QED
      BY <2>2, <2>3 DEF StreamsFine
  <1>9. ASSUME NEW phases \in {Reserving, Holding}
        PROVE  SumFunctionOnSet(Accounts(phases), Streams) = 0
    <2> DEFINE a == Accounts(phases)
    <2>1. Put(Idle, phases) = 0
      BY <1>5 DEF Put
    <2>2. Stored(none, empty, <<>>, rest) = 0 + 0 + 0 + 0
      <3>1. PartsAre(none, empty, <<>>, rest, 0, 0, 0, 0)
        BY ONLY <1>2, <1>3, <1>4, <1>6 DEF PartsAre
      <3> QED
        BY ONLY <3>1, StoredSum
    <2>3. Owing(none, empty, <<>>, Idle, rest, phases) = 0
      <3>1. 0 + 0 + 0 + 0 + 0 = 0
        OBVIOUS
      <3> QED
        BY <2>1, <2>2, <3>1 DEF Owing
    <2>4. \A s \in Streams : a[s] = 0
      BY <1>1, <2>3 DEF Accounts, OwedBy
    <2>5. IsFiniteSet(Streams)
      BY StreamAssumption
    <2> HIDE DEF a
    <2>6. SumFunctionOnSet(a, Streams) = 0
      BY ONLY <2>4, <2>5, SumOfZeros
    <2> QED
      BY <2>6 DEF a
  <1>10. BudgetFine
    <2>1. budget \in [used : Nat, parent : Nat] /\ budget.used = 0 /\ budget.parent = 0
      BY <1>1
    <2>2. 0 <= Capacity
      BY ChunkSizes
    <2>3. \A s \in Streams : put[s].ph # "budget asleep"
      BY <1>1, <1>5
    <2> QED
      BY <1>9, <2>1, <2>2, <2>3 DEF BudgetFine
  <1> QED
    BY <1>8, <1>10 DEF QueueInv

LEMMA QueueStepKeeps == QueueInv /\ [QueueNext]_queueVars => QueueInv'
  <1> SUFFICES ASSUME QueueInv, [QueueNext]_queueVars PROVE QueueInv'
    OBVIOUS
  <1>1. ASSUME NEW s \in Streams, Settling(s) PROVE QueueInv'
    <2>1. CASE BudgetRetry(s)
      BY <2>1, BudgetRetryKeeps
    <2>2. CASE ParentGrants(s)
      BY <2>2, ParentGrantsKeeps
    <2>3. CASE LeaseTaken(s)
      BY <2>3, LeaseTakenKeeps
    <2>4. CASE QueueRetry(s)
      BY <2>4, QueueRetryKeeps
    <2>5. CASE PutFailed(s)
      BY <2>5, PutFailedKeeps
    <2>6. CASE GetRetry(s)
      <3>1. get[s].ph \in {"idle", "awake"} /\ Take(s) /\ UNCHANGED <<budget, buf, drop, put>>
        BY <2>6 DEF GetRetry
      <3> QED
        BY <3>1, TakeKeeps
    <2>7. CASE ItemSettled(s)
      BY <2>7, ItemSettledKeeps
    <2>8. CASE DropReturned(s)
      BY <2>8, DropReturnedKeeps
    <2> QED
      BY <1>1, <2>1, <2>2, <2>3, <2>4, <2>5, <2>6, <2>7, <2>8 DEF Settling
  <1>2. ASSUME NEW s \in Streams, NEW n \in Sizes, NEW to \in Buffers \cup {"queue"},
               ReserveChunk(s, n, to)
        PROVE  QueueInv'
    BY <1>2, ReserveKeeps
  <1>3. ASSUME NEW s \in Streams, NEW b \in Buffers, PutBuffered(s, b) PROVE QueueInv'
    BY <1>3, PutBufferedKeeps
  <1>4. ASSUME NEW s \in Streams, NEW b \in Buffers, Clear(s, b) PROVE QueueInv'
    BY <1>4, ClearKeeps
  <1>5. ASSUME NEW s \in Streams, NEW why \in {"timeout", "cancel"}, StopPut(s, why) PROVE QueueInv'
    BY <1>5, StopPutKeeps
  <1>6. ASSUME NEW s \in Streams, GetLease(s) PROVE QueueInv'
    <2>1. get[s].ph \in {"idle", "awake"} /\ Take(s) /\ UNCHANGED <<budget, buf, drop, put>>
      BY <1>6 DEF GetLease
    <2> QED
      BY <2>1, TakeKeeps
  <1>7. ASSUME NEW s \in Streams, GetCancelled(s) PROVE QueueInv'
    BY <1>7, GetCancelledKeeps
  <1>8. ASSUME NEW s \in Streams, ReleaseInflight(s) PROVE QueueInv'
    BY <1>8, ReleaseInflightKeeps
  <1>9. ASSUME NEW s \in Streams, NEW discard \in BOOLEAN, Close(s, discard) PROVE QueueInv'
    BY <1>9, CloseKeeps
  <1>10. CASE UNCHANGED queueVars
    <2>1. StreamsFine' /\ BudgetFine'
      <3>1. /\ q' = q /\ buf' = buf /\ drop' = drop /\ put' = put /\ get' = get
            /\ budget' = budget
        BY <1>10 DEF queueVars
      <3>2. StreamsFine'
        BY <3>1 DEF QueueInv, StreamsFine
      <3>3. /\ Accounts(Reserving)' = Accounts(Reserving)
            /\ Accounts(Holding)' = Accounts(Holding)
        BY <3>1 DEF Accounts, OwedBy, Reserving, Holding
      <3>4. BudgetFine'
        BY <3>1, <3>3 DEF QueueInv, BudgetFine, BudgetFits
      <3> QED
        BY <3>2, <3>4
    <2> QED
      BY <2>1 DEF QueueInv
  <1>11. CASE QueueNext
    BY <1>1, <1>2, <1>3, <1>4, <1>5, <1>6, <1>7, <1>8, <1>9, <1>11 DEF QueueNext
  <1> QED
    BY <1>10, <1>11

\* Of ByteBoundedQueue and RetainedByteBudget (streaming/bounded_queue.py), for any streams,
\* buffers, chunk sizes and capacities: every byte that the budget and the governor are charged
\* with belongs to a chunk that is queued, sent, buffered, being put or being released, no
\* bound is passed, and nobody sleeps beside what it waits for, whatever is stopped, cancelled,
\* closed or cleared at whatever moment.
THEOREM QueuesAreExact == QueueSpec => []QueueExact
  <1>1. QueueInit => QueueInv
    BY QueueInitHolds
  <1>2. QueueInv /\ [QueueNext]_queueVars => QueueInv'
    BY QueueStepKeeps
  <1>3. QueueInv => QueueExact
    BY QueueSays
  <1> QED
    BY <1>1, <1>2, <1>3, PTL DEF QueueSpec
=============================================================================
