---------------------------- MODULE EndpointProofs ----------------------------
(***************************************************************************)
(* Proofs about what is kept beside the requests, for any number of        *)
(* workers, requests, clients and tasks and any limits: the statistics of  *)
(* the channels, the routes of the video tasks, the snapshot of the        *)
(* configuration, the body of a request on its way in, the response on its *)
(* way out, and the files, the idempotent answers and the memory of the    *)
(* Rust front before them.                                                 *)
(***************************************************************************)
EXTENDS ChannelStats, VideoTasks, ConfigSnapshot, RequestIntake, LoggedResponse, RustFront,
        SumTheorems, SequenceTheorems, TLAPS

-----------------------------------------------------------------------------
(* Channel statistics *)

Writing == {k \in StatWorkers : worker[k] = "writing"}
Written == {k \in StatWorkers : worker[k] = "written"}

StatsRecord(s) ==
    /\ {"queue", "unfinished", "ph", "submitted", "completed", "failed", "dropped", "lost", "late",
        "rows", "timedout"} \subseteq DOMAIN s
    /\ s.queue \in Int /\ s.unfinished \in Int /\ s.ph \in {"off", "on", "join", "joined", "reap"}
    /\ s.submitted \in Nat /\ s.completed \in Nat /\ s.failed \in Nat /\ s.dropped \in Nat
    /\ s.lost \in Nat /\ s.late \in Nat /\ s.rows \in Nat

StatsShape ==
    /\ StatsRecord(stats)
    /\ worker \in [StatWorkers -> {"gone", "idle", "writing", "written"}]
    /\ stats.queue >= -1 /\ (stats.queue = -1 <=> stats.ph = "off")
    /\ stats.ph = "off" => \A k \in StatWorkers : worker[k] = "gone"

\* The same with numbers for the marks that the workers have: w are being written, d are in
\* the database.  What is lost may be late, and so may what is still there when the join is
\* over; and every mark in the database is counted, or is about to be, or was lost.
MarksAgree(s, w, d) ==
    LET queued == IF s.queue < 0 THEN 0 ELSE s.queue
    IN  /\ s.submitted = s.completed + s.failed + queued + w + d + s.lost
        /\ s.unfinished = queued + w + d /\ s.queue <= Capacity
        /\ ~ s.timedout => s.lost + (IF s.ph \in {"joined", "reap"} THEN s.unfinished ELSE 0)
                           <= s.late
        /\ s.completed + d <= s.rows /\ s.rows <= s.completed + s.lost + d

StatsInv == StatsShape /\ MarksAgree(stats, Cardinality(Writing), Cardinality(Written))

LEMMA MarksCounted ==
    ASSUME StatsShape
    PROVE  /\ Cardinality(Writing) \in Nat /\ Cardinality(Written) \in Nat
           /\ Cardinality(Held) = Cardinality(Writing) + Cardinality(Written)
           /\ IsFiniteSet(Writing) /\ IsFiniteSet(Written)
  <1>1. IsFiniteSet(StatWorkers)
    BY StatsAssumption
  <1>2. IsFiniteSet(Writing) /\ IsFiniteSet(Written)
    BY <1>1, FS_Subset DEF Writing, Written
  <1>3. Held = Writing \cup Written /\ Writing \cap Written = {}
    BY DEF Held, Writing, Written
  <1>4. Cardinality(Writing \cap Written) = 0
    BY <1>3, FS_EmptySet
  <1>5. Cardinality(Held) = Cardinality(Writing) + Cardinality(Written) - Cardinality(Writing \cap Written)
    BY <1>2, <1>3, FS_Union
  <1> QED
    BY <1>2, <1>3, <1>4, <1>5, FS_CardinalityType

\* A worker changes what it has: the numbers change with it.
LEMMA WorkerMoves ==
    ASSUME StatsShape, NEW k \in StatWorkers,
           NEW x \in {"gone", "idle", "writing", "written"}, worker' = [worker EXCEPT ![k] = x]
    PROVE  /\ worker' \in [StatWorkers -> {"gone", "idle", "writing", "written"}]
           /\ Cardinality(Writing)' = Cardinality(Writing)
                 - (IF worker[k] = "writing" THEN 1 ELSE 0) + (IF x = "writing" THEN 1 ELSE 0)
           /\ Cardinality(Written)' = Cardinality(Written)
                 - (IF worker[k] = "written" THEN 1 ELSE 0) + (IF x = "written" THEN 1 ELSE 0)
  <1>0. /\ worker \in [StatWorkers -> {"gone", "idle", "writing", "written"}]
        /\ worker' \in [StatWorkers -> {"gone", "idle", "writing", "written"}]
        /\ worker'[k] = x /\ \A j \in StatWorkers : j # k => worker'[j] = worker[j]
    BY DEF StatsShape
  <1>1. IsFiniteSet(Writing) /\ IsFiniteSet(Written)
    BY MarksCounted
  <1>2. /\ Writing' = IF x = "writing" THEN (Writing \ {k}) \cup {k} ELSE Writing \ {k}
        /\ Written' = IF x = "written" THEN (Written \ {k}) \cup {k} ELSE Written \ {k}
    BY <1>0 DEF Writing, Written
  <1>3. /\ k \in Writing <=> worker[k] = "writing"
        /\ k \in Written <=> worker[k] = "written"
    BY DEF Writing, Written
  <1>4. ASSUME NEW S, IsFiniteSet(S)
        PROVE  /\ Cardinality(S) \in Nat
               /\ Cardinality(S \ {k}) = IF k \in S THEN Cardinality(S) - 1 ELSE Cardinality(S)
               /\ Cardinality((S \ {k}) \cup {k}) = Cardinality(S \ {k}) + 1
    <2>1. /\ IsFiniteSet(S \ {k})
          /\ Cardinality(S \ {k}) = IF k \in S THEN Cardinality(S) - 1 ELSE Cardinality(S)
      BY <1>4, FS_RemoveElement
    <2>2. Cardinality((S \ {k}) \cup {k}) = Cardinality(S \ {k}) + 1
      BY <2>1, FS_AddElement
    <2> QED
      BY <1>4, <2>1, <2>2, FS_CardinalityType
  <1>5. ASSUME NEW S, NEW T, IsFiniteSet(S), NEW f, NEW y,
               k \in S <=> f = y, T = IF x = y THEN (S \ {k}) \cup {k} ELSE S \ {k}
        PROVE  Cardinality(T) = Cardinality(S) - (IF f = y THEN 1 ELSE 0)
                                               + (IF x = y THEN 1 ELSE 0)
    <2>1. /\ Cardinality(S) \in Nat
          /\ Cardinality(S \ {k}) = IF k \in S THEN Cardinality(S) - 1 ELSE Cardinality(S)
          /\ Cardinality((S \ {k}) \cup {k}) = Cardinality(S \ {k}) + 1
      BY <1>4, <1>5
    <2>2. CASE x = y
      <3>1. T = (S \ {k}) \cup {k}
        BY <1>5, <2>2
      <3> QED
        BY <1>5, <2>1, <2>2, <3>1
    <2>3. CASE x # y
      <3>1. T = S \ {k}
        BY <1>5, <2>3
      <3> QED
        BY <1>5, <2>1, <2>3, <3>1
    <2> QED
      BY <2>2, <2>3
  <1>6. Cardinality(Writing') = Cardinality(Writing)
           - (IF worker[k] = "writing" THEN 1 ELSE 0) + (IF x = "writing" THEN 1 ELSE 0)
    BY <1>1, <1>2, <1>3, <1>5
  <1>7. Cardinality(Written') = Cardinality(Written)
           - (IF worker[k] = "written" THEN 1 ELSE 0) + (IF x = "written" THEN 1 ELSE 0)
    BY <1>1, <1>2, <1>3, <1>5
  <1> QED
    BY <1>0, <1>6, <1>7

LEMMA NoWorkers ==
    ASSUME \A k \in StatWorkers : worker[k] \in {"gone", "idle"}
    PROVE  Writing = {} /\ Written = {} /\ Cardinality(Writing) = 0 /\ Cardinality(Written) = 0
  <1>1. Writing = {} /\ Written = {}
    BY DEF Writing, Written
  <1> QED
    BY <1>1, FS_EmptySet

LEMMA StatsInitInv == StatsInit => StatsInv
  <1> SUFFICES ASSUME StatsInit PROVE StatsInv
    OBVIOUS
  <1>1. StatsShape
    BY DEF StatsInit, StatsShape, StatsRecord
  <1>2. Cardinality(Writing) = 0 /\ Cardinality(Written) = 0
    BY NoWorkers DEF StatsInit
  <1> QED
    BY <1>1, <1>2, StatsAssumption DEF StatsInv, StatsInit, MarksAgree

\* A step of the stop or of a request leaves the workers alone.
LEMMA CommonKeeps ==
    ASSUME StatsInv,
           StartWorkers \/ Enqueue \/ StopBegins \/ JoinEnds \/ CancelWorkers \/ StopEnds
    PROVE  StatsInv'
  <1> USE StatsAssumption
  <1>0. StatsShape /\ MarksAgree(stats, Cardinality(Writing), Cardinality(Written))
    BY DEF StatsInv
  <1>c. Cardinality(Writing) \in Nat /\ Cardinality(Written) \in Nat
    BY <1>0, MarksCounted
  <1>1. CASE StartWorkers
    <2>1. \A k \in StatWorkers : worker[k] \in {"gone", "idle"} /\ worker'[k] \in {"gone", "idle"}
      BY <1>0, <1>1 DEF StartWorkers, StatsShape
    <2>2. /\ Cardinality(Writing) = 0 /\ Cardinality(Written) = 0
          /\ Cardinality(Writing)' = 0 /\ Cardinality(Written)' = 0
      <3>1. Writing = {} /\ Written = {} /\ Writing' = {} /\ Written' = {}
        BY <2>1 DEF Writing, Written
      <3> QED
        BY <3>1, FS_EmptySet
    <2>3. StatsShape'
      <3>1. StatsRecord(stats')
        BY <1>0, <1>1 DEF StartWorkers, StatsShape, StatsRecord
      <3>2. /\ stats'.queue >= -1 /\ (stats'.queue = -1 <=> stats'.ph = "off")
            /\ stats'.ph = "off" => \A k \in StatWorkers : worker'[k] = "gone"
        BY <1>0, <1>1 DEF StartWorkers, StatsShape, StatsRecord
      <3>3. worker' \in [StatWorkers -> {"gone", "idle", "writing", "written"}]
        BY <1>0, <1>1 DEF StartWorkers, StatsShape
      <3> QED
        BY <3>1, <3>2, <3>3 DEF StatsShape
    <2>4. MarksAgree(stats, 0, 0)
      BY <1>0, <2>2
    <2>5. MarksAgree(stats', 0, 0)
      BY <1>0, <1>1, <2>4 DEF StartWorkers, StatsShape, StatsRecord, MarksAgree
    <2> QED
      BY <2>2, <2>3, <2>5 DEF StatsInv
  <1>2. CASE Enqueue \/ StopBegins \/ JoinEnds \/ CancelWorkers \/ StopEnds
    <2>1. worker' = worker
      BY <1>2 DEF Enqueue, StopBegins, JoinEnds, CancelWorkers, StopEnds
    <2>2. Cardinality(Writing)' = Cardinality(Writing) /\ Cardinality(Written)' = Cardinality(Written)
      BY <2>1 DEF Writing, Written
    <2> DEFINE w == Cardinality(Writing)
               d == Cardinality(Written)
    <2>3. w \in Nat /\ d \in Nat /\ MarksAgree(stats, w, d)
      BY <1>0, <1>c
    <2>4. CASE Enqueue
      <3> HIDE DEF w, d
      <3>1. StatsShape'
        <4>1. StatsRecord(stats')
          BY <1>0, <2>4 DEF Enqueue, StatsShape, StatsRecord
        <4>2. /\ stats'.queue >= -1 /\ (stats'.queue = -1 <=> stats'.ph = "off")
              /\ stats'.ph = "off" => \A k \in StatWorkers : worker'[k] = "gone"
          BY <1>0, <2>1, <2>4 DEF Enqueue, StatsShape, StatsRecord
        <4>3. worker' \in [StatWorkers -> {"gone", "idle", "writing", "written"}]
          BY <1>0, <2>1, <2>4 DEF Enqueue, StatsShape
        <4> QED
          BY <4>1, <4>2, <4>3 DEF StatsShape
      <3>2. MarksAgree(stats', w, d)
        BY <1>0, <2>3, <2>4 DEF Enqueue, StatsShape, StatsRecord, MarksAgree
      <3> QED
        BY <2>2, <3>1, <3>2 DEF StatsInv, w, d
    <2>5. CASE StopBegins \/ JoinEnds \/ CancelWorkers
      <3> HIDE DEF w, d
      <3>1. StatsShape'
        <4>1. StatsRecord(stats')
          BY <1>0, <2>1, <2>5 DEF StopBegins, JoinEnds, CancelWorkers, StatsShape, StatsRecord
        <4>2. /\ stats'.queue >= -1 /\ (stats'.queue = -1 <=> stats'.ph = "off")
              /\ stats'.ph = "off" => \A k \in StatWorkers : worker'[k] = "gone"
          BY <1>0, <2>1, <2>5 DEF StopBegins, JoinEnds, CancelWorkers, StatsShape, StatsRecord
        <4>3. worker' \in [StatWorkers -> {"gone", "idle", "writing", "written"}]
          BY <1>0, <2>1, <2>5 DEF StopBegins, JoinEnds, CancelWorkers, StatsShape
        <4> QED
          BY <4>1, <4>2, <4>3 DEF StatsShape
      <3>2. MarksAgree(stats', w, d)
        BY <1>0, <2>3, <2>5 DEF StopBegins, JoinEnds, CancelWorkers, StatsShape, StatsRecord, MarksAgree
      <3> QED
        BY <2>2, <3>1, <3>2 DEF StatsInv, w, d
    <2>6. CASE StopEnds
      <3>0. w = 0 /\ d = 0
        BY <2>6, NoWorkers DEF StopEnds
      <3> HIDE DEF w, d
      <3>1. StatsShape'
        <4>1. StatsRecord(stats')
          BY <1>0, <2>6 DEF StopEnds, StatsShape, StatsRecord
        <4>2. /\ stats'.queue >= -1 /\ (stats'.queue = -1 <=> stats'.ph = "off")
              /\ stats'.ph = "off" => \A k \in StatWorkers : worker'[k] = "gone"
          BY <1>0, <2>1, <2>6 DEF StopEnds, StatsShape, StatsRecord
        <4>3. worker' \in [StatWorkers -> {"gone", "idle", "writing", "written"}]
          BY <1>0, <2>1, <2>6 DEF StopEnds, StatsShape
        <4> QED
          BY <4>1, <4>2, <4>3 DEF StatsShape
      <3>2. MarksAgree(stats', w, d)
        BY <1>0, <2>3, <2>6, <3>0 DEF StopEnds, StatsShape, StatsRecord, MarksAgree
      <3> QED
        BY <2>2, <3>1, <3>2 DEF StatsInv, w, d
    <2> QED
      BY <1>2, <2>4, <2>5, <2>6
  <1> QED
    BY <1>1, <1>2

\* A worker takes a mark, writes it, counts it, or is cancelled with it.
LEMMA WorkerKeeps ==
    ASSUME StatsInv, NEW k \in StatWorkers,
           TakeMark(k) \/ CommitMark(k) \/ MarkDone(k) \/ WorkerLeaves(k)
    PROVE  StatsInv'
  <1> USE StatsAssumption
  <1>0. StatsShape /\ MarksAgree(stats, Cardinality(Writing), Cardinality(Written))
    BY DEF StatsInv
  <1>1. PICK x \in {"gone", "idle", "writing", "written"} : worker' = [worker EXCEPT ![k] = x]
    BY DEF TakeMark, CommitMark, MarkDone, WorkerLeaves
  <1> DEFINE w == Cardinality(Writing)
             d == Cardinality(Written)
             w1 == Cardinality(Writing)'
             d1 == Cardinality(Written)'
  <1>2. /\ w1 = w - (IF worker[k] = "writing" THEN 1 ELSE 0) + (IF x = "writing" THEN 1 ELSE 0)
        /\ d1 = d - (IF worker[k] = "written" THEN 1 ELSE 0) + (IF x = "written" THEN 1 ELSE 0)
        /\ worker' \in [StatWorkers -> {"gone", "idle", "writing", "written"}]
    BY <1>0, <1>1, WorkerMoves
  <1>3. w \in Nat /\ d \in Nat /\ MarksAgree(stats, w, d)
    BY <1>0, MarksCounted
  <1>4. worker'[k] = x /\ \A j \in StatWorkers : j # k => worker'[j] = worker[j]
    BY <1>0, <1>1 DEF StatsShape
  <1> HIDE DEF w, d, w1, d1
  <1>5. StatsShape'
    <2>1. StatsRecord(stats')
      <3>1. CASE TakeMark(k) \/ CommitMark(k)
        BY <1>0, <3>1 DEF TakeMark, CommitMark, StatsShape, StatsRecord
      <3>2. CASE MarkDone(k)
        BY <1>0, <3>2 DEF MarkDone, Counted, StatsShape, StatsRecord
      <3>3. CASE WorkerLeaves(k)
        BY <1>0, <3>3 DEF WorkerLeaves, StatsShape, StatsRecord
      <3> QED
        BY <3>1, <3>2, <3>3
    <2>2. /\ stats'.queue >= -1 /\ (stats'.queue = -1 <=> stats'.ph = "off")
          /\ stats'.ph = "off" <=> stats.ph = "off"
      <3>1. CASE TakeMark(k) \/ CommitMark(k)
        BY <1>0, <3>1 DEF TakeMark, CommitMark, StatsShape, StatsRecord
      <3>2. CASE MarkDone(k)
        BY <1>0, <3>2 DEF MarkDone, Counted, StatsShape, StatsRecord
      <3>3. CASE WorkerLeaves(k)
        BY <1>0, <3>3 DEF WorkerLeaves, StatsShape, StatsRecord
      <3> QED
        BY <3>1, <3>2, <3>3
    <2>3. stats.ph # "off"
      BY <1>0 DEF TakeMark, CommitMark, MarkDone, WorkerLeaves, StatsShape
    <2> QED
      BY <1>2, <2>1, <2>2, <2>3 DEF StatsShape
  <1>6. MarksAgree(stats', w1, d1)
    <2>1. CASE TakeMark(k)
      BY <1>0, <1>2, <1>3, <1>4, <2>1 DEF TakeMark, StatsShape, StatsRecord, MarksAgree
    <2>2. CASE CommitMark(k)
      BY <1>0, <1>2, <1>3, <1>4, <2>2 DEF CommitMark, StatsShape, StatsRecord, MarksAgree
    <2>3. CASE MarkDone(k)
      BY <1>0, <1>2, <1>3, <1>4, <2>3 DEF MarkDone, Counted, StatsShape, StatsRecord, MarksAgree
    <2>4. CASE WorkerLeaves(k)
      BY <1>0, <1>2, <1>3, <1>4, <2>4 DEF WorkerLeaves, StatsShape, StatsRecord, MarksAgree
    <2> QED
      BY <2>1, <2>2, <2>3, <2>4
  <1> QED
    BY <1>5, <1>6 DEF StatsInv, w1, d1

LEMMA StatsSound == StatsInv => StatsAccounted
  <1> SUFFICES ASSUME StatsInv PROVE StatsAccounted
    OBVIOUS
  <1> DEFINE w == Cardinality(Writing)
             d == Cardinality(Written)
             h == Cardinality(Held)
  <1>1. StatsShape /\ MarksAgree(stats, w, d) /\ w \in Nat /\ d \in Nat /\ h = w + d
    BY MarksCounted DEF StatsInv
  <1>2. stats.ph = "off" => Held = {} /\ h = 0
    <2>1. stats.ph = "off" => Held = {}
      BY <1>1 DEF StatsShape, Held
    <2> QED
      BY <2>1, FS_EmptySet
  <1> HIDE DEF w, d, h
  <1>3. /\ stats.submitted = stats.completed + stats.failed + Queued + h + stats.lost
        /\ stats.unfinished = Queued + h /\ stats.queue <= Capacity
        /\ ~ stats.timedout => stats.lost <= stats.late
        /\ stats.completed <= stats.rows
        /\ stats.rows <= stats.completed + stats.lost + h
        /\ stats.ph = "off" => stats.unfinished = 0
    BY <1>1, <1>2, StatsAssumption DEF StatsShape, StatsRecord, MarksAgree, Queued
  <1> QED
    BY <1>2, <1>3 DEF StatsAccounted, h

\* Every mark that was accepted is completed, failed, still there or lost, with any number of
\* workers and however the shutdown falls between their steps.
THEOREM StatsAreAccounted == StatsSpec => []StatsAccounted
  <1>1. StatsInv /\ [StatsNext]_statsVars => StatsInv'
    <2>1. StatsInv /\ StatsNext => StatsInv'
      BY CommonKeeps, WorkerKeeps DEF StatsNext
    <2>2. StatsInv /\ UNCHANGED statsVars => StatsInv'
      BY DEF StatsInv, StatsShape, statsVars, Writing, Written
    <2> QED
      BY <2>1, <2>2
  <1> QED
    BY <1>1, StatsInitInv, StatsSound, PTL DEF StatsSpec
-----------------------------------------------------------------------------
(* The routes of the video tasks *)

RouteRecord == [at : Int, client : Clients \cup {"nobody"}]

\* A call that queries, and one that creates, concerns a task.
CallShape(k) ==
    /\ {"ph", "client", "task", "fixed"} \subseteq DOMAIN k
    /\ k.ph \in {"out", "create", "query"} /\ k.task \in Tasks \cup {0}
    /\ k.ph = "query" => k.task \in Tasks
    /\ k.ph = "create" => k.client \in Clients /\ ~ k.fixed
    /\ k.ph = "out" => ~ k.fixed

VideoShape ==
    /\ routes \in [Tasks -> RouteRecord] /\ maker \in [Tasks -> Clients \cup {"nobody"}]
    /\ DOMAIN calls = Calls /\ \A c \in Calls : CallShape(calls[c])
    /\ born \in [Tasks -> [at : Int, deleted : BOOLEAN]] /\ today \in Nat

\* A route is that of the task's maker, as it was remembered last.
RoutesTrue ==
    \A t \in Tasks :
       /\ born[t].at <= today /\ (maker[t] = "nobody" => born[t].at = -1)
       /\ routes[t] # NoRoute => /\ routes[t] = [at |-> born[t].at, client |-> maker[t]]
                                 /\ born[t].at >= 0 /\ maker[t] # "nobody"

Creating(c, t) == calls[c].ph = "create" /\ calls[c].task = t

\* A task that is being created has no route yet: it was never remembered, and one call alone
\* creates it.
CreatedOnce ==
    \A c \in Calls, t \in Tasks :
       Creating(c, t) => /\ maker[t] = calls[c].client /\ maker[t] # "nobody" /\ born[t].at = -1
                         /\ \A d \in Calls : Creating(d, t) => d = c

FixedTrue ==
    \A c \in Calls : calls[c].fixed => /\ calls[c].task \in Tasks /\ maker[calls[c].task] # "nobody"
                                       /\ calls[c].client = maker[calls[c].task]

Alive(t) == born[t].at >= 0 /\ ~ born[t].deleted /\ today - born[t].at <= RouteLife

RoutesKept ==
    \A t \in Tasks : Alive(t) /\ Cardinality(Younger(t)) <= MaxRoutes => routes[t] # NoRoute

RoutesFew == Cardinality(Known(routes)) <= MaxRoutes + 1

VideoInv == VideoShape /\ RoutesTrue /\ CreatedOnce /\ FixedTrue /\ RoutesKept /\ RoutesFew

LEMMA RouteIs ==
    ASSUME RoutesTrue, NEW t \in Tasks, routes[t] # NoRoute
    PROVE  routes[t].at = born[t].at /\ routes[t].client = maker[t] /\ born[t].at >= 0
  <1>1. routes[t] = [at |-> born[t].at, client |-> maker[t]] /\ born[t].at >= 0
    BY DEF RoutesTrue
  <1> QED
    BY <1>1

LEMMA TasksFinite == IsFiniteSet(Tasks) /\ \A S \in SUBSET Tasks : IsFiniteSet(S) /\ Cardinality(S) \in Nat
  <1>1. IsFiniteSet(Tasks)
    BY VideoAssumption, FS_Interval DEF Tasks
  <1> QED
    BY <1>1, FS_Subset, FS_CardinalityType

LEMMA MaxOfZero ==
    ASSUME NEW n \in Int
    PROVE  Max({0, n}) = IF n > 0 THEN n ELSE 0
  <1> DEFINE m == IF n > 0 THEN n ELSE 0
  <1>1. m \in {0, n} /\ \A y \in {0, n} : m >= y
    OBVIOUS
  <1>2. \A x \in {0, n} : (\A y \in {0, n} : x >= y) => x = m
    OBVIOUS
  <1> QED
    BY <1>1, <1>2 DEF Max

\* What the prune leaves: at most MaxRoutes routes, and all of them if one made room.
LEMMA PruneLeaves ==
    ASSUME NEW s \in Overflow(routes)
    PROVE  /\ s \subseteq Young(routes) /\ Cardinality(Young(routes) \ s) <= MaxRoutes
           /\ s # {} => Cardinality(Young(routes) \ s) = MaxRoutes
  <1> DEFINE Y == Young(routes)
             n == Cardinality(Y) - MaxRoutes
  <1>1. Y \in SUBSET Tasks /\ s \in SUBSET Y /\ Cardinality(s) = Max({0, n})
    BY DEF Overflow, Young, Known
  <1>2. IsFiniteSet(Y) /\ IsFiniteSet(s) /\ Cardinality(Y) \in Nat /\ Cardinality(s) \in Nat
    BY <1>1, TasksFinite, FS_Subset
  <1>3. Cardinality(Y \ s) = Cardinality(Y) - Cardinality(s)
    <2>1. Y \cap s = s
      BY <1>1
    <2>2. Cardinality(Y \ s) = Cardinality(Y) - Cardinality(Y \cap s)
      BY <1>2, FS_Difference
    <2> QED
      BY <2>1, <2>2
  <1>4. n \in Int
    BY <1>2, VideoAssumption
  <1>5. Cardinality(s) = IF n > 0 THEN n ELSE 0
    BY <1>1, <1>4, MaxOfZero
  <1>6. s # {} => Cardinality(s) # 0
    BY <1>2, FS_EmptySet
  <1> QED
    BY <1>1, <1>2, <1>3, <1>5, <1>6, VideoAssumption

LEMMA VideoInitInv == VideoInit => VideoInv
  <1> SUFFICES ASSUME VideoInit PROVE VideoInv
    OBVIOUS
  <1>1. VideoShape
    BY DEF VideoInit, VideoShape, RouteRecord, NoRoute, CallShape, NoCall
  <1>2. RoutesTrue /\ CreatedOnce /\ FixedTrue /\ RoutesKept
    BY DEF VideoInit, RoutesTrue, CreatedOnce, Creating, FixedTrue, RoutesKept, Alive, NoCall, Tasks
  <1>3. Known(routes) = {}
    BY DEF VideoInit, Known
  <1>4. RoutesFew
    BY <1>3, FS_EmptySet, VideoAssumption DEF RoutesFew
  <1> QED
    BY <1>1, <1>2, <1>4 DEF VideoInv

\* A route is remembered: the youngest others stay.  One that made room for the number's sake
\* left as many as are allowed behind it, all of them younger, and the new one is the youngest.
LEMMA RememberKeeps ==
    ASSUME VideoInv, NEW u \in Tasks, maker[u] # "nobody", born[u].at = -1,
           Remember(u, maker[u]), today' = today, maker' = maker
    PROVE  /\ routes' \in [Tasks -> RouteRecord] /\ born' \in [Tasks -> [at : Int, deleted : BOOLEAN]]
           /\ \A t \in Tasks : t # u => born'[t] = born[t]
           /\ RoutesTrue' /\ RoutesKept' /\ RoutesFew'
  <1> USE VideoAssumption
  <1>0. VideoShape /\ RoutesTrue /\ RoutesKept
    BY DEF VideoInv
  <1>1. PICK s \in Overflow(routes) :
          routes' = [t \in Tasks |-> IF t = u THEN [at |-> today, client |-> maker[u]]
                                     ELSE IF t \in Young(routes) \ s THEN routes[t] ELSE NoRoute]
    BY DEF Remember
  <1>2. /\ born' = [born EXCEPT ![u] = [at |-> today, deleted |-> FALSE]]
        /\ \A t \in Tasks : t # u => born'[t] = born[t]
        /\ born'[u] = [at |-> today, deleted |-> FALSE]
        /\ born' \in [Tasks -> [at : Int, deleted : BOOLEAN]]
    BY <1>0 DEF Remember, VideoShape
  <1> DEFINE K == Young(routes) \ s
  <1>3. /\ K \in SUBSET Tasks /\ IsFiniteSet(K) /\ Cardinality(K) \in Nat
        /\ Cardinality(K) <= MaxRoutes
        /\ s # {} => Cardinality(K) = MaxRoutes
    BY PruneLeaves, TasksFinite DEF Young, Known
  <1>4. routes[u] = NoRoute /\ u \notin K
    <2>1. routes[u] = NoRoute
      BY <1>0, RouteIs
    <2> QED
      BY <2>1 DEF Young, Known
  <1>5. routes' \in [Tasks -> RouteRecord]
    BY <1>0, <1>1 DEF VideoShape, RouteRecord, NoRoute
  <1>6. RoutesTrue'
    <2> SUFFICES ASSUME NEW t \in Tasks
                 PROVE  /\ born'[t].at <= today /\ (maker[t] = "nobody" => born'[t].at = -1)
                        /\ routes'[t] # NoRoute =>
                              /\ routes'[t] = [at |-> born'[t].at, client |-> maker[t]]
                              /\ born'[t].at >= 0 /\ maker[t] # "nobody"
      BY DEF RoutesTrue
    <2>1. CASE t = u
      BY <1>0, <1>1, <1>2, <2>1 DEF VideoShape
    <2>2. CASE t # u
      BY <1>0, <1>1, <1>2, <2>2 DEF RoutesTrue
    <2> QED
      BY <2>1, <2>2
  <1>7. RoutesFew'
    <2>1. Known(routes') \in SUBSET (K \cup {u})
      BY <1>1 DEF Known
    <2>2. IsFiniteSet(K \cup {u}) /\ Cardinality(K \cup {u}) = Cardinality(K) + 1
      BY <1>3, <1>4, FS_AddElement
    <2>3. Cardinality(Known(routes')) <= Cardinality(K \cup {u})
      BY <2>1, <2>2, FS_Subset
    <2>4. Cardinality(Known(routes')) <= MaxRoutes + 1
      <3>1. Known(routes') \in SUBSET Tasks
        BY DEF Known
      <3>2. Cardinality(Known(routes')) \in Nat
        BY <3>1, TasksFinite
      <3> HIDE DEF K
      <3> QED
        BY <1>3, <2>2, <2>3, <3>2
    <2> QED
      BY <2>4 DEF RoutesFew
  <1>8. RoutesKept'
    <2> SUFFICES ASSUME NEW t \in Tasks, Alive(t)', routes'[t] = NoRoute
                 PROVE  Cardinality(Younger(t)') > MaxRoutes
      <3>1. \A t \in Tasks : Younger(t)' \in SUBSET Tasks
        BY DEF Younger
      <3> QED
        BY <3>1, TasksFinite DEF RoutesKept
    <2>1. t # u
      BY <1>0, <1>1 DEF VideoShape, NoRoute
    <2>2. Alive(t)
      BY <1>2, <2>1 DEF Alive
    <2>3. /\ Younger(t) \cup {u} \in SUBSET (Younger(t)')
          /\ Younger(t)' \in SUBSET Tasks /\ Younger(t) \in SUBSET Tasks
      BY <1>0, <1>2, <2>1 DEF Younger, RoutesTrue, VideoShape
    <2>4. /\ IsFiniteSet(Younger(t)') /\ Cardinality(Younger(t)') \in Nat
          /\ IsFiniteSet(Younger(t)) /\ Cardinality(Younger(t)) \in Nat
      BY <2>3, TasksFinite
    <2>5. CASE routes[t] = NoRoute
      <3>1. Cardinality(Younger(t)) > MaxRoutes
        BY <1>0, <2>2, <2>4, <2>5 DEF RoutesKept
      <3>2. Younger(t) \in SUBSET (Younger(t)')
        BY <2>3
      <3>3. Cardinality(Younger(t)) <= Cardinality(Younger(t)')
        BY <2>4, <3>2, FS_Subset
      <3> QED
        BY <2>4, <3>1, <3>3
    <2>6. CASE routes[t] # NoRoute
      <3>1. t \in Young(routes) /\ routes[t].at = born[t].at
        <4>1. routes[t].at = born[t].at
          BY <1>0, <2>6, RouteIs
        <4> QED
          BY <2>2, <2>6, <4>1 DEF Young, Known, Alive
      <3>2. t \in s
        BY <1>1, <2>1, <2>6, <3>1
      <3>3. Cardinality(K) = MaxRoutes
        <4> HIDE DEF K
        <4> QED
          BY <1>3, <3>2
      <3>4. K \in SUBSET Younger(t)
        <4>1. \A v \in K : routes[v].at >= routes[t].at /\ routes[v] # NoRoute /\ v \in Tasks
          BY <1>0, <3>2 DEF Overflow, Young, Known, VideoShape, RouteRecord
        <4>2. \A v \in K : routes[v].at = born[v].at
          BY <1>0, <4>1, RouteIs
        <4> QED
          BY <3>1, <3>2, <4>1, <4>2 DEF Younger
      <3>5. K \cup {u} \in SUBSET (Younger(t)')
        BY <2>3, <3>4
      <3>6. Cardinality(K \cup {u}) = Cardinality(K) + 1
        BY <1>3, <1>4, FS_AddElement
      <3>7. Cardinality(K \cup {u}) <= Cardinality(Younger(t)')
        BY <2>4, <3>5, FS_Subset
      <3> QED
        BY <2>4, <3>3, <3>6, <3>7
    <2> QED
      BY <2>5, <2>6
  <1> QED
    BY <1>2, <1>5, <1>6, <1>7, <1>8

\* A call that has created nothing, and knows the maker of its task if it goes by a route.
Plain(k) ==
    /\ CallShape(k) /\ (k.ph # "create" \/ k.task = 0)
    /\ k.fixed => k.task \in Tasks /\ maker[k.task] # "nobody" /\ k.client = maker[k.task]

\* A call moves on without a task that it created, whatever is remembered of its own.
LEMMA CallMoves ==
    ASSUME VideoInv, NEW c \in Calls, NEW k, Plain(k), calls' = [calls EXCEPT ![c] = k],
           maker' = maker,
           \A t \in Tasks : born'[t].at = born[t].at \/ \A d \in Calls : Creating(d, t) => d = c
    PROVE  /\ DOMAIN calls' = Calls /\ \A d \in Calls : CallShape(calls'[d])
           /\ CreatedOnce' /\ FixedTrue'
  <1>0. VideoShape /\ CreatedOnce /\ FixedTrue
    BY DEF VideoInv
  <1>1. DOMAIN calls' = Calls /\ calls'[c] = k /\ \A d \in Calls : d # c => calls'[d] = calls[d]
    BY <1>0 DEF VideoShape
  <1>2. \A d \in Calls : CallShape(calls'[d])
    BY <1>0, <1>1 DEF VideoShape, Plain
  <1>3. \A d \in Calls, t \in Tasks : Creating(d, t)' => d # c /\ Creating(d, t)
    BY <1>1, VideoAssumption DEF Creating, Tasks, Plain
  <1>4. CreatedOnce'
    BY <1>0, <1>1, <1>3 DEF CreatedOnce
  <1>5. FixedTrue'
    BY <1>0, <1>1 DEF FixedTrue, Plain
  <1> QED
    BY <1>1, <1>2, <1>4, <1>5

LEMMA NoCallPlain == Plain(NoCall)
  BY DEF Plain, CallShape, NoCall

\* What is remembered stays as it is.
LEMMA RoutesStay ==
    ASSUME VideoInv, UNCHANGED <<routes, maker, born, today>>
    PROVE  RoutesTrue' /\ RoutesKept' /\ RoutesFew'
  BY DEF VideoInv, RoutesTrue, RoutesKept, RoutesFew, Alive, Younger, Known

LEMMA CallBegins ==
    ASSUME VideoInv, NEW c \in Calls,
           \/ \E who \in Clients : CreateBegins(c, who)
           \/ \E t \in Tasks, who \in Clients : QueryByRoute(c, t, who)
           \/ \E t \in Tasks : QueryByModel(c, t)
           \/ CallAbandoned(c)
    PROVE  VideoInv'
  <1>0. VideoShape /\ RoutesTrue
    BY DEF VideoInv
  <1>1. UNCHANGED <<routes, maker, born, today>>
    BY DEF CreateBegins, QueryByRoute, QueryByModel, CallAbandoned
  <1>2. ASSUME NEW k, Plain(k), calls' = [calls EXCEPT ![c] = k] PROVE VideoInv'
    <2>1. /\ DOMAIN calls' = Calls /\ \A d \in Calls : CallShape(calls'[d])
          /\ CreatedOnce' /\ FixedTrue'
      BY <1>1, <1>2, CallMoves
    <2>2. VideoShape'
      BY <1>0, <1>1, <2>1 DEF VideoShape
    <2> QED
      BY <1>1, <2>1, <2>2, RoutesStay DEF VideoInv
  <1>3. ASSUME NEW who \in Clients, CreateBegins(c, who) PROVE VideoInv'
    <2> DEFINE k == [NoCall EXCEPT !.ph = "create", !.client = who]
    <2>1. Plain(k)
      BY DEF Plain, CallShape, NoCall
    <2> QED
      BY <1>2, <1>3, <2>1 DEF CreateBegins
  <1>4. ASSUME NEW t \in Tasks, NEW who \in Clients, QueryByRoute(c, t, who) PROVE VideoInv'
    <2> DEFINE k == [ph |-> "query", client |-> who, task |-> t, fixed |-> TRUE]
    <2>1. maker[t] = who /\ maker[t] # "nobody"
      BY <1>0, <1>4, RouteIs, VideoAssumption DEF QueryByRoute
    <2>2. Plain(k)
      BY <2>1 DEF Plain, CallShape
    <2> QED
      BY <1>2, <1>4, <2>2 DEF QueryByRoute
  <1>5. ASSUME NEW t \in Tasks, QueryByModel(c, t) PROVE VideoInv'
    <2> DEFINE k == [NoCall EXCEPT !.ph = "query", !.task = t]
    <2>1. Plain(k)
      BY DEF Plain, CallShape, NoCall
    <2> QED
      BY <1>2, <1>5, <2>1 DEF QueryByModel
  <1>6. CASE CallAbandoned(c)
    BY <1>2, <1>6, NoCallPlain DEF CallAbandoned
  <1> QED
    BY <1>3, <1>4, <1>5, <1>6

LEMMA CreatedKeeps ==
    ASSUME VideoInv, NEW c \in Calls, NEW t \in Tasks, ProviderCreates(c, t) PROVE VideoInv'
  <1>0. VideoShape /\ RoutesTrue /\ CreatedOnce /\ FixedTrue
    BY DEF VideoInv
  <1>1. /\ calls[c].ph = "create" /\ maker[t] = "nobody" /\ UNCHANGED <<routes, born, today>>
        /\ CallShape(calls[c]) /\ calls[c].client \in Clients
    BY <1>0 DEF ProviderCreates, VideoShape, CallShape
  <1>2. /\ maker' \in [Tasks -> Clients \cup {"nobody"}] /\ maker'[t] = calls[c].client
        /\ \A u \in Tasks : u # t => maker'[u] = maker[u]
    BY <1>0, <1>1 DEF ProviderCreates, VideoShape
  <1>3. /\ DOMAIN calls' = Calls /\ calls'[c] = [calls[c] EXCEPT !.task = t]
        /\ \A d \in Calls : d # c => calls'[d] = calls[d]
    BY <1>0 DEF ProviderCreates, VideoShape
  <1>4. CallShape(calls'[c]) /\ calls'[c].task = t /\ calls'[c].client = calls[c].client /\ ~ calls'[c].fixed
    BY <1>1, <1>3 DEF CallShape
  <1>5. VideoShape'
    BY <1>0, <1>1, <1>2, <1>3, <1>4 DEF VideoShape
  <1>6. routes[t] = NoRoute /\ born[t].at = -1
    BY <1>0, <1>1 DEF RoutesTrue
  <1>7. RoutesTrue'
    BY <1>0, <1>1, <1>2, <1>6, VideoAssumption DEF RoutesTrue
  <1>8. CreatedOnce'
    <2>1. \A d \in Calls, v \in Tasks : d # c => (Creating(d, v)' <=> Creating(d, v))
      BY <1>3 DEF Creating
    <2>2. \A v \in Tasks : Creating(c, v)' => v = t
      BY <1>4 DEF Creating
    <2>3. \A d \in Calls : ~ Creating(d, t)
      BY <1>0, <1>1 DEF CreatedOnce
    <2>4. maker'[t] = calls'[c].client /\ maker'[t] # "nobody" /\ born'[t].at = -1
      BY <1>1, <1>2, <1>4, <1>6, VideoAssumption
    <2>5. ASSUME NEW d \in Calls, NEW v \in Tasks, Creating(d, v)'
          PROVE  /\ maker'[v] = calls'[d].client /\ maker'[v] # "nobody" /\ born'[v].at = -1
                 /\ \A e \in Calls : Creating(e, v)' => e = d
      <3>1. CASE d = c
        BY <2>1, <2>2, <2>3, <2>4, <2>5, <3>1
      <3>2. CASE d # c
        <4>1. Creating(d, v) /\ v # t
          BY <2>1, <2>3, <2>5, <3>2
        <4>2. /\ maker[v] = calls[d].client /\ maker[v] # "nobody" /\ born[v].at = -1
              /\ \A e \in Calls : Creating(e, v) => e = d
          BY <1>0, <4>1 DEF CreatedOnce
        <4> QED
          BY <1>1, <1>2, <1>3, <2>1, <2>2, <3>2, <4>1, <4>2
      <3> QED
        BY <3>1, <3>2
    <2> QED
      BY <2>5 DEF CreatedOnce
  <1>9. FixedTrue'
    <2> SUFFICES ASSUME NEW d \in Calls, calls'[d].fixed
                 PROVE  /\ calls'[d].task \in Tasks /\ maker'[calls'[d].task] # "nobody"
                        /\ calls'[d].client = maker'[calls'[d].task]
      BY DEF FixedTrue
    <2>1. d # c /\ calls'[d] = calls[d]
      BY <1>3, <1>4
    <2>2. /\ calls[d].task \in Tasks /\ maker[calls[d].task] # "nobody"
          /\ calls[d].client = maker[calls[d].task]
      BY <1>0, <2>1 DEF FixedTrue
    <2>3. calls[d].task # t
      BY <1>1, <2>2
    <2> QED
      BY <1>2, <2>1, <2>2, <2>3
  <1>10. RoutesKept' /\ RoutesFew'
    BY <1>1 DEF VideoInv, RoutesKept, RoutesFew, Alive, Younger, Known
  <1> QED
    BY <1>5, <1>7, <1>8, <1>9, <1>10 DEF VideoInv

LEMMA AnsweredKeeps ==
    ASSUME VideoInv, NEW c \in Calls, CreateAnswered(c) PROVE VideoInv'
  <1>0. VideoShape /\ CreatedOnce
    BY DEF VideoInv
  <1> DEFINE u == calls[c].task
  <1>1. u \in Tasks /\ Creating(c, u) /\ CallShape(calls[c]) /\ ~ calls[c].fixed
    BY <1>0 DEF CreateAnswered, Creating, VideoShape, CallShape
  <1>2. /\ maker[u] # "nobody" /\ maker[u] = calls[c].client /\ born[u].at = -1
        /\ \A d \in Calls : Creating(d, u) => d = c
    BY <1>0, <1>1 DEF CreatedOnce
  <1>3. Remember(u, maker[u]) /\ maker' = maker /\ today' = today
    BY <1>2 DEF CreateAnswered
  <1>4. /\ routes' \in [Tasks -> RouteRecord] /\ born' \in [Tasks -> [at : Int, deleted : BOOLEAN]]
        /\ \A t \in Tasks : t # u => born'[t] = born[t]
        /\ RoutesTrue' /\ RoutesKept' /\ RoutesFew'
    BY <1>1, <1>2, <1>3, RememberKeeps
  <1>5. PICK k : Plain(k) /\ calls' = [calls EXCEPT ![c] = k]
    <2> DEFINE k == [calls[c] EXCEPT !.task = 0]
    <2>1. Plain(k)
      <3>1. /\ DOMAIN k = DOMAIN calls[c] /\ k.task = 0 /\ k.ph = calls[c].ph
            /\ k.client = calls[c].client /\ k.fixed = calls[c].fixed /\ calls[c].ph = "create"
        BY <1>1 DEF CallShape, Creating
      <3> QED
        BY <1>1, <3>1 DEF Plain, CallShape
    <2>2. calls' = [calls EXCEPT ![c] = NoCall] \/ calls' = [calls EXCEPT ![c] = k]
      BY DEF CreateAnswered
    <2> QED
      BY <2>1, <2>2, NoCallPlain
  <1>6. \A t \in Tasks : born'[t].at = born[t].at \/ \A d \in Calls : Creating(d, t) => d = c
    BY <1>2, <1>4
  <1>7. /\ DOMAIN calls' = Calls /\ \A d \in Calls : CallShape(calls'[d])
        /\ CreatedOnce' /\ FixedTrue'
    BY <1>3, <1>5, <1>6, CallMoves
  <1>8. VideoShape'
    BY <1>0, <1>3, <1>4, <1>7 DEF VideoShape
  <1> QED
    BY <1>4, <1>7, <1>8 DEF VideoInv

\* A route is forgotten: only that of a task that was deleted.
LEMMA QueriedKeeps ==
    ASSUME VideoInv, NEW c \in Calls, QueryAnswered(c) PROVE VideoInv'
  <1>0. VideoShape /\ RoutesTrue
    BY DEF VideoInv
  <1> DEFINE u == calls[c].task
  <1>1. u \in Tasks /\ calls' = [calls EXCEPT ![c] = NoCall] /\ maker' = maker /\ today' = today
    BY <1>0 DEF QueryAnswered, VideoShape, CallShape
  <1>2. CASE UNCHANGED <<routes, born>>
    <2>1. /\ DOMAIN calls' = Calls /\ \A d \in Calls : CallShape(calls'[d])
          /\ CreatedOnce' /\ FixedTrue'
      BY <1>1, <1>2, CallMoves, NoCallPlain
    <2>2. VideoShape'
      BY <1>0, <1>1, <1>2, <2>1 DEF VideoShape
    <2> QED
      BY <1>1, <1>2, <2>1, <2>2, RoutesStay DEF VideoInv
  <1>3. CASE /\ routes' = [routes EXCEPT ![u] = NoRoute]
             /\ born' = [born EXCEPT ![u].deleted = TRUE]
    <2>1. /\ routes' \in [Tasks -> RouteRecord] /\ routes'[u] = NoRoute
          /\ \A t \in Tasks : t # u => routes'[t] = routes[t] /\ born'[t] = born[t]
      BY <1>0, <1>1, <1>3 DEF VideoShape, RouteRecord, NoRoute
    <2>2. /\ born' \in [Tasks -> [at : Int, deleted : BOOLEAN]] /\ born'[u].deleted
          /\ born'[u].at = born[u].at
      BY <1>0, <1>1, <1>3 DEF VideoShape
    <2>3. \A t \in Tasks : born'[t].at = born[t].at
      BY <2>1, <2>2
    <2>4. /\ DOMAIN calls' = Calls /\ \A d \in Calls : CallShape(calls'[d])
          /\ CreatedOnce' /\ FixedTrue'
      BY <1>1, <2>3, CallMoves, NoCallPlain
    <2>5. VideoShape'
      BY <1>0, <1>1, <2>1, <2>2, <2>4 DEF VideoShape
    <2>6. RoutesTrue'
      BY <1>0, <1>1, <2>1, <2>3 DEF RoutesTrue
    <2>7. RoutesKept'
      <3>1. \A t \in Tasks : Alive(t)' => t # u /\ Alive(t)
        BY <1>1, <2>1, <2>2 DEF Alive
      <3>2. \A t \in Tasks : Younger(t)' = Younger(t)
        BY <2>3 DEF Younger
      <3> QED
        BY <2>1, <3>1, <3>2 DEF VideoInv, RoutesKept
    <2>8. RoutesFew'
      <3>1. Known(routes') \in SUBSET Known(routes) /\ Known(routes) \in SUBSET Tasks
        BY <2>1 DEF Known
      <3>2. /\ Cardinality(Known(routes')) <= Cardinality(Known(routes))
            /\ Cardinality(Known(routes')) \in Nat /\ Cardinality(Known(routes)) \in Nat
        BY <3>1, TasksFinite, FS_Subset
      <3> QED
        BY <3>2, VideoAssumption DEF VideoInv, RoutesFew
    <2> QED
      BY <2>4, <2>5, <2>6, <2>7, <2>8 DEF VideoInv
  <1> QED
    BY <1>2, <1>3 DEF QueryAnswered

LEMMA TickKeeps == ASSUME VideoInv, VideoTick PROVE VideoInv'
  <1>0. VideoShape /\ RoutesTrue
    BY DEF VideoInv
  <1>1. today' = today + 1 /\ UNCHANGED <<routes, calls, maker, born>> /\ today \in Nat
    BY <1>0 DEF VideoTick, VideoShape
  <1>2. VideoShape'
    BY <1>0, <1>1 DEF VideoShape
  <1>3. RoutesTrue'
    <2>1. \A t \in Tasks : born[t].at \in Int
      BY <1>0 DEF VideoShape
    <2> QED
      BY <1>0, <1>1, <2>1 DEF RoutesTrue
  <1>4. CreatedOnce' /\ FixedTrue'
    BY <1>1 DEF VideoInv, CreatedOnce, Creating, FixedTrue
  <1>5. RoutesKept'
    <2>1. \A t \in Tasks : born[t].at \in Int
      BY <1>0 DEF VideoShape
    <2>2. \A t \in Tasks : Alive(t)' => Alive(t)
      BY <1>1, <2>1, VideoAssumption DEF Alive
    <2> QED
      BY <1>1, <2>2 DEF VideoInv, RoutesKept, Younger
  <1>6. RoutesFew'
    BY <1>1 DEF VideoInv, RoutesFew, Known
  <1> QED
    BY <1>2, <1>3, <1>4, <1>5, <1>6 DEF VideoInv

\* With any tasks, clients and limits, and however the requests for a task overlap: a route
\* stays while it is among the youngest that are allowed and its task is not deleted, leads to
\* its task's maker, and takes nobody else there.
THEOREM RoutesAreOwned == VideoSpec => []RoutesOwned
  <1>1. VideoInv /\ [VideoNext]_videoVars => VideoInv'
    <2>1. VideoInv /\ VideoNext => VideoInv'
      BY TickKeeps, CallBegins, CreatedKeeps, AnsweredKeeps, QueriedKeeps DEF VideoNext
    <2>2. VideoInv /\ UNCHANGED videoVars => VideoInv'
      BY DEF VideoInv, VideoShape, RoutesTrue, CreatedOnce, Creating, FixedTrue, RoutesKept, Alive,
             Younger, RoutesFew, Known, videoVars
    <2> QED
      BY <2>1, <2>2
  <1>2. VideoInv => RoutesOwned
    BY DEF VideoInv, RoutesFew, RoutesKept, RoutesTrue, FixedTrue, Alive, RoutesOwned
  <1> QED
    BY <1>1, <1>2, VideoInitInv, PTL DEF VideoSpec

-----------------------------------------------------------------------------
(* The snapshot of the configuration *)

Files == Revisions \cup {Absent}

SnapshotTypeOK ==
    /\ disk \in [temporary : Files, content : Files, stamp : Nat]
    /\ watcher \in [pc : {"stat", "read", "apply"}, seen : Nat, bytes : Files, stamp : Nat,
                    current : Files]

\* What the watcher has seen is no newer than the file, and the bytes read since are those of
\* the file if the file still has the stamp seen: a rename in between gives it another one.
ReadIsOfStamp ==
    /\ watcher.seen <= disk.stamp /\ watcher.stamp <= disk.stamp
    /\ watcher.pc = "apply" /\ watcher.seen = disk.stamp => watcher.bytes = disk.content

SnapshotInv == SnapshotTypeOK /\ ReadIsOfStamp /\ SnapshotTrue

LEMMA SnapshotInvInit == SnapshotInit => SnapshotInv
  BY DEF SnapshotInit, SnapshotInv, SnapshotTypeOK, ReadIsOfStamp, SnapshotTrue, Files

LEMMA SnapshotTypeStep == SnapshotTypeOK /\ [SnapshotNext]_snapshotVars => SnapshotTypeOK'
  <1> SUFFICES ASSUME SnapshotTypeOK, [SnapshotNext]_snapshotVars PROVE SnapshotTypeOK'
    OBVIOUS
  <1> USE DEF SnapshotTypeOK, Files
  <1>1. CASE WriteTemporary
    BY <1>1 DEF WriteTemporary
  <1>2. CASE Replace
    <2>1. disk.temporary \in Files /\ disk.stamp + 1 \in Nat
      OBVIOUS
    <2>2. disk' \in [temporary : Files, content : Files, stamp : Nat]
      BY <1>2, <2>1 DEF Replace
    <2> QED
      BY <1>2, <2>2 DEF Replace
  <1>3. CASE StatFile
    BY <1>3 DEF StatFile
  <1>4. CASE ReadFile
    BY <1>4 DEF ReadFile
  <1>5. CASE ApplyBytes
    BY <1>5 DEF ApplyBytes, StampOf
  <1>6. CASE UNCHANGED snapshotVars
    BY <1>6 DEF snapshotVars
  <1> QED
    BY <1>1, <1>2, <1>3, <1>4, <1>5, <1>6 DEF SnapshotNext

\* The steps of Python and of the watcher, in any order.
LEMMA SnapshotInvStep == SnapshotInv /\ [SnapshotNext]_snapshotVars => SnapshotInv'
  <1> SUFFICES ASSUME SnapshotInv, [SnapshotNext]_snapshotVars
               PROVE  ReadIsOfStamp' /\ SnapshotTrue'
    BY SnapshotTypeStep DEF SnapshotInv
  <1> USE DEF ReadIsOfStamp, SnapshotTrue
  <1>0. SnapshotTypeOK /\ ReadIsOfStamp /\ SnapshotTrue
    BY DEF SnapshotInv
  <1>1. CASE WriteTemporary
    <2>1. disk'.stamp = disk.stamp /\ disk'.content = disk.content /\ watcher' = watcher
      BY <1>0, <1>1 DEF WriteTemporary, SnapshotTypeOK
    <2> QED
      BY <1>0, <2>1
  <1>2. CASE Replace
    <2>1. watcher' = watcher
      BY <1>2 DEF Replace
    <2>2. \/ disk'.stamp = disk.stamp + 1
          \/ disk'.stamp = disk.stamp /\ disk'.content = disk.content
      BY <1>0, <1>2 DEF Replace, SnapshotTypeOK
    <2>3. disk.stamp \in Nat /\ watcher.seen \in Nat /\ watcher.stamp \in Nat
      BY <1>0 DEF SnapshotTypeOK
    <2> QED
      BY <1>0, <2>1, <2>2, <2>3
  <1>3. CASE StatFile
    <2>1. /\ watcher'.pc = "read" /\ watcher'.seen = disk.stamp
          /\ watcher'.stamp = watcher.stamp /\ watcher'.current = watcher.current
          /\ disk' = disk /\ disk.stamp \in Nat
      BY <1>0, <1>3 DEF StatFile, SnapshotTypeOK
    <2> QED
      BY <1>0, <2>1
  <1>4. CASE ReadFile
    <2>1. /\ watcher'.bytes = disk.content /\ watcher'.seen = watcher.seen
          /\ watcher'.stamp = watcher.stamp /\ watcher'.current = watcher.current
          /\ disk' = disk
      BY <1>0, <1>4 DEF ReadFile, SnapshotTypeOK
    <2> QED
      BY <1>0, <2>1
  <1>5. CASE ApplyBytes
    <2>1. watcher'.pc = "stat" /\ watcher'.seen = 0 /\ disk' = disk /\ disk.stamp \in Nat
      BY <1>0, <1>5 DEF ApplyBytes, SnapshotTypeOK
    <2>2. CASE watcher.bytes \in Invalid
      <3>1. watcher'.stamp = watcher.stamp /\ watcher'.current = watcher.current
        BY <1>0, <1>5, <2>2 DEF ApplyBytes, SnapshotTypeOK
      <3> QED
        BY <1>0, <2>1, <3>1
    <2>3. CASE watcher.bytes \notin Invalid
      <3>1. /\ watcher'.stamp = watcher.seen /\ watcher'.current = watcher.bytes
            /\ watcher.pc = "apply"
        BY <1>0, <1>5, <2>3 DEF ApplyBytes, StampOf, SnapshotTypeOK
      <3> QED
        BY <1>0, <2>1, <3>1
    <2> QED
      BY <2>2, <2>3
  <1>6. CASE UNCHANGED snapshotVars
    BY <1>0, <1>6 DEF snapshotVars
  <1> QED
    BY <1>1, <1>2, <1>3, <1>4, <1>5, <1>6 DEF SnapshotNext

\* The front never takes a configuration for current that the file no longer holds
\* (responses_native.rs, refresh), however often the file is replaced while it is read.
THEOREM SnapshotIsTrue == SnapshotSpec => []SnapshotTrue
  <1>1. SnapshotInit => SnapshotInv
    BY SnapshotInvInit
  <1>2. SnapshotInv /\ [SnapshotNext]_snapshotVars => SnapshotInv'
    BY SnapshotInvStep
  <1>3. SnapshotInv => SnapshotTrue
    BY DEF SnapshotInv
  <1> QED
    BY <1>1, <1>2, <1>3, PTL DEF SnapshotSpec

-----------------------------------------------------------------------------
(* Request bodies *)

InboxMessage == [body : Seq(ByteClass), more : BOOLEAN, gone : BOOLEAN]

IntakeShape ==
    /\ req \in [encoding : {"identity", "zstd", "empty"}, json : BOOLEAN, releasable : BOOLEAN]
    /\ inbox \in Seq(InboxMessage)
    /\ whole \in BOOLEAN /\ lost \in BOOLEAN /\ released \in BOOLEAN
    /\ phase \in {"start", "reading", "decoding", "app", "over"}
    /\ {"packed", "window", "target"} = DOMAIN charge

\* Once a frame says that it is the last, only the client's leaving can follow.
Sealed ==
    /\ client.state = "sending" => \A i \in 1 .. Len(inbox) : inbox[i].more
    /\ \A i, j \in 1 .. Len(inbox) : i < j /\ ~ inbox[i].more => inbox[j].gone
    /\ \A i \in 1 .. Len(inbox) : inbox[i].gone \/ req.encoding = "empty" => inbox[i].body = <<>>

\* Nothing is left of the body.
Ended == client.state # "sending" /\ \A i \in 1 .. Len(inbox) : inbox[i].gone

\* What is paid for, phase by phase.
Accounts ==
    /\ charge.packed = packed
    /\ charge.window = (IF phase = "decoding" THEN Window ELSE 0)
    /\ phase \in {"start", "reading"} =>
          est = Fresh /\ total = 0 /\ charge.target = 0
    /\ phase \in {"decoding", "app"} =>
          charge.target = IF released THEN 0 ELSE Weight(est, total)

\* The body is released once, with the start of the response, and only when it is complete.
ReleasedOnce ==
    /\ starts \in {0, 1}
    /\ released => whole /\ starts = 1
    /\ phase \in {"start", "reading", "decoding"} => starts = 0 /\ ~ released

Watched ==
    /\ ~ lost
    /\ monitor = "running" => req.encoding = "empty" \/ Ended
    /\ phase = "decoding" => Ended
    /\ ~ whole /\ phase # "over" => monitor = "none"

IntakeInv == IntakeShape /\ Sealed /\ Accounts /\ ReleasedOnce /\ Watched

LEMMA IntakeInitial == IntakeInit => IntakeInv
  <1> SUFFICES ASSUME IntakeInit PROVE IntakeInv
    OBVIOUS
  <1>1. IntakeShape
    <2>1. inbox \in Seq(InboxMessage)
      BY DEF IntakeInit
    <2>2. /\ req \in [encoding : {"identity", "zstd", "empty"}, json : BOOLEAN, releasable : BOOLEAN]
          /\ phase = "start" /\ whole = FALSE /\ lost = FALSE /\ released = FALSE
          /\ charge = NoCharge
      BY DEF IntakeInit
    <2>3. {"packed", "window", "target"} = DOMAIN NoCharge
      BY DEF NoCharge
    <2> QED
      BY <2>1, <2>2, <2>3 DEF IntakeShape
  <1>2. Sealed
    BY DEF IntakeInit, Sealed
  <1>3. Accounts
    BY DEF IntakeInit, Accounts, NoCharge, JsonInit
  <1>4. ReleasedOnce /\ Watched
    BY DEF IntakeInit, ReleasedOnce, Watched
  <1> QED
    BY <1>1, <1>2, <1>3, <1>4 DEF IntakeInv

\* An estimator that has seen nothing charges nothing.
LEMMA NothingWeighsNothing == Weight(Fresh, 0) = 0
  BY JsonAssumption, IntakeAssumption DEF Weight, Estimated, Fresh

\* A message is appended: a frame while the client sends, or its leaving.
LEMMA InboxGrows ==
    ASSUME IntakeShape, Sealed, NEW m \in InboxMessage, inbox' = Append(inbox, m), req' = req,
           m.gone => m.body = <<>> /\ client'.state # "sending",
           ~ m.gone => client.state = "sending",
           client'.state = "sending" => client.state = "sending" /\ m.more,
           req.encoding = "empty" => m.body = <<>>
    PROVE  /\ inbox' \in Seq(InboxMessage) /\ Sealed'
           /\ Ended => m.gone /\ Ended'
  <1> DEFINE q == inbox
             r == Append(inbox, m)
             l == Len(inbox)
  <1>1. /\ r \in Seq(InboxMessage) /\ l \in Nat /\ Len(r) = l + 1
        /\ \A i \in 1 .. l : r[i] = q[i]
        /\ r[l + 1] = m
    BY DEF IntakeShape
  <1>2. /\ client.state = "sending" => \A i \in 1 .. l : q[i].more
        /\ \A i, j \in 1 .. l : i < j /\ ~ q[i].more => q[j].gone
        /\ \A i \in 1 .. l : q[i].gone \/ req.encoding = "empty" => q[i].body = <<>>
    BY DEF Sealed
  <1>e. Ended <=> client.state # "sending" /\ \A i \in 1 .. l : q[i].gone
    BY DEF Ended
  <1>r. inbox' = r
    OBVIOUS
  <1> HIDE DEF q, r, l
  <1>3. \A i \in 1 .. l + 1 : i # l + 1 => i \in 1 .. l
    BY <1>1
  <1>4. ASSUME client'.state = "sending", NEW i \in 1 .. l + 1 PROVE r[i].more
    BY <1>1, <1>2, <1>3, <1>4
  <1>5. ASSUME NEW i \in 1 .. l + 1, NEW j \in 1 .. l + 1, i < j, ~ r[i].more PROVE r[j].gone
    <2>1. i \in 1 .. l
      BY <1>1, <1>5
    <2>2. CASE j = l + 1
      <3>1. client.state # "sending"
        BY <1>1, <1>2, <1>5, <2>1
      <3> QED
        BY <1>1, <2>2, <3>1
    <2>3. CASE j # l + 1
      BY <1>1, <1>2, <1>3, <1>5, <2>1, <2>3
    <2> QED
      BY <2>2, <2>3
  <1>6. ASSUME NEW i \in 1 .. l + 1, r[i].gone \/ req.encoding = "empty" PROVE r[i].body = <<>>
    BY <1>1, <1>2, <1>3, <1>6
  <1>7. Sealed'
    BY <1>1, <1>r, <1>4, <1>5, <1>6 DEF Sealed
  <1>8. ASSUME Ended PROVE m.gone /\ Ended'
    <2>1. m.gone /\ client'.state # "sending"
      BY <1>8, <1>e
    <2>2. \A i \in 1 .. l + 1 : r[i].gone
      BY <1>1, <1>3, <1>8, <1>e, <2>1
    <2> QED
      BY <1>1, <1>r, <2>1, <2>2 DEF Ended
  <1> QED
    BY <1>1, <1>r, <1>7, <1>8

\* The first message is taken.
LEMMA InboxShrinks ==
    ASSUME IntakeShape, Sealed, inbox # <<>>, inbox' = Tail(inbox), UNCHANGED <<req, client>>
    PROVE  /\ inbox' \in Seq(InboxMessage) /\ Sealed'
           /\ Head(inbox) \in InboxMessage
           /\ ~ Head(inbox).more => Ended'
           /\ Ended => Ended' /\ Head(inbox).gone
           /\ Head(inbox).gone \/ req.encoding = "empty" => Head(inbox).body = <<>>
  <1> DEFINE q == inbox
             r == Tail(inbox)
             l == Len(inbox)
  <1>1. /\ r \in Seq(InboxMessage) /\ l \in Nat \ {0} /\ Len(r) = l - 1
        /\ \A i \in 1 .. l - 1 : r[i] = q[i + 1]
        /\ Head(inbox) = q[1] /\ q[1] \in InboxMessage
    BY DEF IntakeShape
  <1>2. /\ client.state = "sending" => \A i \in 1 .. l : q[i].more
        /\ \A i, j \in 1 .. l : i < j /\ ~ q[i].more => q[j].gone
        /\ \A i \in 1 .. l : q[i].gone \/ req.encoding = "empty" => q[i].body = <<>>
    BY DEF Sealed
  <1>e. Ended <=> client.state # "sending" /\ \A i \in 1 .. l : q[i].gone
    BY DEF Ended
  <1>r. inbox' = r
    OBVIOUS
  <1> HIDE DEF q, r, l
  <1>3. 1 \in 1 .. l /\ \A i \in 1 .. l - 1 : i + 1 \in 1 .. l /\ 1 < i + 1
    BY <1>1
  <1>4. Sealed'
    <2>1. client.state = "sending" => \A i \in 1 .. l - 1 : r[i].more
      BY <1>1, <1>2, <1>3
    <2>2. ASSUME NEW i \in 1 .. l - 1, NEW j \in 1 .. l - 1, i < j, ~ r[i].more PROVE r[j].gone
      <3>1. i + 1 < j + 1
        BY <1>1, <2>2
      <3> QED
        BY <1>1, <1>2, <1>3, <2>2, <3>1
    <2>3. \A i \in 1 .. l - 1 : r[i].gone \/ req.encoding = "empty" => r[i].body = <<>>
      BY <1>1, <1>2, <1>3
    <2> QED
      BY <1>1, <1>r, <2>1, <2>2, <2>3 DEF Sealed
  <1>5. ASSUME ~ q[1].more PROVE Ended'
    <2>1. client.state # "sending" /\ \A i \in 1 .. l - 1 : r[i].gone
      BY <1>1, <1>2, <1>3, <1>5
    <2> QED
      BY <1>1, <1>r, <2>1 DEF Ended
  <1>6. ASSUME Ended PROVE Ended' /\ q[1].gone
    <2>1. client.state # "sending" /\ (\A i \in 1 .. l - 1 : r[i].gone) /\ q[1].gone
      BY <1>1, <1>3, <1>6, <1>e
    <2> QED
      BY <1>1, <1>r, <2>1 DEF Ended
  <1> QED
    BY <1>1, <1>2, <1>3, <1>r, <1>4, <1>5, <1>6

\* The end of a request: nothing is held and nothing charged.
LEMMA OverKeeps ==
    ASSUME IntakeInv, Over, UNCHANGED <<req, whole, lost, released>>, starts' \in {starts, 1},
           starts = 1 => starts' = 1, inbox' \in Seq(InboxMessage), Sealed'
    PROVE  IntakeInv'
  <1>1. IntakeShape'
    BY DEF IntakeInv, IntakeShape, Over, NoCharge
  <1>2. Accounts'
    BY DEF Accounts, Over, NoCharge
  <1>3. ReleasedOnce' /\ Watched'
    BY DEF IntakeInv, IntakeShape, ReleasedOnce, Watched, Over
  <1> QED
    BY <1>1, <1>2, <1>3 DEF IntakeInv

\* Nothing changes of the messages.
LEMMA InboxStays ==
    ASSUME IntakeInv, UNCHANGED <<req, client, inbox>>
    PROVE  /\ inbox' \in Seq(InboxMessage) /\ Sealed' /\ Ended' = Ended
  BY DEF IntakeInv, IntakeShape, Sealed, Ended

LEMMA ClientKeeps ==
    ASSUME IntakeInv, (\E frame \in Frames, last \in BOOLEAN : Send(frame, last)) \/ Leaves
    PROVE  IntakeInv'
  <1>1. UNCHANGED <<req, phase, whole, accounts, monitor, noticed, lost, starts>>
    BY DEF Send, Leaves
  <1>2. inbox' \in Seq(InboxMessage) /\ Sealed' /\ (Ended => Ended')
    <2>1. ASSUME NEW frame \in Frames, NEW last \in BOOLEAN, Send(frame, last)
          PROVE  inbox' \in Seq(InboxMessage) /\ Sealed' /\ (Ended => Ended')
      <3> DEFINE m == [body |-> frame, more |-> ~ last, gone |-> FALSE]
      <3>1. /\ inbox' = Append(inbox, m) /\ client.state = "sending"
            /\ client'.state = "sending" => ~ last
            /\ req.encoding = "empty" => frame = <<>>
        BY <2>1 DEF Send
      <3>2. m \in InboxMessage /\ m.body = frame /\ ~ m.gone /\ m.more = (~ last)
        BY IntakeAssumption DEF InboxMessage
      <3> HIDE DEF m
      <3> QED
        BY <1>1, <3>1, <3>2, InboxGrows DEF IntakeInv
    <2>2. CASE Leaves
      <3> DEFINE m == [body |-> <<>>, more |-> FALSE, gone |-> TRUE]
      <3>1. inbox' = Append(inbox, m) /\ client'.state # "sending"
        BY <2>2 DEF Leaves
      <3>2. m \in InboxMessage /\ m.body = <<>> /\ m.gone
        BY DEF InboxMessage
      <3> HIDE DEF m
      <3> QED
        BY <1>1, <3>1, <3>2, InboxGrows DEF IntakeInv
    <2> QED
      BY <2>1, <2>2
  <1>3. IntakeShape'
    BY <1>1, <1>2 DEF IntakeInv, IntakeShape, accounts
  <1>4. Accounts'
    BY <1>1 DEF IntakeInv, Accounts, accounts, Weight
  <1>5. ReleasedOnce' /\ Watched'
    BY <1>1, <1>2 DEF IntakeInv, ReleasedOnce, Watched, accounts
  <1> QED
    BY <1>2, <1>3, <1>4, <1>5 DEF IntakeInv

\* The steps that end the request where it stands.
LEMMA EndKeeps ==
    ASSUME IntakeInv, Refuse \/ ReadTimeout \/ ReadFails \/ AppEnds
    PROVE  IntakeInv'
  <1>1. Over /\ UNCHANGED <<req, client, inbox, whole, lost, released>>
    BY DEF Refuse, ReadTimeout, ReadFails, AppEnds, Reject
  <1>2. starts' \in {starts, 1} /\ (starts = 1 => starts' = 1)
    BY DEF Refuse, ReadTimeout, ReadFails, AppEnds, Reject
  <1> QED
    BY <1>1, <1>2, InboxStays, OverKeeps

LEMMA BeginKeeps ==
    ASSUME IntakeInv, Begin
    PROVE  IntakeInv'
  <1>1. /\ phase = "start" /\ phase' \in {"reading", "app"}
        /\ whole' = (req.encoding = "empty")
        /\ monitor' = IF req.encoding = "empty" THEN "running" ELSE "none"
        /\ UNCHANGED <<req, client, inbox, est, scanned, total, packed, charge, released,
                       noticed, lost, starts>>
    BY DEF Begin, accounts
  <1>2. inbox' \in Seq(InboxMessage) /\ Sealed' /\ Ended' = Ended
    BY <1>1, InboxStays
  <1>3. IntakeShape'
    BY <1>1, <1>2 DEF IntakeInv, IntakeShape
  <1>4. Accounts'
    <2>1. /\ charge.packed = packed /\ charge.window = 0
          /\ est = Fresh /\ total = 0 /\ charge.target = 0
      BY <1>1 DEF IntakeInv, Accounts
    <2>2. ~ released
      BY <1>1 DEF IntakeInv, ReleasedOnce
    <2>3. Weight(Fresh, 0)' = 0
      <3>1. Weight(Fresh, 0)' = Weight(Fresh, 0)
        BY <1>1 DEF Weight
      <3> QED
        BY <3>1, NothingWeighsNothing
    <2> QED
      BY <1>1, <2>1, <2>2, <2>3 DEF Accounts
  <1>5. ReleasedOnce' /\ Watched'
    BY <1>1, <1>2 DEF IntakeInv, ReleasedOnce, Watched
  <1> QED
    BY <1>2, <1>3, <1>4, <1>5 DEF IntakeInv

\* What a frame or a piece of the body does to what is charged.
LEMMA ChargedFits ==
    ASSUME IntakeInv, Charged, UNCHANGED <<req, released>>,
           phase \in {"decoding", "app"}, ~ released
    PROVE  Accounts' /\ {"packed", "window", "target"} = DOMAIN charge'
  <1> DEFINE w == Weight(est', total')
  <1>1. charge' = [charge EXCEPT !.target = w] /\ UNCHANGED <<phase, packed>>
    BY DEF Charged
  <1>2. /\ charge.packed = packed /\ charge.window = (IF phase = "decoding" THEN Window ELSE 0)
        /\ {"packed", "window", "target"} = DOMAIN charge
    BY DEF IntakeInv, IntakeShape, Accounts
  <1>3. Weight(est, total)' = w
    BY DEF Weight
  <1> HIDE DEF w
  <1>4. /\ charge'.packed = charge.packed /\ charge'.window = charge.window /\ charge'.target = w
        /\ DOMAIN charge' = DOMAIN charge
    BY <1>1, <1>2
  <1> QED
    BY <1>1, <1>2, <1>3, <1>4 DEF Accounts

\* A message is taken from the inbox while the body is read.
LEMMA ReadingTakes ==
    ASSUME IntakeInv, Reading, UNCHANGED <<req, client>>
    PROVE  /\ inbox' \in Seq(InboxMessage) /\ Sealed' /\ Head(inbox) \in InboxMessage
           /\ ~ Head(inbox).more => Ended'
           /\ ~ whole \/ phase = "reading"
  BY InboxShrinks DEF IntakeInv, Reading

LEMMA DisconnectKeeps ==
    ASSUME IntakeInv, ReadDisconnect
    PROVE  IntakeInv'
  <1>1. /\ Reading /\ Over
        /\ UNCHANGED <<req, client, whole, lost, starts, released>>
    BY DEF ReadDisconnect
  <1>2. inbox' \in Seq(InboxMessage) /\ Sealed'
    BY <1>1, ReadingTakes
  <1> QED
    BY <1>1, <1>2, OverKeeps

LEMMA IdentityKeeps ==
    ASSUME IntakeInv, IdentityFrame
    PROVE  IntakeInv'
  <1> DEFINE m == Head(inbox)
  <1>1. /\ Reading /\ phase = "app"
        /\ UNCHANGED <<req, client, noticed, lost, released>>
    BY DEF IdentityFrame
  <1>2. /\ inbox' \in Seq(InboxMessage) /\ Sealed' /\ m \in InboxMessage
        /\ ~ m.more => Ended'
        /\ ~ whole
    <2>1. phase # "reading"
      BY <1>1
    <2> QED
      BY <1>1, <2>1, ReadingTakes
  <1>3. /\ \/ Reject /\ UNCHANGED whole
           \/ Charged /\ BodyFrameTaken(m.more)
           \/ /\ BodyFrameTaken(m.more)
              /\ UNCHANGED <<phase, starts, est, scanned, total, packed, charge>>
    BY DEF IdentityFrame
  <1>4. ~ released /\ monitor = "none" /\ m.more \in BOOLEAN
    BY <1>1, <1>2 DEF IntakeInv, ReleasedOnce, Watched, InboxMessage
  <1> HIDE DEF m
  <1>5. CASE Reject /\ UNCHANGED whole
    <2>1. Over /\ starts' \in {starts, 1} /\ (starts = 1 => starts' = 1)
      BY <1>5 DEF Reject
    <2> QED
      BY <1>1, <1>2, <1>5, <2>1, OverKeeps
  \* The body is complete with its last frame, and watched from then on.
  <1>6. ASSUME BodyFrameTaken(m.more), UNCHANGED <<phase, starts>>,
               Accounts', {"packed", "window", "target"} = DOMAIN charge'
        PROVE  IntakeInv'
    <2>1. whole' = (~ m.more) /\ monitor' = IF m.more THEN monitor ELSE "running"
      BY <1>6 DEF BodyFrameTaken
    <2>2. IntakeShape'
      BY <1>1, <1>2, <1>4, <1>6, <2>1 DEF IntakeInv, IntakeShape
    <2>3. ReleasedOnce'
      BY <1>1, <1>4, <1>6 DEF IntakeInv, ReleasedOnce
    <2>4. Watched'
      <3>1. CASE m.more
        BY <1>1, <1>4, <1>6, <2>1, <3>1 DEF IntakeInv, Watched
      <3>2. CASE ~ m.more
        BY <1>1, <1>2, <1>6, <2>1, <3>2 DEF IntakeInv, Watched
      <3> QED
        BY <3>1, <3>2
    <2> QED
      BY <1>2, <1>6, <2>2, <2>3, <2>4 DEF IntakeInv
  <1>7. CASE Charged /\ BodyFrameTaken(m.more)
    <2>1. UNCHANGED <<phase, starts>>
      BY <1>7 DEF Charged
    <2>2. Accounts' /\ {"packed", "window", "target"} = DOMAIN charge'
      BY <1>1, <1>4, <1>7, ChargedFits
    <2> QED
      BY <1>6, <1>7, <2>1, <2>2
  <1>8. CASE /\ BodyFrameTaken(m.more)
             /\ UNCHANGED <<phase, starts, est, scanned, total, packed, charge>>
    <2>1. Accounts'
      BY <1>1, <1>8 DEF IntakeInv, Accounts, Weight
    <2>2. {"packed", "window", "target"} = DOMAIN charge'
      BY <1>8 DEF IntakeInv, IntakeShape
    <2> QED
      BY <1>6, <1>8, <2>1, <2>2
  <1> QED
    BY <1>3, <1>5, <1>7, <1>8

LEMMA WireKeeps ==
    ASSUME IntakeInv, WireFrame
    PROVE  IntakeInv'
  <1> DEFINE m == Head(inbox)
             size == packed + Len(m.body)
  <1>1. /\ Reading /\ phase = "reading"
        /\ UNCHANGED <<req, client, whole, est, scanned, total, noticed, lost, released>>
    BY DEF WireFrame
  <1>2. /\ inbox' \in Seq(InboxMessage) /\ Sealed' /\ m \in InboxMessage
        /\ ~ m.more => Ended'
    BY <1>1, ReadingTakes
  <1>3. \/ Reject
        \/ /\ packed' = size
           /\ charge' = [charge EXCEPT !.packed = size, !.window = IF m.more THEN 0 ELSE Window]
           /\ phase' = IF m.more THEN "reading" ELSE "decoding"
           /\ UNCHANGED <<monitor, starts>>
    BY DEF WireFrame
  <1> HIDE DEF m, size
  <1>4. CASE Reject
    <2>1. Over /\ starts' \in {starts, 1} /\ (starts = 1 => starts' = 1)
      BY <1>4 DEF Reject
    <2> QED
      BY <1>1, <1>2, <2>1, OverKeeps
  <1>5. CASE /\ packed' = size
             /\ charge' = [charge EXCEPT !.packed = size, !.window = IF m.more THEN 0 ELSE Window]
             /\ phase' = IF m.more THEN "reading" ELSE "decoding"
             /\ UNCHANGED <<monitor, starts>>
    <2>1. /\ DOMAIN charge = {"packed", "window", "target"}
          /\ est = Fresh /\ total = 0 /\ charge.target = 0 /\ ~ released /\ starts = 0
      BY <1>1 DEF IntakeInv, IntakeShape, Accounts, ReleasedOnce
    <2>2. /\ DOMAIN charge' = DOMAIN charge
          /\ charge'.packed = size /\ charge'.target = charge.target
          /\ charge'.window = IF m.more THEN 0 ELSE Window
      BY <1>5, <2>1
    <2>3. IntakeShape'
      BY <1>1, <1>2, <1>5, <2>1, <2>2 DEF IntakeInv, IntakeShape
    <2>4. Weight(est, total)' = 0
      <3>1. Weight(est, total)' = Weight(Fresh, 0)
        BY <1>1, <2>1 DEF Weight
      <3> QED
        BY <3>1, NothingWeighsNothing
    <2>5. Accounts'
      <3>1. CASE m.more
        BY <1>1, <1>5, <2>1, <2>2, <3>1 DEF Accounts
      <3>2. CASE ~ m.more
        BY <1>1, <1>5, <2>1, <2>2, <2>4, <3>2 DEF Accounts
      <3> QED
        BY <3>1, <3>2
    <2>6. ReleasedOnce'
      BY <1>1, <1>5, <2>1 DEF ReleasedOnce
    <2>7. Watched'
      <3>1. ~ lost /\ (monitor = "running" => req.encoding = "empty" \/ Ended)
            /\ (~ whole => monitor = "none")
        BY <1>1 DEF IntakeInv, Watched
      <3>2. Ended => Ended'
        BY <1>1, InboxShrinks DEF IntakeInv, Reading
      <3>3. CASE m.more
        BY <1>1, <1>5, <3>1, <3>2, <3>3 DEF Watched
      <3>4. CASE ~ m.more
        BY <1>1, <1>2, <1>5, <3>1, <3>2, <3>4 DEF Watched
      <3> QED
        BY <3>3, <3>4
    <2> QED
      BY <1>2, <2>3, <2>5, <2>6, <2>7 DEF IntakeInv
  <1> QED
    BY <1>3, <1>4, <1>5

LEMMA DecodeKeeps ==
    ASSUME IntakeInv, (\E piece \in Frames \ {<<>>} : Decode(piece)) \/ DecodeEnds
    PROVE  IntakeInv'
  <1>1. phase = "decoding" /\ UNCHANGED <<req, client, inbox, noticed, lost, released>>
    BY DEF Decode, DecodeEnds
  <1>2. inbox' \in Seq(InboxMessage) /\ Sealed' /\ Ended' = Ended
    BY <1>1, InboxStays
  <1>3. starts = 0 /\ ~ released /\ Ended
    BY <1>1 DEF IntakeInv, ReleasedOnce, Watched
  <1>4. ASSUME Reject, UNCHANGED whole PROVE IntakeInv'
    <2>1. Over /\ starts' \in {starts, 1} /\ (starts = 1 => starts' = 1)
      BY <1>4 DEF Reject
    <2> QED
      BY <1>1, <1>2, <1>4, <2>1, OverKeeps
  <1>5. ASSUME Charged, UNCHANGED <<monitor, whole>> PROVE IntakeInv'
    <2>1. UNCHANGED <<phase, starts, packed>>
      BY <1>5 DEF Charged
    <2>2. Accounts' /\ {"packed", "window", "target"} = DOMAIN charge'
      BY <1>1, <1>3, <1>5, ChargedFits
    <2>3. IntakeShape'
      BY <1>1, <1>2, <1>5, <2>1, <2>2 DEF IntakeInv, IntakeShape
    <2>4. ReleasedOnce' /\ Watched'
      BY <1>1, <1>2, <1>5, <2>1 DEF IntakeInv, ReleasedOnce, Watched
    <2> QED
      BY <1>2, <2>2, <2>3, <2>4 DEF IntakeInv
  <1>6. ASSUME DecodedCharge, packed' = 0, phase' = "app", whole' = TRUE, monitor' = "running",
               UNCHANGED <<starts, est, total>>
        PROVE  IntakeInv'
    <2>1. /\ DOMAIN charge = {"packed", "window", "target"}
          /\ charge.target = Weight(est, total)
      BY <1>1, <1>3 DEF IntakeInv, IntakeShape, Accounts
    <2>2. /\ DOMAIN charge' = DOMAIN charge /\ charge'.packed = 0 /\ charge'.window = 0
          /\ charge'.target = charge.target
      BY <1>6, <2>1 DEF DecodedCharge
    <2>3. Weight(est, total)' = Weight(est, total)
      BY <1>1, <1>6 DEF Weight
    <2>4. IntakeShape'
      BY <1>1, <1>2, <1>6, <2>1, <2>2 DEF IntakeInv, IntakeShape
    <2>5. Accounts'
      BY <1>1, <1>3, <1>6, <2>1, <2>2, <2>3 DEF Accounts
    <2>6. ReleasedOnce' /\ Watched'
      BY <1>1, <1>2, <1>3, <1>6 DEF IntakeInv, ReleasedOnce, Watched
    <2> QED
      BY <1>2, <2>4, <2>5, <2>6 DEF IntakeInv
  <1>7. CASE \E piece \in Frames \ {<<>>} : Decode(piece)
    BY <1>4, <1>5, <1>7 DEF Decode
  <1>8. CASE DecodeEnds
    BY <1>4, <1>6, <1>8 DEF DecodeEnds
  <1> QED
    BY <1>7, <1>8

\* The response starts, and a complete body may be released with it.
LEMMA StartKeeps ==
    ASSUME IntakeInv, AppStarts
    PROVE  IntakeInv'
  <1>1. /\ phase = "app" /\ starts = 0 /\ starts' = 1 /\ released' = MayRelease
        /\ charge' = IF MayRelease THEN [charge EXCEPT !.target = 0] ELSE charge
        /\ UNCHANGED <<req, client, inbox, phase, whole, est, total, packed, monitor, lost>>
    BY DEF AppStarts
  <1>2. inbox' \in Seq(InboxMessage) /\ Sealed' /\ Ended' = Ended
    BY <1>1, InboxStays
  <1>3. /\ DOMAIN charge = {"packed", "window", "target"} /\ ~ released
        /\ charge.packed = packed /\ charge.window = 0 /\ charge.target = Weight(est, total)
        /\ whole \in BOOLEAN /\ req.releasable \in BOOLEAN
    BY <1>1 DEF IntakeInv, IntakeShape, Accounts, ReleasedOnce
  <1>4. MayRelease \in BOOLEAN /\ (MayRelease => whole)
    BY <1>3 DEF MayRelease
  <1>5. /\ DOMAIN charge' = DOMAIN charge /\ charge'.packed = packed /\ charge'.window = 0
        /\ charge'.target = IF MayRelease THEN 0 ELSE Weight(est, total)
    BY <1>1, <1>3
  <1>6. Weight(est, total)' = Weight(est, total)
    BY <1>1 DEF Weight
  <1>7. IntakeShape'
    BY <1>1, <1>2, <1>3, <1>4, <1>5 DEF IntakeInv, IntakeShape
  <1>8. Accounts'
    BY <1>1, <1>4, <1>5, <1>6 DEF Accounts
  <1>9. ReleasedOnce' /\ Watched'
    BY <1>1, <1>2, <1>4 DEF IntakeInv, ReleasedOnce, Watched
  <1> QED
    BY <1>2, <1>7, <1>8, <1>9 DEF IntakeInv

\* The monitor takes what is left, and none of it is of the body.
LEMMA MonitorKeeps ==
    ASSUME IntakeInv, Monitor
    PROVE  IntakeInv'
  <1>1. /\ monitor = "running" /\ inbox # <<>> /\ inbox' = Tail(inbox)
        /\ lost' = (lost \/ Head(inbox).body # <<>>)
        /\ monitor' \in {"over", "running"}
        /\ UNCHANGED <<req, client, phase, whole, est, scanned, total, packed, charge, released, starts>>
    BY DEF Monitor, accounts
  <1>2. /\ inbox' \in Seq(InboxMessage) /\ Sealed'
        /\ Ended => Ended' /\ Head(inbox).gone
        /\ Head(inbox).gone \/ req.encoding = "empty" => Head(inbox).body = <<>>
    BY <1>1, InboxShrinks DEF IntakeInv
  <1>3. ~ lost /\ (req.encoding = "empty" \/ Ended) /\ (phase = "decoding" => Ended)
        /\ (~ whole /\ phase # "over" => monitor = "none")
    BY <1>1 DEF IntakeInv, Watched
  <1>4. ~ lost'
    BY <1>1, <1>2, <1>3
  <1>5. IntakeShape'
    BY <1>1, <1>2, <1>4 DEF IntakeInv, IntakeShape
  <1>6. Accounts'
    BY <1>1 DEF IntakeInv, Accounts, Weight
  <1>7. ReleasedOnce'
    BY <1>1 DEF IntakeInv, ReleasedOnce
  <1>8. Watched'
    BY <1>1, <1>2, <1>3, <1>4 DEF Watched
  <1> QED
    BY <1>2, <1>5, <1>6, <1>7, <1>8 DEF IntakeInv

LEMMA MonitorFailsKeeps ==
    ASSUME IntakeInv, MonitorFails
    PROVE  IntakeInv'
  <1>1. /\ monitor = "running" /\ monitor' = "failed"
        /\ UNCHANGED <<req, client, inbox, phase, whole, est, scanned, total, packed, charge,
                       released, starts, lost>>
    BY DEF MonitorFails, accounts
  <1>2. inbox' \in Seq(InboxMessage) /\ Sealed' /\ Ended' = Ended
    BY <1>1, InboxStays
  <1>3. IntakeShape'
    BY <1>1, <1>2 DEF IntakeInv, IntakeShape
  <1>4. Accounts'
    BY <1>1 DEF IntakeInv, Accounts, Weight
  <1>5. ReleasedOnce' /\ Watched'
    BY <1>1, <1>2 DEF IntakeInv, ReleasedOnce, Watched
  <1> QED
    BY <1>2, <1>3, <1>4, <1>5 DEF IntakeInv

LEMMA IntakeStep == IntakeInv /\ [IntakeNext]_intakeVars => IntakeInv'
  <1> SUFFICES ASSUME IntakeInv, [IntakeNext]_intakeVars PROVE IntakeInv'
    OBVIOUS
  <1>1. CASE UNCHANGED intakeVars
    BY <1>1 DEF IntakeInv, IntakeShape, Sealed, Ended, Accounts, ReleasedOnce, Watched, Weight,
                intakeVars
  <1> QED
    BY <1>1, ClientKeeps, EndKeeps, BeginKeeps, DisconnectKeeps, IdentityKeeps, WireKeeps,
       DecodeKeeps, StartKeeps, MonitorKeeps, MonitorFailsKeeps DEF IntakeNext

\* Whatever the frames and the limits are, and wherever the client leaves, a limit is passed or
\* the application ends: compressed bytes and the decoder's window are paid for exactly while
\* they exist, decoded bytes at their full weight until the response of a complete body has
\* started; the monitor takes no frame of the body, and a request is answered once.
THEOREM BodiesAreCharged == IntakeInit /\ [][IntakeNext]_intakeVars => []IntakeCharged
  <1>1. IntakeInv => IntakeCharged
    BY DEF IntakeInv, IntakeShape, Accounts, ReleasedOnce, Watched, IntakeCharged
  <1> QED
    BY <1>1, IntakeInitial, IntakeStep, PTL
-----------------------------------------------------------------------------
(* Logged responses *)

Messages == {"start", "part", "end", "error", "final", "torn"}
Segments == [meta : BOOLEAN, ends : BOOLEAN]
Results == Failure \cup {"none", "ok"}

Streaming == {"streaming", "dropping", "reaping"}
Closing == {"ending", "joining", "finalizing", "over"}

CallRecord == [at : {"dispatch", "starting", "erring", "closing", "escaped"}
                       \cup Streaming \cup Closing,
               final : BOOLEAN, cancelled : BOOLEAN,
               outcome : {"none", "completed", "downstream_write_timeout", "downstream_disconnected",
                          "downstream_send_error", "upstream_failure_terminal", "cancelled", "error"}]

CallIs == call \in CallRecord

StreamIs == stream \in [at : {"none", "reading", "sending", "done"}, result : Results,
                        todo : Seq(Segments), meta : BOOLEAN, knows : BOOLEAN]

WriterIs == writer \in [at : {"none", "sending", "waiting", "done", "killed"},
                        msg : Messages \cup {"none"},
                        for : {"none", "call", "stream"}, live : BOOLEAN, queued : BOOLEAN,
                        result : Results, aborted : BOOLEAN]

SseIs == sse \in [is : BOOLEAN, observer : {"clean", "mid", "off"}, known : BOOLEAN, at : BOOLEAN,
                  metaOpen : BOOLEAN]

BodyIs == body \in [closed : BOOLEAN, chunks : Nat, mid : {"no", "meta", "raw"}]

LifeIs == life \in [inflight : {0, 1}, emitted : {0, 1}, gone : BOOLEAN, cancels : Nat, listens : BOOLEAN,
                    room : BOOLEAN]

ResponseShape ==
    CallIs /\ StreamIs /\ WriterIs /\ wire \in Seq(Messages) /\ SseIs /\ BodyIs /\ LifeIs

\* What may be said after w.
Fits(w, msg) ==
    /\ msg \in Messages \ {"torn"}
    /\ msg = "start" <=> w = <<>>
    /\ w # <<>> => Last(w) \notin {"final", "torn"}
    /\ msg = "error" => Last(w) \in {"start", "end"}

Wired(w) ==
    \A i \in 1 .. Len(w) :
        /\ w[i] = "error" => w[i - 1] \in {"start", "end"}
        /\ w[i] \in {"final", "torn"} => i = Len(w)
        /\ w[i] = "start" <=> i = 1 /\ w[i] # "torn"

\* The phases of the call, its stream and its release.
Phases ==
    /\ call.at \in {"dispatch", "starting"} => stream.at = "none"
    /\ call.at \in Streaming => stream.at # "none"
    /\ call.at \in {"erring", "escaped"} => stream.at = "done"
    /\ call.at \in {"closing"} \cup Closing => stream.at \in {"none", "done"}
    /\ call.at \in Closing => body.closed
    /\ stream.at = "done" => sse.observer # "mid"
    /\ life.inflight = (IF call.at = "over" THEN 0 ELSE 1)
    /\ life.emitted = (IF call.at = "over" THEN 1 ELSE 0)

\* Who waits for a write, and what it will be told.
Writes ==
    /\ writer.for = "stream" <=> stream.at = "sending"
    /\ writer.for = "call" <=> call.at \in {"starting", "erring", "ending"}
    /\ writer.for = "none" => writer.result = "none"
    /\ writer.live => writer.for # "none" /\ writer.result = "none"
    /\ stream.at = "sending" => stream.todo # <<>>
    /\ call.at = "starting" => writer.msg = "start"
    /\ Awaited \/ writer.result = "ok" =>
           /\ stream.at = "sending" =>
                  writer.msg = (IF Head(stream.todo).ends THEN "end" ELSE "part")
           /\ call.at = "ending" => writer.msg = "final"

\* What is on the wire, and what may follow.
OnTheWire ==
    /\ Wired(wire)
    /\ writer.at = "none" => call.at \in {"dispatch", "over"} /\ wire = <<>>
    /\ call.at = "dispatch" => writer.at = "none"
    /\ writer.at = "sending" => Fits(wire, writer.msg)
    /\ writer.at = "waiting" => wire # <<>> /\ Last(wire) # "torn"
    /\ writer.result = "ok" => writer.at = "waiting" /\ Last(wire) = writer.msg
    /\ writer.msg = "final" \/ (wire # <<>> /\ Last(wire) = "final") => call.at \in Closing
    /\ call.at \in Closing \ {"ending"} /\ call.outcome = "completed" => wire # <<>> /\ Last(wire) = "final"

\* An event is taken for complete only if it is.
Boundary ==
    /\ stream.at = "sending" => ~ sse.known
    /\ stream.at = "sending" /\ ~ stream.meta /\ sse.observer = "clean" => Head(stream.todo).ends
    /\ call.at \in {"starting", "streaming", "dropping"} /\ sse.known /\ sse.at /\ writer.at = "waiting"
           => Last(wire) \in {"start", "end"}

Outcomes ==
    /\ call.at \in {"dispatch", "starting", "streaming"} => call.outcome = "none" /\ call.final
    /\ call.outcome = "completed" =>
           call.at \in {"closing"} \cup Closing /\ call.final /\ stream.at = "done"
    /\ call.at = "dropping" => call.outcome # "none"

\* A cancelled call ends with its stream, unless a failed write had to be waited for.
Reaped ==
    /\ call.at \in {"reaping", "escaped"} => life.cancels > 0
    /\ call.at = "escaped" => ~ life.room
    /\ writer.aborted /\ (call.at \in {"dispatch", "starting"} \/ stream.at \in {"reading", "sending"})
           => ~ life.room /\ writer.result \in Failure
    /\ call.at = "reaping" /\ life.room =>
           \/ stream.at = "done" /\ stream.result \in {"ok", "cancelled"}
           \/ stream.at = "sending" /\ writer.result = "cancelled"

ResponseInv ==
    ResponseShape /\ Phases /\ Writes /\ OnTheWire /\ Boundary /\ Outcomes /\ Reaped

LEMMA OutcomeIs ==
    ASSUME NEW c \in CallRecord, NEW result \in Failure, NEW d, d = WithOutcome(c, OutcomeOf(result))
    PROVE  /\ d \in CallRecord /\ d.at = c.at /\ d.final = c.final /\ d.cancelled = c.cancelled
           /\ d.outcome \notin {"none", "completed"}
  <1> DEFINE o == OutcomeOf(result)
  <1>1. o \in {"downstream_write_timeout", "downstream_disconnected", "downstream_send_error",
               "upstream_failure_terminal", "cancelled", "error"}
    BY DEF OutcomeOf, Failure
  <1>2. d = WithOutcome(c, o)
    OBVIOUS
  <1> HIDE DEF o
  <1> QED
    BY <1>1, <1>2 DEF WithOutcome, CallRecord

LEMMA FailedIs ==
    ASSUME NEW c \in CallRecord, NEW result \in Failure, NEW d, d = Failed(c, result)
    PROVE  /\ d \in CallRecord /\ d.at = c.at
           /\ d.outcome \notin {"none", "completed"}
  <1> DEFINE peer == life.gone /\ life.listens /\ result \in {"cancelled", "error", "semantic"}
             n == WithOutcome(c, IF peer THEN "downstream_disconnected" ELSE OutcomeOf(result))
  <1>1. n \in CallRecord /\ n.at = c.at /\ n.outcome \notin {"none", "completed"}
    <2>1. CASE peer
      <3>1. n = WithOutcome(c, OutcomeOf("disconnect")) /\ "disconnect" \in Failure
        BY <2>1 DEF OutcomeOf, Failure
      <3> HIDE DEF n
      <3> QED
        BY <3>1, OutcomeIs
    <2>2. CASE ~ peer
      <3>1. n = WithOutcome(c, OutcomeOf(result))
        BY <2>2
      <3> HIDE DEF n
      <3> QED
        BY <3>1, OutcomeIs
    <2> QED
      BY <2>1, <2>2
  <1>2. d = [n EXCEPT !.cancelled = @ \/ result = "cancelled",
                      !.final = result \in {"error", "semantic"} /\ ~ peer]
    BY DEF Failed
  <1>3. peer \in BOOLEAN
    OBVIOUS
  <1> HIDE DEF n, peer
  <1> QED
    BY <1>1, <1>2, <1>3 DEF CallRecord

\* One lemma for each action that writes nothing: it may tell what a write came to.
LEMMA DispatchEndsKeeps ==
    ASSUME ResponseInv, DispatchEnds
    PROVE  ResponseInv'
  <1> USE DEF ResponseInv, ResponseShape, DispatchEnds, EndLifecycle, Failure, Results, Closing,
              Streaming
  <1>1. CallIs'
    BY DEF CallIs, CallRecord, StreamIs
  <1>2. BodyIs'
    BY DEF BodyIs
  <1>3. LifeIs'
    <2>1. life.emitted = 0
      BY DEF Phases
    <2>2. life' = [life EXCEPT !.inflight = 0, !.emitted = 1]
      BY <2>1
    <2> QED
      BY ONLY <2>2, LifeIs DEF LifeIs
  <1>4. StreamIs' /\ WriterIs' /\ SseIs' /\ wire' \in Seq(Messages)
    BY DEF StreamIs, WriterIs, SseIs
  <1>5. Phases'
    BY DEF Phases, CallIs, StreamIs, WriterIs, SseIs
  <1>6. Writes'
    BY DEF Writes, CallIs, StreamIs, WriterIs, SseIs, Awaited
  <1>7. OnTheWire'
    BY DEF OnTheWire, Writes, Phases, Outcomes, CallIs, CallRecord, StreamIs, WriterIs, SseIs
  <1>8. Boundary'
    BY DEF Boundary, CallIs, StreamIs, WriterIs, SseIs
  <1>9. Outcomes'
    BY DEF Outcomes, CallIs, StreamIs, WriterIs, SseIs
  <1>10. Reaped'
    BY DEF Reaped, Writes, Phases, CallIs, CallRecord, StreamIs, WriterIs, SseIs
  <1> QED
    BY <1>1, <1>2, <1>3, <1>4, <1>5, <1>6, <1>7, <1>8, <1>9, <1>10

LEMMA StartedKeeps ==
    ASSUME ResponseInv, Started
    PROVE  ResponseInv'
  <1> USE DEF ResponseInv, ResponseShape, Started, SendReturned, Consumed, Aborted, Failure, Results,
              Closing, Streaming
  <1>1. CallIs'
    BY DEF CallIs, CallRecord
  <1>2. StreamIs'
    BY DEF StreamIs, WriterIs
  <1>3. WriterIs'
    BY DEF WriterIs
  <1>4. SseIs' /\ BodyIs' /\ LifeIs' /\ wire' \in Seq(Messages)
    BY DEF SseIs, BodyIs, LifeIs
  <1>5. Phases'
    BY DEF Phases, CallIs, StreamIs, WriterIs, SseIs
  <1>6. Writes'
    BY DEF Writes, CallIs, StreamIs, WriterIs, SseIs, Awaited
  <1>7. OnTheWire'
    BY DEF OnTheWire, CallIs, StreamIs, WriterIs, SseIs
  <1>8. Boundary'
    BY DEF Boundary, CallIs, StreamIs, WriterIs, SseIs
  <1>9. Outcomes'
    BY DEF Outcomes, CallIs, StreamIs, WriterIs, SseIs
  <1>10. Reaped'
    BY DEF Reaped, Writes, Phases, CallIs, CallRecord, StreamIs, WriterIs, SseIs
  <1> QED
    BY <1>1, <1>2, <1>3, <1>4, <1>5, <1>6, <1>7, <1>8, <1>9, <1>10

LEMMA StartFailedKeeps ==
    ASSUME ResponseInv, StartFailed
    PROVE  ResponseInv'
  <1> USE DEF ResponseInv, ResponseShape, StartFailed, Raised, Failure, Stopped, Consumed, Aborted,
              Results, Closing, Streaming
  <1>1. CallIs'
    <2> DEFINE c == Failed(call, writer.result)
    <2>1. writer.result \in Failure /\ call' = [c EXCEPT !.at = "closing"]
      OBVIOUS
    <2>2. c \in CallRecord
      BY <2>1, FailedIs DEF CallIs
    <2> QED
      BY <2>1, <2>2 DEF CallIs, CallRecord
  <1>2. WriterIs'
    BY DEF WriterIs
  <1>3. StreamIs' /\ SseIs' /\ BodyIs' /\ LifeIs' /\ wire' \in Seq(Messages)
    BY DEF StreamIs, SseIs, BodyIs, LifeIs
  <1>4. Phases'
    BY FailedIs DEF Phases, CallIs, StreamIs, WriterIs, SseIs
  <1>5. Writes'
    BY FailedIs DEF Writes, CallIs, StreamIs, WriterIs, SseIs, Awaited
  <1>6. OnTheWire'
    BY FailedIs DEF OnTheWire, CallIs, StreamIs, WriterIs, SseIs
  <1>7. Boundary'
    BY FailedIs DEF Boundary, CallIs, StreamIs, WriterIs, SseIs
  <1>8. Outcomes'
    BY FailedIs DEF Outcomes, CallIs, StreamIs, WriterIs, SseIs
  <1>9. Reaped'
    BY FailedIs DEF Reaped, Writes, Phases, CallIs, CallRecord, StreamIs, WriterIs, SseIs
  <1> QED
    BY <1>1, <1>2, <1>3, <1>4, <1>5, <1>6, <1>7, <1>8, <1>9

LEMMA ErrorSentKeeps ==
    ASSUME ResponseInv, ErrorSent
    PROVE  ResponseInv'
  <1> USE DEF ResponseInv, ResponseShape, ErrorSent, SendReturned, Raised, Failure, Stopped, Consumed,
              Aborted, Results, Closing, Streaming
  <1>1. CallIs'
    <2> DEFINE c == WithOutcome(call, OutcomeOf(writer.result))
    <2>1. CASE writer.result \in {"ok", "cancelled"}
      BY <2>1 DEF CallIs, CallRecord
    <2>2. CASE writer.result \notin {"ok", "cancelled"}
      <3>1. writer.result \in Failure /\ call' = [c EXCEPT !.at = "closing", !.final = FALSE]
        BY <2>2
      <3>2. c \in CallRecord
        BY <3>1, OutcomeIs DEF CallIs
      <3> QED
        BY <3>1, <3>2 DEF CallIs, CallRecord
    <2> QED
      BY <2>1, <2>2
  <1>2. WriterIs'
    BY DEF WriterIs
  <1>3. StreamIs' /\ SseIs' /\ BodyIs' /\ LifeIs' /\ wire' \in Seq(Messages)
    BY DEF StreamIs, SseIs, BodyIs, LifeIs
  <1>4. Phases'
    BY OutcomeIs DEF Phases, CallIs, StreamIs, WriterIs, SseIs
  <1>5. Writes'
    BY OutcomeIs DEF Writes, CallIs, StreamIs, WriterIs, SseIs, Awaited
  <1>6. OnTheWire'
    BY OutcomeIs DEF OnTheWire, CallIs, StreamIs, WriterIs, SseIs
  <1>7. Boundary'
    BY OutcomeIs DEF Boundary, CallIs, StreamIs, WriterIs, SseIs
  <1>8. Outcomes'
    BY OutcomeIs DEF Outcomes, CallIs, StreamIs, WriterIs, SseIs
  <1>9. Reaped'
    BY OutcomeIs DEF Reaped, Writes, Phases, CallIs, CallRecord, StreamIs, WriterIs, SseIs
  <1> QED
    BY <1>1, <1>2, <1>3, <1>4, <1>5, <1>6, <1>7, <1>8, <1>9

LEMMA ReapKeeps ==
    ASSUME ResponseInv, Reap
    PROVE  ResponseInv'
  <1> USE DEF ResponseInv, ResponseShape, Reap, Failure, Results, Closing, Streaming
  <1>1. CallIs'
    BY DEF CallIs, CallRecord, StreamIs
  <1>2. StreamIs' /\ WriterIs' /\ SseIs' /\ BodyIs' /\ LifeIs' /\ wire' \in Seq(Messages)
    BY DEF StreamIs, WriterIs, SseIs, BodyIs, LifeIs
  <1>3. Phases'
    BY DEF Phases, CallIs, StreamIs, WriterIs, SseIs
  <1>4. Writes'
    BY DEF Writes, CallIs, StreamIs, WriterIs, SseIs, Awaited
  <1>5. OnTheWire'
    BY DEF OnTheWire, CallIs, StreamIs, WriterIs, SseIs
  <1>6. Boundary'
    BY DEF Boundary, CallIs, StreamIs, WriterIs, SseIs
  <1>7. Outcomes'
    BY DEF Outcomes, CallIs, StreamIs, WriterIs, SseIs
  <1>8. Reaped'
    BY DEF Reaped, Writes, Phases, CallIs, CallRecord, StreamIs, WriterIs, SseIs
  <1> QED
    BY <1>1, <1>2, <1>3, <1>4, <1>5, <1>6, <1>7, <1>8

LEMMA FinalSentKeeps ==
    ASSUME ResponseInv, FinalSent
    PROVE  ResponseInv'
  <1> USE DEF ResponseInv, ResponseShape, FinalSent, SendReturned, Raised, Failure, Stopped, Consumed,
              Aborted, Results, Closing, Streaming
  <1>1. CallIs'
    <2> DEFINE c == IF writer.result = "ok" THEN call ELSE WithOutcome(call, OutcomeOf(writer.result))
    <2>1. call' = [c EXCEPT !.at = "joining", !.cancelled = @ \/ writer.result = "cancelled"]
      OBVIOUS
    <2>2. c \in CallRecord
      BY OutcomeIs DEF CallIs
    <2> HIDE DEF c
    <2> QED
      BY <2>1, <2>2 DEF CallIs, CallRecord
  <1>2. WriterIs'
    BY DEF WriterIs
  <1>3. StreamIs' /\ SseIs' /\ BodyIs' /\ LifeIs' /\ wire' \in Seq(Messages)
    BY DEF StreamIs, SseIs, BodyIs, LifeIs
  <1>4. Phases'
    BY OutcomeIs DEF Phases, CallIs, StreamIs, WriterIs, SseIs
  <1>5. Writes'
    BY OutcomeIs DEF Writes, CallIs, StreamIs, WriterIs, SseIs, Awaited
  <1>6. OnTheWire'
    BY OutcomeIs DEF OnTheWire, Writes, Phases, Outcomes, CallIs, CallRecord, StreamIs, WriterIs, SseIs
  <1>7. Boundary'
    BY OutcomeIs DEF Boundary, CallIs, StreamIs, WriterIs, SseIs
  <1>8. Outcomes'
    BY OutcomeIs DEF Outcomes, CallIs, StreamIs, WriterIs, SseIs
  <1>9. Reaped'
    BY OutcomeIs DEF Reaped, Writes, Phases, CallIs, CallRecord, StreamIs, WriterIs, SseIs
  <1> QED
    BY <1>1, <1>2, <1>3, <1>4, <1>5, <1>6, <1>7, <1>8, <1>9

LEMMA JoinWriterKeeps ==
    ASSUME ResponseInv, JoinWriter
    PROVE  ResponseInv'
  <1> USE DEF ResponseInv, ResponseShape, JoinWriter, Failure, Results, Closing, Streaming
  <1>1. CallIs'
    BY DEF CallIs, CallRecord, StreamIs
  <1>2. WriterIs'
    BY DEF WriterIs
  <1>3. StreamIs' /\ SseIs' /\ BodyIs' /\ LifeIs' /\ wire' \in Seq(Messages)
    BY DEF StreamIs, SseIs, BodyIs, LifeIs
  <1>4. Phases'
    BY DEF Phases, CallIs, StreamIs, WriterIs, SseIs
  <1>5. Writes'
    BY DEF Writes, CallIs, StreamIs, WriterIs, SseIs, Awaited
  <1>6. OnTheWire'
    BY DEF OnTheWire, Writes, Phases, Outcomes, CallIs, CallRecord, StreamIs, WriterIs, SseIs
  <1>7. Boundary'
    BY DEF Boundary, CallIs, StreamIs, WriterIs, SseIs
  <1>8. Outcomes'
    BY DEF Outcomes, CallIs, StreamIs, WriterIs, SseIs
  <1>9. Reaped'
    BY DEF Reaped, Writes, Phases, CallIs, CallRecord, StreamIs, WriterIs, SseIs
  <1> QED
    BY <1>1, <1>2, <1>3, <1>4, <1>5, <1>6, <1>7, <1>8, <1>9

LEMMA FinalizeKeeps ==
    ASSUME ResponseInv, Finalize
    PROVE  ResponseInv'
  <1> USE DEF ResponseInv, ResponseShape, Finalize, EndLifecycle, Failure, Results, Closing, Streaming
  <1>1. CallIs'
    BY DEF CallIs, CallRecord, StreamIs
  <1>2. LifeIs'
    <2>1. life.emitted = 0
      BY DEF Phases
    <2>2. life' = [life EXCEPT !.inflight = 0, !.emitted = 1]
      BY <2>1
    <2> QED
      BY ONLY <2>2, LifeIs DEF LifeIs
  <1>3. StreamIs' /\ WriterIs' /\ SseIs' /\ BodyIs' /\ wire' \in Seq(Messages)
    BY DEF StreamIs, WriterIs, SseIs, BodyIs
  <1>4. Phases'
    BY DEF Phases, CallIs, StreamIs, WriterIs, SseIs
  <1>5. Writes'
    BY DEF Writes, CallIs, StreamIs, WriterIs, SseIs, Awaited
  <1>6. OnTheWire'
    BY DEF OnTheWire, CallIs, StreamIs, WriterIs, SseIs
  <1>7. Boundary'
    BY DEF Boundary, CallIs, StreamIs, WriterIs, SseIs
  <1>8. Outcomes'
    BY DEF Outcomes, CallIs, StreamIs, WriterIs, SseIs
  <1>9. Reaped'
    BY DEF Reaped, Writes, Phases, CallIs, CallRecord, StreamIs, WriterIs, SseIs
  <1> QED
    BY <1>1, <1>2, <1>3, <1>4, <1>5, <1>6, <1>7, <1>8, <1>9

LEMMA SegmentSentKeeps ==
    ASSUME ResponseInv, SegmentSent
    PROVE  ResponseInv'
  <1> USE DEF ResponseInv, ResponseShape, SegmentSent, EventComplete, SendReturned, Consumed, Aborted,
              Failure, Results, Closing, Streaming
  <1>1. StreamIs'
    <2>1. Tail(stream.todo) \in Seq(Segments)
      BY DEF StreamIs, Writes
    <2>2. stream' = [stream EXCEPT !.at = "reading", !.todo = Tail(stream.todo)]
      OBVIOUS
    <2> QED
      BY ONLY <2>1, <2>2, StreamIs DEF StreamIs
  <1>2. WriterIs'
    BY DEF WriterIs
  <1>3. SseIs'
    <2> DEFINE complete == EventComplete(Head(stream.todo))
    <2>1. Head(stream.todo) \in Segments
      BY DEF StreamIs, Writes
    <2>2. complete \in BOOLEAN /\ stream.knows \in BOOLEAN /\ stream.meta \in BOOLEAN
      BY <2>1 DEF StreamIs, Segments
    <2>3. sse' = [sse EXCEPT !.known = stream.knows, !.at = IF stream.knows THEN complete ELSE @,
                             !.metaOpen = IF stream.meta THEN ~ complete ELSE @]
      OBVIOUS
    <2> HIDE DEF complete
    <2> QED
      BY ONLY <2>2, <2>3, SseIs DEF SseIs
  <1>4. CallIs' /\ BodyIs' /\ LifeIs' /\ wire' \in Seq(Messages)
    BY DEF CallIs, BodyIs, LifeIs
  <1>5. Phases'
    BY DEF Phases, CallIs, StreamIs, WriterIs, SseIs
  <1>6. Writes'
    BY DEF Writes, CallIs, StreamIs, WriterIs, SseIs, Awaited
  <1>7. OnTheWire'
    BY DEF OnTheWire, CallIs, StreamIs, WriterIs, SseIs
  <1>8. Boundary'
    BY DEF Boundary, OnTheWire, Writes, Phases, CallIs, CallRecord, StreamIs, WriterIs, SseIs
  <1>9. Outcomes'
    BY DEF Outcomes, CallIs, StreamIs, WriterIs, SseIs
  <1>10. Reaped'
    BY DEF Reaped, Writes, Phases, CallIs, CallRecord, StreamIs, WriterIs, SseIs
  <1> QED
    BY <1>1, <1>2, <1>3, <1>4, <1>5, <1>6, <1>7, <1>8, <1>9, <1>10

LEMMA SegmentFailedKeeps ==
    ASSUME ResponseInv, SegmentFailed
    PROVE  ResponseInv'
  <1> USE DEF ResponseInv, ResponseShape, SegmentFailed, Raised, Failure, Stopped, StreamDone,
              Consumed, Aborted, Results, Closing, Streaming
  <1>1. StreamIs'
    BY DEF StreamIs, WriterIs
  <1>2. WriterIs'
    BY DEF WriterIs
  <1>3. SseIs'
    BY DEF SseIs
  <1>4. CallIs' /\ BodyIs' /\ LifeIs' /\ wire' \in Seq(Messages)
    BY DEF CallIs, BodyIs, LifeIs
  <1>5. Phases'
    BY DEF Phases, CallIs, StreamIs, WriterIs, SseIs
  <1>6. Writes'
    BY DEF Writes, CallIs, StreamIs, WriterIs, SseIs, Awaited
  <1>7. OnTheWire'
    BY DEF OnTheWire, CallIs, StreamIs, WriterIs, SseIs
  <1>8. Boundary'
    BY DEF Boundary, CallIs, StreamIs, WriterIs, SseIs
  <1>9. Outcomes'
    BY DEF Outcomes, CallIs, StreamIs, WriterIs, SseIs
  <1>10. Reaped'
    BY DEF Reaped, Writes, Phases, CallIs, CallRecord, StreamIs, WriterIs, SseIs
  <1> QED
    BY <1>1, <1>2, <1>3, <1>4, <1>5, <1>6, <1>7, <1>8, <1>9, <1>10

LEMMA AwaitWriterKeeps ==
    ASSUME ResponseInv, AwaitWriter
    PROVE  ResponseInv'
  <1> USE DEF ResponseInv, ResponseShape, AwaitWriter, Failure, Stopped, Aborted, Results, Closing,
              Streaming
  <1>1. WriterIs'
    BY DEF WriterIs
  <1>2. CallIs' /\ StreamIs' /\ SseIs' /\ BodyIs' /\ LifeIs' /\ wire' \in Seq(Messages)
    BY DEF CallIs, StreamIs, SseIs, BodyIs, LifeIs
  <1>3. Phases'
    BY DEF Phases, CallIs, StreamIs, WriterIs, SseIs
  <1>4. Writes'
    BY DEF Writes, CallIs, StreamIs, WriterIs, SseIs, Awaited
  <1>5. OnTheWire'
    BY DEF OnTheWire, CallIs, StreamIs, WriterIs, SseIs
  <1>6. Boundary'
    BY DEF Boundary, CallIs, StreamIs, WriterIs, SseIs
  <1>7. Outcomes'
    BY DEF Outcomes, CallIs, StreamIs, WriterIs, SseIs
  <1>8. Reaped'
    BY DEF Reaped, Writes, Phases, CallIs, CallRecord, StreamIs, WriterIs, SseIs
  <1> QED
    BY <1>1, <1>2, <1>3, <1>4, <1>5, <1>6, <1>7, <1>8

LEMMA ExpireKeeps ==
    ASSUME ResponseInv, Expire
    PROVE  ResponseInv'
  <1> USE DEF ResponseInv, ResponseShape, Expire, Failure, Results, Closing, Streaming
  <1>1. WriterIs'
    BY DEF WriterIs
  <1>2. CallIs' /\ StreamIs' /\ SseIs' /\ BodyIs' /\ LifeIs' /\ wire' \in Seq(Messages)
    BY DEF CallIs, StreamIs, SseIs, BodyIs, LifeIs
  <1>3. Phases'
    BY DEF Phases, CallIs, StreamIs, WriterIs, SseIs
  <1>4. Writes'
    BY DEF Writes, CallIs, StreamIs, WriterIs, SseIs, Awaited
  <1>5. OnTheWire'
    BY DEF OnTheWire, CallIs, StreamIs, WriterIs, SseIs
  <1>6. Boundary'
    BY DEF Boundary, CallIs, StreamIs, WriterIs, SseIs
  <1>7. Outcomes'
    BY DEF Outcomes, CallIs, StreamIs, WriterIs, SseIs
  <1>8. Reaped'
    BY DEF Reaped, Writes, Phases, CallIs, CallRecord, StreamIs, WriterIs, SseIs
  <1> QED
    BY <1>1, <1>2, <1>3, <1>4, <1>5, <1>6, <1>7, <1>8

LEMMA BodyEndsKeeps ==
    ASSUME ResponseInv, BodyEnds
    PROVE  ResponseInv'
  <1> USE DEF ResponseInv, ResponseShape, BodyEnds, StreamDone, Failure, Results, Closing, Streaming
  <1>1. StreamIs'
    BY DEF StreamIs, WriterIs
  <1>2. SseIs'
    BY DEF SseIs
  <1>3. CallIs' /\ WriterIs' /\ BodyIs' /\ LifeIs' /\ wire' \in Seq(Messages)
    BY DEF CallIs, WriterIs, BodyIs, LifeIs
  <1>4. Phases'
    BY DEF Phases, CallIs, StreamIs, WriterIs, SseIs
  <1>5. Writes'
    BY DEF Writes, CallIs, StreamIs, WriterIs, SseIs, Awaited
  <1>6. OnTheWire'
    BY DEF OnTheWire, CallIs, StreamIs, WriterIs, SseIs
  <1>7. Boundary'
    BY DEF Boundary, CallIs, StreamIs, WriterIs, SseIs
  <1>8. Outcomes'
    BY DEF Outcomes, CallIs, StreamIs, WriterIs, SseIs
  <1>9. Reaped'
    BY DEF Reaped, Writes, Phases, CallIs, CallRecord, StreamIs, WriterIs, SseIs
  <1> QED
    BY <1>1, <1>2, <1>3, <1>4, <1>5, <1>6, <1>7, <1>8, <1>9

LEMMA PeerLeavesKeeps ==
    ASSUME ResponseInv, PeerLeaves
    PROVE  ResponseInv'
  <1> USE DEF ResponseInv, ResponseShape, PeerLeaves, Failure, Results, Closing, Streaming
  <1>1. LifeIs'
    BY DEF LifeIs, Phases
  <1>2. CallIs' /\ StreamIs' /\ WriterIs' /\ SseIs' /\ BodyIs' /\ wire' \in Seq(Messages)
    BY DEF CallIs, StreamIs, WriterIs, SseIs, BodyIs
  <1>3. Phases'
    BY DEF Phases, CallIs, StreamIs, WriterIs, SseIs
  <1>4. Writes'
    BY DEF Writes, CallIs, StreamIs, WriterIs, SseIs, Awaited
  <1>5. OnTheWire'
    BY DEF OnTheWire, CallIs, StreamIs, WriterIs, SseIs
  <1>6. Boundary'
    BY DEF Boundary, CallIs, StreamIs, WriterIs, SseIs
  <1>7. Outcomes'
    BY DEF Outcomes, CallIs, StreamIs, WriterIs, SseIs
  <1>8. Reaped'
    BY DEF Reaped, Writes, Phases, CallIs, CallRecord, StreamIs, WriterIs, SseIs
  <1> QED
    BY <1>1, <1>2, <1>3, <1>4, <1>5, <1>6, <1>7, <1>8

LEMMA ReadChunkKeeps ==
    ASSUME ResponseInv, NEW meta \in BOOLEAN, NEW segments \in 1 .. 2, NEW ends \in BOOLEAN,
           ReadChunk(meta, segments, ends)
    PROVE  ResponseInv'
  <1> USE DEF ResponseInv, ResponseShape, ReadChunk, Failure, Results, Closing, Streaming
  <1>1. StreamIs'
    <2> DEFINE todo == [i \in 1 .. segments |-> [meta |-> meta, ends |-> ends /\ i = segments]]
    <2>1. todo \in Seq(Segments)
      <3>1. segments \in Nat /\ \A i \in 1 .. segments :
               [meta |-> meta, ends |-> ends /\ i = segments] \in Segments
        BY DEF Segments
      <3>2. todo \in [1 .. segments -> Segments] /\ segments \in Nat
        BY <3>1
      <3> HIDE DEF todo
      <3> QED
        BY ONLY <3>2
    <2>2. stream' = [stream EXCEPT !.todo = todo]
      OBVIOUS
    <2> HIDE DEF todo
    <2> QED
      BY ONLY <2>1, <2>2, StreamIs DEF StreamIs
  <1>2. BodyIs'
    <2> DEFINE mid == IF ends THEN "no" ELSE IF meta THEN "meta" ELSE "raw"
    <2>1. body' = [body EXCEPT !.chunks = body.chunks + 1, !.mid = mid]
      OBVIOUS
    <2>2. mid \in {"no", "meta", "raw"}
      OBVIOUS
    <2>3. body.chunks + 1 \in Nat
      BY DEF BodyIs
    <2> HIDE DEF mid
    <2> QED
      BY ONLY <2>1, <2>2, <2>3, BodyIs DEF BodyIs
  <1>3. CallIs' /\ WriterIs' /\ SseIs' /\ LifeIs' /\ wire' \in Seq(Messages)
    BY DEF CallIs, WriterIs, SseIs, LifeIs
  <1>4. Phases'
    BY DEF Phases, CallIs, StreamIs, WriterIs, SseIs
  <1>5. Writes'
    BY DEF Writes, CallIs, StreamIs, WriterIs, SseIs, Awaited
  <1>6. OnTheWire'
    BY DEF OnTheWire, CallIs, StreamIs, WriterIs, SseIs
  <1>7. Boundary'
    BY DEF Boundary, CallIs, StreamIs, WriterIs, SseIs
  <1>8. Outcomes'
    BY DEF Outcomes, CallIs, StreamIs, WriterIs, SseIs
  <1>9. Reaped'
    BY DEF Reaped, Writes, Phases, CallIs, CallRecord, StreamIs, WriterIs, SseIs
  <1> QED
    BY <1>1, <1>2, <1>3, <1>4, <1>5, <1>6, <1>7, <1>8, <1>9

\* What a write leaves of the writer's fields.
Wrote(who, msg) ==
    /\ writer'.for = who /\ writer'.aborted = writer.aborted
    /\ writer'.result # "ok" /\ writer'.at \notin {"none", "waiting"}
    /\ Stopped => /\ writer'.at = writer.at /\ writer'.msg = writer.msg
                  /\ writer'.live = writer.live /\ writer'.queued = writer.queued
                  /\ writer'.result \in Failure
    /\ ~ Stopped => writer'.at = "sending" /\ writer'.live = TRUE /\ writer'.result = "none"
    /\ writer.at = "sending" => writer'.queued = TRUE /\ writer'.msg = writer.msg
    /\ writer.at \in {"none", "waiting"} => writer'.queued = FALSE /\ writer'.msg = msg

LEMMA WriteIs ==
    ASSUME WriterIs, NEW who \in {"call", "stream"}, NEW msg \in Messages, Write(who, msg)
    PROVE  WriterIs' /\ Wrote(who, msg)
  <1> USE DEF WriterIs, Wrote, Stopped, Results, Failure
  <1>1. CASE Stopped
    BY <1>1 DEF Write
  <1>2. CASE ~ Stopped /\ writer.at = "sending"
    <2>1. writer' = [writer EXCEPT !.for = who, !.result = "none", !.live = TRUE, !.at = "sending",
                                   !.msg = writer.msg, !.queued = TRUE]
      BY <1>2 DEF Write
    <2> QED
      BY <1>2, <2>1
  <1>3. CASE writer.at \in {"none", "waiting"}
    <2>1. writer' = [writer EXCEPT !.for = who, !.result = "none", !.live = TRUE, !.at = "sending",
                                   !.msg = msg, !.queued = FALSE]
      BY <1>3 DEF Write
    <2> QED
      BY <1>3, <2>1
  <1> QED
    BY <1>1, <1>2, <1>3

\* The wire is as sound as before when a message that fits is handed to the writer.
LEMMA WriteFits ==
    ASSUME ResponseInv, NEW who \in {"call", "stream"}, NEW msg \in Messages, Wrote(who, msg),
           wire' = wire, writer.at \in {"none", "waiting"} => Fits(wire, msg)
    PROVE  /\ Wired(wire)' /\ writer'.at # "none" /\ writer'.at # "waiting"
           /\ writer'.at = "sending" => Fits(wire, writer.msg)' 
  BY DEF ResponseInv, ResponseShape, WriterIs, OnTheWire, Wrote, Stopped

LEMMA StartResponseKeeps ==
    ASSUME ResponseInv, StartResponse
    PROVE  ResponseInv'
  <1> USE DEF ResponseInv, ResponseShape, Closing, Streaming
  <1>1. /\ call.at = "dispatch" /\ call' = [call EXCEPT !.at = "starting"]
        /\ Write("call", "start") /\ UNCHANGED <<stream, wire, sse, body, life>>
    BY DEF StartResponse
  <1>2. WriterIs' /\ Wrote("call", "start") /\ writer.at = "none" /\ wire = <<>> /\ ~ Stopped
    BY <1>1, WriteIs DEF Messages, OnTheWire, Stopped
  <1>3. writer'.at = "sending" /\ writer'.msg = "start" /\ Fits(wire, "start")
    BY <1>2 DEF Wrote, Fits, Messages
  <1>4. CallIs' /\ call'.at = "starting" /\ call'.outcome = call.outcome /\ call'.final = call.final
    BY <1>1 DEF CallIs, CallRecord
  <1> HIDE DEF ResponseInv
  <1>5. CallIs /\ StreamIs' /\ wire' \in Seq(Messages) /\ SseIs' /\ BodyIs' /\ LifeIs'
    BY <1>1 DEF ResponseInv, StreamIs, SseIs, BodyIs, LifeIs
  <1>6. Phases'
    BY <1>1, <1>4 DEF ResponseInv, Phases
  <1>7. Writes'
    BY <1>1, <1>2, <1>3, <1>4 DEF ResponseInv, Phases, Writes, Awaited, Wrote
  <1>8. OnTheWire'
    BY <1>1, <1>2, <1>3, <1>4 DEF ResponseInv, OnTheWire, Wrote
  <1>9. Boundary'
    BY <1>1, <1>2, <1>3, <1>4 DEF ResponseInv, Phases, Boundary
  <1>10. Outcomes'
    BY <1>1, <1>4 DEF ResponseInv, Phases, Outcomes
  <1>11. Reaped'
    <2>1. ~ writer.aborted
      BY <1>1, <1>2 DEF ResponseInv, Phases, WriterIs, Writes, Reaped, Failure
    <2>2. stream'.at = "none" /\ ~ writer'.aborted
      BY <1>1, <1>2, <2>1 DEF ResponseInv, Phases, Wrote
    <2> QED
      BY <1>4, <2>2 DEF Reaped
  <1> QED
    BY <1>2, <1>4, <1>5, <1>6, <1>7, <1>8, <1>9, <1>10, <1>11 DEF ResponseInv

LEMMA SendSegmentKeeps ==
    ASSUME ResponseInv, SendSegment
    PROVE  ResponseInv'
  <1> DEFINE seg == Head(stream.todo)
             msg == IF seg.ends THEN "end" ELSE "part"
  <1>0. stream.at = "reading" /\ stream.todo # <<>> /\ seg \in Segments
    BY DEF SendSegment, ResponseInv, ResponseShape, StreamIs
  <1>1. PICK observer \in Observed(seg) :
            /\ sse' = [sse EXCEPT !.observer = observer, !.known = FALSE]
            /\ stream' = [stream EXCEPT !.at = "sending", !.meta = UsesMetadata(seg),
                             !.knows = sse.is /\ (UsesMetadata(seg) \/ observer # "off")]
    BY DEF SendSegment, SegmentBoundary
  <1>2. Write("stream", msg) /\ UNCHANGED <<call, wire, body, life>>
    BY DEF SendSegment
  <1>3. msg \in Messages /\ (msg = "end" \/ msg = "part") /\ (seg.ends <=> msg = "end")
    BY <1>0 DEF Messages, Segments
  <1>u. UsesMetadata(seg) \in BOOLEAN /\ observer \in {"clean", "mid", "off"}
    BY <1>0, <1>1 DEF UsesMetadata, Observed, Segments, ResponseInv, ResponseShape, SseIs
  <1>c. observer = "clean" /\ ~ UsesMetadata(seg) => seg.ends
    BY <1>1 DEF Observed
  <1>4. /\ StreamIs' /\ stream'.at = "sending" /\ stream'.todo = stream.todo
        /\ stream'.meta = UsesMetadata(seg) /\ stream'.result = stream.result
    BY <1>1, <1>u DEF ResponseInv, ResponseShape, StreamIs, SseIs
  <1>5. SseIs' /\ sse'.known = FALSE /\ sse'.observer = observer
    BY <1>1, <1>u DEF ResponseInv, ResponseShape, SseIs
  <1>6. WriterIs' /\ Wrote("stream", msg)
    BY <1>2, <1>3, WriteIs DEF ResponseInv, ResponseShape
  <1>m. Head(stream'.todo).ends <=> msg = "end"
    BY <1>3, <1>4
  <1> HIDE DEF msg, seg
  <1>7. /\ call.at \in Streaming /\ writer.at # "none" /\ writer.live = FALSE
        /\ writer.for = "none" /\ call.at \notin {"dispatch", "starting", "erring", "ending"} \cup Closing
    BY <1>0 DEF ResponseInv, ResponseShape, CallIs, CallRecord, WriterIs, Phases, Writes, OnTheWire,
                Streaming, Closing
  <1>8. writer.at \in {"none", "waiting"} => Fits(wire, msg)
    BY <1>3, <1>7 DEF ResponseInv, OnTheWire, Fits, Messages
  <1>9. /\ Wired(wire)' /\ writer'.at # "none" /\ writer'.at # "waiting"
        /\ writer'.at = "sending" => Fits(wire, writer.msg)'
    BY <1>2, <1>3, <1>6, <1>8, WriteFits
  <1>10. Phases'
    BY <1>0, <1>2, <1>4, <1>7 DEF ResponseInv, Phases, Streaming
  <1>11. Writes'
    BY <1>0, <1>2, <1>4, <1>6, <1>7, <1>m, <1>3 DEF Writes, Awaited, Wrote, Failure, ResponseInv,
       ResponseShape, WriterIs, Stopped
  <1>12. OnTheWire'
    BY <1>2, <1>3, <1>6, <1>7, <1>9 DEF ResponseInv, ResponseShape, WriterIs, OnTheWire, Wrote, Stopped
  <1>13. Boundary'
    BY <1>4, <1>5, <1>c, <1>m, <1>3 DEF Boundary
  <1>14. Outcomes'
    BY <1>0, <1>2, <1>4, <1>7 DEF ResponseInv, Outcomes, Streaming
  <1>15. Reaped'
    <2>1. ~ writer.aborted
      BY <1>0, <1>7 DEF ResponseInv, Reaped, Writes, Failure
    <2> QED
      BY <1>0, <1>2, <1>4, <1>6, <1>7, <2>1 DEF ResponseInv, Reaped, Wrote
  <1> QED
    BY <1>2, <1>4, <1>5, <1>6, <1>10, <1>11, <1>12, <1>13, <1>14, <1>15
       DEF ResponseInv, ResponseShape, CallIs, BodyIs, LifeIs

\* A failure's result that is not known yet would leave no outcome.
LEMMA FailedShape ==
    ASSUME NEW c \in CallRecord, NEW result \in Results \ {"ok"}, NEW d, d = Failed(c, result)
    PROVE  d \in CallRecord /\ d.at = c.at /\ d.outcome # "completed"
  <1>1. CASE result \in Failure
    BY <1>1, FailedIs
  <1>2. CASE result = "none"
    <2>1. OutcomeOf(result) = "none"
      BY <1>2 DEF OutcomeOf
    <2>2. d = [[c EXCEPT !.outcome = "none"] EXCEPT !.cancelled = @ \/ FALSE, !.final = FALSE]
      BY <1>2, <2>1 DEF Failed, WithOutcome
    <2> QED
      BY <2>2 DEF CallRecord
  <1> QED
    BY <1>1, <1>2 DEF Results

\* The call is between its stream and the end of the iterator: nobody writes.
LEMMA QuietCall ==
    ASSUME ResponseInv, call.at \in Streaming, stream.at # "sending"
    PROVE  /\ writer.for = "none" /\ writer.result = "none" /\ writer.live = FALSE
           /\ writer.at # "none" /\ writer.msg # "final" /\ ~ (wire # <<>> /\ Last(wire) = "final")
  BY DEF ResponseInv, ResponseShape, CallIs, CallRecord, WriterIs, Writes, OnTheWire, Streaming, Closing

LEMMA StreamJoinedKeeps ==
    ASSUME ResponseInv, StreamJoined
    PROVE  ResponseInv'
  <1> DEFINE c == Failed(call, stream.result)
             Erring == /\ stream.result \in {"error", "semantic"} /\ MaySendError
                       /\ call' = [c EXCEPT !.at = "erring"]
                       /\ Write("call", "error")
                       /\ sse' = [sse EXCEPT !.known = FALSE]
             FailedNow == /\ stream.result # "ok" /\ call' = [c EXCEPT !.at = "closing"]
                          /\ UNCHANGED <<writer, sse>>
             Done == /\ call' = [call EXCEPT !.at = "closing",
                                             !.outcome = IF @ = "none" THEN "completed" ELSE @]
                     /\ UNCHANGED <<writer, sse>>
  <1>1. call.at \in {"streaming", "dropping"} /\ stream.at = "done" /\ UNCHANGED <<stream, wire, body, life>>
    BY DEF StreamJoined
  <1>2. Erring \/ FailedNow \/ Done
    BY DEF StreamJoined
  <1>3. call.at \in Streaming /\ call.at \notin {"dispatch", "starting", "erring", "closing"} \cup Closing
    BY <1>1 DEF Streaming, Closing
  <1>4. /\ writer.for = "none" /\ writer.result = "none" /\ writer.live = FALSE
        /\ writer.at # "none" /\ writer.msg # "final" /\ ~ (wire # <<>> /\ Last(wire) = "final")
    BY <1>1, <1>3, QuietCall
  <1>5. stream.result \in Results /\ CallIs
    BY DEF ResponseInv, ResponseShape, StreamIs
  <1>6. StreamIs' /\ wire' \in Seq(Messages) /\ BodyIs' /\ LifeIs'
    BY <1>1 DEF ResponseInv, ResponseShape, StreamIs, BodyIs, LifeIs
  <1>7. ASSUME call' \in CallRecord, call'.at = "closing", UNCHANGED <<writer, sse>>,
               call'.outcome = "completed" => call'.final
        PROVE  ResponseInv'
    <2>1. ResponseShape'
      BY <1>6, <1>7 DEF ResponseInv, ResponseShape, CallIs, WriterIs, SseIs
    <2>2. call'.at \notin {"dispatch", "starting", "streaming", "dropping", "reaping", "erring", "escaped",
                           "over"} \cup Streaming \cup Closing
      BY <1>7 DEF Streaming, Closing
    <2>3. Phases'
      BY <1>1, <1>3, <1>7, <2>2 DEF ResponseInv, Phases, Closing
    <2>4. Writes'
      BY <1>1, <1>4, <1>7, <2>2 DEF ResponseInv, Writes, Awaited
    <2>5. OnTheWire'
      BY <1>1, <1>3, <1>4, <1>7, <2>2 DEF ResponseInv, OnTheWire
    <2>6. Boundary' /\ Outcomes' /\ Reaped'
      BY <1>1, <1>7, <2>2 DEF Boundary, Outcomes, Reaped
    <2> QED
      BY <2>1, <2>3, <2>4, <2>5, <2>6 DEF ResponseInv
  <1>8. CASE Erring
    <2>1. c \in CallRecord /\ c.outcome # "completed"
      BY <1>5, <1>8, FailedShape DEF CallIs
    <2> HIDE DEF c
    <2>2. CallIs' /\ call'.at = "erring" /\ call'.outcome # "completed"
      BY <1>8, <2>1 DEF CallIs, CallRecord
    <2>3. SseIs' /\ sse'.known = FALSE /\ sse'.observer = sse.observer
      BY <1>8 DEF ResponseInv, ResponseShape, SseIs
    <2>4. WriterIs' /\ Wrote("call", "error")
      BY <1>8, WriteIs DEF ResponseInv, ResponseShape, Messages
    <2>5. writer.at = "waiting" => wire # <<>> /\ Last(wire) \in {"start", "end"}
      BY <1>1, <1>8 DEF ResponseInv, OnTheWire, Boundary, MaySendError
    <2>6. writer.at \in {"none", "waiting"} => Fits(wire, "error")
      BY <1>4, <2>5 DEF Fits, Messages
    <2>7. /\ Wired(wire)' /\ writer'.at # "none" /\ writer'.at # "waiting"
          /\ writer'.at = "sending" => Fits(wire, writer.msg)'
      BY <1>1, <2>4, <2>6, WriteFits DEF Messages
    <2>8. call'.at \notin {"dispatch", "starting", "streaming", "dropping", "reaping", "closing", "escaped",
                           "over", "ending"} \cup Streaming \cup Closing
      BY <2>2 DEF Streaming, Closing
    <2>9. Phases'
      BY <1>1, <1>3, <2>2, <2>3, <2>8 DEF ResponseInv, Phases, Closing
    <2>10. Writes'
      BY <1>1, <1>4, <2>2, <2>4, <2>8 DEF ResponseInv, Writes, Awaited, Wrote, Failure, Stopped
    <2>11. OnTheWire'
      <3>1. writer'.msg # "final"
        BY <1>4, <2>4 DEF ResponseInv, ResponseShape, WriterIs, Wrote, Stopped
      <3> QED
        BY <1>1, <1>4, <2>4, <2>7, <2>8, <3>1 DEF OnTheWire, Wrote
    <2>12. Boundary' /\ Outcomes' /\ Reaped'
      BY <1>1, <2>2, <2>8 DEF Boundary, Outcomes, Reaped
    <2> QED
      BY <1>6, <2>2, <2>3, <2>4, <2>9, <2>10, <2>11, <2>12 DEF ResponseInv, ResponseShape
  <1>9. CASE FailedNow
    <2>1. c \in CallRecord /\ c.outcome # "completed"
      BY <1>5, <1>9, FailedShape DEF CallIs
    <2> HIDE DEF c
    <2>2. call' \in CallRecord /\ call'.at = "closing" /\ call'.outcome # "completed"
      BY <1>9, <2>1 DEF CallRecord
    <2> QED
      BY <1>7, <1>9, <2>2
  <1>10. CASE Done
    <2>1. call' \in CallRecord /\ call'.at = "closing" /\ call'.final = call.final
          /\ (call'.outcome = "completed" => call.outcome \in {"none", "completed"})
      BY <1>5, <1>10 DEF CallIs, CallRecord
    <2>2. call.outcome \in {"none", "completed"} => call.final
      BY <1>1 DEF ResponseInv, Outcomes
    <2> QED
      BY <1>7, <1>10, <2>1, <2>2
  <1> QED
    BY <1>2, <1>8, <1>9, <1>10

\* What the cancellation of the stream task leaves.
Stopping ==
    /\ stream'.at = (IF stream.at = "sending" THEN "sending" ELSE "done")
    /\ stream.at # "reading" => stream' = stream /\ sse'.observer = sse.observer
    /\ stream.at = "reading" => stream'.result = "cancelled" /\ sse'.observer = "off"
    /\ sse'.known = sse.known /\ sse'.at = sse.at
    /\ stream.at # "sending" \/ writer.aborted => writer' = writer
    /\ stream.at = "sending" /\ ~ writer.aborted => writer'.result = "cancelled" /\ writer'.live = FALSE
    /\ writer'.for = writer.for /\ writer'.at = writer.at /\ writer'.msg = writer.msg
    /\ writer'.queued = writer.queued /\ writer'.aborted = writer.aborted

LEMMA CancelStreamIs ==
    ASSUME StreamIs, SseIs, WriterIs, CancelStream
    PROVE  StreamIs' /\ SseIs' /\ WriterIs' /\ Stopping
  <1>1. CASE stream.at = "reading"
    <2>1. /\ stream' = [stream EXCEPT !.at = "done", !.result = "cancelled"]
          /\ sse' = [sse EXCEPT !.observer = "off"] /\ writer' = writer
      BY <1>1 DEF CancelStream, StreamDone
    <2>2. StreamIs' /\ stream'.at = "done" /\ stream'.result = "cancelled"
      BY <2>1 DEF StreamIs, Results, Failure
    <2>3. SseIs' /\ sse'.observer = "off" /\ sse'.known = sse.known /\ sse'.at = sse.at
      BY <2>1 DEF SseIs
    <2>4. WriterIs'
      BY <2>1 DEF WriterIs
    <2> QED
      BY <1>1, <2>1, <2>2, <2>3, <2>4 DEF Stopping
  <1>2. CASE stream.at = "sending"
    <2>1. stream' = stream /\ sse' = sse
          /\ writer' = IF writer.aborted THEN writer
                       ELSE [writer EXCEPT !.live = FALSE, !.result = "cancelled"]
      BY <1>2 DEF CancelStream, CancelWrite
    <2>2. StreamIs' /\ SseIs'
      BY <2>1 DEF StreamIs, SseIs
    <2>3. CASE writer.aborted
      BY <1>2, <2>1, <2>2, <2>3 DEF Stopping, WriterIs
    <2>4. CASE ~ writer.aborted
      <3>1. writer' = [writer EXCEPT !.live = FALSE, !.result = "cancelled"]
        BY <2>1, <2>4
      <3>2. /\ WriterIs' /\ writer'.live = FALSE /\ writer'.result = "cancelled"
            /\ writer'.for = writer.for /\ writer'.at = writer.at /\ writer'.msg = writer.msg
            /\ writer'.queued = writer.queued /\ writer'.aborted = writer.aborted
        BY <3>1 DEF WriterIs, Results, Failure
      <3> QED
        BY <1>2, <2>1, <2>2, <2>4, <3>2 DEF Stopping
    <2> QED
      BY <2>3, <2>4
  <1>3. CASE stream.at = "done"
    BY <1>3 DEF CancelStream, Stopping, StreamIs, SseIs, WriterIs
  <1> QED
    BY <1>1, <1>2, <1>3 DEF CancelStream

\* The stream task is cancelled under a call that goes on waiting for it.
LEMMA StoppingKeeps ==
    ASSUME ResponseInv, CancelStream, call.at \in Streaming, call' \in CallRecord, call'.at \in Streaming,
           LifeIs', life'.room = life.room, life'.inflight = life.inflight, life'.emitted = life.emitted,
           UNCHANGED <<wire, body>>, call.at = "reaping" => call'.at = "reaping",
           call'.at = "reaping" => /\ call.at = "reaping" \/ stream.at # "done"
                                   /\ life'.cancels > 0,
           call'.at = "streaming" => call'.outcome = "none" /\ call'.final,
           call'.outcome # "completed", call'.at = "dropping" => call'.outcome # "none"
    PROVE  ResponseInv'
  <1>1. StreamIs' /\ SseIs' /\ WriterIs' /\ Stopping
    BY CancelStreamIs DEF ResponseInv, ResponseShape
  <1>2. ResponseShape'
    BY <1>1 DEF ResponseInv, ResponseShape, CallIs, BodyIs
  <1>3. /\ call.at \notin {"dispatch", "starting", "erring", "escaped", "closing"} \cup Closing
        /\ call'.at \notin {"dispatch", "starting", "erring", "escaped", "closing"} \cup Closing
    BY DEF Streaming, Closing
  <1>4. /\ call.at # "over" /\ call'.at # "over" /\ call.at # "ending" /\ call'.at # "ending"
        /\ call.at \in {"streaming", "dropping", "reaping"}
        /\ call'.at \in {"streaming", "dropping", "reaping"}
    BY <1>3 DEF Closing, Streaming
  <1>5. Phases'
    BY <1>1, <1>3, <1>4 DEF ResponseInv, Phases, Stopping, Streaming
  <1>6. Writes'
    <2>1. \/ writer'.result = writer.result /\ writer'.live = writer.live
          \/ writer'.result = "cancelled" /\ writer'.live = FALSE /\ stream.at = "sending"
      <3>1. CASE stream.at # "sending" \/ writer.aborted
        BY <1>1, <3>1 DEF Stopping
      <3>2. CASE stream.at = "sending" /\ ~ writer.aborted
        BY <1>1, <3>2 DEF Stopping
      <3> QED
        BY <3>1, <3>2
    <2>2. stream'.at = "sending" => stream.at = "sending" /\ stream' = stream
      BY <1>1 DEF Stopping
    <2>3. stream'.at = "sending" <=> stream.at = "sending"
      BY <1>1 DEF Stopping
    <2>4. writer'.for = writer.for /\ writer'.msg = writer.msg /\ writer'.queued = writer.queued
      BY <1>1 DEF Stopping
    <2> QED
      BY <1>3, <1>4, <2>1, <2>2, <2>3, <2>4 DEF ResponseInv, Writes, Awaited
  <1>7. OnTheWire'
    <2>1. writer'.result = "ok" => writer.result = "ok"
      BY <1>1 DEF Stopping
    <2> QED
      BY <1>1, <1>3, <1>4, <2>1 DEF ResponseInv, OnTheWire, Stopping
  <1>8. Boundary'
    BY <1>1, <1>3, <1>4 DEF ResponseInv, Boundary, Stopping
  <1>9. Outcomes'
    BY <1>3, <1>4 DEF Outcomes
  <1>10. Reaped'
    BY <1>1, <1>3, <1>4 DEF ResponseInv, Reaped, Stopping
  <1> QED
    BY <1>2, <1>5, <1>6, <1>7, <1>8, <1>9, <1>10 DEF ResponseInv

LEMMA DisconnectJoinedKeeps ==
    ASSUME ResponseInv, DisconnectJoined
    PROVE  ResponseInv'
  <1>1. /\ call.at = "streaming" /\ CancelStream /\ UNCHANGED <<wire, body, life>>
        /\ call' = [call EXCEPT !.at = "dropping", !.final = FALSE, !.outcome = "downstream_disconnected"]
    BY DEF DisconnectJoined
  <1>2. /\ call' \in CallRecord /\ call'.at = "dropping" /\ call'.outcome = "downstream_disconnected"
    BY <1>1 DEF ResponseInv, ResponseShape, CallIs, CallRecord, Streaming
  <1>3. LifeIs'
    BY <1>1 DEF ResponseInv, ResponseShape, LifeIs
  <1> QED
    BY <1>1, <1>2, <1>3, StoppingKeeps DEF Streaming

LEMMA CancelRequestKeeps ==
    ASSUME ResponseInv, CancelRequest
    PROVE  ResponseInv'
  <1>1. life' = [life EXCEPT !.cancels = @ + 1] /\ UNCHANGED <<wire, body>>
    BY DEF CancelRequest
  <1>2. /\ LifeIs' /\ life'.room = life.room /\ life'.inflight = life.inflight
        /\ life'.emitted = life.emitted /\ life'.cancels > 0
    BY <1>1 DEF ResponseInv, ResponseShape, LifeIs
  <1>3. CASE /\ call.at \in {"starting", "erring", "ending"} /\ writer.for = "call"
             /\ writer' = CancelWrite(writer) /\ UNCHANGED <<call, stream, sse>>
    <2>1. CASE writer.aborted
      <3>1. writer' = writer
        BY <1>3, <2>1 DEF CancelWrite
      <3>2. ResponseShape'
        BY <1>1, <1>2, <1>3, <3>1 DEF ResponseInv, ResponseShape, CallIs, StreamIs, WriterIs, SseIs,
           BodyIs
      <3> QED
        BY <1>1, <1>2, <1>3, <3>1, <3>2
           DEF ResponseInv, Phases, Writes, Awaited, OnTheWire, Boundary, Outcomes, Reaped
    <2>2. CASE ~ writer.aborted
      <3>1. writer' = [writer EXCEPT !.live = FALSE, !.result = "cancelled"]
        BY <1>3, <2>2 DEF CancelWrite
      <3>2. /\ WriterIs' /\ writer'.live = FALSE /\ writer'.result = "cancelled"
            /\ writer'.for = writer.for /\ writer'.at = writer.at /\ writer'.msg = writer.msg
            /\ writer'.aborted = writer.aborted
        BY <3>1 DEF ResponseInv, ResponseShape, WriterIs, Results, Failure
      <3>3. ResponseShape'
        BY <1>1, <1>2, <1>3, <3>2 DEF ResponseInv, ResponseShape, CallIs, StreamIs, SseIs, BodyIs
      <3>4. stream.at # "sending" /\ call.at # "reaping"
        BY <1>3 DEF ResponseInv, Writes
      <3>5. Phases' /\ Boundary' /\ Outcomes'
        BY <1>1, <1>2, <1>3, <3>2 DEF ResponseInv, Phases, Boundary, Outcomes
      <3>6. Writes' /\ OnTheWire'
        BY <1>1, <1>2, <1>3, <3>2, <3>4 DEF ResponseInv, Writes, Awaited, OnTheWire
      <3>7. Reaped'
        BY <1>1, <1>2, <1>3, <2>2, <3>2, <3>4 DEF ResponseInv, Reaped
      <3> QED
        BY <3>3, <3>5, <3>6, <3>7 DEF ResponseInv
    <2> QED
      BY <2>1, <2>2
  <1>4. CASE call.at = "streaming" /\ stream.at # "done" /\ CancelWaiting
    <2> DEFINE c == Failed(call, "cancelled")
    <2>1. c \in CallRecord /\ c.outcome # "completed"
      BY FailedIs DEF ResponseInv, ResponseShape, CallIs, Failure
    <2>2. call' = [c EXCEPT !.at = "reaping"] /\ CancelStream
      BY <1>4 DEF CancelWaiting
    <2> HIDE DEF c
    <2>3. call' \in CallRecord /\ call'.at = "reaping" /\ call'.outcome # "completed"
      BY <2>1, <2>2 DEF CallRecord, Streaming
    <2> QED
      BY <1>1, <1>2, <1>4, <2>2, <2>3, StoppingKeeps DEF Streaming
  <1>5. CASE call.at \in Streaming /\ CancelStream /\ UNCHANGED call
    <2>1. call' \in CallRecord /\ call'.at \in Streaming /\ call'.at = call.at
      BY <1>5 DEF ResponseInv, ResponseShape, CallIs
    <2>2. /\ call.at = "streaming" => call.outcome = "none" /\ call.final
          /\ call.outcome # "completed" /\ (call.at = "dropping" => call.outcome # "none")
      BY <1>5 DEF ResponseInv, Outcomes, Streaming, Closing
    <2> QED
      BY <1>1, <1>2, <1>5, <2>1, <2>2, StoppingKeeps
  <1>6. CASE /\ call.at \in {"closing", "joining", "finalizing"}
             /\ call' = [call EXCEPT !.cancelled = TRUE] /\ UNCHANGED <<stream, writer, sse>>
    <2>1. CallIs' /\ call'.at = call.at /\ call'.outcome = call.outcome /\ call'.final = call.final
      BY <1>6 DEF ResponseInv, ResponseShape, CallIs, CallRecord
    <2>2. ResponseShape'
      BY <1>1, <1>2, <1>6, <2>1 DEF ResponseInv, ResponseShape, StreamIs, WriterIs, SseIs, BodyIs
    <2> QED
      BY <1>1, <1>2, <1>6, <2>1, <2>2
         DEF ResponseInv, Phases, Writes, Awaited, OnTheWire, Boundary, Outcomes, Reaped
  <1> QED
    BY <1>3, <1>4, <1>5, <1>6 DEF CancelRequest, Streaming

LEMMA CloseIteratorKeeps ==
    ASSUME ResponseInv, CloseIterator
    PROVE  ResponseInv'
  <1>1. call.at = "closing" /\ body' = [body EXCEPT !.closed = TRUE] /\ UNCHANGED <<stream, wire, sse, life>>
    BY DEF CloseIterator
  <1>b. BodyIs' /\ body'.closed = TRUE
    BY <1>1 DEF ResponseInv, ResponseShape, BodyIs
  <1>2. BodyIs' /\ body'.closed = TRUE /\ StreamIs' /\ wire' \in Seq(Messages) /\ SseIs' /\ LifeIs'
    BY <1>1, <1>b DEF ResponseInv, ResponseShape, StreamIs, SseIs, LifeIs
  <1>3. /\ writer.for = "none" /\ writer.result = "none" /\ writer.live = FALSE
        /\ writer.at # "none" /\ writer.msg # "final" /\ ~ (wire # <<>> /\ Last(wire) = "final")
        /\ stream.at \in {"none", "done"}
    BY <1>1 DEF ResponseInv, ResponseShape, WriterIs, Phases, Writes, OnTheWire, Closing
  <1>4. CASE SendsFinal(call) /\ call' = [call EXCEPT !.at = "ending"] /\ Write("call", "final")
    <2>1. CallIs' /\ call'.at = "ending" /\ call'.outcome = call.outcome /\ call'.final = call.final
      BY <1>4 DEF ResponseInv, ResponseShape, CallIs, CallRecord, Closing
    <2>2. WriterIs' /\ Wrote("call", "final")
      BY <1>4, WriteIs DEF ResponseInv, ResponseShape, Messages
    <2>3. writer.at \in {"none", "waiting"} => Fits(wire, "final")
      BY <1>3 DEF ResponseInv, OnTheWire, Fits, Messages
    <2>4. /\ Wired(wire)' /\ writer'.at # "none" /\ writer'.at # "waiting"
          /\ writer'.at = "sending" => Fits(wire, writer.msg)'
      BY <1>1, <2>2, <2>3, WriteFits DEF Messages
    <2>5. Phases'
      BY <1>1, <1>2, <1>3, <2>1 DEF ResponseInv, Phases, Streaming, Closing
    <2>6. Writes'
      BY <1>1, <1>3, <2>1, <2>2 DEF ResponseInv, ResponseShape, WriterIs, Writes, Awaited, Wrote,
         Failure, Stopped
    <2>7. OnTheWire'
      BY <1>1, <1>3, <2>1, <2>2, <2>4 DEF OnTheWire, Wrote, Closing
    <2>8. Boundary' /\ Outcomes' /\ Reaped'
      BY <1>1, <1>3, <2>1 DEF ResponseInv, Boundary, Outcomes, Reaped, Closing
    <2> QED
      BY <1>2, <2>1, <2>2, <2>5, <2>6, <2>7, <2>8 DEF ResponseInv, ResponseShape
  <1>5. CASE ~ SendsFinal(call) /\ call' = [call EXCEPT !.at = "joining"] /\ UNCHANGED writer
    <2>1. /\ CallIs' /\ WriterIs' /\ call'.at = "joining" /\ call'.outcome = call.outcome
          /\ call'.final = call.final
      BY <1>5 DEF ResponseInv, ResponseShape, CallIs, CallRecord, WriterIs, Closing
    <2>2. call.outcome # "completed"
      BY <1>1, <1>5 DEF ResponseInv, Outcomes, SendsFinal
    <2>3. Phases'
      BY <1>1, <1>2, <1>3, <2>1 DEF ResponseInv, Phases, Streaming, Closing
    <2>4. Writes'
      BY <1>1, <1>3, <1>5, <2>1 DEF ResponseInv, Writes, Awaited
    <2>5. OnTheWire'
      BY <1>1, <1>3, <1>5, <2>1, <2>2 DEF ResponseInv, OnTheWire, Closing
    <2>6. Boundary' /\ Outcomes' /\ Reaped'
      BY <1>1, <1>3, <1>5, <2>1, <2>2 DEF ResponseInv, Boundary, Outcomes, Reaped, Closing
    <2> QED
      BY <1>2, <2>1, <2>3, <2>4, <2>5, <2>6 DEF ResponseInv, ResponseShape
  <1> QED
    BY <1>4, <1>5 DEF CloseIterator

\* The wire stays one response when what fits is put on it, or a torn frame.
LEMMA WireGrows ==
    ASSUME NEW w \in Seq(Messages), Wired(w), NEW msg, msg = "torn" \/ Fits(w, msg),
           w # <<>> => Last(w) \notin {"final", "torn"}
    PROVE  /\ Append(w, msg) \in Seq(Messages) /\ Append(w, msg) # <<>>
           /\ Last(Append(w, msg)) = msg /\ Wired(Append(w, msg))
  <1> DEFINE v == Append(w, msg)
  <1>1. msg \in Messages
    BY DEF Messages, Fits
  <1>2. v \in Seq(Messages) /\ Len(v) = Len(w) + 1 /\ v[Len(w) + 1] = msg /\ Len(w) \in Nat
        /\ \A i \in 1 .. Len(w) : v[i] = w[i]
    BY <1>1
  <1>3. v # <<>> /\ Last(v) = msg
    BY <1>2 DEF Last
  <1>4. w # <<>> => Last(w) = w[Len(w)] /\ Len(w) > 0
    BY DEF Last
  <1>5. msg # "torn" => (msg = "start" <=> Len(w) = 0)
    BY DEF Fits
  <1>6. Len(w) = 0 <=> w = <<>>
    OBVIOUS
  <1>7. msg = "error" => Len(w) > 0 /\ w[Len(w)] \in {"start", "end"}
    BY <1>2, <1>4, <1>5, <1>6 DEF Fits
  <1> HIDE DEF v
  <1>8. ASSUME NEW i \in 1 .. Len(v)
        PROVE  /\ v[i] = "error" => v[i - 1] \in {"start", "end"}
               /\ v[i] \in {"final", "torn"} => i = Len(v)
               /\ v[i] = "start" <=> i = 1 /\ v[i] # "torn"
    <2>1. CASE i = Len(v)
      <3>1. i = Len(w) + 1 /\ v[i] = msg
        BY <1>2, <2>1
      <3>2. msg = "error" => v[i - 1] \in {"start", "end"}
        <4>1. Len(w) > 0 => i - 1 \in 1 .. Len(w) /\ i - 1 = Len(w)
          BY <1>2, <3>1
        <4> QED
          BY <1>2, <1>7, <4>1
      <3>3. i = 1 <=> Len(w) = 0
        BY <1>2, <3>1
      <3> QED
        BY <1>5, <2>1, <3>1, <3>2, <3>3
    <2>2. CASE i # Len(v)
      <3>1. i \in 1 .. Len(w) /\ v[i] = w[i] /\ Len(w) > 0
        BY <1>2, <2>2
      <3>2. /\ w[i] = "error" => w[i - 1] \in {"start", "end"}
            /\ w[i] \in {"final", "torn"} => i = Len(w)
            /\ w[i] = "start" <=> i = 1 /\ w[i] # "torn"
        BY <3>1 DEF Wired
      <3>3. w[i] \notin {"final", "torn"}
        BY <1>4, <1>6, <3>1, <3>2
      <3>4. w[i] = "error" => i # 1
        BY <3>2
      <3>5. w[i] = "error" => v[i - 1] = w[i - 1]
        BY <1>2, <3>1, <3>4
      <3> QED
        BY <3>1, <3>2, <3>3, <3>5
    <2> QED
      BY <2>1, <2>2
  <1>9. Wired(v)
    BY <1>8 DEF Wired
  <1> QED
    BY <1>2, <1>3, <1>9 DEF v

LEMMA AdapterReturnsKeeps ==
    ASSUME ResponseInv, AdapterReturns
    PROVE  ResponseInv'
  <1>1. /\ writer.at = "sending" /\ wire' = Append(wire, writer.msg) /\ Sent
        /\ UNCHANGED <<call, stream, sse, body, life>>
    BY DEF AdapterReturns
  <1>2. /\ WriterIs /\ wire \in Seq(Messages) /\ Wired(wire) /\ Fits(wire, writer.msg)
        /\ (wire # <<>> => Last(wire) \notin {"final", "torn"}) /\ call.at # "dispatch"
    BY <1>1 DEF ResponseInv, ResponseShape, OnTheWire, Fits
  <1>3. wire' \in Seq(Messages) /\ wire' # <<>> /\ Last(wire') = writer.msg /\ Wired(wire')
    BY <1>1, <1>2, WireGrows
  <1>4. CallIs' /\ StreamIs' /\ SseIs' /\ BodyIs' /\ LifeIs'
    BY <1>1 DEF ResponseInv, ResponseShape, CallIs, StreamIs, SseIs, BodyIs, LifeIs
  <1>5. Phases' /\ Outcomes'
    BY <1>1 DEF ResponseInv, Phases, Outcomes
  <1>6. call.at \in Closing \ {"ending"} => call.outcome # "completed"
    BY <1>2 DEF ResponseInv, OnTheWire
  <1>7. writer.msg = "final" => call.at \in Closing
    BY DEF ResponseInv, OnTheWire
  <1>8. CASE Awaited
    <2>1. writer' = [writer EXCEPT !.at = "waiting", !.live = FALSE, !.result = "ok"]
      BY <1>1, <1>8 DEF Sent
    <2>2. /\ WriterIs' /\ writer'.at = "waiting" /\ writer'.live = FALSE /\ writer'.result = "ok"
          /\ writer'.for = writer.for /\ writer'.msg = writer.msg /\ writer'.aborted = writer.aborted
      BY ONLY <1>2, <2>1 DEF WriterIs, Results
    <2>3. writer.for # "none" /\ writer.result = "none"
      BY <1>8 DEF Awaited, ResponseInv, Writes
    <2>4. Writes'
      BY <1>1, <1>8, <2>2, <2>3 DEF ResponseInv, Writes
    <2>5. OnTheWire'
      BY <1>1, <1>2, <1>3, <1>6, <1>7, <2>2 DEF OnTheWire, Messages, Fits
    <2>6. Boundary'
      <3>1. \/ call.at = "starting" /\ writer.msg = "start"
            \/ stream.at = "sending" \/ call.at \in {"erring", "ending"}
        BY <1>2, <2>3 DEF ResponseInv, Writes, WriterIs
      <3> QED
        BY <1>1, <1>3, <2>2, <3>1 DEF ResponseInv, Boundary
    <2>7. Reaped'
      <3>1. writer.aborted => ~ (call.at \in {"dispatch", "starting"} \/ stream.at \in {"reading", "sending"})
        BY <2>3 DEF ResponseInv, Reaped, Failure
      <3>2. ~ (call.at = "reaping" /\ life.room /\ stream.at = "sending")
        BY <2>3 DEF ResponseInv, Reaped
      <3> QED
        BY <1>1, <2>2, <3>1, <3>2 DEF ResponseInv, Reaped
    <2> QED
      BY <1>3, <1>4, <1>5, <2>2, <2>4, <2>5, <2>6, <2>7 DEF ResponseInv, ResponseShape
  <1>9. CASE ~ Awaited
    <2>1. writer' = [writer EXCEPT !.at = "done"]
      BY <1>1, <1>9 DEF Sent
    <2>2. /\ WriterIs' /\ writer'.at = "done" /\ writer'.live = writer.live
          /\ writer'.queued = writer.queued /\ writer'.result = writer.result
          /\ writer'.for = writer.for /\ writer'.msg = writer.msg /\ writer'.aborted = writer.aborted
      BY ONLY <1>2, <2>1 DEF WriterIs
    <2>3. Writes'
      BY <1>1, <2>2 DEF ResponseInv, Writes, Awaited
    <2>4. writer.result # "ok"
      BY <1>1 DEF ResponseInv, OnTheWire
    <2>5. OnTheWire'
      BY <1>1, <1>2, <1>3, <1>6, <1>7, <2>2, <2>4 DEF OnTheWire, Messages
    <2>6. Boundary' /\ Reaped'
      BY <1>1, <2>2 DEF ResponseInv, Boundary, Reaped
    <2> QED
      BY <1>3, <1>4, <1>5, <2>2, <2>3, <2>5, <2>6 DEF ResponseInv, ResponseShape
  <1> QED
    BY <1>8, <1>9

LEMMA AdapterStopsKeeps ==
    ASSUME ResponseInv, AdapterStops
    PROVE  ResponseInv'
  <1>1. /\ writer.at = "sending" /\ wire' \in {wire, Append(wire, "torn")}
        /\ UNCHANGED <<call, stream, sse, body, life>>
    BY DEF AdapterStops
  <1>2. PICK r \in {"disconnect", "senderror"} :
            writer' = [writer EXCEPT !.at = "done", !.live = @ /\ writer.queued,
                                     !.result = IF Awaited THEN r ELSE @]
    BY DEF AdapterStops
  <1>3. /\ WriterIs /\ wire \in Seq(Messages) /\ Wired(wire)
        /\ (wire # <<>> => Last(wire) \notin {"final", "torn"}) /\ call.at # "dispatch"
    BY <1>1 DEF ResponseInv, ResponseShape, OnTheWire, Fits
  <1>4. wire' \in Seq(Messages) /\ Wired(wire') /\ (wire' # <<>> => Last(wire') # "final")
    <2>1. CASE wire' = wire
      BY <1>3, <2>1
    <2>2. CASE wire' = Append(wire, "torn")
      BY <1>3, <2>2, WireGrows
    <2> QED
      BY <1>1, <2>1, <2>2
  <1>5. /\ WriterIs' /\ writer'.at = "done" /\ (writer'.live => writer.live /\ writer.queued)
        /\ writer'.result \in {writer.result, r} /\ (~ Awaited => writer'.result = writer.result)
        /\ writer'.queued = writer.queued
        /\ writer'.for = writer.for /\ writer'.msg = writer.msg /\ writer'.aborted = writer.aborted
    <2>1. CASE Awaited
      <3>1. writer' = [writer EXCEPT !.at = "done", !.live = FALSE, !.result = r]
        BY <1>2, <1>3, <2>1 DEF Awaited, WriterIs
      <3> QED
        BY <1>3, <2>1, <3>1 DEF WriterIs, Results, Failure
    <2>2. CASE ~ Awaited
      <3>1. writer.live /\ writer.queued <=> writer.live = TRUE
        BY <1>3, <2>2 DEF Awaited, WriterIs
      <3>2. writer' = [writer EXCEPT !.at = "done"]
        BY <1>2, <1>3, <2>2, <3>1 DEF WriterIs
      <3> QED
        BY <1>3, <2>2, <3>1, <3>2 DEF WriterIs
    <2> QED
      BY <2>1, <2>2
  <1>6. ~ Awaited \/ (writer.result = "none" /\ writer.for # "none")
    BY DEF Awaited, ResponseInv, Writes
  <1>7. writer.result # "ok" /\ r # "ok" /\ r # "none" /\ r # "cancelled" /\ r \in Failure
    BY <1>1 DEF ResponseInv, OnTheWire, Failure
  <1>8. CallIs' /\ StreamIs' /\ SseIs' /\ BodyIs' /\ LifeIs'
    BY <1>1 DEF ResponseInv, ResponseShape, CallIs, StreamIs, SseIs, BodyIs, LifeIs
  <1>9. Phases' /\ Outcomes'
    BY <1>1 DEF ResponseInv, Phases, Outcomes
  <1>10. Writes'
    <2>1. writer'.live => ~ Awaited /\ writer.live
      BY <1>5 DEF Awaited
    <2>2. ~ Awaited' /\ writer'.result # "ok"
      BY <1>5, <1>7, <2>1 DEF Awaited, WriterIs
    <2> QED
      BY <1>1, <1>5, <1>6, <2>1, <2>2 DEF ResponseInv, Writes
  <1>11. OnTheWire'
    <2>1. call.at \in Closing \ {"ending"} => call.outcome # "completed"
      BY <1>3 DEF ResponseInv, OnTheWire
    <2> QED
      BY <1>1, <1>3, <1>4, <1>5, <1>7, <2>1 DEF ResponseInv, OnTheWire
  <1>12. Boundary'
    BY <1>1, <1>5 DEF ResponseInv, Boundary
  <1>13. Reaped'
    <2>1. writer.result \in Failure => writer'.result = writer.result
      BY <1>5, <1>6 DEF Failure
    <2> QED
      BY <1>1, <1>5, <2>1 DEF ResponseInv, Reaped, Failure
  <1> QED
    BY <1>4, <1>5, <1>8, <1>9, <1>10, <1>11, <1>12, <1>13 DEF ResponseInv, ResponseShape

LEMMA ResponseStarts ==
    ASSUME ResponseInit
    PROVE  ResponseInv
  <1>1. /\ call = [at |-> "dispatch", final |-> TRUE, cancelled |-> FALSE, outcome |-> "none"]
        /\ stream = [at |-> "none", result |-> "none", todo |-> <<>>, meta |-> FALSE, knows |-> FALSE]
        /\ writer = [at |-> "none", msg |-> "none", for |-> "none", live |-> FALSE,
                     queued |-> FALSE, result |-> "none", aborted |-> FALSE]
        /\ wire = <<>>
        /\ body = [closed |-> FALSE, chunks |-> 0, mid |-> "no"]
    BY DEF ResponseInit
  <1>2. PICK is \in BOOLEAN, observer \in {"clean", "off"} :
            sse = [is |-> is, observer |-> observer, known |-> is, at |-> is, metaOpen |-> FALSE]
    BY DEF ResponseInit
  <1>3. PICK listens, room \in BOOLEAN :
            life = [inflight |-> 1, emitted |-> 0, gone |-> FALSE, cancels |-> 0, listens |-> listens,
                    room |-> room]
    BY DEF ResponseInit
  <1>4. CallIs /\ BodyIs
    BY <1>1 DEF CallIs, CallRecord, BodyIs
  <1>5. StreamIs /\ WriterIs /\ wire \in Seq(Messages)
    BY <1>1 DEF StreamIs, WriterIs, Results
  <1>6. SseIs /\ LifeIs
    BY <1>2, <1>3 DEF SseIs, LifeIs
  <1>7. Phases
    BY <1>1, <1>2, <1>3 DEF Phases, Streaming, Closing
  <1>8. Writes /\ OnTheWire
    BY <1>1 DEF Writes, Awaited, OnTheWire, Wired, Closing
  <1>9. Boundary /\ Outcomes /\ Reaped
    BY <1>1 DEF Boundary, Outcomes, Reaped
  <1> QED
    BY <1>4, <1>5, <1>6, <1>7, <1>8, <1>9 DEF ResponseInv, ResponseShape

LEMMA ResponseKeeps ==
    ASSUME ResponseInv, [ResponseNext]_responseVars
    PROVE  ResponseInv'
  <1>1. ASSUME UNCHANGED responseVars
        PROVE  ResponseInv'
    BY <1>1 DEF responseVars, ResponseInv, ResponseShape, CallIs, StreamIs, WriterIs, SseIs, BodyIs,
       LifeIs,
                Phases, Writes, Awaited, OnTheWire, Boundary, Outcomes, Reaped
  <1>2. ASSUME ResponseSteps
        PROVE  ResponseInv'
    BY <1>2, StartResponseKeeps, StartedKeeps, StartFailedKeeps, StreamJoinedKeeps,
       DisconnectJoinedKeeps,
       ErrorSentKeeps, ReapKeeps, CloseIteratorKeeps, FinalSentKeeps, JoinWriterKeeps, FinalizeKeeps,
       SendSegmentKeeps, SegmentSentKeeps, SegmentFailedKeeps, AwaitWriterKeeps, ExpireKeeps
       DEF ResponseSteps
  <1>3. ASSUME NEW meta \in BOOLEAN, NEW segments \in 1 .. 2, NEW ends \in BOOLEAN,
               ReadChunk(meta, segments, ends)
        PROVE  ResponseInv'
    BY <1>3, ReadChunkKeeps
  <1>4. ASSUME DispatchEnds \/ BodyEnds \/ PeerLeaves \/ CancelRequest \/ AdapterReturns \/ AdapterStops
        PROVE  ResponseInv'
    BY <1>4, DispatchEndsKeeps, BodyEndsKeeps, PeerLeavesKeeps, CancelRequestKeeps, AdapterReturnsKeeps,
       AdapterStopsKeeps
  <1> QED
    BY <1>1, <1>2, <1>3, <1>4 DEF ResponseNext

LEMMA ResponseIsSound ==
    ASSUME ResponseInv
    PROVE  ResponseSound
  <1>1. WireSound
    <2>1. DOMAIN wire = 1 .. Len(wire)
      BY DEF ResponseInv, ResponseShape
    <2>2. \A i \in DOMAIN wire :
              /\ wire[i] = "error" => wire[i - 1] \in {"start", "end"}
              /\ wire[i] \in {"final", "torn"} => i = Len(wire)
              /\ (wire[i] = "start") <=> (i = 1 /\ wire[i] # "torn")
      BY <2>1 DEF ResponseInv, OnTheWire, Wired
    <2>3. call.at \in {"joining", "finalizing", "over"} /\ call.outcome = "completed"
             => wire # <<>> /\ Last(wire) = "final"
      BY DEF ResponseInv, OnTheWire, Closing
    <2> QED
      BY <2>2, <2>3 DEF WireSound
  <1>2. LifecycleOnce
    BY DEF ResponseInv, Phases, Reaped, Closing, LifecycleOnce
  <1> QED
    BY <1>1, <1>2 DEF ResponseSound

\* Whatever the body, the adapter, the peer and the cancellations do, and however long the
\* body is: what is on the wire is one response, whose error event never lands inside a
\* frame and whose recorded completion reached its final body, and the request leaves the
\* in-flight gauge once, with one summary (logging_response.py, middleware.py).
THEOREM ResponsesAreSound ==
    ResponseInit /\ [][ResponseNext]_responseVars => []ResponseSound
  <1>1. ResponseInit => ResponseInv
    BY ResponseStarts
  <1>2. ResponseInv /\ [ResponseNext]_responseVars => ResponseInv'
    BY ResponseKeeps
  <1>3. ResponseInv => ResponseSound
    BY ResponseIsSound
  <1> QED
    BY <1>1, <1>2, <1>3, PTL

-----------------------------------------------------------------------------
(* RustFront: what one request is, what the table is, and what both count *)

FrontPhases == {"arrive", "upload", "write", "flush", "claim", "wait", "memory", "swap", "prepare",
                "serve", "public", "settle", "notify", "over"}

Taken == [pc : FrontPhases, body : Nat, file : BOOLEAN, claim : BOOLEAN, bytes : Nat,
          overflowed : BOOLEAN, memory : Nat, loaded : Nat, detached : BOOLEAN,
          id : UNION {Identities[r] : r \in FrontRequests},
          how : {"none", "release", "complete", "nonreplayable"},
          channel : FrontRequests \cup {NoKey}, notified : BOOLEAN, lost : BOOLEAN,
          got : FrontRequests \cup {NoKey}]

\* What a request holds, by where it stands.
HoldsByPhase(x) ==
    /\ ~ x.file => x.body = 0
    /\ x.pc = "arrive" => ~ x.file
    /\ x.pc \in {"upload", "write"} => x.file
    /\ x.pc \in {"arrive", "upload", "write", "flush", "claim", "wait", "notify", "over"} => ~ x.claim
    /\ x.pc = "settle" => x.claim
    /\ x.pc \in {"arrive", "upload", "write", "flush", "claim", "wait", "memory", "swap", "over"}
          => x.memory = 0
    /\ x.pc \notin {"public", "settle", "notify"} => x.bytes = 0
    /\ x.pc = "public" => x.detached /\ (~ x.claim => x.bytes = 0)
    /\ x.pc \in {"claim", "wait"} => x.id.key # NoKey
    /\ x.pc = "wait" => x.channel \in FrontRequests
    /\ x.pc = "swap" => x.loaded + MemoryPerChunk * x.body < MemoryRoom
    /\ x.pc = "over" /\ x.file => x.lost

\* A chunk that is about to be written counts already.
Spooled(x) == (IF x.file THEN x.body ELSE 0) + (IF x.pc = "write" THEN 1 ELSE 0)
Flying(x) == IF x.pc = "public" THEN x.bytes ELSE 0

SpoolSum(h) == SumFunctionOnSet([r \in FrontRequests |-> Spooled(h[r])], FrontRequests)
FlightSum(h) == SumFunctionOnSet([r \in FrontRequests |-> Flying(h[r])], FrontRequests)
MemorySum(h) == SumFunctionOnSet([r \in FrontRequests |-> h[r].memory], FrontRequests)

Ids == [r \in FrontRequests |-> handler[r].id]

\* An entry is its owner's, who has its key, or it is completed and keeps a response of the
\* same key and hash, or none.
EntryFine(k, x, ids) ==
    /\ x.owner \in FrontRequests \cup {NoKey} /\ x.bytes \in Nat
    /\ x.response \in FrontRequests \cup {NoKey}
    /\ x.owner # NoKey => ids[x.owner].key = k /\ x.bytes = 0 /\ x.response = NoKey
    /\ x.response # NoKey => ids[x.response].key = k /\ ids[x.response].hash = x.hash

Settled(e) == {k \in DOMAIN e : e[k].owner = NoKey}

\* A table e with the completed keys f, that holds n bytes.
TableOf(e, f, n, ids) ==
    /\ IsFiniteSet(DOMAIN e) /\ NoKey \notin DOMAIN e /\ Cardinality(DOMAIN e) <= EntryLimit
    /\ \A k \in DOMAIN e : EntryFine(k, e[k], ids)
    /\ f \in Seq(DOMAIN e) /\ Range(f) = Settled(e) /\ IsInjective(f)
    /\ n = BytesOf(e, DOMAIN e)

HandlersFine ==
    /\ handler \in [FrontRequests -> Taken]
    /\ \A r \in FrontRequests : HoldsByPhase(handler[r])

CountersFine ==
    /\ counters \in [stored : Nat, inflight : Nat, reserved : Nat]
    /\ counters.stored <= StoredLimit
    /\ counters.inflight = FlightSum(handler) /\ counters.inflight <= FlightLimit
    /\ counters.reserved = MemorySum(handler)
    /\ counters.reserved < MemoryRoom \/ counters.reserved = 0
    /\ SpoolSum(handler) <= DiskRoom + Cardinality(FrontRequests) - 1

FrontInv ==
    /\ HandlersFine /\ CountersFine
    /\ TableOf(entries, finished, counters.stored, Ids)
    /\ ClaimsHeld /\ FrontWaiterWakes

\* A request r becomes x; what it had told its waiters, it still tells them.
Moves(r, x) ==
    /\ handler' = [handler EXCEPT ![r] = x]
    /\ x \in Taken /\ HoldsByPhase(x) /\ x.id = handler[r].id

Told(x) == x.notified \/ x.pc = "notify" \/ x.claim

KeepsClaim(r, x) ==
    /\ x.claim = handler[r].claim /\ x.got = handler[r].got
    /\ Told(handler[r]) => Told(x)
    /\ x.pc = "wait" => handler[r].pc = "wait" /\ x.channel = handler[r].channel

\* The counters follow what r holds, and what it holds more has its room.
CountsFollow(r, x) ==
    /\ counters' \in [stored : Nat, inflight : Int, reserved : Int]
    /\ counters'.stored <= StoredLimit
    /\ counters'.inflight = counters.inflight - Flying(handler[r]) + Flying(x)
    /\ counters'.inflight <= FlightLimit
    /\ counters'.reserved = counters.reserved - handler[r].memory + x.memory
    /\ x.memory <= handler[r].memory \/ counters'.reserved < MemoryRoom
    /\ Spooled(x) <= Spooled(handler[r])
         \/ SpoolSum(handler) - Spooled(handler[r]) + Spooled(x)
              <= DiskRoom + Cardinality(FrontRequests) - 1

LEMMA HeldIsNat ==
    ASSUME NEW x \in Taken
    PROVE  Spooled(x) \in Nat /\ Flying(x) \in Nat /\ x.memory \in Nat
  BY DEF Taken, Spooled, Flying

LEMMA RequestsFinite ==
    /\ IsFiniteSet(FrontRequests) /\ Cardinality(FrontRequests) \in Nat
    /\ DiskRoom \in Nat /\ FlightLimit \in Nat /\ MemoryRoom \in Nat /\ StoredLimit \in Nat
    /\ EntryLimit \in Nat
  BY FrontAssumption, FS_CardinalityType

LEMMA SumsMove ==
    ASSUME HandlersFine, NEW r \in FrontRequests, NEW x, Moves(r, x)
    PROVE  /\ SpoolSum(handler') = SpoolSum(handler) - Spooled(handler[r]) + Spooled(x)
           /\ FlightSum(handler') = FlightSum(handler) - Flying(handler[r]) + Flying(x)
           /\ MemorySum(handler') = MemorySum(handler) - handler[r].memory + x.memory
           /\ SpoolSum(handler) \in Nat /\ FlightSum(handler) \in Nat /\ MemorySum(handler) \in Nat
           /\ SpoolSum(handler') \in Nat /\ FlightSum(handler') \in Nat
           /\ MemorySum(handler') \in Nat
  <1> DEFINE F == FrontRequests
             g == handler'
             s(h) == [q \in F |-> Spooled(h[q])]
             f(h) == [q \in F |-> Flying(h[q])]
             m(h) == [q \in F |-> h[q].memory]
  <1>1. IsFiniteSet(F)
    BY RequestsFinite
  <1>2. /\ \A q \in F : handler[q] \in Taken /\ g[q] \in Taken
        /\ g[r] = x /\ \A q \in F : q # r => g[q] = handler[q]
    BY DEF Moves, HandlersFine
  <1> HIDE DEF g
  <1>3. /\ \A q \in F : s(handler)[q] \in Nat /\ f(handler)[q] \in Nat /\ m(handler)[q] \in Nat
        /\ \A q \in F : s(g)[q] \in Nat /\ f(g)[q] \in Nat /\ m(g)[q] \in Nat
    BY <1>2, HeldIsNat
  <1>4. /\ s(handler)[r] = Spooled(handler[r]) /\ s(g)[r] = Spooled(x)
        /\ f(handler)[r] = Flying(handler[r]) /\ f(g)[r] = Flying(x)
        /\ m(handler)[r] = handler[r].memory /\ m(g)[r] = x.memory
    BY <1>2
  <1>5. \A q \in F : q # r => /\ s(g)[q] = s(handler)[q]
                             /\ f(g)[q] = f(handler)[q]
                             /\ m(g)[q] = m(handler)[q]
    BY <1>2
  <1>6. /\ SpoolSum(handler) = SumFunctionOnSet(s(handler), F)
        /\ SpoolSum(g) = SumFunctionOnSet(s(g), F)
    BY DEF SpoolSum
  <1>7. /\ FlightSum(handler) = SumFunctionOnSet(f(handler), F)
        /\ FlightSum(g) = SumFunctionOnSet(f(g), F)
    BY DEF FlightSum
  <1>8. /\ MemorySum(handler) = SumFunctionOnSet(m(handler), F)
        /\ MemorySum(g) = SumFunctionOnSet(m(g), F)
    BY DEF MemorySum
  <1> HIDE DEF s, f, m, F
  <1>9. r \in F
    BY DEF F
  <1>10. SumFunctionOnSet(s(g), F) = SumFunctionOnSet(s(handler), F) - s(handler)[r] + s(g)[r]
    BY <1>1, <1>3, <1>5, <1>9, SumChanges
  <1>11. SumFunctionOnSet(f(g), F) = SumFunctionOnSet(f(handler), F) - f(handler)[r] + f(g)[r]
    BY <1>1, <1>3, <1>5, <1>9, SumChanges
  <1>12. SumFunctionOnSet(m(g), F) = SumFunctionOnSet(m(handler), F) - m(handler)[r] + m(g)[r]
    BY <1>1, <1>3, <1>5, <1>9, SumChanges
  <1>13. /\ SumFunctionOnSet(s(handler), F) \in Nat /\ SumFunctionOnSet(s(g), F) \in Nat
    BY <1>1, <1>3, SumIsNat
  <1>14. /\ SumFunctionOnSet(f(handler), F) \in Nat /\ SumFunctionOnSet(f(g), F) \in Nat
    BY <1>1, <1>3, SumIsNat
  <1>15. /\ SumFunctionOnSet(m(handler), F) \in Nat /\ SumFunctionOnSet(m(g), F) \in Nat
    BY <1>1, <1>3, SumIsNat
  <1> QED
    BY <1>4, <1>6, <1>7, <1>8, <1>10, <1>11, <1>12, <1>13, <1>14, <1>15 DEF g

LEMMA CountsMove ==
    ASSUME HandlersFine, CountersFine, NEW r \in FrontRequests, NEW x, Moves(r, x),
           CountsFollow(r, x)
    PROVE  HandlersFine' /\ CountersFine'
  <1>1. HandlersFine'
    BY DEF HandlersFine, Moves
  <1>2. x \in Taken /\ handler[r] \in Taken
    BY DEF Moves, HandlersFine
  <1>3. /\ Spooled(x) \in Nat /\ Flying(x) \in Nat /\ x.memory \in Nat
        /\ Spooled(handler[r]) \in Nat /\ Flying(handler[r]) \in Nat /\ handler[r].memory \in Nat
    BY <1>2, HeldIsNat
  <1>4. /\ counters'.inflight = FlightSum(handler') /\ counters'.inflight \in Nat
        /\ counters'.inflight <= FlightLimit
    BY SumsMove DEF CountsFollow, CountersFine
  <1>5. /\ counters'.reserved = MemorySum(handler') /\ counters'.reserved \in Nat
    BY SumsMove DEF CountsFollow, CountersFine
  <1>6. counters'.reserved < MemoryRoom \/ counters'.reserved = 0
    <2>1. /\ counters'.reserved = counters.reserved - handler[r].memory + x.memory
          /\ x.memory <= handler[r].memory \/ counters'.reserved < MemoryRoom
          /\ counters.reserved < MemoryRoom \/ counters.reserved = 0
          /\ counters.reserved \in Nat
      BY DEF CountsFollow, CountersFine
    <2> DEFINE c == counters.reserved
               d == counters'.reserved
               o == handler[r].memory
               n == x.memory
    <2>2. /\ d = c - o + n /\ (n <= o \/ d < MemoryRoom) /\ (c < MemoryRoom \/ c = 0)
          /\ c \in Nat /\ d \in Nat /\ o \in Nat /\ n \in Nat /\ MemoryRoom \in Nat
      BY <1>3, <1>5, <2>1, RequestsFinite
    <2> HIDE DEF c, d, o, n
    <2>3. d < MemoryRoom \/ d = 0
      BY ONLY <2>2
    <2> QED
      BY <2>3 DEF d
  <1>7. SpoolSum(handler') <= DiskRoom + Cardinality(FrontRequests) - 1
    <2>1. /\ SpoolSum(handler') = SpoolSum(handler) - Spooled(handler[r]) + Spooled(x)
          /\ SpoolSum(handler) \in Nat
      BY SumsMove
    <2>2. /\ SpoolSum(handler) <= DiskRoom + Cardinality(FrontRequests) - 1
          /\ \/ Spooled(x) <= Spooled(handler[r])
             \/ SpoolSum(handler) - Spooled(handler[r]) + Spooled(x)
                  <= DiskRoom + Cardinality(FrontRequests) - 1
      BY DEF CountsFollow, CountersFine
    <2> QED
      BY <1>3, <2>1, <2>2, RequestsFinite
  <1>8. /\ counters' \in [stored : Nat, inflight : Nat, reserved : Nat]
        /\ counters'.stored <= StoredLimit
    BY <1>4, <1>5 DEF CountsFollow
  <1> QED
    BY <1>1, <1>4, <1>5, <1>6, <1>7, <1>8 DEF CountersFine

LEMMA StillTold ==
    ASSUME HandlersFine, FrontWaiterWakes, NEW r \in FrontRequests, NEW x, Moves(r, x),
           Told(handler[r]) => Told(x),
           x.pc = "wait" => x.channel \in FrontRequests /\ Told(handler[x.channel])
    PROVE  FrontWaiterWakes'
  <1>1. /\ handler'[r] = x /\ \A q \in FrontRequests : q # r => handler'[q] = handler[q]
    BY DEF Moves, HandlersFine
  <1>2. ASSUME NEW o \in FrontRequests, Told(handler[o]) PROVE Told(handler'[o])
    BY <1>1, <1>2
  <1>3. \A q \in FrontRequests : handler[q].pc = "wait" => handler[q].channel \in FrontRequests
    BY DEF HandlersFine, HoldsByPhase
  <1>4. \A q \in FrontRequests : handler[q].pc = "wait" => Told(handler[handler[q].channel])
    BY DEF FrontWaiterWakes, Told, At
  <1>5. ASSUME NEW q \in FrontRequests, handler'[q].pc = "wait"
        PROVE  Told(handler'[handler'[q].channel])
    <2>1. CASE q = r
      BY <1>1, <1>2, <1>5, <2>1
    <2>2. CASE q # r
      BY <1>1, <1>2, <1>3, <1>4, <1>5, <2>2
    <2> QED
      BY <2>1, <2>2
  <1> QED
    BY <1>5 DEF FrontWaiterWakes, Told, At

LEMMA SameIds ==
    ASSUME HandlersFine, NEW r \in FrontRequests, NEW x, Moves(r, x)
    PROVE  /\ Ids' = Ids
           /\ \A q \in FrontRequests : KeyOf(q)' = KeyOf(q) /\ HashOf(q)' = HashOf(q)
  BY DEF Moves, HandlersFine, Ids, KeyOf, HashOf

\* A step that leaves the table as it is, and the claim of its request.
LEMMA QuietStep ==
    ASSUME FrontInv, NEW r \in FrontRequests, NEW x, Moves(r, x), KeepsClaim(r, x),
           CountsFollow(r, x), UNCHANGED <<entries, finished>>, counters'.stored = counters.stored
    PROVE  FrontInv'
  <1>1. HandlersFine' /\ CountersFine'
    BY CountsMove DEF FrontInv
  <1>2. TableOf(entries, finished, counters.stored, Ids)'
    <2>1. Ids' = Ids
      BY SameIds DEF FrontInv
    <2>2. TableOf(entries', finished', counters'.stored, Ids')
      BY <2>1 DEF FrontInv
    <2> QED
      BY <2>2
  <1>3. /\ handler'[r] = x /\ \A q \in FrontRequests : q # r => handler'[q] = handler[q]
    BY DEF Moves, HandlersFine, FrontInv
  <1>4. /\ \A q \in FrontRequests : handler'[q].claim = handler[q].claim
        /\ \A q \in FrontRequests : handler'[q].got = handler[q].got
    BY <1>3 DEF KeepsClaim
  <1>5. \A q \in FrontRequests : KeyOf(q)' = KeyOf(q) /\ HashOf(q)' = HashOf(q)
    BY SameIds DEF FrontInv
  <1>6. ClaimsHeld'
    <2>1. \A q \in FrontRequests : Owns(q)' <=> Owns(q)
      BY <1>5 DEF Owns, InTable
    <2>2. \A q \in FrontRequests : handler'[q].claim <=> KeyOf(q)' # NoKey /\ Owns(q)'
      BY <1>4, <1>5, <2>1 DEF FrontInv, ClaimsHeld
    <2>3. \A q \in FrontRequests : handler[q].got # NoKey => handler[q].got \in FrontRequests
      BY DEF FrontInv, HandlersFine, Taken
    <2>4. \A q \in FrontRequests : handler'[q].id = handler[q].id
      BY <1>3 DEF Moves
    <2>5. \A q \in FrontRequests : handler[q].got # NoKey =>
            handler[handler[q].got].id.key = handler[q].id.key
            /\ handler[handler[q].got].id.hash = handler[q].id.hash
      BY DEF FrontInv, ClaimsHeld, KeyOf, HashOf
    <2>6. \A q \in FrontRequests : handler'[q].got # NoKey =>
            handler'[handler'[q].got].id.key = handler'[q].id.key
            /\ handler'[handler'[q].got].id.hash = handler'[q].id.hash
      BY <1>4, <2>3, <2>4, <2>5
    <2> QED
      BY <2>2, <2>6 DEF ClaimsHeld, KeyOf, HashOf
  <1>7. FrontWaiterWakes'
    <2>1. x.pc = "wait" => x.channel \in FrontRequests /\ Told(handler[x.channel])
      BY DEF KeepsClaim, FrontInv, HandlersFine, HoldsByPhase, FrontWaiterWakes, Told, At
    <2> QED
      BY <2>1, StillTold DEF FrontInv, KeepsClaim
  <1> QED
    BY <1>1, <1>2, <1>6, <1>7 DEF FrontInv

\* Nor do the counters notice it.
Unnoticed(r, x) ==
    /\ Flying(x) = Flying(handler[r]) /\ x.memory = handler[r].memory
    /\ Spooled(x) <= Spooled(handler[r])

LEMMA UnnoticedStep ==
    ASSUME FrontInv, NEW r \in FrontRequests, NEW x, Moves(r, x), KeepsClaim(r, x),
           Unnoticed(r, x), UNCHANGED <<entries, finished, counters>>
    PROVE  FrontInv'
  <1>1. x \in Taken /\ handler[r] \in Taken
    BY DEF Moves, FrontInv, HandlersFine
  <1>2. /\ Flying(handler[r]) \in Nat /\ handler[r].memory \in Nat
        /\ Spooled(x) \in Nat /\ Spooled(handler[r]) \in Nat
    BY <1>1, HeldIsNat
  <1>3. /\ counters \in [stored : Nat, inflight : Nat, reserved : Nat]
        /\ counters.stored <= StoredLimit /\ counters.inflight <= FlightLimit
    BY DEF FrontInv, CountersFine
  <1>4. CountsFollow(r, x)
    BY <1>2, <1>3 DEF Unnoticed, CountsFollow
  <1> QED
    BY <1>4, QuietStep

LEMMA HandlerFine ==
    ASSUME FrontInv, NEW r \in FrontRequests
    PROVE  handler[r] \in Taken /\ HoldsByPhase(handler[r])
  BY DEF FrontInv, HandlersFine

LEMMA BeginSpoolFine ==
    ASSUME FrontInv, NEW r \in FrontRequests, BeginSpool(r)
    PROVE  FrontInv'
  <1> DEFINE o == handler[r]
             x == [o EXCEPT !.pc = "upload", !.file = TRUE]
  <1>1. o \in Taken /\ HoldsByPhase(o) /\ o.pc = "arrive"
    BY HandlerFine DEF BeginSpool, At
  <1>2. handler' = [handler EXCEPT ![r] = x]
    BY DEF BeginSpool, FrontInv, HandlersFine
  <1> HIDE DEF o
  <1>3. x \in Taken /\ x.id = o.id
    BY <1>1 DEF Taken, FrontPhases
  <1>4. HoldsByPhase(x)
    BY <1>1 DEF Taken, HoldsByPhase
  <1>5. Flying(x) = Flying(o) /\ x.memory = o.memory /\ Spooled(x) <= Spooled(o)
    BY <1>1 DEF Taken, HoldsByPhase, Flying, Spooled
  <1>6. /\ x.claim = o.claim /\ x.got = o.got /\ (Told(o) => Told(x)) /\ x.pc # "wait"
    BY <1>1 DEF Taken, Told
  <1> HIDE DEF x
  <1>7. Moves(r, x) /\ KeepsClaim(r, x) /\ Unnoticed(r, x)
    BY <1>2, <1>3, <1>4, <1>5, <1>6 DEF Moves, KeepsClaim, Unnoticed, o
  <1> QED
    BY <1>7, UnnoticedStep DEF BeginSpool

LEMMA LeavesFront ==
    ASSUME FrontInv, NEW r \in FrontRequests, NEW how \in {"none", "release"}, LeaveFront(r, how),
           handler[r].pc # "notify", handler[r].pc = "public" => ~ handler[r].claim,
           UNCHANGED <<entries, finished>>
    PROVE  FrontInv'
  <1> DEFINE o == handler[r]
             x == [o EXCEPT !.pc = "settle", !.how = how]
             y == [FileDropped(o) EXCEPT !.pc = "over", !.memory = 0, !.bytes = 0]
  <1>1. o \in Taken /\ HoldsByPhase(o) /\ o.pc # "notify" /\ (o.pc = "public" => ~ o.claim)
    BY HandlerFine
  <1>2. CASE o.claim
    <2>1. handler' = [handler EXCEPT ![r] = x] /\ counters' = counters
      BY <1>2 DEF LeaveFront, FrontInv, HandlersFine
    <2> HIDE DEF o
    <2>2. x \in Taken /\ x.id = o.id
      BY <1>1 DEF Taken, FrontPhases
    <2>3. HoldsByPhase(x)
      BY <1>1, <1>2 DEF Taken, HoldsByPhase
    <2>4. Flying(x) = Flying(o) /\ x.memory = o.memory /\ Spooled(x) <= Spooled(o)
      BY <1>1, <1>2 DEF Taken, HoldsByPhase, Flying, Spooled
    <2>5. /\ x.claim = o.claim /\ x.got = o.got /\ (Told(o) => Told(x)) /\ x.pc # "wait"
      BY <1>1, <1>2 DEF Taken, Told
    <2> HIDE DEF x
    <2>6. Moves(r, x) /\ KeepsClaim(r, x) /\ Unnoticed(r, x)
      BY <2>1, <2>2, <2>3, <2>4, <2>5 DEF Moves, KeepsClaim, Unnoticed, o
    <2> QED
      BY <2>1, <2>6, UnnoticedStep
  <1>3. CASE ~ o.claim
    <2>1. handler' = [handler EXCEPT ![r] = y]
      BY <1>3 DEF LeaveFront, FrontInv, HandlersFine
    <2>2. counters' = [counters EXCEPT !.reserved = @ - o.memory]
      BY <1>3 DEF LeaveFront
    <2> HIDE DEF o
    <2>3. y \in Taken /\ y.id = o.id
      BY <1>1 DEF Taken, FrontPhases, FileDropped
    <2>4. HoldsByPhase(y)
      BY <1>1, <1>3 DEF Taken, HoldsByPhase, FileDropped
    <2>5. /\ Flying(y) = 0 /\ Flying(o) = 0 /\ y.memory = 0 /\ o.memory \in Nat
          /\ Spooled(y) = 0 /\ Spooled(o) \in Nat
      BY <1>1, <1>3 DEF Taken, HoldsByPhase, Flying, Spooled, FileDropped
    <2>6. /\ y.claim = o.claim /\ y.got = o.got /\ (Told(o) => Told(y)) /\ y.pc # "wait"
      BY <1>1, <1>3 DEF Taken, Told, FileDropped
    <2> HIDE DEF y
    <2>7. Moves(r, y) /\ KeepsClaim(r, y)
      BY <2>1, <2>3, <2>4, <2>6 DEF Moves, KeepsClaim, o
    <2>8. /\ counters \in [stored : Nat, inflight : Nat, reserved : Nat]
          /\ counters.stored <= StoredLimit /\ counters.inflight <= FlightLimit
      BY DEF FrontInv, CountersFine
    <2>9. CountsFollow(r, y) /\ counters'.stored = counters.stored
      BY <2>2, <2>5, <2>8 DEF CountsFollow, o
    <2> QED
      BY <2>7, <2>9, QuietStep
  <1> QED
    BY <1>2, <1>3

LEMMA WriteChunkFine ==
    ASSUME FrontInv, NEW r \in FrontRequests, WriteChunk(r)
    PROVE  FrontInv'
  <1> DEFINE o == handler[r]
             x == [o EXCEPT !.pc = "upload", !.body = @ + 1]
  <1>1. o \in Taken /\ HoldsByPhase(o) /\ o.pc = "write"
    BY HandlerFine DEF WriteChunk, At
  <1>2. handler' = [handler EXCEPT ![r] = x]
    BY DEF WriteChunk, FrontInv, HandlersFine
  <1> HIDE DEF o
  <1>3. x \in Taken /\ x.id = o.id
    <2>1. o.body + 1 \in Nat
      BY <1>1 DEF Taken
    <2> QED
      BY <1>1, <2>1 DEF Taken, FrontPhases
  <1>4. HoldsByPhase(x)
    BY <1>1 DEF Taken, HoldsByPhase
  <1>5. Flying(x) = Flying(o) /\ x.memory = o.memory /\ Spooled(x) <= Spooled(o)
    BY <1>1 DEF Taken, HoldsByPhase, Flying, Spooled
  <1>6. /\ x.claim = o.claim /\ x.got = o.got /\ (Told(o) => Told(x)) /\ x.pc # "wait"
    BY <1>1 DEF Taken, Told
  <1> HIDE DEF x
  <1>7. Moves(r, x) /\ KeepsClaim(r, x) /\ Unnoticed(r, x)
    BY <1>2, <1>3, <1>4, <1>5, <1>6 DEF Moves, KeepsClaim, Unnoticed, o
  <1> QED
    BY <1>7, UnnoticedStep DEF WriteChunk

LEMMA FinishUploadFine ==
    ASSUME FrontInv, NEW r \in FrontRequests, FinishUpload(r)
    PROVE  FrontInv'
  <1> DEFINE o == handler[r]
             x == [o EXCEPT !.pc = "flush"]
  <1>1. o \in Taken /\ HoldsByPhase(o) /\ o.pc = "upload"
    BY HandlerFine DEF FinishUpload, At
  <1>2. handler' = [handler EXCEPT ![r] = x]
    BY DEF FinishUpload, Go, FrontInv, HandlersFine
  <1> HIDE DEF o
  <1>3. x \in Taken /\ x.id = o.id
    BY <1>1 DEF Taken, FrontPhases
  <1>4. HoldsByPhase(x)
    BY <1>1 DEF Taken, HoldsByPhase
  <1>5. Flying(x) = Flying(o) /\ x.memory = o.memory /\ Spooled(x) <= Spooled(o)
    BY <1>1 DEF Taken, HoldsByPhase, Flying, Spooled
  <1>6. /\ x.claim = o.claim /\ x.got = o.got /\ (Told(o) => Told(x)) /\ x.pc # "wait"
    BY <1>1 DEF Taken, Told
  <1> HIDE DEF x
  <1>7. Moves(r, x) /\ KeepsClaim(r, x) /\ Unnoticed(r, x)
    BY <1>2, <1>3, <1>4, <1>5, <1>6 DEF Moves, KeepsClaim, Unnoticed, o
  <1> QED
    BY <1>7, UnnoticedStep DEF FinishUpload

LEMMA FlushEndsFine ==
    ASSUME FrontInv, NEW r \in FrontRequests, FlushEnds(r)
    PROVE  FrontInv'
  <1> DEFINE o == handler[r]
             x == [o EXCEPT !.pc = IF o.id.key = NoKey THEN "memory" ELSE "claim"]
  <1>1. o \in Taken /\ HoldsByPhase(o) /\ o.pc = "flush"
    BY HandlerFine DEF FlushEnds, At
  <1>2. handler' = [handler EXCEPT ![r] = x]
    BY DEF FlushEnds, Go, KeyOf, FrontInv, HandlersFine
  <1> HIDE DEF o
  <1>3. x \in Taken /\ x.id = o.id
    BY <1>1 DEF Taken, FrontPhases
  <1>4. HoldsByPhase(x)
    BY <1>1 DEF Taken, HoldsByPhase
  <1>5. Flying(x) = Flying(o) /\ x.memory = o.memory /\ Spooled(x) <= Spooled(o)
    BY <1>1 DEF Taken, HoldsByPhase, Flying, Spooled
  <1>6. /\ x.claim = o.claim /\ x.got = o.got /\ (Told(o) => Told(x)) /\ x.pc # "wait"
    BY <1>1 DEF Taken, Told
  <1> HIDE DEF x
  <1>7. Moves(r, x) /\ KeepsClaim(r, x) /\ Unnoticed(r, x)
    BY <1>2, <1>3, <1>4, <1>5, <1>6 DEF Moves, KeepsClaim, Unnoticed, o
  <1> QED
    BY <1>7, UnnoticedStep DEF FlushEnds

LEMMA SpoolFailsFine ==
    ASSUME FrontInv, NEW r \in FrontRequests, SpoolFails(r)
    PROVE  FrontInv'
  <1> DEFINE o == handler[r]
             x == [SpoolFailed(o) EXCEPT !.pc = "over"]
  <1>1. o \in Taken /\ HoldsByPhase(o) /\ o.pc \in {"arrive", "upload", "write", "flush"}
    BY HandlerFine DEF SpoolFails, At
  <1>2. handler' = [handler EXCEPT ![r] = x]
    BY DEF SpoolFails, SpoolFailed, FileDropped, FrontInv, HandlersFine
  <1> HIDE DEF o
  <1>3. x \in Taken /\ x.id = o.id
    BY <1>1 DEF Taken, FrontPhases, SpoolFailed, FileDropped
  <1>4. HoldsByPhase(x)
    BY <1>1 DEF Taken, HoldsByPhase, SpoolFailed, FileDropped
  <1>5. Flying(x) = Flying(o) /\ x.memory = o.memory /\ Spooled(x) <= Spooled(o)
    BY <1>1 DEF Taken, HoldsByPhase, Flying, Spooled, SpoolFailed, FileDropped
  <1>6. /\ x.claim = o.claim /\ x.got = o.got /\ (Told(o) => Told(x)) /\ x.pc # "wait"
    BY <1>1 DEF Taken, Told, SpoolFailed, FileDropped
  <1> HIDE DEF x
  <1>7. Moves(r, x) /\ KeepsClaim(r, x) /\ Unnoticed(r, x)
    BY <1>2, <1>3, <1>4, <1>5, <1>6 DEF Moves, KeepsClaim, Unnoticed, o
  <1> QED
    BY <1>7, UnnoticedStep DEF SpoolFails

LEMMA WakeClaimFine ==
    ASSUME FrontInv, NEW r \in FrontRequests, WakeClaim(r)
    PROVE  FrontInv'
  <1> DEFINE o == handler[r]
             x == [o EXCEPT !.pc = "claim"]
  <1>1. o \in Taken /\ HoldsByPhase(o) /\ o.pc = "wait"
    BY HandlerFine DEF WakeClaim, At
  <1>2. handler' = [handler EXCEPT ![r] = x]
    BY DEF WakeClaim, Go, FrontInv, HandlersFine
  <1> HIDE DEF o
  <1>3. x \in Taken /\ x.id = o.id
    BY <1>1 DEF Taken, FrontPhases
  <1>4. HoldsByPhase(x)
    BY <1>1 DEF Taken, HoldsByPhase
  <1>5. Flying(x) = Flying(o) /\ x.memory = o.memory /\ Spooled(x) <= Spooled(o)
    BY <1>1 DEF Taken, HoldsByPhase, Flying, Spooled
  <1>6. /\ x.claim = o.claim /\ x.got = o.got /\ (Told(o) => Told(x)) /\ x.pc # "wait"
    BY <1>1 DEF Taken, Told
  <1> HIDE DEF x
  <1>7. Moves(r, x) /\ KeepsClaim(r, x) /\ Unnoticed(r, x)
    BY <1>2, <1>3, <1>4, <1>5, <1>6 DEF Moves, KeepsClaim, Unnoticed, o
  <1> QED
    BY <1>7, UnnoticedStep DEF WakeClaim

LEMMA LoadReservedFine ==
    ASSUME FrontInv, NEW r \in FrontRequests, LoadReserved(r)
    PROVE  FrontInv'
  <1> DEFINE n == counters.reserved
             o == handler[r]
             x == [o EXCEPT !.pc = "swap", !.loaded = n]
  <1>1. o \in Taken /\ HoldsByPhase(o) /\ o.pc = "memory"
    BY HandlerFine DEF LoadReserved, At
  <1>2. handler' = [handler EXCEPT ![r] = x]
    BY DEF LoadReserved, Go, FrontInv, HandlersFine
  <1>a. n \in Nat /\ n + MemoryPerChunk * o.body < MemoryRoom
    BY DEF LoadReserved, Need, FrontInv, CountersFine
  <1> HIDE DEF o, n
  <1>3. x \in Taken /\ x.id = o.id
    BY <1>1, <1>a DEF Taken, FrontPhases
  <1>4. HoldsByPhase(x)
    <2>1. x.loaded = n /\ x.body = o.body /\ x.pc = "swap"
      BY <1>1 DEF Taken
    <2>2. x.loaded + MemoryPerChunk * x.body < MemoryRoom
      BY <1>a, <2>1
    <2> QED
      BY <1>1, <2>2 DEF Taken, HoldsByPhase
  <1>5. Flying(x) = Flying(o) /\ x.memory = o.memory /\ Spooled(x) <= Spooled(o)
    BY <1>1 DEF Taken, HoldsByPhase, Flying, Spooled
  <1>6. /\ x.claim = o.claim /\ x.got = o.got /\ (Told(o) => Told(x)) /\ x.pc # "wait"
    BY <1>1 DEF Taken, Told
  <1> HIDE DEF x
  <1>7. Moves(r, x) /\ KeepsClaim(r, x) /\ Unnoticed(r, x)
    BY <1>2, <1>3, <1>4, <1>5, <1>6 DEF Moves, KeepsClaim, Unnoticed, o
  <1> QED
    BY <1>7, UnnoticedStep DEF LoadReserved

LEMMA StartPublicFine ==
    ASSUME FrontInv, NEW r \in FrontRequests, StartPublic(r)
    PROVE  FrontInv'
  <1> DEFINE o == handler[r]
             x == [FileDropped(o) EXCEPT !.pc = "public", !.detached = TRUE]
  <1>1. o \in Taken /\ HoldsByPhase(o) /\ o.pc = "serve"
    BY HandlerFine DEF StartPublic, At
  <1>2. handler' = [handler EXCEPT ![r] = x]
    BY DEF StartPublic, FrontInv, HandlersFine
  <1> HIDE DEF o
  <1>3. x \in Taken /\ x.id = o.id
    BY <1>1 DEF Taken, FrontPhases, FileDropped
  <1>4. HoldsByPhase(x)
    BY <1>1 DEF Taken, HoldsByPhase, FileDropped
  <1>5. Flying(x) = Flying(o) /\ x.memory = o.memory /\ Spooled(x) <= Spooled(o)
    BY <1>1 DEF Taken, HoldsByPhase, Flying, Spooled, FileDropped
  <1>6. /\ x.claim = o.claim /\ x.got = o.got /\ (Told(o) => Told(x)) /\ x.pc # "wait"
    BY <1>1 DEF Taken, Told, FileDropped
  <1> HIDE DEF x
  <1>7. Moves(r, x) /\ KeepsClaim(r, x) /\ Unnoticed(r, x)
    BY <1>2, <1>3, <1>4, <1>5, <1>6 DEF Moves, KeepsClaim, Unnoticed, o
  <1> QED
    BY <1>7, UnnoticedStep DEF StartPublic

LEMMA SpoolIsNat ==
    ASSUME HandlersFine
    PROVE  SpoolSum(handler) \in Nat
  <1> DEFINE s == [q \in FrontRequests |-> Spooled(handler[q])]
  <1>1. \A q \in FrontRequests : s[q] \in Nat
    BY HeldIsNat DEF HandlersFine
  <1>2. SpoolSum(handler) = SumFunctionOnSet(s, FrontRequests)
    BY DEF SpoolSum
  <1> HIDE DEF s
  <1> QED
    BY <1>1, <1>2, RequestsFinite, SumIsNat

\* All requests but one may be about to write a chunk that has found its room.
LEMMA WritersCount ==
    ASSUME HandlersFine, NEW r \in FrontRequests, handler[r].pc # "write"
    PROVE  SpoolSum(handler) <= DiskUsed + Cardinality(FrontRequests) - 1 /\ DiskUsed \in Nat
  <1> DEFINE F == FrontRequests
             R == F \ {r}
             s == [q \in F |-> Spooled(handler[q])]
             d == [q \in F |-> IF handler[q].file THEN handler[q].body ELSE 0]
             w == [q \in F |-> IF handler[q].pc = "write" THEN 1 ELSE 0]
  <1>1. IsFiniteSet(F)
    BY RequestsFinite
  <1>2. \A q \in F : handler[q] \in Taken
    BY DEF HandlersFine
  <1>3. \A q \in F : d[q] \in Nat /\ s[q] = d[q] + w[q] /\ w[q] \in {0, 1}
    BY <1>2 DEF Taken, Spooled
  <1>4. /\ \A q \in F : d[q] \in Nat
        /\ \A q \in F : w[q] \in Nat
    BY <1>3
  <1>5. w[r] = 0 /\ r \in F
    OBVIOUS
  <1>6. /\ SpoolSum(handler) = SumFunctionOnSet(s, F)
        /\ DiskUsed = SumFunctionOnSet(d, F)
    BY DEF SpoolSum, DiskUsed, At
  <1> HIDE DEF s, d, w, F
  <1>7. SumFunctionOnSet(s, F) = SumFunctionOnSet(d, F) + SumFunctionOnSet(w, F)
    BY <1>1, <1>3, <1>4, SumOfSums
  <1>8. SumFunctionOnSet(w, F) = w[r] + SumFunctionOnSet(w, R)
    BY <1>1, <1>4, <1>5, SumSplit
  <1>9. IsFiniteSet(R) /\ Cardinality(R) = Cardinality(F) - 1
    BY <1>1, <1>5, FS_RemoveElement
  <1>10. \A q \in R : w[q] \in {0, 1}
    BY <1>3
  <1> HIDE DEF R
  <1>11. SumFunctionOnSet(w, R) <= Cardinality(R)
    BY <1>9, <1>10, SumOfOnes
  <1>12. /\ SumFunctionOnSet(d, F) \in Nat /\ SumFunctionOnSet(w, F) \in Nat
    BY <1>1, <1>4, SumIsNat
  <1>13. SumFunctionOnSet(w, R) \in Nat /\ Cardinality(F) \in Nat
    <2>1. \A q \in R : w[q] \in Nat
      BY <1>10
    <2> QED
      BY <1>1, <1>9, <2>1, SumIsNat, FS_CardinalityType
  <1>14. SumFunctionOnSet(s, F) <= SumFunctionOnSet(d, F) + Cardinality(F) - 1
    BY <1>5, <1>7, <1>8, <1>9, <1>11, <1>12, <1>13
  <1> QED
    BY <1>6, <1>12, <1>14 DEF F

LEMMA CheckChunkFine ==
    ASSUME FrontInv, NEW r \in FrontRequests, CheckChunk(r)
    PROVE  FrontInv'
  <1> DEFINE o == handler[r]
             x == [o EXCEPT !.pc = "write"]
  <1>1. o \in Taken /\ HoldsByPhase(o) /\ o.pc = "upload"
    BY HandlerFine DEF CheckChunk, At
  <1>2. handler' = [handler EXCEPT ![r] = x]
    BY DEF CheckChunk, Go, FrontInv, HandlersFine
  <1>a. SpoolSum(handler) + 1 <= DiskRoom + Cardinality(FrontRequests) - 1
    <2>1. DiskUsed + 1 <= DiskRoom /\ handler[r].pc # "write"
      BY <1>1 DEF CheckChunk
    <2>2. SpoolSum(handler) <= DiskUsed + Cardinality(FrontRequests) - 1 /\ DiskUsed \in Nat
      BY <2>1, WritersCount DEF FrontInv
    <2> QED
      BY <2>1, <2>2, RequestsFinite, SpoolIsNat DEF FrontInv
  <1> HIDE DEF o
  <1>3. x \in Taken /\ x.id = o.id
    BY <1>1 DEF Taken, FrontPhases
  <1>4. HoldsByPhase(x)
    BY <1>1 DEF Taken, HoldsByPhase
  <1>5. /\ Flying(x) = Flying(o) /\ x.memory = o.memory /\ Spooled(x) = Spooled(o) + 1
        /\ Flying(o) \in Nat /\ o.memory \in Nat /\ Spooled(o) \in Nat
    BY <1>1 DEF Taken, HoldsByPhase, Flying, Spooled
  <1>6. /\ x.claim = o.claim /\ x.got = o.got /\ (Told(o) => Told(x)) /\ x.pc # "wait"
    BY <1>1 DEF Taken, Told
  <1> HIDE DEF x
  <1>7. Moves(r, x) /\ KeepsClaim(r, x)
    BY <1>2, <1>3, <1>4, <1>6 DEF Moves, KeepsClaim, o
  <1>8. /\ counters \in [stored : Nat, inflight : Nat, reserved : Nat]
        /\ counters.stored <= StoredLimit /\ counters.inflight <= FlightLimit
    BY DEF FrontInv, CountersFine
  <1>9. counters' = counters /\ UNCHANGED <<entries, finished>>
    BY DEF CheckChunk
  <1>10. SpoolSum(handler) - Spooled(o) + Spooled(x) <= DiskRoom + Cardinality(FrontRequests) - 1
    BY <1>a, <1>5, RequestsFinite, SpoolIsNat DEF FrontInv
  <1>11. CountsFollow(r, x)
    BY <1>5, <1>8, <1>9, <1>10 DEF CountsFollow, o
  <1> QED
    BY <1>7, <1>9, <1>11, QuietStep

LEMMA WaitTimesOutFine ==
    ASSUME FrontInv, NEW r \in FrontRequests, WaitTimesOut(r)
    PROVE  FrontInv'
  <1> DEFINE o == handler[r]
  <1>1. o \in Taken /\ HoldsByPhase(o) /\ o.pc = "wait"
    BY HandlerFine DEF WaitTimesOut, At
  <1>b. UNCHANGED <<entries, finished>>
    BY DEF WaitTimesOut, Refused
  <1> DEFINE x == [FileDropped(o) EXCEPT !.pc = "over"]
  <1>2. handler' = [handler EXCEPT ![r] = x]
    BY DEF WaitTimesOut, Refused, FrontInv, HandlersFine
  <1>3. counters' = counters
    BY DEF WaitTimesOut
  <1> HIDE DEF o
  <1>4. x \in Taken /\ x.id = o.id
    BY <1>1 DEF Taken, FrontPhases, FileDropped
  <1>5. HoldsByPhase(x)
    BY <1>1 DEF Taken, HoldsByPhase, FileDropped
  <1>6. Flying(x) = Flying(o) /\ x.memory = o.memory /\ Spooled(x) <= Spooled(o)
    BY <1>1 DEF Taken, HoldsByPhase, Flying, Spooled, FileDropped
  <1>7. /\ x.claim = o.claim /\ x.got = o.got /\ (Told(o) => Told(x)) /\ x.pc # "wait"
    BY <1>1 DEF Taken, Told, FileDropped
  <1> HIDE DEF x
  <1>8. Moves(r, x) /\ KeepsClaim(r, x)
    BY <1>2, <1>4, <1>5, <1>7 DEF Moves, KeepsClaim, o
  <1>9. Unnoticed(r, x)
    BY <1>6 DEF Unnoticed, o
  <1> QED
    BY <1>3, <1>8, <1>9, <1>b, UnnoticedStep

LEMMA MemoryTimesOutFine ==
    ASSUME FrontInv, NEW r \in FrontRequests, MemoryTimesOut(r)
    PROVE  FrontInv'
  BY LeavesFront DEF MemoryTimesOut, At

LEMMA ServeFailsFine ==
    ASSUME FrontInv, NEW r \in FrontRequests, ServeFails(r)
    PROVE  FrontInv'
  BY LeavesFront DEF ServeFails, At

LEMMA WholeResponseFine ==
    ASSUME FrontInv, NEW r \in FrontRequests, WholeResponse(r)
    PROVE  FrontInv'
  <1> DEFINE o == handler[r]
  <1>1. o \in Taken /\ HoldsByPhase(o) /\ o.pc = "serve"
    BY HandlerFine DEF WholeResponse, At
  <1>b. UNCHANGED <<entries, finished>>
    BY DEF WholeResponse
  <1>2. CASE ~ o.claim
    BY <1>1, <1>2, <1>b, LeavesFront DEF WholeResponse
  <1>3. CASE o.claim
    <2>1. PICK n \in 0..(KeepLimit + 1) :
            /\ handler' = [handler EXCEPT ![r].pc = "settle", ![r].bytes = n,
                                  ![r].how = IF n > KeepLimit THEN "nonreplayable" ELSE "complete"]
            /\ UNCHANGED counters
      BY <1>3 DEF WholeResponse
    <2>a. n \in Nat
      BY FrontAssumption
    <2> DEFINE x == [o EXCEPT !.pc = "settle", !.bytes = n,
                      !.how = IF n > KeepLimit THEN "nonreplayable" ELSE "complete"]
    <2>2. handler' = [handler EXCEPT ![r] = x]
      BY <2>1 DEF FrontInv, HandlersFine
    <2>3. counters' = counters
      BY <2>1
    <2> HIDE DEF o
    <2>4. x \in Taken /\ x.id = o.id
      BY <1>1, <1>3, <2>a DEF Taken, FrontPhases
    <2>5. HoldsByPhase(x)
      BY <1>1, <1>3, <2>a DEF Taken, HoldsByPhase
    <2>6. Flying(x) = Flying(o) /\ x.memory = o.memory /\ Spooled(x) <= Spooled(o)
      BY <1>1, <1>3, <2>a DEF Taken, HoldsByPhase, Flying, Spooled
    <2>7. /\ x.claim = o.claim /\ x.got = o.got /\ (Told(o) => Told(x)) /\ x.pc # "wait"
      BY <1>1, <1>3, <2>a DEF Taken, Told
    <2> HIDE DEF x
    <2>8. Moves(r, x) /\ KeepsClaim(r, x)
      BY <2>2, <2>4, <2>5, <2>7 DEF Moves, KeepsClaim, o
    <2>9. Unnoticed(r, x)
      BY <2>6 DEF Unnoticed, o
    <2> QED
      BY <2>3, <2>8, <2>9, <1>b, UnnoticedStep
  <1> QED
    BY <1>2, <1>3

LEMMA PrepareFine ==
    ASSUME FrontInv, NEW r \in FrontRequests, Prepare(r)
    PROVE  FrontInv'
  <1> DEFINE o == handler[r]
  <1>1. o \in Taken /\ HoldsByPhase(o) /\ o.pc = "prepare"
    BY HandlerFine DEF Prepare, At
  <1>b. UNCHANGED <<entries, finished>>
    BY DEF Prepare
  <1>c. /\ counters \in [stored : Nat, inflight : Nat, reserved : Nat]
        /\ counters.stored <= StoredLimit /\ counters.inflight <= FlightLimit
        /\ FlightLimit \in Nat /\ MemoryRoom \in Nat
    BY RequestsFinite DEF FrontInv, CountersFine
  <1>2. CASE Go(r, "serve") /\ UNCHANGED counters
    <2> DEFINE x == [o EXCEPT !.pc = "serve"]
    <2>2. handler' = [handler EXCEPT ![r] = x]
      BY <1>2 DEF Go, FrontInv, HandlersFine
    <2>3. counters' = counters
      BY <1>2
    <2> HIDE DEF o
    <2>4. x \in Taken /\ x.id = o.id
      BY <1>1 DEF Taken, FrontPhases
    <2>5. HoldsByPhase(x)
      BY <1>1 DEF Taken, HoldsByPhase
    <2>6. Flying(x) = Flying(o) /\ x.memory = o.memory /\ Spooled(x) <= Spooled(o)
      BY <1>1 DEF Taken, HoldsByPhase, Flying, Spooled
    <2>7. /\ x.claim = o.claim /\ x.got = o.got /\ (Told(o) => Told(x)) /\ x.pc # "wait"
      BY <1>1 DEF Taken, Told
    <2> HIDE DEF x
    <2>8. Moves(r, x) /\ KeepsClaim(r, x)
      BY <2>2, <2>4, <2>5, <2>7 DEF Moves, KeepsClaim, o
    <2>9. Unnoticed(r, x)
      BY <2>6 DEF Unnoticed, o
    <2> QED
      BY <2>3, <2>8, <2>9, <1>b, UnnoticedStep
  <1>3. CASE /\ handler' = [handler EXCEPT ![r].pc = "serve", ![r].memory = 0]
             /\ counters' = [counters EXCEPT !.reserved = @ - handler[r].memory]
    <2> DEFINE x == [o EXCEPT !.pc = "serve", !.memory = 0]
    <2>2. handler' = [handler EXCEPT ![r] = x]
      BY <1>3 DEF FrontInv, HandlersFine
    <2>3. counters' = [counters EXCEPT !.reserved = @ - o.memory]
      BY <1>3
    <2> HIDE DEF o
    <2>4. x \in Taken /\ x.id = o.id
      BY <1>1 DEF Taken, FrontPhases
    <2>5. HoldsByPhase(x)
      BY <1>1 DEF Taken, HoldsByPhase
    <2>6. /\ Flying(x) = Flying(o) /\ Flying(o) \in Nat /\ x.memory = 0 /\ o.memory \in Nat
        /\ Spooled(x) \in Nat /\ Spooled(o) \in Nat /\ Spooled(x) <= Spooled(o)
      BY <1>1 DEF Taken, HoldsByPhase, Flying, Spooled
    <2>7. /\ x.claim = o.claim /\ x.got = o.got /\ (Told(o) => Told(x)) /\ x.pc # "wait"
      BY <1>1 DEF Taken, Told
    <2> HIDE DEF x
    <2>8. Moves(r, x) /\ KeepsClaim(r, x)
      BY <2>2, <2>4, <2>5, <2>7 DEF Moves, KeepsClaim, o
    <2>9. CountsFollow(r, x) /\ counters'.stored = counters.stored
      BY <2>3, <2>6, <1>c DEF CountsFollow, o
    <2> QED
      BY <2>8, <2>9, <1>b, QuietStep
  <1> QED
    BY <1>2, <1>3 DEF Prepare

LEMMA SendNoticeFine ==
    ASSUME FrontInv, NEW r \in FrontRequests, SendNotice(r)
    PROVE  FrontInv'
  <1> DEFINE o == handler[r]
  <1>1. o \in Taken /\ HoldsByPhase(o) /\ o.pc = "notify"
    BY HandlerFine DEF SendNotice, At
  <1>b. UNCHANGED <<entries, finished>>
    BY DEF SendNotice
  <1>c. /\ counters \in [stored : Nat, inflight : Nat, reserved : Nat]
        /\ counters.stored <= StoredLimit /\ counters.inflight <= FlightLimit
        /\ FlightLimit \in Nat /\ MemoryRoom \in Nat
    BY RequestsFinite DEF FrontInv, CountersFine
  <1> DEFINE x == Notified([FileDropped(o) EXCEPT !.memory = 0])
  <1>2. handler' = [handler EXCEPT ![r] = x]
    BY DEF SendNotice, Notified, FileDropped, FrontInv, HandlersFine
  <1>3. counters' = [counters EXCEPT !.reserved = @ - o.memory]
    BY DEF SendNotice
  <1> HIDE DEF o
  <1>4. x \in Taken /\ x.id = o.id
    BY <1>1 DEF Taken, FrontPhases, Notified, FileDropped
  <1>5. HoldsByPhase(x)
    BY <1>1 DEF Taken, HoldsByPhase, Notified, FileDropped
  <1>6. /\ Flying(x) = Flying(o) /\ Flying(o) \in Nat /\ x.memory = 0 /\ o.memory \in Nat
        /\ Spooled(x) \in Nat /\ Spooled(o) \in Nat /\ Spooled(x) <= Spooled(o)
    BY <1>1 DEF Taken, HoldsByPhase, Flying, Spooled, Notified, FileDropped
  <1>7. /\ x.claim = o.claim /\ x.got = o.got /\ (Told(o) => Told(x)) /\ x.pc # "wait"
    BY <1>1 DEF Taken, Told, Notified, FileDropped
  <1> HIDE DEF x
  <1>8. Moves(r, x) /\ KeepsClaim(r, x)
    BY <1>2, <1>4, <1>5, <1>7 DEF Moves, KeepsClaim, o
  <1>9. CountsFollow(r, x) /\ counters'.stored = counters.stored
    BY <1>3, <1>6, <1>c DEF CountsFollow, o
  <1> QED
    BY <1>8, <1>9, <1>b, QuietStep

LEMMA SwapReservedFine ==
    ASSUME FrontInv, NEW r \in FrontRequests, SwapReserved(r)
    PROVE  FrontInv'
  <1> DEFINE o == handler[r]
  <1>1. o \in Taken /\ HoldsByPhase(o) /\ o.pc = "swap"
    BY HandlerFine DEF SwapReserved, At
  <1>b. UNCHANGED <<entries, finished>>
    BY DEF SwapReserved
  <1>c. /\ counters \in [stored : Nat, inflight : Nat, reserved : Nat]
        /\ counters.stored <= StoredLimit /\ counters.inflight <= FlightLimit
        /\ FlightLimit \in Nat /\ MemoryRoom \in Nat
    BY RequestsFinite DEF FrontInv, CountersFine
  <1>2. CASE counters.reserved # o.loaded
    <2> DEFINE x == [o EXCEPT !.pc = "memory", !.loaded = 0]
    <2>2. handler' = [handler EXCEPT ![r] = x]
      BY <1>2 DEF SwapReserved, FrontInv, HandlersFine
    <2>3. counters' = counters
      BY <1>2 DEF SwapReserved
    <2> HIDE DEF o
    <2>4. x \in Taken /\ x.id = o.id
      BY <1>1 DEF Taken, FrontPhases
    <2>5. HoldsByPhase(x)
      BY <1>1 DEF Taken, HoldsByPhase
    <2>6. Flying(x) = Flying(o) /\ x.memory = o.memory /\ Spooled(x) <= Spooled(o)
      BY <1>1 DEF Taken, HoldsByPhase, Flying, Spooled
    <2>7. /\ x.claim = o.claim /\ x.got = o.got /\ (Told(o) => Told(x)) /\ x.pc # "wait"
      BY <1>1 DEF Taken, Told
    <2> HIDE DEF x
    <2>8. Moves(r, x) /\ KeepsClaim(r, x)
      BY <2>2, <2>4, <2>5, <2>7 DEF Moves, KeepsClaim, o
    <2>9. Unnoticed(r, x)
      BY <2>6 DEF Unnoticed, o
    <2> QED
      BY <2>3, <2>8, <2>9, <1>b, UnnoticedStep
  <1>3. CASE counters.reserved = o.loaded
    <2> DEFINE need == Need(r)
    <2>1. need \in Nat /\ o.loaded + need < MemoryRoom
      BY <1>1, FrontAssumption DEF Need, Taken, HoldsByPhase
    <2>a. /\ handler' = [handler EXCEPT ![r].pc = "prepare", ![r].memory = need, ![r].loaded = 0]
          /\ counters' = [counters EXCEPT !.reserved = counters.reserved + need]
      BY <1>3 DEF SwapReserved
    <2> HIDE DEF need
    <2> DEFINE x == [o EXCEPT !.pc = "prepare", !.memory = need, !.loaded = 0]
    <2>2. handler' = [handler EXCEPT ![r] = x]
      BY <2>a DEF FrontInv, HandlersFine
    <2>3. counters' = [counters EXCEPT !.reserved = counters.reserved + need]
      BY <2>a
    <2> HIDE DEF o
    <2>4. x \in Taken /\ x.id = o.id
      BY <1>1, <2>1 DEF Taken, FrontPhases
    <2>5. HoldsByPhase(x)
      BY <1>1, <2>1 DEF Taken, HoldsByPhase
    <2>6. /\ Flying(x) = Flying(o) /\ Flying(o) \in Nat /\ x.memory = need /\ o.memory = 0
          /\ Spooled(x) \in Nat /\ Spooled(o) \in Nat /\ Spooled(x) <= Spooled(o)
      BY <1>1, <2>1 DEF Taken, HoldsByPhase, Flying, Spooled
    <2>7. /\ x.claim = o.claim /\ x.got = o.got /\ (Told(o) => Told(x)) /\ x.pc # "wait"
      BY <1>1, <2>1 DEF Taken, Told
    <2> HIDE DEF x
    <2>8. Moves(r, x) /\ KeepsClaim(r, x)
      BY <2>2, <2>4, <2>5, <2>7 DEF Moves, KeepsClaim, o
    <2>9. CountsFollow(r, x) /\ counters'.stored = counters.stored
      BY <2>3, <2>6, <1>c, <2>1, <1>3 DEF CountsFollow, o
    <2> QED
      BY <2>8, <2>9, <1>b, QuietStep
  <1> QED
    BY <1>2, <1>3

LEMMA CaptureSegmentFine ==
    ASSUME FrontInv, NEW r \in FrontRequests, CaptureSegment(r)
    PROVE  FrontInv'
  <1> DEFINE o == handler[r]
  <1>1. o \in Taken /\ HoldsByPhase(o) /\ o.pc = "public" /\ o.claim
    BY HandlerFine DEF CaptureSegment, At
  <1>b. UNCHANGED <<entries, finished>>
    BY DEF CaptureSegment
  <1>c. /\ counters \in [stored : Nat, inflight : Nat, reserved : Nat]
        /\ counters.stored <= StoredLimit /\ counters.inflight <= FlightLimit
        /\ FlightLimit \in Nat /\ MemoryRoom \in Nat
    BY RequestsFinite DEF FrontInv, CountersFine
  <1> DEFINE fits == o.bytes + 1 <= KeepLimit /\ counters.inflight + 1 <= FlightLimit
  <1>2. CASE fits
    <2>a. /\ handler' = [handler EXCEPT ![r].bytes = @ + 1]
          /\ counters' = [counters EXCEPT !.inflight = @ + 1]
      BY <1>2 DEF CaptureSegment
    <2>1. o.bytes + 1 \in Nat /\ counters.inflight + 1 <= FlightLimit
      BY <1>1, <1>2 DEF Taken
    <2> HIDE DEF fits
    <2> DEFINE x == [o EXCEPT !.bytes = @ + 1]
    <2>2. handler' = [handler EXCEPT ![r] = x]
      BY <2>a DEF FrontInv, HandlersFine
    <2>3. counters' = [counters EXCEPT !.inflight = @ + 1]
      BY <2>a
    <2> HIDE DEF o
    <2>4. x \in Taken /\ x.id = o.id
      BY <1>1, <2>1 DEF Taken, FrontPhases
    <2>5. HoldsByPhase(x)
      BY <1>1, <2>1 DEF Taken, HoldsByPhase
    <2>6. /\ Flying(x) = o.bytes + 1 /\ Flying(o) = o.bytes /\ o.bytes \in Nat /\ x.memory = o.memory
          /\ o.memory \in Nat /\ Spooled(x) \in Nat /\ Spooled(o) \in Nat /\ Spooled(x) <= Spooled(o)
      BY <1>1, <2>1 DEF Taken, HoldsByPhase, Flying, Spooled
    <2>7. /\ x.claim = o.claim /\ x.got = o.got /\ (Told(o) => Told(x)) /\ x.pc # "wait"
      BY <1>1, <2>1 DEF Taken, Told
    <2> HIDE DEF x
    <2>8. Moves(r, x) /\ KeepsClaim(r, x)
      BY <2>2, <2>4, <2>5, <2>7 DEF Moves, KeepsClaim, o
    <2>9. CountsFollow(r, x) /\ counters'.stored = counters.stored
      BY <2>3, <2>6, <1>c, <2>1 DEF CountsFollow, o
    <2> QED
      BY <2>8, <2>9, <1>b, QuietStep
  <1>3. CASE ~ fits
    <2>a. /\ handler' = [handler EXCEPT ![r].bytes = 0, ![r].overflowed = TRUE]
          /\ counters' = [counters EXCEPT !.inflight = @ - o.bytes]
      BY <1>3 DEF CaptureSegment
    <2> HIDE DEF fits
    <2> DEFINE x == [o EXCEPT !.bytes = 0, !.overflowed = TRUE]
    <2>2. handler' = [handler EXCEPT ![r] = x]
      BY <2>a DEF FrontInv, HandlersFine
    <2>3. counters' = [counters EXCEPT !.inflight = @ - o.bytes]
      BY <2>a
    <2> HIDE DEF o
    <2>4. x \in Taken /\ x.id = o.id
      BY <1>1 DEF Taken, FrontPhases
    <2>5. HoldsByPhase(x)
      BY <1>1 DEF Taken, HoldsByPhase
    <2>6. /\ Flying(x) = 0 /\ Flying(o) = o.bytes /\ o.bytes \in Nat /\ x.memory = o.memory
          /\ o.memory \in Nat /\ Spooled(x) \in Nat /\ Spooled(o) \in Nat /\ Spooled(x) <= Spooled(o)
      BY <1>1 DEF Taken, HoldsByPhase, Flying, Spooled
    <2>7. /\ x.claim = o.claim /\ x.got = o.got /\ (Told(o) => Told(x)) /\ x.pc # "wait"
      BY <1>1 DEF Taken, Told
    <2> HIDE DEF x
    <2>8. Moves(r, x) /\ KeepsClaim(r, x)
      BY <2>2, <2>4, <2>5, <2>7 DEF Moves, KeepsClaim, o
    <2>9. CountsFollow(r, x) /\ counters'.stored = counters.stored
      BY <2>3, <2>6, <1>c DEF CountsFollow, o
    <2> QED
      BY <2>8, <2>9, <1>b, QuietStep
  <1> QED
    BY <1>2, <1>3

LEMMA FinishPublicFine ==
    ASSUME FrontInv, NEW r \in FrontRequests, FinishPublic(r)
    PROVE  FrontInv'
  <1> DEFINE o == handler[r]
  <1>1. o \in Taken /\ HoldsByPhase(o) /\ o.pc = "public"
    BY HandlerFine DEF FinishPublic, At
  <1>b. UNCHANGED <<entries, finished>>
    BY DEF FinishPublic
  <1>c. /\ counters \in [stored : Nat, inflight : Nat, reserved : Nat]
        /\ counters.stored <= StoredLimit /\ counters.inflight <= FlightLimit
        /\ FlightLimit \in Nat /\ MemoryRoom \in Nat
    BY RequestsFinite DEF FrontInv, CountersFine
  <1>2. CASE ~ o.claim
    BY <1>1, <1>2, <1>b, LeavesFront DEF FinishPublic
  <1>3. CASE o.claim
    <2>1. PICK how \in {"release", IF o.overflowed THEN "nonreplayable" ELSE "complete"} :
            /\ handler' = [handler EXCEPT ![r].pc = "settle", ![r].how = how]
            /\ counters' = [counters EXCEPT !.inflight = @ - o.bytes]
      BY <1>3 DEF FinishPublic
    <2>a. how \in {"release", "nonreplayable", "complete"}
      OBVIOUS
    <2> DEFINE x == [o EXCEPT !.pc = "settle", !.how = how]
    <2>2. handler' = [handler EXCEPT ![r] = x]
      BY <2>1 DEF FrontInv, HandlersFine
    <2>3. counters' = [counters EXCEPT !.inflight = @ - o.bytes]
      BY <2>1
    <2> HIDE DEF o
    <2>4. x \in Taken /\ x.id = o.id
      BY <1>1, <1>3, <2>a DEF Taken, FrontPhases
    <2>5. HoldsByPhase(x)
      BY <1>1, <1>3, <2>a DEF Taken, HoldsByPhase
    <2>6. /\ Flying(x) = 0 /\ Flying(o) = o.bytes /\ o.bytes \in Nat /\ x.memory = o.memory
          /\ o.memory \in Nat /\ Spooled(x) \in Nat /\ Spooled(o) \in Nat /\ Spooled(x) <= Spooled(o)
      BY <1>1, <1>3, <2>a DEF Taken, HoldsByPhase, Flying, Spooled
    <2>7. /\ x.claim = o.claim /\ x.got = o.got /\ (Told(o) => Told(x)) /\ x.pc # "wait"
      BY <1>1, <1>3, <2>a DEF Taken, Told
    <2> HIDE DEF x
    <2>8. Moves(r, x) /\ KeepsClaim(r, x)
      BY <2>2, <2>4, <2>5, <2>7 DEF Moves, KeepsClaim, o
    <2>9. CountsFollow(r, x) /\ counters'.stored = counters.stored
      BY <2>3, <2>6, <1>c DEF CountsFollow, o
    <2> QED
      BY <2>8, <2>9, <1>b, QuietStep
  <1> QED
    BY <1>2, <1>3

LEMMA HandlerDroppedFine ==
    ASSUME FrontInv, NEW r \in FrontRequests, HandlerDropped(r)
    PROVE  FrontInv'
  <1> DEFINE o == handler[r]
  <1>1. o \in Taken /\ HoldsByPhase(o) /\ o.pc # "over" /\ ~ o.detached /\ o.pc # "notify" /\ o.pc # "public"
    BY HandlerFine DEF HandlerDropped, At, Live, HoldsByPhase
  <1>b. UNCHANGED <<entries, finished>>
    BY DEF HandlerDropped
  <1>c. /\ counters \in [stored : Nat, inflight : Nat, reserved : Nat]
        /\ counters.stored <= StoredLimit /\ counters.inflight <= FlightLimit
        /\ FlightLimit \in Nat /\ MemoryRoom \in Nat
    BY RequestsFinite DEF FrontInv, CountersFine
  <1>2. CASE o.pc \in {"arrive", "upload", "write", "flush"}
    BY <1>1, <1>2, <1>b, SpoolFailsFine DEF HandlerDropped, SpoolFails
  <1>3. CASE o.pc \notin {"arrive", "upload", "write", "flush"} /\ ~ o.claim
    BY <1>1, <1>3, <1>b, LeavesFront DEF HandlerDropped
  <1>4. CASE o.pc \notin {"arrive", "upload", "write", "flush"} /\ o.claim
    <2> DEFINE x == [FileDropped(o) EXCEPT !.pc = "settle", !.how = "release", !.memory = 0,
                                  !.detached = TRUE]
    <2>2. handler' = [handler EXCEPT ![r] = x]
      BY <1>4 DEF HandlerDropped, FileDropped, FrontInv, HandlersFine
    <2>3. counters' = [counters EXCEPT !.reserved = @ - o.memory]
      BY <1>4 DEF HandlerDropped
    <2> HIDE DEF o
    <2>4. x \in Taken /\ x.id = o.id
      BY <1>1, <1>4 DEF Taken, FrontPhases, FileDropped
    <2>5. HoldsByPhase(x)
      BY <1>1, <1>4 DEF Taken, HoldsByPhase, FileDropped
    <2>6. /\ Flying(x) = Flying(o) /\ Flying(o) \in Nat /\ x.memory = 0 /\ o.memory \in Nat
        /\ Spooled(x) \in Nat /\ Spooled(o) \in Nat /\ Spooled(x) <= Spooled(o)
      BY <1>1, <1>4 DEF Taken, HoldsByPhase, Flying, Spooled, FileDropped
    <2>7. /\ x.claim = o.claim /\ x.got = o.got /\ (Told(o) => Told(x)) /\ x.pc # "wait"
      BY <1>1, <1>4 DEF Taken, Told, FileDropped
    <2> HIDE DEF x
    <2>8. Moves(r, x) /\ KeepsClaim(r, x)
      BY <2>2, <2>4, <2>5, <2>7 DEF Moves, KeepsClaim, o
    <2>9. CountsFollow(r, x) /\ counters'.stored = counters.stored
      BY <2>3, <2>6, <1>c DEF CountsFollow, o
    <2> QED
      BY <2>8, <2>9, <1>b, QuietStep
  <1> QED
    BY <1>2, <1>3, <1>4

-----------------------------------------------------------------------------
(* The table of the front *)

ByteCounts(e) == [k \in DOMAIN e |-> e[k].bytes]

LEMMA BytesAreCounted ==
    ASSUME NEW e, IsFiniteSet(DOMAIN e), \A k \in DOMAIN e : e[k].bytes \in Nat,
           NEW S \in SUBSET DOMAIN e, NEW c, \A k \in S : c[k] = e[k].bytes
    PROVE  /\ BytesOf(e, S) = SumFunctionOnSet(c, S)
           /\ BytesOf(e, S) \in Nat /\ IsFiniteSet(S)
  <1> DEFINE b == [k \in S |-> e[k].bytes]
  <1>1. IsFiniteSet(S)
    BY FS_Subset
  <1>2. \A k \in S : b[k] \in Nat /\ c[k] = b[k]
    OBVIOUS
  <1>3. BytesOf(e, S) = SumFunctionOnSet(b, S)
    BY DEF BytesOf
  <1> HIDE DEF b
  <1>4. SumFunctionOnSet(c, S) = SumFunctionOnSet(b, S)
    BY <1>1, <1>2, SumSame
  <1>5. SumFunctionOnSet(b, S) \in Nat
    BY <1>1, <1>2, SumIsNat
  <1> QED
    BY <1>1, <1>3, <1>4, <1>5

\* Without the entries of S there are as many bytes less as they have.
LEMMA BytesSplit ==
    ASSUME NEW e, IsFiniteSet(DOMAIN e), \A k \in DOMAIN e : e[k].bytes \in Nat,
           NEW S \in SUBSET DOMAIN e
    PROVE  /\ BytesOf(Without(e, S), DOMAIN Without(e, S)) = BytesOf(e, DOMAIN e) - BytesOf(e, S)
           /\ BytesOf(Without(e, S), DOMAIN Without(e, S)) \in Nat
           /\ BytesOf(e, S) \in Nat /\ BytesOf(e, DOMAIN e) \in Nat
  <1> DEFINE c == ByteCounts(e)
             R == DOMAIN e \ S
             d == Without(e, S)
  <1>1. DOMAIN d = R /\ \A k \in R : d[k] = e[k]
    BY DEF Without
  <1>2. /\ \A k \in DOMAIN e : c[k] = e[k].bytes
        /\ R \subseteq DOMAIN e
    BY DEF ByteCounts
  <1>3. IsFiniteSet(R)
    BY <1>2, FS_Subset
  <1> HIDE DEF c, d
  <1>4. BytesOf(d, R) = SumFunctionOnSet(c, R) /\ BytesOf(d, R) \in Nat
    <2>1. /\ \A k \in DOMAIN d : d[k].bytes \in Nat /\ c[k] = d[k].bytes
          /\ R \in SUBSET DOMAIN d
      BY <1>1, <1>2
    <2> HIDE DEF R
    <2> QED
      BY <1>1, <1>3, <2>1, BytesAreCounted
  <1>5. BytesOf(e, S) = SumFunctionOnSet(c, S) /\ BytesOf(e, S) \in Nat /\ IsFiniteSet(S)
    BY <1>2, BytesAreCounted
  <1>6. BytesOf(e, DOMAIN e) = SumFunctionOnSet(c, DOMAIN e) /\ BytesOf(e, DOMAIN e) \in Nat
    BY <1>2, BytesAreCounted
  <1>7. R \cup S = DOMAIN e /\ R \cap S = {}
    OBVIOUS
  <1> HIDE DEF R
  <1>8. \A k \in R \cup S : c[k] \in Nat
    BY <1>2, <1>7
  <1>9. SumFunctionOnSet(c, R \cup S) = SumFunctionOnSet(c, R) + SumFunctionOnSet(c, S)
    BY <1>3, <1>5, <1>7, <1>8, SumOfParts
  <1>10. BytesOf(d, R) = BytesOf(e, DOMAIN e) - BytesOf(e, S)
    BY <1>4, <1>5, <1>6, <1>7, <1>9
  <1>11. DOMAIN d = R
    BY <1>1 DEF R
  <1> QED
    BY <1>4, <1>5, <1>6, <1>10, <1>11 DEF d

\* The keys that are left are those of f after the first n.
LEMMA OldestParts ==
    ASSUME NEW S, NEW f \in Seq(S), IsInjective(f), NEW n \in 0..Len(f)
    PROVE  LET h == SubSeq(f, 1, n)
               g == SubSeq(f, n + 1, Len(f))
           IN  /\ Range(h) \cap Range(g) = {} /\ Range(h) \cup Range(g) = Range(f)
               /\ g \in Seq(Range(g)) /\ IsInjective(g)
  <1> DEFINE h == SubSeq(f, 1, n)
             g == SubSeq(f, n + 1, Len(f))
             L == Len(f)
  <1>1. L \in Nat /\ DOMAIN f = 1 .. L /\ n \in Nat /\ n <= L
    BY LenProperties
  <1>2. \A i \in 1 .. L : f[i] \in S
    BY LenProperties
  <1>3. h \in Seq(S) /\ Len(h) = n /\ \A i \in 1 .. n : h[i] = f[i]
    <2>1. \A i \in 1 .. n : f[i] \in S
      BY <1>1, <1>2
    <2>2. /\ h \in Seq(S)
          /\ Len(h) = IF 1 <= n THEN n - 1 + 1 ELSE 0
          /\ \A i \in 1 .. n - 1 + 1 : h[i] = f[1 + i - 1]
      BY <1>1, <2>1, SubSeqProperties
    <2> QED
      BY <1>1, <2>2
  <1>4. g \in Seq(S) /\ Len(g) = L - n /\ \A i \in 1 .. L - n : g[i] = f[n + i]
    <2>1. \A i \in n + 1 .. L : f[i] \in S
      BY <1>1, <1>2
    <2>2. /\ g \in Seq(S)
          /\ Len(g) = IF n + 1 <= L THEN L - (n + 1) + 1 ELSE 0
          /\ \A i \in 1 .. L - (n + 1) + 1 : g[i] = f[n + 1 + i - 1]
      BY <1>1, <2>1, SubSeqProperties
    <2> QED
      BY <1>1, <2>2
  <1>5. DOMAIN h = 1 .. n /\ DOMAIN g = 1 .. L - n
    BY <1>3, <1>4, LenProperties
  <1> HIDE DEF h, g, L
  <1>6. Range(h) = {f[i] : i \in 1 .. n} /\ Range(f) = {f[i] : i \in 1 .. L}
    BY <1>1, <1>3, <1>5 DEF Range
  <1>7. Range(g) = {f[i] : i \in n + 1 .. L}
    <2>1. ASSUME NEW k \in Range(g) PROVE \E i \in n + 1 .. L : k = f[i]
      <3>1. PICK i \in 1 .. L - n : k = g[i]
        BY <1>5 DEF Range
      <3> QED
        BY <1>1, <1>4, <3>1
    <2>2. ASSUME NEW i \in n + 1 .. L PROVE f[i] \in Range(g)
      <3>1. i - n \in 1 .. L - n /\ g[i - n] = f[i]
        BY <1>1, <1>4
      <3> QED
        BY <1>5, <3>1 DEF Range
    <2> QED
      BY <2>1, <2>2
  <1>8. \A i, j \in 1 .. L : f[i] = f[j] => i = j
    BY <1>1 DEF IsInjective
  <1>9. Range(h) \cap Range(g) = {}
    BY <1>1, <1>6, <1>7, <1>8
  <1>10. Range(h) \cup Range(g) = Range(f)
    BY <1>1, <1>6, <1>7
  <1>11. g \in Seq(Range(g))
    BY <1>4, SeqOfRange
  <1>12. IsInjective(g)
    <2>1. ASSUME NEW i \in 1 .. L - n, NEW j \in 1 .. L - n, g[i] = g[j] PROVE i = j
      <3>1. f[n + i] = f[n + j] /\ n + i \in 1 .. L /\ n + j \in 1 .. L
        BY <1>1, <1>4, <2>1
      <3>2. n + i = n + j
        BY <1>8, <3>1
      <3> QED
        BY <1>1, <3>2
    <2> QED
      BY <1>5, <2>1 DEF IsInjective
  <1> QED
    BY <1>9, <1>10, <1>11, <1>12 DEF h, g, L

\* The table without its n oldest completed entries: prune_expired and evict_oldest_completed.
LEMMA RemovedIsFine ==
    ASSUME TableOf(entries, finished, counters.stored, Ids), NEW n \in 0..Len(finished)
    PROVE  /\ TableOf(Removed(n).e, Removed(n).f, Removed(n).stored, Ids)
           /\ Removed(n).stored \in Nat /\ Removed(n).stored <= counters.stored
           /\ counters.stored \in Nat
           /\ DOMAIN Removed(n).e \subseteq DOMAIN entries
           /\ \A k \in DOMAIN Removed(n).e : Removed(n).e[k] = entries[k]
           /\ \A k \in DOMAIN entries : entries[k].owner # NoKey => k \in DOMAIN Removed(n).e
  <1> DEFINE h == SubSeq(finished, 1, n)
             g == SubSeq(finished, n + 1, Len(finished))
             gone == Range(h)
             d == Without(entries, gone)
             b == BytesOf(entries, gone)
  <1>1. /\ IsFiniteSet(DOMAIN entries) /\ NoKey \notin DOMAIN entries
        /\ Cardinality(DOMAIN entries) <= EntryLimit
        /\ \A k \in DOMAIN entries : EntryFine(k, entries[k], Ids)
        /\ finished \in Seq(DOMAIN entries) /\ Range(finished) = Settled(entries)
        /\ IsInjective(finished) /\ counters.stored = BytesOf(entries, DOMAIN entries)
    BY DEF TableOf
  <1>2. /\ gone \cap Range(g) = {} /\ gone \cup Range(g) = Settled(entries)
        /\ g \in Seq(Range(g)) /\ IsInjective(g)
    BY <1>1, OldestParts
  <1>3. Removed(n).e = d /\ Removed(n).f = g /\ Removed(n).stored = counters.stored - b
    BY DEF Removed
  <1> HIDE DEF h, g, gone
  <1>4. gone \subseteq DOMAIN entries /\ \A k \in gone : entries[k].owner = NoKey
    BY <1>2 DEF Settled
  <1>5. DOMAIN d = DOMAIN entries \ gone /\ \A k \in DOMAIN d : d[k] = entries[k]
    BY DEF Without
  <1>6. \A k \in DOMAIN entries : entries[k].bytes \in Nat
    BY <1>1 DEF EntryFine
  <1>7. /\ BytesOf(d, DOMAIN d) = BytesOf(entries, DOMAIN entries) - b
        /\ BytesOf(d, DOMAIN d) \in Nat /\ b \in Nat /\ BytesOf(entries, DOMAIN entries) \in Nat
    BY <1>1, <1>4, <1>6, BytesSplit
  <1> HIDE DEF b, d
  <1>8. Range(g) = Settled(d)
    BY <1>2, <1>4, <1>5 DEF Settled
  <1>9. g \in Seq(DOMAIN d)
    <2>1. Range(g) \subseteq DOMAIN d
      BY <1>8 DEF Settled
    <2> QED
      BY <1>2, <2>1, SeqMonotonic
  <1>10. IsFiniteSet(DOMAIN d) /\ Cardinality(DOMAIN d) <= EntryLimit
    <2>1. DOMAIN d \in SUBSET DOMAIN entries
      BY <1>5
    <2>2. /\ IsFiniteSet(DOMAIN d) /\ Cardinality(DOMAIN d) <= Cardinality(DOMAIN entries)
      BY <1>1, <2>1, FS_Subset
    <2>3. Cardinality(DOMAIN d) \in Nat /\ Cardinality(DOMAIN entries) \in Nat
      BY <1>1, <2>2, FS_CardinalityType
    <2> QED
      BY <1>1, <2>2, <2>3, RequestsFinite
  <1>11. NoKey \notin DOMAIN d /\ \A k \in DOMAIN d : EntryFine(k, d[k], Ids)
    BY <1>1, <1>5
  <1>12. counters.stored - b = BytesOf(d, DOMAIN d)
    BY <1>1, <1>7
  <1>13. TableOf(d, g, counters.stored - b, Ids)
    BY <1>2, <1>8, <1>9, <1>10, <1>11, <1>12 DEF TableOf
  <1>14. /\ counters.stored - b \in Nat /\ counters.stored - b <= counters.stored
         /\ counters.stored \in Nat
    BY <1>1, <1>7, <1>12
  <1>15. \A k \in DOMAIN entries : entries[k].owner # NoKey => k \in DOMAIN d
    BY <1>4, <1>5
  <1> QED
    BY <1>3, <1>5, <1>13, <1>14, <1>15

\* A new entry of an owner.
LEMMA EntryAdded ==
    ASSUME NEW e, NEW f, NEW n, NEW ids, TableOf(e, f, n, ids), NEW k, k \notin DOMAIN e, k # NoKey,
           Cardinality(DOMAIN e) < EntryLimit, NEW x, EntryFine(k, x, ids), x.owner # NoKey
    PROVE  TableOf(WithEntry(e, k, x), f, n, ids)
  <1> DEFINE d == WithEntry(e, k, x)
             D == DOMAIN e
             c == ByteCounts(d)
  <1>1. /\ IsFiniteSet(D) /\ NoKey \notin D /\ \A j \in D : EntryFine(j, e[j], ids)
        /\ f \in Seq(D) /\ Range(f) = Settled(e) /\ IsInjective(f) /\ n = BytesOf(e, D)
    BY DEF TableOf
  <1>2. DOMAIN d = D \cup {k} /\ d[k] = x /\ \A j \in D : d[j] = e[j]
    BY DEF WithEntry
  <1>3. \A j \in D \cup {k} : c[j] = d[j].bytes
    BY <1>2 DEF ByteCounts
  <1> HIDE DEF d, c
  <1>4. \A j \in D \cup {k} : EntryFine(j, d[j], ids)
    BY <1>1, <1>2
  <1>5. c[k] = 0 /\ \A j \in D : c[j] = e[j].bytes /\ c[j] \in Nat
    BY <1>1, <1>2, <1>3 DEF EntryFine
  <1>6. IsFiniteSet(D \cup {k}) /\ Cardinality(D \cup {k}) <= EntryLimit
    <2>1. IsFiniteSet(D \cup {k}) /\ Cardinality(D \cup {k}) = Cardinality(D) + 1
      BY <1>1, FS_AddElement
    <2>2. Cardinality(D) \in Nat
      BY <1>1, FS_CardinalityType
    <2> QED
      BY <2>1, <2>2, RequestsFinite
  <1>7. Settled(d) = Settled(e)
    BY <1>2 DEF Settled
  <1>8. f \in Seq(D \cup {k})
    <2>1. D \subseteq D \cup {k}
      OBVIOUS
    <2> QED
      BY <1>1, <2>1, SeqMonotonic
  <1>9. n = SumFunctionOnSet(c, D) /\ n \in Nat
    <2>1. \A j \in D : e[j].bytes \in Nat
      BY <1>1 DEF EntryFine
    <2> QED
      BY <1>1, <1>5, <2>1, BytesAreCounted
  <1>10. BytesOf(d, DOMAIN d) = SumFunctionOnSet(c, D \cup {k})
    <2>1. \A j \in DOMAIN d : d[j].bytes \in Nat
      BY <1>2, <1>4 DEF EntryFine
    <2>2. IsFiniteSet(DOMAIN d) /\ \A j \in DOMAIN d : c[j] = d[j].bytes
      BY <1>2, <1>3, <1>6
    <2>3. BytesOf(d, DOMAIN d) = SumFunctionOnSet(c, DOMAIN d)
      BY <2>1, <2>2, BytesAreCounted
    <2> QED
      BY <1>2, <2>3
  <1>11. SumFunctionOnSet(c, D \cup {k}) = SumFunctionOnSet(c, D) + c[k]
    <2>1. c[k] \in Nat /\ \A j \in D : c[j] \in Nat
      BY <1>5
    <2> QED
      BY <1>1, <2>1, SumAdds
  <1>12. n = BytesOf(d, DOMAIN d)
    BY <1>5, <1>9, <1>10, <1>11
  <1>13. TableOf(d, f, n, ids)
    BY <1>1, <1>2, <1>4, <1>6, <1>7, <1>8, <1>12 DEF TableOf
  <1> QED
    BY <1>13 DEF d

\* An entry of an owner that is completed.
LEMMA EntrySettled ==
    ASSUME NEW e, NEW f, NEW n, NEW ids, TableOf(e, f, n, ids), NEW k \in DOMAIN e,
           e[k].owner # NoKey, NEW x, EntryFine(k, x, ids), x.owner = NoKey
    PROVE  TableOf(WithEntry(e, k, x), Append(f, k), n + x.bytes, ids)
  <1> DEFINE d == WithEntry(e, k, x)
             D == DOMAIN e
             b == ByteCounts(e)
             c == ByteCounts(d)
             g == Append(f, k)
  <1>1. /\ IsFiniteSet(D) /\ NoKey \notin D /\ \A j \in D : EntryFine(j, e[j], ids)
        /\ f \in Seq(D) /\ Range(f) = Settled(e) /\ IsInjective(f) /\ n = BytesOf(e, D)
        /\ Cardinality(D) <= EntryLimit
    BY DEF TableOf
  <1>2. DOMAIN d = D /\ d[k] = x /\ \A j \in D : j # k => d[j] = e[j]
    BY DEF WithEntry
  <1>3. /\ \A j \in D : c[j] = d[j].bytes
        /\ \A j \in D : b[j] = e[j].bytes
    BY <1>2 DEF ByteCounts
  <1> HIDE DEF d, c, b
  <1>4. \A j \in D : EntryFine(j, d[j], ids)
    BY <1>1, <1>2
  <1>5. /\ \A j \in D : e[j].bytes \in Nat /\ b[j] \in Nat
        /\ \A j \in D : d[j].bytes \in Nat /\ c[j] \in Nat
        /\ b[k] = 0 /\ c[k] = x.bytes
        /\ \A j \in D : j # k => c[j] = b[j]
    BY <1>1, <1>2, <1>3, <1>4 DEF EntryFine
  <1>6. n = SumFunctionOnSet(b, D) /\ n \in Nat
    BY <1>1, <1>3, <1>5, BytesAreCounted
  <1>7. BytesOf(d, DOMAIN d) = SumFunctionOnSet(c, D)
    <2>1. /\ IsFiniteSet(DOMAIN d) /\ \A j \in DOMAIN d : d[j].bytes \in Nat
          /\ \A j \in DOMAIN d : c[j] = d[j].bytes
      BY <1>1, <1>2, <1>3, <1>5
    <2>2. BytesOf(d, DOMAIN d) = SumFunctionOnSet(c, DOMAIN d)
      BY <2>1, BytesAreCounted
    <2> QED
      BY <1>2, <2>2
  <1>8. SumFunctionOnSet(c, D) = SumFunctionOnSet(b, D) - b[k] + c[k]
    <2>1. c[k] \in Nat /\ \A j \in D : b[j] \in Nat
      BY <1>5
    <2>2. \A j \in D : j # k => c[j] = b[j]
      BY <1>5
    <2> QED
      BY <1>1, <2>1, <2>2, SumChanges
  <1>9. n + x.bytes = BytesOf(d, DOMAIN d)
    BY <1>5, <1>6, <1>7, <1>8
  <1>10. Settled(d) = Settled(e) \cup {k} /\ k \notin Range(f)
    BY <1>1, <1>2 DEF Settled
  <1>11. /\ g \in Seq(D) /\ Len(g) = Len(f) + 1 /\ \A i \in 1 .. Len(f) : g[i] = f[i]
         /\ g[Len(f) + 1] = k
    BY <1>1, AppendProperties
  <1>12. Len(f) \in Nat /\ DOMAIN f = 1 .. Len(f) /\ DOMAIN g = 1 .. Len(f) + 1
    BY <1>1, <1>11, LenProperties
  <1> HIDE DEF g
  <1> DEFINE L == Len(f)
  <1>13. L \in Nat /\ DOMAIN f = 1 .. L /\ DOMAIN g = 1 .. L + 1 /\ g[L + 1] = k
         /\ \A i \in 1 .. L : g[i] = f[i]
    BY <1>11, <1>12
  <1> HIDE DEF L
  <1>14. \A i \in 1 .. L : f[i] \in Range(f)
    BY <1>13 DEF Range
  <1>15. Range(g) = Range(f) \cup {k}
    <2>1. ASSUME NEW j \in Range(g) PROVE j \in Range(f) \cup {k}
      <3>1. PICK i \in 1 .. L + 1 : j = g[i]
        BY <1>13 DEF Range
      <3>2. i \in 1 .. L \/ i = L + 1
        BY <1>13
      <3> QED
        BY <1>13, <1>14, <3>1, <3>2
    <2>2. k \in Range(g)
      <3>1. L + 1 \in DOMAIN g
        BY <1>13
      <3> QED
        BY <1>13, <3>1 DEF Range
    <2>3. ASSUME NEW j \in Range(f) PROVE j \in Range(g)
      <3>1. PICK i \in 1 .. L : j = f[i]
        BY <1>13 DEF Range
      <3>2. i \in 1 .. L + 1 /\ g[i] = j
        BY <1>13, <3>1
      <3> QED
        BY <1>13, <3>2 DEF Range
    <2> QED
      BY <2>1, <2>2, <2>3
  <1>16. IsInjective(g)
    <2>1. ASSUME NEW i \in 1 .. L + 1, NEW j \in 1 .. L + 1, g[i] = g[j] PROVE i = j
      <3>1. (i \in 1 .. L \/ i = L + 1) /\ (j \in 1 .. L \/ j = L + 1)
        BY <1>13
      <3>2. \A a \in 1 .. L : g[a] # k
        BY <1>10, <1>13, <1>14
      <3>3. \A a, c2 \in 1 .. L : f[a] = f[c2] => a = c2
        BY <1>1, <1>13 DEF IsInjective
      <3> QED
        BY <1>13, <2>1, <3>1, <3>2, <3>3
    <2> QED
      BY <1>13, <2>1 DEF IsInjective
  <1>17. TableOf(d, g, n + x.bytes, ids)
    BY <1>1, <1>2, <1>4, <1>9, <1>10, <1>11, <1>15, <1>16 DEF TableOf
  <1> QED
    BY <1>17 DEF d, g

\* An entry of an owner that is given back.
LEMMA EntryDropped ==
    ASSUME NEW e, NEW f, NEW n, NEW ids, TableOf(e, f, n, ids), NEW k \in DOMAIN e,
           e[k].owner # NoKey
    PROVE  TableOf(Without(e, {k}), f, n, ids)
  <1> DEFINE d == Without(e, {k})
             D == DOMAIN e
             c == ByteCounts(e)
  <1>1. /\ IsFiniteSet(D) /\ NoKey \notin D /\ \A j \in D : EntryFine(j, e[j], ids)
        /\ f \in Seq(D) /\ Range(f) = Settled(e) /\ IsInjective(f) /\ n = BytesOf(e, D)
        /\ Cardinality(D) <= EntryLimit
    BY DEF TableOf
  <1>2. DOMAIN d = D \ {k} /\ \A j \in D \ {k} : d[j] = e[j]
    BY DEF Without
  <1>3. /\ \A j \in D : e[j].bytes \in Nat
        /\ e[k].bytes = 0
    BY <1>1 DEF EntryFine
  <1>4. BytesOf(e, {k}) = 0
    <2> DEFINE b == [j \in {k} |-> e[j].bytes]
    <2>1. IsFiniteSet({k}) /\ \A j \in {k} : b[j] = 0
      BY <1>3, FS_Singleton
    <2>2. BytesOf(e, {k}) = SumFunctionOnSet(b, {k})
      BY DEF BytesOf
    <2> HIDE DEF b
    <2> QED
      BY <2>1, <2>2, SumOfZeros
  <1>5. BytesOf(d, DOMAIN d) = BytesOf(e, DOMAIN e) - BytesOf(e, {k})
        /\ BytesOf(e, DOMAIN e) \in Nat
    <2>1. {k} \in SUBSET D
      OBVIOUS
    <2> QED
      BY <1>1, <1>3, <2>1, BytesSplit
  <1> HIDE DEF d
  <1>6. n = BytesOf(d, DOMAIN d)
    BY <1>1, <1>4, <1>5
  <1>7. IsFiniteSet(D \ {k}) /\ Cardinality(D \ {k}) <= EntryLimit
    <2>1. IsFiniteSet(D \ {k}) /\ Cardinality(D \ {k}) = Cardinality(D) - 1
      BY <1>1, FS_RemoveElement
    <2>2. Cardinality(D) \in Nat
      BY <1>1, FS_CardinalityType
    <2> QED
      BY <1>1, <2>1, <2>2, RequestsFinite
  <1>8. Settled(d) = Settled(e) /\ Settled(e) \subseteq D \ {k}
    BY <1>2 DEF Settled
  <1>9. f \in Seq(D \ {k})
    <2>1. f \in Seq(Range(f))
      BY <1>1, SeqOfRange
    <2> QED
      BY <1>1, <1>8, <2>1, SeqMonotonic
  <1>10. TableOf(d, f, n, ids)
    BY <1>1, <1>2, <1>6, <1>7, <1>8, <1>9 DEF TableOf
  <1> QED
    BY <1>10 DEF d

\* Whose request an entry waits for.
Owning(e, q) == Ids[q].key \in DOMAIN e /\ e[Ids[q].key].owner = q

\* A step of r that leaves the entries of the others to them, and takes its own or gives it up.
EntriesFollow(r, x) ==
    /\ TableOf(entries', finished', counters'.stored, Ids)
    /\ \A q \in FrontRequests \ {r} : Owning(entries', q) <=> Owning(entries, q)
    /\ x.claim <=> Ids[r].key # NoKey /\ Owning(entries', r)
    /\ x.got # NoKey => Ids[x.got].key = Ids[r].key /\ Ids[x.got].hash = Ids[r].hash
    /\ Told(handler[r]) => Told(x)
    /\ x.pc = "wait" => Told(handler[x.channel])

LEMMA TableStep ==
    ASSUME FrontInv, NEW r \in FrontRequests, NEW x, Moves(r, x), CountsFollow(r, x),
           EntriesFollow(r, x)
    PROVE  FrontInv'
  <1>1. HandlersFine' /\ CountersFine'
    BY CountsMove DEF FrontInv
  <1>2. Ids' = Ids
    BY SameIds DEF FrontInv
  <1>3. TableOf(entries, finished, counters.stored, Ids)'
    <2>1. TableOf(entries', finished', counters'.stored, Ids')
      BY <1>2 DEF EntriesFollow
    <2> QED
      BY <2>1
  <1>4. /\ handler'[r] = x /\ \A q \in FrontRequests : q # r => handler'[q] = handler[q]
        /\ x \in Taken /\ \A q \in FrontRequests : handler[q] \in Taken
    BY DEF Moves, HandlersFine, FrontInv
  <1>5. \A q \in FrontRequests : handler'[q].id = Ids[q] /\ handler[q].id = Ids[q]
    BY <1>4 DEF Ids, Moves
  <1>6. ClaimsHeld'
    <2>1. \A q \in FrontRequests : handler[q].claim <=> Ids[q].key # NoKey /\ Owning(entries, q)
      BY <1>5 DEF FrontInv, ClaimsHeld, Owns, Owning, KeyOf, InTable
    <2>2. \A q \in FrontRequests : handler'[q].claim <=> Ids[q].key # NoKey /\ Owning(entries', q)
      BY <1>4, <2>1 DEF EntriesFollow
    <2>3. \A q \in FrontRequests : handler'[q].got \in FrontRequests \cup {NoKey}
      BY <1>4 DEF Taken
    <2>4. \A q \in FrontRequests : handler[q].got # NoKey =>
            Ids[handler[q].got].key = Ids[q].key /\ Ids[handler[q].got].hash = Ids[q].hash
      <3>1. \A q \in FrontRequests : handler[q].got \in FrontRequests \cup {NoKey}
        BY <1>4 DEF Taken
      <3> QED
        BY <1>5, <3>1 DEF FrontInv, ClaimsHeld, KeyOf, HashOf
    <2>5. \A q \in FrontRequests : handler'[q].got # NoKey =>
            Ids[handler'[q].got].key = Ids[q].key /\ Ids[handler'[q].got].hash = Ids[q].hash
      BY <1>4, <2>4 DEF EntriesFollow
    <2>6. \A q \in FrontRequests :
            handler'[q].claim <=> handler'[q].id.key # NoKey /\ handler'[q].id.key \in DOMAIN entries'
                                  /\ entries'[handler'[q].id.key].owner = q
      BY <1>5, <2>2 DEF Owning
    <2>7. \A q \in FrontRequests : handler'[q].got # NoKey =>
            handler'[handler'[q].got].id.key = handler'[q].id.key
            /\ handler'[handler'[q].got].id.hash = handler'[q].id.hash
      BY <1>5, <2>3, <2>5
    <2> QED
      BY <2>6, <2>7 DEF ClaimsHeld, KeyOf, HashOf, Owns, InTable
  <1>7. FrontWaiterWakes'
    <2>1. x.pc = "wait" => x.channel \in FrontRequests
      BY DEF Moves, HoldsByPhase
    <2> QED
      BY <2>1, StillTold DEF FrontInv, EntriesFollow
  <1> QED
    BY <1>1, <1>3, <1>6, <1>7 DEF FrontInv

\* An owner has its entry, and another request has not.
LEMMA ClaimIsEntry ==
    ASSUME FrontInv, NEW q \in FrontRequests
    PROVE  /\ handler[q].claim <=> Ids[q].key # NoKey /\ Owning(entries, q)
           /\ Ids[q].key = KeyOf(q) /\ Ids[q].hash = HashOf(q) /\ q # NoKey
  BY FrontAssumption DEF FrontInv, ClaimsHeld, Owns, Owning, KeyOf, HashOf, InTable, Ids

LEMMA NonreplayableClaimFine ==
    ASSUME FrontInv, NEW r \in FrontRequests, NonreplayableClaim(r)
    PROVE  FrontInv'
  <1> DEFINE o == handler[r]
             x == [o EXCEPT !.pc = "notify", !.claim = FALSE]
             k == Ids[r].key
             s == SettledEntry(r, NoKey, 0)
  <1>1. o \in Taken /\ HoldsByPhase(o) /\ o.pc = "settle" /\ o.claim
    BY HandlerFine DEF NonreplayableClaim, At, HoldsByPhase
  <1>2. handler' = [handler EXCEPT ![r] = x]
    BY DEF NonreplayableClaim, FrontInv, HandlersFine
  <1>3. /\ entries' = WithEntry(entries, k, s) /\ finished' = Append(finished, k)
        /\ counters' = counters
    BY ClaimIsEntry DEF NonreplayableClaim
  <1>4. k # NoKey /\ k \in DOMAIN entries /\ entries[k].owner = r /\ r # NoKey
    BY <1>1, ClaimIsEntry DEF Owning
  <1>5. s.owner = NoKey /\ s.bytes = 0 /\ EntryFine(k, s, Ids)
    BY DEF SettledEntry, EntryFine
  <1> HIDE DEF o, s
  <1>6. Moves(r, x)
    <2>1. x \in Taken /\ x.id = o.id
      BY <1>1 DEF Taken, FrontPhases
    <2>2. HoldsByPhase(x)
      BY <1>1 DEF Taken, HoldsByPhase
    <2> QED
      BY <1>2, <2>1, <2>2 DEF Moves, o
  <1>7. CountsFollow(r, x)
    <2>1. /\ Flying(x) = Flying(o) /\ Flying(o) \in Nat /\ x.memory = o.memory /\ o.memory \in Nat
          /\ Spooled(x) = Spooled(o) /\ Spooled(o) \in Nat
      BY <1>1 DEF Taken, HoldsByPhase, Flying, Spooled
    <2>2. /\ counters \in [stored : Nat, inflight : Nat, reserved : Nat]
          /\ counters.stored <= StoredLimit /\ counters.inflight <= FlightLimit
      BY DEF FrontInv, CountersFine
    <2> HIDE DEF x
    <2> QED
      BY <1>3, <2>1, <2>2 DEF CountsFollow, o
  <1>8. EntriesFollow(r, x)
    <2>1. TableOf(entries', finished', counters'.stored, Ids)
      <3> DEFINE n == counters.stored
      <3>1. TableOf(entries, finished, n, Ids) /\ n \in Nat
        BY DEF FrontInv, CountersFine
      <3> HIDE DEF n
      <3>2. TableOf(WithEntry(entries, k, s), Append(finished, k), n + s.bytes, Ids)
        BY <1>4, <1>5, <3>1, EntrySettled
      <3>3. n + s.bytes = n
        BY <1>5, <3>1
      <3> QED
        BY <1>3, <3>2, <3>3 DEF n
    <2>2. /\ DOMAIN entries' = DOMAIN entries /\ entries'[k] = s
          /\ \A j \in DOMAIN entries : j # k => entries'[j] = entries[j]
      BY <1>3, <1>4 DEF WithEntry
    <2>3. \A q \in FrontRequests : q # NoKey
      BY FrontAssumption
    <2>4. \A q \in FrontRequests \ {r} : Owning(entries', q) <=> Owning(entries, q)
      BY <1>4, <1>5, <2>2, <2>3 DEF Owning
    <2>5. ~ Owning(entries', r)
      BY <1>4, <1>5, <2>2 DEF Owning
    <2>6. ~ x.claim /\ x.got = o.got /\ Told(x) /\ x.pc # "wait"
      BY <1>1 DEF Taken, Told
    <2>7. o.got # NoKey => Ids[o.got].key = Ids[r].key /\ Ids[o.got].hash = Ids[r].hash
      BY <1>1 DEF FrontInv, ClaimsHeld, KeyOf, HashOf, Ids, Taken, o
    <2> HIDE DEF x
    <2> QED
      BY <2>1, <2>4, <2>5, <2>6, <2>7 DEF EntriesFollow
  <1> QED
    BY <1>6, <1>7, <1>8, TableStep

LEMMA ReleaseClaimFine ==
    ASSUME FrontInv, NEW r \in FrontRequests, ReleaseClaim(r)
    PROVE  FrontInv'
  <1> DEFINE o == handler[r]
             x == [o EXCEPT !.pc = "notify", !.claim = FALSE]
             k == Ids[r].key
  <1>1. o \in Taken /\ HoldsByPhase(o) /\ o.pc = "settle" /\ o.claim
    BY HandlerFine DEF ReleaseClaim, At, HoldsByPhase
  <1>2. handler' = [handler EXCEPT ![r] = x]
    BY DEF ReleaseClaim, FrontInv, HandlersFine
  <1>3. entries' = Without(entries, {k}) /\ finished' = finished /\ counters' = counters
    BY ClaimIsEntry DEF ReleaseClaim
  <1>4. k # NoKey /\ k \in DOMAIN entries /\ entries[k].owner = r /\ r # NoKey
    BY <1>1, ClaimIsEntry DEF Owning
  <1> HIDE DEF o
  <1>5. Moves(r, x)
    <2>1. x \in Taken /\ x.id = o.id
      BY <1>1 DEF Taken, FrontPhases
    <2>2. HoldsByPhase(x)
      BY <1>1 DEF Taken, HoldsByPhase
    <2> QED
      BY <1>2, <2>1, <2>2 DEF Moves, o
  <1>6. CountsFollow(r, x)
    <2>1. /\ Flying(x) = Flying(o) /\ Flying(o) \in Nat /\ x.memory = o.memory /\ o.memory \in Nat
          /\ Spooled(x) = Spooled(o) /\ Spooled(o) \in Nat
      BY <1>1 DEF Taken, HoldsByPhase, Flying, Spooled
    <2>2. /\ counters \in [stored : Nat, inflight : Nat, reserved : Nat]
          /\ counters.stored <= StoredLimit /\ counters.inflight <= FlightLimit
      BY DEF FrontInv, CountersFine
    <2> HIDE DEF x
    <2> QED
      BY <1>3, <2>1, <2>2 DEF CountsFollow, o
  <1>7. EntriesFollow(r, x)
    <2>1. TableOf(entries', finished', counters'.stored, Ids)
      BY <1>3, <1>4, EntryDropped DEF FrontInv
    <2>2. /\ DOMAIN entries' = DOMAIN entries \ {k}
          /\ \A j \in DOMAIN entries' : entries'[j] = entries[j]
      BY <1>3 DEF Without
    <2>3. \A q \in FrontRequests \ {r} : Owning(entries', q) <=> Owning(entries, q)
      BY <1>4, <2>2 DEF Owning
    <2>4. ~ Owning(entries', r)
      BY <2>2 DEF Owning
    <2>5. ~ x.claim /\ x.got = o.got /\ Told(x) /\ x.pc # "wait"
      BY <1>1 DEF Taken, Told
    <2>6. o.got # NoKey => Ids[o.got].key = Ids[r].key /\ Ids[o.got].hash = Ids[r].hash
      BY <1>1 DEF FrontInv, ClaimsHeld, KeyOf, HashOf, Ids, Taken, o
    <2> HIDE DEF x
    <2> QED
      BY <2>1, <2>3, <2>4, <2>5, <2>6 DEF EntriesFollow
  <1> QED
    BY <1>5, <1>6, <1>7, TableStep

\* What is evicted is nobody's.
LEMMA OwnersStay ==
    ASSUME FrontInv, NEW n \in 0..Len(finished), NEW q \in FrontRequests
    PROVE  /\ Owning(Removed(n).e, q) <=> Owning(entries, q)
           /\ Owning(entries, q) => Removed(n).e[Ids[q].key] = entries[Ids[q].key]
  <1> DEFINE t == Removed(n).e
  <1>1. /\ DOMAIN t \subseteq DOMAIN entries /\ \A k \in DOMAIN t : t[k] = entries[k]
        /\ \A k \in DOMAIN entries : entries[k].owner # NoKey => k \in DOMAIN t
    BY RemovedIsFine DEF FrontInv
  <1>2. q # NoKey
    BY FrontAssumption
  <1> HIDE DEF t
  <1>3. /\ Owning(t, q) <=> Owning(entries, q)
        /\ Owning(entries, q) => t[Ids[q].key] = entries[Ids[q].key]
    BY <1>1, <1>2 DEF Owning
  <1> QED
    BY <1>3 DEF t

LEMMA LeastOfNumbers ==
    ASSUME NEW S \in SUBSET Nat, S # {}
    PROVE  Min(S) \in S
  <1> DEFINE R == OpToRel(<, Nat)
  <1>1. IsWellFoundedOn(R, Nat)
    BY NatLessThanWellFounded
  <1>2. R = {ss \in Nat \X Nat : ss[1] < ss[2]}
    BY DEF OpToRel
  <1> HIDE DEF R
  <1>3. PICK x \in S : \A y \in S : ~ (<<y, x>> \in R)
    BY <1>1, WFMin
  <1>4. ASSUME NEW y \in S, ~ (x <= y) PROVE FALSE
    <2> DEFINE p == <<y, x>>
    <2>1. p \in Nat \X Nat /\ p[1] < p[2]
      BY <1>4
    <2> HIDE DEF p
    <2>2. p \in R
      BY <1>2, <2>1
    <2> QED
      BY <1>3, <2>2 DEF p
  <1> QED
    BY <1>3, <1>4 DEF Min

LEMMA RoomIsMade ==
    ASSUME NEW L \in Nat, Len(finished) = L, NEW n \in 0..L, NEW bytes
    PROVE  MakesRoom(n, bytes) \in 0..Len(finished)
  <1> DEFINE S == {m \in n..Len(finished) : FitsStored(m, bytes) \/ m = Len(finished)}
  <1>1. S \in SUBSET Nat /\ S \subseteq 0..L
    OBVIOUS
  <1>2. L \in S
    OBVIOUS
  <1>3. MakesRoom(n, bytes) = Min(S)
    BY DEF MakesRoom
  <1> HIDE DEF S
  <1> QED
    BY <1>1, <1>2, <1>3, LeastOfNumbers

LEMMA CompleteClaimFine ==
    ASSUME FrontInv, NEW r \in FrontRequests, CompleteClaim(r)
    PROVE  FrontInv'
  <1> DEFINE o == handler[r]
             k == Ids[r].key
             s == SettledEntry(r, r, o.bytes)
  <1>1. o \in Taken /\ HoldsByPhase(o) /\ o.pc = "settle" /\ o.claim
    BY HandlerFine DEF CompleteClaim, At, HoldsByPhase
  <1>2. PICK n \in 0..Len(finished) :
          LET m == MakesRoom(n, o.bytes)
              t == Removed(m) IN
          IF FitsStored(m, o.bytes)
          THEN /\ entries' = WithEntry(t.e, KeyOf(r), s)
               /\ finished' = Append(t.f, KeyOf(r))
               /\ counters' = [counters EXCEPT !.stored = t.stored + o.bytes]
               /\ handler' = [handler EXCEPT ![r].pc = "notify", ![r].claim = FALSE]
          ELSE /\ handler' = [handler EXCEPT ![r].how = "nonreplayable"]
               /\ entries' = t.e /\ finished' = t.f
               /\ counters' = [counters EXCEPT !.stored = t.stored]
    BY DEF CompleteClaim
  <1> DEFINE m == MakesRoom(n, o.bytes)
             t == Removed(m)
  <1>3. m \in 0..Len(finished)
    <2>1. Len(finished) \in Nat
      BY LenProperties DEF FrontInv, TableOf
    <2> QED
      BY <2>1, RoomIsMade
  <1>4. KeyOf(r) = k
    BY ClaimIsEntry
  <1>5. /\ TableOf(t.e, t.f, t.stored, Ids) /\ t.stored \in Nat /\ t.stored <= counters.stored
        /\ counters.stored \in Nat
    BY <1>3, RemovedIsFine DEF FrontInv
  <1>6. \A q \in FrontRequests : Owning(t.e, q) <=> Owning(entries, q)
    BY <1>3, OwnersStay
  <1>7. k # NoKey /\ k \in DOMAIN t.e /\ t.e[k].owner = r /\ r # NoKey
    BY <1>1, <1>6, ClaimIsEntry DEF Owning
  <1>8. s.owner = NoKey /\ s.bytes = o.bytes /\ EntryFine(k, s, Ids)
    BY <1>1, ClaimIsEntry DEF SettledEntry, EntryFine, Taken
  <1>9. /\ counters \in [stored : Nat, inflight : Nat, reserved : Nat]
        /\ counters.stored <= StoredLimit /\ counters.inflight <= FlightLimit /\ StoredLimit \in Nat
    BY RequestsFinite DEF FrontInv, CountersFine
  <1>10. o.got # NoKey => Ids[o.got].key = Ids[r].key /\ Ids[o.got].hash = Ids[r].hash
    BY <1>1 DEF FrontInv, ClaimsHeld, KeyOf, HashOf, Ids, Taken
  <1>11. FitsStored(m, o.bytes) <=> t.stored + o.bytes <= StoredLimit
    BY DEF FitsStored
  <1>12. CASE FitsStored(m, o.bytes)
    <2> DEFINE x == [o EXCEPT !.pc = "notify", !.claim = FALSE]
    <2>1. /\ entries' = WithEntry(t.e, k, s) /\ finished' = Append(t.f, k)
          /\ counters' = [counters EXCEPT !.stored = t.stored + o.bytes]
          /\ handler' = [handler EXCEPT ![r].pc = "notify", ![r].claim = FALSE]
      BY <1>2, <1>4, <1>12
    <2>2. handler' = [handler EXCEPT ![r] = x]
      BY <2>1 DEF FrontInv, HandlersFine
    <2>3. t.stored + o.bytes <= StoredLimit
      BY <1>11, <1>12
    <2> HIDE DEF o, s, t, m
    <2>4. Moves(r, x)
      <3>1. x \in Taken /\ x.id = o.id
        BY <1>1 DEF Taken, FrontPhases
      <3>2. HoldsByPhase(x)
        BY <1>1 DEF Taken, HoldsByPhase
      <3> QED
        BY <2>2, <3>1, <3>2 DEF Moves, o
    <2>5. CountsFollow(r, x)
      <3>1. /\ Flying(x) = Flying(o) /\ Flying(o) \in Nat /\ x.memory = o.memory /\ o.memory \in Nat
            /\ Spooled(x) = Spooled(o) /\ Spooled(o) \in Nat /\ o.bytes \in Nat
        BY <1>1 DEF Taken, HoldsByPhase, Flying, Spooled
      <3>a. t.stored + o.bytes \in Nat
        BY <1>5, <3>1
      <3>2. /\ counters'.stored = t.stored + o.bytes /\ counters'.inflight = counters.inflight
            /\ counters'.reserved = counters.reserved
            /\ counters' \in [stored : Nat, inflight : Int, reserved : Int]
        <4> DEFINE v == t.stored + o.bytes
        <4>1. v \in Nat /\ counters' = [counters EXCEPT !.stored = v]
              /\ counters \in [stored : Nat, inflight : Nat, reserved : Nat]
          BY ONLY <1>9, <2>1, <3>a
        <4> HIDE DEF v
        <4>2. /\ counters'.stored = v /\ counters'.inflight = counters.inflight
              /\ counters'.reserved = counters.reserved
          BY ONLY <4>1
        <4>3. counters' \in [stored : Nat, inflight : Int, reserved : Int]
          BY ONLY <4>1
        <4> QED
          BY <4>2, <4>3 DEF v
      <3> HIDE DEF x
      <3> QED
        BY <1>9, <2>3, <3>1, <3>2 DEF CountsFollow, o
    <2>6. EntriesFollow(r, x)
      <3>1. TableOf(entries', finished', counters'.stored, Ids)
        <4>1. TableOf(WithEntry(t.e, k, s), Append(t.f, k), t.stored + s.bytes, Ids)
          BY <1>5, <1>7, <1>8, EntrySettled
        <4>2. counters'.stored = t.stored + o.bytes
          BY <1>9, <2>1
        <4> QED
          BY <1>8, <2>1, <4>1, <4>2
      <3>2. /\ DOMAIN entries' = DOMAIN t.e /\ entries'[k] = s
            /\ \A j \in DOMAIN t.e : j # k => entries'[j] = t.e[j]
        BY <1>7, <2>1 DEF WithEntry
      <3>3. \A q \in FrontRequests : q # NoKey
        BY FrontAssumption
      <3>4. \A q \in FrontRequests \ {r} : Owning(entries', q) <=> Owning(t.e, q)
        BY <1>7, <1>8, <3>2, <3>3 DEF Owning
      <3>5. ~ Owning(entries', r)
        BY <1>7, <1>8, <3>2 DEF Owning
      <3>6. ~ x.claim /\ x.got = o.got /\ Told(x) /\ x.pc # "wait"
        BY <1>1 DEF Taken, Told
      <3> HIDE DEF x
      <3> QED
        BY <1>6, <1>10, <3>1, <3>4, <3>5, <3>6 DEF EntriesFollow
    <2> QED
      BY <2>4, <2>5, <2>6, TableStep
  <1>13. CASE ~ FitsStored(m, o.bytes)
    <2> DEFINE x == [o EXCEPT !.how = "nonreplayable"]
    <2>1. /\ entries' = t.e /\ finished' = t.f
          /\ counters' = [counters EXCEPT !.stored = t.stored]
          /\ handler' = [handler EXCEPT ![r].how = "nonreplayable"]
      BY <1>2, <1>13
    <2>2. handler' = [handler EXCEPT ![r] = x]
      BY <2>1 DEF FrontInv, HandlersFine
    <2> HIDE DEF o, t, m
    <2>3. Moves(r, x)
      <3>1. x \in Taken /\ x.id = o.id
        BY <1>1 DEF Taken, FrontPhases
      <3>2. HoldsByPhase(x)
        BY <1>1 DEF Taken, HoldsByPhase
      <3> QED
        BY <2>2, <3>1, <3>2 DEF Moves, o
    <2>4. CountsFollow(r, x)
      <3>1. /\ Flying(x) = Flying(o) /\ Flying(o) \in Nat /\ x.memory = o.memory /\ o.memory \in Nat
            /\ Spooled(x) = Spooled(o) /\ Spooled(o) \in Nat
        BY <1>1 DEF Taken, HoldsByPhase, Flying, Spooled
      <3>2. /\ counters'.stored = t.stored /\ counters'.inflight = counters.inflight
            /\ counters'.reserved = counters.reserved
            /\ counters' \in [stored : Nat, inflight : Int, reserved : Int]
        BY <1>5, <1>9, <2>1
      <3> HIDE DEF x
      <3> QED
        BY <1>5, <1>9, <3>1, <3>2 DEF CountsFollow, o
    <2>5. EntriesFollow(r, x)
      <3>1. TableOf(entries', finished', counters'.stored, Ids)
        <4>1. counters'.stored = t.stored
          BY <1>9, <2>1
        <4> QED
          BY <1>5, <2>1, <4>1
      <3>2. \A q \in FrontRequests : Owning(entries', q) <=> Owning(entries, q)
        BY <1>6, <2>1
      <3>3. Ids[r].key # NoKey /\ Owning(entries, r)
        BY <1>1, ClaimIsEntry DEF o
      <3>4. x.claim /\ x.got = o.got /\ Told(x) /\ x.pc # "wait"
        BY <1>1 DEF Taken, Told
      <3> HIDE DEF x
      <3> QED
        BY <1>10, <3>1, <3>2, <3>3, <3>4 DEF EntriesFollow
    <2> QED
      BY <2>3, <2>4, <2>5, TableStep
  <1> QED
    BY <1>12, <1>13

\* A request refused by the table t, which has lost completed entries, or settled by it.
LEMMA RefusedFine ==
    ASSUME FrontInv, NEW r \in FrontRequests, At(r, "claim"), NEW m \in 0..Len(finished),
           NEW got \in FrontRequests \cup {NoKey},
           got # NoKey => Ids[got].key = Ids[r].key /\ Ids[got].hash = Ids[r].hash,
           Refused(r, Removed(m), [handler[r] EXCEPT !.got = got]), finished' = Removed(m).f,
           counters' = [counters EXCEPT !.stored = Removed(m).stored]
    PROVE  FrontInv'
  <1> DEFINE o == handler[r]
             t == Removed(m)
             x == [FileDropped([o EXCEPT !.got = got]) EXCEPT !.pc = "over"]
  <1>1. o \in Taken /\ HoldsByPhase(o) /\ o.pc = "claim" /\ ~ o.claim
    BY HandlerFine DEF At, HoldsByPhase
  <1>2. /\ handler' = [handler EXCEPT ![r] = x] /\ entries' = t.e /\ finished' = t.f
        /\ counters' = [counters EXCEPT !.stored = t.stored]
    BY DEF Refused
  <1>3. /\ TableOf(t.e, t.f, t.stored, Ids) /\ t.stored \in Nat /\ t.stored <= counters.stored
        /\ counters.stored \in Nat
    BY RemovedIsFine DEF FrontInv
  <1>4. \A q \in FrontRequests : Owning(t.e, q) <=> Owning(entries, q)
    BY OwnersStay
  <1>5. /\ counters \in [stored : Nat, inflight : Nat, reserved : Nat]
        /\ counters.stored <= StoredLimit /\ counters.inflight <= FlightLimit /\ StoredLimit \in Nat
    BY RequestsFinite DEF FrontInv, CountersFine
  <1>6. ~ (Ids[r].key # NoKey /\ Owning(entries, r))
    BY <1>1, ClaimIsEntry
  <1> HIDE DEF o, t
  <1>7. Moves(r, x)
    <2>1. x \in Taken /\ x.id = o.id
      BY <1>1 DEF Taken, FrontPhases, FileDropped
    <2>2. HoldsByPhase(x)
      BY <1>1 DEF Taken, HoldsByPhase, FileDropped
    <2> QED
      BY <1>2, <2>1, <2>2 DEF Moves, o
  <1>8. CountsFollow(r, x)
    <2>1. /\ Flying(x) = Flying(o) /\ Flying(o) \in Nat /\ x.memory = o.memory /\ o.memory \in Nat
          /\ Spooled(x) = 0 /\ Spooled(o) \in Nat
      BY <1>1 DEF Taken, HoldsByPhase, Flying, Spooled, FileDropped
    <2>2. /\ counters'.stored = t.stored /\ counters'.inflight = counters.inflight
          /\ counters'.reserved = counters.reserved
          /\ counters' \in [stored : Nat, inflight : Int, reserved : Int]
      BY <1>2, <1>3, <1>5
    <2>3. counters'.stored <= StoredLimit /\ Spooled(x) <= Spooled(o)
      BY <1>3, <1>5, <2>1, <2>2
    <2>4. counters.inflight \in Nat /\ counters.reserved \in Nat
      BY <1>5
    <2> HIDE DEF x
    <2> QED
      BY <1>5, <2>1, <2>2, <2>3, <2>4 DEF CountsFollow, o
  <1>9. EntriesFollow(r, x)
    <2>1. TableOf(entries', finished', counters'.stored, Ids)
      <3>1. counters'.stored = t.stored
        BY <1>2, <1>5
      <3> QED
        BY <1>2, <1>3, <3>1
    <2>2. \A q \in FrontRequests : Owning(entries', q) <=> Owning(entries, q)
      BY <1>2, <1>4
    <2>3. ~ x.claim /\ x.got = got /\ (Told(o) => Told(x)) /\ x.pc # "wait"
      BY <1>1 DEF Taken, Told, FileDropped
    <2> HIDE DEF x
    <2> QED
      BY <1>6, <2>1, <2>2, <2>3 DEF EntriesFollow, o
  <1> QED
    BY <1>7, <1>8, <1>9, TableStep

LEMMA ClaimKeyFine ==
    ASSUME FrontInv, NEW r \in FrontRequests, ClaimKey(r)
    PROVE  FrontInv'
  <1> DEFINE o == handler[r]
             k == Ids[r].key
  <1>1. o \in Taken /\ HoldsByPhase(o) /\ o.pc = "claim" /\ ~ o.claim /\ At(r, "claim")
    BY HandlerFine DEF ClaimKey, At, HoldsByPhase
  <1>2. KeyOf(r) = k /\ HashOf(r) = Ids[r].hash /\ k # NoKey
    BY <1>1, ClaimIsEntry DEF HoldsByPhase, KeyOf
  <1>3. PICK n \in 0..Len(finished) : LookedUp(r, k, n)
    BY <1>2 DEF ClaimKey
  <1> DEFINE m == IF MakesPlace(k, n) THEN n + 1 ELSE n
             t == Removed(m)
             e == t.e[k]
  <1>4. m \in 0..Len(finished)
    <2>1. Len(finished) \in Nat
      BY LenProperties DEF FrontInv, TableOf
    <2> QED
      BY <2>1 DEF MakesPlace
  <1>5. /\ finished' = t.f /\ counters' = [counters EXCEPT !.stored = t.stored]
    BY <1>3 DEF LookedUp
  <1>6. /\ TableOf(t.e, t.f, t.stored, Ids) /\ t.stored \in Nat /\ t.stored <= counters.stored
        /\ counters.stored \in Nat
    BY <1>4, RemovedIsFine DEF FrontInv
  <1>7. \A q \in FrontRequests : Owning(t.e, q) <=> Owning(entries, q)
    BY <1>4, OwnersStay
  <1>8. /\ counters \in [stored : Nat, inflight : Nat, reserved : Nat]
        /\ counters.stored <= StoredLimit /\ counters.inflight <= FlightLimit /\ StoredLimit \in Nat
    BY RequestsFinite DEF FrontInv, CountersFine
  <1>9. ~ Owning(entries, r)
    BY <1>1, <1>2, ClaimIsEntry
  <1>10. /\ o.got \in FrontRequests \cup {NoKey} /\ o = [o EXCEPT !.got = o.got]
         /\ o.got # NoKey => Ids[o.got].key = k /\ Ids[o.got].hash = Ids[r].hash
    BY <1>1 DEF FrontInv, ClaimsHeld, KeyOf, HashOf, Ids, Taken
  <1>11. k \in DOMAIN t.e => EntryFine(k, e, Ids)
    BY <1>6 DEF TableOf
  <1>12. CASE Refused(r, t, o)
    <2> DEFINE got == o.got
    <2>1. Refused(r, t, [o EXCEPT !.got = got])
      BY <1>10, <1>12
    <2>2. got \in FrontRequests \cup {NoKey}
          /\ (got # NoKey => Ids[got].key = k /\ Ids[got].hash = Ids[r].hash)
      BY <1>10
    <2> HIDE DEF got
    <2> QED
      BY <1>1, <1>4, <1>5, <2>1, <2>2, RefusedFine
  <1>13. CASE /\ k \in DOMAIN t.e /\ e.hash = HashOf(r) /\ e.owner = NoKey
              /\ Refused(r, t, [o EXCEPT !.got = e.response])
    <2> DEFINE got == e.response
    <2>1. got \in FrontRequests \cup {NoKey}
          /\ (got # NoKey => Ids[got].key = k /\ Ids[got].hash = Ids[r].hash)
      BY <1>2, <1>11, <1>13 DEF EntryFine
    <2>2. Refused(r, t, [o EXCEPT !.got = got])
      BY <1>13
    <2> HIDE DEF got
    <2> QED
      BY <1>1, <1>4, <1>5, <2>1, <2>2, RefusedFine
  <1>14. CASE /\ k \in DOMAIN t.e /\ e.owner # NoKey
              /\ handler' = [handler EXCEPT ![r].pc = "wait", ![r].channel = e.owner]
              /\ entries' = t.e
    <2> DEFINE c == e.owner
               x == [o EXCEPT !.pc = "wait", !.channel = c]
    <2>1. handler' = [handler EXCEPT ![r] = x]
      BY <1>14 DEF FrontInv, HandlersFine
    <2>2. c \in FrontRequests /\ Ids[c].key = k /\ Owning(t.e, c)
      BY <1>11, <1>14 DEF EntryFine, Owning
    <2>3. Told(handler[c])
      BY <1>2, <1>7, <2>2, ClaimIsEntry DEF Told
    <2>4. entries' = t.e
      BY <1>14
    <2> HIDE DEF o, t, m, c
    <2>5. Moves(r, x)
      <3>1. x \in Taken /\ x.id = o.id
        BY <1>1, <2>2 DEF Taken, FrontPhases
      <3>2. o.id.key # NoKey
        BY <1>1 DEF HoldsByPhase
      <3>3. HoldsByPhase(x)
        BY <1>1, <2>2, <3>2 DEF Taken, HoldsByPhase
      <3> QED
        BY <2>1, <3>1, <3>3 DEF Moves, o
    <2>6. CountsFollow(r, x)
      <3>1. /\ Flying(x) = Flying(o) /\ Flying(o) \in Nat /\ x.memory = o.memory /\ o.memory \in Nat
            /\ Spooled(x) = Spooled(o) /\ Spooled(o) \in Nat
        BY <1>1 DEF Taken, HoldsByPhase, Flying, Spooled
      <3>2. /\ counters'.stored = t.stored /\ counters'.inflight = counters.inflight
            /\ counters'.reserved = counters.reserved
            /\ counters' \in [stored : Nat, inflight : Int, reserved : Int]
        BY <1>5, <1>6, <1>8
      <3> HIDE DEF x
      <3> QED
        BY <1>6, <1>8, <3>1, <3>2 DEF CountsFollow, o
    <2>7. EntriesFollow(r, x)
      <3>1. TableOf(entries', finished', counters'.stored, Ids)
        <4>1. counters'.stored = t.stored
          BY <1>5, <1>8
        <4> QED
          BY <1>5, <1>6, <2>4, <4>1
      <3>2. \A q \in FrontRequests : Owning(entries', q) <=> Owning(entries, q)
        BY <1>7, <2>4
      <3>3. /\ ~ x.claim /\ x.got = o.got /\ (Told(o) => Told(x)) /\ x.channel = c
        BY <1>1 DEF Taken, Told
      <3> HIDE DEF x
      <3> QED
        BY <1>9, <1>10, <2>3, <3>1, <3>2, <3>3 DEF EntriesFollow, o
    <2> QED
      BY <2>5, <2>6, <2>7, TableStep
  <1>15. CASE k \notin DOMAIN t.e /\ Cardinality(DOMAIN t.e) < EntryLimit /\ Claimed(r, t)
    <2> DEFINE s == [hash |-> HashOf(r), owner |-> r, response |-> NoKey, bytes |-> 0]
               x == [o EXCEPT !.pc = "memory", !.claim = TRUE]
    <2>1. handler' = [handler EXCEPT ![r] = x] /\ entries' = WithEntry(t.e, k, s)
      BY <1>2, <1>15 DEF Claimed, FrontInv, HandlersFine
    <2>2. s.owner = r /\ r # NoKey /\ EntryFine(k, s, Ids)
      BY FrontAssumption DEF EntryFine
    <2> HIDE DEF o, t, m, s
    <2>3. Moves(r, x)
      <3>1. x \in Taken /\ x.id = o.id
        BY <1>1 DEF Taken, FrontPhases
      <3>2. HoldsByPhase(x)
        BY <1>1 DEF Taken, HoldsByPhase
      <3> QED
        BY <2>1, <3>1, <3>2 DEF Moves, o
    <2>4. CountsFollow(r, x)
      <3>1. /\ Flying(x) = Flying(o) /\ Flying(o) \in Nat /\ x.memory = o.memory /\ o.memory \in Nat
            /\ Spooled(x) = Spooled(o) /\ Spooled(o) \in Nat
        BY <1>1 DEF Taken, HoldsByPhase, Flying, Spooled
      <3>2. /\ counters'.stored = t.stored /\ counters'.inflight = counters.inflight
            /\ counters'.reserved = counters.reserved
            /\ counters' \in [stored : Nat, inflight : Int, reserved : Int]
        BY <1>5, <1>6, <1>8
      <3> HIDE DEF x
      <3> QED
        BY <1>6, <1>8, <3>1, <3>2 DEF CountsFollow, o
    <2>5. EntriesFollow(r, x)
      <3>1. TableOf(entries', finished', counters'.stored, Ids)
        <4>1. counters'.stored = t.stored
          BY <1>5, <1>8
        <4>2. TableOf(WithEntry(t.e, k, s), t.f, t.stored, Ids)
          BY <1>2, <1>6, <1>15, <2>2, EntryAdded
        <4> QED
          BY <1>5, <2>1, <4>1, <4>2
      <3>2. /\ DOMAIN entries' = DOMAIN t.e \cup {k} /\ entries'[k] = s
            /\ \A j \in DOMAIN t.e : entries'[j] = t.e[j]
        BY <1>15, <2>1 DEF WithEntry
      <3>3. \A q \in FrontRequests \ {r} : Owning(entries', q) <=> Owning(t.e, q)
        BY <1>15, <2>2, <3>2 DEF Owning
      <3>4. Owning(entries', r)
        BY <2>2, <3>2 DEF Owning
      <3>5. x.claim /\ x.got = o.got /\ Told(x) /\ x.pc # "wait"
        BY <1>1 DEF Taken, Told
      <3> HIDE DEF x
      <3> QED
        BY <1>2, <1>7, <1>10, <3>1, <3>3, <3>4, <3>5 DEF EntriesFollow
    <2> QED
      BY <2>3, <2>4, <2>5, TableStep
  <1> QED
    BY <1>3, <1>12, <1>13, <1>14, <1>15 DEF LookedUp

LEMMA FrontStarts ==
    ASSUME FrontInit
    PROVE  FrontInv
  <1>1. PICK ids \in [FrontRequests -> UNION {Identities[r] : r \in FrontRequests}] :
          handler = [r \in FrontRequests |-> Fetched(ids[r])]
    BY DEF FrontInit
  <1>2. /\ entries = [k \in {} |-> 0] /\ finished = <<>>
        /\ counters = [stored |-> 0, inflight |-> 0, reserved |-> 0]
    BY DEF FrontInit
  <1>3. \A r \in FrontRequests : /\ handler[r] = Fetched(ids[r])
                                 /\ ids[r] \in UNION {Identities[q] : q \in FrontRequests}
    BY <1>1
  <1>4. ASSUME NEW i \in UNION {Identities[q] : q \in FrontRequests}
        PROVE  /\ Fetched(i) \in Taken /\ HoldsByPhase(Fetched(i))
               /\ Spooled(Fetched(i)) = 0 /\ Flying(Fetched(i)) = 0 /\ Fetched(i).memory = 0
               /\ ~ Fetched(i).claim /\ Fetched(i).got = NoKey /\ Fetched(i).pc # "wait"
    BY DEF Fetched, Taken, FrontPhases, HoldsByPhase, Spooled, Flying
  <1>5. HandlersFine
    BY <1>1, <1>3, <1>4 DEF HandlersFine
  <1>6. SpoolSum(handler) = 0 /\ FlightSum(handler) = 0 /\ MemorySum(handler) = 0
    <2> DEFINE s == [r \in FrontRequests |-> Spooled(handler[r])]
               f == [r \in FrontRequests |-> Flying(handler[r])]
               m == [r \in FrontRequests |-> handler[r].memory]
    <2>1. /\ \A r \in FrontRequests : s[r] = 0
          /\ \A r \in FrontRequests : f[r] = 0
          /\ \A r \in FrontRequests : m[r] = 0
      BY <1>3, <1>4
    <2>2. /\ SpoolSum(handler) = SumFunctionOnSet(s, FrontRequests)
          /\ FlightSum(handler) = SumFunctionOnSet(f, FrontRequests)
          /\ MemorySum(handler) = SumFunctionOnSet(m, FrontRequests)
      BY DEF SpoolSum, FlightSum, MemorySum
    <2> HIDE DEF s, f, m
    <2>3. SumFunctionOnSet(s, FrontRequests) = 0
      BY <2>1, RequestsFinite, SumOfZeros
    <2>4. SumFunctionOnSet(f, FrontRequests) = 0
      BY <2>1, RequestsFinite, SumOfZeros
    <2>5. SumFunctionOnSet(m, FrontRequests) = 0
      BY <2>1, RequestsFinite, SumOfZeros
    <2> QED
      BY <2>2, <2>3, <2>4, <2>5
  <1>7. CountersFine
    <2>1. Cardinality(FrontRequests) >= 1
      <3>1. Cardinality(FrontRequests) # 0
        BY RequestsFinite, FrontAssumption, FS_EmptySet
      <3> QED
        BY <3>1, RequestsFinite
    <2> QED
      BY <1>2, <1>6, <2>1, RequestsFinite DEF CountersFine
  <1>8. TableOf(entries, finished, counters.stored, Ids)
    <2> DEFINE none == <<>>
    <2>1. DOMAIN entries = {} /\ Settled(entries) = {}
      BY <1>2 DEF Settled
    <2>2. IsFiniteSet({}) /\ Cardinality({}) = 0
      BY FS_EmptySet
    <2>3. none \in Seq({}) /\ Range(none) = {} /\ IsInjective(none)
      BY DEF Range, IsInjective
    <2>4. BytesOf(entries, {}) = 0
      BY SumOfNothing DEF BytesOf
    <2>5. finished = none /\ counters.stored = 0
      BY <1>2
    <2> HIDE DEF none
    <2>6. Cardinality({}) <= EntryLimit
      BY <2>2, RequestsFinite
    <2> QED
      BY <2>1, <2>2, <2>3, <2>4, <2>5, <2>6 DEF TableOf
  <1>9. ClaimsHeld /\ FrontWaiterWakes
    <2>1. DOMAIN entries = {}
      BY <1>2
    <2> QED
      BY <1>3, <1>4, <2>1 DEF ClaimsHeld, FrontWaiterWakes, Owns, InTable, At
  <1> QED
    BY <1>5, <1>7, <1>8, <1>9 DEF FrontInv

LEMMA FrontStays ==
    ASSUME FrontInv, [FrontNext]_frontVars
    PROVE  FrontInv'
  <1>1. CASE UNCHANGED frontVars
    BY <1>1 DEF frontVars, FrontInv, HandlersFine, HoldsByPhase, CountersFine, SpoolSum, FlightSum,
                MemorySum, TableOf, Ids, ClaimsHeld, KeyOf, HashOf, Owns, InTable,
                FrontWaiterWakes, At
  <1>2. CASE FrontNext
    <2>1. PICK r \in FrontRequests : FrontStepOf(r) \/ WaitTimesOut(r) \/ HandlerDropped(r)
      BY <1>2 DEF FrontNext
    <2>2. CASE BeginSpool(r) \/ CheckChunk(r) \/ WriteChunk(r) \/ FinishUpload(r)
               \/ FlushEnds(r) \/ SpoolFails(r)
      BY <2>2, BeginSpoolFine, CheckChunkFine, WriteChunkFine, FinishUploadFine, FlushEndsFine,
         SpoolFailsFine
    <2>3. CASE ClaimKey(r) \/ WakeClaim(r) \/ WaitTimesOut(r) \/ CompleteClaim(r)
               \/ NonreplayableClaim(r) \/ ReleaseClaim(r) \/ SendNotice(r)
      BY <2>3, ClaimKeyFine, WakeClaimFine, WaitTimesOutFine, CompleteClaimFine,
         NonreplayableClaimFine, ReleaseClaimFine, SendNoticeFine
    <2>4. CASE LoadReserved(r) \/ SwapReserved(r) \/ MemoryTimesOut(r) \/ Prepare(r)
               \/ WholeResponse(r) \/ ServeFails(r)
      BY <2>4, LoadReservedFine, SwapReservedFine, MemoryTimesOutFine, PrepareFine,
         WholeResponseFine, ServeFailsFine
    <2>5. CASE StartPublic(r) \/ CaptureSegment(r) \/ FinishPublic(r) \/ HandlerDropped(r)
      BY <2>5, StartPublicFine, CaptureSegmentFine, FinishPublicFine, HandlerDroppedFine
    <2> QED
      BY <2>1, <2>2, <2>3, <2>4, <2>5 DEF FrontStepOf
  <1> QED
    BY <1>1, <1>2

LEMMA FrontInvIsSound ==
    ASSUME FrontInv
    PROVE  FrontSound
  <1>1. CountersExact
    <2>1. TableOf(entries, finished, counters.stored, Ids)
      BY DEF FrontInv
    <2>2. counters.inflight =
            SumFunctionOnSet([r \in FrontRequests |-> IF At(r, "public") THEN handler[r].bytes ELSE 0],
                             FrontRequests)
      BY DEF FrontInv, CountersFine, FlightSum, Flying, At
    <2>3. counters.reserved = SumFunctionOnSet([r \in FrontRequests |-> handler[r].memory],
                                               FrontRequests)
      BY DEF FrontInv, CountersFine, MemorySum
    <2> QED
      BY <2>1, <2>2, <2>3 DEF CountersExact, FrontInv, CountersFine, TableOf, Settled, InTable
  <1>2. SpoolsOwned
    <2> DEFINE F == FrontRequests
               s == [q \in F |-> Spooled(handler[q])]
               d == [q \in F |-> IF handler[q].file THEN handler[q].body ELSE 0]
    <2>1. \A q \in F : d[q] \in Nat /\ s[q] \in Nat /\ d[q] <= s[q]
      BY DEF FrontInv, HandlersFine, Taken, Spooled
    <2>2. SpoolSum(handler) = SumFunctionOnSet(s, F) /\ DiskUsed = SumFunctionOnSet(d, F)
      BY DEF SpoolSum, DiskUsed
    <2>3. IsFiniteSet(F)
      BY RequestsFinite
    <2> HIDE DEF s, d, F
    <2>4. SumFunctionOnSet(d, F) <= SumFunctionOnSet(s, F)
      BY <2>1, <2>3, SumAtMost
    <2>5. SumFunctionOnSet(d, F) \in Nat /\ SumFunctionOnSet(s, F) \in Nat
      BY <2>1, <2>3, SumIsNat
    <2>6. DiskUsed <= DiskRoom + Cardinality(FrontRequests) - 1
      BY <2>2, <2>4, <2>5, RequestsFinite DEF FrontInv, CountersFine
    <2>7. \A r \in FrontRequests : At(r, "over") /\ handler[r].file => handler[r].lost
      BY DEF FrontInv, HandlersFine, HoldsByPhase, At
    <2> QED
      BY <2>6, <2>7 DEF SpoolsOwned
  <1> QED
    BY <1>1, <1>2 DEF FrontSound, FrontInv

\* In every state of the Rust front, what it counts is what it holds: stored, in-flight and
\* reserved bytes are the sums over their owners and within their limits, the table keeps one
\* claim for every owner that can settle it, a replay is of the same request, the spools exceed
\* the disk's room by a chunk for every other request at most, and no waiter is forgotten
\* (idempotency.rs, resources.rs, request_spool.rs).
THEOREM FrontIsSound == FrontSpec => []FrontSound
  <1>1. FrontInit => FrontInv
    BY FrontStarts
  <1>2. FrontInv /\ [FrontNext]_frontVars => FrontInv'
    BY FrontStays
  <1>3. FrontInv => FrontSound
    BY FrontInvIsSound
  <1> QED
    BY <1>1, <1>2, <1>3, PTL DEF FrontSpec
===============================================================================
