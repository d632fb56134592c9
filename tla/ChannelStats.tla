----------------------------- MODULE ChannelStats -----------------------------
(***************************************************************************)
(* The channel statistics of uni_api/runtime.py: marks are put into a      *)
(* bounded queue without waiting, a few workers write them to the          *)
(* database, and the shutdown drains the queue for a while, cancels the    *)
(* workers and throws away what is left.  Requests may still put marks     *)
(* while it does.  A mark is only counted here; Endpoint says which marks  *)
(* a request makes.                                                        *)
(***************************************************************************)
EXTENDS Integers, FiniteSets

CONSTANTS Capacity,    \* RESPONSES_STREAM_STATS_QUEUE_MAX_ITEMS
          StatWorkers, \* responses_stream_stats_workers
          MaxMarks     \* bound on the marks of a behaviour, for TLC

ASSUME StatsAssumption == /\ Capacity \in Nat \ {0} /\ MaxMarks \in Nat
                          /\ IsFiniteSet(StatWorkers) /\ StatWorkers # {}

\* queue: its length, -1 without a queue; unfinished: what its join waits for; ph: the
\* lifespan; submitted, completed, failed, dropped: the counters of the snapshot; lost: marks
\* taken out of the queue and not counted; late: marks put after the join is over; rows: what
\* the database has; timedout: a shutdown did not wait for the join.
VARIABLES stats, worker

statsVars == <<stats, worker>>

StatsInit ==
    /\ stats = [queue |-> -1, unfinished |-> 0, ph |-> "off", submitted |-> 0, completed |-> 0,
                failed |-> 0, dropped |-> 0, lost |-> 0, late |-> 0, rows |-> 0, timedout |-> FALSE]
    /\ worker = [k \in StatWorkers |-> "gone"]

\* _start_responses_stream_stats_workers, by the lifespan.
StartWorkers ==
    /\ stats.ph = "off"
    /\ stats' = [stats EXCEPT !.ph = "on", !.queue = 0, !.unfinished = 0]
    /\ worker' = [k \in StatWorkers |-> "idle"]

\* _enqueue_responses_stream_stats.
Enqueue ==
    /\ stats.queue >= 0 /\ stats.submitted + stats.dropped < MaxMarks
    /\ stats' = IF stats.queue = Capacity THEN [stats EXCEPT !.dropped = @ + 1]
                ELSE [stats EXCEPT !.queue = @ + 1, !.unfinished = @ + 1, !.submitted = @ + 1,
                                   !.late = IF stats.ph \in {"joined", "reap"} THEN @ + 1 ELSE @]
    /\ UNCHANGED worker

\* queue.get
TakeMark(k) ==
    /\ worker[k] = "idle" /\ stats.ph # "reap" /\ stats.queue > 0
    /\ worker' = [worker EXCEPT ![k] = "writing"]
    /\ stats' = [stats EXCEPT !.queue = @ - 1]

\* session.commit
CommitMark(k) ==
    /\ worker[k] = "writing"
    /\ worker' = [worker EXCEPT ![k] = "written"]
    /\ stats' = [stats EXCEPT !.rows = @ + 1]

\* Mutant: a mark that could not be written counts as completed, too.
CountedTwice(s, persisted) ==
    IF persisted THEN [s EXCEPT !.completed = @ + 1, !.unfinished = @ - 1]
    ELSE [s EXCEPT !.failed = @ + 1, !.completed = @ + 1, !.unfinished = @ - 1]

\* The end of a round: the result is counted, and task_done is called in any case.
Counted(s, persisted) ==
    IF persisted THEN [s EXCEPT !.completed = @ + 1, !.unfinished = @ - 1]
    ELSE [s EXCEPT !.failed = @ + 1, !.unfinished = @ - 1]

\* update_channel_stats returns, or raises.
MarkDone(k) ==
    /\ worker[k] \in {"writing", "written"} /\ stats.ph # "reap"
    /\ worker' = [worker EXCEPT ![k] = "idle"]
    /\ stats' = Counted(stats, worker[k] = "written")

\* _stop_responses_stream_stats_workers begins to wait.
StopBegins == /\ stats.ph = "on" /\ stats' = [stats EXCEPT !.ph = "join"] /\ UNCHANGED worker

\* queue.join returns, or its time is over.
JoinEnds ==
    /\ stats.ph = "join"
    /\ \/ stats.unfinished = 0 /\ stats' = [stats EXCEPT !.ph = "joined"]
       \/ stats' = [stats EXCEPT !.ph = "joined", !.timedout = TRUE]
    /\ UNCHANGED worker

\* The stop resumes and cancels the workers.
CancelWorkers ==
    /\ stats.ph = "joined"
    /\ stats' = [stats EXCEPT !.ph = "reap"] /\ UNCHANGED worker

\* A cancelled worker leaves at its next step; the mark that it holds is not counted.
WorkerLeaves(k) ==
    /\ stats.ph = "reap" /\ worker[k] # "gone"
    /\ worker' = [worker EXCEPT ![k] = "gone"]
    /\ stats' = IF worker[k] = "idle" THEN stats
                ELSE [stats EXCEPT !.lost = @ + 1, !.unfinished = @ - 1]

\* gather returns: the rest of the queue is thrown away.
StopEnds ==
    /\ stats.ph = "reap" /\ \A k \in StatWorkers : worker[k] = "gone"
    /\ stats' = [stats EXCEPT !.ph = "off", !.queue = -1, !.lost = @ + stats.queue,
                              !.unfinished = @ - stats.queue]
    /\ UNCHANGED worker

StatsNext ==
    \/ StartWorkers \/ Enqueue \/ StopBegins \/ JoinEnds \/ CancelWorkers \/ StopEnds
    \/ \E k \in StatWorkers : TakeMark(k) \/ CommitMark(k) \/ MarkDone(k) \/ WorkerLeaves(k)

StatsSpec == StatsInit /\ [][StatsNext]_statsVars

-----------------------------------------------------------------------------
(* Properties *)

Queued == IF stats.queue < 0 THEN 0 ELSE stats.queue
Held == {k \in StatWorkers : worker[k] \in {"writing", "written"}}

\* Every mark that was accepted is accounted for (runtime.py, the stats workers), whenever the
\* workers are cancelled: it is completed, failed, still there, or lost, and only one of them;
\* a shutdown loses none that was put before its join was over, unless the time is over; and
\* what the counters call completed is in the database, where a mark may be that was lost in
\* the moment after its commit.
StatsAccounted ==
    /\ stats.submitted = stats.completed + stats.failed + Queued + Cardinality(Held) + stats.lost
    /\ stats.unfinished = Queued + Cardinality(Held) /\ stats.queue <= Capacity
    /\ ~ stats.timedout => stats.lost <= stats.late
    /\ stats.completed <= stats.rows
    /\ stats.rows <= stats.completed + stats.lost + Cardinality(Held)
    /\ stats.ph = "off" => Held = {} /\ stats.unfinished = 0
=============================================================================
