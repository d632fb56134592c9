---------------------------- MODULE StreamCleanup ----------------------------
(***************************************************************************)
(* uni_api/streaming/cleanup.py: a clean-up is a task that its owner waits *)
(* for until a deadline.  A task that is still running then is cancelled   *)
(* and either detached, which the table of background tasks bounds, or     *)
(* waited for while the owner keeps its request.  Cancelling a task makes  *)
(* it stop or has no effect; a supervisor never stops before its task.     *)
(***************************************************************************)
EXTENDS Integers, FiniteSets

CONSTANTS Cleaners,  \* the operations that clean up
          Outside,   \* those that may run outside a request
          MaxTasks   \* BACKGROUND_STREAM_CLEANUP_MAX_TASKS

ASSUME CleanupAssumption == MaxTasks \in Nat

\* The close of the response, of evicted connections, and of the raw context.
Steps == {"close", "conn", "raw"}

VARIABLES task,     \* the clean-up tasks: none (or over), running; of a close: ok, failed
          bg,       \* BACKGROUND_STREAM_CLEANUP_TASKS
          deferral, \* MemoryReleaseDeferrals of a request, by clean-up
          request,  \* the request's admission lease: none, active or released
          inline    \* clean-ups an operation waits for without a deadline

cleanupVars == <<task, bg, deferral, request, inline>>

CleanupInit ==
    /\ task = [o \in Cleaners |-> [k \in Steps |-> "none"]]
    /\ bg = {}
    /\ deferral = [o \in Cleaners |-> {}]
    /\ request \in {r \in [Cleaners -> {"none", "active"}] :
                      \A o \in Cleaners \ Outside : r[o] = "active"}
    /\ inline = [o \in Cleaners |-> {}]

Running(o, k) == task[o][k] = "running"
Settled(o, k) == ~ Running(o, k) /\ k \notin inline[o]

Started(o, k) == task' = [task EXCEPT ![o][k] = "running"]

-----------------------------------------------------------------------------
(* _detach_or_finish_bounded, for the clean-up k of o that passed its deadline *)

Full == Cardinality(bg) >= MaxTasks

\* Mutants: a live request never, or always, leaves its task behind.
MayDetachNever(o, isolated) == ~ Full /\ request[o] # "active"
\* Whether the owner may go on without the task: with a live request only if
\* the transport is isolated; and only while the table has room.
MayDetach(o, isolated) == ~ Full /\ (request[o] # "active" \/ isolated)

\* The deferral and the registration are one shielded transaction.
Detach(o, k) ==
    /\ bg' = bg \cup {<<o, k>>}
    /\ deferral' = IF request[o] = "active"
                   THEN [deferral EXCEPT ![o] = @ \cup {k}] ELSE deferral
    /\ UNCHANGED inline

\* finish_without_releasing_ownership: cancellations of the owner are drained.
FinishInline(o, k) ==
    /\ inline' = [inline EXCEPT ![o] = @ \cup {k}]
    /\ UNCHANGED <<bg, deferral>>

DetachOrFinish(o, k, isolated) ==
    IF MayDetach(o, isolated) THEN Detach(o, k) ELSE FinishInline(o, k)

\* The task ends: an owner that waits resumes, and a supervisor gives the
\* memory deferral back and leaves the table.
Ended(o, k, how) ==
    /\ Running(o, k)
    /\ task' = [task EXCEPT ![o][k] = how]
    /\ k # "close" => how = "none"
    /\ bg' = bg \ {<<o, k>>}
    /\ deferral' = [deferral EXCEPT ![o] = @ \ {k}]
    /\ inline' = [inline EXCEPT ![o] = @ \ {k}]
    /\ UNCHANGED request

\* wait_background_stream_cleanup_tasks at shutdown: what is still pending is
\* cancelled, which ends some of the tasks without a supervisor.
CancelBackground(ended) ==
    /\ ended \subseteq {t \in bg : t[2] \notin deferral[t[1]]} /\ ended # {}
    /\ task' = [o \in Cleaners |-> [k \in Steps |->
                   IF <<o, k>> \notin ended THEN task[o][k]
                   ELSE IF k = "close" THEN "failed" ELSE "none"]]
    /\ bg' = bg \ ended
    /\ UNCHANGED <<deferral, request, inline>>

\* The middleware releases the request's lease when the handler has returned.
ReleaseRequest(o) ==
    /\ request[o] = "active"
    /\ request' = [request EXCEPT ![o] = "released"]
    /\ UNCHANGED <<task, bg, deferral, inline>>

=============================================================================
