--------------------------- MODULE QueuedAdmission ---------------------------
(***************************************************************************)
(* RequestAdmissionMiddleware of uni_api/middleware/admission.py over the  *)
(* admission gate: a request takes a slot, or waits for one while the      *)
(* frames of its body are buffered against a pending reservation and its   *)
(* client may leave; then the application reads the buffered frames and    *)
(* the rest of the body, and pays for them from the bytes of the lease.    *)
(*                                                                         *)
(* Three tasks can wake a queued request: the acquisition, a receive and   *)
(* the observer of the transport's disconnect event.  The request looks at *)
(* all of them when it runs, not when it was woken, and the observer is    *)
(* done only one turn after the event is set.                              *)
(*                                                                         *)
(* Only the callers in Requests go through the middleware here; the others *)
(* compete for the gate in any way the gate allows.  The ledger behind     *)
(* the reservations is module RequestMemory; here a reservation of bytes   *)
(* is granted or refused, sooner or later.                                 *)
(***************************************************************************)
EXTENDS AdmissionGate, Functions

CONSTANTS Requests,
          FrameSizes,   \* the bytes of a frame of a body
          MaxFrames,    \* bound: frames of a body
          Multiplier,   \* weighted bytes per byte of a declared JSON body
          HighWater,    \* ADMISSION_PREBUFFER_MESSAGE_HIGH_WATERMARK
          MaxUse        \* bound: bytes the application charges for a request

ASSUME QueuedAssumption ==
    /\ Requests \subseteq Callers
    /\ FrameSizes \subseteq Nat /\ FrameSizes # {} /\ MaxFrames \in Nat \ {0}
    /\ Multiplier \in Nat \ {0} /\ HighWater \in Nat \ {0}
    /\ MaxUse \in Nat

VARIABLES gone,   \* the disconnect events that are set
          mw      \* where each request stands in the middleware

gate == vars
all == <<active, waiters, wstate, pc, gone, mw>>

\* The bodies a client may send.
Bodies == UNION {[1..n -> FrameSizes] : n \in 1..MaxFrames}

\* Frames are numbered; message 0 is http.disconnect.
Fresh == [ph |-> "new",
          rx |-> "none", msg |-> 0,       \* the receive task and its last message
          body |-> <<>>, next |-> 1,      \* the frames and the next frame on the wire
          obs |-> "none",                 \* the disconnect observer
          buf |-> <<>>,                   \* buffered, replayed_messages
          got |-> <<>>,                   \* the frames the application has
          pend |-> 0, lease |-> 0,        \* bytes of the pending reservation, the lease
          pre |-> 0,                      \* pre_reserved_wire_credit
          credit |-> 0,                   \* available_replayed_credit
          used |-> 0,                     \* what the application has charged
          why |-> "none"]                 \* why the request leaves the queue

AdmissionInit ==
    /\ Init
    /\ gone = {}
    /\ mw \in [Requests -> {[Fresh EXCEPT !.body = b] : b \in Bodies}]

At(c, phase) == mw[c].ph = phase

Become(c, m) == mw' = [mw EXCEPT ![c] = m]

Enter(c, phase) == mw' = [mw EXCEPT ![c].ph = phase]

Size(c, i) == mw[c].body[i]

\* Of the frames that seq names, each once.
Sizes(c, seq) == SumFunctionOnSet(mw[c].body, ToSet(seq))

\* The content-length, and the weighted bytes it stands for.
Wire(c) == SumFunctionOnSet(mw[c].body, DOMAIN mw[c].body)
Target(c) == Wire(c) * Multiplier

Least(a, b) == IF a < b THEN a ELSE b
Most(a, b) == IF a > b THEN a ELSE b

-----------------------------------------------------------------------------
(* The transport *)

\* A receive ends with the next frame, or with the disconnect of a client that
\* has left.
ReceiveEnds(c) ==
    /\ mw[c].rx = "pending"
    /\ \/ /\ c \notin gone /\ mw[c].next <= Len(mw[c].body)
          /\ mw' = [mw EXCEPT ![c].rx = "done", ![c].msg = mw[c].next, ![c].next = @ + 1]
       \/ /\ c \in gone
          /\ mw' = [mw EXCEPT ![c].rx = "done", ![c].msg = 0]
    /\ UNCHANGED <<gate, gone>>

\* connection_lost sets the request's event.  Nothing here looks at the event
\* once the request is on its way out.
ClientLeaves(c) ==
    /\ c \notin gone
    /\ mw[c].ph \notin {"rejecting", "stopping", "leaving", "stopped", "over"}
    /\ gone' = gone \cup {c}
    /\ UNCHANGED <<gate, mw>>

ObserverRuns(c) ==
    /\ mw[c].obs = "waiting" /\ c \in gone
    /\ mw' = [mw EXCEPT ![c].obs = "done"]
    /\ UNCHANGED <<gate, gone>>

-----------------------------------------------------------------------------
(* In the queue: _acquire_queued_request *)

\* try_acquire, and begin_acquire when there is no slot.  Neither suspends
\* before the request is in the queue.
Admit(c) ==
    /\ At(c, "new") /\ Ready(c)
    /\ \/ TryAcquire(c) /\ Enter(c, "declaring")
       \/ ~SlotFree /\ Enqueue(c) /\ Enter(c, "beginning")
       \/ ~SlotFree /\ QueueFull(c) /\ Enter(c, "rejecting")
    /\ UNCHANGED gone

AcquireDone(c) == pc[c] \in {"leased", "rejected"}

\* begin_acquire has waited for its task to start.  Receive and observer are
\* started unless the acquisition is over by now.
Begun(c) ==
    /\ At(c, "beginning")
    /\ Become(c, IF AcquireDone(c) THEN [mw[c] EXCEPT !.ph = "queued"]
                 ELSE [mw[c] EXCEPT !.ph = "queued", !.rx = "pending", !.obs = "waiting"])
    /\ UNCHANGED <<gate, gone>>

\* finish_queued_ownership_cleanup is scheduled.
Leaving(m, why) == [m EXCEPT !.ph = "stopping", !.why = why]

\* A close of the transport owns a same-turn race with admission.
DisconnectWins(c) ==
    /\ At(c, "queued") /\ mw[c].obs = "done"
    /\ Become(c, Leaving(mw[c], "gone"))
    /\ UNCHANGED <<gate, gone>>

\* The queue's timeout: acquire_task.result() raises.
TimedOut(c) ==
    /\ At(c, "queued") /\ mw[c].obs # "done" /\ pc[c] = "rejected"
    /\ Become(c, Leaving(mw[c], "rejected"))
    /\ UNCHANGED <<gate, gone>>

\* pending.transfer_to(lease) and the first look at the event; the observer, if
\* there is one, is then cancelled, which takes a turn.
Transferred(c, m) ==
    LET t == [m EXCEPT !.lease = @ + m.pend, !.pend = 0]
    IN  IF c \in gone THEN Leaving(t, "gone")
        ELSE [t EXCEPT !.msg = IF m.rx = "done" THEN @ ELSE 0, !.ph = IF m.obs = "none" THEN "declaring" ELSE "unobserving"]

\* The slot is there.  A message received meanwhile is looked at first; a frame
\* is buffered like those before it.
Granted(c) ==
    /\ At(c, "queued") /\ mw[c].obs # "done"
    /\ OwnerResumes(c)
    /\ LET m == mw[c]
       IN Become(c, IF m.rx # "done" THEN Transferred(c, m)
                    ELSE IF m.msg = 0 THEN Leaving([m EXCEPT !.rx = "none"], "gone")
                    ELSE [m EXCEPT !.rx = "none", !.ph = "admitting"])
    /\ UNCHANGED gone

\* A message before the slot.
Received(c) ==
    /\ At(c, "queued") /\ mw[c].obs # "done" /\ ~AcquireDone(c)
    /\ mw[c].rx = "done"
    /\ LET m == [mw[c] EXCEPT !.rx = "none"]
       IN Become(c, IF m.msg = 0 THEN Leaving(m, "gone") ELSE [m EXCEPT !.ph = "buffering"])
    /\ UNCHANGED <<gate, gone>>

\* _buffer_pending_message: the frame's bytes are reserved, then it is kept.
Buffered(c, m) ==
    [m EXCEPT !.pend = @ + Size(c, m.msg), !.buf = Append(@, m.msg)]

\* Receiving pauses at the high-water mark; otherwise one receive is always
\* pending, also after the last frame, to see the client leave.
Buffer(c) ==
    /\ At(c, "buffering")
    /\ LET m == Buffered(c, mw[c])
           last == m.msg = Len(mw[c].body)
           pause == ~last /\ Len(m.buf) >= HighWater
       IN Become(c, [m EXCEPT !.ph = "queued", !.msg = 0,
                              !.rx = IF pause THEN "none" ELSE "pending"])
    /\ UNCHANGED <<gate, gone>>

BufferAdmitted(c) ==
    /\ At(c, "admitting")
    /\ Become(c, Transferred(c, Buffered(c, mw[c])))
    /\ UNCHANGED <<gate, gone>>

BufferRefused(c) ==
    /\ mw[c].ph \in {"buffering", "admitting"} /\ Size(c, mw[c].msg) > 0
    /\ Become(c, Leaving(mw[c], "rejected"))
    /\ UNCHANGED <<gate, gone>>

\* Mutant of Unobserved: the event is not looked at again.
Unobserved_NoRecheck(c) ==
    /\ At(c, "unobserving")
    /\ Become(c, [mw[c] EXCEPT !.obs = "none", !.ph = "declaring"])
    /\ UNCHANGED <<gate, gone>>

\* cancel_disconnect_observer has ended, and the event is looked at again.
Unobserved(c) ==
    /\ At(c, "unobserving")
    /\ LET m == [mw[c] EXCEPT !.obs = "none"]
       IN Become(c, IF c \in gone THEN Leaving(m, "gone") ELSE [m EXCEPT !.ph = "declaring"])
    /\ UNCHANGED <<gate, gone>>

\* Mutant of Stop: the acquisition is cancelled and its result not looked at.
Stop_ForgetsGrant(c) ==
    /\ At(c, "stopping")
    /\ \/ StopWaiting(c) \/ Release(c)
       \/ pc[c] \in {"leased", "abandoning", "rejected"} /\ UNCHANGED gate
    /\ mw' = [mw EXCEPT ![c].ph = "stopped", ![c].rx = "none", ![c].obs = "none",
                        ![c].lease = IF pc[c] = "holding" THEN 0 ELSE @]
    /\ UNCHANGED gone

\* cleanup_queued_ownership: receive and observer are cancelled, then the
\* acquisition; a lease it holds all the same, or one already taken, is released.
Stop(c) ==
    /\ At(c, "stopping")
    /\ \/ StopWaiting(c) \/ OwnerCancelled(c) \/ Release(c)
       \/ pc[c] \in {"abandoning", "rejected"} /\ UNCHANGED gate
    /\ mw' = [mw EXCEPT ![c].ph = "stopped", ![c].rx = "none", ![c].obs = "none",
                        ![c].lease = IF pc[c] = "holding" THEN 0 ELSE @]
    /\ UNCHANGED gone

\* All of it has ended; the pending reservation goes last.
Stopped(c) ==
    /\ At(c, "stopped") /\ pc[c] \notin {"waiting", "abandoning", "releasing"}
    /\ Become(c, [Fresh EXCEPT !.ph = IF mw[c].why = "rejected" THEN "rejecting" ELSE "over",
                               !.rx = mw[c].rx, !.obs = mw[c].obs, !.lease = mw[c].lease])
    /\ UNCHANGED <<gate, gone>>

-----------------------------------------------------------------------------
(* With a slot *)

\* The declared content-length, if there is one, is reserved at once.  The bytes
\* of the frames buffered in the queue count towards it; what is still to come
\* is a credit for the wire, and what JSON needs beyond the wire a credit for
\* the application.
Declare(c) ==
    /\ At(c, "declaring")
    /\ LET m == [mw[c] EXCEPT !.ph = "serving"]
       IN \/ Become(c, m)
          \/ Become(c, [m EXCEPT !.lease = Most(@, Target(c)),
                                 !.pre = Most(0, Wire(c) - m.lease),
                                 !.credit = Target(c) - Wire(c)])
    /\ UNCHANGED <<gate, gone>>

\* replay_receive: the buffered frames come first,
Replay(c) ==
    /\ At(c, "serving") /\ mw[c].buf # <<>>
    /\ mw' = [mw EXCEPT ![c].buf = Tail(@), ![c].got = Append(@, Head(mw[c].buf)),
                        ![c].credit = @ + Size(c, Head(mw[c].buf))]
    /\ UNCHANGED <<gate, gone>>

\* then the receive that was pending in the queue, then new ones.
AppReceives(c) ==
    /\ At(c, "serving") /\ mw[c].buf = <<>> /\ mw[c].rx = "none"
    /\ mw' = [mw EXCEPT ![c].rx = "pending"]
    /\ UNCHANGED <<gate, gone>>

AppTakes(c) ==
    /\ At(c, "serving") /\ mw[c].buf = <<>> /\ mw[c].rx = "done"
    /\ mw' = [mw EXCEPT ![c].rx = "none",
                        ![c].ph = IF mw[c].msg = 0 THEN "leaving" ELSE "charging"]
    /\ UNCHANGED <<gate, gone>>

\* The part of a frame that the wire credit does not cover.
Uncovered(c) == Most(0, Size(c, mw[c].msg) - mw[c].pre)

\* The frame is paid for.  After the last one the unused wire credit returns.
Charge(c) ==
    /\ At(c, "charging")
    /\ LET m == mw[c]
           left == Most(0, m.pre - Size(c, m.msg))
           unused == IF m.msg = Len(mw[c].body) THEN left ELSE 0
       IN Become(c, [m EXCEPT !.ph = "serving", !.lease = @ + Uncovered(c) - unused,
                              !.pre = left - unused, !.credit = @ + Size(c, m.msg),
                              !.got = Append(@, m.msg), !.msg = 0])
    /\ UNCHANGED <<gate, gone>>

\* reserve_body_bytes, given to the application: credit first.
Use(c, n) ==
    /\ At(c, "serving") /\ mw[c].used + n <= MaxUse
    /\ LET m == mw[c]
           credited == Least(n, m.credit)
       IN Become(c, [m EXCEPT !.credit = @ - credited, !.lease = @ + n - credited,
                              !.used = @ + n])
    /\ UNCHANGED <<gate, gone>>

\* release_body_bytes.
Return(c, n) ==
    /\ At(c, "serving") /\ n <= mw[c].used
    /\ mw' = [mw EXCEPT ![c].lease = @ - n, ![c].used = @ - n]
    /\ UNCHANGED <<gate, gone>>

\* One of the reservations above is refused before the response has started.
Refused(c) ==
    /\ \/ At(c, "declaring") /\ Target(c) > mw[c].lease
       \/ At(c, "charging") /\ Uncovered(c) > 0
       \/ At(c, "serving") /\ MaxUse - mw[c].used > mw[c].credit
    /\ Enter(c, "rejecting")
    /\ UNCHANGED <<gate, gone>>

\* The application returns or raises; the rejection is sent, or not.
Answered(c) ==
    /\ mw[c].ph \in {"serving", "rejecting"}
    /\ Enter(c, "leaving")
    /\ UNCHANGED <<gate, gone>>

\* cleanup_request_ownership: the receive nobody will read is cancelled, the
\* lease released.
Finish(c) ==
    /\ At(c, "leaving")
    /\ \/ Release(c)
       \/ pc[c] # "holding" /\ UNCHANGED gate
    /\ Become(c, [Fresh EXCEPT !.ph = "stopped", !.why = "done", !.obs = mw[c].obs,
                               !.pend = mw[c].pend,
                               !.lease = IF pc[c] = "holding" THEN 0 ELSE mw[c].lease])
    /\ UNCHANGED gone

-----------------------------------------------------------------------------
\* The task is cancelled where it waits: the server stops.  In a clean-up the
\* cancellation is kept until it has ended.
Cancel(c) ==
    /\ \/ /\ mw[c].ph \in {"beginning", "queued", "buffering", "admitting", "unobserving"}
          /\ Become(c, Leaving(mw[c], "cancelled"))
       \/ /\ mw[c].ph \in {"declaring", "charging"}
          /\ Enter(c, "leaving")
    /\ UNCHANGED <<gate, gone>>

\* The gate's own tasks, and its timer.
GateRuns(c) ==
    /\ WaiterResumes(c) \/ AbandonWaiter(c) \/ ReleaseSlot(c)
    /\ UNCHANGED <<gone, mw>>

WaitTimesOut(c) == StopWaiting(c) /\ UNCHANGED <<gone, mw>>

QueueStep(c) ==
    \/ Begun(c) \/ DisconnectWins(c) \/ TimedOut(c) \/ Granted(c) \/ Received(c)
    \/ Buffer(c) \/ BufferAdmitted(c) \/ BufferRefused(c) \/ Unobserved(c)
    \/ Stop(c) \/ Stopped(c)

ServeStep(c) ==
    \/ Declare(c) \/ Replay(c) \/ AppReceives(c) \/ AppTakes(c) \/ Charge(c)
    \/ Refused(c) \/ Answered(c) \/ Finish(c)
    \/ \E n \in 1..MaxUse : Use(c, n) \/ Return(c, n)

RequestStep(c) ==
    \/ Admit(c) \/ QueueStep(c) \/ ServeStep(c) \/ Cancel(c)
    \/ ReceiveEnds(c) \/ ClientLeaves(c) \/ ObserverRuns(c)
    \/ GateRuns(c) \/ WaitTimesOut(c)

AdmissionNext ==
    \/ \E c \in Requests : RequestStep(c)
    \/ \E c \in Callers \ Requests : GateStep(c) /\ UNCHANGED <<gone, mw>>

AdmissionSpec == AdmissionInit /\ [][AdmissionNext]_all

\* Tasks that are ready run, reservations are answered within their time-outs,
\* and the application ends.  Clients need not send or leave, nor timers fire.
FairAdmission ==
    /\ AdmissionSpec
    /\ \A c \in Requests : /\ WF_all(QueueStep(c))
                           /\ WF_all(GateRuns(c))
    /\ \A c \in Callers \ Requests : FairCaller(c)

-----------------------------------------------------------------------------
\* A request that is over holds nothing: no slot and no place in the queue, no
\* bytes, no receive or observer left running, however it ended.
NothingKept ==
    \A c \in Requests :
        LET m == mw[c]
        IN m.ph = "over" => /\ c \notin SlotOwners /\ wstate[c] # "queued"
                            /\ m.pend = 0 /\ m.lease = 0
                            /\ m.rx = "none" /\ m.obs = "none"

\* Frames reach the application in order, each once, whichever of them were
\* buffered in the queue, received in the turn of the grant, or left to the
\* application's own receive.
FramesInOrder ==
    \A c \in Requests :
        LET m == mw[c]
            hand == IF \/ m.rx = "done" /\ m.msg # 0
                       \/ m.ph \in {"buffering", "admitting", "charging"}
                    THEN <<m.msg>> ELSE <<>>
        IN m.ph \in {"queued", "buffering", "admitting", "unobserving", "declaring",
                     "serving", "charging"}
           => m.got \o m.buf \o hand = [i \in 1..(m.next - 1) |-> i]

\* Every reserved byte has one use: a frame in the buffer, the wire credit, the
\* application's credit or what it has charged.  So no byte is reserved twice
\* and no credit is given for bytes that are not reserved.
CreditExact ==
    \A c \in Requests :
        LET m == mw[c]
        IN m.ph \in {"queued", "buffering", "admitting", "unobserving", "declaring",
                     "serving", "charging"}
           => m.pend + m.lease = Sizes(c, m.buf) + m.pre + m.credit + m.used

\* A request is whole (middleware/admission.py, __call__ and its receive): its frames reach
\* the application in order and each once, its charge is what it holds of them at every
\* moment, and when it is over, however it ended, it keeps nothing.
RequestExact == NothingKept /\ FramesInOrder /\ CreditExact

\* A client that has left while its request was queued is not served, even when
\* it leaves in the turn of the grant.
GoneIsNotServed ==
    [][\A c \in Requests :
          mw[c].ph \in {"queued", "admitting", "unobserving"} /\ mw'[c].ph = "declaring"
          => c \notin gone]_all

\* Requests are served in turn and for somebody (core.py, _promote_waiters_locked;
\* middleware/admission.py, __call__): no step overtakes a queued request, and none serves a
\* client that has left the queue.
ServedInTurn == NoOvertaking /\ GoneIsNotServed

\* A queued request is served or answered, even when no timer ever fires and
\* its client neither sends nor leaves.
QueuedIsAnswered ==
    \A c \in Requests :
        At(c, "queued") ~> mw[c].ph \in {"declaring", "rejecting", "over"}
==============================================================================
