---------------------------- MODULE RequestIntake ----------------------------
(***************************************************************************)
(* RequestBodyDecompressionMiddleware of                                   *)
(* uni_api/middleware/request_decompression.py: a request body is bounded, *)
(* charged to the request and, when it is zstd, decoded before the         *)
(* application gets it.  The application reads an identity body frame by   *)
(* frame and may answer before its end.  Once the body is complete a       *)
(* monitor reads the connection to see the client leave.                   *)
(***************************************************************************)
EXTENDS JsonMemory, FiniteSets

CONSTANTS Frames,      \* bodies of a frame, or decoded pieces
          MaxFrames,   \* frames of a body, and pieces of a decoded one
          MaxBody,     \* max_identity_body_bytes, and the zstd limits
          Window,      \* decoder window that the zstd frames ask for
          PlainWeight  \* DEFAULT_NON_JSON_MEMORY_RESERVATION_MULTIPLIER

ASSUME IntakeAssumption ==
    /\ MaxFrames \in Nat \ {0} /\ MaxBody \in Nat /\ Window \in Nat \ {0}
    /\ PlainWeight \in Nat \ {0}
    /\ \A f \in Frames : f \in Seq(ByteClass)

VARIABLES req,      \* encoding, json and releasable: what the request is
          client,   \* frames sent, and whether the client is done or gone
          inbox,    \* messages that receive() has not returned yet
          phase,    \* start, reading, decoding, app or over
          whole,    \* body_complete
          total,    \* bytes of the body so far
          packed,   \* compressed bytes held
          charge,   \* what the request pays for: packed, window and target
          monitor,  \* the disconnect monitor: none, running, over or failed
          noticed,  \* disconnect_event
          lost,     \* a body frame that the monitor took
          starts,   \* response starts sent
          released  \* the body's bytes were returned at the response's start

intakeVars == <<req, client, inbox, phase, whole, est, scanned, total, packed, charge,
                monitor, noticed, lost, starts, released>>
accounts == <<est, scanned, total, packed, charge, released>>

NoCharge == [packed |-> 0, window |-> 0, target |-> 0]

IntakeInit ==
    /\ JsonInit
    /\ req \in [encoding : {"identity", "zstd", "empty"}, json : BOOLEAN, releasable : BOOLEAN]
    /\ client = [sent |-> 0, state |-> "sending"]
    /\ inbox = <<>> /\ phase = "start" /\ whole = FALSE
    /\ total = 0 /\ packed = 0 /\ charge = NoCharge
    /\ monitor = "none" /\ noticed = FALSE /\ lost = FALSE
    /\ starts = 0 /\ released = FALSE

-----------------------------------------------------------------------------
(* The client *)

Send(frame, last) ==
    /\ client.state = "sending" /\ client.sent < MaxFrames
    /\ req.encoding = "empty" => frame = <<>> /\ last
    /\ client' = [sent |-> client.sent + 1, state |-> IF last THEN "sent" ELSE "sending"]
    /\ inbox' = Append(inbox, [body |-> frame, more |-> ~ last, gone |-> FALSE])
    /\ UNCHANGED <<req, phase, whole, accounts, monitor, noticed, lost, starts>>

Leaves ==
    /\ client.state \in {"sending", "sent"} /\ phase # "over"
    /\ client' = [client EXCEPT !.state = "gone"]
    /\ inbox' = Append(inbox, [body |-> <<>>, more |-> FALSE, gone |-> TRUE])
    /\ UNCHANGED <<req, phase, whole, accounts, monitor, noticed, lost, starts>>

-----------------------------------------------------------------------------
(* The end of a request *)

\* The finally: the monitor is cancelled; the request's lease returns what is
\* charged.
Over == /\ phase' = "over"
        /\ monitor' = IF monitor = "running" THEN "over" ELSE monitor
        /\ packed' = 0 /\ charge' = NoCharge

\* _json_error, unless a response has started: then the error is raised on.
Reject == starts' = (IF starts = 0 THEN 1 ELSE starts) /\ Over

-----------------------------------------------------------------------------
(* __call__ *)

\* Headers decide: a repeated content type, a bad or too large content length,
\* or an encoding that is not supported.
Refuse ==
    /\ phase = "start"
    /\ Reject
    /\ UNCHANGED <<req, client, inbox, whole, est, scanned, total, noticed, lost, released>>

\* A request that cannot have a body is complete at once.
Begin ==
    /\ phase = "start"
    /\ phase' = IF req.encoding = "zstd" THEN "reading" ELSE "app"
    /\ whole' = (req.encoding = "empty")
    /\ monitor' = IF req.encoding = "empty" THEN "running" ELSE "none"
    /\ UNCHANGED <<req, client, inbox, accounts, noticed, lost, starts>>

\* _receive_body_message: nothing arrives in time.
ReadTimeout ==
    /\ phase = "reading" \/ (phase = "app" /\ ~ whole)
    /\ Reject
    /\ UNCHANGED <<req, client, inbox, whole, est, scanned, total, noticed, lost, released>>

\* receive() raises, or the request is cancelled: this layer answers nobody.
ReadFails ==
    /\ phase = "reading"
    /\ Over
    /\ UNCHANGED <<req, client, inbox, whole, est, scanned, total, noticed, lost, starts, released>>

Reading == /\ inbox # <<>>
           /\ phase = "reading" \/ (phase = "app" /\ ~ whole)
           /\ inbox' = Tail(inbox)

\* The client has left in the middle of the body: nobody is answered.
ReadDisconnect ==
    /\ Reading /\ Head(inbox).gone
    /\ noticed' = TRUE
    /\ Over
    /\ UNCHANGED <<req, client, whole, est, scanned, total, lost, starts, released>>

\* The weighted bytes that a body costs once the estimator is at st.
Weight(st, n) == IF req.json THEN Estimated(st) ELSE n * PlainWeight

\* _RequestBodyMemoryBudget.reserve_chunk: the estimator runs, more is charged,
\* and only then are the bytes kept.  A body that is too complex is never kept.
Estimate(bytes) ==
    /\ total' = total + Len(bytes)
    /\ IF req.json THEN FeedChunk(bytes) ELSE UNCHANGED <<est, scanned>>

Charged ==
    /\ est'.error = "none"
    /\ charge' = [charge EXCEPT !.target = Weight(est', total')]
    /\ UNCHANGED <<phase, starts, packed>>

\* Mutant: nobody watches the connection after the last frame.
BodyFrameTakenUnwatched(more) == whole' = ~ more /\ UNCHANGED monitor

\* The last frame completes the body and starts the monitor.
BodyFrameTaken(more) ==
    /\ whole' = ~ more
    /\ monitor' = IF more THEN monitor ELSE "running"

\* limited_receive.  Reject stands for a limit, a complexity or a charge that
\* was refused.
IdentityFrame ==
    LET message == Head(inbox)
    IN /\ Reading /\ phase = "app" /\ ~ message.gone
       /\ \/ /\ total + Len(message.body) > MaxBody
             /\ Reject /\ UNCHANGED <<est, scanned, total, whole>>
          \/ /\ message.body # <<>> /\ total + Len(message.body) <= MaxBody
             /\ Estimate(message.body)
             /\ \/ Reject /\ UNCHANGED whole
                \/ Charged /\ BodyFrameTaken(message.more)
          \/ /\ message.body = <<>>
             /\ BodyFrameTaken(message.more)
             /\ UNCHANGED <<phase, starts, est, scanned, total, packed, charge>>
       /\ UNCHANGED <<req, client, noticed, lost, released>>

-----------------------------------------------------------------------------
(* zstd: _read_body, then _decompress_zstd *)

\* Each compressed frame is charged before it is kept; after the last one the
\* frames are checked and the decoder's window is charged.
WireFrame ==
    LET message == Head(inbox)
        wire == packed + Len(message.body)
    IN /\ Reading /\ phase = "reading" /\ ~ message.gone
       /\ \/ Reject
          \/ /\ wire <= MaxBody
             /\ packed' = wire
             /\ charge' = [charge EXCEPT !.packed = wire,
                                         !.window = IF message.more THEN 0 ELSE Window]
             /\ phase' = IF message.more THEN "reading" ELSE "decoding"
             /\ UNCHANGED <<monitor, starts>>
       /\ UNCHANGED <<req, client, whole, est, scanned, total, noticed, lost, released>>

\* One read of the decoder, of at most one byte more than is allowed.
Decode(piece) ==
    /\ phase = "decoding"
    /\ \/ /\ total + Len(piece) > MaxBody
          /\ Reject /\ UNCHANGED <<est, scanned, total>>
       \/ /\ total + Len(piece) <= MaxBody
          /\ Estimate(piece)
          /\ Reject \/ (Charged /\ UNCHANGED monitor)
    /\ UNCHANGED <<req, client, inbox, whole, noticed, lost, released>>

\* Mutant: the window stays charged.
DecodedWindowKept == charge' = [charge EXCEPT !.packed = 0]

\* The finally returns the window, then the compressed bytes are dropped and
\* returned.
DecodedCharge == charge' = [charge EXCEPT !.packed = 0, !.window = 0]

DecodeEnds ==
    /\ phase = "decoding"
    /\ \/ Reject /\ UNCHANGED whole       \* invalid zstd, or cancelled
       \/ /\ DecodedCharge /\ packed' = 0
          /\ phase' = "app" /\ whole' = TRUE /\ monitor' = "running"
          /\ UNCHANGED starts
    /\ UNCHANGED <<req, client, inbox, est, scanned, total, noticed, lost, released>>

-----------------------------------------------------------------------------
(* The application *)

MayRelease == whole /\ req.releasable

\* tracking_send with the response's start.
AppStarts ==
    /\ phase = "app" /\ starts = 0
    /\ starts' = 1
    /\ released' = MayRelease
    /\ charge' = IF MayRelease THEN [charge EXCEPT !.target = 0] ELSE charge
    /\ UNCHANGED <<req, client, inbox, phase, whole, est, scanned, total, packed, monitor,
                   noticed, lost>>

\* It returns, fails or is cancelled.
AppEnds ==
    /\ phase = "app"
    /\ Over
    /\ UNCHANGED <<req, client, inbox, whole, est, scanned, total, noticed, lost, starts, released>>

\* _monitor_disconnect.  The empty frame of a request without a body is replayed
\* to the application by limited_receive.
Monitor ==
    /\ monitor = "running" /\ inbox # <<>>
    /\ inbox' = Tail(inbox)
    /\ lost' = (lost \/ Head(inbox).body # <<>>)
    /\ noticed' = (noticed \/ Head(inbox).gone)
    /\ monitor' = IF Head(inbox).gone THEN "over" ELSE "running"
    /\ UNCHANGED <<req, client, phase, whole, accounts, starts>>

\* Its receive() raises: it ends and tells nobody, for that is no sign that the client left.
MonitorFails ==
    /\ monitor = "running"
    /\ monitor' = "failed"
    /\ UNCHANGED <<req, client, inbox, phase, whole, accounts, noticed, lost, starts>>

IntakeNext ==
    \/ \E frame \in Frames, last \in BOOLEAN : Send(frame, last)
    \/ Leaves \/ Refuse \/ Begin \/ ReadTimeout \/ ReadFails \/ ReadDisconnect
    \/ IdentityFrame \/ WireFrame \/ DecodeEnds
    \/ \E piece \in Frames \ {<<>>} : Decode(piece)
    \/ AppStarts \/ AppEnds \/ Monitor \/ MonitorFails

-----------------------------------------------------------------------------
\* What is held of a body is paid for at every moment: compressed bytes and the
\* decoder's window exactly while they exist, decoded bytes at their full weight
\* until the response of a complete body has started.  The monitor never takes a
\* frame of the body, and a request is answered once.
IntakeCharged ==
    /\ charge.packed = packed
    /\ charge.window = (IF phase = "decoding" THEN Window ELSE 0)
    /\ phase \in {"decoding", "app"} =>
          charge.target = IF released THEN 0 ELSE Weight(est, total)
    /\ released => whole
    /\ starts <= 1 /\ ~ lost

\* A client that leaves after its body is complete is noticed while the request
\* is still served (disconnect_event, which the application waits for), unless
\* the connection could not be read any more.
DisconnectNoticed ==
    (client.state = "gone" /\ whole /\ phase = "app")
        ~> (noticed \/ phase = "over" \/ monitor = "failed")
=============================================================================
