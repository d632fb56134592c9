------------------------------ MODULE ChatStream ------------------------------
(***************************************************************************)
(* A Responses event stream is turned into chat completion chunks          *)
(* (uni_api/streaming/responses_events.py), which a streaming client       *)
(* reads as they come and the collector of chat_completion_collector.py    *)
(* folds into one message for the others.  Finished output items are kept, *)
(* with the memory of their events, for a terminal event that has none.    *)
(***************************************************************************)
EXTENDS Integers, Sequences, SequencesExt, FiniteSets, FiniteSetsExt

CONSTANTS MaxOutputItems,  \* max_collected_output_items
          MaxOutputBytes,  \* max_collected_output_bytes
          MaxCollected     \* max_bytes of the message's collector

ASSUME ChatAssumption ==
    MaxOutputItems \in Nat \ {0} /\ MaxOutputBytes \in Nat \ {0} /\ MaxCollected \in Nat \ {0}

VARIABLES chat,       \* the translator: its state and what it remembers of the stream
          items,      \* output_items_by_index and output_items_fallback, total_bytes
          owned,      \* payload reservations that the collector owns, one per item
          deltas,     \* the text of the deltas, to tell what was promised
          chunks,     \* the chunks that were yielded
          collected   \* the collector of a client that does not stream

chatVars == <<chat, items, owned, deltas, chunks, collected>>

\* An item is a message with a text or a function call.
ItemSize(item) == 1 + Len(item.text)

ChatInit ==
    /\ chat = [state |-> "open", role |-> FALSE, output |-> <<>>, finish |-> "none"]
    /\ items = [indexed |-> <<>>, fallback |-> <<>>, bytes |-> 0]
    /\ owned = 0 /\ deltas = <<>> /\ chunks = <<>>
    /\ collected = [state |-> "open", text |-> <<>>, calls |-> 0, finish |-> "none", bytes |-> 0]

-----------------------------------------------------------------------------
(* The collector of the message *)

\* retain: every fragment counts, and what does not fit fails the request.
Retain(c, size) ==
    [c EXCEPT !.bytes = @ + size, !.state = IF c.bytes + size > MaxCollected THEN "failed" ELSE @]

\* process_payload.
ProcessPayload(c, k) ==
    LET fits == Retain(c, Len(k.text) + (IF k.finish = "none" THEN 0 ELSE 1) + k.calls)
    IN IF fits.state = "failed" THEN fits
       ELSE [fits EXCEPT !.text = IF k.kind = "content" THEN @ \o k.text ELSE @,
                         !.calls = IF k.calls > @ THEN k.calls ELSE @,
                         !.finish = IF k.finish = "none" THEN @ ELSE k.finish]

\* The loop over the chunks: [DONE] and a failure end it.
Collect(c, k) ==
    IF c.state # "open" THEN c
    ELSE IF k.kind = "done" THEN [c EXCEPT !.state = "done"] ELSE ProcessPayload(c, k)

\* generate_no_stream_response.
BuiltReason(c) == IF c.calls > 0 THEN "tool_calls" ELSE "stop"

\* Mutant: the builder's own finish reason wins.
FinishReasonBuilt(c) == BuiltReason(c)

\* The stream's own reason wins over the builder's.
FinishReason(c) == IF c.finish \notin {"none", "stop"} THEN c.finish ELSE BuiltReason(c)

-----------------------------------------------------------------------------
(* The chunks *)

Chunk(kind, text) == [kind |-> kind, text |-> text, role |-> FALSE, calls |-> 0, finish |-> "none"]

\* The first chunk with a delta carries the role.
Yield(new, role) ==
    LET first == IF role THEN 0 ELSE 1
        marked == [i \in DOMAIN new |->
                     IF i = first /\ new[i].kind \notin {"done", "usage"}
                     THEN [new[i] EXCEPT !.role = TRUE] ELSE new[i]]
    IN /\ chunks' = chunks \o marked
       /\ collected' = FoldLeft(Collect, collected, marked)

\* chat_completion_message_from_responses_payload: texts joined by a blank line.
MessageText(output) ==
    LET Add(t, item) == IF item.kind # "message" \/ item.text = <<>> THEN t
                        ELSE IF t = <<>> THEN item.text ELSE t \o <<"blank">> \o item.text
    IN FoldLeft(Add, <<>>, output)

Calls(output) == Len(SelectSeq(output, LAMBDA item : item.kind = "call"))

\* What the deltas did not say yet, if the final text starts with what they said.
Suffix(final) ==
    IF deltas # <<>> /\ IsPrefix(deltas, final) THEN SubSeq(final, Len(deltas) + 1, Len(final))
    ELSE final

\* The items a terminal event without output is patched with.
KeptOutput ==
    [i \in 1..Cardinality(DOMAIN items.indexed) |->
        items.indexed[SetToSortSeq(DOMAIN items.indexed, <)[i]]] \o items.fallback

TotalSize(output) == FoldLeft(LAMBDA n, item : n + ItemSize(item), 0, output)
FitsLimits(output) == Len(output) <= MaxOutputItems /\ TotalSize(output) <= MaxOutputBytes

Dropped == [indexed |-> <<>>, fallback |-> <<>>, bytes |-> 0]

ChatFails ==
    /\ chat' = [chat EXCEPT !.state = "failed"]
    /\ items' = Dropped /\ owned' = 0
    /\ UNCHANGED <<deltas, chunks, collected>>

\* emit_completed_payload: the terminal's output, else the kept items; the message,
\* its finish reason and [DONE].  The collector is closed with the stream.
Complete(own, reason, usage) ==
    LET output == IF own # <<>> THEN own ELSE KeptOutput
        rest == Suffix(MessageText(output))
        calls == Calls(output)
        finish == IF reason # "none" THEN reason ELSE IF calls > 0 THEN "tool_calls" ELSE "stop"
        text == IF rest = <<>> THEN <<>> ELSE <<Chunk("content", rest)>>
        tools == IF calls = 0 THEN <<>> ELSE <<[Chunk("tools", <<>>) EXCEPT !.calls = calls]>>
        role == IF chat.role \/ text \o tools # <<>> THEN <<>> ELSE <<Chunk("role", <<>>)>>
        end == <<[Chunk("finish", <<>>) EXCEPT !.finish = finish]>>
               \o (IF usage THEN <<Chunk("usage", <<>>)>> ELSE <<>>) \o <<Chunk("done", <<>>)>>
    IN IF ~ FitsLimits(own) THEN ChatFails
       ELSE /\ Yield(text \o tools \o role \o end, chat.role)
            /\ chat' = [chat EXCEPT !.state = "done", !.role = TRUE, !.output = output, !.finish = finish]
            /\ items' = Dropped /\ owned' = 0
            /\ UNCHANGED deltas

-----------------------------------------------------------------------------
(* The events *)

\* response.output_text.delta, and the two reasoning events.
TextDelta(text) ==
    /\ chat.state = "open"
    /\ Yield(<<Chunk("content", text)>>, chat.role)
    /\ chat' = [chat EXCEPT !.role = TRUE]
    /\ deltas' = deltas \o text
    /\ UNCHANGED <<items, owned>>

ReasoningDelta ==
    /\ chat.state = "open"
    /\ Yield(<<Chunk("reasoning", <<"think">>)>>, chat.role)
    /\ chat' = [chat EXCEPT !.role = TRUE]
    /\ UNCHANGED <<items, owned, deltas>>

\* The reservation of an item that is replaced is released.
HeldAfter(index) == IF index \in DOMAIN items.indexed THEN owned ELSE owned + 1

\* response.output_item.done: the collector takes the payload's reservation over.
ItemDone(index, item) ==
    LET old == IF index \in DOMAIN items.indexed THEN ItemSize(items.indexed[index]) ELSE 0
        count == Cardinality(DOMAIN items.indexed) + Len(items.fallback) + (IF old > 0 THEN 0 ELSE 1)
        bytes == items.bytes - old + ItemSize(item)
    IN /\ chat.state = "open"
       /\ IF count > MaxOutputItems \/ bytes > MaxOutputBytes THEN ChatFails
          ELSE /\ items' = [bytes |-> bytes,
                            indexed |-> IF index = -1 THEN items.indexed
                                        ELSE [i \in DOMAIN items.indexed \cup {index} |->
                                                IF i = index THEN item ELSE items.indexed[i]],
                            fallback |-> IF index = -1 THEN Append(items.fallback, item) ELSE items.fallback]
               /\ owned' = HeldAfter(index)
               /\ UNCHANGED <<chat, deltas, chunks, collected>>

\* response.completed and response.incomplete.
Terminal(own, reason, usage) == chat.state = "open" /\ Complete(own, reason, usage)

\* The kept items make a terminal of their own.
CanSynthesize == KeptOutput # <<>>

\* [DONE], or the end of the stream.
EndOfEvents(done) ==
    /\ chat.state = "open"
    /\ IF CanSynthesize THEN Complete(<<>>, "none", FALSE)
       ELSE IF done THEN /\ Yield(<<Chunk("done", <<>>)>>, TRUE)
                         /\ chat' = [chat EXCEPT !.state = "ended"]
                         /\ UNCHANGED <<items, owned, deltas>>
       ELSE ChatFails

\* error and response.failed raise; so does an event whose name and type differ.
ErrorEvent == chat.state = "open" /\ ChatFails

\* The client stops reading.
CloseChat ==
    /\ chat.state = "open"
    /\ chat' = [chat EXCEPT !.state = "closed"]
    /\ items' = Dropped /\ owned' = 0
    /\ UNCHANGED <<deltas, chunks, collected>>

-----------------------------------------------------------------------------
ClientText == FoldLeft(LAMBDA t, k : IF k.kind = "content" THEN t \o k.text ELSE t, <<>>, chunks)
Count(kind) == Len(SelectSeq(chunks, LAMBDA k : k.kind = kind))

\* The client has the answer: its text is that of the terminal output whenever the
\* deltas were a part of it, and never less; it learns the finish reason and the
\* role once and [DONE] last, and the collected message says the same, so that
\* nobody takes a cut tool call for a complete one.
AnswerFaithful ==
    chat.state = "done" =>
        LET final == MessageText(chat.output)
        IN /\ IsSuffix(final, ClientText)
           /\ IsPrefix(deltas, final) => ClientText = final
           /\ final = <<>> => ClientText = deltas
           /\ Count("finish") = 1 /\ Count("done") = 1 /\ Last(chunks).kind = "done"
           /\ Len(SelectSeq(chunks, LAMBDA k : k.role)) = 1 /\ Head(chunks).role
           /\ collected.state = "done" =>
                  /\ collected.text = ClientText /\ collected.calls = Calls(chat.output)
                  /\ FinishReason(collected) = chat.finish

\* The kept items own one reservation each and their bytes are counted exactly; a
\* stream that is over owns none.
ItemsAreOwned ==
    /\ owned = Len(KeptOutput) /\ items.bytes = TotalSize(KeptOutput) /\ FitsLimits(KeptOutput)
    /\ chat.state # "open" => owned = 0

\* The chat completion is faithful to its stream (responses_events.py and
\* chat_completion_collector.py): the two ways to build it agree with what the upstream sent,
\* and what is kept for it is owned until the stream is over.
CompletionFaithful == AnswerFaithful /\ ItemsAreOwned
=============================================================================
