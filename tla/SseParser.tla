------------------------------ MODULE SseParser ------------------------------
(***************************************************************************)
(* IncrementalSSEParser and IncrementalLineParser of                       *)
(* uni_api/streaming/sse.py: UTF-8 decoding, three kinds of line ends and  *)
(* frames, any of which may be cut by the end of a chunk, and the process- *)
(* wide budget that pays for pending text and for frames that are still    *)
(* referenced.  A proxy that has seen enough hands the pending bytes to a  *)
(* new parser.                                                             *)
(***************************************************************************)
EXTENDS Integers, Sequences, SequencesExt

CONSTANTS MaxEvent,     \* max_event_bytes, max_pending_bytes and max_line_bytes
          MaxPerFeed,   \* max_events_per_feed and max_lines_per_feed
          ParserBudget  \* capacity of _STREAM_PARSER_RETAINED_BUDGET

ASSUME ParserAssumption ==
    MaxEvent \in Nat \ {0} /\ MaxPerFeed \in Nat \ {0} /\ ParserBudget \in Nat

VARIABLES fed,     \* the bytes that arrived, to tell what should have come out
          parser,  \* its kind (events or lines) and its fields
          out,     \* the frames that were returned
          lent,    \* bytes of the frames that are still referenced, oldest first
          used     \* used_bytes of the budget

parserVars == <<fed, parser, out, lent, used>>

\* A text byte, line ends, the two bytes of a wide character, a byte-order mark.
WireByte == {"text", "cr", "lf", "lead", "cont", "bom"}

Size(text) == FoldLeft(LAMBDA n, c : n + IF c = "wide" THEN 2 ELSE 1, 0, text)
CostOf(costs) == FoldLeft(LAMBDA n, c : n + c, 0, costs)

NewParser(kind) ==
    [kind |-> kind, lead |-> FALSE, cr |-> FALSE, start |-> TRUE, text |-> <<>>,
     pending |-> 0, state |-> "open"]

ParserInit ==
    /\ fed = <<>> /\ out = <<>> /\ lent = <<>> /\ used = 0
    /\ parser \in {NewParser("events"), NewParser("lines")}

\* _StreamParserRetainedBudget.reserve, which does not wait, and release.
Grants(n) == used + n <= ParserBudget
Released(n) == used' = used - n

-----------------------------------------------------------------------------
(* A chunk becomes text *)

\* The incremental UTF-8 decoder: an unfinished character waits for more.
Decode(lead, chunk) ==
    FoldLeft(LAMBDA d, b :
                 IF d.bad \/ (b = "cont") # d.lead THEN [d EXCEPT !.bad = TRUE]
                 ELSE IF b = "lead" THEN [d EXCEPT !.lead = TRUE]
                 ELSE [d EXCEPT !.lead = FALSE,
                                !.text = Append(@, IF b = "cont" THEN "wide" ELSE b)],
             [lead |-> lead, text |-> <<>>, bad |-> FALSE], chunk)

StripBom(start, text) == IF start /\ text # <<>> /\ Head(text) = "bom" THEN Tail(text) ELSE text

\* The two replaces: CRLF, then CR.
OneNewline(text) ==
    FoldLeft(LAMBDA t, i : IF text[i] = "lf" /\ i > 1 /\ text[i - 1] = "cr" THEN t
                           ELSE Append(t, IF text[i] = "cr" THEN "lf" ELSE text[i]),
             <<>>, [i \in DOMAIN text |-> i])

WithoutLf(text) == IF text # <<>> /\ Head(text) = "lf" THEN Tail(text) ELSE text
EndsInCr(text) == text # <<>> /\ Last(text) = "cr"

\* Mutant: a LF after the CR of the chunk before is a line end of its own.
EventNewlinesTwice(cr, text) == [text |-> OneNewline(text), cr |-> EndsInCr(text)]

\* The event parser takes a last CR for a line end at once, and swallows the LF
\* that turns out to belong to it.
EventNewlines(cr, text) ==
    LET rest == IF cr THEN WithoutLf(text) ELSE text
    IN [text |-> OneNewline(rest), cr |-> IF text = <<>> THEN cr ELSE EndsInCr(rest)]

\* The line parser keeps a last CR back until it sees what follows.
LineNewlines(cr, text, final) ==
    LET rest == IF cr THEN WithoutLf(text) ELSE text
        hold == ~ final /\ EndsInCr(rest)
        sure == OneNewline(IF hold THEN Front(rest) ELSE rest)
    IN IF text = <<>> /\ ~ final THEN [text |-> <<>>, cr |-> cr]
       ELSE [text |-> IF cr THEN <<"lf">> \o sure ELSE sure, cr |-> hold]

Normalized(p, text, final) ==
    IF p.kind = "events" THEN EventNewlines(p.cr, text) ELSE LineNewlines(p.cr, text, final)

-----------------------------------------------------------------------------
(* Text becomes frames.  x.credit is reserved for the chunk and not spent yet. *)

EndsFrame(p, x, c) ==
    c = "lf" /\ (p.kind = "events" => x.text # <<>> /\ Last(x.text) = "lf")

\* The pending text leaves with its bytes; of an event the LF is popped.
FrameOf(p, x) ==
    IF p.kind = "events" THEN [text |-> Front(x.text), cost |-> x.pending - 1, freed |-> 1]
    ELSE [text |-> x.text, cost |-> x.pending, freed |-> 0]

\* What is charged for c: a line's end is not kept.
Paid(p, c) == IF p.kind = "events" \/ c # "lf" THEN Size(<<c>>) ELSE 0

\* The loop of _extract_events and _extract_lines, byte by byte.
Extract(p, text) ==
    LET Step(x, c) ==
            IF x.bad THEN x
            ELSE IF EndsFrame(p, x, c)
            THEN [x EXCEPT !.frames = Append(@, FrameOf(p, x)), !.text = <<>>, !.pending = 0,
                           !.bad = Len(x.frames) >= MaxPerFeed]
            ELSE [x EXCEPT !.text = Append(@, c), !.pending = @ + Paid(p, c),
                           !.credit = @ - Paid(p, c),
                           !.bad = c # "lf" /\ Size(Append(x.text, c)) > MaxEvent]
        reserved == FoldLeft(LAMBDA n, c : n + Paid(p, c), 0, text)
        done == FoldLeft(Step, [text |-> p.text, pending |-> p.pending, frames |-> <<>>,
                                credit |-> reserved, bad |-> FALSE], text)
        popped == CostOf([i \in DOMAIN done.frames |-> done.frames[i].freed])
    IN [done |-> done, reserved |-> reserved, left |-> reserved - done.credit - popped]

\* pending_bytes: text, an unfinished character, a CR that is kept back.
PendingBytes(p, x, lead, cr) ==
    Size(x.text) + (IF lead THEN 1 ELSE 0) + (IF cr /\ p.kind = "lines" THEN 1 ELSE 0)

\* _validate_pending_size and _validate_pending.
TooLong(p, x, lead, cr) == PendingBytes(p, x, lead, cr) > MaxEvent

-----------------------------------------------------------------------------
(* The parsers' methods *)

\* Frames go to the caller, which keeps them referenced.
Return(frames) ==
    /\ out' = out \o [i \in DOMAIN frames |-> frames[i].text]
    /\ lent' = lent \o [i \in DOMAIN frames |-> frames[i].cost]

\* A limit, bad UTF-8 or a refused reservation: pending text and the frames of
\* this feed are dropped.
ParserFails ==
    /\ parser' = [parser EXCEPT !.text = <<>>, !.pending = 0, !.state = "failed"]
    /\ Released(parser.pending)
    /\ UNCHANGED <<out, lent>>

\* feed, on parser p.
FeedTo(p, chunk) ==
    LET d == Decode(p.lead, chunk)
        n == Normalized(p, StripBom(p.start, d.text), FALSE)
        x == Extract(p, n.text)
        bad == d.bad \/ x.done.bad \/ TooLong(p, x.done, d.lead, n.cr)
    IN \/ /\ ~ bad /\ Grants(x.reserved)
          /\ parser' = [p EXCEPT !.lead = d.lead, !.cr = n.cr, !.text = x.done.text,
                                 !.start = @ /\ d.text = <<>>, !.pending = x.done.pending]
          /\ Return(x.done.frames)
          /\ used' = used + x.left
       \/ (bad \/ x.reserved > 0) /\ ParserFails

FeedParser(chunk) ==
    /\ parser.state = "open"
    /\ fed' = fed \o chunk
    /\ FeedTo(parser, chunk)

\* The line parser returns its last line without an end.
FinalFrames(x) ==
    IF parser.kind = "lines" /\ x.text # <<>> THEN Append(x.frames, FrameOf(parser, x)) ELSE x.frames

\* finish: an event must be complete.
FinishParser ==
    LET n == Normalized(parser, <<>>, TRUE)
        x == Extract(parser, n.text)
    IN /\ parser.state = "open"
       /\ IF parser.lead \/ (parser.kind = "events" /\ parser.text # <<>>)
          THEN ParserFails
          ELSE /\ parser' = [parser EXCEPT !.text = <<>>, !.pending = 0, !.cr = FALSE,
                                           !.state = "finished"]
               /\ Return(FinalFrames(x.done))
               /\ used' = used + x.left
       /\ UNCHANGED fed

\* discard, which iter_sse_events and iter_lines always reach.
Discard ==
    /\ parser.state # "discarded"
    /\ parser' = [parser EXCEPT !.text = <<>>, !.pending = 0, !.state = "discarded"]
    /\ Released(parser.pending)
    /\ UNCHANGED <<fed, out, lent>>

\* The last reference to a frame goes away.
DropFrame ==
    /\ lent # <<>>
    /\ lent' = Tail(lent) /\ Released(Head(lent))
    /\ UNCHANGED <<fed, parser, out>>

\* pending_data: a LF that stands for a lone CR is a CR again, and an unfinished
\* character is given as its byte.
PendingData ==
    LET text == IF parser.cr /\ parser.text # <<>> /\ Last(parser.text) = "lf"
                THEN Append(Front(parser.text), "cr") ELSE parser.text
        raw == FoldLeft(LAMBDA t, c : t \o IF c = "wide" THEN <<"lead", "cont">> ELSE <<c>>, <<>>, text)
    IN IF parser.lead THEN Append(raw, "lead") ELSE raw

\* A proxy that commits to a stream hands what is pending to a new parser, and
\* its own is discarded.
HandOver ==
    /\ parser.kind = "events" /\ parser.state = "open" /\ PendingData # <<>>
    /\ LET fresh == NewParser("events")
           d == Decode(FALSE, PendingData)
           n == Normalized(fresh, d.text, FALSE)
           x == Extract(fresh, n.text)
       IN parser' = [fresh EXCEPT !.lead = d.lead, !.cr = n.cr, !.text = x.done.text,
                                  !.start = (d.text = <<>>), !.pending = x.done.pending]
    /\ used' = used - parser.pending + parser'.pending
    /\ UNCHANGED <<fed, out, lent>>

ParserStep == FinishParser \/ Discard \/ DropFrame \/ HandOver

-----------------------------------------------------------------------------
\* However a stream is cut, and whether or not a proxy handed it on in between,
\* the frames are those of its text: events end at the first blank line, lines at
\* the first line end, and what is pending is the rest.
FramesExact ==
    LET text == OneNewline(StripBom(TRUE, Decode(FALSE, fed).text))
        lone == parser.kind = "lines" /\ parser.cr
        end == IF parser.kind = "events" THEN <<"lf", "lf">> ELSE <<"lf">>
        framed == FoldLeft(LAMBDA t, f : t \o f \o end, <<>>, out)
        Whole(f) == IF parser.kind = "events"
                    THEN \A i \in 1..Len(f) : ~ (f[i] = "lf" /\ (i = Len(f) \/ f[i + 1] = "lf"))
                    ELSE \A i \in 1..Len(f) : f[i] # "lf"
    IN /\ parser.state = "open" =>
              framed \o parser.text \o (IF lone THEN <<"lf">> ELSE <<>>) = text
       /\ parser.state = "finished" =>
              framed = text \/ (parser.kind = "lines" /\ framed = Append(text, "lf"))
       /\ \A i \in DOMAIN out : Whole(out[i])

\* The budget is the pending text and the frames still referenced, byte for byte:
\* nothing stays charged when both are gone, and nothing is lent for free.
ParserBudgetExact == used = parser.pending + CostOf(lent) /\ used <= ParserBudget

\* The parser is exact (streaming/sse.py): wherever the chunks are cut, its frames are those
\* of the whole text, and its budget is the text it still holds or has lent.
ParserExact == FramesExact /\ ParserBudgetExact
=============================================================================
