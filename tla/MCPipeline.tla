------------------------------ MODULE MCPipeline ------------------------------
(***************************************************************************)
(* What a streamed answer passes: chunks are framed, the attempts of a     *)
(* request are primed, committed and proxied, their events become chat     *)
(* chunks, and the chunks of two streams wait in queues that share one     *)
(* budget.  The parts meet through calls that carry data only, so that     *)
(* each behaviour is about one of them.                                    *)
(***************************************************************************)
EXTENDS StreamQueue, SseParser, ChatStream, ResponsesProxy,
        JsonMemory, OwnedJson, StartupEnvelope

CONSTANTS s1, s2,
          MaxFed,     \* bound: bytes that a parser is fed
          MaxEvents,  \* bound: events that the translator is given
          MaxScan     \* bound: bytes of a body that is scanned

VARIABLES part,
          seen   \* how many events the translator was given

streamVars == <<queueVars, parserVars, chatVars, proxyVars>>
valueVars == <<est, scanned, jsonVars, host>>
pipelineVars == <<part, seen, streamVars, valueVars>>

MCSymmetry == Permutations({s1, s2})

Texts == {<<"a">>, <<"b">>, <<"a", "b">>}
OutputItems == [kind : {"message"}, text : {<<>>} \cup Texts] \cup [kind : {"call"}, text : {<<>>}]
Outputs == UNION {[1..n -> OutputItems] : n \in 0..2}

\* A byte-order mark is only the first byte.
WireChunks == UNION {[1..n -> WireByte] : n \in 1..3}
Sendable(chunk) ==
    /\ Len(fed) + Len(chunk) <= MaxFed
    /\ \A i \in DOMAIN chunk : chunk[i] = "bom" => i = 1 /\ fed = <<>>

ParserNext ==
    \/ \E chunk \in WireChunks : Sendable(chunk) /\ FeedParser(chunk)
    \/ ParserStep

ChatNext ==
    /\ seen < MaxEvents /\ seen' = seen + 1
    /\ \/ \E text \in {<<"a">>, <<"b">>} : TextDelta(text)
       \/ ReasoningDelta
       \/ \E index \in {-1, 0, 1}, item \in OutputItems : ItemDone(index, item)
       \/ \E own \in Outputs, reason \in {"none", "length"}, usage \in BOOLEAN :
              Terminal(own, reason, usage)
       \/ \E done \in BOOLEAN : EndOfEvents(done)
       \/ ErrorEvent \/ CloseChat

\* A new process finds one of many hosts.
MCHosts == [nofile : {0, 14, 21}, open : {3}, memory : {0, 90, 200}, ports : {0, 9},
            busy : {2}, quota : {0, 500}, weight : {0, 40}, cpus : {0, 2},
            cpuBound : BOOLEAN, max : {0, 2}, active : {0, 2}, total : {0, 1, 4},
            waiters : {-1, 0, 2}, somaxconn : {2}]

ScanChunks == UNION {[1..n -> ByteClass] : n \in 1..3}

\* Only the part that a behaviour is about has a choice of initial states.
PipelineInit ==
    /\ part \in {"queue", "parser", "chat", "proxy", "scan", "values", "startup"}
    /\ seen = 0
    /\ QueueInit /\ ParserInit /\ ChatInit /\ ProxyInit /\ JsonInit /\ OwnedInit /\ host = <<>>
    /\ part # "parser" => parser.kind = "events"
    /\ part # "proxy" => turn.guard /\ turn.policy /\ turn.marker

StreamNext ==
    /\ UNCHANGED <<part, valueVars>>
    /\ \/ part = "queue" /\ QueueNext /\ UNCHANGED <<seen, parserVars, chatVars, proxyVars>>
       \/ part = "parser" /\ ParserNext /\ UNCHANGED <<seen, queueVars, chatVars, proxyVars>>
       \/ part = "chat" /\ ChatNext /\ UNCHANGED <<queueVars, parserVars, proxyVars>>
       \/ part = "proxy" /\ ProxyNext /\ UNCHANGED <<seen, queueVars, parserVars, chatVars>>

ValueNext ==
    /\ UNCHANGED <<part, seen, streamVars>>
    /\ \/ /\ part = "scan"
          /\ \E chunk \in ScanChunks : Len(scanned) + Len(chunk) <= MaxScan /\ FeedChunk(chunk)
          /\ UNCHANGED <<jsonVars, host>>
       \/ part = "values" /\ OwnedNext /\ UNCHANGED <<est, scanned, host>>
       \/ /\ part = "startup"
          /\ \E h \in MCHosts : StartProcess(h)
          /\ UNCHANGED <<est, scanned, jsonVars>>

PipelineSpec == PipelineInit /\ [][StreamNext \/ ValueNext]_pipelineVars
=============================================================================
