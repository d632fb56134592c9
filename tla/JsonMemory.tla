----------------------------- MODULE JsonMemory ------------------------------
(***************************************************************************)
(* The estimator of uni_api/admission/json_memory.py and its native twin   *)
(* in rust/uni-api-native/src/lib.rs: a scan of JSON, chunk by chunk, that *)
(* charges raw bytes and structural tokens.  A byte is one of the classes  *)
(* the scanners tell apart.  They jump over the bytes that cannot matter,  *)
(* so what they do at the end of a chunk is code of its own.               *)
(***************************************************************************)
EXTENDS Integers, Sequences, SequencesExt

CONSTANTS RawWeight,    \* raw_memory_multiplier
          TokenWeight,  \* token_memory_bytes
          MaxDepth, MaxScalar, MaxEstimate

ASSUME JsonAssumption ==
    /\ RawWeight \in Nat \ {0} /\ TokenWeight \in Nat \ {0}
    /\ MaxDepth \in Nat \ {0} /\ MaxScalar \in Nat \ {0} /\ MaxEstimate \in Nat \ {0}

VARIABLES est,   \* the estimator's fields, and the limit that it found passed
          scanned    \* every byte that it was given

\* quote, backslash, { or [, } or ], white space or comma or colon, any other.
ByteClass == {"quote", "escape", "open", "close", "gap", "other"}

Fresh == [raw |-> 0, tokens |-> 0, depth |-> 0, peak |-> 0, string |-> FALSE,
          escaped |-> FALSE, scalar |-> FALSE, length |-> 0, error |-> "none"]

Estimated(st) == st.raw * RawWeight + st.tokens * TokenWeight

\* _raise_complexity, for the first limit that is passed.
RaiseComplexity(st, why) == IF st.error = "none" THEN [st EXCEPT !.error = why] ELSE st

Checked(st) == IF Estimated(st) > MaxEstimate THEN RaiseComplexity(st, "estimate") ELSE st

CountToken(st) == Checked([st EXCEPT !.tokens = @ + 1])

FinishScalar(st) == [st EXCEPT !.scalar = FALSE, !.length = 0]

\* The first position from p on whose byte is in cls, or the one after the end.
Find(chunk, p, cls) ==
    LET hits == {i \in p..Len(chunk) : chunk[i] \in cls}
    IN IF hits = {} THEN Len(chunk) + 1 ELSE CHOOSE i \in hits : \A j \in hits : i <= j

-----------------------------------------------------------------------------
(* The two branches of the loop, at position p of the chunk *)

\* Mutant: an escape at the end of a chunk is forgotten.
InStringForgetful(st, chunk, p) ==
    LET i == Find(chunk, p, {"quote", "escape"})
    IN IF i > Len(chunk) THEN [st |-> st, p |-> i]
       ELSE IF chunk[i] = "quote" THEN [st |-> [st EXCEPT !.string = FALSE], p |-> i + 1]
       ELSE [st |-> st, p |-> i + 2]

InString(st, chunk, p) ==
    IF st.escaped THEN [st |-> [st EXCEPT !.escaped = FALSE], p |-> p + 1]
    ELSE LET i == Find(chunk, p, {"quote", "escape"})
         IN IF i > Len(chunk) THEN [st |-> st, p |-> i]
            ELSE IF chunk[i] = "quote" THEN [st |-> [st EXCEPT !.string = FALSE], p |-> i + 1]
            ELSE IF i < Len(chunk) THEN [st |-> st, p |-> i + 2]
            ELSE [st |-> [st EXCEPT !.escaped = TRUE], p |-> i + 1]

\* A run of scalar bytes is one token, charged once.
ScalarRun(st, n) ==
    LET begun == IF st.scalar THEN st
                 ELSE CountToken([st EXCEPT !.scalar = TRUE, !.length = 0])
    IN IF n = 0 THEN st
       ELSE IF begun.error # "none" THEN begun
       ELSE IF begun.length + n > MaxScalar
            THEN RaiseComplexity([begun EXCEPT !.length = MaxScalar + 1], "scalar")
       ELSE [begun EXCEPT !.length = @ + n]

Structural(st, byte) ==
    LET done == FinishScalar(st)
        counted == CountToken(done)
        deeper == [counted EXCEPT !.depth = @ + 1,
                                  !.peak = IF @ > counted.depth THEN @ ELSE counted.depth + 1]
    IN CASE byte = "quote" -> IF counted.error # "none" THEN counted
                              ELSE [counted EXCEPT !.string = TRUE]
         [] byte = "open" -> IF counted.error # "none" THEN counted
                             ELSE IF deeper.depth > MaxDepth THEN RaiseComplexity(deeper, "depth")
                             ELSE deeper
         [] byte = "close" -> [done EXCEPT !.depth = IF @ > 0 THEN @ - 1 ELSE 0]
         [] OTHER -> done

Outside(st, chunk, p) ==
    LET i == Find(chunk, p, {"quote", "open", "close", "gap"})
        run == ScalarRun(st, i - p)
    IN IF i > Len(chunk) \/ run.error # "none" THEN [st |-> run, p |-> i]
       ELSE [st |-> Structural(run, chunk[i]), p |-> i + 1]

-----------------------------------------------------------------------------
\* feed: the raw bytes of the whole chunk are charged first, then the loop runs
\* at most once per byte.
Feed(st, chunk) ==
    LET raw == Checked([st EXCEPT !.raw = @ + Len(chunk)])
        loop[n \in 0..Len(chunk)] ==
            IF n = 0 THEN [st |-> raw, p |-> 1]
            ELSE LET at == loop[n - 1]
                 IN IF at.p > Len(chunk) \/ at.st.error # "none" THEN at
                    ELSE IF at.st.string THEN InString(at.st, chunk, at.p)
                    ELSE Outside(at.st, chunk, at.p)
    IN loop[Len(chunk)].st

JsonInit == est = Fresh /\ scanned = <<>>

FeedChunk(chunk) ==
    /\ est.error = "none"
    /\ est' = Feed(est, chunk)
    /\ scanned' = scanned \o chunk

-----------------------------------------------------------------------------
(* The reference: one byte at a time, over the whole body *)

ByteByByte(st, byte) ==
    LET s == [st EXCEPT !.raw = @ + 1]
    IN IF s.string
       THEN IF s.escaped THEN [s EXCEPT !.escaped = FALSE]
            ELSE CASE byte = "quote" -> [s EXCEPT !.string = FALSE]
                   [] byte = "escape" -> [s EXCEPT !.escaped = TRUE]
                   [] OTHER -> s
       ELSE CASE byte = "quote" -> [FinishScalar(s) EXCEPT !.tokens = @ + 1, !.string = TRUE]
              [] byte = "open" -> [FinishScalar(s) EXCEPT
                     !.tokens = @ + 1, !.depth = @ + 1,
                     !.peak = IF s.depth + 1 > @ THEN s.depth + 1 ELSE @]
              [] byte = "close" -> [FinishScalar(s) EXCEPT !.depth = IF @ > 0 THEN @ - 1 ELSE 0]
              [] byte = "gap" -> FinishScalar(s)
              [] OTHER -> [s EXCEPT !.tokens = IF s.scalar THEN @ ELSE @ + 1,
                                    !.scalar = TRUE, !.length = @ + 1]

\* What the estimator should have seen of a body; over says that it passes a
\* limit somewhere.
Reference(bytes) ==
    LET after == FoldLeft(LAMBDA acc, b : Append(acc, ByteByByte(Last(acc), b)), <<Fresh>>, bytes)
    IN [state |-> Last(after),
        over |-> \E i \in DOMAIN after :
                    \/ Estimated(after[i]) > MaxEstimate
                    \/ after[i].depth > MaxDepth
                    \/ after[i].length > MaxScalar]

\* However a body is cut into chunks, the estimator has seen exactly what a scan
\* of its bytes one by one sees, and it refuses the bodies that pass a limit and
\* no others (feed, _feed_python and scan_json_chunk, which skip ahead).
EstimateExact ==
    LET ref == Reference(scanned)
    IN /\ est.error # "none" <=> ref.over
       /\ est.error = "none" => est = ref.state
=============================================================================
