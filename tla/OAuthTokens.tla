----------------------------- MODULE OAuthTokens -----------------------------
(***************************************************************************)
(* CodexOAuthTokenManager and CodexRefreshTokenStore of                    *)
(* uni_api/auth/codex_oauth.py, for one provider key: callers that need an *)
(* access token, the lock that lets one of them refresh it, the issuer,    *)
(* which takes each refresh token once, and the file that keeps the newest *)
(* one across restarts.                                                    *)
(*                                                                         *)
(* Refresh tokens are numbered in the order the issuer gives them out; the *)
(* configured one is 0.  main.py allows one worker, so the file has one    *)
(* process.  A critical section of the store contains no suspending await: *)
(* reading, reloading and persisting a token are parts of their caller's   *)
(* step.  The store keeps the tokens of every key in one table and one     *)
(* file: the calls of other keys read and write this key's entry too       *)
(* (OtherLoads, OtherPersists).                                            *)
(***************************************************************************)
EXTENDS Integers, Sequences, FiniteSets, FiniteSetTheorems, TLAPS

CONSTANTS Refreshers,   \* requests that need the key's access token
          MaxTokens   \* how many refresh tokens the issuer gives out

ASSUME OAuthAssumption == IsFiniteSet(Refreshers) /\ MaxTokens \in Nat

Absent == -1

VARIABLES issuer,   \* newest: the one token the issuer accepts
                    \* dropped: it was sent to somebody who had left
          disk,     \* file: the key's token in the store's file, or Absent
                    \* unsaved: the last write of it failed
                    \* erased: another key's write left it out
          proc,     \* tokens, loaded, cache, line and holder of the lock
          call      \* where each caller stands, and the token it presents

oauthVars == <<issuer, disk, proc, call>>

NoEntry == [at |-> "none", refresh |-> Absent]

NoProc == [token |-> Absent, loaded |-> FALSE, entry |-> NoEntry, line |-> <<>>, holder |-> {}]

OAuthInit ==
    /\ issuer = [newest |-> 0, dropped |-> FALSE]
    /\ disk = [file |-> Absent, unsaved |-> FALSE, erased |-> FALSE]
    /\ proc = NoProc
    /\ call = [c \in Refreshers |-> [at |-> "idle", token |-> 0, again |-> FALSE, got |-> Absent]]

\* _load_unlocked: a file that cannot be read leaves the table empty, and loaded.
Loads == {disk.file, Absent}

\* get_access_token up to the lock: the token is the store's or the configured one.
Ask(c) ==
    /\ call[c].at = "idle"
    /\ \E t \in IF proc.loaded THEN {proc.token} ELSE Loads :
          /\ proc' = [proc EXCEPT !.token = t, !.loaded = TRUE, !.line = Append(@, c)]
          /\ call' = [call EXCEPT ![c].at = "waiting",
                                  ![c].token = IF t = Absent THEN 0 ELSE t]
    /\ UNCHANGED <<issuer, disk>>

\* old_refresh_token: the cached one, and without one what was read before the wait.
Presented(c) == IF proc.entry.at = "none" THEN call[c].token ELSE proc.entry.refresh

\* The lock is had: a valid access token ends the call, else the issuer is asked.
Locked(c) ==
    /\ call[c].at = "waiting"
    /\ proc.holder = {} /\ proc.line # <<>> /\ Head(proc.line) = c
    /\ IF proc.entry.at = "fresh"
       THEN /\ call' = [call EXCEPT ![c].at = "served"]
            /\ proc' = [proc EXCEPT !.line = Tail(@)]
       ELSE /\ call' = [call EXCEPT ![c].at = "asking", ![c].token = Presented(c)]
            /\ proc' = [proc EXCEPT !.line = Tail(@), !.holder = {c}]
    /\ UNCHANGED <<issuer, disk>>

\* The issuer on token t: the newest one is exchanged for the next, or kept;
\* another was used before.  n is what it accepts then.
Answers(t) ==
    IF t # issuer.newest THEN {[n |-> issuer.newest, kind |-> "reused"]}
    ELSE {[n |-> m, kind |-> "ok"] : m \in {t, t + 1} \cap 0 .. MaxTokens}

\* An answer is on its way to its caller.
IssuerAnswers(c) ==
    /\ call[c].at = "asking"
    /\ \E a \in Answers(call[c].token) :
          /\ issuer' = [issuer EXCEPT !.newest = a.n]
          /\ call' = [call EXCEPT ![c].at = a.kind, ![c].got = a.n]
    /\ UNCHANGED <<disk, proc>>

\* The answer of c, sent or still to be sent, reaches nobody.
Undelivered(c) ==
    \/ /\ call[c].at = "asking"
       /\ UNCHANGED issuer
    \/ /\ call[c].at \in {"asking", "ok"}
       /\ \E a \in IF call[c].at = "ok" THEN {[n |-> call[c].got, kind |-> "ok"]}
                   ELSE Answers(call[c].token) :
             issuer' = [newest |-> a.n,
                        dropped |-> issuer.dropped \/ (a.kind = "ok" /\ a.n # call[c].token)]
    \/ call[c].at = "reused" /\ UNCHANGED issuer

Unlocked == [proc EXCEPT !.holder = {}]

\* The request fails on its way: refresh_access_token raises 502, or 401 for an
\* answer it cannot use.
RefreshFails(c) ==
    /\ Undelivered(c)
    /\ call' = [call EXCEPT ![c].at = "failed"]
    /\ proc' = Unlocked
    /\ UNCHANGED disk

\* Mutant: what is persisted is the token the call presented.
Updated_Old(c) == call[c].token

\* updated_refresh_token
Updated(c) == call[c].got

\* The call resumes with a new access token, caches it and persists the refresh
\* token; a failed write is only logged.
Refreshed(c) ==
    /\ call[c].at = "ok"
    /\ proc' = [proc EXCEPT !.entry = [at |-> "fresh", refresh |-> Updated(c)],
                            !.token = Updated(c), !.holder = {}]
    /\ IF proc.token = Updated(c) THEN UNCHANGED disk
       ELSE \/ disk' = [file |-> Updated(c), unsaved |-> FALSE, erased |-> FALSE]
            \/ disk' = [disk EXCEPT !.unsaved = TRUE]
    /\ call' = [call EXCEPT ![c].at = "served"]
    /\ UNCHANGED issuer

\* refresh_token_reused: the store is read again, and a token that differs is
\* tried, once.
Reused(c) ==
    /\ call[c].at = "reused"
    /\ IF call[c].again
       THEN /\ call' = [call EXCEPT ![c].at = "refused"]
            /\ proc' = Unlocked
       ELSE \E t \in Loads :
              IF t \notin {Absent, call[c].token}
              THEN /\ call' = [call EXCEPT ![c].at = "asking", ![c].token = t, ![c].again = TRUE]
                   /\ proc' = [proc EXCEPT !.token = t]
              ELSE /\ call' = [call EXCEPT ![c].at = "refused"]
                   /\ proc' = [Unlocked EXCEPT !.token = t]
    /\ UNCHANGED <<issuer, disk>>

\* The request of c is cancelled, in the queue or with the lock.
CancelCall(c) ==
    \/ /\ call[c].at = "waiting"
       /\ proc' = [proc EXCEPT !.line = SelectSeq(@, LAMBDA d : d # c)]
       /\ call' = [call EXCEPT ![c].at = "cancelled"]
       /\ UNCHANGED <<issuer, disk>>
    \/ /\ Undelivered(c)
       /\ proc' = Unlocked
       /\ call' = [call EXCEPT ![c].at = "cancelled"]
       /\ UNCHANGED disk

\* A call of another key loads the table, or loads it again for a used token.
OtherLoads ==
    /\ \E t \in Loads : proc' = [proc EXCEPT !.token = t, !.loaded = TRUE]
    /\ UNCHANGED <<issuer, disk, call>>

\* persist of another key writes the whole table: this key's entry is then what the process
\* takes for it.  A write that fails leaves the file as it was.
OtherPersists ==
    /\ proc.loaded
    /\ disk' = [disk EXCEPT !.file = proc.token,
                           !.erased = proc.token = Absent /\ (disk.file # Absent \/ @)]
    /\ UNCHANGED <<issuer, proc, call>>

\* The access token expires.
Expire ==
    /\ proc.entry.at = "fresh"
    /\ proc' = [proc EXCEPT !.entry.at = "stale"]
    /\ UNCHANGED <<issuer, disk, call>>

\* An upstream answered 401 or 403: maybe_clear_provider_auth_cache.
ClearAuth ==
    /\ proc.entry.at # "none"
    /\ proc' = [proc EXCEPT !.entry = NoEntry]
    /\ UNCHANGED <<issuer, disk, call>>

\* The process dies and starts again with what is in the file.
Restart ==
    /\ proc.loaded
    /\ proc' = NoProc
    /\ disk' = disk
    /\ call' = [c \in Refreshers |->
                  IF call[c].at \in {"waiting", "asking", "ok", "reused"}
                  THEN [call[c] EXCEPT !.at = "cancelled"] ELSE call[c]]
    /\ \/ proc.holder = {} /\ UNCHANGED issuer
       \/ \E c \in proc.holder : Undelivered(c)

OAuthNext ==
    \/ \E c \in Refreshers :
          Ask(c) \/ Locked(c) \/ IssuerAnswers(c) \/ RefreshFails(c) \/ Refreshed(c)
          \/ Reused(c) \/ CancelCall(c)
    \/ OtherLoads \/ OtherPersists \/ Expire \/ ClearAuth \/ Restart

-----------------------------------------------------------------------------
OAuthTypeOK ==
    /\ issuer \in [newest : 0 .. MaxTokens, dropped : BOOLEAN]
    /\ disk \in [file : Absent .. MaxTokens, unsaved : BOOLEAN, erased : BOOLEAN]
    /\ proc.entry \in [at : {"none", "fresh", "stale"}, refresh : Absent .. MaxTokens]
    /\ proc.holder = {c \in Refreshers : call[c].at \in {"asking", "ok", "reused"}}
    /\ Cardinality(proc.holder) <= 1

\* What the file stands for at the next start.
OnDisk == IF disk.file = Absent THEN 0 ELSE disk.file

\* A refresh token that was received is on disk (get_access_token, codex_oauth.py:180): unless
\* an answer reached nobody, the last write of it failed, or another key wrote the table after
\* a load that had failed, the one token the issuer still accepts is in the file or in an
\* answer whose caller waits for it.
NewestIsSaved ==
    ~ issuer.dropped /\ ~ disk.unsaved /\ ~ disk.erased
        => \/ OnDisk = issuer.newest
           \/ \E c \in Refreshers : call[c].at = "ok" /\ call[c].got = issuer.newest

\* A call that read its token before it waited for the lock and finds it used recovers
\* (codex_oauth.py:169): it is refused only if the file has not got the newest token, could
\* not be read, or was written by another key after a load that had failed.
RefusedForCause ==
    [][\A c \in Refreshers :
          call[c].at # "refused" /\ call'[c].at = "refused"
              => OnDisk # issuer.newest \/ proc'.token = Absent \/ disk.erased]_oauthVars

\* The credential survives expiry, restarts, rejected access tokens, callers that wait with a
\* used token and the other keys of the file: both of the above.
TokensKept == [](OAuthTypeOK /\ NewestIsSaved) /\ RefusedForCause

-----------------------------------------------------------------------------
(***************************************************************************)
(* TokensKept, for any finite set of callers.  NewestIsSaved needs to know *)
(* that one call at a time talks to the issuer (OneAsks), that what the    *)
(* process takes for the store's token is in the file (StoreAgrees), and   *)
(* what the call that talks to the issuer may rely on (CallTrue): nobody   *)
(* else moves the issuer until it is over, and other keys write back to    *)
(* the file what was read from it, or erase it.                            *)
(***************************************************************************)
OAuthSpec == OAuthInit /\ [][OAuthNext]_oauthVars

Numbers == Absent .. MaxTokens

Calls == [at : {"idle", "waiting", "asking", "ok", "reused",
                "served", "failed", "refused", "cancelled"},
          token : Numbers, again : BOOLEAN, got : Numbers]

Held(c) == call[c].at \in {"asking", "ok", "reused"}

\* The parts of OAuthTypeOK that are not about the holder, and the calls.
OAuthShape ==
    /\ issuer \in [newest : 0 .. MaxTokens, dropped : BOOLEAN]
    /\ disk \in [file : Numbers, unsaved : BOOLEAN, erased : BOOLEAN]
    /\ proc.entry \in [at : {"none", "fresh", "stale"}, refresh : Numbers]
    /\ proc.token \in Numbers
    /\ {"token", "loaded", "entry", "line", "holder"} \subseteq DOMAIN proc
    /\ call \in [Refreshers -> Calls]

OneAsks == /\ proc.holder = {c \in Refreshers : Held(c)}
           /\ \A c, d \in proc.holder : c = d

StoreAgrees == /\ ~ disk.unsaved => proc.token \in {disk.file, Absent}
               /\ disk.erased => disk.file = Absent

\* t was read from the file again: it is still there, unless another key erased it.
Reread(t) == /\ t # Absent /\ proc.token \in {t, Absent}
             /\ disk.file = t \/ disk.erased

CallTrue(c) ==
    /\ call[c].at = "ok" => call[c].got = issuer.newest
    /\ /\ call[c].at = "ok" /\ call[c].got = call[c].token
       /\ ~ issuer.dropped /\ ~ disk.unsaved /\ ~ disk.erased
       => OnDisk = issuer.newest
    /\ call[c].at = "reused" => call[c].token # issuer.newest
    /\ Held(c) /\ call[c].again => Reread(call[c].token)
    /\ call[c].at \in {"idle", "waiting"} => ~ call[c].again

OAuthInv ==
    /\ OAuthShape /\ OneAsks /\ StoreAgrees /\ NewestIsSaved
    /\ \A c \in Refreshers : CallTrue(c)

LEMMA OAuthInvInit == OAuthInit => OAuthInv
  <1> SUFFICES ASSUME OAuthInit PROVE OAuthInv
    OBVIOUS
  <1> USE OAuthAssumption DEF OAuthInit, NoProc, NoEntry, Absent
  <1>1. OAuthShape
    BY DEF OAuthShape, Numbers, Calls
  <1>2. OneAsks /\ StoreAgrees /\ NewestIsSaved
    BY DEF OneAsks, Held, StoreAgrees, NewestIsSaved, OnDisk
  <1>3. \A c \in Refreshers : CallTrue(c)
    BY DEF CallTrue, Held, OnDisk
  <1> QED
    BY <1>1, <1>2, <1>3 DEF OAuthInv

\* With the issuer, the file and the store's token as they are, a step that moves one call
\* has to say what that call may rely on.
LEMMA CallMoves ==
    ASSUME OAuthInv, NEW c \in Refreshers, NEW m \in Calls,
           call' = [call EXCEPT ![c] = m], UNCHANGED <<issuer, disk>>,
           OAuthShape', StoreAgrees',
           proc'.holder = IF m.at \in {"asking", "ok", "reused"}
                          THEN proc.holder \cup {c} ELSE proc.holder \ {c},
           m.at \in {"asking", "ok", "reused"} => proc.holder \subseteq {c},
           call[c].at # "ok", m.at # "ok",
           m.at = "reused" => m.token # issuer.newest,
           proc'.token \in {proc.token, disk.file, Absent},
           m.at \in {"asking", "reused"} /\ m.again
              => /\ m.token # Absent /\ proc'.token \in {m.token, Absent}
                 /\ disk.file = m.token \/ disk.erased,
           m.at \in {"idle", "waiting"} => ~ m.again
    PROVE  OAuthInv'
  <1>1. /\ call'[c] = m /\ \A d \in Refreshers : d # c => call'[d] = call[d]
        /\ call' \in [Refreshers -> Calls]
    BY DEF OAuthInv, OAuthShape
  <1>2. OneAsks'
    BY <1>1 DEF OAuthInv, OneAsks, Held
  <1>3. NewestIsSaved'
    BY <1>1 DEF OAuthInv, NewestIsSaved, OnDisk
  <1>4. \A d \in Refreshers : CallTrue(d)'
    BY <1>1 DEF OAuthInv, StoreAgrees, CallTrue, Reread, Held, OnDisk
  <1> QED
    BY <1>2, <1>3, <1>4 DEF OAuthInv

LEMMA AskKeeps ==
    ASSUME OAuthInv, NEW c \in Refreshers, Ask(c) PROVE OAuthInv'
  <1>0. OAuthShape /\ StoreAgrees /\ call[c] \in Calls
    BY DEF OAuthInv, OAuthShape
  <1>1. PICK t \in IF proc.loaded THEN {proc.token} ELSE Loads :
           /\ proc' = [proc EXCEPT !.token = t, !.loaded = TRUE, !.line = Append(@, c)]
           /\ call' = [call EXCEPT ![c].at = "waiting",
                                   ![c].token = IF t = Absent THEN 0 ELSE t]
    BY DEF Ask
  <1>2. t \in Numbers /\ (~ disk.unsaved => t \in {disk.file, Absent})
    BY <1>1, OAuthAssumption DEF OAuthInv, OAuthShape, StoreAgrees, Loads, Numbers, Absent
  <1> DEFINE u == IF t = Absent THEN 0 ELSE t
             m == [call[c] EXCEPT !.at = "waiting", !.token = u]
  <1>30. u \in Numbers
    BY <1>2, OAuthAssumption DEF Numbers, Absent
  <1>31. call' = [call EXCEPT ![c] = m]
    BY <1>1
  <1> HIDE DEF u
  <1>3. /\ m \in Calls /\ m.at = "waiting" /\ m.again = call[c].again
    BY <1>0, <1>30 DEF Calls
  <1> HIDE DEF m
  <1>4. /\ call[c].at = "idle" /\ UNCHANGED <<issuer, disk>>
        /\ ~ call[c].again /\ c \notin proc.holder
    BY DEF Ask, OAuthInv, CallTrue, OneAsks, Held
  <1>5. /\ proc'.token = t /\ proc'.entry = proc.entry /\ proc'.holder = proc.holder
        /\ DOMAIN proc' = DOMAIN proc
    BY <1>0, <1>1 DEF OAuthShape
  <1>6. OAuthShape' /\ StoreAgrees'
    BY <1>0, <1>2, <1>3, <1>31, <1>4, <1>5 DEF OAuthShape, StoreAgrees
  <1>7. t \in {proc.token, disk.file, Absent}
    BY <1>1 DEF Loads
  <1> QED
    BY <1>3, <1>31, <1>4, <1>5, <1>6, <1>7, CallMoves

LEMMA LockedKeeps ==
    ASSUME OAuthInv, NEW c \in Refreshers, Locked(c) PROVE OAuthInv'
  <1>0. OAuthShape /\ call[c] \in Calls
    BY DEF OAuthInv, OAuthShape
  <1>1. /\ call[c].at = "waiting" /\ ~ call[c].again /\ proc.holder = {}
        /\ UNCHANGED <<issuer, disk>>
    BY DEF Locked, OAuthInv, CallTrue
  <1> DEFINE m == [call[c] EXCEPT !.at = "served"]
             n == [call[c] EXCEPT !.at = "asking", !.token = Presented(c)]
  <1>2. Presented(c) \in Numbers
    BY <1>0 DEF Presented, OAuthShape, Calls
  <1>3. /\ m \in Calls /\ m.at = "served"
        /\ n \in Calls /\ n.at = "asking" /\ n.again = call[c].again
    BY <1>0, <1>2 DEF Calls
  <1>4. CASE /\ call' = [call EXCEPT ![c] = m]
             /\ proc' = [proc EXCEPT !.line = Tail(@)]
    <2>1. /\ proc'.token = proc.token /\ proc'.entry = proc.entry
          /\ proc'.holder = proc.holder /\ DOMAIN proc' = DOMAIN proc
      BY <1>0, <1>4 DEF OAuthShape
    <2>2. OAuthShape' /\ StoreAgrees'
      BY <1>0, <1>1, <1>3, <1>4, <2>1 DEF OAuthShape, StoreAgrees, OAuthInv
    <2> HIDE DEF m
    <2> QED
      BY <1>1, <1>3, <1>4, <2>1, <2>2, CallMoves
  <1>5. CASE /\ call' = [call EXCEPT ![c] = n]
             /\ proc' = [proc EXCEPT !.line = Tail(@), !.holder = {c}]
    <2>1. /\ proc'.token = proc.token /\ proc'.entry = proc.entry
          /\ proc'.holder = {c} /\ DOMAIN proc' = DOMAIN proc
      BY <1>0, <1>5 DEF OAuthShape
    <2>2. OAuthShape' /\ StoreAgrees'
      BY <1>0, <1>1, <1>3, <1>5, <2>1 DEF OAuthShape, StoreAgrees, OAuthInv
    <2> HIDE DEF n
    <2> QED
      BY <1>1, <1>3, <1>5, <2>1, <2>2, CallMoves
  <1> QED
    BY <1>4, <1>5 DEF Locked

\* What an answer that reaches nobody leaves: unless it was a token, the file has the newest.
LEMMA UndeliveredLeaves ==
    ASSUME OAuthInv, NEW c \in Refreshers, Undelivered(c)
    PROVE  /\ proc.holder = {c}
           /\ issuer' \in [newest : 0 .. MaxTokens, dropped : BOOLEAN]
           /\ ~ issuer'.dropped /\ ~ disk.unsaved /\ ~ disk.erased => OnDisk = issuer'.newest
  <1>0. OAuthShape /\ call[c] \in Calls /\ CallTrue(c)
    BY DEF OAuthInv, OAuthShape
  <1>1. call[c].at \in {"asking", "ok", "reused"}
    BY DEF Undelivered
  <1>2. proc.holder = {c} /\ \A d \in Refreshers : d # c => call[d].at # "ok"
    BY <1>1 DEF OAuthInv, OneAsks, Held
  <1>3. call[c].at # "ok" /\ ~ issuer.dropped /\ ~ disk.unsaved /\ ~ disk.erased => OnDisk = issuer.newest
    BY <1>2 DEF OAuthInv, NewestIsSaved
  <1>4. CASE UNCHANGED issuer /\ call[c].at # "ok"
    BY <1>0, <1>2, <1>3, <1>4 DEF OAuthShape
  <1>5. ASSUME call[c].at = "asking", NEW a \in Answers(call[c].token),
               issuer' = [newest |-> a.n,
                          dropped |-> issuer.dropped \/ (a.kind = "ok" /\ a.n # call[c].token)]
        PROVE  /\ issuer' \in [newest : 0 .. MaxTokens, dropped : BOOLEAN]
               /\ ~ issuer'.dropped /\ ~ disk.unsaved /\ ~ disk.erased => OnDisk = issuer'.newest
    <2>1. /\ a.n \in 0 .. MaxTokens
          /\ a.kind = "ok" /\ a.n = call[c].token => a.n = issuer.newest
          /\ a.kind # "ok" => a.n = issuer.newest
      BY <1>0, <1>5 DEF Answers, OAuthShape
    <2>2. issuer'.newest = a.n
          /\ issuer'.dropped = (issuer.dropped \/ (a.kind = "ok" /\ a.n # call[c].token))
      BY <1>5
    <2>3. issuer' \in [newest : 0 .. MaxTokens, dropped : BOOLEAN]
      BY <1>0, <1>5, <2>1 DEF OAuthShape
    <2> QED
      BY <1>3, <1>5, <2>1, <2>2, <2>3
  <1>6. ASSUME call[c].at = "ok",
               issuer' = [newest |-> call[c].got,
                          dropped |-> issuer.dropped \/ call[c].got # call[c].token]
        PROVE  /\ issuer' \in [newest : 0 .. MaxTokens, dropped : BOOLEAN]
               /\ ~ issuer'.dropped /\ ~ disk.unsaved /\ ~ disk.erased => OnDisk = issuer'.newest
    BY <1>0, <1>6 DEF CallTrue, OAuthShape
  <1> QED
    BY <1>1, <1>2, <1>4, <1>5, <1>6 DEF Undelivered

\* A call leaves the issuer and the lock with nothing.
LEMMA LeaveKeeps ==
    ASSUME OAuthInv, NEW c \in Refreshers, Undelivered(c),
           NEW x \in {"failed", "cancelled"}, call' = [call EXCEPT ![c].at = x],
           proc' = Unlocked, UNCHANGED disk
    PROVE  OAuthInv'
  <1>0. OAuthShape /\ call[c] \in Calls
    BY DEF OAuthInv, OAuthShape
  <1>1. /\ proc.holder = {c} /\ issuer' \in [newest : 0 .. MaxTokens, dropped : BOOLEAN]
        /\ ~ issuer'.dropped /\ ~ disk.unsaved /\ ~ disk.erased => OnDisk = issuer'.newest
    BY UndeliveredLeaves
  <1>2. /\ call' \in [Refreshers -> Calls] /\ call'[c].at = x
        /\ \A d \in Refreshers : d # c => call'[d] = call[d]
        /\ call'[c].again = call[c].again
    BY <1>0 DEF OAuthShape, Calls
  <1>3. /\ proc'.token = proc.token /\ proc'.entry = proc.entry
        /\ proc'.holder = {} /\ DOMAIN proc' = DOMAIN proc
    BY <1>0 DEF OAuthShape, Unlocked
  <1>4. \A d \in Refreshers : ~ Held(d)'
    <2>1. \A d \in Refreshers : d # c => ~ Held(d)
      BY <1>1 DEF OAuthInv, OneAsks
    <2> QED
      BY <1>2, <2>1 DEF Held
  <1>5. OAuthShape' /\ OneAsks' /\ StoreAgrees'
    BY <1>0, <1>1, <1>2, <1>3, <1>4 DEF OAuthInv, OAuthShape, OneAsks, StoreAgrees
  <1>6. NewestIsSaved'
    BY <1>1 DEF NewestIsSaved, OnDisk
  <1>7. \A d \in Refreshers : CallTrue(d)'
    BY <1>2, <1>4 DEF OAuthInv, CallTrue, Held
  <1> QED
    BY <1>5, <1>6, <1>7 DEF OAuthInv

LEMMA IssuerAnswersKeeps ==
    ASSUME OAuthInv, NEW c \in Refreshers, IssuerAnswers(c) PROVE OAuthInv'
  <1>0. OAuthShape /\ call[c] \in Calls /\ CallTrue(c)
    BY DEF OAuthInv, OAuthShape
  <1>1. PICK a \in Answers(call[c].token) :
           /\ issuer' = [issuer EXCEPT !.newest = a.n]
           /\ call' = [call EXCEPT ![c].at = a.kind, ![c].got = a.n]
    BY DEF IssuerAnswers
  <1>2. call[c].at = "asking" /\ UNCHANGED <<disk, proc>>
    BY DEF IssuerAnswers
  <1>3. /\ a.n \in 0 .. MaxTokens /\ a.kind \in {"ok", "reused"}
        /\ a.kind = "ok" /\ a.n = call[c].token => a.n = issuer.newest
        /\ a.kind = "reused" => a.n = issuer.newest /\ call[c].token # issuer.newest
    BY <1>0, OAuthAssumption DEF Answers, OAuthShape
  <1>4. /\ call'[c].at = a.kind /\ call'[c].got = a.n /\ call'[c].token = call[c].token
        /\ call'[c].again = call[c].again
        /\ \A d \in Refreshers : d # c => call'[d] = call[d]
        /\ call' \in [Refreshers -> Calls]
    <2>1. a.n \in Numbers
      BY <1>3, OAuthAssumption DEF Numbers, Absent
    <2> QED
      BY <1>0, <1>1, <1>3, <2>1 DEF OAuthShape, Calls
  <1>5. /\ issuer'.newest = a.n /\ issuer'.dropped = issuer.dropped
        /\ issuer' \in [newest : 0 .. MaxTokens, dropped : BOOLEAN]
    BY <1>0, <1>1, <1>3 DEF OAuthShape
  <1>6. Held(c) /\ proc.holder = {c} /\ \A d \in Refreshers : d # c => ~ Held(d)
    BY <1>2 DEF OAuthInv, OneAsks, Held
  <1>7. OAuthShape' /\ OneAsks' /\ StoreAgrees'
    BY <1>0, <1>2, <1>3, <1>4, <1>5, <1>6 DEF OAuthInv, OAuthShape, OneAsks, StoreAgrees, Held
  <1>8. ~ issuer.dropped /\ ~ disk.unsaved /\ ~ disk.erased => OnDisk = issuer.newest
    BY <1>2, <1>6 DEF OAuthInv, NewestIsSaved, Held
  <1>9. NewestIsSaved'
    BY <1>2, <1>3, <1>4, <1>5, <1>8 DEF NewestIsSaved, OnDisk
  <1>10. \A d \in Refreshers : CallTrue(d)'
    <2>1. CallTrue(c)'
      BY <1>0, <1>2, <1>3, <1>4, <1>5, <1>6, <1>8 DEF CallTrue, Reread, OnDisk, Held
    <2>2. ASSUME NEW d \in Refreshers, d # c PROVE CallTrue(d)'
      BY <1>2, <1>4, <1>6, <2>2 DEF OAuthInv, CallTrue, Held
    <2> QED
      BY <2>1, <2>2
  <1> QED
    BY <1>7, <1>9, <1>10 DEF OAuthInv

LEMMA RefreshedKeeps ==
    ASSUME OAuthInv, NEW c \in Refreshers, Refreshed(c) PROVE OAuthInv'
  <1>0. OAuthShape /\ call[c] \in Calls /\ CallTrue(c)
    BY DEF OAuthInv, OAuthShape
  <1> DEFINE t == issuer.newest
  <1>1. /\ call[c].at = "ok" /\ call[c].got = t /\ t \in Numbers /\ t # Absent
        /\ UNCHANGED issuer
        /\ call' = [call EXCEPT ![c].at = "served"]
        /\ proc' = [proc EXCEPT !.entry = [at |-> "fresh", refresh |-> t],
                                !.token = t, !.holder = {}]
    <2>1. t \in 0 .. MaxTokens /\ MaxTokens \in Nat
      BY <1>0, OAuthAssumption DEF OAuthShape
    <2>2. t \in Numbers /\ t # Absent
      BY <2>1 DEF Numbers, Absent
    <2>3. call[c].at = "ok" /\ call[c].got = t
      BY <1>0 DEF Refreshed, CallTrue
    <2> QED
      BY <2>2, <2>3 DEF Refreshed, Updated
  <1> HIDE DEF t
  <1>2. \/ proc.token = t /\ UNCHANGED disk
        \/ disk' = [file |-> t, unsaved |-> FALSE, erased |-> FALSE]
        \/ disk' = [disk EXCEPT !.unsaved = TRUE]
    BY <1>1 DEF Refreshed, Updated
  <1>3. /\ disk' \in [file : Numbers, unsaved : BOOLEAN, erased : BOOLEAN]
        /\ ~ disk'.unsaved => disk'.file = t
        /\ disk'.erased => disk'.file = Absent
    <2>1. /\ disk \in [file : Numbers, unsaved : BOOLEAN, erased : BOOLEAN]
          /\ ~ disk.unsaved => proc.token \in {disk.file, Absent}
          /\ disk.erased => disk.file = Absent
      BY <1>0 DEF OAuthInv, OAuthShape, StoreAgrees
    <2>2. CASE proc.token = t /\ UNCHANGED disk
      BY <1>1, <2>1, <2>2
    <2>3. CASE disk' = [file |-> t, unsaved |-> FALSE, erased |-> FALSE]
      BY <1>1, <2>3
    <2>4. CASE disk' = [disk EXCEPT !.unsaved = TRUE]
      BY <2>1, <2>4
    <2> QED
      BY <1>2, <2>2, <2>3, <2>4
  <1>4. /\ proc'.token = t /\ proc'.entry = [at |-> "fresh", refresh |-> t]
        /\ proc'.holder = {} /\ DOMAIN proc' = DOMAIN proc
    BY <1>0, <1>1 DEF OAuthShape
  <1>5. /\ call' \in [Refreshers -> Calls] /\ call'[c].at = "served"
        /\ \A d \in Refreshers : d # c => call'[d] = call[d]
    BY <1>0, <1>1 DEF OAuthShape, Calls
  <1>6. \A d \in Refreshers : ~ Held(d)'
    <2>1. \A d \in Refreshers : d # c => ~ Held(d)
      BY <1>1 DEF OAuthInv, OneAsks, Held
    <2> QED
      BY <1>5, <2>1 DEF Held
  <1>7. OAuthShape' /\ OneAsks' /\ StoreAgrees'
    BY <1>0, <1>1, <1>3, <1>4, <1>5, <1>6 DEF OAuthShape, OneAsks, StoreAgrees
  <1>8. NewestIsSaved'
    BY <1>1, <1>3 DEF NewestIsSaved, OnDisk, t
  <1>9. \A d \in Refreshers : CallTrue(d)'
    BY <1>5, <1>6 DEF OAuthInv, CallTrue, Held
  <1> QED
    BY <1>7, <1>8, <1>9 DEF OAuthInv

\* A used token is replaced by what the file has, if that is another one.
LEMMA ReusedKeeps ==
    ASSUME OAuthInv, NEW c \in Refreshers, Reused(c) PROVE OAuthInv'
  <1>0. OAuthShape /\ StoreAgrees /\ call[c] \in Calls
    BY DEF OAuthInv, OAuthShape
  <1>1. /\ call[c].at = "reused" /\ UNCHANGED <<issuer, disk>> /\ proc.holder = {c}
    <2>1. call[c].at = "reused" /\ UNCHANGED <<issuer, disk>>
      BY DEF Reused
    <2>2. c \in proc.holder /\ \A a, b \in proc.holder : a = b
      BY <2>1 DEF OAuthInv, OneAsks, Held
    <2> QED
      BY ONLY <2>1, <2>2
  <1>2. Absent \in Numbers /\ disk.file \in Numbers
    BY <1>0, OAuthAssumption DEF Numbers, Absent, OAuthShape
  <1> DEFINE m == [call[c] EXCEPT !.at = "refused"]
  <1>3. m \in Calls /\ m.at = "refused"
    BY <1>0 DEF Calls
  <1>4. ASSUME call' = [call EXCEPT ![c] = m], NEW t \in Loads,
               proc' = [Unlocked EXCEPT !.token = t]
        PROVE  OAuthInv'
    <2>1. /\ proc'.token = t /\ proc'.entry = proc.entry
          /\ proc'.holder = {} /\ DOMAIN proc' = DOMAIN proc
      BY <1>0, <1>4 DEF OAuthShape, Unlocked
    <2>2. OAuthShape' /\ StoreAgrees'
      BY <1>0, <1>1, <1>2, <1>3, <1>4, <2>1 DEF OAuthShape, StoreAgrees, Loads
    <2>3. t \in {disk.file, Absent}
      BY <1>4 DEF Loads
    <2> HIDE DEF m
    <2> QED
      BY <1>1, <1>3, <1>4, <2>1, <2>2, <2>3, CallMoves
  <1>5. ASSUME NEW t \in Loads, t \notin {Absent, call[c].token},
               call' = [call EXCEPT ![c].at = "asking", ![c].token = t, ![c].again = TRUE],
               proc' = [proc EXCEPT !.token = t]
        PROVE  OAuthInv'
    <2>1. t = disk.file /\ t # Absent
      BY <1>5 DEF Loads
    <2> DEFINE n == [call[c] EXCEPT !.at = "asking", !.token = t, !.again = TRUE]
    <2>2. n \in Calls /\ n.at = "asking" /\ n.token = t
      BY <1>0, <1>2, <2>1 DEF Calls
    <2>3. call' = [call EXCEPT ![c] = n]
      BY <1>5
    <2>4. /\ proc'.token = t /\ proc'.entry = proc.entry
          /\ proc'.holder = proc.holder /\ DOMAIN proc' = DOMAIN proc
      BY <1>0, <1>5 DEF OAuthShape
    <2> HIDE DEF n
    <2>5. OAuthShape' /\ StoreAgrees'
      BY <1>0, <1>1, <1>2, <2>1, <2>2, <2>3, <2>4 DEF OAuthShape, StoreAgrees
    <2> QED
      BY <1>1, <2>1, <2>2, <2>3, <2>4, <2>5, CallMoves
  <1>6. CASE call[c].again
    <2>1. proc' = Unlocked /\ call' = [call EXCEPT ![c] = m]
      BY <1>6 DEF Reused
    <2>2. /\ proc'.token = proc.token /\ proc'.entry = proc.entry
          /\ proc'.holder = {} /\ DOMAIN proc' = DOMAIN proc
      BY <1>0, <2>1 DEF OAuthShape, Unlocked
    <2>3. OAuthShape' /\ StoreAgrees'
      BY <1>0, <1>1, <1>3, <2>1, <2>2 DEF OAuthShape, StoreAgrees, OAuthInv
    <2> HIDE DEF m
    <2> QED
      BY <1>1, <1>3, <2>1, <2>2, <2>3, CallMoves
  <1>7. CASE ~ call[c].again
    <2>1. PICK t \in Loads :
              IF t \notin {Absent, call[c].token}
              THEN /\ call' = [call EXCEPT ![c].at = "asking", ![c].token = t, ![c].again = TRUE]
                   /\ proc' = [proc EXCEPT !.token = t]
              ELSE /\ call' = [call EXCEPT ![c].at = "refused"]
                   /\ proc' = [Unlocked EXCEPT !.token = t]
      BY <1>7 DEF Reused
    <2>2. CASE t \notin {Absent, call[c].token}
      BY <1>5, <2>1, <2>2
    <2>3. CASE t \in {Absent, call[c].token}
      <3>1. call' = [call EXCEPT ![c] = m] /\ proc' = [Unlocked EXCEPT !.token = t]
        BY <2>1, <2>3
      <3> QED
        BY <1>4, <3>1
    <2> QED
      BY <2>2, <2>3
  <1> QED
    BY <1>6, <1>7

LEMMA CancelKeeps ==
    ASSUME OAuthInv, NEW c \in Refreshers, CancelCall(c) PROVE OAuthInv'
  <1>0. OAuthShape /\ call[c] \in Calls
    BY DEF OAuthInv, OAuthShape
  <1>1. ASSUME NEW line, call[c].at = "waiting", proc' = [proc EXCEPT !.line = line],
               call' = [call EXCEPT ![c].at = "cancelled"], UNCHANGED <<issuer, disk>>
        PROVE  OAuthInv'
    <2> DEFINE m == [call[c] EXCEPT !.at = "cancelled"]
    <2>1. m \in Calls /\ m.at = "cancelled"
      BY <1>0 DEF Calls
    <2>2. call' = [call EXCEPT ![c] = m]
      BY <1>1
    <2> HIDE DEF m
    <2>3. /\ proc'.token = proc.token /\ proc'.entry = proc.entry
          /\ proc'.holder = proc.holder /\ DOMAIN proc' = DOMAIN proc
          /\ c \notin proc.holder
      BY <1>0, <1>1 DEF OAuthShape, OAuthInv, OneAsks, Held
    <2>4. OAuthShape' /\ StoreAgrees'
      BY <1>0, <1>1, <2>1, <2>2, <2>3 DEF OAuthShape, StoreAgrees, OAuthInv
    <2>5. proc'.holder = proc.holder \ {c}
      BY <2>3
    <2> QED
      BY <1>1, <2>1, <2>2, <2>3, <2>4, <2>5, CallMoves
  <1>2. CASE /\ call[c].at = "waiting"
             /\ proc' = [proc EXCEPT !.line = SelectSeq(@, LAMBDA d : d # c)]
             /\ call' = [call EXCEPT ![c].at = "cancelled"]
             /\ UNCHANGED <<issuer, disk>>
    <2> DEFINE line == SelectSeq(proc.line, LAMBDA d : d # c)
    <2>1. proc' = [proc EXCEPT !.line = line]
      BY <1>2
    <2> HIDE DEF line
    <2> QED
      BY <1>1, <1>2, <2>1
  <1>3. CASE /\ Undelivered(c) /\ proc' = Unlocked
             /\ call' = [call EXCEPT ![c].at = "cancelled"] /\ UNCHANGED disk
    BY <1>3, LeaveKeeps
  <1> QED
    BY <1>2, <1>3 DEF CancelCall

\* Another key reads the table.
LEMMA OtherLoadsKeeps ==
    ASSUME OAuthInv, OtherLoads PROVE OAuthInv'
  <1>0. OAuthShape
    BY DEF OAuthInv
  <1>1. PICK t \in Loads : proc' = [proc EXCEPT !.token = t, !.loaded = TRUE]
    BY DEF OtherLoads
  <1>2. UNCHANGED <<issuer, disk, call>>
    BY DEF OtherLoads
  <1>3. t \in Numbers /\ t \in {disk.file, Absent}
    BY <1>0, OAuthAssumption DEF OAuthShape, Loads, Numbers, Absent
  <1>4. /\ proc'.token = t /\ proc'.entry = proc.entry /\ proc'.holder = proc.holder
        /\ DOMAIN proc' = DOMAIN proc
    BY <1>0, <1>1 DEF OAuthShape
  <1>5. OAuthShape' /\ OneAsks' /\ StoreAgrees' /\ NewestIsSaved'
    BY <1>2, <1>3, <1>4
       DEF OAuthInv, OAuthShape, OneAsks, Held, StoreAgrees, NewestIsSaved, OnDisk
  <1>6. \A c \in Refreshers : CallTrue(c)'
    BY <1>2, <1>3, <1>4 DEF OAuthInv, StoreAgrees, CallTrue, Reread, Held, OnDisk
  <1> QED
    BY <1>5, <1>6 DEF OAuthInv

\* Another key writes the table: what the file had of this key stays, or is erased.
LEMMA OtherPersistsKeeps ==
    ASSUME OAuthInv, OtherPersists PROVE OAuthInv'
  <1>0. OAuthShape /\ StoreAgrees
    BY DEF OAuthInv
  <1>1. UNCHANGED <<issuer, proc, call>>
    BY DEF OtherPersists
  <1>2. /\ disk'.file = proc.token /\ disk'.unsaved = disk.unsaved
        /\ disk'.erased = (proc.token = Absent /\ (disk.file # Absent \/ disk.erased))
        /\ disk' \in [file : Numbers, unsaved : BOOLEAN, erased : BOOLEAN]
    BY <1>0 DEF OtherPersists, OAuthShape
  <1>3. ~ disk'.unsaved /\ ~ disk'.erased
        => disk'.file = disk.file /\ ~ disk.unsaved /\ ~ disk.erased
    BY <1>0, <1>2 DEF StoreAgrees
  <1>4. OAuthShape' /\ OneAsks' /\ StoreAgrees'
    BY <1>0, <1>1, <1>2 DEF OAuthInv, OAuthShape, OneAsks, Held, StoreAgrees
  <1>5. NewestIsSaved'
    BY <1>1, <1>3 DEF OAuthInv, NewestIsSaved, OnDisk
  <1>6. \A c \in Refreshers : CallTrue(c)'
    BY <1>1, <1>2, <1>3 DEF OAuthInv, CallTrue, Reread, Held, OnDisk
  <1> QED
    BY <1>4, <1>5, <1>6 DEF OAuthInv

\* The cached access token expires or is thrown away.
LEMMA EntryKeeps ==
    ASSUME OAuthInv, Expire \/ ClearAuth PROVE OAuthInv'
  <1>1. UNCHANGED <<issuer, disk, call>>
    BY DEF Expire, ClearAuth
  <1>2. /\ proc'.token = proc.token /\ proc'.holder = proc.holder /\ DOMAIN proc' = DOMAIN proc
        /\ proc'.entry \in [at : {"none", "fresh", "stale"}, refresh : Numbers]
    <2>1. Absent \in Numbers
      BY OAuthAssumption DEF Numbers, Absent
    <2>2. CASE Expire
      BY <2>2 DEF Expire, OAuthInv, OAuthShape
    <2>3. CASE ClearAuth
      BY <2>1, <2>3 DEF ClearAuth, NoEntry, OAuthInv, OAuthShape
    <2> QED
      BY <2>2, <2>3
  <1> QED
    BY <1>1, <1>2 DEF OAuthInv, OAuthShape, OneAsks, Held, StoreAgrees, NewestIsSaved, OnDisk,
                      CallTrue, Reread

LEMMA RestartKeeps ==
    ASSUME OAuthInv, Restart PROVE OAuthInv'
  <1>1. /\ issuer' \in [newest : 0 .. MaxTokens, dropped : BOOLEAN]
        /\ ~ issuer'.dropped /\ ~ disk.unsaved /\ ~ disk.erased => OnDisk = issuer'.newest
    <2>1. CASE proc.holder = {} /\ UNCHANGED issuer
      BY <2>1 DEF OAuthInv, OAuthShape, NewestIsSaved, OneAsks, Held
    <2>2. ASSUME NEW c \in proc.holder, Undelivered(c)
          PROVE  /\ issuer' \in [newest : 0 .. MaxTokens, dropped : BOOLEAN]
                 /\ ~ issuer'.dropped /\ ~ disk.unsaved /\ ~ disk.erased => OnDisk = issuer'.newest
      <3>1. c \in Refreshers
        BY DEF OAuthInv, OneAsks
      <3> QED
        BY <2>2, <3>1, UndeliveredLeaves
    <2> QED
      BY <2>1, <2>2 DEF Restart
  <1>2. proc' = NoProc /\ disk' = disk
    BY DEF Restart
  <1>3. \A c \in Refreshers :
           /\ call'[c] \in Calls /\ ~ Held(c)'
           /\ call'[c].at # "cancelled" => call'[c] = call[c]
    <2> SUFFICES ASSUME NEW c \in Refreshers
                 PROVE  /\ call'[c] \in Calls /\ ~ Held(c)'
                        /\ call'[c].at # "cancelled" => call'[c] = call[c]
      OBVIOUS
    <2>1. call[c] \in Calls
      BY DEF OAuthInv, OAuthShape
    <2>2. call'[c] = IF call[c].at \in {"waiting", "asking", "ok", "reused"}
                     THEN [call[c] EXCEPT !.at = "cancelled"] ELSE call[c]
      BY DEF Restart
    <2> QED
      BY <2>1, <2>2 DEF Calls, Held
  <1>4. call' \in [Refreshers -> Calls]
    BY <1>3 DEF Restart
  <1>5. OAuthShape' /\ OneAsks' /\ StoreAgrees'
    BY <1>1, <1>2, <1>3, <1>4, OAuthAssumption
       DEF OAuthInv, OAuthShape, OneAsks, StoreAgrees, NoProc, NoEntry, Numbers, Absent
  <1>6. NewestIsSaved'
    BY <1>1, <1>2 DEF NewestIsSaved, OnDisk
  <1>7. \A c \in Refreshers : CallTrue(c)'
    BY <1>3 DEF OAuthInv, CallTrue, Held
  <1> QED
    BY <1>5, <1>6, <1>7 DEF OAuthInv

LEMMA OAuthInvStep == OAuthInv /\ [OAuthNext]_oauthVars => OAuthInv'
  <1> SUFFICES ASSUME OAuthInv, [OAuthNext]_oauthVars PROVE OAuthInv'
    OBVIOUS
  <1>1. ASSUME NEW c \in Refreshers, RefreshFails(c) PROVE OAuthInv'
    BY <1>1, LeaveKeeps DEF RefreshFails
  <1>2. CASE UNCHANGED oauthVars
    BY <1>2 DEF oauthVars, OAuthInv, OAuthShape, OneAsks, Held, StoreAgrees, NewestIsSaved,
                OnDisk, CallTrue, Reread
  <1> QED
    BY <1>1, <1>2, AskKeeps, LockedKeeps, IssuerAnswersKeeps, RefreshedKeeps, ReusedKeeps,
       CancelKeeps, OtherLoadsKeeps, OtherPersistsKeeps, EntryKeeps, RestartKeeps DEF OAuthNext

\* A call is refused by Reused alone, and then the file has not got what the issuer accepts,
\* could not be read, or was erased.
RefusedNow ==
    \A c \in Refreshers :
       call[c].at # "refused" /\ call'[c].at = "refused"
           => OnDisk # issuer.newest \/ proc'.token = Absent \/ disk.erased

LEMMA ReusedForCause ==
    ASSUME OAuthInv, NEW c \in Refreshers, Reused(c) PROVE RefusedNow
  <1>0. /\ OAuthShape /\ call \in [Refreshers -> Calls] /\ CallTrue(c)
        /\ call[c].at = "reused" /\ call[c].token # issuer.newest
    BY DEF OAuthInv, OAuthShape, Reused, CallTrue
  <1>1. \A d \in Refreshers : d # c => call'[d] = call[d]
    BY <1>0 DEF Reused
  <1>2. CASE call[c].again
    <2>1. OnDisk = call[c].token \/ disk.erased
      BY <1>0, <1>2 DEF CallTrue, Held, Reread, OnDisk
    <2> QED
      BY <1>0, <1>1, <2>1 DEF RefusedNow
  <1>3. CASE ~ call[c].again
    <2>1. PICK t \in Loads :
              IF t \notin {Absent, call[c].token}
              THEN /\ call' = [call EXCEPT ![c].at = "asking", ![c].token = t, ![c].again = TRUE]
                   /\ proc' = [proc EXCEPT !.token = t]
              ELSE /\ call' = [call EXCEPT ![c].at = "refused"]
                   /\ proc' = [Unlocked EXCEPT !.token = t]
      BY <1>3 DEF Reused
    <2>2. CASE t \notin {Absent, call[c].token}
      <3>1. call'[c].at = "asking"
        BY <1>0, <2>1, <2>2 DEF Calls
      <3> QED
        BY <1>1, <3>1 DEF RefusedNow
    <2>3. CASE t = Absent
      <3>1. proc'.token = Absent
        BY <1>0, <2>1, <2>3 DEF Unlocked, OAuthShape
      <3> QED
        BY <3>1 DEF RefusedNow
    <2>4. CASE t = call[c].token /\ t # Absent
      <3>1. OnDisk = call[c].token
        BY <2>4 DEF Loads, OnDisk
      <3> QED
        BY <1>0, <1>1, <3>1 DEF RefusedNow
    <2> QED
      BY <2>2, <2>3, <2>4
  <1> QED
    BY <1>2, <1>3

LEMMA RefusedStep == OAuthInv /\ [OAuthNext]_oauthVars => [RefusedNow]_oauthVars
  <1> SUFFICES ASSUME OAuthInv, OAuthNext PROVE RefusedNow
    OBVIOUS
  <1>0. call \in [Refreshers -> Calls]
    BY DEF OAuthInv, OAuthShape
  <1>1. ASSUME NEW c \in Refreshers,
               Ask(c) \/ Locked(c) \/ RefreshFails(c) \/ Refreshed(c) \/ CancelCall(c)
        PROVE  RefusedNow
    <2>1. PICK x \in {"waiting", "served", "asking", "failed", "cancelled"} :
             call'[c].at = x /\ \A d \in Refreshers : d # c => call'[d] = call[d]
      <3>1. CASE Ask(c)
        BY <1>0, <3>1 DEF Ask, Calls
      <3>2. CASE Locked(c)
        BY <1>0, <3>2 DEF Locked, Calls
      <3>3. CASE RefreshFails(c) \/ Refreshed(c)
        BY <1>0, <3>3 DEF RefreshFails, Refreshed, Calls
      <3>4. CASE CancelCall(c)
        BY <1>0, <3>4 DEF CancelCall, Calls
      <3> QED
        BY <1>1, <3>1, <3>2, <3>3, <3>4
    <2> QED
      BY <2>1 DEF RefusedNow
  <1>2. ASSUME NEW c \in Refreshers, IssuerAnswers(c) PROVE RefusedNow
    <2>1. PICK a \in Answers(call[c].token) :
             call' = [call EXCEPT ![c].at = a.kind, ![c].got = a.n]
      BY <1>2 DEF IssuerAnswers
    <2>2. a.kind \in {"ok", "reused"}
      BY DEF Answers
    <2>3. call'[c].at = a.kind /\ \A d \in Refreshers : d # c => call'[d] = call[d]
      BY <1>0, <2>1 DEF Calls
    <2> QED
      BY <2>2, <2>3 DEF RefusedNow
  <1>3. CASE OtherLoads \/ OtherPersists \/ Expire \/ ClearAuth
    BY <1>3 DEF OtherLoads, OtherPersists, Expire, ClearAuth, RefusedNow
  <1>4. CASE Restart
    <2>1. \A c \in Refreshers :
             call'[c] = IF call[c].at \in {"waiting", "asking", "ok", "reused"}
                        THEN [call[c] EXCEPT !.at = "cancelled"] ELSE call[c]
      BY <1>4 DEF Restart
    <2> QED
      BY <1>0, <2>1 DEF RefusedNow, Calls
  <1> QED
    BY <1>1, <1>2, <1>3, <1>4, ReusedForCause DEF OAuthNext

LEMMA OAuthInvTyped == OAuthInv => OAuthTypeOK /\ NewestIsSaved
  <1> SUFFICES ASSUME OAuthInv PROVE OAuthTypeOK /\ NewestIsSaved
    OBVIOUS
  <1>1. IsFiniteSet(proc.holder) /\ Cardinality(proc.holder) <= 1
    <2>1. CASE proc.holder = {}
      BY <2>1, FS_EmptySet
    <2>2. ASSUME NEW c \in proc.holder
          PROVE  IsFiniteSet(proc.holder) /\ Cardinality(proc.holder) <= 1
      <3>1. proc.holder = {c}
        BY DEF OAuthInv, OneAsks
      <3>2. Cardinality({c}) = 1 /\ IsFiniteSet({c})
        BY FS_Singleton
      <3> QED
        BY <3>1, <3>2
    <2> QED
      BY <2>1, <2>2
  <1> QED
    BY <1>1 DEF OAuthInv, OAuthShape, OneAsks, Held, OAuthTypeOK, Numbers

\* The credential survives, for any callers and any number of tokens: whatever expires,
\* fails, is cancelled or restarts, the token the issuer still accepts is on disk or on its
\* way there, unless another key's write erased it, and a call is refused only if the file
\* could not have helped it.
THEOREM TokensAreKept == OAuthSpec => TokensKept
  <1>1. OAuthInv /\ [OAuthNext]_oauthVars => [RefusedNow]_oauthVars
    BY RefusedStep
  <1>2. OAuthInv => OAuthTypeOK /\ NewestIsSaved
    BY OAuthInvTyped
  <1> QED
    BY <1>1, <1>2, OAuthInvInit, OAuthInvStep, PTL
       DEF OAuthSpec, TokensKept, RefusedForCause, RefusedNow
==============================================================================
