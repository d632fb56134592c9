------------------------------ MODULE MCResponse ------------------------------
(***************************************************************************)
(* Bounds for model checking how a request meets its peer: the body it     *)
(* receives, the worker and the body of a streamed answer, which share a   *)
(* queue, and the task that writes a body to the peer.  The body is only   *)
(* iterated and closed there, so that each behaviour is about one of them. *)
(***************************************************************************)
EXTENDS LoggedResponse, ResponsesStream, RequestIntake

CONSTANT s1

VARIABLE part

answerVars == <<part, responseVars, vars, intakeVars>>

MCFrames == {<<>>, <<"open">>, <<"quote", "other">>}

\* A stream that is not about the queue has none.
MCInit ==
    /\ part \in {"intake", "response", "queue"}
    /\ ResponseInit /\ IntakeInit
    /\ IF part = "queue" THEN Init
       ELSE /\ QueueInit /\ w = [s \in Streams |-> Worker]
            /\ b = [s \in Streams |-> [ph |-> "none", registered |-> FALSE, retire |-> FALSE]]
    /\ part # "response" => sse.is /\ sse.observer = "clean" /\ life.listens /\ life.room
    /\ part # "intake" => req = [encoding |-> "identity", json |-> TRUE, releasable |-> FALSE]

InResponse == part = "response" /\ UNCHANGED <<part, vars, intakeVars>>
InQueue == part = "queue" /\ UNCHANGED <<part, responseVars, intakeVars>>
InIntake == part = "intake" /\ UNCHANGED <<part, responseVars, vars>>

MCNext == (InIntake /\ IntakeNext) \/ (InResponse /\ ResponseNext) \/ (InQueue /\ Next)

MCSpec == MCInit /\ [][MCNext]_answerVars

\* Ready tasks run and timers fire, the disconnect monitor's too; see FairSpec and ResponseSteps.
MCFairSpec ==
    /\ MCSpec
    /\ WF_answerVars(InIntake /\ Monitor)
    /\ WF_answerVars(InResponse /\ ResponseSteps)
    /\ \A s \in Streams :
          /\ WF_answerVars(InQueue /\ WorkerStep(s))
          /\ WF_answerVars(InQueue /\ BodyStep(s))
          /\ WF_answerVars(InQueue /\ OthersRun(s))
=============================================================================
