------------------------------ MODULE MCRouting ------------------------------
(***************************************************************************)
(* Providers, keys, weights and rules for model checking Routing, and the  *)
(* requests of the Rust front: their streams, its native routes and the    *)
(* snapshot that configures them; and requests that follow the remembered  *)
(* routes of video tasks.  They share no state: the front has its own key  *)
(* pools, cool-downs and windows, a stream sees of a route only the plans  *)
(* it makes, and a remembered route asks nobody.  A behaviour moves one of *)
(* the five.                                                               *)
(***************************************************************************)
EXTENDS Routing, NativeRoute, ConfigSnapshot, RustStream, VideoTasks, TLC

CONSTANTS r1, r2

MCKeyList == [a |-> <<"a1", "a2">>, b |-> <<"b1">>]

MCOrder == <<"a", "b">>

MCWeight == [a |-> 2, b |-> 1]

MCRules == {[count |-> 1, period |-> 1]}

\* Providers that call the model by the name the clients use, and one that does not.
MCSameName == [a |-> "m", b |-> "m"]

MCOtherName == [a |-> "m-original", b |-> "m"]

MCCooldown == [a |-> 1, b |-> 1]

\* The client has two rules, of which the shorter one refuses first.
MCLimits == [global |-> {[count |-> 3, seconds |-> 2]},
             client |-> {[count |-> 2, seconds |-> 2], [count |-> 1, seconds |-> 1]}]

MCKeySeconds == [quota |-> 2, limited |-> 1, plain |-> 0]

\* A behaviour is about one part, so the parts have the same two requests.
Symmetry == Permutations(Requests)

VARIABLE part

MCInit ==
    /\ Init /\ NativeInit /\ SnapshotInit /\ StreamInit /\ VideoInit
    /\ part \in {"python", "native", "snapshot", "stream", "video"}
    /\ part # "stream" => owner = "none" /\ ~ session.native

MCNext ==
    /\ UNCHANGED part
    /\ \/ part = "python" /\ Next /\ UNCHANGED <<nativeVars, snapshotVars, streamVars, videoVars>>
       \/ part = "native" /\ NativeNext /\ UNCHANGED <<vars, snapshotVars, streamVars, videoVars>>
       \/ part = "snapshot" /\ SnapshotNext /\ UNCHANGED <<vars, nativeVars, streamVars, videoVars>>
       \/ part = "stream" /\ StreamNext /\ UNCHANGED <<vars, nativeVars, snapshotVars, videoVars>>
       \/ part = "video" /\ VideoNext /\ UNCHANGED <<vars, nativeVars, snapshotVars, streamVars>>

MCSpec == MCInit /\ [][MCNext]_<<vars, nativeVars, snapshotVars, streamVars, videoVars, part>>
==============================================================================
