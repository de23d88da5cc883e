-------------------------- MODULE MCTouchDesigner --------------------------
(* The two state machines inside TouchDesigner, checked in one run: part   *)
(* says which of them this behaviour is about; the other stays where it    *)
(* starts.  They share the main thread and nothing of their state.         *)
EXTENDS BridgeRuntime, TimedJobs

VARIABLE part

\* A recording, then a capture.
RecordThenCapture == [j \in Jobs |-> IF j = 1 THEN "record" ELSE "capture"]
RestoreThenPause == [j \in Jobs |-> IF j = 1 THEN "restore" ELSE "pause"]
TwoSamples == [j \in Jobs |-> 1]

\* Connect is on from the start where the runtime moves, and off where it rests.
Init ==
    /\ part \in {"runtime", "jobs"}
    /\ RuntimeInit /\ connect = (part = "runtime") /\ autoconnect = TRUE
    /\ JobInit

Next ==
    \/ part = "runtime" /\ RuntimeNext /\ UNCHANGED <<part, jobVars>>
    \/ part = "jobs" /\ JobNext /\ UNCHANGED <<part, runtimeVars>>

\* The fairness of a machine that stays where it starts asks for nothing: no step of
\* it is enabled there.
Spec ==
    /\ Init /\ [][Next]_<<part, runtimeVars, jobVars>>
    /\ RuntimeFairness /\ JobFairness
=============================================================================
