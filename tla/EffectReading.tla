--------------------------- MODULE EffectReading ---------------------------
(* What one batch does to the scene and what its payload lets the daemon    *)
(* conclude: run_mutate_steps (bridge/tdmcp_bridge/mutate.py) and           *)
(* read_effect (tdmcp-mcp/src/receipts.rs).                                 *)
(*                                                                          *)
(* A batch is the sequence of fates of its steps: "ok" applied the step,    *)
(* "clean" failed it with nothing written, "dirty" failed it after some of  *)
(* its fields were written (_step_set assigns text, comment, values,        *)
(* expressions, pulses and flags one after the other and returns the first  *)
(* error).  Node paths, aliases and per-step reports are abstracted away.   *)
EXTENDS Naturals, Sequences

CONSTANT None

StepFates == {"ok", "clean", "dirty"}

EffectClasses == {"read", "applying", "unknown"}

EffectStates == {"notApplicable", "preventedBeforeDispatch", "none",
                 "applied", "partiallyApplied", "unknown"}

HardFailures(batch) == {i \in DOMAIN batch : batch[i] # "ok"}

\* Number of steps applied before the first hard failure.
Applied(batch) ==
    IF HardFailures(batch) = {} THEN Len(batch)
    ELSE (CHOOSE i \in HardFailures(batch) :
            \A j \in HardFailures(batch) : i <= j) - 1

\* The payload of a batch.  failedAt is a zero-based step index.
RunMutateSteps(batch) ==
    [ok       |-> HardFailures(batch) = {},
     applied  |-> Applied(batch),
     failedAt |-> IF HardFailures(batch) = {} THEN None ELSE Applied(batch)]

\* A payload without an applied count (execute_python, capture, ...).
SilentPayload(ok) == [ok |-> ok, applied |-> None, failedAt |-> None]

\* Mutant: the failed step is ignored, so a partial batch reads as applied.
ReadIgnoringFailure(payload) ==
    IF payload.applied = None THEN "unknown"
    ELSE IF payload.applied > 0 THEN "applied"
    ELSE "none"

ReadMutateEffect(payload) ==
    IF payload.applied = None THEN "unknown"
    ELSE IF payload.failedAt # None /\ payload.failedAt > 0 THEN "partiallyApplied"
    ELSE IF payload.applied > 0 THEN "applied"
    ELSE "none"

ReadEffect(class, payload) ==
    CASE class = "read"     -> "notApplicable"
      [] class = "applying" -> ReadMutateEffect(payload)
      [] class = "unknown"  -> "unknown"

(* What the batch really did: steps behind the first failure are skipped.   *)
ChangedScene(batch) ==
    \/ Applied(batch) > 0
    \/ HardFailures(batch) # {} /\ batch[Applied(batch) + 1] = "dirty"

AppliedAll(batch) == HardFailures(batch) = {} /\ batch # << >>
=============================================================================
