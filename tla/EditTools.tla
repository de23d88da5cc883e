----------------------------- MODULE EditTools -----------------------------
(* What a call that edits a project leaves inside TouchDesigner, and what  *)
(* the caller is told of it: batches of mutate_nodes, parameter interfaces *)
(* and scripts.  They share the main thread, one call after another.       *)
EXTENDS MutateScene, ParamInterface, ScriptRuns

EditSpec == MutateSpec /\ InterfaceSpec /\ ScriptSpec

\* A batch of edits, a panel and a script's output are as the caller was told, and what
\* a call borrows is given back (mutate.py, param_interface.py, execute.py, logtap.py).
EditsAreTold == BatchIsAsTold /\ PanelIsAsTold /\ ScriptsAreTold
=============================================================================
