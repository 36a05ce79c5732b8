---------------------------- MODULE MCStageRunner ----------------------------
(* Small instances of WorkflowRuntime for TLC. *)
EXTENDS WorkflowRuntime
=============================================================================
