------------------------- MODULE MCFlowOrchestrator -------------------------
(***************************************************************************)
(* Runs of the flow in an empty directory and in that of an earlier run,   *)
(* with up to MaxFaults failing operations: two, so that writing the       *)
(* failure report may fail as well.                                        *)
(***************************************************************************)
EXTENDS FlowOrchestrator, TLC

MCNoReport == [status |-> "none"]
=============================================================================
