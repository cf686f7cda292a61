---------------------------- MODULE MCReadModels -----------------------------
(***************************************************************************)
(* The requests of MCWorkflowRun, for the run with its log of events.       *)
(***************************************************************************)
EXTENDS MCWorkflowRun, ReadModels

TwoAdapters == <<"runtime", "feishu">>
=============================================================================
