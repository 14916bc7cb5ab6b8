------------------------ MODULE MCExecutionWorkflow ------------------------
(***************************************************************************)
(* Instances of ExecutionWorkflow: two plans, two or three executions one  *)
(* after the other, a clock that can outlive a plan.                       *)
(***************************************************************************)
EXTENDS ExecutionWorkflow
=============================================================================
