-------------------------- MODULE ExecutionContract --------------------------
(***************************************************************************)
(* What the execution service promises its clients, without plans, tasks,  *)
(* the adapter or MoveIt: executions live one at a time, each ends once    *)
(* and in one way, a stop that was asked for rules out success, a timeout  *)
(* bars every later execution, and what is barred stays barred.  Finished  *)
(* executions may be forgotten.                                            *)
(***************************************************************************)
EXTENDS Identifiers

VARIABLES
  status,   \* what a client can know of each execution
  barred    \* are new executions refused for good?

contractVars == <<status, barred>>

Ended == {"succeeded", "failed", "cancelled", "timed_out"}
Living == {"live", "stopping"}
Status == {"unborn", "forgotten"} \cup Living \cup Ended

\* How an execution may end, depending on whether a stop was asked for.
Endings(s) ==
  IF s = "stopping" THEN {"cancelled", "failed", "timed_out"}
                    ELSE {"succeeded", "failed", "timed_out"}

\* Execution x moves on; others stay, or are forgotten once they have ended.
Becomes(x, s) ==
  /\ status' \in [ExecId -> Status]
  /\ status'[x] = s
  /\ \A y \in ExecId \ {x} :
       status'[y] = status[y] \/ (status[y] \in Ended /\ status'[y] = "forgotten")

NoneLives == \A x \in ExecId : status[x] \notin Living

\* An execution begins, or is refused its plan and fails at once.
Begin(x) ==
  /\ ~barred /\ NoneLives
  /\ status[x] = "unborn"
  /\ Becomes(x, "live") \/ Becomes(x, "failed")
  /\ UNCHANGED barred

\* A client asks to stop; failing to pass that on bars later executions.
AskStop(x) ==
  /\ status[x] = "live"
  /\ Becomes(x, "stopping")
  /\ barred' \in {barred, TRUE}

Finish(x) ==
  /\ status[x] \in Living
  /\ barred' \in {barred, TRUE}
  /\ \E ending \in Endings(status[x]) :
       Becomes(x, ending) /\ (ending = "timed_out" => barred')

ContractInit == status = [x \in ExecId |-> "unborn"] /\ barred = FALSE
ContractNext == \E x \in ExecId : Begin(x) \/ AskStop(x) \/ Finish(x)

\* The part of the promise that says what may never happen.
ContractSafety == ContractInit /\ [][ContractNext]_contractVars

ContractSpec ==
  /\ ContractSafety
  /\ \A x \in ExecId : WF_contractVars(Finish(x))
=============================================================================
