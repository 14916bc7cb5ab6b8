-------------------------- MODULE ExecutionBackend --------------------------
(***************************************************************************)
(* The execution half of the backend: JazzyManipulatorAdapter              *)
(* (ros/jazzy/adapter.py), the worker thread JazzyRosRuntime uses to send  *)
(* a goal (ros/jazzy/runtime.py), and, as far as the adapter relies on     *)
(* them, MoveIt's ExecuteTrajectory server and its stop topic (external).  *)
(*                                                                         *)
(* The adapter's methods run on the event loop.  The thread and MoveIt run *)
(* on their own: what they do is the BackendNext of this module, what the  *)
(* event loop asks of the adapter are the operators before it, which the   *)
(* workflow calls from its steps.                                          *)
(***************************************************************************)
EXTENDS Identifiers, FiniteSets

CONSTANT Faults   \* which faults of the environment the instance includes

\* "late_acceptance": MoveIt answers a goal request after the acceptance
\*                    timeout, and accepts it.
\* "wait_error": waiting for a result fails with an error of ROS's own.
\* "stop_lost": a published stop never reaches MoveIt.
FaultName == {"late_acceptance", "wait_error", "stop_lost"}

ASSUME BackendAssumption == Faults \subseteq FaultName

VARIABLES
  adapterActive,       \* adapter._active_execution_id
  stopRequested,       \* adapter._stop_requested
  adapterQuarantined,  \* adapter._execution_quarantined
  sending,             \* what the thread sending x's goal has come to
  goal,                \* MoveIt's view of the goal sent for x
  stops,               \* the stop messages on their way, by who asked
  published            \* history: how many stops were published for x

backendVars == <<adapterActive, stopRequested, adapterQuarantined,
                 sending, goal, stops, published>>

SendState == {"idle", "discovering", "sent",
              "accepted", "rejected", "unavailable", "timeout"}
SendOutcome == {"accepted", "rejected", "unavailable", "timeout"}

\* A terminal action result pairs a ROS status with a MoveIt error code:
\*   succeeded     SUCCEEDED with SUCCESS
\*   preempted     ABORTED with PREEMPTED
\*   aborted       ABORTED with any other code
\*   inconsistent  every other combination
GoalResult == {"succeeded", "preempted", "aborted", "inconsistent"}
GoalState == {"none", "requested", "refused", "executing"} \cup GoalResult

Executing == {x \in ExecId : goal[x] = "executing"}

-----------------------------------------------------------------------------
(* The adapter, called on the event loop. *)

\* submit_execution refuses while quarantined or while a goal is recorded.
MaySubmit == ~adapterQuarantined /\ adapterActive = None

\* submit_execution up to the await: hand the goal to a worker thread.
BeginSubmit(x) ==
  /\ MaySubmit
  /\ sending' = [sending EXCEPT ![x] = "discovering"]
  /\ UNCHANGED <<adapterActive, stopRequested, adapterQuarantined,
                 goal, stops, published>>

\* wait_execution_result is asked about the execution it has on record.
Waitable(x) == adapterActive = x

\* Mutant: every abort counts as a preemption.
OutcomeOfAbort(result) ==
  IF result = "succeeded" THEN result
  ELSE IF result \in {"preempted", "aborted"} THEN "preempted" ELSE "failed"

\* The outcome wait_execution_result makes of a terminal result.
Outcome(result) ==
  IF result \in {"succeeded", "preempted"} THEN result ELSE "failed"

\* Mutant: the adapter keeps the finished execution on record.
ResultTakenKeepingOwner(x) ==
  /\ adapterActive' = adapterActive
  /\ stopRequested' = stopRequested \ {x}

\* A terminal result ends the adapter's ownership.
ResultTaken(x) ==
  /\ adapterActive' = None
  /\ stopRequested' = stopRequested \ {x}

\* What request_execution_stop(x) may answer when the adapter has owner on
\* record: it publishes at most once, and a failure to publish still counts.
StopAnswers(x, owner) ==
  IF owner # x THEN {"not_found"}
  ELSE IF x \in stopRequested THEN {"already"}
  ELSE {"published", "publish_error"}

\* Those of them that are errors; the adapter quarantines itself on the second.
StopErrors == {"not_found", "publish_error"}

\* The adapter and the topic after one of those answers.
StopAnswered(x, answer) ==
  /\ stopRequested' = IF answer \in {"published", "publish_error"}
                      THEN stopRequested \cup {x} ELSE stopRequested
  /\ stops' = IF answer = "published" THEN stops \cup {x} ELSE stops
  /\ published' = IF answer = "published"
                  THEN [published EXCEPT ![x] = @ + 1] ELSE published

-----------------------------------------------------------------------------
(* The worker thread in _send_action_goal_blocking. *)

SendStep(x, from, to) ==
  /\ sending[x] = from
  /\ sending' = [sending EXCEPT ![x] = to]
  /\ UNCHANGED <<adapterActive, stopRequested, adapterQuarantined,
                 stops, published>>

\* wait_for_server gives up: no goal was sent.
ServerUnavailable(x) ==
  SendStep(x, "discovering", "unavailable") /\ UNCHANGED goal

SendGoal(x) ==
  /\ SendStep(x, "discovering", "sent")
  /\ goal' = [goal EXCEPT ![x] = "requested"]

\* The bounded wait for the answer ends first; the request is not withdrawn.
AcceptanceTimesOut(x) ==
  SendStep(x, "sent", "timeout") /\ UNCHANGED goal

SendThread(x) ==
  ServerUnavailable(x) \/ SendGoal(x) \/ AcceptanceTimesOut(x)

-----------------------------------------------------------------------------
(* MoveIt (external). *)

\* The answer to the goal request reaches the thread while it waits.
AcceptGoal(x) ==
  /\ SendStep(x, "sent", "accepted")
  /\ goal[x] = "requested"
  /\ goal' = [goal EXCEPT ![x] = "executing"]

RejectGoal(x) ==
  /\ SendStep(x, "sent", "rejected")
  /\ goal[x] = "requested"
  /\ goal' = [goal EXCEPT ![x] = "refused"]

GoalStep(x, from, to) ==
  /\ goal[x] = from
  /\ goal' = [goal EXCEPT ![x] = to]
  /\ UNCHANGED <<adapterActive, stopRequested, adapterQuarantined,
                 sending, published>>

\* The goal is accepted although nobody waits for the answer any more.
AcceptLate(x) ==
  /\ "late_acceptance" \in Faults
  /\ sending[x] = "timeout"
  /\ GoalStep(x, "requested", "executing")
  /\ UNCHANGED stops

\* A trajectory ends by itself, well or badly.
FinishGoal(x) ==
  /\ \E result \in GoalResult \ {"preempted"} : GoalStep(x, "executing", result)
  /\ UNCHANGED stops

\* A stop event is global: it preempts whatever MoveIt is executing.
DeliverStop(x) ==
  /\ x \in stops
  /\ stops' = stops \ {x}
  /\ goal' = [y \in ExecId |->
                IF goal[y] = "executing" THEN "preempted" ELSE goal[y]]
  /\ UNCHANGED <<adapterActive, stopRequested, adapterQuarantined,
                 sending, published>>

LoseStop(x) ==
  /\ "stop_lost" \in Faults
  /\ x \in stops
  /\ stops' = stops \ {x}
  /\ UNCHANGED <<adapterActive, stopRequested, adapterQuarantined,
                 sending, goal, published>>

MoveIt(x) ==
  \/ AcceptGoal(x) \/ RejectGoal(x) \/ AcceptLate(x)
  \/ FinishGoal(x) \/ DeliverStop(x) \/ LoseStop(x)

-----------------------------------------------------------------------------
BackendInit ==
  /\ adapterActive = None
  /\ stopRequested = {}
  /\ adapterQuarantined = FALSE
  /\ sending = [x \in ExecId |-> "idle"]
  /\ goal = [x \in ExecId |-> "none"]
  /\ stops = {}
  /\ published = [x \in ExecId |-> 0]

\* Everything that happens without the event loop.
BackendNext == \E x \in ExecId : SendThread(x) \/ MoveIt(x)

BackendTypeOK ==
  /\ adapterActive \in ExecId \cup {None}
  /\ stopRequested \subseteq ExecId
  /\ adapterQuarantined \in BOOLEAN
  /\ sending \in [ExecId -> SendState]
  /\ goal \in [ExecId -> GoalState]
  /\ stops \subseteq ExecId
  /\ published \in [ExecId -> Nat]
=============================================================================
