---------------------------- MODULE AdapterCalls ----------------------------
(***************************************************************************)
(* What JazzyManipulatorAdapter asks MoveIt for, and what it makes of the  *)
(* answers (ros/jazzy/adapter.py): the part of every operation that lies   *)
(* before and after the call itself.                                       *)
(*                                                                         *)
(* A DomainResult is a record, a value or the code of an error.            *)
(***************************************************************************)
EXTENDS Conversions

CONSTANTS
  ModelFrame,   \* the descriptor's model_frame
  JointBand,    \* settings.joint_goal_tolerance
  IkTimeout     \* settings.ik_timeout_seconds

Value(v) == [ok |-> TRUE, value |-> v]
Error(code) == [ok |-> FALSE, code |-> code]

-----------------------------------------------------------------------------
(* Errors. *)

\* _moveit_failure: MoveIt's codes by the domain's.
CodesOf ==
  [timeout |-> {"TIMED_OUT"},
   no_solution |-> {"NO_IK_SOLUTION"},
   in_collision |-> {"START_STATE_IN_COLLISION", "GOAL_IN_COLLISION"},
   invalid_request |->
     {"INVALID_GROUP_NAME", "INVALID_GOAL_CONSTRAINTS", "INVALID_ROBOT_STATE",
      "INVALID_LINK_NAME", "INVALID_OBJECT_NAME", "START_STATE_INVALID",
      "GOAL_STATE_INVALID", "UNRECOGNIZED_GOAL_TYPE"},
   stale_state |-> {"ROBOT_STATE_STALE"},
   unavailable |-> {"COMMUNICATION_FAILURE", "COLLISION_CHECKING_UNAVAILABLE"},
   planning_failed |->
     {"PLANNING_FAILED", "INVALID_MOTION_PLAN",
      "MOTION_PLAN_INVALIDATED_BY_ENVIRONMENT_CHANGE"}]

MoveItError(code) ==
  LET known == {c \in DOMAIN CodesOf : code \in CodesOf[c]}
  IN  IF known = {} THEN "backend_error" ELSE CHOOSE c \in known : TRUE

\* Mutant: what MoveIt answers counts, whatever it says of it.
AnsweredWhatever(code, result) == result

\* The result of an answer MoveIt vouches for.
Answered(code, result) ==
  IF code = "SUCCESS" THEN result ELSE Error(MoveItError(code))

\* _runtime_failure: no such service, no answer in time, anything else.
RuntimeError == {Error(c) : c \in {"unavailable", "timeout", "backend_error"}}

-----------------------------------------------------------------------------
(* Robot state and kinematics. *)

\* Mutant: a sample is dated by when it is read, not by its stamp.
StateResultUponArrival(sample, clock) ==
  LET state == [FromRobotState(sample) EXCEPT !.stamp = clock, !.age = 0]
  IN  IF RobotStateOK(state) THEN Value(state) ELSE Error("backend_error")

\* get_current_state of a sample, by the clock of the adapter.  A sample may be
\* of any age, but not from the future.
StateResult(sample, clock) ==
  LET age == clock - FromDuration(sample.stamp)
      state == [FromRobotState(sample) EXCEPT !.age = age]
  IN  IF age >= 0 /\ RobotStateOK(state) THEN Value(state)
      ELSE Error("backend_error")

FkRequest(link, state) ==
  [frame |-> ModelFrame, links |-> <<link>>, state |-> ToRobotState(state)]

\* Mutant: the first pose is taken for the link's.
FkResultFirst(link, answer) ==
  Answered(answer.code,
    IF answer.poses = <<>> \/ ~PoseOK(answer.poses[1])
    THEN Error("backend_error")
    ELSE Value(answer.poses[1]))

\* The pose of the link among those answered.  Its conversion is not guarded,
\* and _call makes a BACKEND_ERROR of what it raises.
FkResult(link, answer) ==
  LET places == {i \in DOMAIN answer.links : answer.links[i] = link}
      first == CHOOSE i \in places : \A j \in places : i <= j
  IN  Answered(answer.code,
        IF places = {} THEN Error("backend_error")
        ELSE IF first > Len(answer.poses) THEN Error("backend_error")
        ELSE IF ~PoseOK(answer.poses[first]) THEN Error("backend_error")
        ELSE Value(answer.poses[first]))

IkRequest(group, link, pose, seed) ==
  [group |-> group, link |-> link, pose |-> pose, state |-> ToRobotState(seed),
   avoid |-> TRUE, timeout |-> ToDuration(IkTimeout)]

IkResult(answer) ==
  Answered(answer.code,
    IF RobotStateOK(FromRobotState(answer.solution))
    THEN Value(FromRobotState(answer.solution))
    ELSE Error("backend_error"))

-----------------------------------------------------------------------------
(* Planning. *)

PlanRequest(r) ==
  [group |-> r.goal.group, start |-> ToRobotState(r.start),
   goal |-> ToGoalConstraints(r.goal, JointBand), ask |-> r.ask]

PlanResult(answer) ==
  Answered(answer.code,
    IF TrajectoryOK(FromTrajectory(answer.trajectory))
    THEN Value(FromTrajectory(answer.trajectory))
    ELSE Error("backend_error"))

\* The waypoints of a Cartesian request are sent without their frames.
OneFrame(r) == \A i, j \in DOMAIN r.waypoints :
                 r.waypoints[i].frame = r.waypoints[j].frame

CartesianResult(answer) ==
  LET path == FromTrajectory(answer.trajectory)
      result == [fraction |-> answer.fraction,
                 trajectory |-> IF path.points = <<>> THEN None ELSE path]
  IN  Answered(answer.code,
        IF /\ path.points # <<>> => TrajectoryOK(path)
           /\ CartesianResultOK(result)
        THEN Value(result)
        ELSE Error("backend_error"))

-----------------------------------------------------------------------------
(* The planning scene. *)

SceneResult(world, state, revision) ==
  IF SceneReadable(world, state, revision)
  THEN Value(FromScene(world, state, revision))
  ELSE Error("backend_error")
=============================================================================
