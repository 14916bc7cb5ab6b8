--------------------------- MODULE TrajectoryWire ---------------------------
(***************************************************************************)
(* A trajectory from MoveIt's planner to MoveIt's executor: the message    *)
(* plan_motion is answered with, the Trajectory that is stored, and the    *)
(* message an execution sends.  Beside it, the duration compute_inverse_   *)
(* kinematics gives the solver.                                            *)
(***************************************************************************)
EXTENDS Conversions

CONSTANTS
  Message,   \* what MoveIt may answer with: [names, points]
  Seconds    \* values of ik_timeout_seconds, in halves of a nanosecond

\* The arrays of a message are sequences, its durations pairs of integers, and
\* a timeout is not negative (Settings).
ASSUME TrajectoryAssumption ==
  /\ \A m \in Message :
       /\ m.points \in Seq({m.points[i] : i \in DOMAIN m.points})
       /\ \A i \in DOMAIN m.points :
            /\ m.points[i].velocities # None /\ m.points[i].accelerations # None
            /\ m.points[i].time \in [sec : Int, nanosec : Int]
  /\ Seconds \subseteq Nat

VARIABLES
  answer,    \* MoveIt's answer
  stored,    \* the trajectory made of it, None if there is none
  sent,      \* what an execution sends to MoveIt
  limit,     \* ik_timeout_seconds
  asked      \* the duration it was made into

trajectoryVars == <<answer, stored, sent, limit, asked>>

TrajectoryInit ==
  /\ answer \in Message
  /\ stored = None
  /\ sent = None
  /\ limit \in Seconds
  /\ asked = None

\* The end of plan_motion: a ValueError is a BACKEND_ERROR, and no plan.
Receive ==
  /\ stored = None
  /\ TrajectoryOK(FromTrajectory(answer))
  /\ stored' = FromTrajectory(answer)
  /\ UNCHANGED <<answer, sent, limit, asked>>

\* start_trajectory_execution makes the goal.
Send ==
  /\ stored # None
  /\ sent = None
  /\ sent' = ToTrajectory(stored)
  /\ UNCHANGED <<answer, stored, limit, asked>>

\* compute_inverse_kinematics.
AskSolver ==
  /\ asked = None
  /\ asked' = ToDuration(limit)
  /\ UNCHANGED <<answer, stored, sent, limit>>

TrajectoryNext == Receive \/ Send \/ AskSolver

TrajectorySpec == TrajectoryInit /\ [][TrajectoryNext]_trajectoryVars

-----------------------------------------------------------------------------
(* Properties. *)

Normal(d) == d.sec >= 0 /\ d.nanosec \in 0..(Giga - 1)

\* What an execution sends is what the planner answered: the same joints, and
\* at the same instants the same positions, velocities and accelerations,
\* although the durations may be written otherwise (from_trajectory_message,
\* to_trajectory_message).
SentAsPlanned ==
  sent # None =>
    /\ sent.names = answer.names
    /\ DOMAIN sent.points = DOMAIN answer.points
    /\ \A i \in DOMAIN sent.points :
         LET s == sent.points[i]
             a == answer.points[i]
         IN  /\ s.positions = a.positions
             /\ s.velocities = a.velocities
             /\ s.accelerations = a.accelerations
             /\ FromDuration(s.time) = FromDuration(a.time)

\* The executor is given points in strictly increasing time, each with a value
\* for every joint, however the planner's message looked (Trajectory).
SentIsExecutable ==
  sent # None =>
    /\ sent.points # <<>>
    /\ \A i \in DOMAIN sent.points :
         /\ Len(sent.points[i].positions) = Len(sent.names)
         /\ i > 1 => FromDuration(sent.points[i - 1].time)
                       < FromDuration(sent.points[i].time)

\* Every duration that is sent is in normal form, and within half a nanosecond
\* of the float it was made from: the carry included (to_duration).
DurationsAreNormal ==
  /\ sent # None => \A i \in DOMAIN sent.points : Normal(sent.points[i].time)
  /\ asked # None => /\ Normal(asked)
                     /\ FromDuration(asked) - limit \in {-1, 0, 1}

\* What the planner answered is what the executor is sent, in a form that it
\* accepts, every duration of it in normal form.
TrajectoriesSurvive == SentAsPlanned /\ SentIsExecutable /\ DurationsAreNormal
=============================================================================
