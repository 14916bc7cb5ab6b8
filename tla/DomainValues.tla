---------------------------- MODULE DomainValues ----------------------------
(***************************************************************************)
(* The values of the domain (package domain): what their constructors      *)
(* accept.  A constructor that does not accept its arguments raises        *)
(* ValueError; here it is a predicate that is false.                       *)
(*                                                                         *)
(* Numbers are integers, One standing for 1.0, or NotFinite (an infinity   *)
(* or a NaN).  Names are sequences of segments, the blank name being empty. *)
(* Tuples of coordinates, joints and points are sequences.                 *)
(***************************************************************************)
EXTENDS Integers, Sequences, FiniteSets

LOCAL INSTANCE Functions

CONSTANTS
  None,       \* Python's None
  One,        \* the number 1.0
  NotFinite,  \* an infinity, or not a number
  NormSlack   \* how far the square of a quaternion's norm may be from 1

ASSUME DomainAssumption ==
  /\ One \in Nat \ {0}
  /\ NormSlack \in Nat
  /\ NotFinite \notin Int

-----------------------------------------------------------------------------
(* domain/_validation.py *)

Finite(x) == x # NotFinite
FiniteValues(xs) == NotFinite \notin Range(xs)
Positive(x) == Finite(x) /\ x > 0
NonNegative(x) == Finite(x) /\ x >= 0
ScalingFactor(x) == Positive(x) /\ x <= One

Identifier(name) == name # <<>>

\* One name or more, each given once.
Names(names) ==
  names # <<>> /\ <<>> \notin Range(names) /\ IsInjective(names)

-----------------------------------------------------------------------------
(* Geometry. *)

SquaredNorm(q) == q[1]*q[1] + q[2]*q[2] + q[3]*q[3] + q[4]*q[4]

\* Quaternion <<x, y, z, w>>: normalized already, or not accepted.
QuaternionOK(q) ==
  /\ FiniteValues(q)
  /\ SquaredNorm(q) - One * One \in -NormSlack..NormSlack

PoseOK(p) ==
  Identifier(p.frame) /\ FiniteValues(p.point) /\ QuaternionOK(p.turn)

-----------------------------------------------------------------------------
(* Robot states and trajectories. *)

\* As many finite values as there are joints.
PerJoint(values, joints) == FiniteValues(values) /\ Len(values) = Len(joints)

JointStateOK(s) ==
  /\ Names(s.joints)
  /\ PerJoint(s.positions, s.joints)
  /\ \A f \in {"velocities", "efforts"} :
       s[f] # None => PerJoint(s[f], s.joints)

\* RobotState; age is sample_age_seconds.
RobotStateOK(s) ==
  /\ JointStateOK(s)
  /\ s.stamp # None => NonNegative(s.stamp)
  /\ s.age # None => NonNegative(s.age)

\* Mutant: equal times are taken for increasing ones.
TrajectoryOKWithTies(t) ==
  /\ Names(t.joints)
  /\ t.points # <<>>
  /\ \A i \in DOMAIN t.points :
       /\ PerJoint(t.points[i].positions, t.joints)
       /\ NonNegative(t.points[i].time)
       /\ i > 1 => t.points[i - 1].time <= t.points[i].time

\* Trajectory, and the TrajectoryPoints in it.
TrajectoryOK(t) ==
  /\ Names(t.joints)
  /\ t.points # <<>>
  /\ \A i \in DOMAIN t.points :
       /\ PerJoint(t.points[i].positions, t.joints)
       /\ \A f \in {"velocities", "accelerations"} :
            t.points[i][f] # None => PerJoint(t.points[i][f], t.joints)
       /\ NonNegative(t.points[i].time)
       /\ i > 1 => t.points[i - 1].time < t.points[i].time

-----------------------------------------------------------------------------
(* Requests and results. *)

JointGoalOK(g) ==
  Identifier(g.group) /\ Names(g.joints) /\ PerJoint(g.positions, g.joints)

\* The position and orientation tolerances are one tuple here.
PoseGoalOK(g) ==
  /\ Identifier(g.group)
  /\ Identifier(g.link)
  /\ PoseOK(g.pose)
  /\ \A i \in DOMAIN g.tolerance : Positive(g.tolerance[i])

\* What the goal of a planning request is held to.
GoalOK(g) == IF g.kind = "joint" THEN JointGoalOK(g) ELSE PoseGoalOK(g)

\* PlanningRequest.__post_init__: attempts is an int by its schema.
PlanningAskOK(ask) ==
  /\ ScalingFactor(ask["velocity"])
  /\ ScalingFactor(ask["acceleration"])
  /\ Positive(ask["time"])
  /\ Positive(ask["attempts"])

CartesianRequestOK(r) ==
  /\ Identifier(r.group)
  /\ Identifier(r.link)
  /\ r.waypoints # <<>>
  /\ \A i \in DOMAIN r.waypoints : PoseOK(r.waypoints[i])
  /\ Positive(r.step)
  /\ NonNegative(r.jump)
  /\ ScalingFactor(r.ask["velocity"])
  /\ ScalingFactor(r.ask["acceleration"])

CartesianResultOK(c) ==
  /\ NonNegative(c.fraction)
  /\ c.fraction <= One
  /\ c.fraction > 0 => c.trajectory # None

-----------------------------------------------------------------------------
(* Collision objects. *)

\* _DIMENSION_COUNTS.
Dimensions ==
  [box |-> 3, sphere |-> 1, cylinder |-> 2, cone |-> 2]

\* CollisionPrimitive.
PrimitiveOK(p) ==
  /\ p.primitive \in DOMAIN Dimensions
  /\ Len(p.dimensions) = Dimensions[p.primitive]
  /\ \A i \in DOMAIN p.dimensions : Positive(p.dimensions[i])

CollisionObjectOK(o) ==
  Identifier(o.id) /\ PrimitiveOK(o) /\ PoseOK(o.pose)

\* PlanningSceneSnapshot: no two objects with one name.
SnapshotOK(s) ==
  /\ Identifier(s.revision)
  /\ \A x, y \in s.objects : x.id = y.id => x = y
=============================================================================
