---------------------------- MODULE Conversions ----------------------------
(***************************************************************************)
(* Between the values of the domain and the messages of ROS                *)
(* (ros/jazzy/conversions.py).                                             *)
(*                                                                         *)
(* A conversion from a message is an operator, and beside it the predicate *)
(* that says when it raises ValueError instead.  Fields a message leaves   *)
(* empty are empty sequences.  Python's floats are exact here: seconds are *)
(* counted in halves of a nanosecond, Giga nanoseconds to the second, and  *)
(* a product of quaternions is divided by One without a remainder.         *)
(***************************************************************************)
EXTENDS DomainValues

CONSTANT Giga   \* nanoseconds in a second

ASSUME ConversionAssumption == Giga \in Nat \ {0}

-----------------------------------------------------------------------------
(* Durations. *)

\* round: to the nearest nanosecond, ties to the even one.
Rounded(halves) ==
  LET below == halves \div 2 IN
    IF halves % 2 = 0 \/ below % 2 = 0 THEN below ELSE below + 1

\* Mutant: a whole second of nanoseconds is not carried.
ToDurationNotCarried(t) ==
  [sec |-> t \div (2 * Giga), nanosec |-> Rounded(t % (2 * Giga))]

ToDuration(t) ==
  LET whole == t \div (2 * Giga)
      nanos == Rounded(t % (2 * Giga))
  IN  IF nanos = Giga
      THEN [sec |-> whole + 1, nanosec |-> 0]
      ELSE [sec |-> whole, nanosec |-> nanos]

\* The float a stamp or a duration becomes.
FromDuration(d) == 2 * (d.sec * Giga + d.nanosec)

\* An empty array of a message stands for no samples, and the other way round.
Samples(values) == IF values = <<>> THEN None ELSE values
Array(samples) == IF samples = None THEN <<>> ELSE samples

-----------------------------------------------------------------------------
(* Robot states. *)

FromRobotState(m) ==
  [joints |-> m.names, positions |-> m.positions,
   velocities |-> Samples(m.velocities), efforts |-> Samples(m.efforts),
   stamp |-> FromDuration(m.stamp), age |-> None]

\* The stamp stays behind; no state at all means the current one.
ToRobotState(s) ==
  IF s = None
  THEN [is_diff |-> TRUE, names |-> <<>>, positions |-> <<>>,
        velocities |-> <<>>, efforts |-> <<>>]
  ELSE [is_diff |-> TRUE, names |-> s.joints, positions |-> s.positions,
        velocities |-> Array(s.velocities), efforts |-> Array(s.efforts)]

-----------------------------------------------------------------------------
(* Trajectories: the single-DOF part of a message, and no other. *)

FromTrajectory(m) ==
  [joints |-> m.names,
   points |-> [i \in DOMAIN m.points |->
     [positions |-> m.points[i].positions,
      velocities |-> Samples(m.points[i].velocities),
      accelerations |-> Samples(m.points[i].accelerations),
      time |-> FromDuration(m.points[i].time)]]]

\* Mutant: every point is sent with the arrays of the last.
ToTrajectoryOfLast(t) ==
  [names |-> t.joints,
   points |-> [i \in DOMAIN t.points |->
     [positions |-> t.points[i].positions,
      velocities |-> Array(t.points[Len(t.points)].velocities),
      accelerations |-> Array(t.points[Len(t.points)].accelerations),
      time |-> ToDuration(t.points[i].time)]]]

ToTrajectory(t) ==
  [names |-> t.joints,
   points |-> [i \in DOMAIN t.points |->
     [positions |-> t.points[i].positions,
      velocities |-> Array(t.points[i].velocities),
      accelerations |-> Array(t.points[i].accelerations),
      time |-> ToDuration(t.points[i].time)]]]

-----------------------------------------------------------------------------
(* Goals. *)

\* to_goal_constraints: a box around the joint values of a joint goal, or a
\* sphere around the point and a tolerance about the turn of a pose goal.
ToGoalConstraints(g, tolerance) ==
  IF g.kind = "joint"
  THEN {[on |-> "joint", joint |-> g.joints[i], position |-> g.positions[i],
         tolerance |-> tolerance] : i \in DOMAIN g.joints}
  ELSE {[on |-> "position", link |-> g.link, frame |-> g.pose.frame,
         point |-> g.pose.point, radius |-> g.tolerance[1]],
        [on |-> "orientation", link |-> g.link, frame |-> g.pose.frame,
         turn |-> g.pose.turn, tolerance |-> g.tolerance[2]]}

-----------------------------------------------------------------------------
(* Poses. *)

\* The sixteen products of _multiply, of quaternions <<x, y, z, w>>.
Hamilton(l, r) ==
  << l[4]*r[1] + l[1]*r[4] + l[2]*r[3] - l[3]*r[2],
     l[4]*r[2] - l[1]*r[3] + l[2]*r[4] + l[3]*r[1],
     l[4]*r[3] + l[1]*r[2] - l[2]*r[1] + l[3]*r[4],
     l[4]*r[4] - l[1]*r[1] - l[2]*r[2] - l[3]*r[3] >>

\* Mutant: the factors are swapped.
MultiplySwapped(l, r) == [i \in 1..4 |-> Hamilton(r, l)[i] \div One]

\* _multiply.
Multiply(l, r) == [i \in 1..4 |-> Hamilton(l, r)[i] \div One]

\* _rotate.
Rotate(q, v) ==
  LET tx == 2 * (q[2]*v[3] - q[3]*v[2])
      ty == 2 * (q[3]*v[1] - q[1]*v[3])
      tz == 2 * (q[1]*v[2] - q[2]*v[1])
  IN  << v[1] + (q[4]*tx + q[2]*tz - q[3]*ty) \div (One * One),
         v[2] + (q[4]*ty + q[3]*tx - q[1]*tz) \div (One * One),
         v[3] + (q[4]*tz + q[1]*ty - q[2]*tx) \div (One * One) >>

Moved(p, v) == [i \in 1..3 |-> p[i] + v[i]]

\* _compose_pose: the child's pose in the frame of its parent's.
Compose(p, c) ==
  [frame |-> p.frame, point |-> Moved(p.point, Rotate(p.turn, c.point)),
   turn |-> Multiply(p.turn, c.turn)]

Identity == [point |-> <<0, 0, 0>>, turn |-> <<0, 0, 0, One>>]

-----------------------------------------------------------------------------
(* Collision objects. *)

\* _PRIMITIVE_TO_ROS; SolidPrimitive has a fifth, the prism.
PrimitiveToRos == [box |-> 1, sphere |-> 2, cylinder |-> 3, cone |-> 4]

Primitives == DOMAIN PrimitiveToRos

PrimitiveFromRos(n) == CHOOSE p \in Primitives : PrimitiveToRos[p] = n

\* Mutant: the pose goes with the object as well.
ToObjectTwice(o) ==
  LET place == [point |-> o.pose.point, turn |-> o.pose.turn]
  IN  [id |-> o.id, frame |-> o.pose.frame, pose |-> place,
       primitives |-> <<[type |-> PrimitiveToRos[o.primitive],
                         dimensions |-> o.dimensions]>>,
       poses |-> <<place>>,
       mesh |-> FALSE]

\* to_collision_object_message: the pose goes with the primitive.
ToObject(o) ==
  [id |-> o.id, frame |-> o.pose.frame, pose |-> Identity,
   primitives |-> <<[type |-> PrimitiveToRos[o.primitive],
                     dimensions |-> o.dimensions]>>,
   poses |-> <<[point |-> o.pose.point, turn |-> o.pose.turn]>>,
   mesh |-> FALSE]

\* The pose of the object, composed with that of its primitive if it has one.
Placement(m) ==
  LET framed(p) == [frame |-> m.frame, point |-> p.point, turn |-> p.turn]
  IN  IF m.poses = <<>>
      THEN framed(m.pose)
      ELSE Compose(framed(m.pose), framed(m.poses[1]))

FromObject(m) ==
  [id |-> m.id,
   primitive |-> PrimitiveFromRos(m.primitives[1].type),
   dimensions |-> m.primitives[1].dimensions,
   pose |-> Placement(m)]

\* from_collision_object_message raises nothing.
ObjectReadable(m) ==
  LET framed(p) == [frame |-> m.frame, point |-> p.point, turn |-> p.turn]
  IN  /\ Len(m.primitives) = 1
      /\ Len(m.poses) <= 1
      /\ ~m.mesh
      /\ m.primitives[1].type \in {PrimitiveToRos[p] : p \in Primitives}
      /\ PoseOK(framed(m.pose))
      /\ m.poses # <<>> => PoseOK(framed(m.poses[1]))
      /\ CollisionObjectOK(FromObject(m))

\* The robot's state is there if it has joints.
FromScene(world, state, revision) ==
  [revision |-> revision,
   objects |-> {FromObject(m) : m \in world},
   state |-> IF state.names = <<>> THEN None ELSE FromRobotState(state)]

\* from_planning_scene_message raises nothing: one object that cannot be read
\* hides the whole scene.
SceneReadable(world, state, revision) ==
  /\ \A m \in world : ObjectReadable(m)
  /\ state.names # <<>> => RobotStateOK(FromRobotState(state))
  /\ SnapshotOK(FromScene(world, state, revision))
=============================================================================
