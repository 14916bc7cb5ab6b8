--------------------------- MODULE MCPlanningTools ---------------------------
(***************************************************************************)
(* An instance of PlanningTools: an arm of two joints, and a policy that   *)
(* keeps it to half its speed and to the middle of its workspace.          *)
(***************************************************************************)
EXTENDS PlanningTools, TLC

J1 == <<"joint1">>
J2 == <<"joint2">>
World == <<"world">>

Within == [time |-> 1, attempts |-> 1, velocity |-> 1, acceleration |-> 2]
TooFast == [Within EXCEPT !.velocity = 2]
Unreal == [Within EXCEPT !.velocity = 3]

ArmGoalAt(group, a, b) ==
  [kind |-> "joint", group |-> group, joints |-> <<J1, J2>>,
   positions |-> <<a, b>>]

JointGoalAt(a, b) == ArmGoalAt(<<"arm">>, a, b)

At(x, frame) ==
  [frame |-> frame, point |-> <<x, 0, 0>>, turn |-> <<0, 0, 0, One>>]

PoseGoalAt(x) ==
  [kind |-> "pose", group |-> <<"arm">>, link |-> <<"tip">>,
   pose |-> At(x, World), tolerance |-> <<1, 1>>]

Asked(goal, ask) == [goal |-> goal, start |-> None, ask |-> ask]

ToJoints == Asked(JointGoalAt(1, 4), Within)
ToPose == Asked(PoseGoalAt(2), Within)
ToPoseOutside == Asked(PoseGoalAt(4), Within)
Faster == Asked(JointGoalAt(1, 4), TooFast)
BeyondReal == Asked(JointGoalAt(1, 4), Unreal)
OtherArm == Asked(ArmGoalAt(<<"leg">>, 1, 4), Within)
Twice == Asked([JointGoalAt(1, 4) EXCEPT !.joints = <<J1, J1>>], Unreal)

MCRequest ==
  {ToJoints, ToPose, ToPoseOutside, Faster, OtherArm, BeyondReal, Twice}

PathOf(waypoints, avoid, step) ==
  [group |-> <<"arm">>, link |-> <<"tip">>, waypoints |-> waypoints,
   step |-> step, jump |-> 0, avoid |-> avoid, start |-> None,
   ask |-> [velocity |-> 1, acceleration |-> 1]]

MCPath ==
  {PathOf(<<At(1, World), At(2, World)>>, TRUE, 1),
   PathOf(<<At(1, World), At(2, World)>>, FALSE, 1),
   PathOf(<<At(1, World), At(2, <<"tool">>)>>, TRUE, 1),
   PathOf(<<>>, TRUE, 1)}

PointAt(a, b, sec) ==
  [positions |-> <<a, b>>, velocities |-> <<>>, accelerations |-> <<>>,
   time |-> [sec |-> sec, nanosec |-> 0]]

\* To the joint goal, with the joints in another order; to either pose, one of
\* which is outside the workspace; twice at one instant; nowhere.
Along(n, ps) == [names |-> n, points |-> ps]

MCPlanned ==
  {Along(<<J2, J1>>, <<PointAt(0, 0, 0), PointAt(4, 1, 1)>>),
   Along(<<J1, J2>>, <<PointAt(0, 0, 0), PointAt(3, 0, 1)>>),
   Along(<<J1, J2>>, <<PointAt(0, 0, 1), PointAt(1, 4, 1)>>),
   Along(<<>>, <<>>)}

CellPolicy ==
  [id |-> <<"cell">>, groups |-> {<<"arm">>},
   workspace |-> [lo |-> <<-3, -3, -3>>, hi |-> <<3, 3, 3>>],
   max |-> [l \in Limit |-> IF l = "velocity" THEN 1 ELSE 2],
   minStep |-> 1, minFraction |-> 2, mustAvoid |-> TRUE,
   prefixes |-> {}, primitives |-> {"box"}, frames |-> {},
   mayReplace |-> FALSE, needsRevision |-> TRUE]

Symmetry == Permutations(Client) \cup Permutations(Revision)
=============================================================================
