------------------------------ MODULE MCWires ------------------------------
(***************************************************************************)
(* Instances of TrajectoryWire, SceneWire and QueryTools, which have       *)
(* conversions in common and no state: one is used while the others are    *)
(* as they began.                                                          *)
(*                                                                         *)
(* Trajectories: two points at every pair of instants that can be written  *)
(* with seconds of four nanoseconds, normal or not, with or without        *)
(* velocities, and with joints that may not be accepted.                   *)
(*                                                                         *)
(* Scenes: with One = 2 the quaternions of whole numbers are the 24 turns  *)
(* that map the axes to axes by thirds about a diagonal or halves about an *)
(* axis: they do not commute, and every product is exact.                  *)
(*                                                                         *)
(* Questions: a robot of two joints in a cell with a box that comes and    *)
(* goes, and a mesh that cannot be read.                                   *)
(***************************************************************************)
EXTENDS TrajectoryWire, SceneWire, QueryTools

Durations == [sec : 0..1, nanosec : 0..(Giga + 1)]
Arrays == {<<>>, <<5>>}

Point(position, v, a, d) ==
  [positions |-> position, velocities |-> v, accelerations |-> a, time |-> d]

NoPoints == [names |-> <<<<"j">>>>, points |-> <<>>]

MCMessage ==
  {[names |-> n, points |-> <<Point(p, v, <<7>>, d), Point(<<1>>, w, a, e)>>] :
     n \in {<<<<"j">>>>, <<>>}, p \in {<<2>>, <<2, 2>>, <<NotFinite>>},
     v \in Arrays, w \in {<<>>, <<6>>}, a \in {<<7>>},
     d \in Durations, e \in Durations}
  \cup {NoPoints}

MCSeconds == {0, 2 * Giga - 1, 2 * Giga, 5}

-----------------------------------------------------------------------------
Third == <<1, 1, 1, 1>>
Half == <<2, 0, 0, 0>>

\* All 24.
MCTurn == {q \in [1..4 -> -2..2] : SquaredNorm(q) = 4}

Placed(at, turned) == [point |-> at, turn |-> turned]

Crate == [id |-> <<"crate">>, primitive |-> "box", dimensions |-> <<1, 2, 3>>,
        pose |-> [frame |-> <<"world">>, point |-> <<1, 0, 0>>,
                  turn |-> Third]]

MCStart == {Crate}

MCPose == {Placed(<<0, 1, 0>>, Half), Placed(<<0, 0, 0>>, Third)}

OneSolid(n) == [type |-> n, dimensions |-> <<1>>]

Foreigner(solids, places, mesh) ==
  [id |-> Crate.id, frame |-> <<"world">>, pose |-> Placed(<<1, 1, 0>>, Half),
   primitives |-> solids, poses |-> places, mesh |-> mesh]

MCForeign ==
  {Foreigner(<<OneSolid(2)>>, <<>>, FALSE),
   Foreigner(<<OneSolid(5)>>, <<>>, FALSE),
   Foreigner(<<OneSolid(2), OneSolid(2)>>, <<>>, FALSE),
   Foreigner(<<>>, <<>>, TRUE),
   Foreigner(<<OneSolid(2)>>, <<Placed(<<0, 1, 0>>, Third)>>, FALSE)}

-----------------------------------------------------------------------------
Tip == <<"tip">>
World == <<"world">>
Joints == << <<"joint1">>, <<"joint2">> >>
Groups == {<<"arm">>}

Still(p) == [point |-> p, turn |-> <<0, 0, 0, One>>]

MessageOf(id, mesh) ==
  [id |-> id, frame |-> World, pose |-> Still(<<1, 0, 0>>),
   primitives |-> IF mesh THEN <<>> ELSE <<[type |-> 2, dimensions |-> <<1>>]>>,
   poses |-> <<>>, mesh |-> mesh]

Box == MessageOf(<<"box">>, FALSE)
Mesh == MessageOf(<<"mesh">>, TRUE)
MCScene == {{}, {Box}, {Box, Mesh}}

StateOf(names, values) ==
  [joints |-> names, positions |-> values, velocities |-> None,
   efforts |-> None, stamp |-> None, age |-> None]

Supplied == StateOf(Joints, <<0, 1>>)
Partly == StateOf(<<Joints[2]>>, <<1>>)
Twice == StateOf(<<Joints[1], Joints[1]>>, <<0, 1>>)

PoseOf(x, norm) ==
  [frame |-> World, point |-> <<x, 0, 0>>, turn |-> <<0, 0, 0, norm>>]

MCQuestion ==
  {[tool |-> "state"], [tool |-> "health"], [tool |-> "scene"],
   [tool |-> "pose", link |-> Tip],
   [tool |-> "fk", link |-> Tip, state |-> Supplied],
   [tool |-> "fk", link |-> Tip, state |-> Twice],
   [tool |-> "fk", link |-> Tip, state |-> Partly],
   [tool |-> "ik", link |-> Tip, pose |-> PoseOf(1, One), seed |-> Supplied],
   [tool |-> "ik", link |-> Tip, pose |-> PoseOf(1, 0), seed |-> None],
   [tool |-> "validity", state |-> Supplied],
   [tool |-> "object", id |-> <<"box">>],
   [tool |-> "group", group |-> <<"arm">>],
   [tool |-> "group", group |-> <<"leg">>]}

-----------------------------------------------------------------------------
\* Where the others begin has no bearing on those that are used.
NoTrajectory ==
  /\ answer = NoPoints /\ stored = None /\ sent = None
  /\ limit = 0 /\ asked = None

NoQuestion ==
  /\ now = 0 /\ scene = {} /\ robot = [i \in {1, 2} |-> 0]
  /\ \A c \in Client : call[c] = NoCall

MCInit ==
  /\ TrajectoryInit /\ SceneInit /\ Init
  /\ NoTrajectory \/ NoQuestion

MCNext ==
  \/ NoQuestion /\ SceneInit /\ TrajectoryNext /\ UNCHANGED <<sceneVars, vars>>
  \/ NoQuestion /\ NoTrajectory /\ SceneNext /\ UNCHANGED <<trajectoryVars, vars>>
  \/ NoTrajectory /\ SceneInit /\ Next /\ UNCHANGED <<trajectoryVars, sceneVars>>

MCSpec == MCInit /\ [][MCNext]_<<trajectoryVars, sceneVars, vars>>
=============================================================================
