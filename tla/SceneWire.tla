------------------------------ MODULE SceneWire ------------------------------
(***************************************************************************)
(* Collision objects across the boundary to MoveIt and back: what          *)
(* apply_collision_object sends, what MoveIt and other nodes make of it,   *)
(* and what get_planning_scene reads.                                      *)
(*                                                                         *)
(* An object of MoveIt has a pose and a primitive with a pose of its own   *)
(* in the frame of the object; an object of the domain has one pose.  The  *)
(* history variable truth says where each solid really is, as a rotation   *)
(* matrix and a displacement, computed without quaternion products.        *)
(***************************************************************************)
EXTENDS Conversions

CONSTANTS
  Start,    \* objects the tools' callers bring
  Foreign,  \* messages other nodes put in the scene
  Pose,     \* where other nodes move objects to: [point, turn]
  Turn,     \* the turns that occur, and those they compose to
  Reach     \* bound: the largest coordinate of anything in the scene

\* A place in whole numbers, at one of those turns.
Placeable(p) == p.point \in [1..3 -> Int] /\ p.turn \in Turn

\* A message with the poses it has.
PlaceableObject(m) ==
  Placeable(m.pose) /\ (m.poses # <<>> => Placeable(m.poses[1]))

\* The turns are rotations, and whole numbers count their products without a
\* remainder; everything that is put in the scene is turned by one of them.
ASSUME SceneWireAssumption ==
  /\ \A q \in Turn :
       (\A i \in 1..4 : q[i] \in Int) /\ SquaredNorm(q) = One * One
  /\ \A l, r \in Turn : /\ \A i \in 1..4 : Hamilton(l, r)[i] % One = 0
                        /\ Multiply(l, r) \in Turn
  /\ Identity.turn \in Turn
  /\ \A o \in Start : Placeable(o.pose)
  /\ \A p \in Pose : Placeable(p)
  /\ \A m \in Foreign : PlaceableObject(m)

VARIABLES
  world,  \* the collision objects of MoveIt's world
  truth,  \* where each of them is, by name
  snap,   \* what get_planning_scene answered last, None for an error
  seen    \* the truth at that moment

sceneVars == <<world, truth, snap, seen>>

-----------------------------------------------------------------------------
(* Rigid motions, without quaternions. *)

\* The matrix of a unit quaternion, row by row.
Matrix(q) ==
  LET x == q[1]  y == q[2]  z == q[3]  w == q[4]
      S == One * One
  IN  << << S - 2*(y*y + z*z), 2*(x*y - z*w), 2*(x*z + y*w) >>,
         << 2*(x*y + z*w), S - 2*(x*x + z*z), 2*(y*z - x*w) >>,
         << 2*(x*z - y*w), 2*(y*z + x*w), S - 2*(x*x + y*y) >> >>

Times(m, v) ==
  [i \in 1..3 |-> (m[i][1]*v[1] + m[i][2]*v[2] + m[i][3]*v[3]) \div (One*One)]

Product(m, n) ==
  [i \in 1..3 |-> [j \in 1..3 |->
     (m[i][1]*n[1][j] + m[i][2]*n[2][j] + m[i][3]*n[3][j]) \div (One*One)]]

Motion(p) == [matrix |-> Matrix(p.turn), shift |-> p.point]

\* First the one, in the frame of the other.
Onto(outer, inner) ==
  [matrix |-> Product(outer.matrix, inner.matrix),
   shift |-> Moved(outer.shift, Times(outer.matrix, inner.shift))]

\* Where the solid of a message is.
Solid(m) ==
  IF m.poses = <<>> THEN Motion(m.pose)
  ELSE Onto(Motion(m.pose), Motion(m.poses[1]))

InReach(motion) == \A i \in 1..3 : motion.shift[i] \in -Reach..Reach

-----------------------------------------------------------------------------
(* The scene. *)

NamesIn(ms) == {m.id : m \in ms}

Put(m) ==
  /\ InReach(Solid(m))
  /\ world' = {x \in world : x.id # m.id} \cup {m}
  /\ truth' = [id \in NamesIn(world') |->
                 IF id = m.id THEN Solid(m) ELSE truth[id]]
  /\ UNCHANGED <<snap, seen>>

\* A caller applies an object of its own, or one it has read.
Apply(o) ==
  /\ CollisionObjectOK(o)
  /\ Put(ToObject(o))

\* remove_collision_object.
Remove(id) ==
  /\ id \in NamesIn(world)
  /\ world' = {x \in world : x.id # id}
  /\ truth' = [x \in NamesIn(world') |-> truth[x]]
  /\ UNCHANGED <<snap, seen>>

\* Another node moves an object: its pose changes, its primitive's does not.
Relocate(m, p) == Put([m EXCEPT !.pose = p])

\* The robot's state is in no way part of this.
NoState == [names |-> <<>>]

\* Mutant: what cannot be read is left out.
ReadSkipping ==
  /\ snap' = FromScene({m \in world : ObjectReadable(m)}, NoState,
                       <<"revision">>)
  /\ seen' = truth
  /\ UNCHANGED <<world, truth>>

\* get_planning_scene.
Read ==
  /\ snap' = IF SceneReadable(world, NoState, <<"revision">>)
             THEN FromScene(world, NoState, <<"revision">>)
             ELSE None
  /\ seen' = truth
  /\ UNCHANGED <<world, truth>>

SceneInit ==
  /\ world = {}
  /\ truth = <<>>
  /\ snap = None
  /\ seen = <<>>

SceneNext ==
  \/ \E o \in Start : Apply(o)
  \/ snap # None /\ \E o \in snap.objects : Apply(o)
  \/ \E id \in NamesIn(world) : Remove(id)
  \/ \E m \in Foreign : Put(m)
  \/ \E m \in world, p \in Pose : Relocate(m, p)
  \/ Read

SceneSpec == SceneInit /\ [][SceneNext]_sceneVars

-----------------------------------------------------------------------------
(* Properties. *)

\* Every object that is read is where its solid was when it was read, however
\* often it has been moved by others, read and applied again: poses compose in
\* the right order and no turn is lost (_compose_pose, _multiply, _rotate).
ReadWhereItIs ==
  snap # None =>
    \A o \in snap.objects :
      o.id \in DOMAIN seen => Motion(o.pose) = seen[o.id]

\* A scene that is read is read whole: an object that the domain has no words
\* for is an error and never an omission (from_collision_object_message).
NothingOmitted ==
  snap # None => {o.id : o \in snap.objects} = DOMAIN seen

\* Applying what was just read changes the place of nothing: an object that is
\* read, edited and applied again stays where it was.
ReapplyingKeepsPlace ==
  [][\A id \in DOMAIN truth :
       /\ id \in DOMAIN truth'
       /\ snap # None /\ seen = truth
       /\ \E o \in snap.objects : o.id = id /\ ToObject(o) \in world' \ world
       => truth'[id] = truth[id]]_sceneVars

\* A scene is read whole and in place.
ScenesAreRead == ReadWhereItIs /\ NothingOmitted
=============================================================================
