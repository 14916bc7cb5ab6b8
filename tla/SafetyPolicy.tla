---------------------------- MODULE SafetyPolicy ----------------------------
(***************************************************************************)
(* The safety policy (safety/models.py) and its evaluator                  *)
(* (safety/evaluator.py): pure decisions about requests, path results,     *)
(* collision objects and stored plans.                                     *)
(*                                                                         *)
(* Every quantity is an integer, One standing for the float 1.0; identi-   *)
(* fiers are sequences of segments, so that a prefix is a prefix; a blank  *)
(* name is the empty sequence.  All the numeric maxima of a policy are one *)
(* function, policy.max, over the names of what they limit.  Findings are  *)
(* sets of codes: all of them have severity ERROR.                         *)
(***************************************************************************)
EXTENDS Integers, Sequences, FiniteSets

CONSTANTS
  None,   \* Python's None
  One     \* the number 1.0

ASSUME ScaleAssumption == One \in Nat \ {0}

Ask == {"time", "attempts", "velocity", "acceleration"}
Limit == Ask \cup {"targets", "waypoints", "step", "objects", "dimension"}
Axis == 1..3

-----------------------------------------------------------------------------
(* Policies. *)

\* WorkspaceBounds.__post_init__.
BoundsOK(w) == \A i \in Axis : w.lo[i] <= w.hi[i]

\* WorkspaceBounds.contains: inclusive on every side.
Contains(w, point) == \A i \in Axis : w.lo[i] <= point[i] /\ point[i] <= w.hi[i]

\* SafetyPolicy.__post_init__.
PolicyOK(p) ==
  /\ p.id # <<>>
  /\ \A l \in Limit : p.max[l] > 0
  /\ p.max["velocity"] <= One
  /\ p.max["acceleration"] <= One
  /\ 0 < p.minFraction /\ p.minFraction <= One
  /\ 0 < p.minStep /\ p.minStep <= p.max["step"]
  /\ <<>> \notin p.groups \cup p.prefixes \cup p.frames
  /\ p.workspace # None => BoundsOK(p.workspace)

\* One code when something is wrong, and none otherwise (_error).
Finding(wrong, code) == IF wrong THEN {code} ELSE {}

\* An empty allow-list allows everything.
Unlisted(x, allowed) == allowed # {} /\ x \notin allowed

StartsWith(id, prefix) ==
  Len(prefix) <= Len(id) /\ SubSeq(id, 1, Len(prefix)) = prefix

\* _maximum, for each of the limits the request is held to.
Exceeded(p, limits, ask) == {l \in limits : ask[l] > p.max[l]}

OutsideWorkspace(p, point) ==
  p.workspace # None /\ ~Contains(p.workspace, point)

\* SafetyDecision.allowed.
Allowed(findings) == findings = {}

-----------------------------------------------------------------------------
(* The evaluator. *)

\* _check_group.
GroupFindings(p, group) ==
  Finding(Unlisted(group, p.groups), "PLANNING_GROUP_NOT_ALLOWED")

\* _check_object_id.
ObjectIdFindings(p, id) ==
  Finding(p.prefixes # {} /\ ~(\E x \in p.prefixes : StartsWith(id, x)),
          "OBJECT_ID_NOT_ALLOWED")

\* evaluate_planning_request.
PlanningFindings(p, r) ==
  GroupFindings(p, r.goal.group)
    \cup Exceeded(p, Ask, r.ask)
    \cup Finding(r.goal.kind = "joint"
                   /\ Len(r.goal.joints) > p.max["targets"],
                 "JOINT_TARGET_LIMIT_EXCEEDED")
    \cup Finding(r.goal.kind = "pose" /\ OutsideWorkspace(p, r.goal.pose.point),
                 "POSE_OUTSIDE_WORKSPACE")

\* evaluate_cartesian_request.
CartesianFindings(p, r) ==
  GroupFindings(p, r.group)
    \cup Exceeded(p, {"velocity", "acceleration"}, r.ask)
    \cup Finding(Len(r.waypoints) > p.max["waypoints"],
                 "CARTESIAN_WAYPOINT_LIMIT_EXCEEDED")
    \cup Finding(~(p.minStep <= r.step /\ r.step <= p.max["step"]),
                 "CARTESIAN_STEP_OUT_OF_POLICY")
    \cup Finding(p.mustAvoid /\ ~r.avoid, "COLLISION_AVOIDANCE_REQUIRED")
    \cup Finding(\E i \in DOMAIN r.waypoints :
                   OutsideWorkspace(p, r.waypoints[i].point),
                 "WAYPOINT_OUTSIDE_WORKSPACE")

\* evaluate_cartesian_result.
PathFindings(p, fraction) ==
  Finding(fraction < p.minFraction, "CARTESIAN_PATH_INCOMPLETE")

\* What is wrong with an object in any scene: its name, shape and frame.
ObjectFindings(p, o) ==
  ObjectIdFindings(p, o.id)
    \cup Finding(o.primitive \notin p.primitives,
                 "PRIMITIVE_TYPE_NOT_ALLOWED")
    \cup Finding(o.size > p.max["dimension"], "PRIMITIVE_DIMENSION_EXCEEDED")
    \cup Finding(Unlisted(o.frame, p.frames), "SCENE_FRAME_NOT_ALLOWED")

\* Mutants: one object too many; any name may be taken.
PlaceFindingsOffByOne(p, id, present, replace) ==
  Finding(replace /\ ~p.mayReplace, "OBJECT_REPLACE_NOT_ALLOWED")
    \cup Finding(id \in present /\ ~replace, "OBJECT_ALREADY_EXISTS")
    \cup Finding(id \notin present /\ Cardinality(present) > p.max["objects"],
                 "COLLISION_OBJECT_LIMIT_EXCEEDED")

PlaceFindingsOverwriting(p, id, present, replace) ==
  Finding(replace /\ ~p.mayReplace, "OBJECT_REPLACE_NOT_ALLOWED")
    \cup Finding(id \notin present /\ Cardinality(present) >= p.max["objects"],
                 "COLLISION_OBJECT_LIMIT_EXCEEDED")

\* Whether there is a place for it among the names present.
PlaceFindings(p, id, present, replace) ==
  Finding(replace /\ ~p.mayReplace, "OBJECT_REPLACE_NOT_ALLOWED")
    \cup Finding(id \in present /\ ~replace, "OBJECT_ALREADY_EXISTS")
    \cup Finding(id \notin present /\ Cardinality(present) >= p.max["objects"],
                 "COLLISION_OBJECT_LIMIT_EXCEEDED")

\* evaluate_collision_object, against the objects of a scene read earlier.
CollisionFindings(p, o, scene, replace) ==
  ObjectFindings(p, o)
    \cup PlaceFindings(p, o.id, {x.id : x \in scene}, replace)

\* evaluate_collision_object_removal: the name, and not that it exists.
RemovalFindings(p, id) == ObjectIdFindings(p, id)

\* evaluate_stored_plan.
StoredPlanFindings(p, plan) ==
  Finding(plan.policy # p.id, "PLAN_POLICY_MISMATCH")
    \cup GroupFindings(p, plan.group)
    \cup Finding(p.needsRevision /\ plan.revision = <<>>,
                 "PLAN_SCENE_REVISION_REQUIRED")
=============================================================================
