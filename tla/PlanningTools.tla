---------------------------- MODULE PlanningTools ----------------------------
(***************************************************************************)
(* The planning tools from the caller to MoveIt and back                   *)
(* (mcp/tools/registration.py, ManipulatorService.plan_motion and          *)
(* compute_cartesian_path): a request is parsed, judged by the policy,     *)
(* turned into a message, and its answer judged again, stored in the       *)
(* registry of plans and reported.                                         *)
(*                                                                         *)
(* The callers' tools run in one event loop and interleave where they      *)
(* await MoveIt; executions reserve and consume plans meanwhile, and plans *)
(* expire.  The scene's revision and what MoveIt answers are free, but a   *)
(* plan MoveIt calls a success ends where it was asked to.                 *)
(*                                                                         *)
(* pc[c]:  idle -> scene -> planning -> idle,  or  idle -> path -> idle.   *)
(***************************************************************************)
EXTENDS PlanRegistry

CONSTANTS
  One, NotFinite, NormSlack, Giga, ModelFrame, JointBand, IkTimeout,
  Client,      \* callers of tools, each one call at a time
  Policy,      \* the safety policy
  Request,     \* what plan_to_joint_goal and plan_to_pose_goal are asked
  Path,        \* what compute_cartesian_path is asked
  Code,        \* MoveIt error codes that occur
  Planned,     \* trajectories that occur in MoveIt's answers
  Fraction,    \* fractions of a path that occur in them
  Revision     \* revisions of the scene

INSTANCE SafetyPolicy
INSTANCE AdapterCalls

IsSequence(s) == s \in Seq({s[i] : i \in DOMAIN s})

\* What the registry keeps of a plan (MotionPlan).
Content == [request : Request, trajectory : {FromTrajectory(m) : m \in Planned},
            revision : Revision, policy : {Policy.id},
            group : {r.goal.group : r \in Request}]

\* The service is built with a policy; schemas and messages see to the types
\* of what comes from outside, and a revision is a name (SnapshotOK).
ASSUME PlanningAssumption ==
  /\ PolicyOK(Policy)
  /\ Policy.minFraction \in Int /\ \A l \in Limit : Policy.max[l] \in Int
  /\ \A r \in Request : \A k \in Ask : r.ask[k] \in Int \cup {NotFinite}
  /\ Fraction \subseteq Int \cup {NotFinite}
  /\ \A m \in Planned : IsSequence(m.points)
  /\ Revision \cap {None, <<>>} = {}
  /\ None \notin Content

VARIABLES
  pc,        \* where each caller's call stands
  call,      \* its request
  revision,  \* the revision of the scene it has read
  reply,     \* how the last one ended
  content    \* what was stored under each identifier

toolVars == <<pc, call, revision, reply, content>>
allVars == <<planVars, toolVars>>

NoCall == [tool |-> "none"]
NoReply == [status |-> "none"]
Succeeded(v) == [status |-> "success", value |-> v]
Failed(code) == [status |-> "error", code |-> code]
Raised == [status |-> "raised"]

-----------------------------------------------------------------------------
(* MoveIt. *)

\* The planner's robot has its tip on the x axis, where its first joint says.
Tip(positions) == <<positions[1], 0, 0>>

Last(t) == t.points[Len(t.points)].positions

Near(a, b, band) == a - b \in -band..band

\* Does the trajectory end where the constraints say?
Reaches(constraints, t) ==
  \A k \in constraints :
    CASE k.on = "joint" ->
           \E i \in DOMAIN t.names :
             t.names[i] = k.joint /\ Near(Last(t)[i], k.position, k.tolerance)
      [] k.on = "position" ->
           \A i \in 1..3 : Near(Tip(Last(t))[i], k.point[i], k.radius)
      [] OTHER -> TRUE

WellMade(t) == TrajectoryOK(FromTrajectory(t))

PlanAnswer(m) ==
  {a \in [code : Code, trajectory : Planned] :
     a.code = "SUCCESS" /\ WellMade(a.trajectory)
       => Reaches(m.goal, a.trajectory)}

PathAnswer == [code : Code, fraction : Fraction, trajectory : Planned]

-----------------------------------------------------------------------------
(* The tools. *)

Called(c, tool, on) == call' = [call EXCEPT ![c] = [tool |-> tool, on |-> on]]

End(c, r) ==
  /\ pc' = [pc EXCEPT ![c] = "idle"]
  /\ reply' = [reply EXCEPT ![c] = r]
  /\ revision' = [revision EXCEPT ![c] = None]

Goto(c, stage) ==
  /\ pc' = [pc EXCEPT ![c] = stage]
  /\ reply' = [reply EXCEPT ![c] = NoReply]

\* Bound: no more plans are asked for than there are identifiers left.
RoomToAsk ==
  issued + Cardinality({c \in Client : pc[c] \in {"scene", "planning"}})
    < MaxIssue

\* The tool builds the goal and the start state inside its try.
Parsed(r) == GoalOK(r.goal) /\ (r.start # None => RobotStateOK(r.start))

\* Mutant: the policy is asked about joint goals only.
ApprovedJointsOnly(r) ==
  r.goal.kind = "joint" => Allowed(PlanningFindings(Policy, r))

Approved(r) == Allowed(PlanningFindings(Policy, r))

\* plan_to_joint_goal and plan_to_pose_goal up to their read of the scene.  The
\* service builds the PlanningRequest outside of the tool's try: a ValueError
\* is raised to the caller.
AskPlan(c, r) ==
  /\ pc[c] = "idle"
  /\ RoomToAsk
  /\ Called(c, "plan", r)
  /\ UNCHANGED <<planVars, content>>
  /\ IF ~Parsed(r) THEN End(c, Failed("invalid_request"))
     ELSE IF ~PlanningAskOK(r.ask) THEN End(c, Raised)
     ELSE IF ~Approved(r) THEN End(c, Failed("policy_rejected"))
     ELSE Goto(c, "scene") /\ UNCHANGED revision

\* plan_motion goes on from get_planning_scene.
SceneAnswered(c) ==
  /\ pc[c] = "scene"
  /\ UNCHANGED <<planVars, call, content>>
  /\ \/ \E e \in RuntimeError : End(c, Failed(e.code))
     \/ \E r \in Revision :
          /\ revision' = [revision EXCEPT ![c] = r]
          /\ Goto(c, "planning")

\* Mutant: the scene is as any call under way has read it.
PlanOfAnyReading(c, trajectory) ==
  [request |-> call[c].on, trajectory |-> trajectory,
   revision |-> CHOOSE r \in {revision[d] : d \in Client} : r # None,
   policy |-> Policy.id, group |-> call[c].on.goal.group]

\* The plan a call comes to.
PlanOf(c, trajectory) ==
  [request |-> call[c].on, trajectory |-> trajectory,
   revision |-> revision[c], policy |-> Policy.id,
   group |-> call[c].on.goal.group]

\* Mutant: plans that have come to no identifier are reported all the same.
KeepReportingRefused(c, trajectory) ==
  \/ /\ StoreRefused
     /\ End(c, Succeeded(issued))
     /\ UNCHANGED content
  \/ /\ Store
     /\ content' = [content EXCEPT ![issued'] = PlanOf(c, trajectory)]
     /\ End(c, Succeeded(issued'))

\* Storing a plan raises when every slot is reserved.
Keep(c, trajectory) ==
  \/ /\ StoreRefused
     /\ End(c, Raised)
     /\ UNCHANGED content
  \/ /\ Store
     /\ content' = [content EXCEPT ![issued'] = PlanOf(c, trajectory)]
     /\ End(c, Succeeded(issued'))

\* plan_motion goes on from the planner's answer.
PlanAnswered(c) ==
  /\ pc[c] = "planning"
  /\ UNCHANGED call
  /\ \E result \in RuntimeError
                     \cup {PlanResult(a) : a \in PlanAnswer(PlanRequest(call[c].on))} :
       IF result.ok THEN Keep(c, result.value)
       ELSE End(c, Failed(result.code)) /\ UNCHANGED <<planVars, content>>

\* compute_cartesian_path up to its call.
AskPath(c, r) ==
  /\ pc[c] = "idle"
  /\ Called(c, "path", r)
  /\ UNCHANGED <<planVars, content>>
  /\ IF ~CartesianRequestOK(r) THEN End(c, Failed("invalid_request"))
     ELSE IF ~Allowed(CartesianFindings(Policy, r))
          THEN End(c, Failed("policy_rejected"))
     ELSE IF ~OneFrame(r) THEN End(c, Failed("invalid_request"))
     ELSE Goto(c, "path") /\ UNCHANGED revision

\* Mutant: a path is as good as its request.
PathReplyUnjudged(result) ==
  IF result.ok THEN Succeeded(result.value) ELSE Failed(result.code)

PathReply(result) ==
  IF ~result.ok THEN Failed(result.code)
  ELSE IF ~Allowed(PathFindings(Policy, result.value.fraction))
  THEN Failed("policy_rejected")
  ELSE Succeeded(result.value)

\* compute_cartesian_path goes on from the answer; nothing is stored.
PathAnswered(c) ==
  /\ pc[c] = "path"
  /\ UNCHANGED <<planVars, call, content>>
  /\ \E result \in RuntimeError \cup {CartesianResult(a) : a \in PathAnswer} :
       End(c, PathReply(result))

\* validate_motion_plan, and get_motion_plan but for what it reports.
Validate(c, p) ==
  /\ pc[c] = "idle"
  /\ Lookup
  /\ Called(c, "validate", p)
  /\ UNCHANGED content
  /\ End(c, IF Live[p].state = "absent" THEN Failed("not_found")
            ELSE IF ~Allowed(StoredPlanFindings(Policy, content[p]))
            THEN Failed("policy_rejected")
            ELSE Succeeded(p))

\* discard_motion_plan.
DiscardPlan(c, p) ==
  /\ pc[c] = "idle"
  /\ Called(c, "discard", p)
  /\ UNCHANGED content
  /\ \/ Discard(p) /\ End(c, Succeeded(p))
     \/ /\ Live[p].state = "absent"
        /\ Lookup
        /\ End(c, Failed("not_found"))
     \/ /\ Live[p].state = "reserved"
        /\ Lookup
        /\ End(c, Failed("plan_reserved"))

-----------------------------------------------------------------------------
(* The rest of the server: executions take plans, and time passes. *)

Elsewhere ==
  /\ UNCHANGED toolVars
  /\ \/ \E p \in PlanId, owner \in ExecId :
          Reserve(p, owner) \/ Release(p, owner) \/ Consume(p, owner)
     \/ Tick

Init ==
  /\ PlanInit
  /\ pc = [c \in Client |-> "idle"]
  /\ call = [c \in Client |-> NoCall]
  /\ revision = [c \in Client |-> None]
  /\ reply = [c \in Client |-> NoReply]
  /\ content = [p \in PlanId |-> None]

Next ==
  \/ \E c \in Client :
       \/ \E r \in Request : AskPlan(c, r)
       \/ SceneAnswered(c)
       \/ PlanAnswered(c)
       \/ \E r \in Path : AskPath(c, r)
       \/ PathAnswered(c)
       \/ \E p \in PlanId : Validate(c, p) \/ DiscardPlan(c, p)
  \/ Elsewhere

Spec == Init /\ [][Next]_allVars

-----------------------------------------------------------------------------
(* Properties. *)

SucceededAt(c, tool) == call[c].tool = tool /\ reply[c].status = "success"

ToolTypeOK ==
  /\ PlanTypeOK
  /\ pc \in [Client -> {"idle", "scene", "planning", "path"}]
  /\ \A c \in Client :
       /\ call[c].tool = "plan" => call[c].on \in Request
       /\ call[c].tool = "path" => call[c].on \in Path
       /\ call[c].tool \in {"validate", "discard"} => call[c].on \in PlanId
  /\ \A c \in Client :
       /\ revision[c] # None <=> pc[c] = "planning"
       /\ revision[c] \in Revision \cup {None}
       /\ reply[c].status \in {"none", "success", "error", "raised"}
  /\ \A p \in PlanId : content[p] # None <=> p <= issued

\* Every plan that was ever stored ends where its own request asked, joint by
\* joint or with the tip in its sphere: the constraints, MoveIt's verdict and
\* the conversion of its answer between them (to_goal_constraints,
\* _moveit_failure, from_trajectory_message), whatever other calls went on.
PlansReachTheirGoals ==
  \A p \in 1..issued :
    LET g == content[p].request.goal
        t == content[p].trajectory
    IN  IF g.kind = "joint"
        THEN \A i \in DOMAIN g.joints : \E j \in DOMAIN t.joints :
               /\ t.joints[j] = g.joints[i]
               /\ Near(t.points[Len(t.points)].positions[j], g.positions[i],
                       JointBand)
        ELSE \A i \in 1..3 :
               Near(Tip(t.points[Len(t.points)].positions)[i],
                    g.pose.point[i], g.tolerance[1])

\* No plan is ever stored whose request asks for more than the policy gives,
\* and stored plans stay approved: validate_motion_plan never refuses one for
\* any other reason than that it is gone.
PlansStayApproved ==
  \A p \in 1..issued :
    LET r == content[p].request
    IN  /\ \A k \in Ask : r.ask[k] \in 1..Policy.max[k]
        /\ ~Unlisted(r.goal.group, Policy.groups)
        /\ r.goal.kind = "pose" => ~OutsideWorkspace(Policy, r.goal.pose.point)
        /\ StoredPlanFindings(Policy, content[p]) = {}

\* A call that succeeds with a plan succeeds with its own: one stored for that
\* very request, that no other call is told of (plan_motion, store).
EachSuccessItsPlan ==
  \A c, d \in Client :
    SucceededAt(c, "plan") =>
      /\ content[reply[c].value].request = call[c].on
      /\ c # d /\ SucceededAt(d, "plan") => reply[d].value # reply[c].value

\* A Cartesian path that is reported is complete enough for the policy, can be
\* followed, and avoids collisions if it must (compute_cartesian_path).
PathsAreComplete ==
  \A c \in Client :
    SucceededAt(c, "path") =>
      /\ reply[c].value.fraction >= Policy.minFraction
      /\ reply[c].value.trajectory # None
      /\ TrajectoryOK(reply[c].value.trajectory)
      /\ Policy.mustAvoid => call[c].on.avoid
      /\ \A i, j \in DOMAIN call[c].on.waypoints :
           call[c].on.waypoints[i].frame = call[c].on.waypoints[j].frame

\* The call is told of a plan that is new, made for its own request, and bound
\* to the scene as that very call has read it.
ToldOfItsPlan(c) ==
  /\ pc[c] = "planning" /\ pc'[c] = "idle"
  /\ reply'[c] = Succeeded(issued')
  /\ content'[issued'].request = call[c].on
  /\ content'[issued'].revision = revision[c]

\* An identifier is issued exactly when a call is told of it: a call that
\* fails, at whatever stage, leaves no plan behind, and a plan that is left
\* behind is known to its caller, whose request and whose reading of the scene
\* it carries whatever other calls have read meanwhile (plan_motion, store).
StoredIsTold ==
  [][/\ issued' # issued => \E c \in Client : ToldOfItsPlan(c)
     /\ \A c \in Client :
          pc[c] = "planning" /\ pc'[c] = "idle" /\ reply'[c].status = "success"
            => issued' # issued]_allVars

\* Every failure is an answer with a code, and no exception leaves the tools
\* (docs/README_PHASE_7.md:60).  PlanningRequest is built outside of any try.
FailuresAreStructured == \A c \in Client : reply[c] # Raised

\* A client that is told of a plan has one that does what it asked for.
PlansServeTheirRequests ==
  ToolTypeOK /\ PlansReachTheirGoals /\ EachSuccessItsPlan

\* Neither what is stored nor what is reported is against the policy.
PolicyIsKept == PlansStayApproved /\ PathsAreComplete
=============================================================================
