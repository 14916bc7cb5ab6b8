------------------------ MODULE PlanningToolsProofs ------------------------
(***************************************************************************)
(* Proofs about the planning tools (PlanningTools), for every policy, any  *)
(* requests, answers of MoveIt, number of callers and capacity of the      *)
(* registry: what is stored was judged, reaches its goal and is told of,   *)
(* whatever other calls go on meanwhile.                                   *)
(*                                                                         *)
(* The policy, the parser and MoveIt judge a plan at three moments, and    *)
(* the registry keeps the result.  PlanningInv carries what was judged     *)
(* from the one moment to the next with the call, and from there to the    *)
(* plan, where it stays.                                                   *)
(***************************************************************************)
EXTENDS PlanningTools, PlanRegistryProofs, SequenceTheorems

-----------------------------------------------------------------------------
(* The inductive invariant. *)

\* A request that may go to the planner.
Sound(r) == r \in Request /\ PlanningAskOK(r.ask) /\ Approved(r)

\* A path that may be asked for.
SoundPath(r) ==
  /\ r \in Path /\ CartesianRequestOK(r)
  /\ Allowed(CartesianFindings(Policy, r)) /\ OneFrame(r)

\* Does the trajectory end where the goal is?
EndsAt(g, t) ==
  IF g.kind = "joint"
  THEN \A i \in DOMAIN g.joints : \E j \in DOMAIN t.joints :
         /\ t.joints[j] = g.joints[i]
         /\ Near(t.points[Len(t.points)].positions[j], g.positions[i], JointBand)
  ELSE \A i \in 1..3 :
         Near(Tip(t.points[Len(t.points)].positions)[i],
              g.pose.point[i], g.tolerance[1])

\* A plan that may be stored.
SoundPlan(k) ==
  /\ k \in Content /\ Sound(k.request)
  /\ k.group = k.request.goal.group
  /\ EndsAt(k.request.goal, k.trajectory)

\* A path that may be reported.
SoundReport(v) ==
  /\ v.fraction >= Policy.minFraction
  /\ v.trajectory # None /\ TrajectoryOK(v.trajectory)

Calls ==
  {NoCall} \cup [tool : {"plan"}, on : Request]
    \cup [tool : {"path"}, on : Path]
    \cup [tool : {"validate", "discard"}, on : PlanId]

\* What is known of a caller's call at each stage.
Underway(c) ==
  /\ call[c] \in Calls
  /\ pc[c] \in {"scene", "planning"} => call[c].tool = "plan" /\ Sound(call[c].on)
  /\ pc[c] = "path" => call[c].tool = "path" /\ SoundPath(call[c].on)
  /\ revision[c] # None <=> pc[c] = "planning"

\* What it was told when it ended.
Told(c) ==
  /\ reply[c].status \in {"none", "success", "error", "raised"}
  /\ SucceededAt(c, "plan") =>
       /\ reply[c].value \in 1..issued
       /\ content[reply[c].value].request = call[c].on
  /\ SucceededAt(c, "path") =>
       SoundPath(call[c].on) /\ SoundReport(reply[c].value)

Shelved(p) == IF p <= issued THEN SoundPlan(content[p]) ELSE content[p] = None

ToolsTyped ==
  /\ pc \in [Client -> {"idle", "scene", "planning", "path"}]
  /\ call = [c \in Client |-> call[c]]
  /\ revision \in [Client -> Revision \cup {None}]
  /\ reply = [c \in Client |-> reply[c]]
  /\ content = [p \in PlanId |-> content[p]]

NoneTwice ==
  \A c, d \in Client :
    c # d /\ SucceededAt(c, "plan") /\ SucceededAt(d, "plan")
      => reply[d].value # reply[c].value

PlanningInv ==
  /\ PlanTypeOK /\ ToolsTyped
  /\ \A c \in Client : Underway(c) /\ Told(c)
  /\ \A p \in PlanId : Shelved(p)
  /\ NoneTwice

-----------------------------------------------------------------------------
(* What is judged. *)

\* A sequence of as many elements as there are to begin with.
LEMMA LengthOf ==
  ASSUME NEW n \in Nat, NEW s, s = [i \in 1..n |-> s[i]]
  PROVE  Len(s) = n
<1>1. s \in Seq({s[i] : i \in 1..n})
  OBVIOUS
<1>. QED BY <1>1, LenProperties

\* A trajectory has as many points as its message, at the same positions
\* (from_trajectory_message).
LEMMA ReadAsSent ==
  ASSUME NEW m \in Planned
  PROVE  LET t == FromTrajectory(m)
         IN  /\ t.joints = m.names
             /\ m.points # <<>> =>
                  t.points[Len(t.points)].positions = Last(m)
             /\ t.points # <<>> => m.points # <<>>
<1>1. PICK n \in Nat : n = Len(m.points) /\ DOMAIN m.points = 1..n
  BY PlanningAssumption, LenProperties DEF IsSequence
<1>2. PICK t : t = FromTrajectory(m)
  OBVIOUS
<1>3. t.joints = m.names /\ DOMAIN t.points = 1..n
  BY <1>1, <1>2 DEF FromTrajectory
<1>4. \A i \in 1..n : t.points[i].positions = m.points[i].positions
  BY <1>1, <1>2 DEF FromTrajectory
<1>5. Len(t.points) = n
  <2>1. t.points = [i \in 1..n |-> t.points[i]]
    BY <1>1, <1>2 DEF FromTrajectory
  <2>. QED BY <2>1, LengthOf
<1>6. m.points = <<>> <=> n = 0
  BY <1>1, PlanningAssumption, EmptySeq DEF IsSequence
<1>7. m.points # <<>> => t.points[Len(t.points)].positions = Last(m)
  BY <1>1, <1>4, <1>5, <1>6 DEF Last
<1>8. t.points # <<>> => m.points # <<>>
  <2>1. SUFFICES ASSUME n = 0 PROVE t.points = <<>>
    BY <1>6
  <2>. QED BY <1>1, <1>2, <2>1 DEF FromTrajectory
<1>. QED BY <1>2, <1>3, <1>7, <1>8

\* A plan MoveIt vouches for ends where the request asked: the constraints say
\* it of the message, and the trajectory that is made of the message keeps it
\* (to_goal_constraints, from_trajectory_message).
LEMMA PlanArrives ==
  ASSUME NEW r \in Request, NEW a \in PlanAnswer(PlanRequest(r)),
         PlanResult(a).ok
  PROVE  /\ PlanResult(a).value \in {FromTrajectory(m) : m \in Planned}
         /\ EndsAt(r.goal, PlanResult(a).value)
<1>1. a.code = "SUCCESS" /\ a.trajectory \in Planned
  BY DEF PlanResult, Answered, Error, PlanAnswer
<1>2. /\ TrajectoryOK(FromTrajectory(a.trajectory))
      /\ PlanResult(a).value = FromTrajectory(a.trajectory)
  BY <1>1 DEF PlanResult, Answered, Error, Value
<1>3. PICK t : t = FromTrajectory(a.trajectory)
  OBVIOUS
<1>4. /\ t.joints = a.trajectory.names
      /\ t.points[Len(t.points)].positions = Last(a.trajectory)
  BY <1>1, <1>2, <1>3, ReadAsSent DEF TrajectoryOK
<1>5. Reaches(ToGoalConstraints(r.goal, JointBand), a.trajectory)
  BY <1>1, <1>2 DEF PlanAnswer, PlanRequest, WellMade
<1>6. CASE r.goal.kind = "joint"
  <2>1. SUFFICES ASSUME NEW i \in DOMAIN r.goal.joints
                 PROVE  \E j \in DOMAIN t.joints :
                          /\ t.joints[j] = r.goal.joints[i]
                          /\ Near(Last(a.trajectory)[j], r.goal.positions[i],
                                  JointBand)
    BY <1>1, <1>2, <1>3, <1>4, <1>6 DEF EndsAt
  <2>2. PICK k \in ToGoalConstraints(r.goal, JointBand) :
          k = [on |-> "joint", joint |-> r.goal.joints[i],
               position |-> r.goal.positions[i], tolerance |-> JointBand]
    BY <1>6 DEF ToGoalConstraints
  <2>3. \E j \in DOMAIN a.trajectory.names :
          /\ a.trajectory.names[j] = k.joint
          /\ Near(Last(a.trajectory)[j], k.position, k.tolerance)
    BY <1>5, <2>2 DEF Reaches
  <2>. QED BY <1>4, <2>2, <2>3
<1>7. CASE r.goal.kind # "joint"
  <2>1. PICK k \in ToGoalConstraints(r.goal, JointBand) :
          k = [on |-> "position", link |-> r.goal.link,
               frame |-> r.goal.pose.frame, point |-> r.goal.pose.point,
               radius |-> r.goal.tolerance[1]]
    BY <1>7 DEF ToGoalConstraints
  <2>2. \A i \in 1..3 : Near(Tip(Last(a.trajectory))[i], k.point[i], k.radius)
    BY <1>5, <2>1 DEF Reaches
  <2>. QED BY <1>1, <1>2, <1>3, <1>4, <1>7, <2>1, <2>2 DEF EndsAt
<1>. QED BY <1>1, <1>2, <1>6, <1>7

\* What is kept of it is what was judged.
LEMMA PlanIsSound ==
  ASSUME NEW c \in Client, Sound(call[c].on), revision[c] \in Revision,
         NEW t \in {FromTrajectory(m) : m \in Planned},
         EndsAt(call[c].on.goal, t)
  PROVE  SoundPlan(PlanOf(c, t)) /\ PlanOf(c, t).request = call[c].on
BY DEF SoundPlan, PlanOf, Sound, Content

\* A plan that may be stored is within the policy, and stays approved
\* (evaluate_planning_request, evaluate_stored_plan).
LEMMA SoundIsWithin ==
  ASSUME NEW k, SoundPlan(k)
  PROVE  /\ \A a \in Ask : k.request.ask[a] \in 1..Policy.max[a]
         /\ ~Unlisted(k.request.goal.group, Policy.groups)
         /\ k.request.goal.kind = "pose"
              => ~OutsideWorkspace(Policy, k.request.goal.pose.point)
         /\ StoredPlanFindings(Policy, k) = {}
<1>1. PICK r \in Request : r = k.request
  BY DEF SoundPlan, Sound
<1>2. /\ GroupFindings(Policy, r.goal.group) = {}
      /\ Exceeded(Policy, Ask, r.ask) = {}
      /\ Finding(r.goal.kind = "pose"
                   /\ OutsideWorkspace(Policy, r.goal.pose.point),
                 "POSE_OUTSIDE_WORKSPACE") = {}
  BY <1>1 DEF SoundPlan, Sound, Approved, Allowed, PlanningFindings
<1>3. ASSUME NEW a \in Ask PROVE r.ask[a] \in 1..Policy.max[a]
  <2>1. Positive(r.ask[a])
    BY <1>1 DEF SoundPlan, Sound, PlanningAskOK, ScalingFactor, Ask
  <2>2. r.ask[a] \in Int /\ r.ask[a] > 0
    BY <2>1, PlanningAssumption DEF Positive, Finite
  <2>3. Policy.max[a] \in Int /\ ~(r.ask[a] > Policy.max[a])
    BY <1>2, PlanningAssumption DEF Exceeded, Limit
  <2>. QED BY <2>2, <2>3
<1>4. ~Unlisted(r.goal.group, Policy.groups)
  BY <1>2 DEF GroupFindings, Finding
<1>5. r.goal.kind = "pose" => ~OutsideWorkspace(Policy, r.goal.pose.point)
  BY <1>2 DEF Finding
<1>6. StoredPlanFindings(Policy, k) = {}
  <2>1. k.policy = Policy.id /\ k.revision # <<>> /\ k.group = r.goal.group
    BY <1>1, PlanningAssumption DEF SoundPlan, Content
  <2>. QED BY <1>4, <2>1 DEF StoredPlanFindings, GroupFindings, Finding
<1>. QED BY <1>1, <1>3, <1>4, <1>5, <1>6

\* A path that is reported is complete and can be followed
\* (evaluate_cartesian_result, CartesianPathResult, Trajectory).
LEMMA PathIsSound ==
  ASSUME NEW result \in RuntimeError \cup {CartesianResult(a) : a \in PathAnswer},
         PathReply(result).status = "success"
  PROVE  SoundReport(PathReply(result).value)
<1>1. result.ok /\ Allowed(PathFindings(Policy, result.value.fraction))
  BY DEF PathReply, Failed
<1>2. PICK a \in PathAnswer : result = CartesianResult(a)
  BY <1>1 DEF RuntimeError, Error
<1>3. PICK path : path = FromTrajectory(a.trajectory)
  OBVIOUS
<1>4. PICK v : v = [fraction |-> a.fraction,
                    trajectory |-> IF path.points = <<>> THEN None ELSE path]
  OBVIOUS
<1>5. /\ path.points # <<>> => TrajectoryOK(path)
      /\ CartesianResultOK(v)
      /\ result.value = v
  BY <1>1, <1>2, <1>3, <1>4 DEF CartesianResult, Answered, Error, Value
<1>6. v.fraction \in Int /\ v.fraction >= Policy.minFraction /\ v.fraction > 0
  <2>1. v.fraction \in Int
    <3>1. v.fraction \in Fraction
      BY <1>2, <1>4 DEF PathAnswer
    <3>2. v.fraction # NotFinite
      BY <1>5 DEF CartesianResultOK, NonNegative, Finite
    <3>. QED BY <3>1, <3>2, PlanningAssumption
  <2>2. ~(v.fraction < Policy.minFraction)
    BY <1>1, <1>5 DEF Allowed, PathFindings, Finding
  <2>. QED BY <2>1, <2>2, PlanningAssumption DEF PolicyOK
<1>7. v.trajectory # None /\ TrajectoryOK(v.trajectory)
  BY <1>4, <1>5, <1>6 DEF CartesianResultOK
<1>8. PathReply(result).value = v
  BY <1>1, <1>5 DEF PathReply, Succeeded
<1>. QED BY <1>6, <1>7, <1>8 DEF SoundReport

-----------------------------------------------------------------------------
(* The steps. *)

\* Whatever the tools do, the registry does one of its own steps.
LEMMA RegistrySteps ==
  ASSUME [Next]_allVars
  PROVE  [PlanNext]_planVars
BY DEF Next, AskPlan, SceneAnswered, PlanAnswered, Keep, AskPath, PathAnswered,
       Validate, DiscardPlan, Elsewhere, PlanNext, allVars, planVars

\* Only storing issues an identifier.
LEMMA OthersIssueNothing ==
  ASSUME [PlanNext]_planVars, ~Store
  PROVE  issued' = issued
BY DEF PlanNext, StoreRefused, Lookup, Discard, Reserve, Release, Consume, Tick,
       planVars

\* A step of one caller that stores nothing leaves what was known of the
\* others, and of every plan.
LEMMA OthersStay ==
  ASSUME PlanningInv, NEW c \in Client, PlanTypeOK',
         UNCHANGED <<issued, content>>,
         NEW stage \in {"idle", "scene", "planning", "path"},
         pc' = [pc EXCEPT ![c] = stage],
         NEW v, call' = [call EXCEPT ![c] = v],
         NEW n \in Revision \cup {None}, revision' = [revision EXCEPT ![c] = n],
         NEW r, reply' = [reply EXCEPT ![c] = r],
         Underway(c)', Told(c)', ~SucceededAt(c, "plan")'
  PROVE  PlanningInv'
<1>1. ToolsTyped'
  BY DEF PlanningInv, ToolsTyped
<1>2. ASSUME NEW d \in Client, d # c
      PROVE  /\ Underway(d)' /\ Told(d)'
             /\ call'[d] = call[d] /\ reply'[d] = reply[d]
  BY <1>2 DEF PlanningInv, ToolsTyped, Underway, Told, SucceededAt
<1>3. \A d \in Client : Underway(d)' /\ Told(d)'
  BY <1>2
<1>4. \A p \in PlanId : Shelved(p)'
  BY DEF PlanningInv, Shelved
<1>5. NoneTwice'
  BY <1>2 DEF PlanningInv, NoneTwice, SucceededAt
<1>. QED BY <1>1, <1>3, <1>4, <1>5 DEF PlanningInv

\* A call begins: it is judged, and goes on if it is sound, or fails or raises.
LEMMA AskKeeps ==
  ASSUME PlanningInv, NEW c \in Client,
         \/ \E r \in Request : AskPlan(c, r)
         \/ \E r \in Path : AskPath(c, r)
  PROVE  PlanningInv'
<1>1. PlanTypeOK' /\ UNCHANGED <<issued, content>> /\ pc[c] = "idle"
  BY DEF AskPlan, AskPath, PlanningInv, planVars, PlanTypeOK, Shaped
<1>2. revision[c] = None
  BY <1>1 DEF PlanningInv, Underway
<1>3. PICK stage, v, r :
        /\ stage \in {"idle", "scene", "path"} /\ v \in Calls
        /\ pc' = [pc EXCEPT ![c] = stage]
        /\ call' = [call EXCEPT ![c] = v]
        /\ reply' = [reply EXCEPT ![c] = r]
        /\ r.status \in {"none", "error", "raised"}
        /\ stage = "scene" => v.tool = "plan" /\ Sound(v.on)
        /\ stage = "path" => v.tool = "path" /\ SoundPath(v.on)
        /\ revision' = [revision EXCEPT ![c] = None]
  <2>1. revision = [revision EXCEPT ![c] = None]
    BY <1>2 DEF PlanningInv, ToolsTyped
  <2>2. CASE \E q \in Request : AskPlan(c, q)
    <3>1. PICK q \in Request : AskPlan(c, q)
      BY <2>2
    <3>2. [tool |-> "plan", on |-> q] \in Calls
      BY DEF Calls
    <3>3. CASE ~Parsed(q)
      BY <3>1, <3>2, <3>3 DEF AskPlan, Called, End, Failed
    <3>4. CASE Parsed(q) /\ ~PlanningAskOK(q.ask)
      BY <3>1, <3>2, <3>4 DEF AskPlan, Called, End, Raised
    <3>5. CASE Parsed(q) /\ PlanningAskOK(q.ask) /\ ~Approved(q)
      BY <3>1, <3>2, <3>5 DEF AskPlan, Called, End, Failed
    <3>6. CASE Parsed(q) /\ PlanningAskOK(q.ask) /\ Approved(q)
      BY <2>1, <3>1, <3>2, <3>6 DEF AskPlan, Called, Goto, NoReply, Sound
    <3>. QED BY <3>3, <3>4, <3>5, <3>6
  <2>3. CASE \E q \in Path : AskPath(c, q)
    <3>1. PICK q \in Path : AskPath(c, q)
      BY <2>3
    <3>2. [tool |-> "path", on |-> q] \in Calls
      BY DEF Calls
    <3>3. CASE ~SoundPath(q)
      BY <3>1, <3>2, <3>3 DEF AskPath, Called, End, Failed, SoundPath
    <3>4. CASE SoundPath(q)
      BY <2>1, <3>1, <3>2, <3>4 DEF AskPath, Called, Goto, NoReply, SoundPath
    <3>. QED BY <3>3, <3>4
  <2>. QED BY <2>2, <2>3
<1>4. /\ pc'[c] = stage /\ call'[c] = v /\ reply'[c] = r /\ revision'[c] = None
  BY <1>3 DEF PlanningInv, ToolsTyped
<1>5. Underway(c)' /\ Told(c)' /\ ~SucceededAt(c, "plan")'
  BY <1>3, <1>4 DEF Underway, Told, SucceededAt
<1>. QED BY <1>1, <1>3, <1>5, OthersStay

\* A call goes on from an answer, or is over, and stores nothing.
LEMMA AnswersKeep ==
  ASSUME PlanningInv, NEW c \in Client, SceneAnswered(c) \/ PathAnswered(c)
  PROVE  PlanningInv'
<1>1. /\ PlanTypeOK' /\ UNCHANGED <<issued, content>>
      /\ call' = [call EXCEPT ![c] = call[c]]
  BY DEF SceneAnswered, PathAnswered, PlanningInv, ToolsTyped, planVars,
         PlanTypeOK
<1>2. ASSUME NEW stage \in {"idle", "planning"}, NEW n \in Revision \cup {None},
             NEW r,
             pc' = [pc EXCEPT ![c] = stage],
             revision' = [revision EXCEPT ![c] = n],
             reply' = [reply EXCEPT ![c] = r],
             n # None <=> stage = "planning",
             stage = "planning" => pc[c] = "scene",
             r.status \in {"none", "error", "success"},
             r.status = "success" =>
               /\ call[c].tool = "path" /\ SoundPath(call[c].on)
               /\ SoundReport(r.value)
      PROVE  PlanningInv'
  <2>1. /\ pc'[c] = stage /\ call'[c] = call[c] /\ reply'[c] = r
        /\ revision'[c] = n
    BY <1>1, <1>2 DEF PlanningInv, ToolsTyped
  <2>2. Underway(c)'
    BY <1>2, <2>1 DEF PlanningInv, Underway
  <2>3. Told(c)' /\ ~SucceededAt(c, "plan")'
    BY <1>2, <2>1 DEF Told, SucceededAt
  <2>. QED BY <1>1, <1>2, <2>2, <2>3, OthersStay
<1>3. CASE SceneAnswered(c)
  <2>1. CASE \E e \in RuntimeError : End(c, Failed(e.code))
    <3>1. PICK r : End(c, r) /\ r.status = "error"
      BY <2>1 DEF Failed
    <3>2. /\ pc' = [pc EXCEPT ![c] = "idle"]
          /\ reply' = [reply EXCEPT ![c] = r]
          /\ revision' = [revision EXCEPT ![c] = None]
      BY <3>1 DEF End
    <3>. QED BY <1>2, <3>1, <3>2
  <2>2. CASE \E n \in Revision :
               revision' = [revision EXCEPT ![c] = n] /\ Goto(c, "planning")
    <3>1. PICK n \in Revision : revision' = [revision EXCEPT ![c] = n]
      BY <2>2
    <3>2. PICK r : r = NoReply
      OBVIOUS
    <3>3. /\ pc' = [pc EXCEPT ![c] = "planning"]
          /\ reply' = [reply EXCEPT ![c] = r]
          /\ pc[c] = "scene"
      BY <1>3, <2>2, <3>2 DEF Goto, SceneAnswered
    <3>4. n # None /\ r.status = "none"
      BY <3>2, PlanningAssumption DEF NoReply
    <3>. QED BY <1>2, <3>1, <3>3, <3>4
  <2>. QED BY <1>3, <2>1, <2>2 DEF SceneAnswered
<1>4. CASE PathAnswered(c)
  <2>1. PICK result \in RuntimeError \cup {CartesianResult(a) : a \in PathAnswer} :
          End(c, PathReply(result))
    BY <1>4 DEF PathAnswered
  <2>2. PICK r : r = PathReply(result)
    OBVIOUS
  <2>3. r.status \in {"error", "success"}
    BY <2>2 DEF PathReply, Failed, Succeeded
  <2>4. r.status = "success" =>
          /\ call[c].tool = "path" /\ SoundPath(call[c].on)
          /\ SoundReport(r.value)
    BY <1>4, <2>2, PathIsSound DEF PathAnswered, PlanningInv, Underway
  <2>5. /\ pc' = [pc EXCEPT ![c] = "idle"]
        /\ reply' = [reply EXCEPT ![c] = r]
        /\ revision' = [revision EXCEPT ![c] = None]
    BY <2>1, <2>2 DEF End
  <2>. QED BY <1>2, <2>3, <2>4, <2>5
<1>. QED BY <1>3, <1>4

\* A stored plan is looked up or discarded.
LEMMA LookingKeeps ==
  ASSUME PlanningInv, NEW c \in Client, NEW p \in PlanId,
         Validate(c, p) \/ DiscardPlan(c, p)
  PROVE  PlanningInv'
<1>1. PlanTypeOK' /\ UNCHANGED <<issued, content>> /\ pc[c] = "idle"
  <2>1. Lookup \/ Discard(p)
    BY DEF Validate, DiscardPlan
  <2>2. PlanTypeOK'
    BY <2>1, LookupType, DiscardType DEF PlanningInv
  <2>. QED BY <2>1, <2>2 DEF Validate, DiscardPlan, Lookup, Discard
<1>2. PICK v \in Calls :
        /\ v.tool \in {"validate", "discard"}
        /\ call' = [call EXCEPT ![c] = v]
  <2>1. /\ [tool |-> "validate", on |-> p] \in Calls
        /\ [tool |-> "discard", on |-> p] \in Calls
    BY DEF Calls
  <2>. QED BY <2>1 DEF Validate, DiscardPlan, Called
<1>3. PICK r : End(c, r) /\ r.status \in {"error", "success"}
  BY DEF Validate, DiscardPlan, Failed, Succeeded
<1>4. /\ pc' = [pc EXCEPT ![c] = "idle"]
      /\ revision' = [revision EXCEPT ![c] = None]
      /\ reply' = [reply EXCEPT ![c] = r]
  BY <1>3 DEF End
<1>5. /\ pc'[c] = "idle" /\ call'[c] = v /\ reply'[c] = r /\ revision'[c] = None
  BY <1>2, <1>4 DEF PlanningInv, ToolsTyped
<1>6. Underway(c)' /\ Told(c)' /\ ~SucceededAt(c, "plan")'
  BY <1>2, <1>3, <1>5 DEF Underway, Told, SucceededAt
<1>. QED BY <1>1, <1>2, <1>4, <1>6, OthersStay

\* A plan is stored, and its caller told.
LEMMA StoringKeeps ==
  ASSUME PlanningInv, NEW c \in Client,
         NEW t \in {FromTrajectory(m) : m \in Planned},
         pc[c] = "planning", EndsAt(call[c].on.goal, t),
         Store, UNCHANGED call,
         content' = [content EXCEPT ![issued'] = PlanOf(c, t)],
         End(c, Succeeded(issued'))
  PROVE  PlanningInv'
<1>1. PlanTypeOK' /\ issued' = issued + 1 /\ issued \in Nat
      /\ issued' \in PlanId /\ issued' \notin 1..issued
  <2>1. PlanTypeOK'
    BY StoreType DEF PlanningInv
  <2>2. issued \in 0..MaxIssue /\ issued < MaxIssue /\ issued' = issued + 1
    BY DEF Store, PlanningInv, PlanTypeOK
  <2>. QED BY <2>1, <2>2, IdentifierAssumption DEF PlanId
<1>2. /\ call[c].tool = "plan" /\ Sound(call[c].on) /\ revision[c] \in Revision
  BY DEF PlanningInv, ToolsTyped, Underway
<1>3. PICK k : /\ k = PlanOf(c, t) /\ SoundPlan(k) /\ k.request = call[c].on
  BY <1>2, PlanIsSound
<1>4. /\ \A p \in PlanId : p # issued' => content'[p] = content[p]
      /\ content'[issued'] = k
      /\ content' = [p \in PlanId |-> content'[p]]
  BY <1>1, <1>3 DEF PlanningInv, ToolsTyped
<1>5. PICK r : r = Succeeded(issued')
  OBVIOUS
<1>6. r.status = "success" /\ r.value = issued'
  BY <1>5 DEF Succeeded
<1>7. /\ pc' = [pc EXCEPT ![c] = "idle"]
      /\ reply' = [reply EXCEPT ![c] = r]
      /\ revision' = [revision EXCEPT ![c] = None]
  BY <1>5 DEF End
<1>8. ToolsTyped'
  BY <1>4, <1>7 DEF PlanningInv, ToolsTyped
<1>9. \A p \in PlanId : Shelved(p)'
  <2>1. SUFFICES ASSUME NEW p \in PlanId PROVE Shelved(p)'
    OBVIOUS
  <2>2. p \in Nat
    BY DEF PlanId
  <2>. QED BY <1>1, <1>3, <1>4, <2>2 DEF PlanningInv, Shelved
<1>10. /\ pc'[c] = "idle" /\ reply'[c] = r /\ revision'[c] = None
       /\ \A d \in Client : d # c =>
            /\ pc'[d] = pc[d] /\ reply'[d] = reply[d]
            /\ revision'[d] = revision[d]
  BY <1>7 DEF PlanningInv, ToolsTyped
<1>11. ASSUME NEW d \in Client PROVE Underway(d)'
  BY <1>10 DEF PlanningInv, Underway
<1>12. ASSUME NEW d \in Client, d # c, SucceededAt(d, "plan")
       PROVE  /\ reply[d].value \in 1..issued /\ reply[d].value \in 1..issued'
              /\ reply[d].value \in PlanId /\ reply[d].value # issued'
              /\ content[reply[d].value].request = call[d].on
  <2>1. /\ reply[d].value \in 1..issued
        /\ content[reply[d].value].request = call[d].on
    BY <1>12 DEF PlanningInv, Told
  <2>2. PICK v : v = reply[d].value
    OBVIOUS
  <2>3. v \in 1..issued' /\ v # issued' /\ v \in PlanId
    BY <1>1, <2>1, <2>2, IdentifierAssumption DEF PlanId
  <2>. QED BY <2>1, <2>2, <2>3
<1>13. ASSUME NEW d \in Client PROVE Told(d)'
  <2>1. CASE d = c
    <3>1. issued' \in 1..issued'
      BY <1>1
    <3>. QED BY <1>2, <1>3, <1>4, <1>6, <1>10, <2>1, <3>1 DEF Told, SucceededAt
  <2>2. CASE d # c
    <3>1. SucceededAt(d, "plan") =>
            content'[reply[d].value].request = call[d].on
      BY <1>4, <1>12, <2>2
    <3>. QED BY <1>10, <1>12, <2>2, <3>1 DEF PlanningInv, Told, SucceededAt
  <2>. QED BY <2>1, <2>2
<1>14. NoneTwice'
  <2>1. SUFFICES ASSUME NEW d \in Client, NEW e \in Client, d # e,
                        SucceededAt(d, "plan")', SucceededAt(e, "plan")'
                 PROVE  reply'[e].value # reply'[d].value
    BY DEF NoneTwice
  <2>2. CASE d # c /\ e # c
    BY <1>10, <2>1, <2>2 DEF PlanningInv, NoneTwice, SucceededAt
  <2>3. CASE d = c \/ e = c
    BY <1>6, <1>10, <1>12, <2>1, <2>3 DEF SucceededAt
  <2>. QED BY <2>2, <2>3
<1>. QED BY <1>1, <1>8, <1>9, <1>11, <1>13, <1>14 DEF PlanningInv

\* The planner's answer: a plan is stored, or there is none.
LEMMA PlanAnswerKeeps ==
  ASSUME PlanningInv, NEW c \in Client, PlanAnswered(c)
  PROVE  PlanningInv'
<1>1. /\ pc[c] = "planning" /\ call[c].on \in Request
      /\ call' = [call EXCEPT ![c] = call[c]]
  BY DEF PlanAnswered, PlanningInv, ToolsTyped, Underway, Sound
<1>2. PICK result \in RuntimeError
                   \cup {PlanResult(a) : a \in PlanAnswer(PlanRequest(call[c].on))} :
        IF result.ok THEN Keep(c, result.value)
        ELSE End(c, Failed(result.code)) /\ UNCHANGED <<planVars, content>>
  BY DEF PlanAnswered
<1>3. ASSUME NEW r, End(c, r), r.status \in {"error", "raised"}, PlanTypeOK',
             UNCHANGED <<issued, content>>
      PROVE  PlanningInv'
  <2>1. /\ pc' = [pc EXCEPT ![c] = "idle"]
        /\ reply' = [reply EXCEPT ![c] = r]
        /\ revision' = [revision EXCEPT ![c] = None]
    BY <1>3 DEF End
  <2>2. /\ pc'[c] = "idle" /\ reply'[c] = r /\ revision'[c] = None
        /\ call'[c] = call[c]
    BY <1>1, <2>1 DEF PlanningInv, ToolsTyped
  <2>3. Underway(c)' /\ Told(c)' /\ ~SucceededAt(c, "plan")'
    BY <1>3, <2>2 DEF PlanningInv, Underway, Told, SucceededAt
  <2>. QED BY <1>1, <1>3, <2>1, <2>3, OthersStay
<1>4. CASE ~result.ok
  <2>1. PICK r : End(c, r) /\ r.status = "error"
    BY <1>2, <1>4 DEF Failed
  <2>2. PlanTypeOK' /\ UNCHANGED <<issued, content>>
    BY <1>2, <1>4 DEF planVars, PlanningInv, PlanTypeOK
  <2>. QED BY <1>3, <2>1, <2>2
<1>5. CASE result.ok
  <2>1. PICK a \in PlanAnswer(PlanRequest(call[c].on)) : result = PlanResult(a)
    BY <1>2, <1>5 DEF RuntimeError, Error
  <2>2. /\ result.value \in {FromTrajectory(m) : m \in Planned}
        /\ EndsAt(call[c].on.goal, result.value)
    BY <1>1, <1>5, <2>1, PlanArrives
  <2>3. CASE StoreRefused /\ End(c, Raised) /\ UNCHANGED content
    <3>1. Raised.status = "raised"
      BY DEF Raised
    <3>2. PlanTypeOK' /\ issued' = issued
      BY <2>3, LookupType DEF StoreRefused, PlanningInv
    <3>. QED BY <1>3, <2>3, <3>1, <3>2
  <2>4. CASE /\ Store
             /\ content' = [content EXCEPT ![issued'] = PlanOf(c, result.value)]
             /\ End(c, Succeeded(issued'))
    <3>1. call' = call
      BY DEF PlanAnswered
    <3>. QED BY <1>1, <2>2, <2>4, <3>1, StoringKeeps
  <2>. QED BY <1>2, <1>5, <2>3, <2>4 DEF Keep
<1>. QED BY <1>4, <1>5

\* Executions take plans and time passes: no plan changes under a caller.
LEMMA ElsewhereKeeps ==
  ASSUME PlanningInv, Elsewhere \/ UNCHANGED allVars
  PROVE  PlanningInv'
<1>1. UNCHANGED toolVars
  BY DEF Elsewhere, allVars, toolVars
<1>2. PlanTypeOK' /\ issued' = issued
  <2>1. [PlanNext]_planVars /\ (Elsewhere => ~Store)
    <3>1. Elsewhere => issued' = issued
      BY DEF Elsewhere, Reserve, Release, Consume, Tick
    <3>2. Store => issued' # issued
      BY DEF Store, PlanningInv, PlanTypeOK
    <3>3. [PlanNext]_planVars
      BY DEF Elsewhere, PlanNext, allVars, planVars
    <3>. QED BY <3>1, <3>2, <3>3
  <2>2. issued' = issued
    BY <2>1, OthersIssueNothing DEF allVars, planVars
  <2>. QED BY <2>1, <2>2, PlanNextType DEF PlanningInv
<1>. QED BY <1>1, <1>2
         DEF PlanningInv, toolVars, ToolsTyped, Underway, Told, SucceededAt,
             Shelved, NoneTwice

\* Every step keeps what was judged.
LEMMA PlanningStep == PlanningInv /\ [Next]_allVars => PlanningInv'
<1>. SUFFICES ASSUME PlanningInv, [Next]_allVars PROVE PlanningInv'
  OBVIOUS
<1>1. CASE Elsewhere \/ UNCHANGED allVars
  BY <1>1, ElsewhereKeeps
<1>2. ASSUME NEW c \in Client,
             \/ \E r \in Request : AskPlan(c, r)
             \/ SceneAnswered(c)
             \/ PlanAnswered(c)
             \/ \E r \in Path : AskPath(c, r)
             \/ PathAnswered(c)
             \/ \E p \in PlanId : Validate(c, p) \/ DiscardPlan(c, p)
      PROVE  PlanningInv'
  BY <1>2, AskKeeps, AnswersKeep, PlanAnswerKeeps, LookingKeeps
<1>. QED BY <1>1, <1>2 DEF Next

\* Nothing is known to begin with.
LEMMA PlanningBegins == Init => PlanningInv
<1>. SUFFICES ASSUME Init PROVE PlanningInv
  OBVIOUS
<1>1. PlanTypeOK /\ issued = 0
  BY PlanInitType DEF Init, PlanInit
<1>2. \A c \in Client :
        /\ pc[c] = "idle" /\ call[c] = NoCall /\ revision[c] = None
        /\ reply[c] = NoReply
  BY DEF Init
<1>3. ToolsTyped
  BY DEF Init, ToolsTyped
<1>4. \A c \in Client : Underway(c) /\ Told(c)
  BY <1>2 DEF Underway, Told, SucceededAt, Calls, NoCall, NoReply
<1>5. \A p \in PlanId : Shelved(p)
  BY <1>1, IdentifierAssumption DEF Init, Shelved, PlanId
<1>6. NoneTwice
  BY <1>2 DEF NoneTwice, SucceededAt, NoReply
<1>. QED BY <1>1, <1>3, <1>4, <1>5, <1>6 DEF PlanningInv

-----------------------------------------------------------------------------
(* Theorems. *)

\* What was judged of a request, of MoveIt's answer and of a path stays with
\* the call and with the plan: the inductive invariant of the planning tools.
THEOREM PlanningInvariant == Spec => []PlanningInv
BY PlanningBegins, PlanningStep, PTL DEF Spec

\* A client that is told of a plan has one that does what it asked for, and
\* that no other call was told of; every stored plan ends where its request
\* asked (plan_motion, to_goal_constraints, from_trajectory_message, store).
THEOREM PlansDoWhatWasAsked == Spec => []PlansServeTheirRequests
<1>1. PlanningInv => PlansServeTheirRequests
  <2>. SUFFICES ASSUME PlanningInv PROVE PlansServeTheirRequests
    OBVIOUS
  <2>1. ToolTypeOK
    <3>1. ASSUME NEW c \in Client
          PROVE  /\ call[c].tool = "plan" => call[c].on \in Request
                 /\ call[c].tool = "path" => call[c].on \in Path
                 /\ call[c].tool \in {"validate", "discard"}
                      => call[c].on \in PlanId
      <4>1. call[c] \in Calls
        BY DEF PlanningInv, Underway
      <4>. QED BY <4>1 DEF Calls, NoCall
    <3>2. ASSUME NEW c \in Client
          PROVE  /\ revision[c] # None <=> pc[c] = "planning"
                 /\ revision[c] \in Revision \cup {None}
                 /\ reply[c].status \in {"none", "success", "error", "raised"}
      BY DEF PlanningInv, ToolsTyped, Underway, Told
    <3>3. ASSUME NEW p \in PlanId
          PROVE  content[p] # None <=> p <= issued
      BY PlanningAssumption DEF PlanningInv, Shelved, SoundPlan
    <3>. QED BY <3>1, <3>2, <3>3 DEF PlanningInv, ToolsTyped, ToolTypeOK
  <2>2. \A p \in 1..issued : SoundPlan(content[p])
    BY IdentifierAssumption DEF PlanningInv, Shelved, PlanTypeOK, PlanId
  <2>3. PlansReachTheirGoals
    BY <2>2 DEF PlansReachTheirGoals, SoundPlan, EndsAt
  <2>4. EachSuccessItsPlan
    BY DEF PlanningInv, Told, NoneTwice, EachSuccessItsPlan
  <2>. QED BY <2>1, <2>3, <2>4 DEF PlansServeTheirRequests
<1>. QED BY <1>1, PlanningInvariant, PTL

\* Nothing that is stored asks for more than the policy gives, stored plans
\* stay approved, and a path that is reported is complete, can be followed and
\* avoids collisions if it must (evaluate_planning_request,
\* evaluate_stored_plan, evaluate_cartesian_result).
THEOREM ThePolicyIsKept == Spec => []PolicyIsKept
<1>1. PlanningInv => PolicyIsKept
  <2>. SUFFICES ASSUME PlanningInv PROVE PolicyIsKept
    OBVIOUS
  <2>1. \A p \in 1..issued : SoundPlan(content[p])
    BY IdentifierAssumption DEF PlanningInv, Shelved, PlanTypeOK, PlanId
  <2>2. PlansStayApproved
    BY <2>1, SoundIsWithin DEF PlansStayApproved
  <2>3. PathsAreComplete
    <3>1. SUFFICES ASSUME NEW c \in Client, SucceededAt(c, "path")
                   PROVE  /\ reply[c].value.fraction >= Policy.minFraction
                          /\ reply[c].value.trajectory # None
                          /\ TrajectoryOK(reply[c].value.trajectory)
                          /\ Policy.mustAvoid => call[c].on.avoid
                          /\ OneFrame(call[c].on)
      BY DEF PathsAreComplete, OneFrame
    <3>2. SoundPath(call[c].on) /\ SoundReport(reply[c].value)
      BY <3>1 DEF PlanningInv, Told
    <3>3. Policy.mustAvoid => call[c].on.avoid
      BY <3>2 DEF SoundPath, Allowed, CartesianFindings, Finding
    <3>. QED BY <3>2, <3>3 DEF SoundPath, SoundReport
  <2>. QED BY <2>2, <2>3 DEF PolicyIsKept
<1>. QED BY <1>1, PlanningInvariant, PTL

\* An identifier is issued exactly when a call is told of it, and with that
\* call's request and its reading of the scene: a call that fails leaves no
\* plan behind (plan_motion, store).
THEOREM StoredPlansAreTold == Spec => StoredIsTold
<1>1. ASSUME PlanningInv, [Next]_allVars
      PROVE  /\ issued' # issued => \E c \in Client : ToldOfItsPlan(c)
             /\ \A c \in Client :
                  pc[c] = "planning" /\ pc'[c] = "idle"
                  /\ reply'[c].status = "success" => issued' # issued
  <2>. DEFINE Ends(c) ==
                /\ pc[c] = "planning" /\ pc'[c] = "idle"
                /\ reply'[c].status = "success"
  <2>0. [PlanNext]_planVars
    BY <1>1, RegistrySteps
  <2>1. ASSUME NEW c \in Client, PlanAnswered(c)
        PROVE  /\ issued' # issued => \E d \in Client : ToldOfItsPlan(d)
               /\ \A d \in Client : Ends(d) => issued' # issued
    <3>1. ASSUME NEW r, End(c, r)
          PROVE  /\ pc'[c] = "idle" /\ reply'[c] = r
                 /\ \A d \in Client : d # c => pc'[d] = pc[d]
      BY <1>1, <3>1 DEF End, PlanningInv, ToolsTyped
    <3>2. pc[c] = "planning"
      BY <2>1 DEF PlanAnswered
    <3>3. ASSUME NEW t, Store, End(c, Succeeded(issued')),
                 content' = [content EXCEPT ![issued'] = PlanOf(c, t)]
          PROVE  issued' # issued /\ ToldOfItsPlan(c)
      <4>1. issued' # issued /\ issued' \in PlanId
        <5>1. issued' = issued + 1 /\ issued < MaxIssue
          BY <3>3 DEF Store
        <5>2. issued \in 0..MaxIssue /\ MaxIssue \in Nat
          BY <1>1, IdentifierAssumption DEF PlanningInv, PlanTypeOK
        <5>. QED BY <5>1, <5>2 DEF PlanId
      <4>2. content'[issued'] = PlanOf(c, t)
        BY <1>1, <3>3, <4>1 DEF PlanningInv, ToolsTyped
      <4>. QED BY <3>1, <3>2, <3>3, <4>1, <4>2 DEF ToldOfItsPlan, PlanOf
    <3>4. CASE issued' = issued /\ \E r : End(c, r) /\ r.status # "success"
      <4>1. PICK r : End(c, r) /\ r.status # "success"
        BY <3>4
      <4>2. \A d \in Client : ~Ends(d)
        BY <3>1, <4>1
      <4>. QED BY <3>4, <4>2
    <3>5. \/ \E t : /\ Store /\ End(c, Succeeded(issued'))
                    /\ content' = [content EXCEPT ![issued'] = PlanOf(c, t)]
          \/ issued' = issued /\ \E r : End(c, r) /\ r.status # "success"
      <4>1. Raised.status # "success" /\ \A x : Failed(x).status # "success"
        BY DEF Raised, Failed
      <4>. QED BY <2>1, <4>1 DEF PlanAnswered, Keep, StoreRefused, planVars
    <3>. QED BY <3>3, <3>4, <3>5
  <2>2. CASE ~\E c \in Client : PlanAnswered(c)
    <3>1. issued' = issued
      BY <1>1, <2>2
      DEF Next, AskPlan, SceneAnswered, AskPath, PathAnswered, Validate, Lookup,
          DiscardPlan, Discard, Elsewhere, Reserve, Release, Consume, Tick,
          allVars, planVars
    <3>2. \A d \in Client : pc[d] = "planning" => pc'[d] = "planning"
      BY <1>1, <2>2
      DEF Next, AskPlan, SceneAnswered, AskPath, PathAnswered, Validate,
          DiscardPlan, Elsewhere, End, Goto, allVars, toolVars, PlanningInv,
          ToolsTyped
    <3>. QED BY <3>1, <3>2
  <2>. QED BY <2>1, <2>2
<1>. QED BY <1>1, PlanningInvariant, PTL DEF Spec, StoredIsTold

\* A tool raises, instead of answering with a code, in two cases and no other:
\* the numbers of a planning request cannot be, or every slot of the registry
\* is reserved when the plan is there.
EscapesAreKnown ==
  [][\A c \in Client :
       reply'[c] = Raised /\ reply[c] # Raised =>
         \/ pc[c] = "idle" /\ Parsed(call'[c].on) /\ ~PlanningAskOK(call'[c].on.ask)
         \/ pc[c] = "planning" /\ \A p \in Stored(Live) :
                                    plans[p].state = "reserved"]_allVars

\* What breaks FailuresAreStructured is the constructor of PlanningRequest and
\* the registry's store, and nothing else; and the registry of a server with
\* more than one slot does not (StoreFindsRoom in ExecutionWorkflowProofs).
THEOREM EscapesAreTheKnownOnes == Spec => EscapesAreKnown
<1>1. ASSUME PlanningInv, [Next]_allVars, NEW c \in Client,
             reply'[c] = Raised, reply[c] # Raised
      PROVE  \/ /\ pc[c] = "idle"
                /\ Parsed(call'[c].on) /\ ~PlanningAskOK(call'[c].on.ask)
             \/ /\ pc[c] = "planning"
                /\ \A p \in Stored(Live) : plans[p].state = "reserved"
  <2>1. /\ Raised.status = "raised"
        /\ \A x : Failed(x).status = "error" /\ Succeeded(x).status = "success"
        /\ NoReply.status = "none"
    BY DEF Raised, Failed, Succeeded, NoReply
  <2>2. ASSUME NEW d \in Client, NEW r, reply' = [reply EXCEPT ![d] = r]
        PROVE  d = c /\ r = Raised
    BY <1>1, <2>2 DEF PlanningInv, ToolsTyped
  <2>3. ASSUME NEW d \in Client, NEW r, End(d, r)
        PROVE  d = c /\ r = Raised
    BY <2>2, <2>3 DEF End
  <2>4. \A d \in Client : \A stage : ~Goto(d, stage)
    BY <2>1, <2>2 DEF Goto
  <2>5. ASSUME NEW d \in Client, NEW x
        PROVE  ~End(d, Failed(x)) /\ ~End(d, Succeeded(x))
    BY <2>1, <2>3
  <2>6. ASSUME NEW d \in Client, NEW r \in Request, AskPlan(d, r)
        PROVE  /\ pc[c] = "idle"
               /\ Parsed(call'[c].on) /\ ~PlanningAskOK(call'[c].on.ask)
    <3>1. Parsed(r) /\ ~PlanningAskOK(r.ask) /\ End(d, Raised) /\ pc[d] = "idle"
      BY <2>4, <2>5, <2>6 DEF AskPlan
    <3>2. d = c
      BY <2>3, <3>1
    <3>3. call'[c].on = r
      BY <1>1, <2>6, <3>2 DEF AskPlan, Called, PlanningInv, ToolsTyped
    <3>. QED BY <3>1, <3>2, <3>3
  <2>7. ASSUME NEW d \in Client, PlanAnswered(d)
        PROVE  /\ pc[c] = "planning"
               /\ \A p \in Stored(Live) : plans[p].state = "reserved"
    <3>1. StoreRefused /\ End(d, Raised) /\ pc[d] = "planning"
      BY <2>5, <2>7 DEF PlanAnswered, Keep
    <3>2. d = c
      BY <2>3, <3>1
    <3>3. Evictable(Live) = {}
      BY <3>1 DEF StoreRefused, CapacityReserved
    <3>4. ASSUME NEW p \in Stored(Live) PROVE plans[p].state = "reserved"
      BY <3>3, LiveKeepsOrDrops DEF Evictable, Stored
    <3>. QED BY <3>1, <3>2, <3>4
  <2>8. ASSUME NEW d \in Client, PathAnswered(d) PROVE FALSE
    BY <2>5, <2>8 DEF PathAnswered, PathReply
  <2>9. ASSUME NEW d \in Client,
               \/ SceneAnswered(d)
               \/ \E r \in Path : AskPath(d, r)
        PROVE  FALSE
    BY <2>4, <2>5, <2>9 DEF SceneAnswered, AskPath
  <2>10. ASSUME NEW d \in Client, NEW p \in PlanId,
                Validate(d, p) \/ DiscardPlan(d, p)
         PROVE  FALSE
    BY <2>5, <2>10 DEF Validate, DiscardPlan
  <2>11. ~(Elsewhere \/ UNCHANGED allVars)
    BY <1>1 DEF Elsewhere, toolVars, allVars
  <2>. QED BY <1>1, <2>6, <2>7, <2>8, <2>9, <2>10, <2>11 DEF Next
<1>2. PlanningInv /\ [Next]_allVars =>
        [\A c \in Client :
           reply'[c] = Raised /\ reply[c] # Raised =>
             \/ pc[c] = "idle" /\ Parsed(call'[c].on)
                  /\ ~PlanningAskOK(call'[c].on.ask)
             \/ pc[c] = "planning" /\ \A p \in Stored(Live) :
                                        plans[p].state = "reserved"]_allVars
  BY <1>1
<1>. QED BY <1>2, PlanningInvariant, PTL DEF Spec, EscapesAreKnown

\* The tools use the registry as PlanRegistry describes it, one operation at a
\* time, with executions that reserve and consume beside them: so what is
\* proved of the registry holds under them (plan_motion, validate_motion_plan,
\* discard_motion_plan).
THEOREM ToolsArePlanSpec == Spec => PlanSpec
<1>1. Init => PlanInit
  BY DEF Init
<1>2. [Next]_allVars => [PlanNext]_planVars
  BY RegistrySteps
<1>. QED BY <1>1, <1>2, PTL DEF Spec, PlanSpec

\* Calls of tools take nothing from the life of a plan that an execution has
\* reserved, and add nothing to it (LifetimeConserved).
THEOREM ToolsConserveLifetime == Spec => []LifetimeConserved
BY ToolsArePlanSpec, LifetimeIsConserved, PTL
=============================================================================
