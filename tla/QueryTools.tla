----------------------------- MODULE QueryTools -----------------------------
(***************************************************************************)
(* The tools and resources that only read (mcp/tools/registration.py,      *)
(* mcp/resources/registration.py) through the service and the adapter:     *)
(* the robot's state, the pose of a link, kinematics, validity, the scene  *)
(* and its objects, the planning groups and the health of the server.      *)
(*                                                                         *)
(* The robot moves and other nodes change the scene while a call is under  *)
(* way, between the two calls get_end_effector_pose makes among others.  A *)
(* message of the robot's state may be as old as it likes, and its stamp   *)
(* by another clock than the adapter's.                                    *)
(* pc[c] names what the call is waiting for.                               *)
(***************************************************************************)
EXTENDS AdapterCalls

CONSTANTS
  Client,    \* callers, each one call at a time
  Joint,     \* the joints of the robot, in the order they are published
  Position,  \* their positions
  Question,  \* what is asked: [tool, ...]
  Scene,     \* the scenes that occur, as sets of messages
  Code,      \* MoveIt error codes that occur
  Skew,      \* how far the robot's clock may be ahead of the adapter's
  GroupName, \* the planning groups of the descriptor
  MaxTime    \* bound: the last instant

VARIABLES
  now,       \* the instant
  course,    \* where the robot has been at each instant: joint -> position
  scene,     \* the scene
  pc,        \* what each call is waiting for
  call,      \* its question
  sampled,   \* the state it has read, for a call that goes on from there
  reply,     \* how the last call ended
  span,      \* history: the instants of the call
  shown      \* history: the scenes there have been since

vars == <<now, course, scene, pc, call, sampled, reply, span, shown>>

-----------------------------------------------------------------------------
(* The robot and MoveIt. *)

Posture == [1..Len(Joint) -> Position]

\* Where the robot is.
robot == course[now]

\* Where it has been since the call began.
been(c) == {course[t] : t \in span[c]}

\* A message of the joint-state topic: all joints at once, and when.
Sample(posture, at) ==
  [names |-> Joint, positions |-> posture, velocities |-> <<>>,
   efforts |-> <<>>, stamp |-> [sec |-> at, nanosec |-> 0]]

\* An instant by the adapter's clock.
Clock(t) == FromDuration([sec |-> t, nanosec |-> 0])

\* What the adapter makes of such messages, read at some instant.
SampledStates ==
  {[FromRobotState(Sample(p, t + s)) EXCEPT !.age = Clock(u) - Clock(t + s)] :
     p \in Posture, t \in 0..MaxTime, u \in 0..MaxTime, s \in Skew}

Tool ==
  {"state", "health", "pose", "fk", "ik", "validity", "scene", "object", "group"}

\* A robot has no two joints of one name, and clocks differ by so much time.
ASSUME QueryAssumption ==
  /\ Joint \in Seq({Joint[i] : i \in DOMAIN Joint})
  /\ \A i, j \in DOMAIN Joint : Joint[i] = Joint[j] => i = j
  /\ Skew \subseteq Int /\ MaxTime \in Nat
  /\ None \notin SampledStates
  /\ \A q \in Question : q.tool \in Tool

\* Where a link is: the sum of the joints before it.
PlaceOf(link, posture) ==
  IF link = <<"tip">> THEN <<posture[1] + posture[2], 0, 0>>
  ELSE <<posture[1], 0, 0>>

FramedPlace(link, posture) ==
  [frame |-> ModelFrame, point |-> PlaceOf(link, posture),
   turn |-> <<0, 0, 0, One>>]

\* The posture of a diff against the one given.
Filled(m, posture) ==
  [i \in 1..Len(Joint) |->
     IF Joint[i] \in {m.names[j] : j \in DOMAIN m.names}
     THEN m.positions[CHOOSE j \in DOMAIN m.names : m.names[j] = Joint[i]]
     ELSE posture[i]]

\* The link alone, among others, and not at all.
FkAnswer(m) ==
  LET link == m.links[1]
      here == FramedPlace(link, Filled(m.state, robot))
      there == FramedPlace(<<"elbow">>, Filled(m.state, robot))
  IN  [code : Code, links : {m.links}, poses : {<<here>>, <<>>}]
        \cup [code : Code, links : {<< <<"elbow">> >> \o m.links},
              poses : {<<there, here>>}]

\* A posture that takes the link there, with the seed's joints.
IkAnswer(m) ==
  {a \in [code : Code, solution : {Sample(p, 0) : p \in Posture}] :
     a.code = "SUCCESS" =>
       PlaceOf(m.link, a.solution.positions) = m.pose.point}

Invalid(posture) == posture[1] = posture[2]

-----------------------------------------------------------------------------
(* Calls. *)

NoCall == [tool |-> "none"]
NoReply == [status |-> "none"]
Succeeded(v) == [status |-> "success", value |-> v]
Failed(code) == [status |-> "error", code |-> code]

Outcome(result) == IF result.ok THEN Succeeded(result.value)
                   ELSE Failed(result.code)

OutsideUnchanged == UNCHANGED <<now, course, scene>>

End(c, r) ==
  /\ pc' = [pc EXCEPT ![c] = "idle"]
  /\ reply' = [reply EXCEPT ![c] = r]
  /\ sampled' = [sampled EXCEPT ![c] = None]
  /\ UNCHANGED <<call, span, shown>>

\* What the tool refuses to build: INVALID_REQUEST.
Unparsed(q) ==
  \/ q.tool \in {"fk", "validity"} /\ ~RobotStateOK(q.state)
  \/ q.tool = "ik" /\ ~PoseOK(q.pose)
  \/ q.tool = "ik" /\ q.seed # None /\ ~RobotStateOK(q.seed)

\* The first thing a question waits for.
FirstWait(q) ==
  CASE q.tool \in {"state", "health", "pose"} -> "sample"
    [] q.tool = "object" -> "scene"
    [] OTHER -> q.tool

\* The descriptor is at hand: get_planning_group waits for nothing.
GroupReply(q) ==
  IF q.group \in GroupName THEN Succeeded(q.group) ELSE Failed("not_found")

Begin(c, q) ==
  /\ pc[c] = "idle"
  /\ OutsideUnchanged
  /\ call' = [call EXCEPT ![c] = q]
  /\ span' = [span EXCEPT ![c] = {now}]
  /\ shown' = [shown EXCEPT ![c] = {scene}]
  /\ sampled' = [sampled EXCEPT ![c] = None]
  /\ IF Unparsed(q) \/ q.tool = "group"
     THEN /\ pc' = pc
          /\ reply' = [reply EXCEPT ![c] =
               IF Unparsed(q) THEN Failed("invalid_request") ELSE GroupReply(q)]
     ELSE /\ pc' = [pc EXCEPT ![c] = FirstWait(q)]
          /\ reply' = [reply EXCEPT ![c] = NoReply]

\* An operation that ends without an answer.
NoAnswer(c) ==
  /\ pc[c] # "idle"
  /\ OutsideUnchanged
  /\ \E e \in RuntimeError :
       End(c, IF call[c].tool = "health" THEN Succeeded([ready |-> FALSE])
              ELSE Failed(e.code))

\* get_end_effector_pose goes on with the state it has read.
GoOnWith(c, state) ==
  /\ pc' = [pc EXCEPT ![c] = "fk"]
  /\ sampled' = [sampled EXCEPT ![c] = state]
  /\ UNCHANGED <<call, reply, span, shown>>

\* A message comes on the topic, of any instant there has been, and stamped by
\* the robot's clock: get_current_state ends.
Sampled(c) ==
  /\ pc[c] = "sample"
  /\ OutsideUnchanged
  /\ \E t \in 0..now, s \in Skew :
       LET result == StateResult(Sample(course[t], t + s), Clock(now))
       IN  IF call[c].tool = "health"
           THEN End(c, Succeeded([ready |-> result.ok]))
           ELSE IF call[c].tool = "pose" /\ result.ok
           THEN GoOnWith(c, result.value)
           ELSE End(c, Outcome(result))

\* Mutant: the link's pose as it is now, and not in the state supplied.
FkStateCurrent(c) == None

\* The state forward kinematics is asked about.
FkState(c) == IF call[c].tool = "pose" THEN sampled[c] ELSE call[c].state

FkAnswered(c) ==
  /\ pc[c] = "fk"
  /\ OutsideUnchanged
  /\ \E a \in FkAnswer(FkRequest(call[c].link, FkState(c))) :
       End(c, Outcome(FkResult(call[c].link, a)))

IkAnswered(c) ==
  /\ pc[c] = "ik"
  /\ OutsideUnchanged
  /\ \E a \in IkAnswer(IkRequest(<<"arm">>, call[c].link, call[c].pose,
                                 call[c].seed)) :
       End(c, Outcome(IkResult(a)))

\* check_state_validity has no code to look at.
ValidityAnswered(c) ==
  /\ pc[c] = "validity"
  /\ OutsideUnchanged
  /\ End(c, Succeeded(~Invalid(Filled(ToRobotState(call[c].state), robot))))

\* Mutant: an object nobody can read is an object that is not there.
ObjectReplyBlind(q, result) ==
  IF ~result.ok THEN Failed("not_found")
  ELSE IF \E o \in result.value.objects : o.id = q.id
       THEN Succeeded(CHOOSE o \in result.value.objects : o.id = q.id)
       ELSE Failed("not_found")

\* get_collision_object looks the name up in the scene it has read.
ObjectReply(q, result) ==
  IF ~result.ok THEN Failed(result.code)
  ELSE IF \E o \in result.value.objects : o.id = q.id
       THEN Succeeded(CHOOSE o \in result.value.objects : o.id = q.id)
       ELSE Failed("not_found")

SceneAnswered(c) ==
  /\ pc[c] = "scene"
  /\ OutsideUnchanged
  /\ LET result == SceneResult(scene, Sample(robot, now), <<"revision">>)
     IN  End(c, IF call[c].tool = "object" THEN ObjectReply(call[c], result)
                ELSE Outcome(result))

-----------------------------------------------------------------------------
(* Meanwhile. *)

\* Time passes, and the robot is somewhere else or where it was.
Move ==
  /\ now < MaxTime
  /\ now' = now + 1
  /\ \E p \in Posture :
       course' = [t \in 0..now' |-> IF t = now' THEN p ELSE course[t]]
  /\ span' = [c \in Client |-> IF pc[c] = "idle" THEN span[c]
                               ELSE span[c] \cup {now'}]
  /\ UNCHANGED <<scene, pc, call, sampled, reply, shown>>

Rearrange ==
  /\ \E s \in Scene \ {scene} :
       /\ scene' = s
       /\ shown' = [c \in Client |-> IF pc[c] = "idle" THEN shown[c]
                                     ELSE shown[c] \cup {s}]
  /\ UNCHANGED <<now, course, pc, call, sampled, reply, span>>

Init ==
  /\ now = 0
  /\ course \in [0..0 -> Posture]
  /\ scene \in Scene
  /\ pc = [c \in Client |-> "idle"]
  /\ call = [c \in Client |-> NoCall]
  /\ sampled = [c \in Client |-> None]
  /\ reply = [c \in Client |-> NoReply]
  /\ span = [c \in Client |-> {}]
  /\ shown = [c \in Client |-> {}]

Next ==
  \/ \E c \in Client :
       \/ \E q \in Question : Begin(c, q)
       \/ NoAnswer(c)
       \/ Sampled(c)
       \/ FkAnswered(c)
       \/ IkAnswered(c)
       \/ ValidityAnswered(c)
       \/ SceneAnswered(c)
  \/ Move
  \/ Rearrange

Spec == Init /\ [][Next]_vars

-----------------------------------------------------------------------------
(* Properties. *)

SucceededAt(c, tool) == call[c].tool = tool /\ reply[c].status = "success"

\* A sampled state is at hand exactly where a pose is computed from it, and
\* what a call waits for is what its question needs.
QueryTypeOK ==
  /\ now \in 0..MaxTime /\ course \in [0..now -> Posture] /\ scene \in Scene
  /\ \A c \in Client :
       /\ call[c] \in Question \cup {NoCall}
       /\ pc[c] \in {"idle", "sample", "fk", "ik", "validity", "scene"}
       /\ pc[c] = "sample" => call[c].tool \in {"state", "health", "pose"}
       /\ sampled[c] # None <=> pc[c] = "fk" /\ call[c].tool = "pose"
       /\ sampled[c] # None => RobotStateOK(sampled[c])
       /\ pc[c] # "idle" => reply[c] = NoReply
       /\ span[c] \subseteq 0..now /\ shown[c] \subseteq Scene

\* What is reported of the robot was so, all of it at one instant: the state
\* carries that instant by the robot's clock and the age it had at a moment of
\* the call, and the pose is of one posture, although the state is read by one
\* call and placed by another while the robot moves.  It may have been so long
\* before the call (get_current_state, get_end_effector_pose).
ReadingsAreDated ==
  \A c \in Client :
    /\ SucceededAt(c, "state") =>
         \E t \in 0..now, s \in Skew, u \in span[c] :
           /\ reply[c].value.positions = course[t]
           /\ reply[c].value.stamp = Clock(t + s)
           /\ reply[c].value.age = Clock(u) - Clock(t + s)
           /\ t + s <= u
    /\ SucceededAt(c, "pose") =>
         \E t \in 0..now, s \in Skew, u \in span[c] :
           /\ reply[c].value = FramedPlace(call[c].link, course[t])
           /\ t + s <= u

\* Kinematics answers what it was asked: the place of that very link in that
\* very state, whose joints MoveIt takes from where the robot has been if they
\* are not named, and in whatever order MoveIt lists links; and a solution that
\* takes the link where it should go.
KinematicsAnswers ==
  \A c \in Client :
    /\ SucceededAt(c, "fk") =>
         \E p \in been(c) :
           reply[c].value = FramedPlace(call[c].link,
                                        Filled(ToRobotState(call[c].state), p))
    /\ SucceededAt(c, "ik") =>
         PlaceOf(call[c].link, reply[c].value.positions) = call[c].pose.point

\* A scene that is reported has been there while it was read; and an object is
\* said not to exist only if it was missing from a scene that could be read.
ScenesWereThere ==
  \A c \in Client :
    /\ SucceededAt(c, "scene") =>
         \E s \in shown[c] : {o.id : o \in reply[c].value.objects}
                               = {m.id : m \in s}
    /\ call[c].tool = "object" /\ reply[c] = Failed("not_found") =>
         \E s \in shown[c] : /\ \A m \in s : ObjectReadable(m)
                             /\ \A m \in s : m.id # call[c].id

\* What the reading tools answer was so when they say it was, and is about what
\* was asked.
QueryInv ==
  /\ QueryTypeOK
  /\ ReadingsAreDated
  /\ KinematicsAnswers
  /\ ScenesWereThere
=============================================================================
