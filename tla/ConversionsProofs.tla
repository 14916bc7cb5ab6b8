------------------------- MODULE ConversionsProofs -------------------------
(***************************************************************************)
(* Proofs about what crosses the boundary to MoveIt and back: the calls    *)
(* that only read (QueryTools), trajectories (TrajectoryWire) and scenes   *)
(* (SceneWire).  The three share the conversions and no state.             *)
(***************************************************************************)
EXTENDS QueryTools, TrajectoryWire, SceneWire, SequenceTheorems, TLAPS

-----------------------------------------------------------------------------
(* The tools that only read: the inductive invariant. *)

\* What each wait belongs to.
WaitsFor ==
  [idle |-> Tool \cup {"none"},
   sample |-> {"state", "health", "pose"},
   fk |-> {"fk", "pose"},
   ik |-> {"ik"},
   validity |-> {"validity"},
   scene |-> {"scene", "object"}]

\* A state the robot has been in at one instant, under that instant's date by
\* the robot's clock, and of the age it had at one of the instants given.
Dated(v, instants) ==
  \E t \in 0..now, k \in Skew, u \in instants :
    /\ v.positions = course[t] /\ v.stamp = Clock(t + k)
    /\ v.age = Clock(u) - Clock(t + k) /\ t + k <= u

\* What is known of a caller's call while it is under way: it has been about
\* the instant and the scene there are, and a state that was sampled is one the
\* robot has been in when it says.
Asking(c) ==
  /\ call[c] \in Question \cup {NoCall}
  /\ pc[c] \in DOMAIN WaitsFor
  /\ call[c].tool \in WaitsFor[pc[c]]
  /\ span[c] \subseteq 0..now /\ shown[c] \subseteq Scene
  /\ pc[c] # "idle" =>
       reply[c] = NoReply /\ now \in span[c] /\ scene \in shown[c]
  /\ sampled[c] # None <=> pc[c] = "fk" /\ call[c].tool = "pose"
  /\ sampled[c] # None =>
       /\ sampled[c] \in SampledStates /\ RobotStateOK(sampled[c])
       /\ Dated(sampled[c], span[c])

\* What the answer r to the question q says is so: of where the robot has been,
\* for what MoveIt fills in at one of the instants of the call, and about one
\* of the scenes there have been.
Told(q, r, instants, scenes) ==
  /\ q.tool = "pose" /\ r.status = "success" =>
       \E t \in 0..now, k \in Skew, u \in instants :
         r.value = FramedPlace(q.link, course[t]) /\ t + k <= u
  /\ q.tool = "state" /\ r.status = "success" => Dated(r.value, instants)
  /\ q.tool = "fk" /\ r.status = "success" =>
       \E t \in instants :
         r.value = FramedPlace(q.link, Filled(ToRobotState(q.state), course[t]))
  /\ q.tool = "ik" /\ r.status = "success" =>
       PlaceOf(q.link, r.value.positions) = q.pose.point
  /\ q.tool = "scene" /\ r.status = "success" =>
       \E s \in scenes : {o.id : o \in r.value.objects} = {m.id : m \in s}
  /\ q.tool = "object" /\ r = Failed("not_found") =>
       \E s \in scenes : /\ \A m \in s : ObjectReadable(m)
                         /\ \A m \in s : m.id # q.id

\* What it was told when it ended.
Truthful(c) == Told(call[c], reply[c], span[c], shown[c])

ReadingTyped ==
  /\ now \in 0..MaxTime /\ course \in [0..now -> Posture] /\ scene \in Scene
  /\ pc = [c \in Client |-> pc[c]] /\ call = [c \in Client |-> call[c]]
  /\ sampled = [c \in Client |-> sampled[c]]
  /\ reply = [c \in Client |-> reply[c]]
  /\ span = [c \in Client |-> span[c]] /\ shown = [c \in Client |-> shown[c]]

ReadingInv ==
  ReadingTyped /\ \A c \in Client : Asking(c) /\ Truthful(c)

-----------------------------------------------------------------------------
(* The answers. *)

\* A posture is as long as there are joints.
LEMMA PostureIs ==
  ASSUME NEW p \in Posture
  PROVE  /\ Len(Joint) \in Nat /\ DOMAIN Joint = 1..Len(Joint)
         /\ p = [i \in 1..Len(Joint) |-> p[i]]
BY QueryAssumption, LenProperties DEF Posture

\* A state that was sampled says where the robot is, and leaves MoveIt nothing
\* to fill in (from_robot_state_message, to_robot_state_message).
LEMMA SampledSaysAll ==
  ASSUME NEW s \in SampledStates, NEW q
  PROVE  /\ s # None /\ s.positions \in Posture
         /\ Filled(ToRobotState(s), q) = s.positions
<1>1. PICK p \in Posture, t \in 0..MaxTime, u \in 0..MaxTime, k \in Skew :
        s = [FromRobotState(Sample(p, t + k)) EXCEPT
               !.age = Clock(u) - Clock(t + k)]
  BY DEF SampledStates
<1>2. s.joints = Joint /\ s.positions = p /\ s # None
  BY <1>1, QueryAssumption DEF FromRobotState, Sample
<1>3. PICK m : m = ToRobotState(s)
  OBVIOUS
<1>4. m.names = Joint /\ m.positions = p
  BY <1>2, <1>3 DEF ToRobotState
<1>5. ASSUME NEW i \in 1..Len(Joint)
      PROVE  (IF Joint[i] \in {m.names[j] : j \in DOMAIN m.names}
              THEN m.positions[CHOOSE j \in DOMAIN m.names : m.names[j] = Joint[i]]
              ELSE q[i]) = p[i]
  <2>1. DOMAIN Joint = 1..Len(Joint)
    BY <1>1, PostureIs
  <2>2. (CHOOSE j \in DOMAIN Joint : Joint[j] = Joint[i]) = i
    BY <2>1, QueryAssumption
  <2>3. Joint[i] \in {Joint[j] : j \in DOMAIN Joint}
    BY <2>1
  <2>. QED BY <1>4, <2>2, <2>3
<1>6. Filled(m, q) = [i \in 1..Len(Joint) |-> p[i]]
  BY <1>5 DEF Filled
<1>. QED BY <1>1, <1>2, <1>3, <1>6, PostureIs

\* Instants are ordered as the clock has them.
LEMMA ClockOrders ==
  ASSUME NEW t \in Int, NEW u \in Int, Clock(u) - Clock(t) >= 0
  PROVE  t <= u
<1>1. Giga \in Nat \ {0}
  BY ConversionAssumption
<1>2. Clock(u) = 2 * (u * Giga) /\ Clock(t) = 2 * (t * Giga)
  BY <1>1 DEF Clock, FromDuration
<1>3. ASSUME u < t PROVE FALSE
  <2>1. (t - u) * Giga >= Giga
    BY <1>1, <1>3
  <2>2. (t - u) * Giga = t * Giga - u * Giga
    BY <1>1
  <2>3. t * Giga \in Int /\ u * Giga \in Int
    BY <1>1
  <2>. QED BY <1>1, <1>2, <2>1, <2>2, <2>3
<1>. QED BY <1>3

\* get_current_state: one sample, of one instant that is not to come, with its
\* own stamp.
LEMMA StateIsSampled ==
  ASSUME NEW p \in Posture, NEW t \in 0..MaxTime, NEW u \in 0..MaxTime,
         NEW k \in Skew, StateResult(Sample(p, t + k), Clock(u)).ok
  PROVE  LET v == StateResult(Sample(p, t + k), Clock(u)).value
         IN  /\ v \in SampledStates /\ RobotStateOK(v)
             /\ v.positions = p /\ v.stamp = Clock(t + k)
             /\ v.age = Clock(u) - Clock(t + k) /\ t + k <= u
<1>1. PICK s : s = [FromRobotState(Sample(p, t + k)) EXCEPT
                      !.age = Clock(u) - Clock(t + k)]
  OBVIOUS
<1>2. FromDuration(Sample(p, t + k).stamp) = Clock(t + k)
  BY DEF Sample, Clock
<1>3. /\ StateResult(Sample(p, t + k), Clock(u)).value = s
      /\ Clock(u) - Clock(t + k) >= 0 /\ RobotStateOK(s)
  BY <1>1, <1>2 DEF StateResult, Error, Value
<1>4. s \in SampledStates
  BY <1>1 DEF SampledStates
<1>5. /\ s.positions = p /\ s.stamp = Clock(t + k)
      /\ s.age = Clock(u) - Clock(t + k)
  BY <1>1, <1>2 DEF FromRobotState, Sample
<1>6. t + k <= u
  BY <1>3, ClockOrders, QueryAssumption
<1>. QED BY <1>3, <1>4, <1>5, <1>6

\* compute_forward_kinematics: whatever links the answer lists besides, and in
\* whatever order, the pose is that of the link that was asked for.
LEMMA PoseIsTheLinks ==
  ASSUME NEW link, NEW state,
         NEW a \in FkAnswer(FkRequest(link, state)), FkResult(link, a).ok
  PROVE  FkResult(link, a).value
           = FramedPlace(link, Filled(ToRobotState(state), robot))
<1>. DEFINE here == FramedPlace(link, Filled(ToRobotState(state), robot))
            there == FramedPlace(<<"elbow">>, Filled(ToRobotState(state), robot))
            places == {i \in DOMAIN a.links : a.links[i] = link}
<1>0. PICK first : first = CHOOSE i \in places : \A j \in places : i <= j
  OBVIOUS
<1>1. \/ a.links = <<link>> /\ a.poses \in {<<here>>, <<>>}
      \/ a.links = << <<"elbow">>, link >> /\ a.poses = <<there, here>>
  <2>1. << <<"elbow">> >> \o <<link>> = << <<"elbow">>, link >>
    <3>1. PICK e : e = <<"elbow">>
      OBVIOUS
    <3>2. PICK s, t : s = <<e>> /\ t = <<link>>
      OBVIOUS
    <3>3. s \in Seq({e, link}) /\ Len(s) = 1 /\ s[1] = e
      BY <3>2
    <3>4. t \in Seq({e, link}) /\ Len(t) = 1 /\ t[1] = link
      BY <3>2
    <3>5. PICK w : w = s \o t
      OBVIOUS
    <3>10. /\ w \in Seq({e, link}) /\ Len(w) = 2
           /\ \A i \in 1..2 : w[i] = IF i <= 1 THEN s[i] ELSE t[i - 1]
      <4>1. /\ s \o t \in Seq({e, link})
            /\ Len(s \o t) = Len(s) + Len(t)
            /\ \A i \in 1..Len(s) + Len(t) :
                 (s \o t)[i] = IF i <= Len(s) THEN s[i] ELSE t[i - Len(s)]
        BY <3>3, <3>4, ConcatProperties
      <4>. QED BY <3>3, <3>4, <3>5, <4>1
    <3>11. w[1] = e /\ w[2] = link
      BY <3>3, <3>4, <3>10
    <3>6. PICK u : u = <<e, link>>
      OBVIOUS
    <3>7. u \in Seq({e, link}) /\ Len(u) = 2 /\ u[1] = e /\ u[2] = link
      BY <3>6
    <3>8. \A i \in 1..Len(w) : w[i] = u[i]
      BY <3>7, <3>10, <3>11
    <3>9. w = u
      BY <3>7, <3>8, <3>10, SeqEqual
    <3>. QED BY <3>1, <3>2, <3>5, <3>6, <3>9
  <2>. QED BY <2>1 DEF FkAnswer, FkRequest
<1>2. /\ places # {} /\ ~(first > Len(a.poses))
      /\ FkResult(link, a).value = a.poses[first]
  BY <1>0 DEF FkResult, Answered, Error, Value
<1>. HIDE DEF here, there
<1>3. CASE a.links = <<link>> /\ a.poses \in {<<here>>, <<>>}
  <2>1. first = 1
    BY <1>0, <1>3
  <2>2. a.poses = <<here>>
    BY <1>2, <1>3, <2>1
  <2>. QED BY <1>2, <2>1, <2>2 DEF here
<1>4. CASE a.links = << <<"elbow">>, link >> /\ a.poses = <<there, here>>
  <2>1. CASE link = <<"elbow">>
    <3>1. places = {1, 2}
      BY <1>4, <2>1
    <3>2. first = 1
      BY <1>0, <3>1
    <3>3. there = here
      BY <2>1 DEF there, here
    <3>. QED BY <1>2, <1>4, <3>2, <3>3 DEF here
  <2>2. CASE link # <<"elbow">>
    <3>1. places = {2}
      BY <1>4, <2>2
    <3>2. first = 2
      BY <1>0, <3>1
    <3>. QED BY <1>2, <1>4, <3>2 DEF here
  <2>. QED BY <2>1, <2>2
<1>. QED BY <1>1, <1>3, <1>4

\* compute_inverse_kinematics: a solution takes the link where it should go.
LEMMA SolutionSolves ==
  ASSUME NEW group, NEW link, NEW pose, NEW seed,
         NEW a \in IkAnswer(IkRequest(group, link, pose, seed)), IkResult(a).ok
  PROVE  PlaceOf(link, IkResult(a).value.positions) = pose.point
<1>1. a.code = "SUCCESS"
  BY DEF IkResult, Answered, Error
<1>2. IkResult(a).value = FromRobotState(a.solution)
  BY <1>1 DEF IkResult, Answered, Error, Value
<1>3. PlaceOf(link, a.solution.positions) = pose.point
  BY <1>1 DEF IkAnswer, IkRequest
<1>. QED BY <1>2, <1>3 DEF FromRobotState

\* get_planning_scene: a scene that is read is read whole
\* (from_planning_scene_message).
LEMMA SceneIsWhole ==
  ASSUME NEW w, NEW s, NEW r, SceneResult(w, s, r).ok
  PROVE  LET v == SceneResult(w, s, r).value
         IN  /\ {o.id : o \in v.objects} = {m.id : m \in w}
             /\ \A m \in w : ObjectReadable(m)
<1>1. /\ SceneResult(w, s, r).value = FromScene(w, s, r)
      /\ SceneReadable(w, s, r)
  BY DEF SceneResult, Error, Value
<1>2. FromScene(w, s, r).objects = {FromObject(m) : m \in w}
  BY DEF FromScene
<1>3. \A m : FromObject(m).id = m.id
  BY DEF FromObject
<1>. QED BY <1>1, <1>2, <1>3 DEF SceneReadable

-----------------------------------------------------------------------------
(* The steps. *)

\* What was told stays so while the robot stands still.
LEMMA ToldStays ==
  ASSUME NEW c \in Client, Truthful(c), now' = now, course' = course,
         call'[c] = call[c], reply'[c] = reply[c], span'[c] = span[c],
         shown'[c] = shown[c]
  PROVE  Truthful(c)'
<1>1. PICK q, r, i, s : q = call[c] /\ r = reply[c] /\ i = span[c] /\ s = shown[c]
  OBVIOUS
<1>2. Told(q, r, i, s)
  BY <1>1 DEF Truthful
<1>3. Told(q, r, i, s)'
  BY <1>2 DEF Told, Dated
<1>. QED BY <1>1, <1>3 DEF Truthful

\* A caller whose call goes on or ends disturbs no other.
LEMMA OtherCallersStay ==
  ASSUME ReadingInv, NEW c \in Client, OutsideUnchanged, ReadingTyped',
         \A d \in Client \ {c} :
           /\ pc'[d] = pc[d] /\ call'[d] = call[d] /\ sampled'[d] = sampled[d]
           /\ reply'[d] = reply[d] /\ span'[d] = span[d] /\ shown'[d] = shown[d],
         Asking(c)', Truthful(c)'
  PROVE  ReadingInv'
<1>1. ASSUME NEW d \in Client \ {c}
      PROVE  Asking(d)' /\ Truthful(d)'
  <2>1. Asking(d) /\ Truthful(d)
    BY DEF ReadingInv
  <2>2. now' = now /\ course' = course /\ scene' = scene
    BY DEF OutsideUnchanged
  <2>3. Asking(d)'
    BY <2>1, <2>2 DEF Asking, Dated
  <2>4. Truthful(d)'
    BY <2>1, <2>2, ToldStays
  <2>. QED BY <2>3, <2>4
<1>. QED BY <1>1 DEF ReadingInv

\* A call ends with an answer that is so.
LEMMA CallEnds ==
  ASSUME ReadingInv, NEW c \in Client, pc[c] # "idle", OutsideUnchanged,
         NEW r, End(c, r), Told(call[c], r, span[c], shown[c])
  PROVE  ReadingInv'
<1>1. /\ pc' = [d \in Client |-> IF d = c THEN "idle" ELSE pc[d]]
      /\ reply' = [d \in Client |-> IF d = c THEN r ELSE reply[d]]
      /\ sampled' = [d \in Client |-> IF d = c THEN None ELSE sampled[d]]
      /\ call' = call /\ span' = span /\ shown' = shown
      /\ now' = now /\ course' = course /\ scene' = scene
  BY DEF End, ReadingInv, ReadingTyped, OutsideUnchanged
<1>2. ReadingTyped'
  BY <1>1 DEF ReadingInv, ReadingTyped
<1>3. Asking(c)'
  <2>1. Asking(c)
    BY DEF ReadingInv
  <2>2. call[c].tool \in WaitsFor["idle"] /\ "idle" \in DOMAIN WaitsFor
    BY <2>1 DEF Asking, WaitsFor, Tool
  <2>. QED BY <1>1, <2>1, <2>2 DEF Asking
<1>4. Truthful(c)'
  BY <1>1 DEF Truthful, Told, Dated
<1>. QED BY <1>1, <1>2, <1>3, <1>4, OtherCallersStay

\* An error says nothing, unless it is that an object is not there.
LEMMA ErrorsSayNothing ==
  ASSUME NEW q, NEW code, code # "not_found" \/ q.tool # "object",
         NEW instants, NEW scenes
  PROVE  Told(q, Failed(code), instants, scenes)
BY DEF Told, Failed

\* The codes of what the adapter refuses or MoveIt reports.
LEMMA ErrorCodes ==
  /\ \A e \in RuntimeError : e.code # "not_found"
  /\ \A code : MoveItError(code) # "not_found"
<1>1. \A e \in RuntimeError : e.code # "not_found"
  BY DEF RuntimeError, Error
<1>2. ASSUME NEW code PROVE MoveItError(code) # "not_found"
  <2>. DEFINE known == {c \in DOMAIN CodesOf : code \in CodesOf[c]}
  <2>1. "not_found" \notin DOMAIN CodesOf
    BY DEF CodesOf
  <2>2. CASE known = {}
    BY <2>2 DEF MoveItError
  <2>3. CASE known # {}
    <3>1. (CHOOSE c \in known : TRUE) \in known
      BY <2>3
    <3>. QED BY <2>1, <2>3, <3>1 DEF MoveItError
  <2>. QED BY <2>2, <2>3
<1>. QED BY <1>1, <1>2

\* A call begins.
LEMMA BeginReads ==
  ASSUME ReadingInv, NEW c \in Client, NEW q \in Question, Begin(c, q)
  PROVE  ReadingInv'
<1>1. /\ call' = [d \in Client |-> IF d = c THEN q ELSE call[d]]
      /\ span' = [d \in Client |-> IF d = c THEN {now} ELSE span[d]]
      /\ shown' = [d \in Client |-> IF d = c THEN {scene} ELSE shown[d]]
      /\ sampled' = [d \in Client |-> IF d = c THEN None ELSE sampled[d]]
      /\ now' = now /\ course' = course /\ scene' = scene /\ pc[c] = "idle"
  BY DEF Begin, ReadingInv, ReadingTyped, OutsideUnchanged
<1>2. PICK w, r :
        /\ pc' = [d \in Client |-> IF d = c THEN w ELSE pc[d]]
        /\ reply' = [d \in Client |-> IF d = c THEN r ELSE reply[d]]
        /\ \/ w = "idle" /\ q.tool \in Tool /\ r = Failed("invalid_request")
           \/ w = "idle" /\ q.tool = "group" /\ r = GroupReply(q)
           \/ w = FirstWait(q) /\ r = NoReply /\ q.tool \in Tool \ {"group"}
  <2>0. q.tool \in Tool
    BY QueryAssumption
  <2>1. CASE Unparsed(q)
    <3>1. PICK v : v = Failed("invalid_request")
      OBVIOUS
    <3>2. pc' = pc /\ reply' = [reply EXCEPT ![c] = v]
      BY <2>1, <3>1 DEF Begin
    <3>3. /\ pc' = [d \in Client |-> IF d = c THEN "idle" ELSE pc[d]]
          /\ reply' = [d \in Client |-> IF d = c THEN v ELSE reply[d]]
      BY <1>1, <3>2 DEF ReadingInv, ReadingTyped
    <3>. QED BY <2>0, <2>1, <3>1, <3>3
  <2>2. CASE ~Unparsed(q) /\ q.tool = "group"
    <3>1. PICK v : v = GroupReply(q)
      OBVIOUS
    <3>2. pc' = pc /\ reply' = [reply EXCEPT ![c] = v]
      BY <2>2, <3>1 DEF Begin
    <3>3. /\ pc' = [d \in Client |-> IF d = c THEN "idle" ELSE pc[d]]
          /\ reply' = [d \in Client |-> IF d = c THEN v ELSE reply[d]]
      BY <1>1, <3>2 DEF ReadingInv, ReadingTyped
    <3>. QED BY <2>2, <3>1, <3>3
  <2>3. CASE ~Unparsed(q) /\ q.tool # "group"
    <3>1. PICK v : v = FirstWait(q)
      OBVIOUS
    <3>2. pc' = [pc EXCEPT ![c] = v] /\ reply' = [reply EXCEPT ![c] = NoReply]
      BY <2>3, <3>1 DEF Begin
    <3>3. /\ pc' = [d \in Client |-> IF d = c THEN v ELSE pc[d]]
          /\ reply' = [d \in Client |-> IF d = c THEN NoReply ELSE reply[d]]
      BY <3>2 DEF ReadingInv, ReadingTyped
    <3>. QED BY <2>0, <2>3, <3>1, <3>3
  <2>. QED BY <2>1, <2>2, <2>3
<1>3. ReadingTyped'
  BY <1>1, <1>2 DEF ReadingInv, ReadingTyped
<1>4. /\ w \in DOMAIN WaitsFor /\ q.tool \in WaitsFor[w]
      /\ w # "idle" => r = NoReply
      /\ ~(w = "fk" /\ q.tool = "pose")
  <2>1. CASE w = "idle"
    <3>1. q.tool \in Tool
      BY QueryAssumption
    <3>2. DOMAIN WaitsFor = {"idle", "sample", "fk", "ik", "validity", "scene"}
          /\ WaitsFor["idle"] = Tool \cup {"none"}
      BY DEF WaitsFor
    <3>3. CASE w = FirstWait(q) /\ r = NoReply
      <4>1. r = NoReply /\ ~(w = "fk")
        BY <2>1, <3>3
      <4>. QED BY <2>1, <3>1, <3>2, <4>1
    <3>. QED BY <1>2, <2>1, <3>1, <3>2, <3>3
  <2>2. CASE w = FirstWait(q) /\ r = NoReply /\ q.tool \in Tool \ {"group"}
    <3>1. CASE q.tool \in {"state", "health", "pose"}
      BY <2>2, <3>1 DEF FirstWait, WaitsFor
    <3>2. CASE q.tool = "object"
      BY <2>2, <3>2 DEF FirstWait, WaitsFor
    <3>3. CASE q.tool \in {"fk", "ik", "validity", "scene"}
      <4>1. w = q.tool
        BY <2>2, <3>3 DEF FirstWait
      <4>. QED BY <2>2, <3>3, <4>1 DEF WaitsFor
    <3>. QED BY <2>2, <3>1, <3>2, <3>3 DEF Tool
  <2>. QED BY <1>2, <2>1, <2>2
<1>5. Asking(c)'
  BY <1>1, <1>2, <1>4 DEF Asking, ReadingInv, ReadingTyped
<1>6. Told(q, r, {now}, {scene})
  <2>1. CASE r = Failed("invalid_request")
    BY <2>1, ErrorsSayNothing
  <2>2. CASE q.tool = "group"
    BY <2>2 DEF Told
  <2>3. CASE r = NoReply
    BY <2>3 DEF Told, NoReply, Failed
  <2>. QED BY <1>2, <2>1, <2>2, <2>3
<1>7. Truthful(c)'
  <2>1. /\ call'[c] = q /\ reply'[c] = r /\ span'[c] = {now}
        /\ shown'[c] = {scene} /\ now' = now /\ course' = course
    BY <1>1, <1>2
  <2>. QED BY <1>6, <2>1 DEF Truthful, Told, Dated
<1>. QED BY <1>1, <1>2, <1>3, <1>5, <1>7, OtherCallersStay DEF OutsideUnchanged

\* An operation gets no answer.
LEMMA NoAnswerReads ==
  ASSUME ReadingInv, NEW c \in Client, NoAnswer(c)
  PROVE  ReadingInv'
<1>1. PICK e \in RuntimeError :
        End(c, IF call[c].tool = "health" THEN Succeeded([ready |-> FALSE])
               ELSE Failed(e.code))
  BY DEF NoAnswer
<1>2. pc[c] # "idle" /\ OutsideUnchanged
  BY DEF NoAnswer
<1>3. CASE call[c].tool = "health"
  <2>1. Told(call[c], Succeeded([ready |-> FALSE]), span[c], shown[c])
    BY <1>3 DEF Told
  <2>. QED BY <1>1, <1>2, <1>3, <2>1, CallEnds
<1>4. CASE call[c].tool # "health"
  <2>1. Told(call[c], Failed(e.code), span[c], shown[c])
    BY ErrorCodes, ErrorsSayNothing
  <2>. QED BY <1>1, <1>2, <1>4, <2>1, CallEnds
<1>. QED BY <1>3, <1>4

\* The robot's state is read: the call ends, or the pose is computed from it.
LEMMA SampledReads ==
  ASSUME ReadingInv, NEW c \in Client, Sampled(c)
  PROVE  ReadingInv'
<1>0. PICK t \in 0..now, k \in Skew :
        LET result == StateResult(Sample(course[t], t + k), Clock(now))
        IN  IF call[c].tool = "health"
            THEN End(c, Succeeded([ready |-> result.ok]))
            ELSE IF call[c].tool = "pose" /\ result.ok
            THEN GoOnWith(c, result.value)
            ELSE End(c, Outcome(result))
  BY DEF Sampled
<1>1. PICK result :
        /\ result = StateResult(Sample(course[t], t + k), Clock(now))
        /\ IF call[c].tool = "health"
           THEN End(c, Succeeded([ready |-> result.ok]))
           ELSE IF call[c].tool = "pose" /\ result.ok
           THEN GoOnWith(c, result.value)
           ELSE End(c, Outcome(result))
  BY <1>0
<1>2. /\ pc[c] = "sample" /\ pc[c] # "idle" /\ OutsideUnchanged
      /\ course[t] \in Posture /\ Asking(c)
      /\ now \in 0..MaxTime /\ t \in 0..MaxTime
  BY <1>0, QueryAssumption DEF Sampled, ReadingInv, ReadingTyped
<1>3. call[c].tool \in {"state", "health", "pose"} /\ now \in span[c]
  BY <1>2 DEF Asking, WaitsFor
<1>4. result.ok => /\ result.value \in SampledStates /\ RobotStateOK(result.value)
                   /\ Dated(result.value, span[c])
  <2>. SUFFICES ASSUME result.ok
                PROVE  /\ result.value \in SampledStates
                       /\ RobotStateOK(result.value)
                       /\ Dated(result.value, span[c])
    OBVIOUS
  <2>1. LET v == result.value
        IN  /\ v \in SampledStates /\ RobotStateOK(v)
            /\ v.positions = course[t] /\ v.stamp = Clock(t + k)
            /\ v.age = Clock(now) - Clock(t + k) /\ t + k <= now
    BY <1>1, <1>2, StateIsSampled
  <2>. QED BY <1>3, <2>1 DEF Dated
<1>5. CASE call[c].tool = "health"
  <2>1. Told(call[c], Succeeded([ready |-> result.ok]), span[c], shown[c])
    BY <1>5 DEF Told
  <2>. QED BY <1>1, <1>2, <1>5, <2>1, CallEnds
<1>6. CASE call[c].tool = "pose" /\ result.ok
  <2>1. GoOnWith(c, result.value)
    BY <1>1, <1>6
  <2>2. /\ pc' = [d \in Client |-> IF d = c THEN "fk" ELSE pc[d]]
        /\ sampled' = [d \in Client |-> IF d = c THEN result.value ELSE sampled[d]]
        /\ call' = call /\ span' = span /\ shown' = shown /\ reply' = reply
        /\ now' = now /\ course' = course /\ scene' = scene
    BY <1>2, <2>1 DEF GoOnWith, ReadingInv, ReadingTyped, OutsideUnchanged
  <2>3. ReadingTyped'
    BY <2>2 DEF ReadingInv, ReadingTyped
  <2>4. "pose" \in WaitsFor["fk"] /\ "fk" \in DOMAIN WaitsFor
    BY DEF WaitsFor
  <2>5. result.value # None
    BY <1>4, <1>6, QueryAssumption
  <2>6. Asking(c)'
    <3>1. Dated(result.value, span[c])'
      BY <1>4, <1>6, <2>2 DEF Dated
    <3>. QED BY <1>2, <1>3, <1>4, <1>6, <2>2, <2>4, <2>5, <3>1 DEF Asking
  <2>7. Truthful(c)'
    BY <2>2 DEF Truthful, ReadingInv, Told, Dated
  <2>. QED BY <1>2, <2>2, <2>3, <2>6, <2>7, OtherCallersStay
<1>7. CASE (call[c].tool = "pose" /\ ~result.ok) \/ call[c].tool = "state"
  <2>1. End(c, Outcome(result))
    BY <1>1, <1>7
  <2>2. Told(call[c], Outcome(result), span[c], shown[c])
    <3>1. CASE ~result.ok
      <4>1. Outcome(result) = Failed(result.code)
        BY <3>1 DEF Outcome
      <4>. QED BY <1>7, <4>1, ErrorsSayNothing
    <3>2. CASE result.ok
      <4>1. Outcome(result) = Succeeded(result.value)
        BY <3>2 DEF Outcome
      <4>2. Succeeded(result.value).value = result.value
        BY DEF Succeeded
      <4>. QED BY <1>3, <1>4, <1>7, <3>2, <4>1, <4>2 DEF Told
    <3>. QED BY <3>1, <3>2
  <2>. QED BY <1>2, <2>1, <2>2, CallEnds
<1>. QED BY <1>3, <1>5, <1>6, <1>7

\* Forward kinematics is answered: of the state that was read, which leaves
\* nothing to be filled in, or of the one that was supplied.
LEMMA FkReads ==
  ASSUME ReadingInv, NEW c \in Client, FkAnswered(c)
  PROVE  ReadingInv'
<1>1. PICK a \in FkAnswer(FkRequest(call[c].link, FkState(c))) :
        End(c, Outcome(FkResult(call[c].link, a)))
  BY DEF FkAnswered
<1>2. pc[c] = "fk" /\ pc[c] # "idle" /\ OutsideUnchanged /\ Asking(c)
  BY DEF FkAnswered, ReadingInv
<1>3. call[c].tool \in {"fk", "pose"} /\ now \in span[c]
  BY <1>2 DEF Asking, WaitsFor
<1>4. PICK result : result = FkResult(call[c].link, a)
  OBVIOUS
<1>5. CASE ~result.ok
  <2>1. Outcome(result) = Failed(result.code)
    BY <1>5 DEF Outcome
  <2>2. Told(call[c], Outcome(result), span[c], shown[c])
    BY <1>3, <2>1, ErrorsSayNothing
  <2>. QED BY <1>1, <1>2, <1>4, <2>2, CallEnds
<1>6. CASE result.ok
  <2>1. result.value = FramedPlace(call[c].link,
                                   Filled(ToRobotState(FkState(c)), robot))
    BY <1>4, <1>6, PoseIsTheLinks
  <2>2. Outcome(result) = Succeeded(result.value)
    BY <1>6 DEF Outcome
  <2>3. /\ Succeeded(result.value).value = result.value
        /\ Succeeded(result.value).status = "success"
    BY DEF Succeeded
  <2>4. CASE call[c].tool = "fk"
    <3>1. FkState(c) = call[c].state
      BY <2>4 DEF FkState
    <3>2. Told(call[c], Outcome(result), span[c], shown[c])
      BY <1>3, <2>1, <2>2, <2>3, <2>4, <3>1 DEF Told, robot
    <3>. QED BY <1>1, <1>2, <1>4, <3>2, CallEnds
  <2>5. CASE call[c].tool = "pose"
    <3>1. FkState(c) = sampled[c]
      BY <2>5 DEF FkState
    <3>2. sampled[c] \in SampledStates /\ Dated(sampled[c], span[c])
      BY <1>2, <2>5 DEF Asking
    <3>3. Filled(ToRobotState(sampled[c]), robot) = sampled[c].positions
      BY <3>2, SampledSaysAll
    <3>4. Told(call[c], Outcome(result), span[c], shown[c])
      BY <2>1, <2>2, <2>3, <2>5, <3>1, <3>2, <3>3 DEF Told, Dated
    <3>. QED BY <1>1, <1>2, <1>4, <3>4, CallEnds
  <2>. QED BY <1>3, <2>4, <2>5
<1>. QED BY <1>5, <1>6

\* Inverse kinematics is answered.
LEMMA IkReads ==
  ASSUME ReadingInv, NEW c \in Client, IkAnswered(c)
  PROVE  ReadingInv'
<1>1. PICK a \in IkAnswer(IkRequest(<<"arm">>, call[c].link, call[c].pose,
                                   call[c].seed)) :
        End(c, Outcome(IkResult(a)))
  BY DEF IkAnswered
<1>2. pc[c] = "ik" /\ pc[c] # "idle" /\ OutsideUnchanged /\ Asking(c)
  BY DEF IkAnswered, ReadingInv
<1>3. call[c].tool = "ik"
  BY <1>2 DEF Asking, WaitsFor
<1>4. PICK result : result = IkResult(a)
  OBVIOUS
<1>5. result.ok => PlaceOf(call[c].link, result.value.positions)
                     = call[c].pose.point
  BY <1>4, SolutionSolves
<1>6. Told(call[c], Outcome(result), span[c], shown[c])
  BY <1>3, <1>5 DEF Told, Outcome, Succeeded, Failed
<1>. QED BY <1>1, <1>2, <1>4, <1>6, CallEnds

\* A state is found valid or not.
LEMMA ValidityReads ==
  ASSUME ReadingInv, NEW c \in Client, ValidityAnswered(c)
  PROVE  ReadingInv'
<1>1. PICK v : End(c, Succeeded(v))
  BY DEF ValidityAnswered
<1>2. pc[c] = "validity" /\ pc[c] # "idle" /\ OutsideUnchanged /\ Asking(c)
  BY DEF ValidityAnswered, ReadingInv
<1>3. call[c].tool = "validity"
  BY <1>2 DEF Asking, WaitsFor
<1>4. Told(call[c], Succeeded(v), span[c], shown[c])
  BY <1>3 DEF Told
<1>. QED BY <1>1, <1>2, <1>4, CallEnds

\* The scene is read, and an object looked up in it.
LEMMA SceneReads ==
  ASSUME ReadingInv, NEW c \in Client, SceneAnswered(c)
  PROVE  ReadingInv'
<1>1. PICK result :
        /\ result = SceneResult(scene, Sample(robot, now), <<"revision">>)
        /\ End(c, IF call[c].tool = "object" THEN ObjectReply(call[c], result)
                  ELSE Outcome(result))
  BY DEF SceneAnswered
<1>2. pc[c] = "scene" /\ pc[c] # "idle" /\ OutsideUnchanged /\ Asking(c)
  BY DEF SceneAnswered, ReadingInv
<1>3. call[c].tool \in {"scene", "object"} /\ scene \in shown[c]
  BY <1>2 DEF Asking, WaitsFor
<1>4. result.ok => /\ {o.id : o \in result.value.objects} = {m.id : m \in scene}
                   /\ \A m \in scene : ObjectReadable(m)
  BY <1>1, SceneIsWhole
<1>5. ~result.ok => result.code = "backend_error"
  BY <1>1 DEF SceneResult, Value, Error
<1>6. CASE call[c].tool = "scene"
  <2>1. Told(call[c], Outcome(result), span[c], shown[c])
    BY <1>3, <1>4, <1>6 DEF Told, Outcome, Succeeded, Failed
  <2>. QED BY <1>1, <1>2, <1>6, <2>1, CallEnds
<1>7. CASE call[c].tool = "object"
  <2>. DEFINE found == {o \in result.value.objects : o.id = call[c].id}
  <2>1. CASE ~result.ok
    <3>1. ObjectReply(call[c], result) = Failed(result.code)
      BY <2>1 DEF ObjectReply
    <3>2. Told(call[c], Failed(result.code), span[c], shown[c])
      BY <1>5, <2>1, ErrorsSayNothing
    <3>. QED BY <1>1, <1>2, <1>7, <3>1, <3>2, CallEnds
  <2>2. CASE result.ok /\ \E o \in result.value.objects : o.id = call[c].id
    <3>1. PICK v : ObjectReply(call[c], result) = Succeeded(v)
      BY <2>2 DEF ObjectReply
    <3>2. Told(call[c], Succeeded(v), span[c], shown[c])
      BY <1>7 DEF Told, Succeeded, Failed
    <3>. QED BY <1>1, <1>2, <1>7, <3>1, <3>2, CallEnds
  <2>3. CASE result.ok /\ ~\E o \in result.value.objects : o.id = call[c].id
    <3>1. ObjectReply(call[c], result) = Failed("not_found")
      BY <2>3 DEF ObjectReply
    <3>2. \A m \in scene : m.id # call[c].id
      BY <1>4, <2>3
    <3>3. Told(call[c], Failed("not_found"), span[c], shown[c])
      BY <1>3, <1>4, <1>7, <2>3, <3>2 DEF Told, Failed
    <3>. QED BY <1>1, <1>2, <1>7, <3>1, <3>3, CallEnds
  <2>. QED BY <2>1, <2>2, <2>3
<1>. QED BY <1>3, <1>6, <1>7

\* The robot moves, or the scene changes: what was so still has been.
LEMMA OutsideReads ==
  ASSUME ReadingInv, Move \/ Rearrange
  PROVE  ReadingInv'
<1>1. /\ pc' = pc /\ call' = call /\ sampled' = sampled /\ reply' = reply
      /\ span' = [c \in Client |-> span'[c]] /\ shown' = [c \in Client |-> shown'[c]]
      /\ now' \in 0..MaxTime /\ course' \in [0..now' -> Posture]
      /\ scene' \in Scene /\ now <= now'
      /\ \A t \in 0..now : course'[t] = course[t]
      /\ \A c \in Client :
           /\ span[c] \subseteq span'[c] /\ shown[c] \subseteq shown'[c]
           /\ span'[c] \subseteq span[c] \cup {now'}
           /\ shown'[c] \subseteq shown[c] \cup {scene'}
           /\ pc[c] # "idle" /\ now \in span[c] => now' \in span'[c]
           /\ pc[c] # "idle" /\ scene \in shown[c] => scene' \in shown'[c]
  <2>1. CASE Move
    BY <2>1, QueryAssumption DEF Move, ReadingInv, ReadingTyped
  <2>2. CASE Rearrange
    BY <2>2, QueryAssumption DEF Rearrange, ReadingInv, ReadingTyped
  <2>. QED BY <2>1, <2>2
<1>2. ReadingTyped'
  BY <1>1 DEF ReadingInv, ReadingTyped
<1>3. now \in Nat /\ now' \in Nat /\ 0..now \subseteq 0..now'
  BY <1>1, QueryAssumption DEF ReadingInv, ReadingTyped
<1>4. ASSUME NEW c \in Client, NEW v, Dated(v, span[c])
      PROVE  Dated(v, span[c])'
  BY <1>1, <1>3, <1>4 DEF Dated
<1>5. ASSUME NEW c \in Client
      PROVE  Asking(c)' /\ Truthful(c)'
  <2>1. Asking(c) /\ Truthful(c)
    BY DEF ReadingInv
  <2>2. Asking(c)'
    <3>1. span'[c] \subseteq 0..now'
      BY <1>1, <1>3, <2>1 DEF Asking
    <3>2. sampled[c] # None => Dated(sampled[c], span[c])'
      BY <1>1, <1>4, <2>1 DEF Asking
    <3>. QED BY <1>1, <2>1, <3>1, <3>2 DEF Asking
  <2>3. Truthful(c)'
    <3>1. Told(call[c], reply[c], span[c], shown[c])
      BY <2>1 DEF Truthful
    <3>2. /\ span[c] \subseteq span'[c] /\ shown[c] \subseteq shown'[c]
          /\ \A t \in span[c] : course'[t] = course[t]
      BY <1>1, <2>1 DEF Asking
    <3>3. /\ call[c].tool = "pose" /\ reply[c].status = "success" =>
               \E t \in 0..now', k \in Skew, u \in span'[c] :
                 /\ reply[c].value = FramedPlace(call[c].link, course'[t])
                 /\ t + k <= u
          /\ call[c].tool = "state" /\ reply[c].status = "success" =>
               Dated(reply[c].value, span[c])'
      BY <1>1, <1>3, <1>4, <3>1, <3>2 DEF Told
    <3>. QED BY <1>1, <3>1, <3>2, <3>3 DEF Truthful, Told
  <2>. QED BY <2>2, <2>3
<1>. QED BY <1>2, <1>5 DEF ReadingInv

-----------------------------------------------------------------------------
(* The theorems. *)

\* Whatever the robot and the other nodes do meanwhile, and however old the
\* messages of its state are, the state a call carries from one call to the
\* next is one the robot was in when its stamp says, by the robot's clock, of
\* the age it had at an instant of the call; and what a call answered was so.
THEOREM ReadingInvariant == Spec => []ReadingInv
<1>1. Init => ReadingInv
  <2>. SUFFICES ASSUME Init PROVE ReadingInv
    OBVIOUS
  <2>1. ReadingTyped
    BY QueryAssumption DEF Init, ReadingTyped
  <2>2. ASSUME NEW c \in Client PROVE Asking(c) /\ Truthful(c)
    <3>1. Asking(c)
      BY DEF Init, Asking, NoCall, WaitsFor
    <3>2. Truthful(c)
      BY DEF Init, Truthful, Told, NoCall, NoReply, Failed
    <3>. QED BY <3>1, <3>2
  <2>. QED BY <2>1, <2>2 DEF ReadingInv
<1>2. ReadingInv /\ [Next]_vars => ReadingInv'
  <2>. SUFFICES ASSUME ReadingInv, [Next]_vars PROVE ReadingInv'
    OBVIOUS
  <2>1. CASE UNCHANGED vars
    <3>1. ASSUME NEW c \in Client PROVE Asking(c)' /\ Truthful(c)'
      <4>1. Asking(c)'
        BY <2>1 DEF vars, ReadingInv, Asking, Dated
      <4>. QED BY <2>1, <4>1, ToldStays DEF vars, ReadingInv
    <3>. QED BY <2>1, <3>1 DEF vars, ReadingInv, ReadingTyped
  <2>2. ASSUME NEW c \in Client, NEW q \in Question, Begin(c, q)
        PROVE  ReadingInv'
    BY <2>2, BeginReads
  <2>3. ASSUME NEW c \in Client,
               NoAnswer(c) \/ Sampled(c) \/ FkAnswered(c) \/ IkAnswered(c)
                 \/ ValidityAnswered(c) \/ SceneAnswered(c)
        PROVE  ReadingInv'
    BY <2>3, NoAnswerReads, SampledReads, FkReads, IkReads, ValidityReads,
       SceneReads
  <2>4. CASE Move \/ Rearrange
    BY <2>4, OutsideReads
  <2>. QED BY <2>1, <2>2, <2>3, <2>4 DEF Next
<1>. QED BY <1>1, <1>2, PTL DEF Spec

\* What the tools that read tell an agent was so when they say it was, and is
\* about what was asked.  The pose of get_end_effector_pose, computed from a
\* state read by another call while the robot moves, is one it has had, maybe
\* long before; solutions, scenes and objects are of the call itself.
THEOREM ReadersAnswerTruly == Spec => []QueryInv
<1>1. ReadingInv => QueryInv
  <2>. SUFFICES ASSUME ReadingInv PROVE QueryInv
    OBVIOUS
  <2>1. QueryTypeOK
    <3>1. ASSUME NEW c \in Client
          PROVE  /\ pc[c] \in {"idle", "sample", "fk", "ik", "validity", "scene"}
                 /\ pc[c] = "sample" => call[c].tool \in {"state", "health", "pose"}
      BY DEF ReadingInv, Asking, WaitsFor
    <3>. QED BY <3>1 DEF QueryTypeOK, ReadingInv, ReadingTyped, Asking
  <2>2. \A c \in Client : Told(call[c], reply[c], span[c], shown[c])
    BY DEF ReadingInv, Truthful
  <2>3. ReadingsAreDated
    BY <2>2 DEF ReadingsAreDated, Told, Dated, SucceededAt
  <2>4. KinematicsAnswers
    BY <2>2 DEF KinematicsAnswers, Told, SucceededAt, been
  <2>5. ScenesWereThere
    BY <2>2 DEF ScenesWereThere, Told, SucceededAt
  <2>. QED BY <2>1, <2>3, <2>4, <2>5 DEF QueryInv
<1>. QED BY <1>1, ReadingInvariant, PTL

-----------------------------------------------------------------------------
(* Durations. *)

\* Division by a positive number.
LEMMA Divided ==
  ASSUME NEW N \in Nat \ {0}, NEW t \in Int
  PROVE  /\ t \div N \in Int /\ t % N \in 0..(N - 1)
         /\ t = N * (t \div N) + (t % N)
OBVIOUS

\* to_duration of any number of seconds (to_duration): the nearest duration,
\* in normal form, and the very duration if it is a whole number of
\* nanoseconds.
LEMMA DurationOf ==
  ASSUME NEW t \in Nat
  PROVE  /\ ToDuration(t).sec \in Nat /\ ToDuration(t).nanosec \in 0..(Giga - 1)
         /\ FromDuration(ToDuration(t)) - t \in {-1, 0, 1}
         /\ t % 2 = 0 => FromDuration(ToDuration(t)) = t
<1>1. PICK N : N = 2 * Giga
  OBVIOUS
<1>2. Giga \in Nat \ {0} /\ N \in Nat \ {0}
  BY <1>1, ConversionAssumption
<1>3. PICK w, x : w = t \div N /\ x = t % N
  OBVIOUS
<1>4. w \in Int /\ x \in 0..(N - 1) /\ t = N * w + x
  BY <1>2, <1>3, Divided
<1>5. w >= 0
  <2>. SUFFICES ASSUME w <= -1 PROVE FALSE
    BY <1>4
  <2>. QED BY <1>2, <1>4
<1>6. PICK n : n = Rounded(x)
  OBVIOUS
<1>7. /\ n \in 0..Giga /\ 2 * n - x \in {-1, 0, 1}
      /\ x % 2 = 0 => 2 * n = x
  BY <1>1, <1>2, <1>4, <1>6 DEF Rounded
<1>8. N * w = 2 * (w * Giga)
  BY <1>1, <1>2, <1>4
<1>9. w * Giga \in Int
  BY <1>2, <1>4
<1>10. t % 2 = 0 => x % 2 = 0
  BY <1>4, <1>8, <1>9
<1>11. CASE n = Giga
  <2>1. ToDuration(t) = [sec |-> w + 1, nanosec |-> 0]
    BY <1>1, <1>3, <1>6, <1>11 DEF ToDuration
  <2>2. FromDuration(ToDuration(t)) = 2 * (w * Giga) + 2 * Giga
    BY <1>2, <1>4, <1>9, <2>1 DEF FromDuration
  <2>3. ToDuration(t).sec \in Nat /\ ToDuration(t).nanosec \in 0..(Giga - 1)
    BY <1>2, <1>4, <1>5, <2>1
  <2>4. FromDuration(ToDuration(t)) - t = 2 * n - x
    BY <1>2, <1>4, <1>8, <1>9, <1>11, <2>2
  <2>5. /\ FromDuration(ToDuration(t)) - t \in {-1, 0, 1}
        /\ x % 2 = 0 => FromDuration(ToDuration(t)) = t
    BY <1>2, <1>4, <1>7, <1>9, <2>2, <2>4
  <2>. QED BY <1>10, <2>3, <2>5
<1>12. CASE n # Giga
  <2>1. ToDuration(t) = [sec |-> w, nanosec |-> n]
    BY <1>1, <1>3, <1>6, <1>12 DEF ToDuration
  <2>2. FromDuration(ToDuration(t)) = 2 * (w * Giga) + 2 * n
    BY <1>2, <1>4, <1>7, <1>9, <2>1 DEF FromDuration
  <2>3. ToDuration(t).sec \in Nat /\ ToDuration(t).nanosec \in 0..(Giga - 1)
    BY <1>2, <1>4, <1>5, <1>7, <1>12, <2>1
  <2>4. FromDuration(ToDuration(t)) - t = 2 * n - x
    BY <1>2, <1>4, <1>7, <1>8, <1>9, <1>12, <2>2
  <2>5. /\ FromDuration(ToDuration(t)) - t \in {-1, 0, 1}
        /\ x % 2 = 0 => FromDuration(ToDuration(t)) = t
    BY <1>2, <1>4, <1>7, <1>9, <2>2, <2>4
  <2>. QED BY <1>10, <2>3, <2>5
<1>. QED BY <1>11, <1>12

\* What a message says in seconds is a whole number of nanoseconds.
LEMMA WholeNanoseconds ==
  ASSUME NEW d \in [sec : Int, nanosec : Int]
  PROVE  FromDuration(d) \in Int /\ FromDuration(d) % 2 = 0
<1>1. PICK k : k = d.sec * Giga + d.nanosec
  OBVIOUS
<1>2. k \in Int
  BY <1>1, ConversionAssumption
<1>3. FromDuration(d) = 2 * k
  BY <1>1 DEF FromDuration
<1>. QED BY <1>2, <1>3

-----------------------------------------------------------------------------
(* Trajectories. *)

\* What is stored is the answer, if it is a trajectory at all; what is sent is
\* made of that; and the solver's limit is made of its setting.
WireInv ==
  /\ answer \in Message /\ limit \in Seconds
  /\ stored # None => stored = FromTrajectory(answer) /\ TrajectoryOK(stored)
  /\ sent # None => /\ TrajectoryOK(FromTrajectory(answer))
                    /\ sent = ToTrajectory(FromTrajectory(answer))
  /\ asked # None => asked = ToDuration(limit)

\* What a point of a trajectory is sent as (from_trajectory_message,
\* to_trajectory_message).
LEMMA PointsSurvive ==
  ASSUME NEW m \in Message, TrajectoryOK(FromTrajectory(m)), NEW t,
         t = ToTrajectory(FromTrajectory(m))
  PROVE  /\ t.names = m.names /\ DOMAIN t.points = DOMAIN m.points
         /\ m.points # <<>> /\ t.points # <<>>
         /\ \A i \in DOMAIN m.points :
              /\ t.points[i].positions = m.points[i].positions
              /\ t.points[i].velocities = m.points[i].velocities
              /\ t.points[i].accelerations = m.points[i].accelerations
              /\ t.points[i].time = ToDuration(FromDuration(m.points[i].time))
              /\ FromDuration(m.points[i].time) \in Nat
              /\ Len(m.points[i].positions) = Len(m.names)
              /\ i > 1 => FromDuration(m.points[i - 1].time)
                            < FromDuration(m.points[i].time)
<1>1. PICK f : f = FromTrajectory(m)
  OBVIOUS
<1>2. /\ f.joints = m.names /\ DOMAIN f.points = DOMAIN m.points
      /\ f.points = [i \in DOMAIN m.points |-> f.points[i]]
      /\ \A i \in DOMAIN m.points :
           /\ f.points[i].positions = m.points[i].positions
           /\ f.points[i].velocities = Samples(m.points[i].velocities)
           /\ f.points[i].accelerations = Samples(m.points[i].accelerations)
           /\ f.points[i].time = FromDuration(m.points[i].time)
  BY <1>1 DEF FromTrajectory
<1>3. /\ t.names = f.joints /\ DOMAIN t.points = DOMAIN f.points
      /\ t.points = [i \in DOMAIN f.points |-> t.points[i]]
      /\ \A i \in DOMAIN f.points :
           /\ t.points[i].positions = f.points[i].positions
           /\ t.points[i].velocities = Array(f.points[i].velocities)
           /\ t.points[i].accelerations = Array(f.points[i].accelerations)
           /\ t.points[i].time = ToDuration(f.points[i].time)
  BY <1>1 DEF ToTrajectory
<1>4. \E n \in Nat : DOMAIN m.points = 1..n
  BY TrajectoryAssumption, LenProperties
<1>5. \A i \in DOMAIN m.points :
        /\ Array(Samples(m.points[i].velocities)) = m.points[i].velocities
        /\ Array(Samples(m.points[i].accelerations)) = m.points[i].accelerations
        /\ FromDuration(m.points[i].time) \in Int
  BY TrajectoryAssumption, WholeNanoseconds DEF Array, Samples
<1>6. /\ f.points # <<>>
      /\ \A i \in DOMAIN f.points :
           /\ Len(f.points[i].positions) = Len(f.joints)
           /\ f.points[i].time >= 0
           /\ i > 1 => f.points[i - 1].time < f.points[i].time
  BY <1>1 DEF TrajectoryOK, PerJoint, NonNegative
<1>7. DOMAIN f.points # {}
  BY <1>2, <1>6
<1>8. m.points # <<>> /\ t.points # <<>>
  BY <1>2, <1>3, <1>7
<1>9. ASSUME NEW i \in DOMAIN m.points, i > 1
      PROVE  i - 1 \in DOMAIN m.points
  BY <1>4, <1>9
<1>10. ASSUME NEW i \in DOMAIN m.points
       PROVE  /\ t.points[i].positions = m.points[i].positions
              /\ t.points[i].velocities = m.points[i].velocities
              /\ t.points[i].accelerations = m.points[i].accelerations
              /\ t.points[i].time = ToDuration(FromDuration(m.points[i].time))
              /\ FromDuration(m.points[i].time) \in Nat
              /\ Len(m.points[i].positions) = Len(m.names)
              /\ i > 1 => FromDuration(m.points[i - 1].time)
                            < FromDuration(m.points[i].time)
  <2>1. i \in DOMAIN f.points
    BY <1>2
  <2>2. t.points[i].positions = m.points[i].positions
    BY <1>2, <1>3, <2>1
  <2>3. /\ t.points[i].velocities = m.points[i].velocities
        /\ t.points[i].accelerations = m.points[i].accelerations
    <3>1. /\ t.points[i].velocities = Array(f.points[i].velocities)
          /\ t.points[i].accelerations = Array(f.points[i].accelerations)
      BY <1>3, <2>1
    <3>2. /\ f.points[i].velocities = Samples(m.points[i].velocities)
          /\ f.points[i].accelerations = Samples(m.points[i].accelerations)
      BY <1>2
    <3>3. /\ Array(Samples(m.points[i].velocities)) = m.points[i].velocities
          /\ Array(Samples(m.points[i].accelerations))
               = m.points[i].accelerations
      BY <1>5
    <3>. QED BY <3>1, <3>2, <3>3
  <2>4. t.points[i].time = ToDuration(FromDuration(m.points[i].time))
    BY <1>2, <1>3, <2>1
  <2>5. FromDuration(m.points[i].time) \in Nat
    <3>1. f.points[i].time = FromDuration(m.points[i].time)
      BY <1>2
    <3>2. f.points[i].time >= 0
      BY <1>6, <2>1
    <3>3. FromDuration(m.points[i].time) \in Int
      BY <1>5
    <3>. QED BY <3>1, <3>2, <3>3
  <2>6. Len(m.points[i].positions) = Len(m.names)
    BY <1>2, <1>6, <2>1
  <2>7. ASSUME i > 1
        PROVE  FromDuration(m.points[i - 1].time) < FromDuration(m.points[i].time)
    <3>1. i - 1 \in DOMAIN m.points
      BY <1>9, <2>7
    <3>2. f.points[i - 1].time < f.points[i].time
      BY <1>6, <2>1, <2>7
    <3>. QED BY <1>2, <3>1, <3>2
  <2>. QED BY <2>2, <2>3, <2>4, <2>5, <2>6, <2>7
<1>. QED BY <1>2, <1>3, <1>8, <1>10

\* What the wire invariant says of what is sent.
LEMMA WireKeeps == WireInv => TrajectoriesSurvive
<1>. SUFFICES ASSUME WireInv PROVE TrajectoriesSurvive
  OBVIOUS
<1>1. asked # None => /\ Normal(asked)
                      /\ FromDuration(asked) - limit \in {-1, 0, 1}
  BY TrajectoryAssumption, DurationOf DEF WireInv, Normal
<1>2. CASE sent = None
  BY <1>1, <1>2 DEF TrajectoriesSurvive, SentAsPlanned, SentIsExecutable,
                    DurationsAreNormal
<1>3. CASE sent # None
  <2>1. /\ answer \in Message /\ TrajectoryOK(FromTrajectory(answer))
        /\ sent = ToTrajectory(FromTrajectory(answer))
    BY <1>3 DEF WireInv
  <2>2. /\ sent.names = answer.names /\ DOMAIN sent.points = DOMAIN answer.points
        /\ answer.points # <<>> /\ sent.points # <<>>
        /\ \A i \in DOMAIN answer.points :
             /\ sent.points[i].positions = answer.points[i].positions
             /\ sent.points[i].velocities = answer.points[i].velocities
             /\ sent.points[i].accelerations = answer.points[i].accelerations
             /\ sent.points[i].time
                  = ToDuration(FromDuration(answer.points[i].time))
             /\ FromDuration(answer.points[i].time) \in Nat
             /\ Len(answer.points[i].positions) = Len(answer.names)
             /\ i > 1 => FromDuration(answer.points[i - 1].time)
                           < FromDuration(answer.points[i].time)
    BY <2>1, PointsSurvive
  <2>3. \A i \in DOMAIN answer.points :
          /\ Normal(sent.points[i].time)
          /\ FromDuration(sent.points[i].time) = FromDuration(answer.points[i].time)
    <3>1. ASSUME NEW i \in DOMAIN answer.points
          PROVE  FromDuration(answer.points[i].time) % 2 = 0
      BY <2>1, TrajectoryAssumption, WholeNanoseconds
    <3>. QED BY <2>2, <3>1, DurationOf DEF Normal
  <2>4. \A i \in DOMAIN answer.points : i > 1 => i - 1 \in DOMAIN answer.points
    <3>1. \E n \in Nat : DOMAIN answer.points = 1..n
      BY <2>1, TrajectoryAssumption, LenProperties
    <3>. QED BY <3>1
  <2>5. SentAsPlanned
    BY <2>2, <2>3 DEF SentAsPlanned
  <2>6. SentIsExecutable
    BY <2>2, <2>3, <2>4 DEF SentIsExecutable
  <2>7. DurationsAreNormal
    BY <1>1, <2>2, <2>3 DEF DurationsAreNormal
  <2>. QED BY <2>5, <2>6, <2>7 DEF TrajectoriesSurvive
<1>. QED BY <1>2, <1>3

\* What the planner answered is what the executor is sent, for every number of
\* joints and points, every duration and every Giga: no array is lost or given
\* to another point, time increases strictly, every duration is in normal form
\* and is the same instant (from_trajectory_message, to_trajectory_message,
\* to_duration).
THEOREM TrajectoriesAreSentAsPlanned == TrajectorySpec => []TrajectoriesSurvive
<1>1. TrajectoryInit => WireInv
  BY DEF TrajectoryInit, WireInv
<1>2. WireInv /\ [TrajectoryNext]_trajectoryVars => WireInv'
  <2>. SUFFICES ASSUME WireInv, [TrajectoryNext]_trajectoryVars
                PROVE  WireInv'
    OBVIOUS
  <2>1. CASE UNCHANGED trajectoryVars
    BY <2>1 DEF trajectoryVars, WireInv
  <2>2. CASE Receive
    BY <2>2 DEF Receive, WireInv
  <2>3. CASE Send
    BY <2>3 DEF Send, WireInv
  <2>4. CASE AskSolver
    BY <2>4 DEF AskSolver, WireInv
  <2>. QED BY <2>1, <2>2, <2>3, <2>4 DEF TrajectoryNext
<1>. QED BY <1>1, <1>2, WireKeeps, PTL DEF TrajectorySpec

-----------------------------------------------------------------------------
(* Turns: quaternions and the matrices they stand for. *)

\* The matrix of a turn, its diagonal without One.
Entries(q) ==
  LET x == q[1]  y == q[2]  z == q[3]  w == q[4]
  IN  << << x*x + w*w - y*y - z*z,
            2 * (x*y - z*w),
            2 * (x*z + y*w) >>,
         << 2 * (x*y + z*w),
            y*y + w*w - x*x - z*z,
            2 * (y*z - x*w) >>,
         << 2 * (x*z - y*w),
            2 * (y*z + x*w),
            z*z + w*w - x*x - y*y >> >>

\* Whole numbers in all four places.
WholeTurn(q) == \A i \in 1..4 : q[i] \in Int

\* Entry by entry, the product of quaternions stands for the product of their
\* matrices (_multiply).
LEMMA TurnsCompose ==
  ASSUME NEW l, WholeTurn(l), NEW r, WholeTurn(r),
         NEW m, m = Entries(l), NEW n, n = Entries(r),
         NEW p, p = Entries(Hamilton(l, r))
  PROVE  \A i, j \in 1..3 :
           p[i][j] = m[i][1] * n[1][j] + m[i][2] * n[2][j] + m[i][3] * n[3][j]
<1>1. PICK a, b, c, d, e, f, g, h :
        /\ a = l[1] /\ b = l[2] /\ c = l[3] /\ d = l[4]
        /\ e = r[1] /\ f = r[2] /\ g = r[3] /\ h = r[4]
  OBVIOUS
<1>2. /\ a \in Int /\ b \in Int /\ c \in Int /\ d \in Int
      /\ e \in Int /\ f \in Int /\ g \in Int /\ h \in Int
  BY <1>1 DEF WholeTurn
<1>3. PICK s, t, u, v :
        /\ s = d*e + a*h + b*g - c*f /\ t = d*f - a*g + b*h + c*e
        /\ u = d*g + a*f - b*e + c*h /\ v = d*h - a*e - b*f - c*g
  OBVIOUS
<1>4. Hamilton(l, r) = <<s, t, u, v>>
  BY <1>1, <1>3 DEF Hamilton
<1>5. /\ m[1][1] = a*a + d*d - b*b - c*c
      /\ m[1][2] = 2 * (a*b - c*d)
      /\ m[1][3] = 2 * (a*c + b*d)
      /\ m[2][1] = 2 * (a*b + c*d)
      /\ m[2][2] = b*b + d*d - a*a - c*c
      /\ m[2][3] = 2 * (b*c - a*d)
      /\ m[3][1] = 2 * (a*c - b*d)
      /\ m[3][2] = 2 * (b*c + a*d)
      /\ m[3][3] = c*c + d*d - a*a - b*b
  BY <1>1 DEF Entries
<1>6. /\ n[1][1] = e*e + h*h - f*f - g*g
      /\ n[1][2] = 2 * (e*f - g*h)
      /\ n[1][3] = 2 * (e*g + f*h)
      /\ n[2][1] = 2 * (e*f + g*h)
      /\ n[2][2] = f*f + h*h - e*e - g*g
      /\ n[2][3] = 2 * (f*g - e*h)
      /\ n[3][1] = 2 * (e*g - f*h)
      /\ n[3][2] = 2 * (f*g + e*h)
      /\ n[3][3] = g*g + h*h - e*e - f*f
  BY <1>1 DEF Entries
<1>7. /\ p[1][1] = s*s + v*v - t*t - u*u
      /\ p[1][2] = 2 * (s*t - u*v)
      /\ p[1][3] = 2 * (s*u + t*v)
      /\ p[2][1] = 2 * (s*t + u*v)
      /\ p[2][2] = t*t + v*v - s*s - u*u
      /\ p[2][3] = 2 * (t*u - s*v)
      /\ p[3][1] = 2 * (s*u - t*v)
      /\ p[3][2] = 2 * (t*u + s*v)
      /\ p[3][3] = u*u + v*v - s*s - t*t
  BY <1>4 DEF Entries
<1>8. p[1][1] = m[1][1] * n[1][1] + m[1][2] * n[2][1] + m[1][3] * n[3][1]
  BY <1>2, <1>3, <1>5, <1>6, <1>7
<1>9. p[1][2] = m[1][1] * n[1][2] + m[1][2] * n[2][2] + m[1][3] * n[3][2]
  BY <1>2, <1>3, <1>5, <1>6, <1>7
<1>10. p[1][3] = m[1][1] * n[1][3] + m[1][2] * n[2][3] + m[1][3] * n[3][3]
  BY <1>2, <1>3, <1>5, <1>6, <1>7
<1>11. p[2][1] = m[2][1] * n[1][1] + m[2][2] * n[2][1] + m[2][3] * n[3][1]
  BY <1>2, <1>3, <1>5, <1>6, <1>7
<1>12. p[2][2] = m[2][1] * n[1][2] + m[2][2] * n[2][2] + m[2][3] * n[3][2]
  BY <1>2, <1>3, <1>5, <1>6, <1>7
<1>13. p[2][3] = m[2][1] * n[1][3] + m[2][2] * n[2][3] + m[2][3] * n[3][3]
  BY <1>2, <1>3, <1>5, <1>6, <1>7
<1>14. p[3][1] = m[3][1] * n[1][1] + m[3][2] * n[2][1] + m[3][3] * n[3][1]
  BY <1>2, <1>3, <1>5, <1>6, <1>7
<1>15. p[3][2] = m[3][1] * n[1][2] + m[3][2] * n[2][2] + m[3][3] * n[3][2]
  BY <1>2, <1>3, <1>5, <1>6, <1>7
<1>16. p[3][3] = m[3][1] * n[1][3] + m[3][2] * n[2][3] + m[3][3] * n[3][3]
  BY <1>2, <1>3, <1>5, <1>6, <1>7
<1>. QED BY <1>8, <1>9, <1>10, <1>11, <1>12, <1>13, <1>14, <1>15, <1>16

\* A quaternion k times as long stands for k * k times the matrix.
LEMMA TurnsScale ==
  ASSUME NEW q, WholeTurn(q), NEW k \in Int, NEW t, \A i \in 1..4 : t[i] = k * q[i],
         NEW m, m = Entries(q), NEW n, n = Entries(t)
  PROVE  \A i, j \in 1..3 : n[i][j] = (k * k) * m[i][j] /\ m[i][j] \in Int
<1>1. PICK a, b, c, d : a = q[1] /\ b = q[2] /\ c = q[3] /\ d = q[4]
  OBVIOUS
<1>2. /\ a \in Int /\ b \in Int /\ c \in Int /\ d \in Int
      /\ t[1] = k * a /\ t[2] = k * b /\ t[3] = k * c /\ t[4] = k * d
  BY <1>1 DEF WholeTurn
<1>3. /\ m[1][1] = a*a + d*d - b*b - c*c
      /\ m[1][2] = 2 * (a*b - c*d)
      /\ m[1][3] = 2 * (a*c + b*d)
      /\ m[2][1] = 2 * (a*b + c*d)
      /\ m[2][2] = b*b + d*d - a*a - c*c
      /\ m[2][3] = 2 * (b*c - a*d)
      /\ m[3][1] = 2 * (a*c - b*d)
      /\ m[3][2] = 2 * (b*c + a*d)
      /\ m[3][3] = c*c + d*d - a*a - b*b
  BY <1>1 DEF Entries
<1>4. /\ n[1][1] = (k * a)*(k * a) + (k * d)*(k * d) - (k * b)*(k * b) - (k * c)*(k * c)
      /\ n[1][2] = 2 * ((k * a)*(k * b) - (k * c)*(k * d))
      /\ n[1][3] = 2 * ((k * a)*(k * c) + (k * b)*(k * d))
      /\ n[2][1] = 2 * ((k * a)*(k * b) + (k * c)*(k * d))
      /\ n[2][2] = (k * b)*(k * b) + (k * d)*(k * d) - (k * a)*(k * a) - (k * c)*(k * c)
      /\ n[2][3] = 2 * ((k * b)*(k * c) - (k * a)*(k * d))
      /\ n[3][1] = 2 * ((k * a)*(k * c) - (k * b)*(k * d))
      /\ n[3][2] = 2 * ((k * b)*(k * c) + (k * a)*(k * d))
      /\ n[3][3] = (k * c)*(k * c) + (k * d)*(k * d) - (k * a)*(k * a) - (k * b)*(k * b)
  BY <1>2 DEF Entries
<1>5. n[1][1] = (k * k) * m[1][1] /\ m[1][1] \in Int
  BY <1>2, <1>3, <1>4
<1>6. n[1][2] = (k * k) * m[1][2] /\ m[1][2] \in Int
  BY <1>2, <1>3, <1>4
<1>7. n[1][3] = (k * k) * m[1][3] /\ m[1][3] \in Int
  BY <1>2, <1>3, <1>4
<1>8. n[2][1] = (k * k) * m[2][1] /\ m[2][1] \in Int
  BY <1>2, <1>3, <1>4
<1>9. n[2][2] = (k * k) * m[2][2] /\ m[2][2] \in Int
  BY <1>2, <1>3, <1>4
<1>10. n[2][3] = (k * k) * m[2][3] /\ m[2][3] \in Int
  BY <1>2, <1>3, <1>4
<1>11. n[3][1] = (k * k) * m[3][1] /\ m[3][1] \in Int
  BY <1>2, <1>3, <1>4
<1>12. n[3][2] = (k * k) * m[3][2] /\ m[3][2] \in Int
  BY <1>2, <1>3, <1>4
<1>13. n[3][3] = (k * k) * m[3][3] /\ m[3][3] \in Int
  BY <1>2, <1>3, <1>4
<1>. QED BY <1>5, <1>6, <1>7, <1>8, <1>9, <1>10, <1>11, <1>12, <1>13

\* The matrix of a turn is that of its quaternion.
LEMMA MatrixIs ==
  ASSUME NEW q \in Turn
  PROVE  Matrix(q) = Entries(q) /\ WholeTurn(q)
<1>1. PICK x, y, z, w : x = q[1] /\ y = q[2] /\ z = q[3] /\ w = q[4]
  OBVIOUS
<1>2. /\ x \in Int /\ y \in Int /\ z \in Int /\ w \in Int
      /\ x*x + y*y + z*z + w*w = One * One
  BY <1>1, SceneWireAssumption DEF SquaredNorm
<1>3. /\ One * One - 2 * (y*y + z*z) = x*x + w*w - y*y - z*z
      /\ One * One - 2 * (x*x + z*z) = y*y + w*w - x*x - z*z
      /\ One * One - 2 * (x*x + y*y) = z*z + w*w - x*x - y*y
  BY <1>2
<1>4. Matrix(q) = Entries(q)
  BY <1>1, <1>3 DEF Matrix, Entries
<1>. QED BY <1>4, SceneWireAssumption DEF WholeTurn

\* Whole multiples of the divisor leave it.
LEMMA Quotient ==
  ASSUME NEW N \in Nat \ {0}, NEW k \in Int, NEW x \in Int
  PROVE  (N * k + x) \div N = k + (x \div N)
<1>1. PICK d, m, e, n :
        /\ d = (N * k + x) \div N /\ m = (N * k + x) % N
        /\ e = x \div N /\ n = x % N
  OBVIOUS
<1>2. N * k + x \in Int
  OBVIOUS
<1>3. /\ d \in Int /\ m \in 0..(N - 1) /\ N * k + x = N * d + m
      /\ e \in Int /\ n \in 0..(N - 1) /\ x = N * e + n
  BY <1>1, <1>2, Divided
<1>4. PICK u \in Int : u = d - k - e
  BY <1>3
<1>5. N * u = n - m
  <2>1. N * (d - k - e) = N * d - N * k - N * e
    BY <1>3
  <2>. QED BY <1>3, <1>4, <2>1
<1>6. ~(u >= 1)
  BY <1>3, <1>5
<1>7. ~(u <= -1)
  BY <1>3, <1>5
<1>8. u = 0
  BY <1>6, <1>7
<1>. QED BY <1>1, <1>3, <1>4, <1>8

\* The product of two turns stands for the product of their matrices, without a
\* remainder.
LEMMA ProductIs ==
  ASSUME NEW l \in Turn, NEW r \in Turn
  PROVE  Matrix(Multiply(l, r)) = Product(Matrix(l), Matrix(r))
<1>1. PICK p, t : p = Multiply(l, r) /\ t = Hamilton(l, r)
  OBVIOUS
<1>2. PICK m, n, k, q :
        m = Entries(l) /\ n = Entries(r) /\ k = Entries(p) /\ q = Entries(t)
  OBVIOUS
<1>3. p \in Turn
  BY <1>1, SceneWireAssumption
<1>4. Matrix(l) = m /\ Matrix(r) = n /\ Matrix(p) = k
  BY <1>2, <1>3, MatrixIs
<1>5. WholeTurn(l) /\ WholeTurn(r) /\ WholeTurn(p)
  BY <1>3, MatrixIs
<1>6. One \in Nat \ {0} /\ One \in Int
  BY DomainAssumption
<1>7. ASSUME NEW i \in 1..4
      PROVE  t[i] = One * p[i]
  <2>1. t[i] \in Int
    <3>1. /\ l[1] \in Int /\ l[2] \in Int /\ l[3] \in Int /\ l[4] \in Int
          /\ r[1] \in Int /\ r[2] \in Int /\ r[3] \in Int /\ r[4] \in Int
      BY <1>5 DEF WholeTurn
    <3>. QED BY <1>1, <3>1 DEF Hamilton
  <2>2. t[i] % One = 0
    BY <1>1, SceneWireAssumption
  <2>3. t[i] = One * (t[i] \div One) + (t[i] % One) /\ t[i] \div One \in Int
    BY <1>6, <2>1, Divided
  <2>4. p[i] = t[i] \div One
    BY <1>1 DEF Multiply
  <2>. QED BY <1>6, <2>2, <2>3, <2>4
<1>8. \A i, j \in 1..3 :
         q[i][j] = m[i][1] * n[1][j] + m[i][2] * n[2][j] + m[i][3] * n[3][j]
  BY <1>1, <1>2, <1>5, TurnsCompose
<1>9. \A i, j \in 1..3 : q[i][j] = (One * One) * k[i][j] /\ k[i][j] \in Int
  BY <1>2, <1>5, <1>6, <1>7, TurnsScale
<1>10. ASSUME NEW i \in 1..3, NEW j \in 1..3
       PROVE  (m[i][1] * n[1][j] + m[i][2] * n[2][j] + m[i][3] * n[3][j])
                \div (One * One) = k[i][j]
  <2>1. PICK N, x : N = One * One /\ x = k[i][j]
    OBVIOUS
  <2>2. N \in Nat \ {0} /\ x \in Int
    BY <1>6, <1>9, <2>1
  <2>3. (N * x + 0) \div N = x + (0 \div N)
    BY <2>2, Quotient
  <2>4. 0 \div N = 0
    BY <2>2
  <2>5. m[i][1] * n[1][j] + m[i][2] * n[2][j] + m[i][3] * n[3][j] = N * x + 0
    <3>1. q[i][j] = N * x
      BY <1>9, <2>1
    <3>2. N * x + 0 = N * x
      BY <2>2
    <3>. QED BY <1>8, <3>1, <3>2
  <2>6. (m[i][1] * n[1][j] + m[i][2] * n[2][j] + m[i][3] * n[3][j]) \div N = x
    BY <2>2, <2>3, <2>4, <2>5
  <2>. QED BY <2>1, <2>6
<1>11. Product(m, n) = [i \in 1..3 |-> [j \in 1..3 |-> k[i][j]]]
  BY <1>10 DEF Product
<1>17. k = [i \in 1..3 |-> [j \in 1..3 |-> k[i][j]]]
  BY <1>2 DEF Entries
<1>. QED BY <1>1, <1>4, <1>11, <1>17

\* Rotating a vector is applying the matrix (_rotate).
LEMMA RotationIs ==
  ASSUME NEW q \in Turn, NEW v, \A i \in 1..3 : v[i] \in Int
  PROVE  \A i \in 1..3 : /\ Rotate(q, v)[i] = Times(Matrix(q), v)[i]
                        /\ Rotate(q, v)[i] \in Int
<1>1. PICK x, y, z, w, a, b, c, N :
        /\ x = q[1] /\ y = q[2] /\ z = q[3] /\ w = q[4]
        /\ a = v[1] /\ b = v[2] /\ c = v[3] /\ N = One * One
  OBVIOUS
<1>2. /\ x \in Int /\ y \in Int /\ z \in Int /\ w \in Int
      /\ a \in Int /\ b \in Int /\ c \in Int /\ N \in Nat \ {0}
  BY <1>1, MatrixIs, DomainAssumption DEF WholeTurn
<1>3. PICK tx, ty, tz :
        /\ tx = 2 * (y*c - z*b) /\ ty = 2 * (z*a - x*c) /\ tz = 2 * (x*b - y*a)
  OBVIOUS
<1>4. PICK k1, k2, k3 :
        /\ k1 = w*tx + y*tz - z*ty /\ k2 = w*ty + z*tx - x*tz
        /\ k3 = w*tz + x*ty - y*tx
  OBVIOUS
<1>5. k1 \in Int /\ k2 \in Int /\ k3 \in Int
  BY <1>2, <1>3, <1>4
<1>6. Rotate(q, v) = << a + (k1 \div N), b + (k2 \div N), c + (k3 \div N) >>
  BY <1>1, <1>3, <1>4 DEF Rotate
<1>7. /\ N * a + k1 = (N - 2 * (y*y + z*z)) * a + (2 * (x*y - z*w)) * b
                        + (2 * (x*z + y*w)) * c
      /\ N * b + k2 = (2 * (x*y + z*w)) * a + (N - 2 * (x*x + z*z)) * b
                        + (2 * (y*z - x*w)) * c
      /\ N * c + k3 = (2 * (x*z - y*w)) * a + (2 * (y*z + x*w)) * b
                        + (N - 2 * (x*x + y*y)) * c
  BY <1>2, <1>3, <1>4
<1>8. /\ (N * a + k1) \div N = a + (k1 \div N)
      /\ (N * b + k2) \div N = b + (k2 \div N)
      /\ (N * c + k3) \div N = c + (k3 \div N)
  BY <1>2, <1>5, Quotient
<1>9. PICK m : m = Matrix(q)
  OBVIOUS
<1>10. /\ m[1][1] = N - 2*(y*y + z*z) /\ m[1][2] = 2*(x*y - z*w)
       /\ m[1][3] = 2*(x*z + y*w) /\ m[2][1] = 2*(x*y + z*w)
       /\ m[2][2] = N - 2*(x*x + z*z) /\ m[2][3] = 2*(y*z - x*w)
       /\ m[3][1] = 2*(x*z - y*w) /\ m[3][2] = 2*(y*z + x*w)
       /\ m[3][3] = N - 2*(x*x + y*y)
  BY <1>1, <1>9 DEF Matrix
<1>11. /\ Times(m, v)[1] = (N * a + k1) \div N
       /\ Times(m, v)[2] = (N * b + k2) \div N
       /\ Times(m, v)[3] = (N * c + k3) \div N
  BY <1>1, <1>7, <1>10 DEF Times
<1>12. /\ a + (k1 \div N) \in Int /\ b + (k2 \div N) \in Int
       /\ c + (k3 \div N) \in Int
  BY <1>2, <1>5, Divided
<1>. QED BY <1>6, <1>8, <1>9, <1>11, <1>12

\* A pose composed with another is the one motion after the other
\* (_compose_pose), and again a place of that kind.
LEMMA ComposedIs ==
  ASSUME NEW p, NEW c, Placeable(p), Placeable(c)
  PROVE  /\ Motion(Compose(p, c)) = Onto(Motion(p), Motion(c))
         /\ Placeable(Compose(p, c))
<1>1. PICK o : o = Compose(p, c)
  OBVIOUS
<1>2. /\ o.turn = Multiply(p.turn, c.turn)
      /\ o.point = Moved(p.point, Rotate(p.turn, c.point))
  BY <1>1 DEF Compose
<1>3. /\ p.turn \in Turn /\ c.turn \in Turn
      /\ \A i \in 1..3 : p.point[i] \in Int /\ c.point[i] \in Int
  BY DEF Placeable
<1>4. \A i \in 1..3 :
        /\ Rotate(p.turn, c.point)[i] = Times(Matrix(p.turn), c.point)[i]
        /\ Rotate(p.turn, c.point)[i] \in Int
  BY <1>3, RotationIs
<1>5. o.point = Moved(p.point, Times(Matrix(p.turn), c.point))
  BY <1>2, <1>4 DEF Moved
<1>6. Matrix(o.turn) = Product(Matrix(p.turn), Matrix(c.turn))
  BY <1>2, <1>3, ProductIs
<1>7. Motion(o) = Onto(Motion(p), Motion(c))
  BY <1>5, <1>6 DEF Motion, Onto
<1>8. o.turn \in Turn
  BY <1>2, <1>3, SceneWireAssumption
<1>9. o.point \in [1..3 -> Int]
  BY <1>2, <1>3, <1>4 DEF Moved
<1>. QED BY <1>1, <1>7, <1>8, <1>9 DEF Placeable

-----------------------------------------------------------------------------
(* The scene. *)

\* What MoveIt has is where the truth says it is, and what was read is where it
\* was then.
SceneWireInv ==
  /\ DOMAIN truth = NamesIn(world)
  /\ \A m \in world : PlaceableObject(m) /\ truth[m.id] = Solid(m)
  /\ snap # None =>
       /\ {o.id : o \in snap.objects} = DOMAIN seen
       /\ \A o \in snap.objects :
            Placeable(o.pose) /\ Motion(o.pose) = seen[o.id]

\* A frame does not move anything.
LEMMA FramesStandStill ==
  ASSUME NEW m, NEW p, Placeable(p), NEW q,
         q = [frame |-> m.frame, point |-> p.point, turn |-> p.turn]
  PROVE  Placeable(q) /\ Motion(q) = Motion(p)
BY DEF Placeable, Motion

\* An object is read where its solid is (_object_pose, _compose_pose).
LEMMA ReadInPlace ==
  ASSUME NEW m, PlaceableObject(m)
  PROVE  Placeable(FromObject(m).pose) /\ Motion(FromObject(m).pose) = Solid(m)
<1>. DEFINE framed(p) == [frame |-> m.frame, point |-> p.point, turn |-> p.turn]
<1>1. FromObject(m).pose = Placement(m)
  BY DEF FromObject
<1>2. CASE m.poses = <<>>
  <2>1. Placement(m) = framed(m.pose)
    BY <1>2 DEF Placement
  <2>2. Placeable(framed(m.pose)) /\ Motion(framed(m.pose)) = Motion(m.pose)
    BY FramesStandStill DEF PlaceableObject
  <2>3. Solid(m) = Motion(m.pose)
    BY <1>2 DEF Solid
  <2>. QED BY <1>1, <2>1, <2>2, <2>3
<1>3. CASE m.poses # <<>>
  <2>1. Placement(m) = Compose(framed(m.pose), framed(m.poses[1]))
    BY <1>3 DEF Placement
  <2>2. /\ Placeable(framed(m.pose)) /\ Motion(framed(m.pose)) = Motion(m.pose)
        /\ Placeable(framed(m.poses[1]))
        /\ Motion(framed(m.poses[1])) = Motion(m.poses[1])
    BY <1>3, FramesStandStill DEF PlaceableObject
  <2>3. Solid(m) = Onto(Motion(m.pose), Motion(m.poses[1]))
    BY <1>3 DEF Solid
  <2>. HIDE DEF framed
  <2>. QED BY <1>1, <2>1, <2>2, <2>3, ComposedIs
<1>. QED BY <1>2, <1>3

\* What is applied is where the caller put it, or read it: the object's pose is
\* the identity, and the primitive has the place (to_collision_object_message).
LEMMA AppliedInPlace ==
  ASSUME NEW o, Placeable(o.pose)
  PROVE  /\ PlaceableObject(ToObject(o)) /\ ToObject(o).id = o.id
         /\ Solid(ToObject(o)) = Motion(o.pose)
<1>1. PICK m, p : m = ToObject(o) /\ p = [point |-> o.pose.point, turn |-> o.pose.turn]
  OBVIOUS
<1>2. m.id = o.id /\ m.pose = Identity /\ m.poses = <<p>>
  BY <1>1 DEF ToObject
<1>3. m.poses # <<>> /\ m.poses[1] = p
  BY <1>2
<1>4. Placeable(Identity)
  <2>1. Identity.point \in [1..3 -> Int]
    BY DEF Identity
  <2>. QED BY <2>1, SceneWireAssumption DEF Placeable
<1>5. Placeable(p) /\ Motion(p) = Motion(o.pose)
  BY <1>1 DEF Placeable, Motion
<1>6. PlaceableObject(m)
  BY <1>2, <1>3, <1>4, <1>5 DEF PlaceableObject
<1>7. Solid(m) = Onto(Motion(Identity), Motion(p))
  BY <1>2, <1>3 DEF Solid
<1>8. PICK N, e, k, v :
        /\ N = One * One /\ e = Matrix(Identity.turn)
        /\ k = Matrix(p.turn) /\ v = p.point
  OBVIOUS
<1>9. N \in Nat \ {0}
  BY <1>8, DomainAssumption
<1>10. /\ e[1][1] = N /\ e[1][2] = 0 /\ e[1][3] = 0
       /\ e[2][1] = 0 /\ e[2][2] = N /\ e[2][3] = 0
       /\ e[3][1] = 0 /\ e[3][2] = 0 /\ e[3][3] = N
  <2>1. /\ Identity.turn[1] = 0 /\ Identity.turn[2] = 0
        /\ Identity.turn[3] = 0 /\ Identity.turn[4] = One
    BY DEF Identity
  <2>. QED BY <1>8, <1>9, <2>1, DomainAssumption DEF Matrix
<1>11. \A i, j \in 1..3 : k[i][j] \in Int
  <2>1. p.turn \in Turn
    BY <1>5 DEF Placeable
  <2>2. k = Entries(p.turn) /\ WholeTurn(p.turn)
    BY <1>8, <2>1, MatrixIs
  <2>3. PICK q : q = p.turn
    OBVIOUS
  <2>4. \A i \in 1..4 : q[i] = 1 * q[i]
    BY <2>2, <2>3 DEF WholeTurn
  <2>. QED BY <2>2, <2>3, <2>4, TurnsScale
<1>12. \A x \in Int : (N * x) \div N = x
  <2>1. ASSUME NEW x \in Int PROVE (N * x) \div N = x
    <3>1. (N * x + 0) \div N = x + (0 \div N)
      BY <1>9, Quotient
    <3>2. 0 \div N = 0
      BY <1>9
    <3>3. N * x + 0 = N * x
      BY <1>9
    <3>. QED BY <3>1, <3>2, <3>3
  <2>. QED BY <2>1
<1>13. \A i, j \in 1..3 : Product(e, k)[i][j] = k[i][j]
  <2>1. ASSUME NEW i \in 1..3, NEW j \in 1..3
        PROVE  Product(e, k)[i][j] = k[i][j]
    <3>1. Product(e, k)[i][j]
            = (e[i][1]*k[1][j] + e[i][2]*k[2][j] + e[i][3]*k[3][j]) \div N
      BY <1>8 DEF Product
    <3>2. k[1][j] \in Int /\ k[2][j] \in Int /\ k[3][j] \in Int
      BY <1>11
    <3>3. e[i][1]*k[1][j] + e[i][2]*k[2][j] + e[i][3]*k[3][j] = N * k[i][j]
      <4>1. CASE i = 1
        BY <1>9, <1>10, <3>2, <4>1
      <4>2. CASE i = 2
        BY <1>9, <1>10, <3>2, <4>2
      <4>3. CASE i = 3
        BY <1>9, <1>10, <3>2, <4>3
      <4>. QED BY <4>1, <4>2, <4>3
    <3>. QED BY <1>11, <1>12, <3>1, <3>3
  <2>. QED BY <2>1
<1>14. Product(e, k) = k
  <2>1. k = [i \in 1..3 |-> [j \in 1..3 |-> k[i][j]]]
    <3>1. ASSUME NEW a, NEW b, NEW c
          PROVE  <<a, b, c>> = [i \in 1..3 |-> <<a, b, c>>[i]]
      OBVIOUS
    <3>2. PICK a, b, c : k = <<a, b, c>>
                         /\ \E x, y, z : a = <<x, y, z>>
                         /\ \E u, s, t : b = <<u, s, t>>
                         /\ \E f, g, h : c = <<f, g, h>>
      BY <1>8, Zenon DEF Matrix
    <3>3. /\ a = [j \in 1..3 |-> a[j]] /\ b = [j \in 1..3 |-> b[j]]
          /\ c = [j \in 1..3 |-> c[j]]
      BY <3>1, <3>2
    <3>4. k[1] = a /\ k[2] = b /\ k[3] = c
      BY <3>2
    <3>5. \A i \in 1..3 : k[i] = [j \in 1..3 |-> k[i][j]]
      BY <3>3, <3>4
    <3>6. k = [i \in 1..3 |-> k[i]]
      BY <3>1, <3>2
    <3>. QED BY <3>5, <3>6
  <2>2. Product(e, k) = [i \in 1..3 |-> [j \in 1..3 |-> k[i][j]]]
    BY <1>13 DEF Product
  <2>. QED BY <2>1, <2>2
<1>15. Moved(Identity.point, Times(e, v)) = v
  <2>1. v[1] \in Int /\ v[2] \in Int /\ v[3] \in Int
    BY <1>5, <1>8 DEF Placeable
  <2>2. \A i \in 1..3 : Identity.point[i] = 0
    BY DEF Identity
  <2>3. ASSUME NEW i \in 1..3
        PROVE  Times(e, v)[i] = v[i]
    <3>1. Times(e, v)[i] = (e[i][1]*v[1] + e[i][2]*v[2] + e[i][3]*v[3]) \div N
      BY <1>8 DEF Times
    <3>2. e[i][1]*v[1] + e[i][2]*v[2] + e[i][3]*v[3] = N * v[i]
      <4>1. CASE i = 1
        BY <1>9, <1>10, <2>1, <4>1
      <4>2. CASE i = 2
        BY <1>9, <1>10, <2>1, <4>2
      <4>3. CASE i = 3
        BY <1>9, <1>10, <2>1, <4>3
      <4>. QED BY <4>1, <4>2, <4>3
    <3>3. v[i] \in Int
      BY <2>1
    <3>. QED BY <1>12, <3>1, <3>2, <3>3
  <2>4. v = [i \in 1..3 |-> v[i]]
    BY <1>5, <1>8 DEF Placeable
  <2>5. Moved(Identity.point, Times(e, v)) = [i \in 1..3 |-> v[i]]
    BY <2>1, <2>2, <2>3 DEF Moved
  <2>. QED BY <2>4, <2>5
<1>16. Solid(m) = [matrix |-> k, shift |-> v]
  BY <1>7, <1>8, <1>14, <1>15 DEF Onto, Motion
<1>17. Motion(p) = [matrix |-> k, shift |-> v]
  BY <1>8 DEF Motion
<1>. QED BY <1>1, <1>2, <1>5, <1>6, <1>16, <1>17

\* Something is put in the scene, or moved in it.
LEMMA PutKeepsTruth ==
  ASSUME SceneWireInv, NEW m, Put(m), PlaceableObject(m)
  PROVE  SceneWireInv'
<1>1. /\ world' = {x \in world : x.id # m.id} \cup {m}
      /\ truth' = [id \in NamesIn(world') |->
                     IF id = m.id THEN Solid(m) ELSE truth[id]]
      /\ snap' = snap /\ seen' = seen
  BY DEF Put
<1>2. DOMAIN truth' = NamesIn(world')
  BY <1>1
<1>3. ASSUME NEW x \in world'
      PROVE  PlaceableObject(x) /\ truth'[x.id] = Solid(x)
  <2>1. x.id \in NamesIn(world')
    BY DEF NamesIn
  <2>2. CASE x = m
    BY <1>1, <2>1, <2>2
  <2>3. CASE x # m
    <3>1. x \in world /\ x.id # m.id
      BY <1>1, <1>3, <2>3
    <3>2. PlaceableObject(x) /\ truth[x.id] = Solid(x)
      BY <3>1 DEF SceneWireInv
    <3>. QED BY <1>1, <2>1, <3>1, <3>2
  <2>. QED BY <2>2, <2>3
<1>. QED BY <1>1, <1>2, <1>3 DEF SceneWireInv, NamesIn

\* The inductive step.
LEMMA SceneWireStep ==
  ASSUME SceneWireInv, [SceneNext]_sceneVars
  PROVE  SceneWireInv'
<1>1. CASE UNCHANGED sceneVars
  BY <1>1 DEF sceneVars, SceneWireInv, NamesIn
<1>2. ASSUME NEW o, Placeable(o.pose), Apply(o)
      PROVE  SceneWireInv'
  <2>1. Put(ToObject(o))
    BY <1>2 DEF Apply
  <2>2. PlaceableObject(ToObject(o))
    BY <1>2, AppliedInPlace
  <2>. QED BY <2>1, <2>2, PutKeepsTruth
<1>3. ASSUME NEW o \in Start, Apply(o)
      PROVE  SceneWireInv'
  BY <1>2, <1>3, SceneWireAssumption
<1>4. ASSUME NEW o \in snap.objects, snap # None, Apply(o)
      PROVE  SceneWireInv'
  <2>1. Placeable(o.pose)
    BY <1>4 DEF SceneWireInv
  <2>. QED BY <1>2, <1>4, <2>1
<1>5. ASSUME NEW id \in NamesIn(world), Remove(id)
      PROVE  SceneWireInv'
  <2>1. /\ world' = {x \in world : x.id # id}
        /\ truth' = [x \in NamesIn(world') |-> truth[x]]
        /\ snap' = snap /\ seen' = seen
    BY <1>5 DEF Remove
  <2>2. ASSUME NEW x \in world'
        PROVE  PlaceableObject(x) /\ truth'[x.id] = Solid(x)
    <3>1. x.id \in NamesIn(world')
      BY DEF NamesIn
    <3>2. x \in world
      BY <2>1
    <3>3. PlaceableObject(x) /\ truth[x.id] = Solid(x)
      BY <3>2 DEF SceneWireInv
    <3>. QED BY <2>1, <3>1, <3>3
  <2>. QED BY <2>1, <2>2 DEF SceneWireInv, NamesIn
<1>6. ASSUME NEW m \in Foreign, Put(m)
      PROVE  SceneWireInv'
  BY <1>6, PutKeepsTruth, SceneWireAssumption
<1>7. ASSUME NEW m \in world, NEW p \in Pose, Relocate(m, p)
      PROVE  SceneWireInv'
  <2>1. PICK n : n = [m EXCEPT !.pose = p]
    OBVIOUS
  <2>2. Put(n)
    BY <1>7, <2>1 DEF Relocate
  <2>3. PlaceableObject(m) /\ Placeable(p)
    BY SceneWireAssumption DEF SceneWireInv
  <2>4. PlaceableObject(n)
    BY <2>1, <2>3 DEF PlaceableObject
  <2>. QED BY <2>2, <2>4, PutKeepsTruth
<1>8. CASE Read
  <2>1. /\ snap' \in {None, FromScene(world, NoState, <<"revision">>)}
        /\ seen' = truth /\ world' = world /\ truth' = truth
    BY <1>8 DEF Read
  <2>2. ASSUME snap' # None
        PROVE  /\ {o.id : o \in snap'.objects} = DOMAIN seen'
               /\ \A o \in snap'.objects :
                    Placeable(o.pose) /\ Motion(o.pose) = seen'[o.id]
    <3>1. snap'.objects = {FromObject(m) : m \in world}
      BY <2>1, <2>2 DEF FromScene
    <3>2. \A m : FromObject(m).id = m.id
      BY DEF FromObject
    <3>3. {o.id : o \in snap'.objects} = NamesIn(world)
      BY <3>1, <3>2 DEF NamesIn
    <3>4. ASSUME NEW m \in world
          PROVE  /\ Placeable(FromObject(m).pose)
                 /\ Motion(FromObject(m).pose) = truth[m.id]
      BY ReadInPlace DEF SceneWireInv
    <3>. QED BY <2>1, <3>1, <3>2, <3>3, <3>4 DEF SceneWireInv
  <2>3. /\ DOMAIN truth = NamesIn(world)
        /\ \A m \in world : PlaceableObject(m) /\ truth[m.id] = Solid(m)
    BY DEF SceneWireInv
  <2>. QED BY <2>1, <2>2, <2>3 DEF SceneWireInv, NamesIn
<1>. QED BY <1>1, <1>3, <1>4, <1>5, <1>6, <1>7, <1>8 DEF SceneNext

\* Objects that are read, and objects that are applied again, however often
\* other nodes move them in between: what MoveIt has is where the truth says it
\* is, and what was read is where it was when it was read.
THEOREM SceneWireInvariant == SceneSpec => []SceneWireInv
<1>1. SceneInit => SceneWireInv
  <2>. SUFFICES ASSUME SceneInit PROVE SceneWireInv
    OBVIOUS
  <2>1. DOMAIN truth = {} /\ NamesIn(world) = {}
    BY DEF SceneInit, NamesIn
  <2>. QED BY <2>1 DEF SceneInit, SceneWireInv
<1>2. SceneWireInv /\ [SceneNext]_sceneVars => SceneWireInv'
  BY SceneWireStep
<1>. QED BY <1>1, <1>2, PTL DEF SceneSpec

\* A scene is read whole and every object in it where its solid is: the
\* quaternion arithmetic of the conversions composes poses in the right order,
\* for any number of objects and any group of turns.
THEOREM ScenesAreReadInPlace == SceneSpec => []ScenesAreRead
<1>1. SceneWireInv => ScenesAreRead
  BY DEF SceneWireInv, ScenesAreRead, ReadWhereItIs, NothingOmitted
<1>. QED BY <1>1, SceneWireInvariant, PTL

\* An object that is read, edited and applied again stays where it was.
THEOREM WhatIsReadCanBeApplied == SceneSpec => ReapplyingKeepsPlace
<1>1. SceneWireInv /\ SceneWireInv' /\ [SceneNext]_sceneVars
        => [\A id \in DOMAIN truth :
              /\ id \in DOMAIN truth'
              /\ snap # None /\ seen = truth
              /\ \E o \in snap.objects : o.id = id /\ ToObject(o) \in world' \ world
              => truth'[id] = truth[id]]_sceneVars
  <2>. SUFFICES ASSUME SceneWireInv, SceneWireInv', NEW id \in DOMAIN truth,
                       snap # None, seen = truth, NEW o \in snap.objects,
                       o.id = id, ToObject(o) \in world'
                PROVE  truth'[id] = truth[id]
    OBVIOUS
  <2>1. Placeable(o.pose) /\ Motion(o.pose) = truth[id]
    BY DEF SceneWireInv
  <2>2. ToObject(o).id = id /\ Solid(ToObject(o)) = Motion(o.pose)
    BY <2>1, AppliedInPlace
  <2>3. PICK m : m = ToObject(o) /\ m \in world'
    OBVIOUS
  <2>4. truth'[m.id] = Solid(m)
    BY <2>3 DEF SceneWireInv
  <2>. QED BY <2>1, <2>2, <2>3, <2>4
<1>. QED BY <1>1, SceneWireInvariant, PTL DEF SceneSpec, ReapplyingKeepsPlace
=============================================================================
