----------------------- MODULE ExecutionOutcomeProofs -----------------------
(***************************************************************************)
(* Proofs about what an execution comes to: how the records of the         *)
(* service, the account the adapter keeps and the goals of MoveIt go       *)
(* together, for every number of executions and every capacity.            *)
(*                                                                         *)
(* None of the properties is inductive by itself, for each speaks of the   *)
(* end of an execution only.  CausalInv says what holds at every stage:    *)
(* nothing is on record before the goal is sent, the adapter follows       *)
(* exactly the execution whose task waits, a stop on its way belongs to    *)
(* that execution or the backend is quarantined, and no other accepted     *)
(* goal is executing while it waits.  What needs a fault to be absent      *)
(* names it.                                                               *)
(*                                                                         *)
(* At the end: every step of the service is a step of the contract it has  *)
(* with its clients (ExecutionContract) on what the records tell, or       *)
(* changes nothing there.  That every execution ends is liveness, and      *)
(* TLC's to check.                                                         *)
(***************************************************************************)
EXTENDS ExecutionWorkflowProofs, FiniteSetTheorems

-----------------------------------------------------------------------------
(* The inductive invariant. *)

LateAcceptance == "late_acceptance" \in Faults
WaitError == "wait_error" \in Faults

\* Suspended before anything was sent.
Early == {"idle", "validating", "reading_state", "reading_scene"}

\* What MoveIt knows of a goal, by what became of sending it.
GoalFollows(x) ==
  /\ sending[x] \in {"idle", "discovering", "unavailable"} => goal[x] = "none"
  /\ sending[x] = "sent" => goal[x] = "requested"
  /\ sending[x] = "accepted" => Started(x)
  /\ sending[x] = "rejected" => goal[x] = "refused"
  /\ sending[x] = "timeout" =>
       goal[x] = "requested" \/ (LateAcceptance /\ Started(x))

\* Before the goal is sent nothing is on record anywhere.
Unsent(x) ==
  /\ sending[x] = "idle"
  /\ published[x] = 0 /\ x \notin stopRequested
  /\ records[x].state \in {"none", "validating", "failed"}
  /\ records[x].evidence = {}
  /\ ~records[x].cancellation_requested

\* While the answer is awaited nobody has asked the adapter for anything.
Asking(x) ==
  /\ adapterActive = None
  /\ published[x] = 0 /\ x \notin stopRequested
  /\ records[x].evidence = {}
  /\ records[x].cancellation_requested <=> records[x].state = "cancelling"

\* While the result is awaited the adapter follows the execution, and the two
\* accounts of the request for a stop agree.
Following(x) ==
  /\ adapterActive = x
  /\ sending[x] = "accepted"
  /\ Has(x, "backend_goal_accepted")
  /\ records[x].evidence
       \subseteq {"backend_goal_accepted", "backend_stop_requested"}
  /\ records[x].cancellation_requested <=> records[x].state = "cancelling"
  /\ Has(x, "backend_stop_requested") <=> records[x].state = "cancelling"
  /\ x \in stopRequested <=> records[x].state = "cancelling"
  /\ IF records[x].state = "cancelling"
     THEN published[x] = 1 \/ quarantined ELSE published[x] = 0

\* While the joints come to rest the goal has been preempted.
Preempted(x) ==
  /\ adapterActive = None
  /\ sending[x] = "accepted"
  /\ goal[x] = "preempted"
  /\ published[x] = 1
  /\ records[x].evidence = Evidence \ {"state_stabilized"}
  /\ records[x].cancellation_requested

\* How an execution may have ended.
EndedWell(x) ==
  /\ records[x].state = "succeeded" =>
       /\ sending[x] = "accepted" /\ goal[x] = "succeeded"
       /\ published[x] = 0
       /\ ~records[x].cancellation_requested
  /\ records[x].state = "cancelled" =>
       /\ sending[x] = "accepted" /\ goal[x] = "preempted"
       /\ published[x] = 1
       /\ records[x].evidence = Evidence
  /\ records[x].state = "timed_out" => quarantined
  /\ /\ Has(x, "backend_goal_accepted")
     /\ records[x].state = "failed" /\ records[x].cancellation_requested
     => quarantined \/ WaitError
  /\ adapterActive = x => quarantined \/ WaitError

\* The course of one execution, by where its task is suspended.
Course(x) ==
  /\ pc[x] \in Early => Unsent(x)
  /\ pc[x] = "submitting" => Asking(x)
  /\ pc[x] = "waiting" => Following(x)
  /\ pc[x] = "stabilizing" => Preempted(x)
  /\ pc[x] = "done" => EndedWell(x)
  /\ Has(x, "backend_goal_accepted") => sending[x] = "accepted"
  /\ sending[x] = "accepted" /\ PlanOf(x) # None
       => pc[x] = "submitting" \/ Has(x, "backend_goal_accepted")

\* Stops and the goals they can reach, whatever became of the record.
Causal(x) ==
  /\ published[x] <= 1
  /\ published[x] = 1 => sending[x] = "accepted"
  /\ x \in stops => published[x] = 1 /\ (adapterActive = x \/ quarantined)
  /\ adapterActive = x => pc[x] \in {"waiting", "done"}
  /\ sending[x] = "accepted" /\ goal[x] = "preempted" =>
       published[x] = 1 /\ x \notin stops
  /\ sending[x] = "accepted" /\ goal[x] = "executing" =>
       /\ stops \subseteq {x}
       /\ pc[x] = "submitting" \/ adapterActive = x \/ quarantined
       /\ \A w \in ExecId : pc[w] \in {"submitting", "waiting"} => w = x

\* A plan that was issued and can never be reserved again.
Spent(p) == p <= issued /\ plans[p].state \in {"consumed", "absent"}

\* Accepted executions have spent their plans, each its own.
PlansSpent ==
  /\ \A x \in ExecId :
       Has(x, "backend_goal_accepted") =>
         PlanOf(x) \in PlanId /\ Spent(PlanOf(x))
  /\ \A x, y \in ExecId :
       /\ Has(x, "backend_goal_accepted") /\ Has(y, "backend_goal_accepted")
       /\ PlanOf(x) = PlanOf(y)
       => x = y

\* Only the newest execution can be active, and no later one has begun.
NewestIsActive ==
  /\ active \in {None, created}
  /\ \A x \in ExecId : x > created => pc[x] = "idle"

CausalInv ==
  /\ Barred /\ SendingSubmits
  /\ \A x \in ExecId : GoalFollows(x)
  /\ \A x \in ExecId : Course(x)
  /\ \A x \in ExecId : Causal(x)
  /\ PlansSpent
  /\ NewestIsActive

-----------------------------------------------------------------------------
(* Facts every step uses. *)

\* The types of the backend's state, one by one.
LEMMA BackendTyped ==
  ASSUME WorkflowInv
  PROVE  /\ adapterActive \in ExecId \cup {None}
         /\ sending \in [ExecId -> SendState]
         /\ goal \in [ExecId -> GoalState]
         /\ published \in [ExecId -> Nat]
         /\ stops \subseteq ExecId /\ stopRequested \subseteq ExecId
         /\ quarantined \in BOOLEAN
BY DEF WorkflowInv, TypeOK, BackendTypeOK

\* None is no execution.
LEMMA NoneIsNoExecution == None \notin ExecId
BY IdentifierAssumption DEF ExecId

\* A task that does not hold the slot has not begun or has ended.
LEMMA OthersRest ==
  ASSUME WorkflowInv, NEW y \in ExecId, active # y
  PROVE  pc[y] \in {"idle", "done"}
BY DEF WorkflowInv, SlotFollowsTask

\* The empty record has neither evidence nor plan.
LEMMA NoRecordIs ==
  /\ NoRecord.state = "none" /\ NoRecord.plan = None
  /\ NoRecord.evidence = {} /\ NoRecord.cancellation_requested = FALSE
BY DEF NoRecord

\* An execution that takes no part in a step keeps its course: its record
\* stays or is forgotten, and the adapter does not turn to it.
LEMMA OthersKeepCourse ==
  ASSUME NEW y \in ExecId, Course(y),
         pc'[y] = pc[y], pc[y] \in {"idle", "done"},
         sending'[y] = sending[y], goal'[y] = goal[y],
         published'[y] = published[y],
         y \in stopRequested' <=> y \in stopRequested,
         records'[y] \in {records[y], NoRecord},
         adapterActive' = y => adapterActive = y,
         quarantined => quarantined'
  PROVE  Course(y)'
<1>1. CASE records'[y] = records[y]
  BY <1>1 DEF Course, Unsent, EndedWell, Has, PlanOf, Early
<1>2. CASE records'[y] = NoRecord
  BY <1>2, NoRecordIs DEF Course, Unsent, EndedWell, Has, PlanOf, Early
<1>. QED BY <1>1, <1>2

\* A transition to a live state asks to cancel if that is the state.
LEMMA MovedLiveAsks ==
  ASSUME NEW rs \in Records, NEW x \in ExecId, NEW s \in LiveState
  PROVE  /\ s = "cancelling" => Moved(rs, x, s, None)[x].cancellation_requested
         /\ s # "cancelling" => Moved(rs, x, s, None)[x].cancellation_requested
                                = rs[x].cancellation_requested
<1>1. s \in State /\ s \notin TerminalState /\ rs[x] \in Record
  BY DEF State, LiveState, TerminalState, Records
<1>2. Moved(rs, x, s, None)[x] = MovedRecord(rs[x], s, None)
  BY <1>1, MovedEach
<1>3. rs[x].cancellation_requested \in BOOLEAN
  BY <1>1 DEF Record
<1>4. MovedRecord(rs[x], s, None).cancellation_requested
        = (rs[x].cancellation_requested \/ s = "cancelling")
  BY <1>1, MovedRecordType, FailuresAre
<1>5. CASE s = "cancelling"
  BY <1>2, <1>4, <1>5
<1>6. CASE s # "cancelling"
  BY <1>2, <1>3, <1>4, <1>6
<1>. QED BY <1>5, <1>6

\* What a final transition makes of the records, slot and task.
LEMMA EndRecord ==
  ASSUME NEW x \in ExecId, NEW rs \in Records, active = x,
         \A y \in ExecId \ {x} : rs[y] = records[y],
         NEW s \in TerminalState, NEW f \in Failures,
         CanMove(rs[x], s, f), End(rs, x, s, f)
  PROVE  /\ \/ records'[x] = NoRecord
            \/ /\ records'[x].state = s
               /\ records'[x].plan = rs[x].plan
               /\ records'[x].evidence = rs[x].evidence
               /\ records'[x].cancellation_requested
                    = rs[x].cancellation_requested
         /\ \A y \in ExecId \ {x} : records'[y] \in {records[y], NoRecord}
         /\ active' = None /\ created' = created
         /\ pc' = [pc EXCEPT ![x] = "done"]
<1>1. /\ records' = Moved(rs, x, s, f)
      /\ active' = None /\ created' = created
      /\ pc' = [pc EXCEPT ![x] = "done"]
  BY DEF End, TransitionFrom, SlotAfter, Goto
<1>2. s \in State /\ s # "cancelling" /\ rs[x] \in Record
  BY DEF State, TerminalState, Records
<1>3. rs[x].cancellation_requested \in BOOLEAN
  BY <1>2 DEF Record
<1>. QED BY <1>1, <1>2, <1>3, MovedEach, MovedRecordType

-----------------------------------------------------------------------------
(* Before acceptance. *)

\* What the steps below preserve.
CourseGoal == \A y \in ExecId : Course(y)' /\ Causal(y)'

\* A task that moves on, or ends, without its wait for an accepted goal being
\* cut short leaves what is known of stops and goals as it is.
LEMMA MovesOnCausal ==
  ASSUME WorkflowInv, \A y \in ExecId : Causal(y),
         NEW x \in ExecId, NEW to, to \notin {"submitting", "waiting"},
         pc' = [pc EXCEPT ![x] = to],
         pc[x] = "submitting" => sending[x] # "accepted",
         to = "done" \/ pc[x] \notin {"waiting", "done"},
         UNCHANGED <<adapterActive, sending, goal, published, stops>>,
         quarantined => quarantined'
  PROVE  \A y \in ExecId : Causal(y)'
<1>1. \A y \in ExecId : pc'[y] = IF y = x THEN to ELSE pc[y]
  BY RecordsTyped
<1>. QED BY <1>1 DEF Causal

\* Before acceptance a record carries no evidence, and its request to cancel
\* is in its state.
LEMMA BeforeIsBare ==
  ASSUME CausalInv, NEW x \in ExecId, pc[x] \in BeforeAcceptance
  PROVE  /\ records[x].evidence = {}
         /\ published[x] = 0 /\ x \notin stopRequested
         /\ adapterActive # x
         /\ ~quarantined
<1>1. Course(x) /\ Causal(x) /\ Barred
  BY DEF CausalInv
<1>. QED BY <1>1, NoneIsNoExecution
         DEF Course, Unsent, Asking, Causal, Barred, BeforeAcceptance, Early

\* Giving up before acceptance.
LEMMA GiveUpCourse ==
  ASSUME WorkflowInv, CausalInv, NEW x \in ExecId, pc[x] \in BeforeAcceptance,
         sending[x] # "accepted",
         NEW rs \in Records, \A y \in ExecId \ {x} : rs[y] = records[y],
         rs[x].plan = records[x].plan,
         rs[x].evidence = records[x].evidence,
         rs[x].state \in {"validating", "starting", "cancelling"},
         NEW f \in FailureCode, GiveUp(rs, x, f)
  PROVE  CourseGoal
<1>1. active = x
  BY OwnsReservation
<1>2. CanMove(rs[x], "failed", f) /\ "failed" \in TerminalState /\ f \in Failures
  BY FailuresAre DEF CanMove, Successors, TerminalState
<1>3. End(rs, x, "failed", f) /\ UNCHANGED <<backendVars, quarantined>>
  BY DEF GiveUp
<1>4. /\ \/ records'[x] = NoRecord
         \/ /\ records'[x].state = "failed"
            /\ records'[x].evidence = {}
      /\ \A y \in ExecId \ {x} : records'[y] \in {records[y], NoRecord}
      /\ pc' = [pc EXCEPT ![x] = "done"]
  BY <1>1, <1>2, <1>3, EndRecord, BeforeIsBare
<1>5. Course(x)'
  <2>1. pc'[x] = "done"
    BY <1>4, RecordsTyped
  <2>. QED BY <1>3, <1>4, <2>1, BeforeIsBare, NoRecordIs
           DEF Course, EndedWell, Has, PlanOf, Early, backendVars
<1>6. ASSUME NEW y \in ExecId, y # x PROVE Course(y)'
  <2>1. pc'[y] = pc[y] /\ pc[y] \in {"idle", "done"}
    BY <1>1, <1>4, <1>6, RecordsTyped, OthersRest
  <2>. QED BY <1>3, <1>4, <1>6, <2>1, OthersKeepCourse
           DEF CausalInv, backendVars
<1>7. \A y \in ExecId : Causal(y)'
  BY <1>3, <1>4, MovesOnCausal DEF CausalInv, BeforeAcceptance, backendVars
<1>. QED BY <1>5, <1>6, <1>7 DEF CourseGoal

\* Moving on between the checks changes nothing that has a course.
LEMMA ChecksCourse ==
  ASSUME WorkflowInv, CausalInv, NEW x \in ExecId,
         pc[x] \in {"validating", "reading_state"},
         NEW to \in {"reading_state", "reading_scene"},
         Goto(x, to), UNCHANGED <<execVars, backendVars, quarantined>>
  PROVE  CourseGoal
<1>1. \A y \in ExecId : pc'[y] = IF y = x THEN to ELSE pc[y]
  BY RecordsTyped DEF Goto
<1>2. \A y \in ExecId : Course(y)'
  BY <1>1 DEF CausalInv, Course, Unsent, Asking, Following, Preempted,
     EndedWell, Has, PlanOf, Early, execVars, backendVars
<1>3. \A y \in ExecId : Causal(y)'
  BY MovesOnCausal DEF CausalInv, Goto, backendVars
<1>. QED BY <1>2, <1>3 DEF CourseGoal

\* The goal is handed to the sending thread: no other accepted goal can be
\* executing, for the adapter is free and nothing is quarantined.
LEMMA BeginSubmitCourse ==
  ASSUME WorkflowInv, CausalInv, NEW x \in ExecId, pc[x] = "reading_scene",
         BeginSubmit(x), Goto(x, "submitting"),
         records' = Moved(records, x, "starting", None),
         quarantined' = quarantined
  PROVE  CourseGoal
<1>1. /\ active = x /\ sending[x] = "idle" /\ ~quarantined
      /\ records[x].evidence = {} /\ ~records[x].cancellation_requested
      /\ published[x] = 0 /\ x \notin stopRequested
  BY OwnsReservation, BeforeIsBare
     DEF CausalInv, Course, Unsent, Early, BeforeAcceptance
<1>2. /\ adapterActive = None
      /\ \A y \in ExecId :
           sending'[y] = IF y = x THEN "discovering" ELSE sending[y]
      /\ \A y \in ExecId : pc'[y] = IF y = x THEN "submitting" ELSE pc[y]
      /\ UNCHANGED <<adapterActive, stopRequested, goal, stops, published>>
  BY BackendTyped, RecordsTyped DEF BeginSubmit, MaySubmit, Goto
<1>3. /\ records'[x].state = "starting"
      /\ records'[x].evidence = {}
      /\ ~records'[x].cancellation_requested
      /\ \A y \in ExecId \ {x} : records'[y] = records[y]
  <2>1. "starting" \in LiveState /\ records \in Records
    BY RecordsTyped DEF LiveState
  <2>. QED BY <1>1, <2>1, MovedLiveRecord, MovedLiveAsks
<1>4. Course(x)'
  BY <1>1, <1>2, <1>3 DEF Course, Asking, Has, PlanOf, Early
<1>5. ASSUME NEW y \in ExecId, y # x PROVE Course(y)'
  <2>1. pc[y] \in {"idle", "done"}
    BY <1>1, <1>5, OthersRest
  <2>. QED BY <1>2, <1>3, <1>5, <2>1, OthersKeepCourse DEF CausalInv
<1>6. ASSUME NEW y \in ExecId PROVE Causal(y)'
  <2>1. Causal(y)
    BY DEF CausalInv
  <2>2. y # x => pc[y] \in {"idle", "done"}
    BY <1>1, OthersRest
  <2>3. sending'[y] = "accepted" => y # x /\ goal[y] # "executing"
    BY <1>1, <1>2, <2>1, <2>2, NoneIsNoExecution DEF Causal
  <2>. QED BY <1>1, <1>2, <2>1, <2>2, <2>3, NoneIsNoExecution DEF Causal
<1>. QED BY <1>4, <1>5, <1>6 DEF CourseGoal

\* A new execution starts bare.
LEMMA StartCourse ==
  ASSUME WorkflowInv, CausalInv, NEW p \in PlanId, Start(p)
  PROVE  CourseGoal
<1>1. MayStart /\ active = None
  BY DEF Start, MayStart
<1>0. PICK x \in ExecId : x = created + 1
  BY <1>1, NewExecution
<1>. DEFINE rs == [records EXCEPT ![x] = NewRecord(p)]
<1>2. /\ rs \in Records /\ rs[x] = NewRecord(p)
      /\ \A y \in ExecId \ {x} : rs[y] = records[y]
  BY <1>0, <1>1, NewExecution
<1>3. /\ records' = Moved(rs, x, "validating", None)
      /\ pc' = [pc EXCEPT ![x] = "validating"]
      /\ UNCHANGED <<backendVars, quarantined>>
  BY <1>0 DEF Start, Goto
<1>. HIDE DEF rs
<1>4. /\ records'[x].state = "validating"
      /\ records'[x].evidence = {}
      /\ ~records'[x].cancellation_requested
      /\ \A y \in ExecId \ {x} : records'[y] = records[y]
  <2>1. "validating" \in LiveState
    BY DEF LiveState
  <2>2. rs[x].evidence = {} /\ ~rs[x].cancellation_requested
    BY <1>2, NewRecordIsRecord
  <2>. QED BY <1>2, <1>3, <2>1, <2>2, MovedLiveRecord, MovedLiveAsks
<1>5. pc[x] = "idle"
  BY <1>0, RecordsTyped DEF CausalInv, NewestIsActive, ExecId
<1>6. Course(x)'
  <2>1. pc'[x] = "validating" /\ Course(x)
    BY <1>2, <1>3, RecordsTyped DEF CausalInv
  <2>. QED BY <1>3, <1>4, <1>5, <2>1 DEF Course, Unsent, Early, Has, backendVars
<1>7. ASSUME NEW y \in ExecId, y # x PROVE Course(y)'
  <2>1. pc'[y] = pc[y] /\ pc[y] \in {"idle", "done"}
    BY <1>1, <1>3, <1>7, RecordsTyped, NothingReservedIfFree
  <2>. QED BY <1>3, <1>4, <1>7, <2>1, OthersKeepCourse DEF CausalInv, backendVars
<1>8. \A y \in ExecId : Causal(y)'
  BY <1>2, <1>3, <1>5, MovesOnCausal DEF CausalInv, backendVars
<1>. QED BY <1>2, <1>6, <1>7, <1>8 DEF CourseGoal

\* One that is refused its plan ends bare, and its task never begins.
LEMMA StartFailsCourse ==
  ASSUME WorkflowInv, CausalInv, NEW p \in PlanId, StartFails(p)
  PROVE  CourseGoal
<1>1. MayStart /\ active = None
  BY DEF StartFails, MayStart
<1>0. PICK x \in ExecId : x = created + 1
  BY <1>1, NewExecution
<1>. DEFINE rs == [records EXCEPT ![x] = NewRecord(p)]
<1>2. /\ rs \in Records /\ rs[x] = NewRecord(p)
      /\ \A y \in ExecId \ {x} : rs[y] = records[y]
  BY <1>0, <1>1, NewExecution
<1>3. /\ records' = Moved(rs, x, "failed", "plan_refused")
      /\ pc' = pc
      /\ UNCHANGED <<backendVars, quarantined>>
  BY <1>0 DEF StartFails, taskVars
<1>. HIDE DEF rs
<1>4. /\ records'[x].state \in {"failed", "none"}
      /\ records'[x].evidence = {}
      /\ ~records'[x].cancellation_requested
      /\ \A y \in ExecId \ {x} : records'[y] \in {records[y], NoRecord}
  <2>1. "failed" \in State /\ "plan_refused" \in Failures /\ rs[x] \in Record
    BY <1>2, NewRecordIsRecord DEF State, TerminalState, Failures, FailureCode
  <2>2. rs[x].evidence = {} /\ ~rs[x].cancellation_requested
    BY <1>2, NewRecordIsRecord
  <2>3. /\ records'[x]
             \in {MovedRecord(rs[x], "failed", "plan_refused"), NoRecord}
        /\ \A y \in ExecId \ {x} : records'[y] \in {records[y], NoRecord}
    BY <1>2, <1>3, <2>1, MovedEach
  <2>4. /\ MovedRecord(rs[x], "failed", "plan_refused").state = "failed"
        /\ MovedRecord(rs[x], "failed", "plan_refused").evidence = {}
        /\ ~MovedRecord(rs[x], "failed", "plan_refused").cancellation_requested
    <3>1. rs[x].cancellation_requested \in BOOLEAN /\ "failed" # "cancelling"
      BY <2>1 DEF Record
    <3>. QED BY <2>1, <2>2, <3>1, MovedRecordType
  <2>. QED BY <2>3, <2>4, NoRecordIs
<1>5. pc[x] = "idle"
  BY <1>0, RecordsTyped DEF CausalInv, NewestIsActive, ExecId
<1>6. Course(x)'
  <2>1. Course(x)
    BY <1>2 DEF CausalInv
  <2>. QED BY <1>3, <1>4, <1>5, <2>1 DEF Course, Unsent, Early, Has, backendVars
<1>7. ASSUME NEW y \in ExecId, y # x PROVE Course(y)'
  <2>1. pc[y] \in {"idle", "done"}
    BY <1>1, NothingReservedIfFree
  <2>. QED BY <1>3, <1>4, <1>7, <2>1, OthersKeepCourse DEF CausalInv, backendVars
<1>8. \A y \in ExecId : Causal(y)'
  BY <1>3 DEF CausalInv, Causal, backendVars
<1>. QED BY <1>2, <1>6, <1>7, <1>8 DEF CourseGoal

\* The checks, the submission and its failure.
LEMMA ValidationCourse ==
  ASSUME WorkflowInv, CausalInv, NEW x \in ExecId,
         CheckStored(x) \/ CheckState(x) \/ CheckScene(x) \/ NotAccepted(x)
  PROVE  CourseGoal
<1>1. /\ records \in Records
      /\ pc[x] \in BeforeAcceptance
      /\ sending[x] # "accepted"
  BY RecordsTyped DEF CheckStored, CheckState, CheckScene, NotAccepted, At,
     BeforeAcceptance, SendOutcome, CausalInv, Course, Unsent, Early
<1>2. records[x].state \in {"validating", "starting", "cancelling"}
  BY <1>1, SuspendedIsActive, TaskStatesAre DEF BeforeAcceptance
<1>3. ASSUME NEW f \in FailureCode, GiveUp(records, x, f) PROVE CourseGoal
  BY <1>1, <1>2, <1>3, GiveUpCourse
<1>4. CASE CheckStored(x) \/ CheckState(x)
  <2>1. CASE GiveUp(records, x, "validation_failed")
    BY <1>3, <2>1 DEF FailureCode
  <2>. QED BY <1>4, <2>1, ChecksCourse DEF CheckStored, CheckState, At
<1>5. CASE CheckScene(x)
  <2>. DEFINE starting == Moved(records, x, "starting", None)
  <2>1. CASE GiveUp(records, x, "validation_failed")
    BY <1>3, <2>1 DEF FailureCode
  <2>2. CASE BeginSubmit(x) /\ records' = starting /\ Goto(x, "submitting")
             /\ UNCHANGED quarantined
    BY <1>5, <2>2, BeginSubmitCourse DEF CheckScene, At
  <2>3. CASE GiveUp(starting, x, "not_submitted")
    <3>1. "starting" \in LiveState
      BY DEF LiveState
    <3>2. /\ starting \in Records
          /\ \A y \in ExecId \ {x} : starting[y] = records[y]
          /\ starting[x].state = "starting"
          /\ starting[x].plan = records[x].plan
          /\ starting[x].evidence = records[x].evidence
      BY <1>1, <3>1, MovedLiveRecord
    <3>. HIDE DEF starting
    <3>. QED BY <1>1, <2>3, <3>2, GiveUpCourse DEF FailureCode
  <2>. QED BY <1>5, <2>1, <2>2, <2>3 DEF CheckScene, Submit
<1>6. CASE NotAccepted(x)
  BY <1>3, <1>6 DEF NotAccepted, FailureCode
<1>. QED BY <1>4, <1>5, <1>6

-----------------------------------------------------------------------------
(* From acceptance on. *)

\* A stop goes out for x, the first one.
FirstStop(x) ==
  /\ published[x] = 0
  /\ stops' = stops \cup {x}
  /\ published' = [published EXCEPT ![x] = 1]

\* Asked for the first time to stop what it follows, the adapter publishes or
\* fails to, and remembers that it was asked.
LEMMA FirstAnswer ==
  ASSUME NEW x \in ExecId, x \notin stopRequested, published[x] = 0,
         NEW rs, "backend_stop_requested" \notin rs[x].evidence,
         NEW answer \in StopReplies(rs, x, x), StopAnswered(x, answer)
  PROVE  /\ stopRequested' = stopRequested \cup {x}
         /\ \/ FirstStop(x) /\ answer \notin StopErrors
            \/ UNCHANGED <<stops, published>> /\ answer \in StopErrors
<1>1. answer \in {"published", "publish_error"}
  BY DEF StopReplies, StopAnswers
<1>2. CASE answer = "published"
  BY <1>2 DEF StopAnswered, StopErrors, FirstStop
<1>3. CASE answer = "publish_error"
  BY <1>3 DEF StopAnswered, StopErrors
<1>. QED BY <1>1, <1>2, <1>3

\* Asked again, it does nothing.
LEMMA LaterAnswer ==
  ASSUME NEW x \in ExecId, NEW rs, "backend_stop_requested" \in rs[x].evidence,
         NEW answer \in StopReplies(rs, x, x), StopAnswered(x, answer)
  PROVE  UNCHANGED <<stopRequested, stops, published>>
BY DEF StopReplies, StopAnswered

\* Quarantine is never taken back.
LEMMA QuarantineStays ==
  ASSUME NEW ambiguous, QuarantineIf(ambiguous), quarantined
  PROVE  quarantined'
BY DEF QuarantineIf

\* While the adapter follows the active execution, or starts to, nothing but
\* its own first stop goes out: stops and goals keep to each other.
LEMMA FollowedCausal ==
  ASSUME WorkflowInv, \A y \in ExecId : Causal(y),
         NEW x \in ExecId, active = x, sending[x] = "accepted",
         \/ pc[x] = "submitting" /\ adapterActive = None /\ ~quarantined
         \/ pc[x] = "waiting" /\ adapterActive = x,
         NEW to \in {"waiting", "done"}, pc' = [pc EXCEPT ![x] = to],
         adapterActive' = x, UNCHANGED <<sending, goal>>,
         FirstStop(x) \/ UNCHANGED <<stops, published>>,
         quarantined => quarantined'
  PROVE  \A y \in ExecId : Causal(y)'
<1>1. /\ \A y \in ExecId : pc'[y] = IF y = x THEN to ELSE pc[y]
      /\ \A y \in ExecId : y # x => published'[y] = published[y]
      /\ published'[x] \in {published[x], 1}
      /\ stops \subseteq stops' /\ stops' \subseteq stops \cup {x}
  BY RecordsTyped, BackendTyped DEF FirstStop
<1>2. Causal(x)'
  <2>1. published[x] = 0 \/ UNCHANGED <<stops, published>>
    BY DEF FirstStop
  <2>2. x \in stops' => published'[x] = 1
    BY BackendTyped DEF FirstStop, Causal
  <2>3. \A w \in ExecId : pc'[w] \in {"submitting", "waiting"} => w = x
    BY <1>1, OthersRest
  <2>. QED BY <1>1, <2>1, <2>2, <2>3 DEF Causal
<1>3. ASSUME NEW y \in ExecId, y # x PROVE Causal(y)'
  <2>1. Causal(y) /\ adapterActive # y
    BY <1>3, NoneIsNoExecution
  <2>2. ~(sending[y] = "accepted" /\ goal[y] = "executing")
    BY <1>3, <2>1 DEF Causal
  <2>. QED BY <1>1, <1>3, <2>1, <2>2 DEF Causal
<1>. QED BY <1>2, <1>3

\* The course of the others, when the active execution takes a step.
LEMMA OthersCourse ==
  ASSUME WorkflowInv, CausalInv, NEW x \in ExecId, active = x, NEW to,
         pc' = [pc EXCEPT ![x] = to], UNCHANGED <<sending, goal>>,
         FirstStop(x) \/ UNCHANGED published,
         stopRequested' \in {stopRequested, stopRequested \cup {x},
                             stopRequested \ {x}},
         \A y \in ExecId \ {x} : records'[y] \in {records[y], NoRecord},
         adapterActive' \in {x, None, adapterActive},
         quarantined => quarantined',
         NEW y \in ExecId, y # x
  PROVE  Course(y)'
<1>1. pc'[y] = pc[y] /\ pc[y] \in {"idle", "done"}
  BY RecordsTyped, OthersRest
<1>2. published'[y] = published[y]
  BY BackendTyped DEF FirstStop
<1>. QED BY <1>1, <1>2, NoneIsNoExecution, OthersKeepCourse DEF CausalInv

\* What is known of an execution whose goal was just accepted.
LEMMA AskingIs ==
  ASSUME WorkflowInv, CausalInv, NEW x \in ExecId, pc[x] = "submitting"
  PROVE  /\ active = x /\ adapterActive = None /\ ~quarantined
         /\ published[x] = 0 /\ x \notin stopRequested
         /\ records[x].evidence = {}
         /\ records[x].state \in {"starting", "cancelling"}
         /\ records[x].cancellation_requested
              <=> records[x].state = "cancelling"
<1>1. Course(x) /\ Barred
  BY DEF CausalInv
<1>. QED BY <1>1, SuspendedIsActive, TaskStatesAre
         DEF Course, Asking, Barred, BeforeAcceptance

\* And of one whose result is awaited.
LEMMA FollowingIs ==
  ASSUME WorkflowInv, CausalInv, NEW x \in ExecId, pc[x] = "waiting"
  PROVE  /\ active = x /\ Following(x)
         /\ records[x].state \in {"running", "cancelling"}
BY SuspendedIsActive, TaskStatesAre DEF CausalInv, Course

\* Acceptance: the execution runs, or its latched cancellation is passed on.
LEMMA AcceptedCourse ==
  ASSUME WorkflowInv, CausalInv, NEW x \in ExecId, Accepted(x)
  PROVE  CourseGoal
<1>. DEFINE noted == Noted(records, x, {"backend_goal_accepted"})
            stopped == StopNoted(noted, x)
<1>1. pc[x] = "submitting" /\ sending[x] = "accepted"
  BY DEF Accepted, At
<1>2. /\ active = x /\ adapterActive = None /\ ~quarantined
      /\ published[x] = 0 /\ x \notin stopRequested
      /\ records[x].evidence = {}
      /\ records[x].state \in {"starting", "cancelling"}
      /\ records[x].cancellation_requested <=> records[x].state = "cancelling"
  BY <1>1, AskingIs
<1>3. /\ Proceed(noted, x)
      /\ adapterActive' = x /\ UNCHANGED <<sending, goal>>
  BY <1>1, OwnsReservation DEF Accepted, BeforeAcceptance
<1>4. /\ noted \in Records
      /\ \A y \in ExecId \ {x} : noted[y] = records[y]
      /\ noted[x].state = records[x].state
      /\ noted[x].plan = records[x].plan
      /\ noted[x].evidence = {"backend_goal_accepted"}
      /\ noted[x].cancellation_requested = records[x].cancellation_requested
  BY <1>2, RecordsTyped, NotedType DEF Evidence
<1>. HIDE DEF noted
<1>5. /\ stopped \in Records
      /\ \A y \in ExecId \ {x} : stopped[y] = records[y]
      /\ stopped[x].state = records[x].state
      /\ stopped[x].plan = records[x].plan
      /\ stopped[x].evidence
           = {"backend_goal_accepted", "backend_stop_requested"}
      /\ stopped[x].cancellation_requested = records[x].cancellation_requested
  BY <1>4, NotedType DEF StopNoted, Evidence
<1>. HIDE DEF stopped
<1>6. CASE records[x].state = "starting"
  <2>1. /\ TransitionFrom(noted, active, x, "running", None)
        /\ pc' = [pc EXCEPT ![x] = "waiting"]
        /\ UNCHANGED <<quarantined, stopRequested, stops, published>>
    BY <1>3, <1>6 DEF Proceed, Goto
  <2>2. "running" \in LiveState /\ CanMove(noted[x], "running", None)
    BY <1>4, <1>6, FailuresAre DEF CanMove, Successors, LiveState
  <2>3. records' = Moved(noted, x, "running", None)
    BY <2>1, <2>2 DEF TransitionFrom
  <2>4. /\ records'[x].state = "running"
        /\ records'[x].evidence = {"backend_goal_accepted"}
        /\ ~records'[x].cancellation_requested
        /\ \A y \in ExecId \ {x} : records'[y] = records[y]
    BY <1>2, <1>4, <1>6, <2>2, <2>3, MovedLiveRecord, MovedLiveAsks
  <2>5. pc'[x] = "waiting"
    BY <2>1, RecordsTyped
  <2>6. Course(x)'
    BY <1>1, <1>2, <1>3, <2>1, <2>4, <2>5 DEF Course, Following, Has, Early
  <2>7. \A y \in ExecId : y # x => Course(y)'
    BY <1>2, <1>3, <2>1, <2>4, OthersCourse
  <2>8. \A y \in ExecId : Causal(y)'
    BY <1>1, <1>2, <1>3, <2>1, FollowedCausal DEF CausalInv
  <2>. QED BY <2>6, <2>7, <2>8 DEF CourseGoal
<1>7. CASE records[x].state = "cancelling"
  <2>1. PICK answer \in StopReplies(noted, x, x) :
          /\ StopAnswered(x, answer)
          /\ QuarantineIf(answer \in StopErrors)
          /\ IF answer \in StopErrors
             THEN End(stopped, x, "failed", "backend_quarantined")
             ELSE records' = stopped /\ Goto(x, "waiting")
    BY <1>3, <1>7 DEF Proceed, stopped
  <2>2. /\ stopRequested' = stopRequested \cup {x}
        /\ \/ FirstStop(x) /\ answer \notin StopErrors
           \/ UNCHANGED <<stops, published>> /\ answer \in StopErrors
    BY <1>2, <1>4, <2>1, FirstAnswer
  <2>3. CASE answer \notin StopErrors
    <3>1. /\ records' = stopped /\ pc' = [pc EXCEPT ![x] = "waiting"]
          /\ FirstStop(x) /\ quarantined' = quarantined
      BY <2>1, <2>2, <2>3, BackendTyped DEF QuarantineIf, Goto
    <3>2. pc'[x] = "waiting" /\ published'[x] = 1
      BY <3>1, RecordsTyped, BackendTyped DEF FirstStop
    <3>3. Course(x)'
      BY <1>1, <1>2, <1>3, <1>5, <1>7, <2>2, <3>1, <3>2
         DEF Course, Following, Has, Early
    <3>4. \A y \in ExecId : y # x => Course(y)'
      BY <1>2, <1>3, <1>5, <2>2, <3>1, OthersCourse
    <3>5. \A y \in ExecId : Causal(y)'
      BY <1>1, <1>2, <1>3, <3>1, FollowedCausal DEF CausalInv
    <3>. QED BY <3>3, <3>4, <3>5 DEF CourseGoal
  <2>4. CASE answer \in StopErrors
    <3>1. /\ End(stopped, x, "failed", "backend_quarantined")
          /\ UNCHANGED <<stops, published>> /\ quarantined'
      BY <2>1, <2>2, <2>4 DEF QuarantineIf
    <3>2. CanMove(stopped[x], "failed", "backend_quarantined")
      BY <1>5, <1>7, FailuresAre DEF CanMove, Successors, FailureCode
    <3>3. /\ \/ records'[x] = NoRecord
             \/ /\ records'[x].state = "failed"
                /\ records'[x].evidence
                     = {"backend_goal_accepted", "backend_stop_requested"}
          /\ \A y \in ExecId \ {x} : records'[y] \in {records[y], NoRecord}
          /\ pc' = [pc EXCEPT ![x] = "done"]
      BY <1>2, <1>5, <3>1, <3>2, EndRecord, FailuresAre
         DEF TerminalState, FailureCode
    <3>4. pc'[x] = "done"
      BY <3>3, RecordsTyped
    <3>5. Course(x)'
      BY <1>1, <1>3, <3>1, <3>3, <3>4, NoRecordIs
         DEF Course, EndedWell, Has, PlanOf, Early
    <3>6. \A y \in ExecId : y # x => Course(y)'
      BY <1>2, <1>3, <2>2, <3>1, <3>3, OthersCourse
    <3>7. \A y \in ExecId : Causal(y)'
      BY <1>1, <1>2, <1>3, <3>1, <3>3, FollowedCausal DEF CausalInv
    <3>. QED BY <3>5, <3>6, <3>7 DEF CourseGoal
  <2>. QED BY <2>3, <2>4
<1>. QED BY <1>2, <1>6, <1>7

\* A terminal result ends the adapter's account of the execution: a stop that
\* is still on its way then leaves the backend quarantined.
LEMMA ResultCausal ==
  ASSUME WorkflowInv, CausalInv, NEW x \in ExecId, Result(x),
         NEW to \in {"stabilizing", "done"}, pc' = [pc EXCEPT ![x] = to]
  PROVE  \A y \in ExecId : Causal(y)'
<1>1. /\ pc[x] = "waiting" /\ goal[x] \in GoalResult
      /\ adapterActive' = None /\ UNCHANGED <<sending, goal, stops, published>>
      /\ QuarantineIf(Ambiguous(x))
  BY DEF Result, At, ResultTaken
<1>2. /\ active = x /\ Following(x)
      /\ records[x].state \in {"running", "cancelling"}
  BY <1>1, FollowingIs
<1>3. \A y \in ExecId : Causal(y)
  BY DEF CausalInv
<1>4. \A y \in ExecId : pc'[y] = IF y = x THEN to ELSE pc[y]
  BY RecordsTyped
<1>5. x \in stops => quarantined'
  <2>1. ASSUME x \in stops PROVE Ambiguous(x)
    <3>1. published[x] = 1 /\ goal[x] # "preempted"
      BY <1>2, <1>3, <2>1 DEF Causal, Following
    <3>2. CancelAsked(x)
      BY <1>2, <3>1 DEF Following, CancelAsked
    <3>. QED BY <3>1, <3>2 DEF Ambiguous, Outcome
  <2>. QED BY <1>1, <2>1 DEF QuarantineIf
<1>6. quarantined => quarantined'
  BY <1>1, QuarantineStays
<1>7. Causal(x)'
  <2>1. goal[x] # "executing"
    BY <1>1 DEF GoalResult
  <2>. QED BY <1>1, <1>3, <1>4, <1>5, <2>1, NoneIsNoExecution DEF Causal
<1>8. ASSUME NEW y \in ExecId, y # x PROVE Causal(y)'
  <2>1. Causal(y) /\ adapterActive # y
    BY <1>2, <1>3, <1>8 DEF Following
  <2>2. ~(sending[y] = "accepted" /\ goal[y] = "executing")
    BY <1>1, <1>8, <2>1 DEF Causal
  <2>. QED BY <1>1, <1>4, <1>6, <1>8, <2>1, <2>2, NoneIsNoExecution DEF Causal
<1>. QED BY <1>7, <1>8

\* What the terminal result makes of the execution: success only if nobody
\* asked to stop it, stabilization only if it was preempted by its own stop.
LEMMA ResultCourse ==
  ASSUME WorkflowInv, CausalInv, NEW x \in ExecId, Result(x)
  PROVE  CourseGoal
<1>. DEFINE noted == Noted(records, x, {"execution_terminal"})
            acknowledged == Noted(noted, x, {"backend_stop_acknowledged"})
<1>1. /\ pc[x] = "waiting" /\ goal[x] \in GoalResult
      /\ adapterActive' = None /\ UNCHANGED <<sending, goal, stops, published>>
      /\ stopRequested' = stopRequested \ {x}
      /\ QuarantineIf(Ambiguous(x))
  BY DEF Result, At, ResultTaken
<1>2. /\ active = x /\ Following(x)
      /\ records[x].state \in {"running", "cancelling"}
  BY <1>1, FollowingIs
<1>3. quarantined => quarantined'
  BY <1>1, QuarantineStays
<1>4. /\ noted \in Records
      /\ \A y \in ExecId \ {x} : noted[y] = records[y]
      /\ noted[x].state = records[x].state
      /\ noted[x].plan = records[x].plan
      /\ noted[x].evidence = records[x].evidence \cup {"execution_terminal"}
      /\ noted[x].cancellation_requested = records[x].cancellation_requested
  BY RecordsTyped, NotedType DEF Evidence
<1>. HIDE DEF noted
<1>5. /\ \A y \in ExecId \ {x} : acknowledged[y] = records[y]
      /\ acknowledged[x].plan = records[x].plan
      /\ acknowledged[x].evidence
           = noted[x].evidence \cup {"backend_stop_acknowledged"}
      /\ acknowledged[x].cancellation_requested
           = records[x].cancellation_requested
  BY <1>4, NotedType DEF Evidence
<1>. HIDE DEF acknowledged
<1>6. ASSUME NEW s \in {"succeeded", "failed"}, NEW f \in Failures,
             CanMove(noted[x], s, f), End(noted, x, s, f),
             s = "succeeded" =>
               goal[x] = "succeeded" /\ records[x].state # "cancelling",
             s = "failed" /\ records[x].state = "cancelling" => quarantined'
      PROVE  CourseGoal
  <2>1. s \in TerminalState
    BY DEF TerminalState
  <2>2. /\ \/ records'[x] = NoRecord
           \/ /\ records'[x].state = s
              /\ records'[x].evidence = noted[x].evidence
              /\ records'[x].cancellation_requested
                   = noted[x].cancellation_requested
        /\ \A y \in ExecId \ {x} : records'[y] \in {records[y], NoRecord}
        /\ pc' = [pc EXCEPT ![x] = "done"]
    BY <1>2, <1>4, <1>6, <2>1, EndRecord
  <2>3. pc'[x] = "done"
    BY <2>2, RecordsTyped
  <2>4. Course(x)'
    BY <1>1, <1>2, <1>4, <1>6, <2>2, <2>3, NoRecordIs, NoneIsNoExecution
       DEF Course, EndedWell, Following, Has, PlanOf, Early
  <2>5. \A y \in ExecId : y # x => Course(y)'
    BY <1>1, <1>2, <1>3, <2>2, OthersCourse
  <2>. QED BY <2>2, <2>4, <2>5, ResultCausal DEF CourseGoal
<1>7. CASE Outcome(goal[x]) = "succeeded" /\ ~CancelAsked(x)
           /\ End(noted, x, "succeeded", None)
  <2>1. CanMove(noted[x], "succeeded", None)
    BY <1>2, <1>4, <1>7, FailuresAre DEF CanMove, Successors, CancelAsked
  <2>2. goal[x] = "succeeded"
    BY <1>7 DEF Outcome
  <2>. QED BY <1>6, <1>7, <2>1, <2>2, FailuresAre DEF CancelAsked
<1>8. CASE Outcome(goal[x]) # "preempted" /\ CancelAsked(x)
           /\ End(noted, x, "failed", "backend_quarantined")
  <2>1. CanMove(noted[x], "failed", "backend_quarantined")
    BY <1>2, <1>4, <1>8, FailuresAre DEF CanMove, Successors, FailureCode
  <2>2. quarantined'
    BY <1>1, <1>8 DEF Ambiguous, QuarantineIf
  <2>. QED BY <1>6, <1>8, <2>1, <2>2, FailuresAre DEF FailureCode
<1>9. CASE Outcome(goal[x]) # "succeeded" /\ ~CancelAsked(x)
           /\ End(noted, x, "failed", "execution_failed")
  <2>1. CanMove(noted[x], "failed", "execution_failed")
    BY <1>2, <1>4, <1>9, FailuresAre DEF CanMove, Successors, FailureCode
  <2>. QED BY <1>6, <1>9, <2>1, FailuresAre DEF FailureCode, CancelAsked
<1>10. CASE /\ Outcome(goal[x]) = "preempted" /\ CancelAsked(x)
            /\ records' = acknowledged /\ Goto(x, "stabilizing")
  <2>1. pc' = [pc EXCEPT ![x] = "stabilizing"] /\ pc'[x] = "stabilizing"
    BY <1>10, RecordsTyped DEF Goto
  <2>2. goal[x] = "preempted" /\ records[x].state = "cancelling"
    BY <1>1, <1>10 DEF Outcome, GoalResult, CancelAsked
  <2>3. published[x] = 1
    BY <1>2, <2>2 DEF CausalInv, Causal, Following
  <2>4. records'[x].evidence = Evidence \ {"state_stabilized"}
    BY <1>2, <1>4, <1>5, <1>10, <2>2 DEF Following, Has, Evidence
  <2>5. Course(x)'
    BY <1>1, <1>2, <1>5, <1>10, <2>1, <2>2, <2>3, <2>4
       DEF Course, Preempted, Following, Has, Evidence, Early
  <2>6. \A y \in ExecId : y # x => Course(y)'
    BY <1>1, <1>2, <1>3, <1>5, <1>10, <2>1, OthersCourse
  <2>. QED BY <2>1, <2>5, <2>6, ResultCausal DEF CourseGoal
<1>. QED BY <1>7, <1>8, <1>9, <1>10 DEF Result, noted, acknowledged

\* The deadline quarantines, so whatever is still on its way is accounted for.
LEMMA TimesOutCourse ==
  ASSUME WorkflowInv, CausalInv, NEW x \in ExecId, ResultTimesOut(x)
  PROVE  CourseGoal
<1>. DEFINE cancelling == IF CanMove(records[x], "cancelling", None)
                          THEN Moved(records, x, "cancelling", None) ELSE records
            stopped == StopNoted(cancelling, x)
<1>1. pc[x] = "waiting"
  BY DEF ResultTimesOut, At
<1>2. /\ active = x /\ Following(x)
      /\ records[x].state \in {"running", "cancelling"}
  BY <1>1, FollowingIs
<1>3. /\ cancelling \in Records
      /\ \A y \in ExecId \ {x} : cancelling[y] = records[y]
      /\ cancelling[x].state = "cancelling"
      /\ cancelling[x].evidence = records[x].evidence
  <2>1. CASE records[x].state = "running"
    <3>1. cancelling = Moved(records, x, "cancelling", None)
      BY <2>1, FailuresAre DEF CanMove, Successors
    <3>. HIDE DEF cancelling
    <3>2. "cancelling" \in LiveState
      BY DEF LiveState
    <3>. QED BY <3>1, <3>2, RecordsTyped, MovedLiveRecord
  <2>2. CASE records[x].state = "cancelling"
    BY <2>2, RecordsTyped DEF CanMove, Successors
  <2>. QED BY <1>2, <2>1, <2>2
<1>4. /\ adapterActive' = x /\ UNCHANGED <<sending, goal>> /\ quarantined'
      /\ End(stopped, x, "timed_out", "timeout")
  BY <1>2 DEF ResultTimesOut, QuarantineIf, Following, stopped, cancelling
<1>5. PICK answer \in StopReplies(cancelling, x, x) : StopAnswered(x, answer)
  BY <1>2 DEF ResultTimesOut, Following, cancelling
<1>. HIDE DEF cancelling
<1>6. /\ stopRequested' \in {stopRequested, stopRequested \cup {x}}
      /\ FirstStop(x) \/ UNCHANGED <<stops, published>>
  <2>1. CASE records[x].state = "running"
    BY <1>2, <1>3, <1>5, <2>1, FirstAnswer DEF Following, Has
  <2>2. CASE records[x].state = "cancelling"
    BY <1>2, <1>3, <1>5, <2>2, LaterAnswer DEF Following, Has
  <2>. QED BY <1>2, <2>1, <2>2
<1>7. /\ stopped \in Records
      /\ \A y \in ExecId \ {x} : stopped[y] = records[y]
      /\ stopped[x].state = "cancelling"
      /\ "backend_goal_accepted" \in stopped[x].evidence
  BY <1>2, <1>3, StopNotedRecord DEF Following, Has
<1>. HIDE DEF stopped
<1>8. CanMove(stopped[x], "timed_out", "timeout")
  BY <1>7, FailuresAre DEF CanMove, Successors, FailureCode
<1>9. /\ \/ records'[x] = NoRecord
         \/ /\ records'[x].state = "timed_out"
            /\ "backend_goal_accepted" \in records'[x].evidence
      /\ \A y \in ExecId \ {x} : records'[y] \in {records[y], NoRecord}
      /\ pc' = [pc EXCEPT ![x] = "done"]
  BY <1>2, <1>4, <1>7, <1>8, EndRecord, FailuresAre DEF TerminalState, FailureCode
<1>10. pc'[x] = "done"
  BY <1>9, RecordsTyped
<1>11. Course(x)'
  BY <1>2, <1>4, <1>9, <1>10, NoRecordIs
     DEF Course, EndedWell, Following, Has, PlanOf, Early
<1>12. \A y \in ExecId : y # x => Course(y)'
  BY <1>2, <1>4, <1>6, <1>9, OthersCourse
<1>13. \A y \in ExecId : Causal(y)'
  BY <1>1, <1>2, <1>4, <1>6, <1>9, FollowedCausal DEF CausalInv, Following
<1>. QED BY <1>11, <1>12, <1>13 DEF CourseGoal

\* The adapter knows the execution that waits, so waiting fails only with an
\* error of ROS's own; the adapter then keeps the execution on record.
LEMMA WaitFailsCourse ==
  ASSUME WorkflowInv, CausalInv, NEW x \in ExecId, WaitFails(x)
  PROVE  CourseGoal /\ WaitError
<1>1. pc[x] = "waiting"
  BY DEF WaitFails, At
<1>2. /\ active = x /\ Following(x)
      /\ records[x].state \in {"running", "cancelling"}
  BY <1>1, FollowingIs
<1>3. WaitError
  BY <1>2 DEF WaitFails, Waitable, Following, WaitError
<1>4. /\ UNCHANGED <<backendVars, quarantined>>
      /\ End(records, x, "failed", "backend_error")
  BY DEF WaitFails
<1>5. CanMove(records[x], "failed", "backend_error")
  BY <1>2, FailuresAre DEF CanMove, Successors, FailureCode
<1>6. /\ \/ records'[x] = NoRecord
         \/ /\ records'[x].state = "failed"
            /\ records'[x].evidence = records[x].evidence
      /\ \A y \in ExecId \ {x} : records'[y] \in {records[y], NoRecord}
      /\ pc' = [pc EXCEPT ![x] = "done"]
  BY <1>2, <1>4, <1>5, RecordsTyped, EndRecord, FailuresAre
     DEF TerminalState, FailureCode
<1>7. pc'[x] = "done"
  BY <1>6, RecordsTyped
<1>8. Course(x)'
  BY <1>2, <1>3, <1>4, <1>6, <1>7, NoRecordIs
     DEF Course, EndedWell, Following, Has, PlanOf, Early, backendVars
<1>9. \A y \in ExecId : y # x => Course(y)'
  BY <1>2, <1>4, <1>6, OthersCourse DEF backendVars
<1>10. \A y \in ExecId : Causal(y)'
  BY <1>1, <1>4, <1>6, MovesOnCausal DEF CausalInv, backendVars
<1>. QED BY <1>3, <1>8, <1>9, <1>10 DEF CourseGoal

\* Stabilization ends the execution with all its evidence, or quarantined.
LEMMA StabilizeCourse ==
  ASSUME WorkflowInv, CausalInv, NEW x \in ExecId, Stabilize(x)
  PROVE  CourseGoal
<1>. DEFINE noted == Noted(records, x, {"state_stabilized"})
<1>1. pc[x] = "stabilizing" /\ active = x /\ records[x].state = "cancelling"
  BY SuspendedIsActive, TaskStatesAre DEF Stabilize, At, BeforeAcceptance
<1>2. Preempted(x)
  BY <1>1 DEF CausalInv, Course
<1>3. /\ UNCHANGED <<adapterActive, stopRequested, sending, goal, stops, published>>
      /\ quarantined => quarantined'
  BY DEF Stabilize, QuarantineIf
<1>4. /\ noted \in Records
      /\ \A y \in ExecId \ {x} : noted[y] = records[y]
      /\ noted[x].state = records[x].state
      /\ noted[x].plan = records[x].plan
      /\ noted[x].evidence = Evidence
  BY <1>2, RecordsTyped, NotedType DEF Evidence, Preempted
<1>. HIDE DEF noted
<1>5. ASSUME NEW s \in TerminalState, NEW f \in Failures,
             NEW rs \in Records, \A y \in ExecId \ {x} : rs[y] = records[y],
             CanMove(rs[x], s, f), End(rs, x, s, f),
             "backend_goal_accepted" \in rs[x].evidence,
             \/ s = "cancelled" /\ rs[x].evidence = Evidence
             \/ s = "failed" /\ quarantined'
      PROVE  CourseGoal
  <2>1. /\ \/ records'[x] = NoRecord
           \/ /\ records'[x].state = s
              /\ records'[x].evidence = rs[x].evidence
        /\ \A y \in ExecId \ {x} : records'[y] \in {records[y], NoRecord}
        /\ pc' = [pc EXCEPT ![x] = "done"]
    BY <1>1, <1>5, EndRecord
  <2>2. pc'[x] = "done"
    BY <2>1, RecordsTyped
  <2>3. Course(x)'
    BY <1>2, <1>3, <1>5, <2>1, <2>2, NoRecordIs, NoneIsNoExecution
       DEF Course, EndedWell, Preempted, Has, PlanOf, Early
  <2>4. \A y \in ExecId : y # x => Course(y)'
    BY <1>1, <1>3, <2>1, OthersCourse
  <2>5. \A y \in ExecId : Causal(y)'
    BY <1>1, <1>3, <2>1, MovesOnCausal DEF CausalInv
  <2>. QED BY <2>3, <2>4, <2>5 DEF CourseGoal
<1>6. CASE End(noted, x, "cancelled", None)
  <2>1. CanMove(noted[x], "cancelled", None)
    BY <1>1, <1>4, FailuresAre DEF CanMove, Successors
  <2>. QED BY <1>4, <1>5, <1>6, <2>1, FailuresAre DEF TerminalState, Evidence
<1>7. CASE End(records, x, "failed", "backend_quarantined") /\ QuarantineIf(TRUE)
  <2>1. CanMove(records[x], "failed", "backend_quarantined")
    BY <1>1, FailuresAre DEF CanMove, Successors, FailureCode
  <2>2. "backend_goal_accepted" \in records[x].evidence
    BY <1>2 DEF Preempted, Evidence
  <2>3. quarantined'
    BY <1>7 DEF QuarantineIf
  <2>. QED BY <1>5, <1>7, <2>1, <2>2, <2>3, RecordsTyped, FailuresAre
           DEF TerminalState, FailureCode
<1>. QED BY <1>6, <1>7 DEF Stabilize, noted

\* A request to cancel is latched before acceptance and dispatched after it.
LEMMA CancelCourse ==
  ASSUME WorkflowInv, CausalInv, NEW x \in ExecId, Cancel(x)
  PROVE  CourseGoal
<1>. DEFINE cancelling == Moved(records, x, "cancelling", None)
            stopped == StopNoted(cancelling, x)
<1>1. /\ active = x /\ pc' = pc /\ pc' = [pc EXCEPT ![x] = pc[x]]
      /\ UNCHANGED <<sending, goal, adapterActive>>
  BY RecordsTyped DEF Cancel, taskVars, backendVars
<1>2. "cancelling" \in LiveState
  BY DEF LiveState
<1>3. /\ cancelling \in Records
      /\ \A y \in ExecId \ {x} : cancelling[y] = records[y]
      /\ cancelling[x].state = "cancelling"
      /\ cancelling[x].evidence = records[x].evidence
      /\ cancelling[x].cancellation_requested
  BY <1>2, RecordsTyped, MovedLiveRecord, MovedLiveAsks
<1>. HIDE DEF cancelling
<1>4. /\ \A y \in ExecId \ {x} : stopped[y] = records[y]
      /\ stopped[x].state = "cancelling"
      /\ stopped[x].evidence
           = records[x].evidence \cup {"backend_stop_requested"}
      /\ stopped[x].cancellation_requested
  BY <1>3, NotedType DEF StopNoted, Evidence
<1>. HIDE DEF stopped
<1>5. CASE /\ records[x].state = "starting" /\ records' = cancelling
           /\ UNCHANGED <<backendVars, quarantined>>
  <2>1. pc[x] = "submitting"
    BY <1>1, <1>5, TaskStatesAre DEF WorkflowInv, SlotFollowsTask, BeforeAcceptance
  <2>2. Course(x)'
    BY <1>1, <1>3, <1>5, <2>1, AskingIs
       DEF Course, Asking, Early, Has, backendVars
  <2>3. \A y \in ExecId : y # x => Course(y)'
    BY <1>1, <1>3, <1>5, OthersCourse DEF backendVars
  <2>4. \A y \in ExecId : Causal(y)'
    BY <1>1, <1>5 DEF CausalInv, Causal, backendVars
  <2>. QED BY <2>2, <2>3, <2>4 DEF CourseGoal
<1>6. CASE /\ records[x].state = "running" /\ records' = stopped
           /\ \E answer \in StopReplies(cancelling, x, adapterActive) :
                /\ StopAnswered(x, answer)
                /\ QuarantineIf(answer \in StopErrors)
  <2>1. pc[x] = "waiting"
    BY <1>1, <1>6, TaskStatesAre DEF WorkflowInv, SlotFollowsTask, BeforeAcceptance
  <2>2. Following(x) /\ adapterActive = x
    BY <2>1, FollowingIs DEF Following
  <2>3. PICK answer \in StopReplies(cancelling, x, x) :
          StopAnswered(x, answer) /\ QuarantineIf(answer \in StopErrors)
    BY <1>6, <2>2
  <2>4. /\ stopRequested' = stopRequested \cup {x}
        /\ \/ FirstStop(x) /\ answer \notin StopErrors
           \/ UNCHANGED <<stops, published>> /\ answer \in StopErrors
    BY <1>3, <1>6, <2>2, <2>3, FirstAnswer DEF Following, Has
  <2>5. quarantined => quarantined'
    BY <2>3, QuarantineStays
  <2>6. published'[x] = 1 \/ quarantined'
    BY <2>3, <2>4, BackendTyped DEF FirstStop, QuarantineIf
  <2>7. Course(x)'
    BY <1>1, <1>4, <1>6, <2>1, <2>2, <2>4, <2>6
       DEF Course, Following, Early, Has
  <2>8. \A y \in ExecId : y # x => Course(y)'
    BY <1>1, <1>4, <1>6, <2>4, <2>5, OthersCourse
  <2>9. \A y \in ExecId : Causal(y)'
    BY <1>1, <2>1, <2>2, <2>4, <2>5, FollowedCausal DEF CausalInv, Following
  <2>. QED BY <2>7, <2>8, <2>9 DEF CourseGoal
<1>7. StopReplies(records, x, adapterActive)
        = StopReplies(cancelling, x, adapterActive)
  BY <1>3 DEF StopReplies
<1>. QED BY <1>5, <1>6, <1>7 DEF Cancel, cancelling, stopped

-----------------------------------------------------------------------------
(* Between the steps of the service. *)

\* What the sending thread and MoveIt may change: the sending of a goal whose
\* task waits for the answer, and goals that have not ended.
BackendMoves ==
  /\ UNCHANGED <<adapterActive, stopRequested, published, quarantined>>
  /\ UNCHANGED <<records, pc>>
  /\ \A y \in ExecId : sending'[y] # sending[y] => pc[y] = "submitting"
  /\ \A y \in ExecId : goal[y] \in GoalResult => goal'[y] = goal[y]

\* The sending thread and MoveIt change no more than that.
LEMMA BackgroundMoves ==
  ASSUME WorkflowInv, CausalInv, Background
  PROVE  BackendMoves
<1>1. UNCHANGED <<records, pc, quarantined>>
  BY DEF Background, execVars, taskVars
<1>2. PICK x \in ExecId : SendThread(x) \/ MoveIt(x)
  BY DEF Background, BackendNext
<1>3. SendingSubmits /\ \A y \in ExecId : GoalFollows(y)
  BY DEF CausalInv
<1>4. CASE SendThread(x) \/ AcceptGoal(x) \/ RejectGoal(x)
  <2>1. sending[x] \in Underway
    BY <1>4 DEF SendThread, ServerUnavailable, SendGoal, AcceptanceTimesOut,
       AcceptGoal, RejectGoal, SendStep, Underway
  <2>2. goal[x] \notin GoalResult
    BY <1>3, <2>1 DEF GoalFollows, Underway, GoalResult
  <2>3. /\ UNCHANGED <<adapterActive, stopRequested, published>>
        /\ \A y \in ExecId : y # x => sending'[y] = sending[y]
        /\ \A y \in ExecId : y # x => goal'[y] = goal[y]
    BY <1>4, BackendTyped DEF SendThread, ServerUnavailable, SendGoal,
       AcceptanceTimesOut, AcceptGoal, RejectGoal, SendStep
  <2>. QED BY <1>1, <1>3, <2>1, <2>2, <2>3 DEF BackendMoves, SendingSubmits
<1>5. CASE AcceptLate(x) \/ FinishGoal(x)
  BY <1>1, <1>5, BackendTyped
     DEF AcceptLate, FinishGoal, GoalStep, BackendMoves, GoalResult
<1>6. CASE DeliverStop(x) \/ LoseStop(x)
  BY <1>1, <1>6, BackendTyped DEF DeliverStop, LoseStop, BackendMoves, GoalResult
<1>. QED BY <1>2, <1>4, <1>5, <1>6 DEF MoveIt

\* None of that touches the course of an execution.
LEMMA BackgroundKeepsCourse ==
  ASSUME CausalInv, BackendMoves, NEW y \in ExecId
  PROVE  Course(y)'
<1>1. Course(y)
  BY DEF CausalInv
<1>2. /\ records'[y] = records[y] /\ pc'[y] = pc[y]
      /\ sending'[y] # sending[y] => pc[y] = "submitting"
      /\ goal[y] \in {"succeeded", "preempted"} => goal'[y] = goal[y]
      /\ UNCHANGED <<adapterActive, stopRequested, published, quarantined>>
  BY DEF BackendMoves, GoalResult
<1>. QED BY <1>1, <1>2
         DEF Course, Unsent, Asking, Following, Preempted, EndedWell, Has,
             PlanOf, Early

\* While an answer is awaited no stop is on its way.
LEMMA NoStopWhileAsking ==
  ASSUME WorkflowInv, CausalInv, NEW x \in ExecId, pc[x] = "submitting"
  PROVE  stops = {}
<1>1. adapterActive = None /\ ~quarantined
  BY AskingIs
<1>2. ASSUME NEW y \in stops PROVE FALSE
  <2>1. y \in ExecId
    BY BackendTyped
  <2>. QED BY <1>1, <1>2, <2>1, NoneIsNoExecution DEF CausalInv, Causal
<1>. QED BY <1>2

\* A stop that arrives preempts only the goal it was published for, or one
\* whose acceptance nobody waited for.
LEMMA BackgroundKeepsCausal ==
  ASSUME WorkflowInv, CausalInv, Background, NEW y \in ExecId
  PROVE  Causal(y)'
<1>1. Causal(y) /\ Course(y)
  BY DEF CausalInv
<1>2. BackendMoves
  BY BackgroundMoves
<1>3. UNCHANGED <<adapterActive, stopRequested, published, quarantined, pc>>
  BY <1>2 DEF BackendMoves
<1>4. PICK x \in ExecId : SendThread(x) \/ MoveIt(x)
  BY DEF Background, BackendNext
<1>5. CASE SendThread(x) \/ RejectGoal(x)
  <2>1. /\ sending[x] \in Underway
        /\ sending'[x] # "accepted"
        /\ y # x => sending'[y] = sending[y] /\ goal'[y] = goal[y]
        /\ stops' = stops
    BY <1>5, BackendTyped DEF SendThread, ServerUnavailable, SendGoal,
       AcceptanceTimesOut, RejectGoal, SendStep, Underway
  <2>2. CASE y = x
    <3>1. sending[x] # "accepted"
      BY <2>1 DEF Underway
    <3>. QED BY <1>1, <1>3, <2>1, <2>2, <3>1 DEF Causal
  <2>3. CASE y # x
    BY <1>1, <1>3, <2>1, <2>3 DEF Causal
  <2>. QED BY <2>2, <2>3
<1>6. CASE AcceptGoal(x)
  <2>1. /\ pc[x] = "submitting" /\ goal'[x] = "executing"
        /\ y # x => sending'[y] = sending[y] /\ goal'[y] = goal[y]
        /\ stops' = stops
    BY <1>6, BackendTyped
       DEF AcceptGoal, SendStep, CausalInv, SendingSubmits, Underway
  <2>2. stops = {} /\ active = x /\ published[x] = 0
    BY <2>1, NoStopWhileAsking, AskingIs
  <2>3. \A w \in ExecId : pc[w] \in {"submitting", "waiting"} => w = x
    BY <2>2, OthersRest
  <2>4. CASE y = x
    BY <1>1, <1>3, <2>1, <2>2, <2>3, <2>4 DEF Causal
  <2>5. CASE y # x
    BY <1>1, <1>3, <2>1, <2>5 DEF Causal
  <2>. QED BY <2>4, <2>5
<1>7. CASE AcceptLate(x)
  <2>1. /\ sending' = sending /\ sending[x] # "accepted"
        /\ y # x => goal'[y] = goal[y]
        /\ stops' = stops
    BY <1>7, BackendTyped DEF AcceptLate, GoalStep
  <2>. QED BY <1>1, <1>3, <2>1 DEF Causal
<1>8. CASE FinishGoal(x)
  <2>1. /\ UNCHANGED <<sending, stops>>
        /\ goal'[y] = goal[y] \/ goal'[y] \notin {"preempted", "executing"}
    BY <1>8, BackendTyped DEF FinishGoal, GoalStep, GoalResult
  <2>. QED BY <1>1, <1>3, <2>1 DEF Causal
<1>9. CASE DeliverStop(x)
  <2>1. /\ sending' = sending /\ stops' = stops \ {x} /\ x \in stops
        /\ goal'[y] = IF goal[y] = "executing" THEN "preempted" ELSE goal[y]
    BY <1>9 DEF DeliverStop
  <2>2. sending[y] = "accepted" /\ goal[y] = "executing" => y = x
    BY <1>1, <2>1 DEF Causal
  <2>. QED BY <1>1, <1>3, <2>1, <2>2 DEF Causal
<1>10. CASE LoseStop(x)
  BY <1>1, <1>3, <1>10 DEF LoseStop, Causal
<1>. QED BY <1>4, <1>5, <1>6, <1>7, <1>8, <1>9, <1>10 DEF MoveIt

\* Planning, and nothing at all, leave every course alone.
LEMMA IdleCourse ==
  ASSUME CausalInv, PlanTraffic \/ UNCHANGED vars
  PROVE  CourseGoal
<1>1. UNCHANGED <<records, backendVars, pc, quarantined>>
  BY DEF PlanTraffic, vars, execVars, taskVars
<1>2. ASSUME NEW y \in ExecId PROVE Course(y)' /\ Causal(y)'
  BY <1>1 DEF CausalInv, Course, Unsent, Asking, Following, Preempted,
     EndedWell, Causal, Has, PlanOf, Early, backendVars
<1>. QED BY <1>2 DEF CourseGoal

\* Every step keeps the course of every execution and what is known of stops.
LEMMA CourseStep ==
  ASSUME WorkflowInv, CausalInv, [Next]_vars
  PROVE  CourseGoal
<1>1. CASE \E p \in PlanId : Start(p) \/ StartFails(p)
  BY <1>1, StartCourse, StartFailsCourse
<1>2. CASE \E x \in ExecId : RunExecution(x)
  BY <1>2, ValidationCourse, AcceptedCourse, ResultCourse, TimesOutCourse,
     WaitFailsCourse, StabilizeCourse DEF RunExecution
<1>3. CASE \E x \in ExecId : Cancel(x)
  BY <1>3, CancelCourse
<1>4. CASE PlanTraffic \/ UNCHANGED vars
  BY <1>4, IdleCourse
<1>5. CASE Background
  BY <1>5, BackgroundMoves, BackgroundKeepsCourse, BackgroundKeepsCausal
     DEF CourseGoal
<1>. QED BY <1>1, <1>2, <1>3, <1>4, <1>5 DEF Next

-----------------------------------------------------------------------------
(* Goals follow their sending. *)

\* Every step keeps goal and sending together.
LEMMA GoalFollowsStep ==
  ASSUME WorkflowInv, CausalInv, [Next]_vars, NEW y \in ExecId
  PROVE  GoalFollows(y)'
<1>1. GoalFollows(y)
  BY DEF CausalInv
<1>2. CASE UNCHANGED <<sending, goal>>
  BY <1>1, <1>2 DEF GoalFollows, Started
<1>3. CASE \E x \in ExecId : pc[x] = "reading_scene" /\ BeginSubmit(x)
  <2>1. PICK x \in ExecId : pc[x] = "reading_scene" /\ BeginSubmit(x)
    BY <1>3
  <2>2. sending[x] = "idle"
    BY <2>1 DEF CausalInv, Course, Unsent, Early
  <2>. QED BY <1>1, <2>1, <2>2, BackendTyped DEF BeginSubmit, GoalFollows, Started
<1>4. CASE Background
  <2>1. PICK x \in ExecId : SendThread(x) \/ MoveIt(x)
    BY <1>4 DEF Background, BackendNext
  <2>2. GoalFollows(x)
    BY DEF CausalInv
  <2>3. CASE SendThread(x) \/ AcceptGoal(x) \/ RejectGoal(x)
    BY <1>1, <2>2, <2>3, BackendTyped
       DEF SendThread, ServerUnavailable, SendGoal, AcceptanceTimesOut,
           AcceptGoal, RejectGoal, SendStep, GoalFollows, Started
  <2>4. CASE AcceptLate(x)
    BY <1>1, <2>4, BackendTyped
       DEF AcceptLate, GoalStep, GoalFollows, Started, LateAcceptance
  <2>5. CASE FinishGoal(x)
    BY <1>1, <2>5, BackendTyped
       DEF FinishGoal, GoalStep, GoalFollows, Started, GoalResult
  <2>6. CASE DeliverStop(x) \/ LoseStop(x)
    BY <1>1, <2>6 DEF DeliverStop, LoseStop, GoalFollows, Started, GoalResult
  <2>. QED BY <2>1, <2>3, <2>4, <2>5, <2>6 DEF MoveIt
<1>5. CASE \E p \in PlanId : Start(p) \/ StartFails(p)
  BY <1>2, <1>5 DEF Start, StartFails, backendVars
<1>6. CASE \E x \in ExecId : RunExecution(x)
  <2>1. PICK x \in ExecId : RunExecution(x)
    BY <1>6
  <2>2. CASE CheckStored(x) \/ CheckState(x) \/ NotAccepted(x)
    BY <1>2, <2>2 DEF CheckStored, CheckState, NotAccepted, GiveUp, backendVars
  <2>3. CASE CheckScene(x)
    BY <1>2, <1>3, <2>3 DEF CheckScene, At, Submit, GiveUp, backendVars
  <2>4. CASE \/ Accepted(x) \/ Result(x) \/ ResultTimesOut(x)
             \/ WaitFails(x) \/ Stabilize(x)
    BY <1>2, <2>4 DEF Accepted, Result, ResultTimesOut, WaitFails, Stabilize,
       backendVars
  <2>. QED BY <2>1, <2>2, <2>3, <2>4 DEF RunExecution
<1>7. CASE \E x \in ExecId : Cancel(x)
  BY <1>2, <1>7 DEF Cancel, backendVars
<1>8. CASE PlanTraffic \/ UNCHANGED vars
  BY <1>2, <1>8 DEF PlanTraffic, vars, backendVars
<1>. QED BY <1>4, <1>5, <1>6, <1>7, <1>8 DEF Next

-----------------------------------------------------------------------------
(* The newest execution. *)

\* A task that runs belongs to the active, hence the newest, execution.
LEMMA RunningIsNewest ==
  ASSUME WorkflowInv, CausalInv, NEW x \in ExecId, RunExecution(x)
  PROVE  /\ active = x /\ created = x
         /\ created' = created /\ active' \in {active, None}
         /\ \E to : pc' = [pc EXCEPT ![x] = to]
<1>1. pc[x] \in DOMAIN TaskStates
  BY TaskStatesAre DEF RunExecution, CheckStored, CheckState, CheckScene,
     NotAccepted, Accepted, Result, ResultTimesOut, WaitFails, Stabilize, At,
     BeforeAcceptance
<1>2. active = x /\ created = x
  BY <1>1, SuspendedIsActive, NoneIsNoExecution DEF CausalInv, NewestIsActive
<1>3. ASSUME NEW rs, NEW s, NEW f, End(rs, x, s, f)
      PROVE  /\ created' = created /\ active' \in {active, None}
             /\ \E to : pc' = [pc EXCEPT ![x] = to]
  BY <1>3 DEF End, TransitionFrom, SlotAfter, Goto
<1>4. CASE CheckStored(x) \/ CheckState(x) \/ CheckScene(x) \/ NotAccepted(x)
  BY <1>2, <1>3, <1>4 DEF CheckStored, CheckState, CheckScene, Submit,
     NotAccepted, GiveUp, Goto, execVars
<1>5. CASE Accepted(x)
  BY <1>2, <1>3, <1>5 DEF Accepted, Proceed, TransitionFrom, SlotAfter, Goto
<1>6. CASE Result(x) \/ ResultTimesOut(x) \/ WaitFails(x) \/ Stabilize(x)
  BY <1>2, <1>3, <1>6 DEF Result, ResultTimesOut, WaitFails, Stabilize, Goto
<1>. QED BY <1>4, <1>5, <1>6 DEF RunExecution

\* Every step leaves the newest execution the only one that can be active.
LEMMA NewestStep ==
  ASSUME WorkflowInv, CausalInv, [Next]_vars
  PROVE  NewestIsActive'
<1>1. created \in Int /\ NewestIsActive
  BY RecordsTyped DEF CausalInv
<1>2. CASE \E p \in PlanId : Start(p)
  <2>1. PICK p \in PlanId : Start(p)
    BY <1>2
  <2>2. created' = created + 1 /\ active' = created'
    BY <2>1 DEF Start
  <2>3. ASSUME NEW y \in ExecId, y > created' PROVE pc'[y] = "idle"
    <3>1. y \in Int /\ y > created /\ y # created + 1
      BY <1>1, <2>2, <2>3 DEF ExecId
    <3>2. pc'[y] = pc[y]
      BY <2>1, <3>1, RecordsTyped DEF Start, Goto
    <3>. QED BY <1>1, <3>1, <3>2 DEF NewestIsActive
  <2>. QED BY <2>2, <2>3 DEF NewestIsActive
<1>3. CASE \E p \in PlanId : StartFails(p)
  <2>1. created' = created + 1 /\ active' = None /\ pc' = pc
    BY <1>3 DEF StartFails, taskVars
  <2>2. \A y \in ExecId : y > created' => y > created
    BY <1>1, <2>1 DEF ExecId
  <2>. QED BY <1>1, <2>1, <2>2 DEF NewestIsActive
<1>4. CASE \E x \in ExecId : RunExecution(x)
  <2>1. PICK x \in ExecId : RunExecution(x)
    BY <1>4
  <2>2. PICK to : pc' = [pc EXCEPT ![x] = to]
    BY <2>1, RunningIsNewest
  <2>3. ASSUME NEW y \in ExecId, y > created' PROVE pc'[y] = "idle"
    <3>1. y # x /\ y > created
      BY <2>1, <2>3, RunningIsNewest DEF ExecId
    <3>. QED BY <1>1, <2>2, <3>1, RecordsTyped DEF NewestIsActive
  <2>. QED BY <1>1, <2>1, <2>3, RunningIsNewest DEF NewestIsActive
<1>5. CASE \/ \E x \in ExecId : Cancel(x)
           \/ PlanTraffic \/ Background \/ UNCHANGED vars
  BY <1>1, <1>5 DEF Cancel, PlanTraffic, Background, vars, execVars, taskVars,
     NewestIsActive
<1>. QED BY <1>2, <1>3, <1>4, <1>5 DEF Next

-----------------------------------------------------------------------------
(* Accepted executions and their plans. *)

\* From the records rs to the records ss nobody's acceptance is added, and who
\* was accepted keeps its plan.
AcceptsNoOther(rs, ss) ==
  \A y \in ExecId :
    "backend_goal_accepted" \in ss[y].evidence =>
      /\ "backend_goal_accepted" \in rs[y].evidence
      /\ ss[y].plan = rs[y].plan

\* Evidence other than the acceptance adds no acceptance.
LEMMA NotedAccepts ==
  ASSUME NEW rs \in Records, NEW x \in ExecId,
         NEW e \in Evidence \ {"backend_goal_accepted"}
  PROVE  Noted(rs, x, {e}) \in Records /\ AcceptsNoOther(rs, Noted(rs, x, {e}))
<1>1. /\ Noted(rs, x, {e}) \in Records
      /\ \A y \in ExecId \ {x} : Noted(rs, x, {e})[y] = rs[y]
      /\ Noted(rs, x, {e})[x].plan = rs[x].plan
      /\ Noted(rs, x, {e})[x].evidence = rs[x].evidence \cup {e}
  BY NotedRecord
<1>. QED BY <1>1 DEF AcceptsNoOther

\* Nor does a transition, legal or not.
LEMMA MovedAccepts ==
  ASSUME NEW rs \in Records, NEW x \in ExecId, NEW s \in State, NEW f \in Failures
  PROVE  Moved(rs, x, s, f) \in Records /\ AcceptsNoOther(rs, Moved(rs, x, s, f))
<1>1. rs[x] \in Record
  BY DEF Records
<1>2. /\ MovedRecord(rs[x], s, f).plan = rs[x].plan
      /\ MovedRecord(rs[x], s, f).evidence = rs[x].evidence
  BY <1>1, MovedRecordType
<1>3. ASSUME NEW y \in ExecId
      PROVE  Moved(rs, x, s, f)[y] \in {rs[y], MovedRecord(rs[y], s, f), NoRecord}
             /\ (y # x => Moved(rs, x, s, f)[y] \in {rs[y], NoRecord})
  BY MovedEach
<1>. QED BY <1>2, <1>3, NoRecordIs, MovedType DEF AcceptsNoOther

\* Nor does a transition that may be refused.
LEMMA TransitionAccepts ==
  ASSUME NEW rs \in Records, NEW x \in ExecId, NEW slot,
         NEW s \in State, NEW f \in Failures, TransitionFrom(rs, slot, x, s, f)
  PROVE  AcceptsNoOther(rs, records')
BY MovedAccepts DEF TransitionFrom, AcceptsNoOther

\* No step but Accepted makes an accepted execution.
LEMMA OthersAccept ==
  ASSUME WorkflowInv, [Next]_vars, \A x \in ExecId : ~Accepted(x)
  PROVE  AcceptsNoOther(records, records')
<1>. USE DEF AcceptsNoOther
<1>0. /\ records \in Records
      /\ {"validating", "starting", "cancelling"} \subseteq State
      /\ FailureCode \subseteq Failures /\ None \in Failures
      /\ TerminalState \subseteq State
  BY RecordsTyped, FailuresAre DEF State, LiveState
<1>1. ASSUME NEW rs \in Records, AcceptsNoOther(records, rs),
             NEW x \in ExecId, NEW s \in TerminalState, NEW f \in Failures,
             End(rs, x, s, f)
      PROVE  AcceptsNoOther(records, records')
  BY <1>0, <1>1, TransitionAccepts DEF End
<1>2. ASSUME NEW p \in PlanId, NEW s \in State, NEW f \in Failures, MayStart,
             records' = Moved([records EXCEPT ![created + 1] = NewRecord(p)],
                              created + 1, s, f)
      PROVE  AcceptsNoOther(records, records')
  <2>. DEFINE rs == [records EXCEPT ![created + 1] = NewRecord(p)]
  <2>0. /\ created + 1 \in ExecId /\ rs \in Records
        /\ rs[created + 1] = NewRecord(p)
        /\ \A y \in ExecId \ {created + 1} : rs[y] = records[y]
    BY <1>2, NewExecution
  <2>. HIDE DEF rs
  <2>1. rs[created + 1].evidence = {}
    BY <2>0, NewRecordIsRecord
  <2>2. AcceptsNoOther(rs, Moved(rs, created + 1, s, f))
    BY <2>0, MovedAccepts
  <2>. QED BY <1>2, <2>0, <2>1, <2>2 DEF rs
<1>3. CASE \E p \in PlanId : Start(p) \/ StartFails(p)
  BY <1>0, <1>2, <1>3 DEF Start, StartFails, FailureCode, TerminalState
<1>4. ASSUME NEW x \in ExecId,
             CheckStored(x) \/ CheckState(x) \/ CheckScene(x) \/ NotAccepted(x)
      PROVE  AcceptsNoOther(records, records')
  <2>1. LET starting == Moved(records, x, "starting", None) IN
        starting \in Records /\ AcceptsNoOther(records, starting)
    BY <1>0, MovedAccepts
  <2>2. ASSUME NEW rs \in Records, AcceptsNoOther(records, rs),
               NEW f \in FailureCode, GiveUp(rs, x, f)
        PROVE  AcceptsNoOther(records, records')
    BY <1>0, <1>1, <2>2 DEF GiveUp, TerminalState
  <2>3. CASE CheckStored(x) \/ CheckState(x) \/ NotAccepted(x)
    BY <1>0, <2>2, <2>3 DEF CheckStored, CheckState, NotAccepted, FailureCode,
       execVars
  <2>4. CASE CheckScene(x)
    BY <1>0, <2>1, <2>2, <2>4 DEF CheckScene, Submit, FailureCode
  <2>. QED BY <1>4, <2>3, <2>4
<1>5. ASSUME NEW x \in ExecId, Result(x)
      PROVE  AcceptsNoOther(records, records')
  <2>. DEFINE noted == Noted(records, x, {"execution_terminal"})
              acknowledged == Noted(noted, x, {"backend_stop_acknowledged"})
  <2>1. noted \in Records /\ AcceptsNoOther(records, noted)
    BY <1>0, NotedAccepts DEF Evidence
  <2>. HIDE DEF noted
  <2>2. AcceptsNoOther(noted, acknowledged)
    BY <2>1, NotedAccepts DEF Evidence
  <2>. HIDE DEF acknowledged
  <2>3. \/ records' = acknowledged
        \/ \E s \in TerminalState, f \in Failures : End(noted, x, s, f)
    BY <1>0, <1>5 DEF Result, noted, acknowledged, TerminalState, FailureCode
  <2>. QED BY <1>1, <2>1, <2>2, <2>3
<1>6. ASSUME NEW x \in ExecId, ResultTimesOut(x)
      PROVE  AcceptsNoOther(records, records')
  <2>. DEFINE cancelling == IF CanMove(records[x], "cancelling", None)
                            THEN Moved(records, x, "cancelling", None)
                            ELSE records
              stopped == StopNoted(cancelling, x)
  <2>1. cancelling \in Records /\ AcceptsNoOther(records, cancelling)
    BY <1>0, MovedAccepts
  <2>. HIDE DEF cancelling
  <2>2. stopped \in Records /\ AcceptsNoOther(cancelling, stopped)
    BY <2>1, NotedAccepts DEF StopNoted, Evidence
  <2>. HIDE DEF stopped
  <2>3. End(stopped, x, "timed_out", "timeout")
    BY <1>6 DEF ResultTimesOut, stopped, cancelling
  <2>. QED BY <1>0, <1>1, <2>1, <2>2, <2>3 DEF TerminalState, FailureCode
<1>7. ASSUME NEW x \in ExecId, WaitFails(x) \/ Stabilize(x)
      PROVE  AcceptsNoOther(records, records')
  <2>. DEFINE noted == Noted(records, x, {"state_stabilized"})
  <2>1. noted \in Records /\ AcceptsNoOther(records, noted)
    BY <1>0, NotedAccepts DEF Evidence
  <2>2. \E rs \in {records, noted}, s \in TerminalState, f \in Failures :
          End(rs, x, s, f)
    BY <1>0, <1>7 DEF WaitFails, Stabilize, TerminalState, FailureCode
  <2>. QED BY <1>0, <1>1, <2>1, <2>2
<1>8. ASSUME NEW x \in ExecId, Cancel(x)
      PROVE  AcceptsNoOther(records, records')
  <2>. DEFINE cancelling == Moved(records, x, "cancelling", None)
              stopped == StopNoted(cancelling, x)
  <2>1. cancelling \in Records /\ AcceptsNoOther(records, cancelling)
    BY <1>0, MovedAccepts
  <2>. HIDE DEF cancelling
  <2>2. AcceptsNoOther(cancelling, stopped)
    BY <2>1, NotedAccepts DEF StopNoted, Evidence
  <2>3. records' \in {cancelling, stopped}
    BY <1>8 DEF Cancel, cancelling
  <2>. QED BY <2>1, <2>2, <2>3
<1>9. CASE PlanTraffic \/ Background \/ UNCHANGED vars
  BY <1>9 DEF PlanTraffic, Background, vars, execVars
<1>. QED BY <1>3, <1>4, <1>5, <1>6, <1>7, <1>8, <1>9 DEF Next, RunExecution

\* Acceptance adds its own execution, and no other.
LEMMA AcceptedAccepts ==
  ASSUME WorkflowInv, NEW x \in ExecId, Accepted(x)
  PROVE  /\ \A y \in ExecId \ {x} :
              Has(y, "backend_goal_accepted")' =>
                /\ Has(y, "backend_goal_accepted")
                /\ PlanOf(y)' = PlanOf(y)
         /\ PlanOf(x)' \in {PlanOf(x), None}
         /\ Has(x, "backend_goal_accepted")' => PlanOf(x)' = PlanOf(x)
<1>. DEFINE noted == Noted(records, x, {"backend_goal_accepted"})
            stopped == StopNoted(noted, x)
<1>1. /\ noted \in Records
      /\ \A y \in ExecId \ {x} : noted[y] = records[y]
      /\ noted[x].plan = records[x].plan
  BY RecordsTyped, NotedRecord DEF Evidence
<1>. HIDE DEF noted
<1>2. /\ stopped \in Records
      /\ \A y \in ExecId \ {x} : stopped[y] = records[y]
      /\ stopped[x].plan = records[x].plan
  BY <1>1, StopNotedRecord
<1>. HIDE DEF stopped
<1>3. \/ records' = stopped
      \/ \E rs \in {noted, stopped}, s \in State, f \in Failures :
           TransitionFrom(rs, active, x, s, f)
  BY FailuresAre DEF Accepted, Proceed, End, noted, stopped, State, LiveState,
     TerminalState, FailureCode
<1>4. ASSUME NEW rs \in Records, NEW s \in State, NEW f \in Failures,
             TransitionFrom(rs, active, x, s, f), NEW y \in ExecId
      PROVE  /\ y # x => records'[y] \in {rs[y], NoRecord}
             /\ records'[x] = NoRecord \/ records'[x].plan = rs[x].plan
  <2>1. rs[x] \in Record
    BY DEF Records
  <2>. QED BY <1>4, <2>1, MovedEach, MovedRecordType DEF TransitionFrom
<1>. QED BY <1>1, <1>2, <1>3, <1>4, NoRecordIs DEF Has, PlanOf

\* What is spent stays spent, whatever the registry does.
LEMMA SpentStays ==
  ASSUME PlanTypeOK, [PlanNext]_planVars, NEW p \in PlanId, Spent(p)
  PROVE  Spent(p)'
<1>. USE DEF Spent
<1>0. /\ issued \in Nat /\ p \in Int
      /\ Live \in [PlanId -> Entry] /\ plans \in [PlanId -> Entry]
  BY LiveWellFormed, IdentifierAssumption DEF PlanTypeOK, WellFormed, PlanId
<1>1. Live[p].state \in {"consumed", "absent"} /\ Absent.state = "absent"
  BY LiveKeepsOrDrops DEF Absent
<1>2. CASE Store
  <2>1. p # issued + 1 /\ issued' = issued + 1
    BY <1>0, <1>2 DEF Store
  <2>. QED BY <1>0, <1>1, <1>2, <2>1, StoreEffect
<1>3. CASE StoreRefused \/ Lookup \/ Tick
  BY <1>1, <1>3 DEF StoreRefused, Lookup, Tick
<1>4. CASE \E q \in PlanId : Discard(q)
  BY <1>0, <1>1, <1>4 DEF Discard
<1>5. ASSUME NEW q \in PlanId, NEW owner \in ExecId,
             Reserve(q, owner) \/ Release(q, owner) \/ Consume(q, owner)
      PROVE  Spent(p)'
  <2>1. q # p /\ issued' = issued
    BY <1>1, <1>5 DEF Reserve, Release, Consume, Reserves
  <2>. QED BY <1>0, <1>1, <1>5, <2>1 DEF Reserve, Release, Consume
<1>6. CASE UNCHANGED planVars
  BY <1>6 DEF planVars
<1>. QED BY <1>2, <1>3, <1>4, <1>5, <1>6 DEF PlanNext

\* Every step leaves accepted executions with spent plans of their own.
LEMMA PlansSpentStep ==
  ASSUME WorkflowInv, CausalInv, [Next]_vars
  PROVE  PlansSpent'
<1>1. PlansSpent /\ PlanTypeOK
  BY DEF WorkflowInv, TypeOK, CausalInv
<1>2. ASSUME NEW p \in PlanId, Spent(p) PROVE Spent(p)'
  BY <1>1, <1>2, PlanStep, SpentStays
<1>3. CASE \A x \in ExecId : ~Accepted(x)
  <2>1. ASSUME NEW y \in ExecId, Has(y, "backend_goal_accepted")'
        PROVE  Has(y, "backend_goal_accepted") /\ PlanOf(y)' = PlanOf(y)
    BY <1>3, <2>1, OthersAccept DEF AcceptsNoOther, Has, PlanOf
  <2>. QED BY <1>1, <1>2, <2>1 DEF PlansSpent
<1>4. ASSUME NEW x \in ExecId, Accepted(x) PROVE PlansSpent'
  <2>1. /\ PlanOf(x) \in PlanId /\ Reserves(PlanOf(x), x)
        /\ Consume(PlanOf(x), x)
    BY <1>4, OwnsReservation, AcceptedStep DEF Accepted, At, BeforeAcceptance
  <2>0. PICK p \in PlanId : p = PlanOf(x)
    BY <2>1
  <2>2. Spent(p)'
    <3>1. plans[p].state # "absent" /\ issued \in Int /\ p \in Int
      BY <1>1, <2>0, <2>1, IdentifierAssumption DEF Reserves, PlanTypeOK, PlanId
    <3>2. p <= issued
      BY <1>1, <3>1 DEF PlanTypeOK, Absent
    <3>3. /\ issued' = issued
          /\ plans' = [plans EXCEPT ![p] =
               Unowned("consumed", now + plans[p].remaining)]
      BY <2>0, <2>1 DEF Consume
    <3>4. plans'[p].state = "consumed"
      BY <1>1, <3>3 DEF Unowned, PlanTypeOK
    <3>. QED BY <3>2, <3>3, <3>4 DEF Spent
  <2>3. ASSUME NEW y \in ExecId, Has(y, "backend_goal_accepted"), y # x
        PROVE  PlanOf(y) # PlanOf(x)
    BY <1>1, <2>1, <2>3 DEF PlansSpent, Spent, Reserves
  <2>4. ASSUME NEW y \in ExecId, Has(y, "backend_goal_accepted")', y # x
        PROVE  Has(y, "backend_goal_accepted") /\ PlanOf(y)' = PlanOf(y)
    BY <1>4, <2>4, AcceptedAccepts
  <2>5. Has(x, "backend_goal_accepted")' => PlanOf(x)' = PlanOf(x)
    BY <1>4, AcceptedAccepts
  <2>6. ASSUME NEW y \in ExecId, Has(y, "backend_goal_accepted")'
        PROVE  /\ PlanOf(y)' = PlanOf(y)
               /\ PlanOf(y) \in PlanId /\ Spent(PlanOf(y))'
    BY <1>1, <1>2, <2>0, <2>2, <2>4, <2>5, <2>6 DEF PlansSpent, Spent
  <2>. QED BY <1>1, <2>3, <2>4, <2>5, <2>6 DEF PlansSpent, Spent
<1>. QED BY <1>3, <1>4

-----------------------------------------------------------------------------
(* The invariant, and what follows from it. *)

\* Before the first request there is no execution to speak of.
LEMMA CausalInitInv == Init => CausalInv
<1>. SUFFICES ASSUME Init PROVE CausalInv
  OBVIOUS
<1>. USE DEF Init, ExecInit, BackendInit
<1>1. Barred /\ SendingSubmits
  BY DEF Barred, SendingSubmits, Underway
<1>2. ASSUME NEW x \in ExecId PROVE GoalFollows(x) /\ Course(x)
  BY NoRecordIs DEF GoalFollows, Course, Unsent, Early, Has, PlanOf
<1>3. ASSUME NEW x \in ExecId PROVE Causal(x)
  BY NoneIsNoExecution DEF Causal
<1>4. PlansSpent /\ NewestIsActive
  BY NoRecordIs DEF PlansSpent, Has, NewestIsActive
<1>. QED BY <1>1, <1>2, <1>3, <1>4 DEF CausalInv

\* Every step keeps the invariant.
LEMMA CausalStepInv == WorkflowInv /\ CausalInv /\ [Next]_vars => CausalInv'
<1>. SUFFICES ASSUME WorkflowInv, CausalInv, [Next]_vars PROVE CausalInv'
  OBVIOUS
<1>1. Barred' /\ SendingSubmits'
  BY BarredStep, SendingStep DEF CausalInv
<1>. QED BY <1>1, GoalFollowsStep, CourseStep, PlansSpentStep, NewestStep
         DEF CausalInv, CourseGoal

\* The account of every execution is kept at every stage, under every fault.
THEOREM CausalInvariant == Spec => []CausalInv
BY CausalInitInv, CausalStepInv, WorkflowInvariant, PTL DEF Spec

\* An execution that has ended and is known holds no slot, and its task ended
\* with it unless it never began.
LEMMA EndedIs ==
  ASSUME WorkflowInv, NEW x \in ExecId, records[x].state \in TerminalState
  PROVE  active # x /\ pc[x] \in {"idle", "done"}
<1>1. active # x
  <2>1. ASSUME active = x PROVE FALSE
    <3>1. /\ pc[x] \in {"waiting", "stabilizing"} \cup BeforeAcceptance
          /\ records[x].state \in TaskStates[pc[x]]
      BY <2>1, TaskStatesAre DEF WorkflowInv, SlotFollowsTask
    <3>. QED BY <3>1, TaskStatesAre DEF BeforeAcceptance, TerminalState
  <2>. QED BY <2>1
<1>. QED BY <1>1, OthersRest

\* A plan whose goal was accepted is consumed or gone (AcceptedPlanIsSpent).
THEOREM AcceptedPlansAreSpent == Spec => []AcceptedPlanIsSpent
<1>1. CausalInv => AcceptedPlanIsSpent
  BY DEF CausalInv, PlansSpent, Spent, AcceptedPlanIsSpent
<1>. QED BY <1>1, CausalInvariant, PTL

\* An execution reported as cancelled was preempted by its own stop and came
\* to rest; one reported as succeeded did, and nobody had asked to cancel it
\* (OutcomeIsEarned).
THEOREM OutcomesAreEarned == Spec => []OutcomeIsEarned
<1>1. ASSUME WorkflowInv, CausalInv PROVE OutcomeIsEarned
  <2>1. ASSUME NEW x \in ExecId,
               records[x].state \in {"succeeded", "cancelled"}
        PROVE  EndedWell(x)
    BY <1>1, <2>1, EndedIs
       DEF TerminalState, CausalInv, Course, Unsent, Early
  <2>. QED BY <2>1 DEF EndedWell, OutcomeIsEarned
<1>. QED BY <1>1, WorkflowInvariant, CausalInvariant, PTL

\* At most one stop is published for an execution, after its goal was
\* accepted, and record and adapter agree on whether it was (StopsOnce).
THEOREM OneStopEach == Spec => []StopsOnce
<1>1. ASSUME WorkflowInv, CausalInv PROVE StopsOnce
  <2>1. ASSUME NEW x \in ExecId, active = x, adapterActive = x
        PROVE  Following(x)
    <3>1. pc[x] \in {"waiting", "stabilizing"} \cup BeforeAcceptance
      BY <1>1, <2>1, TaskStatesAre DEF WorkflowInv, SlotFollowsTask
    <3>. QED BY <1>1, <2>1, <3>1 DEF CausalInv, Causal, Course, BeforeAcceptance
  <2>2. ASSUME NEW x \in ExecId
        PROVE  published[x] <= 1 /\ (published[x] = 1 => Started(x))
    BY <1>1 DEF CausalInv, Causal, GoalFollows
  <2>. QED BY <2>1, <2>2 DEF Following, StopsOnce
<1>. QED BY <1>1, WorkflowInvariant, CausalInvariant, PTL

-----------------------------------------------------------------------------
(* Where a goal is accepted late, or waiting fails, each of the following    *)
(* fails too: TLC shows it.  The theorems name the fault that must be        *)
(* absent, and no other.                                                     *)

\* What MoveIt was asked to start it started while its task waited.
LEMMA StartedWasAccepted ==
  ASSUME CausalInv, ~LateAcceptance, NEW x \in ExecId, Started(x),
         sending[x] \in SendState
  PROVE  sending[x] = "accepted"
BY DEF CausalInv, GoalFollows, Started, GoalResult, SendState

\* A stop on its way can only hit the goal it was published for
\* (StopHitsItsOwner).
THEOREM StopsHitTheirOwners ==
  ASSUME "late_acceptance" \notin Faults
  PROVE  Spec => []StopHitsItsOwner
<1>1. ASSUME WorkflowInv, CausalInv PROVE StopHitsItsOwner
  <2>1. ASSUME NEW y \in ExecId, goal[y] = "executing"
        PROVE  stops \subseteq {y}
    <3>1. sending[y] = "accepted"
      BY <1>1, <2>1, StartedWasAccepted, BackendTyped
         DEF Started, LateAcceptance
    <3>. QED BY <1>1, <2>1, <3>1 DEF CausalInv, Causal
  <2>. QED BY <1>1, <2>1, BackendTyped DEF StopHitsItsOwner
<1>. QED BY <1>1, WorkflowInvariant, CausalInvariant, PTL

\* One plan is never accepted by MoveIt for two executions (PlanRunsOnce).
THEOREM PlansRunOnce ==
  ASSUME "late_acceptance" \notin Faults
  PROVE  Spec => []PlanRunsOnce
<1>1. ASSUME WorkflowInv, CausalInv PROVE PlanRunsOnce
  <2>1. ASSUME NEW x \in ExecId, Started(x), PlanOf(x) # None
        PROVE  \/ Has(x, "backend_goal_accepted")
               \/ active = x /\ Reserves(PlanOf(x), x)
    <3>1. sending[x] = "accepted"
      BY <1>1, <2>1, StartedWasAccepted, BackendTyped DEF LateAcceptance
    <3>2. pc[x] = "submitting" \/ Has(x, "backend_goal_accepted")
      BY <1>1, <2>1, <3>1 DEF CausalInv, Course
    <3>. QED BY <1>1, <3>2, OwnsReservation DEF BeforeAcceptance
  <2>2. ASSUME NEW x \in ExecId, Has(x, "backend_goal_accepted")
        PROVE  plans[PlanOf(x)].state # "reserved"
    BY <1>1, <2>2 DEF CausalInv, PlansSpent, Spent
  <2>3. ASSUME NEW x \in ExecId, NEW y \in ExecId,
               Started(x), Started(y),
               PlanOf(x) = PlanOf(y), PlanOf(x) # None
        PROVE  x = y
    <3>1. CASE Has(x, "backend_goal_accepted")
      <4>1. Has(y, "backend_goal_accepted")
        BY <2>1, <2>2, <2>3, <3>1 DEF Reserves
      <4>. QED BY <1>1, <2>3, <3>1, <4>1 DEF CausalInv, PlansSpent
    <3>2. CASE active = x /\ Reserves(PlanOf(x), x)
      BY <2>1, <2>2, <2>3, <3>2 DEF Reserves
    <3>. QED BY <2>1, <2>3, <3>1, <3>2
  <2>. QED BY <2>3 DEF PlanRunsOnce
<1>. QED BY <1>1, WorkflowInvariant, CausalInvariant, PTL

\* An accepted execution whose cancellation or deadline came to nothing
\* leaves the backend quarantined (AmbiguityQuarantines).
THEOREM AmbiguityIsQuarantined ==
  ASSUME "wait_error" \notin Faults
  PROVE  Spec => []AmbiguityQuarantines
<1>1. ASSUME WorkflowInv, CausalInv PROVE AmbiguityQuarantines
  <2>1. ASSUME NEW x \in ExecId, Has(x, "backend_goal_accepted"),
               records[x].state \in TerminalState
        PROVE  EndedWell(x)
    BY <1>1, <2>1, EndedIs DEF CausalInv, Course, Unsent, Early, Has
  <2>. QED BY <2>1 DEF EndedWell, AmbiguityQuarantines, TerminalState, WaitError
<1>. QED BY <1>1, WorkflowInvariant, CausalInvariant, PTL

\* An execution the service no longer owns does not wedge the adapter, and a
\* running one is the one the adapter follows (AdapterFollowsSlot).
THEOREM AdapterFollows ==
  ASSUME "wait_error" \notin Faults
  PROVE  Spec => []AdapterFollowsSlot
<1>1. ASSUME WorkflowInv, CausalInv PROVE AdapterFollowsSlot
  <2>1. ASSUME adapterActive # None, active # adapterActive
        PROVE  quarantined
    <3>1. PICK x \in ExecId : x = adapterActive
      BY <1>1, <2>1, BackendTyped
    <3>2. pc[x] = "done"
      BY <1>1, <2>1, <3>1, OthersRest DEF CausalInv, Causal
    <3>. QED BY <1>1, <3>1, <3>2 DEF CausalInv, Course, EndedWell, WaitError
  <2>2. ASSUME NEW x \in ExecId, records[x].state = "running"
        PROVE  adapterActive = x
    <3>1. pc[x] = "waiting"
      <4>1. /\ pc[x] \in {"waiting", "stabilizing"} \cup BeforeAcceptance
            /\ records[x].state \in TaskStates[pc[x]]
        BY <1>1, <2>2, TaskStatesAre
           DEF WorkflowInv, SlotFollowsTask, LiveState
      <4>. QED BY <2>2, <4>1, TaskStatesAre DEF BeforeAcceptance
    <3>. QED BY <1>1, <3>1 DEF CausalInv, Course, Following
  <2>. QED BY <2>1, <2>2 DEF AdapterFollowsSlot
<1>. QED BY <1>1, WorkflowInvariant, CausalInvariant, PTL

\* While MoveIt executes a goal its execution holds the slot, or the backend
\* is quarantined (MotionIsOwned).
THEOREM MotionsAreOwned ==
  ASSUME "late_acceptance" \notin Faults, "wait_error" \notin Faults
  PROVE  Spec => []MotionIsOwned
<1>1. ASSUME WorkflowInv, CausalInv, AdapterFollowsSlot PROVE MotionIsOwned
  <2>1. ASSUME NEW x \in ExecId, goal[x] = "executing"
        PROVE  active = x \/ quarantined
    <3>1. sending[x] = "accepted"
      BY <1>1, <2>1, StartedWasAccepted, BackendTyped
         DEF Started, LateAcceptance
    <3>2. pc[x] = "submitting" \/ adapterActive = x \/ quarantined
      BY <1>1, <2>1, <3>1 DEF CausalInv, Causal
    <3>. QED BY <1>1, <3>2, OwnsReservation, NoneIsNoExecution
             DEF BeforeAcceptance, AdapterFollowsSlot
  <2>. QED BY <2>1 DEF MotionIsOwned, Executing
<1>. QED BY <1>1, WorkflowInvariant, CausalInvariant, AdapterFollows, PTL

-----------------------------------------------------------------------------
(* What the history forgets. *)

\* The newest execution is never trimmed by its own transition.
LEMMA NewestIsKept ==
  ASSUME NEW rs \in Records, NEW x \in ExecId, NEW s \in State,
         NEW f \in Failures, \A y \in ExecId : y > x => rs[y] = NoRecord
  PROVE  Moved(rs, x, s, f)[x] = MovedRecord(rs[x], s, f)
<1>. DEFINE moved == [rs EXCEPT ![x] = MovedRecord(rs[x], s, f)]
<1>1. moved[x] = MovedRecord(rs[x], s, f)
  BY DEF Records
<1>2. {y \in TerminalIn(moved) : y > x} = {}
  <2>1. ASSUME NEW y \in ExecId, y > x
        PROVE  moved[y].state \notin TerminalState
    <3>1. moved[y] = NoRecord
      BY <2>1 DEF Records, ExecId
    <3>. QED BY <3>1, NoRecordIs DEF TerminalState
  <2>. QED BY <2>1 DEF TerminalIn
<1>3. Cardinality({y \in TerminalIn(moved) : y > x}) = 0
  BY <1>2, FS_EmptySet
<1>4. ~(0 >= MaxTerminal)
  BY ExecAssumption
<1>. HIDE DEF moved
<1>5. Trimmed(moved)[x] = moved[x]
  BY <1>3, <1>4 DEF Trimmed
<1>. QED BY <1>1, <1>5 DEF Moved, moved

\* A record other than the one that moves stays, or had ended and is
\* forgotten.
LEMMA OthersStayOrEnded ==
  ASSUME NEW rs \in Records, NEW x \in ExecId, NEW s, NEW f, NEW y \in ExecId,
         y # x
  PROVE  \/ Moved(rs, x, s, f)[y] = rs[y]
         \/ rs[y].state \in TerminalState /\ Moved(rs, x, s, f)[y] = NoRecord
BY MovedEach

-----------------------------------------------------------------------------
(* What a client can know. *)

\* The status of an execution, by the state of its record.
LEMMA StatusIs ==
  ASSUME NEW x \in ExecId
  PROVE  /\ records[x].state \in TerminalState => StatusOf(x) = records[x].state
         /\ records[x].state = "cancelling" => StatusOf(x) = "stopping"
         /\ records[x].state \in LiveState \ {"cancelling"} => StatusOf(x) = "live"
         /\ records[x].state = "none" /\ x > created => StatusOf(x) = "unborn"
         /\ records[x].state = "none" /\ ~(x > created)
              => StatusOf(x) = "forgotten"
BY DEF StatusOf, TerminalState, LiveState

\* The same after a step.
LEMMA NextStatusIs ==
  ASSUME NEW x \in ExecId
  PROVE  /\ records'[x].state \in TerminalState
              => StatusOf(x)' = records'[x].state
         /\ records'[x].state = "cancelling" => StatusOf(x)' = "stopping"
         /\ records'[x].state \in LiveState \ {"cancelling"}
              => StatusOf(x)' = "live"
         /\ records'[x].state = "none" /\ x > created' => StatusOf(x)' = "unborn"
         /\ records'[x].state = "none" /\ ~(x > created')
              => StatusOf(x)' = "forgotten"
BY DEF StatusOf, TerminalState, LiveState

\* There is no other status.
LEMMA StatusTyped ==
  ASSUME NEW x \in ExecId
  PROVE  StatusOf(x)' \in Contract!Status
BY DEF StatusOf, TerminalState, Contract!Status, Contract!Living, Contract!Ended

\* An execution that is not forgotten by a step keeps its status if its record
\* and its place stay; one that is had ended.
LEMMA OthersStatus ==
  ASSUME WorkflowInv, NEW y \in ExecId,
         y > created' <=> y > created,
         \/ records'[y] = records[y]
         \/ records[y].state \in TerminalState /\ records'[y] = NoRecord
  PROVE  \/ StatusOf(y)' = StatusOf(y)
         \/ StatusOf(y) \in Contract!Ended /\ StatusOf(y)' = "forgotten"
<1>1. CASE records'[y] = records[y]
  BY <1>1 DEF StatusOf
<1>2. CASE records[y].state \in TerminalState /\ records'[y] = NoRecord
  <2>1. ~(y > created)
    BY <1>2, RecordsTyped, NoRecordIs DEF TerminalState
  <2>. QED BY <1>2, <2>1, NoRecordIs, StatusIs, NextStatusIs
           DEF Contract!Ended, TerminalState
<1>. QED BY <1>1, <1>2

-----------------------------------------------------------------------------
(* What a step shows the client. *)

\* Nothing, as far as the contract goes.
Silent ==
  /\ \A y \in ExecId : StatusOf(y)' = StatusOf(y)
  /\ quarantined' = quarantined

\* What every step of the workflow is.
ContractGoal == Silent \/ Contract!ContractNext

\* A silent step leaves the variables of the contract unchanged.
LEMMA SilentIsUnchanged ==
  ASSUME Silent
  PROVE  UNCHANGED Contract!contractVars
BY DEF Silent, Contract!contractVars

\* One execution gets a new status; others keep theirs or are forgotten.
LEMMA BecomesStatus ==
  ASSUME NEW x \in ExecId, NEW st, StatusOf(x)' = st,
         \A y \in ExecId \ {x} :
           \/ StatusOf(y)' = StatusOf(y)
           \/ StatusOf(y) \in Contract!Ended /\ StatusOf(y)' = "forgotten"
  PROVE  Contract!Becomes(x, st)
<1>1. \A y \in Contract!ExecId : StatusOf(y)' \in Contract!Status
  BY StatusTyped DEF Contract!ExecId, ExecId
<1>. QED BY <1>1 DEF Contract!Becomes, Contract!ExecId, ExecId

\* Quarantine is entered, or not; never left.
LEMMA QuarantineGrows ==
  ASSUME NEW b \in BOOLEAN, QuarantineIf(b), quarantined \in BOOLEAN
  PROVE  /\ quarantined' \in {quarantined, TRUE}
         /\ b => quarantined'
         /\ ~b => quarantined' = quarantined
BY DEF QuarantineIf

\* A step that leaves records, order of creation and quarantine alone.
LEMMA SilentIfSame ==
  ASSUME UNCHANGED <<records, created, quarantined>>
  PROVE  ContractGoal
BY DEF ContractGoal, Silent, StatusOf

\* A step that moves the live record of the active execution to another live
\* state with the same status.
LEMMA SilentIfAlike ==
  ASSUME WorkflowInv, NEW x \in ExecId,
         created' = created, quarantined' = quarantined,
         \A y \in ExecId \ {x} : records'[y] = records[y],
         {records[x].state, records'[x].state} \subseteq LiveState,
         records[x].state = "cancelling" <=> records'[x].state = "cancelling"
  PROVE  ContractGoal
<1>1. StatusOf(x)' = StatusOf(x)
  BY StatusIs, NextStatusIs
<1>2. ASSUME NEW y \in ExecId, y # x PROVE StatusOf(y)' = StatusOf(y)
  BY <1>2 DEF StatusOf
<1>. QED BY <1>1, <1>2 DEF ContractGoal, Silent

\* The final transition of the active execution is how the contract lets it
\* end.
LEMMA EndIsFinish ==
  ASSUME WorkflowInv, NewestIsActive, NEW x \in ExecId, active = x,
         NEW rs \in Records, \A y \in ExecId \ {x} : rs[y] = records[y],
         records[x].state \in LiveState,
         NEW s \in TerminalState, NEW f \in Failures,
         CanMove(rs[x], s, f), End(rs, x, s, f),
         s = "succeeded" => records[x].state # "cancelling",
         s = "cancelled" => records[x].state = "cancelling",
         quarantined' \in {quarantined, TRUE},
         s = "timed_out" => quarantined'
  PROVE  ContractGoal
<1>1. /\ s \in State /\ rs[x] \in Record /\ created = x /\ created \in Int
  BY NoneIsNoExecution, RecordsTyped
     DEF State, TerminalState, Records, NewestIsActive
<1>2. records' = Moved(rs, x, s, f) /\ created' = created
  BY DEF End, TransitionFrom
<1>3. \A y \in ExecId : y > x => rs[y] = NoRecord
  BY <1>1, RecordsTyped DEF ExecId
<1>4. records'[x].state = s
  BY <1>1, <1>2, <1>3, NewestIsKept, MovedRecordType
<1>5. StatusOf(x)' = s
  BY <1>4, NextStatusIs
<1>6. ASSUME NEW y \in ExecId, y # x
      PROVE  \/ StatusOf(y)' = StatusOf(y)
             \/ StatusOf(y) \in Contract!Ended /\ StatusOf(y)' = "forgotten"
  <2>1. \/ records'[y] = records[y]
        \/ records[y].state \in TerminalState /\ records'[y] = NoRecord
    BY <1>2, <1>6, OthersStayOrEnded
  <2>. QED BY <1>2, <2>1, OthersStatus
<1>7. Contract!Becomes(x, s)
  BY <1>5, <1>6, BecomesStatus
<1>8. /\ StatusOf(x) \in Contract!Living
      /\ s \in Contract!Endings(StatusOf(x))
  <2>1. CASE records[x].state = "cancelling"
    <3>1. StatusOf(x) = "stopping"
      BY <2>1, StatusIs
    <3>. QED BY <2>1, <3>1 DEF Contract!Living, Contract!Endings, TerminalState
  <2>2. CASE records[x].state # "cancelling"
    <3>1. StatusOf(x) = "live"
      BY <2>2, StatusIs
    <3>. QED BY <2>2, <3>1 DEF Contract!Living, Contract!Endings, TerminalState
  <2>. QED BY <2>1, <2>2
<1>9. Contract!Finish(x)
  BY <1>7, <1>8 DEF Contract!Finish
<1>. QED BY <1>9 DEF ContractGoal, Contract!ContractNext, Contract!ExecId, ExecId

-----------------------------------------------------------------------------
(* The steps of the workflow. *)

\* While the slot is free nobody lives.
LEMMA NoneLivesIfFree ==
  ASSUME WorkflowInv, active = None
  PROVE  Contract!NoneLives
<1>1. ASSUME NEW y \in ExecId PROVE StatusOf(y) \notin Contract!Living
  <2>1. records[y].state \notin LiveState
    BY NothingReservedIfFree
  <2>. QED BY <2>1 DEF StatusOf, Contract!Living, LiveState, TerminalState
<1>. QED BY <1>1 DEF Contract!NoneLives, Contract!ExecId, ExecId

\* A request to execute begins an execution, or one that fails at once.
LEMMA StartIsBegin ==
  ASSUME WorkflowInv, NEW p \in PlanId, Start(p) \/ StartFails(p)
  PROVE  ContractGoal
<1>1. MayStart /\ active = None /\ ~quarantined
  BY DEF Start, StartFails, MayStart
<1>2. PICK x \in ExecId : x = created + 1
  BY <1>1, NewExecution
<1>. DEFINE rs == [records EXCEPT ![x] = NewRecord(p)]
<1>3. /\ rs \in Records /\ rs[x] = NewRecord(p)
      /\ \A y \in ExecId \ {x} : rs[y] = records[y]
  BY <1>1, <1>2, NewExecution
<1>4. PICK s \in {"validating", "failed"}, f \in Failures :
        records' = Moved(rs, x, s, f)
  <2>1. \/ records' = Moved(rs, x, "validating", None)
        \/ records' = Moved(rs, x, "failed", "plan_refused")
    BY <1>2 DEF Start, StartFails
  <2>. HIDE DEF rs
  <2>. QED BY <2>1, FailuresAre DEF FailureCode
<1>5. created' = x /\ quarantined' = quarantined /\ created \in Int
  BY <1>2, RecordsTyped DEF Start, StartFails
<1>. HIDE DEF rs
<1>6. s \in State /\ \A y \in ExecId : y > x => rs[y] = NoRecord
  BY <1>2, <1>3, <1>5, RecordsTyped DEF State, LiveState, TerminalState, ExecId
<1>7. records'[x].state = s
  <2>1. rs[x] \in Record
    BY <1>3 DEF Records
  <2>. QED BY <1>3, <1>4, <1>6, <2>1, NewestIsKept, MovedRecordType
<1>8. StatusOf(x)' = IF s = "failed" THEN "failed" ELSE "live"
  BY <1>7, NextStatusIs DEF TerminalState, LiveState
<1>9. StatusOf(x) = "unborn"
  BY <1>2, <1>5, RecordsTyped, NoRecordIs, StatusIs
<1>10. ASSUME NEW y \in ExecId, y # x
       PROVE  \/ StatusOf(y)' = StatusOf(y)
              \/ StatusOf(y) \in Contract!Ended /\ StatusOf(y)' = "forgotten"
  <2>1. \/ records'[y] = records[y]
        \/ records[y].state \in TerminalState /\ records'[y] = NoRecord
    BY <1>3, <1>4, <1>10, OthersStayOrEnded
  <2>2. y > created' <=> y > created
    BY <1>2, <1>5, <1>10 DEF ExecId
  <2>. QED BY <2>1, <2>2, OthersStatus
<1>11. Contract!Becomes(x, "live") \/ Contract!Becomes(x, "failed")
  BY <1>8, <1>10, BecomesStatus
<1>12. Contract!Begin(x)
  BY <1>1, <1>5, <1>9, <1>11, NoneLivesIfFree DEF Contract!Begin
<1>. QED BY <1>12 DEF ContractGoal, Contract!ContractNext, Contract!ExecId, ExecId

\* Validation and submission show nothing, or end the execution as failed.
LEMMA ValidationIsContract ==
  ASSUME WorkflowInv, NewestIsActive, NEW x \in ExecId,
         CheckStored(x) \/ CheckState(x) \/ CheckScene(x) \/ NotAccepted(x)
  PROVE  ContractGoal
<1>1. /\ records \in Records /\ active = x
      /\ records[x].state \in {"validating", "starting", "cancelling"}
      /\ pc[x] = "reading_scene" => records[x].state = "validating"
  <2>1. pc[x] \in BeforeAcceptance
    BY DEF CheckStored, CheckState, CheckScene, NotAccepted, At, BeforeAcceptance
  <2>. QED BY <2>1, RecordsTyped, SuspendedIsActive, TaskStatesAre
           DEF BeforeAcceptance
<1>2. ASSUME NEW rs \in Records, \A y \in ExecId \ {x} : rs[y] = records[y],
             rs[x].state \in {"validating", "starting", "cancelling"},
             NEW f \in FailureCode, GiveUp(rs, x, f)
      PROVE  ContractGoal
  <2>1. /\ CanMove(rs[x], "failed", f) /\ f \in Failures
        /\ "failed" \in TerminalState /\ records[x].state \in LiveState
    BY <1>1, <1>2, FailuresAre DEF CanMove, Successors, TerminalState, LiveState
  <2>2. End(rs, x, "failed", f) /\ quarantined' = quarantined
    BY <1>2 DEF GiveUp
  <2>. QED BY <1>1, <1>2, <2>1, <2>2, EndIsFinish
<1>3. CASE CheckStored(x) \/ CheckState(x) \/ NotAccepted(x)
  BY <1>1, <1>2, <1>3, SilentIfSame
     DEF CheckStored, CheckState, NotAccepted, execVars, FailureCode
<1>4. CASE CheckScene(x)
  <2>. DEFINE starting == Moved(records, x, "starting", None)
  <2>1. /\ starting \in Records
        /\ \A y \in ExecId \ {x} : starting[y] = records[y]
        /\ starting[x].state = "starting"
    <3>1. "starting" \in LiveState
      BY DEF LiveState
    <3>. QED BY <1>1, <3>1, MovedLiveRecord
  <2>. HIDE DEF starting
  <2>2. CASE records' = starting /\ UNCHANGED <<created, quarantined>>
    <3>1. records[x].state = "validating"
      BY <1>1, <1>4 DEF CheckScene, At
    <3>2. {records[x].state, records'[x].state} \subseteq LiveState
      BY <2>1, <2>2, <3>1 DEF LiveState
    <3>. QED BY <2>1, <2>2, <3>1, <3>2, SilentIfAlike
  <2>3. CASE \E f \in FailureCode : GiveUp(starting, x, f) \/ GiveUp(records, x, f)
    BY <1>1, <1>2, <2>1, <2>3
  <2>. QED BY <1>4, <2>2, <2>3 DEF CheckScene, Submit, FailureCode, starting
<1>. QED BY <1>3, <1>4

\* Acceptance shows nothing, unless a latched stop cannot be dispatched.
LEMMA AcceptedIsContract ==
  ASSUME WorkflowInv, NewestIsActive, NEW x \in ExecId, Accepted(x)
  PROVE  ContractGoal
<1>. DEFINE noted == Noted(records, x, {"backend_goal_accepted"})
            stopped == StopNoted(noted, x)
<1>1. /\ records \in Records /\ active = x
      /\ records[x].state \in {"starting", "cancelling"}
      /\ Reserves(PlanOf(x), x)
  <2>1. pc[x] = "submitting"
    BY DEF Accepted, At
  <2>. QED BY <2>1, RecordsTyped, OwnsReservation, SuspendedIsActive,
              TaskStatesAre DEF BeforeAcceptance
<1>2. /\ noted \in Records
      /\ \A y \in ExecId \ {x} : noted[y] = records[y]
      /\ noted[x].state = records[x].state
  BY <1>1, NotedRecord DEF Evidence
<1>3. Proceed(noted, x)
  BY <1>1 DEF Accepted
<1>. HIDE DEF noted
<1>4. /\ stopped \in Records
      /\ \A y \in ExecId \ {x} : stopped[y] = records[y]
      /\ stopped[x].state = records[x].state
  BY <1>2, StopNotedRecord
<1>. HIDE DEF stopped
<1>5. CASE /\ records[x].state = "starting"
           /\ TransitionFrom(noted, active, x, "running", None)
           /\ UNCHANGED <<created, quarantined>>
  <2>1. records' = Moved(noted, x, "running", None)
    BY <1>2, <1>5, FailuresAre DEF TransitionFrom, CanMove, Successors
  <2>2. "running" \in LiveState
    BY DEF LiveState
  <2>3. /\ records'[x].state = "running"
        /\ \A y \in ExecId \ {x} : records'[y] = records[y]
    BY <1>2, <2>1, <2>2, MovedLiveRecord
  <2>4. {records[x].state, records'[x].state} \subseteq LiveState
    BY <1>5, <2>3 DEF LiveState
  <2>. QED BY <1>5, <2>3, <2>4, SilentIfAlike
<1>6. CASE /\ records[x].state = "cancelling"
           /\ records' = stopped /\ created' = created /\ QuarantineIf(FALSE)
  <2>1. quarantined' = quarantined
    BY <1>6, QuarantineGrows DEF WorkflowInv, TypeOK
  <2>2. {records[x].state, records'[x].state} \subseteq LiveState
    BY <1>4, <1>6 DEF LiveState
  <2>. QED BY <1>4, <1>6, <2>1, <2>2, SilentIfAlike
<1>7. CASE /\ records[x].state = "cancelling"
           /\ End(stopped, x, "failed", "backend_quarantined")
           /\ QuarantineIf(TRUE)
  <2>1. quarantined' \in {quarantined, TRUE}
    BY <1>7, QuarantineGrows DEF WorkflowInv, TypeOK
  <2>2. /\ CanMove(stopped[x], "failed", "backend_quarantined")
        /\ "failed" \in TerminalState /\ "backend_quarantined" \in Failures
        /\ records[x].state \in LiveState
    BY <1>4, <1>7, FailuresAre
       DEF CanMove, Successors, TerminalState, FailureCode, LiveState
  <2>. QED BY <1>1, <1>4, <1>7, <2>1, <2>2, EndIsFinish
<1>8. \/ /\ records[x].state = "starting"
         /\ TransitionFrom(noted, active, x, "running", None)
         /\ UNCHANGED <<created, quarantined>>
      \/ \E answer \in StopReplies(noted, x, x) :
           /\ records[x].state = "cancelling"
           /\ QuarantineIf(answer \in StopErrors)
           /\ IF answer \in StopErrors
              THEN End(stopped, x, "failed", "backend_quarantined")
              ELSE records' = stopped /\ created' = created
  BY <1>3 DEF Proceed, stopped
<1>9. ASSUME NEW answer, QuarantineIf(answer \in StopErrors)
      PROVE  QuarantineIf(TRUE) \/ answer \notin StopErrors
  BY <1>9 DEF QuarantineIf
<1>10. ASSUME NEW answer, QuarantineIf(answer \in StopErrors),
              answer \notin StopErrors
       PROVE  QuarantineIf(FALSE)
  BY <1>10 DEF QuarantineIf
<1>. QED BY <1>5, <1>6, <1>7, <1>8, <1>9, <1>10

\* A result ends the execution as the contract allows, or shows nothing yet.
LEMMA ResultIsContract ==
  ASSUME WorkflowInv, NewestIsActive, NEW x \in ExecId, Result(x)
  PROVE  ContractGoal
<1>. DEFINE noted == Noted(records, x, {"execution_terminal"})
            acknowledged == Noted(noted, x, {"backend_stop_acknowledged"})
<1>1. /\ records \in Records /\ active = x
      /\ records[x].state \in {"running", "cancelling"}
      /\ records[x].state \in LiveState
  BY RecordsTyped, SuspendedIsActive, TaskStatesAre
     DEF Result, At, BeforeAcceptance, LiveState
<1>2. /\ noted \in Records
      /\ \A y \in ExecId \ {x} : noted[y] = records[y]
      /\ noted[x].state = records[x].state
  BY <1>1, NotedRecord DEF Evidence
<1>. HIDE DEF noted
<1>3. /\ acknowledged \in Records
      /\ \A y \in ExecId \ {x} : acknowledged[y] = records[y]
      /\ acknowledged[x].state = records[x].state
  BY <1>2, NotedRecord DEF Evidence
<1>. HIDE DEF acknowledged
<1>4. PICK b \in BOOLEAN : QuarantineIf(b) /\ (b <=> Ambiguous(x))
  BY DEF Result, Ambiguous
<1>5. /\ quarantined' \in {quarantined, TRUE}
      /\ ~Ambiguous(x) => quarantined' = quarantined
  BY <1>4, QuarantineGrows DEF WorkflowInv, TypeOK
<1>6. CASE End(noted, x, "succeeded", None) /\ ~CancelAsked(x)
  <2>1. /\ CanMove(noted[x], "succeeded", None)
        /\ "succeeded" \in TerminalState /\ None \in Failures
    BY <1>1, <1>2, <1>6, FailuresAre
       DEF CanMove, Successors, CancelAsked, TerminalState
  <2>2. records[x].state # "cancelling"
    BY <1>6 DEF CancelAsked
  <2>. QED BY <1>1, <1>2, <1>5, <1>6, <2>1, <2>2, EndIsFinish
<1>7. CASE \E f \in {"backend_quarantined", "execution_failed"} :
             End(noted, x, "failed", f)
  <2>1. PICK f \in FailureCode : End(noted, x, "failed", f)
    BY <1>7 DEF FailureCode
  <2>2. /\ CanMove(noted[x], "failed", f)
        /\ "failed" \in TerminalState /\ f \in Failures
    BY <1>1, <1>2, FailuresAre DEF CanMove, Successors, TerminalState
  <2>. QED BY <1>1, <1>2, <1>5, <2>1, <2>2, EndIsFinish
<1>8. CASE /\ CancelAsked(x) /\ Outcome(goal[x]) = "preempted"
           /\ records' = acknowledged /\ created' = created
  <2>1. quarantined' = quarantined
    BY <1>5, <1>8 DEF Ambiguous
  <2>2. {records[x].state, records'[x].state} \subseteq LiveState
    BY <1>1, <1>3, <1>8
  <2>. QED BY <1>3, <1>8, <2>1, <2>2, SilentIfAlike
<1>. QED BY <1>6, <1>7, <1>8 DEF Result, noted, acknowledged

\* A timeout ends the execution as timed out and bars later ones.
LEMMA TimeoutIsContract ==
  ASSUME WorkflowInv, NewestIsActive, NEW x \in ExecId, ResultTimesOut(x)
  PROVE  ContractGoal
<1>. DEFINE cancelling == IF CanMove(records[x], "cancelling", None)
                          THEN Moved(records, x, "cancelling", None) ELSE records
            stopped == StopNoted(cancelling, x)
<1>1. /\ records \in Records /\ active = x
      /\ records[x].state \in {"running", "cancelling"}
      /\ records[x].state \in LiveState
  BY RecordsTyped, SuspendedIsActive, TaskStatesAre
     DEF ResultTimesOut, At, BeforeAcceptance, LiveState
<1>2. /\ cancelling \in Records
      /\ \A y \in ExecId \ {x} : cancelling[y] = records[y]
      /\ cancelling[x].state = "cancelling"
  <2>1. CASE records[x].state = "running"
    <3>1. cancelling = Moved(records, x, "cancelling", None)
      BY <2>1, FailuresAre DEF CanMove, Successors
    <3>. HIDE DEF cancelling
    <3>2. "cancelling" \in LiveState
      BY DEF LiveState
    <3>. QED BY <1>1, <3>1, <3>2, MovedLiveRecord
  <2>2. CASE records[x].state = "cancelling"
    BY <1>1, <2>2 DEF CanMove, Successors
  <2>. QED BY <1>1, <2>1, <2>2
<1>. HIDE DEF cancelling
<1>3. /\ stopped \in Records
      /\ \A y \in ExecId \ {x} : stopped[y] = records[y]
      /\ stopped[x].state = "cancelling"
  BY <1>2, StopNotedRecord
<1>. HIDE DEF stopped
<1>4. End(stopped, x, "timed_out", "timeout") /\ QuarantineIf(TRUE)
  BY DEF ResultTimesOut, stopped, cancelling
<1>5. /\ CanMove(stopped[x], "timed_out", "timeout")
      /\ "timed_out" \in TerminalState /\ "timeout" \in Failures
  BY <1>3, FailuresAre DEF CanMove, Successors, FailureCode, TerminalState
<1>6. quarantined' \in {quarantined, TRUE} /\ quarantined'
  BY <1>4, QuarantineGrows DEF WorkflowInv, TypeOK
<1>. QED BY <1>1, <1>3, <1>4, <1>5, <1>6, EndIsFinish

\* So do a failure to wait and the end of stabilization.
LEMMA LastWaitsAreContract ==
  ASSUME WorkflowInv, NewestIsActive, NEW x \in ExecId,
         WaitFails(x) \/ Stabilize(x)
  PROVE  ContractGoal
<1>. DEFINE noted == Noted(records, x, {"state_stabilized"})
<1>1. /\ records \in Records /\ active = x
      /\ records[x].state \in {"running", "cancelling"}
      /\ records[x].state \in LiveState
      /\ pc[x] = "stabilizing" => records[x].state = "cancelling"
  BY RecordsTyped, SuspendedIsActive, TaskStatesAre
     DEF WaitFails, Stabilize, At, BeforeAcceptance, LiveState
<1>2. /\ noted \in Records
      /\ \A y \in ExecId \ {x} : noted[y] = records[y]
      /\ noted[x].state = records[x].state
  BY <1>1, NotedRecord DEF Evidence
<1>. HIDE DEF noted
<1>3. quarantined' \in {quarantined, TRUE}
  BY QuarantineGrows DEF WaitFails, Stabilize, WorkflowInv, TypeOK
<1>4. ASSUME NEW f \in FailureCode, End(records, x, "failed", f)
      PROVE  ContractGoal
  <2>1. /\ CanMove(records[x], "failed", f)
        /\ "failed" \in TerminalState /\ f \in Failures
    BY <1>1, FailuresAre DEF CanMove, Successors, TerminalState
  <2>. QED BY <1>1, <1>3, <1>4, <2>1, EndIsFinish
<1>5. CASE At(x, "stabilizing") /\ End(noted, x, "cancelled", None)
  <2>1. /\ CanMove(noted[x], "cancelled", None)
        /\ "cancelled" \in TerminalState /\ None \in Failures
        /\ records[x].state = "cancelling"
    BY <1>1, <1>2, <1>5, FailuresAre DEF CanMove, Successors, TerminalState, At
  <2>. QED BY <1>1, <1>2, <1>3, <1>5, <2>1, EndIsFinish
<1>. QED BY <1>4, <1>5 DEF WaitFails, Stabilize, FailureCode, noted

\* A request to cancel is the contract's request to stop.
LEMMA CancelIsAskStop ==
  ASSUME WorkflowInv, NEW x \in ExecId, Cancel(x)
  PROVE  ContractGoal
<1>. DEFINE cancelling == Moved(records, x, "cancelling", None)
            stopped == StopNoted(cancelling, x)
<1>1. records \in Records /\ records[x].state \in LiveState \ {"cancelling"}
  BY RecordsTyped DEF Cancel, LiveState
<1>2. /\ cancelling \in Records
      /\ \A y \in ExecId \ {x} : cancelling[y] = records[y]
      /\ cancelling[x].state = "cancelling"
  <2>1. "cancelling" \in LiveState
    BY DEF LiveState
  <2>. QED BY <1>1, <2>1, MovedLiveRecord
<1>. HIDE DEF cancelling
<1>3. /\ stopped \in Records
      /\ \A y \in ExecId \ {x} : stopped[y] = records[y]
      /\ stopped[x].state = "cancelling"
  BY <1>2, StopNotedRecord
<1>. HIDE DEF stopped
<1>4. records' \in {cancelling, stopped} /\ created' = created
  BY DEF Cancel, cancelling, stopped
<1>5. quarantined' \in {quarantined, TRUE}
  <2>1. ASSUME NEW answer, QuarantineIf(answer \in StopErrors)
        PROVE  quarantined' \in {quarantined, TRUE}
    BY <2>1 DEF QuarantineIf, WorkflowInv, TypeOK
  <2>2. \/ quarantined' = quarantined
        \/ \E answer \in StopReplies(cancelling, x, adapterActive) :
             StopAnswered(x, answer) /\ QuarantineIf(answer \in StopErrors)
    BY Zenon DEF Cancel, cancelling
  <2>. QED BY <2>1, <2>2
<1>6. StatusOf(x) = "live" /\ StatusOf(x)' = "stopping"
  BY <1>1, <1>2, <1>3, <1>4, StatusIs, NextStatusIs
<1>7. ASSUME NEW y \in ExecId, y # x PROVE StatusOf(y)' = StatusOf(y)
  <2>1. records'[y] = records[y]
    BY <1>2, <1>3, <1>4, <1>7
  <2>. QED BY <1>4, <2>1 DEF StatusOf
<1>8. Contract!AskStop(x)
  BY <1>5, <1>6, <1>7, BecomesStatus DEF Contract!AskStop
<1>. QED BY <1>8 DEF ContractGoal, Contract!ContractNext, Contract!ExecId, ExecId

\* Every step of the workflow is a step of the contract, or shows nothing.
LEMMA StepIsContract ==
  ASSUME WorkflowInv, NewestIsActive, [Next]_vars
  PROVE  [Contract!ContractNext]_(Contract!contractVars)
<1>1. CASE \E p \in PlanId : Start(p) \/ StartFails(p)
  BY <1>1, StartIsBegin, SilentIsUnchanged DEF ContractGoal
<1>2. CASE \E x \in ExecId : RunExecution(x)
  BY <1>2, ValidationIsContract, AcceptedIsContract, ResultIsContract,
     TimeoutIsContract, LastWaitsAreContract, SilentIsUnchanged
     DEF RunExecution, ContractGoal
<1>3. CASE \E x \in ExecId : Cancel(x)
  BY <1>3, CancelIsAskStop, SilentIsUnchanged DEF ContractGoal
<1>4. CASE PlanTraffic \/ Background \/ UNCHANGED vars
  BY <1>4, SilentIfSame, SilentIsUnchanged
     DEF ContractGoal, PlanTraffic, Background, vars, execVars
<1>. QED BY <1>1, <1>2, <1>3, <1>4 DEF Next

\* Before the first request nobody has been born and nothing is barred.
LEMMA InitIsContract == Init => Contract!ContractInit
<1>. SUFFICES ASSUME Init PROVE Contract!ContractInit
  OBVIOUS
<1>1. ASSUME NEW x \in ExecId PROVE StatusOf(x) = "unborn"
  BY NoRecordIs, StatusIs DEF Init, ExecInit, ExecId
<1>. QED BY <1>1 DEF Init, Contract!ContractInit, Contract!ExecId, ExecId

\* The workflow implements the contract: executions live one at a time, each
\* ends once, a stop that was asked for rules out success, a timeout bars
\* later executions for good (ExecutionContract, the safety of KeepsContract).
THEOREM WorkflowKeepsContract == Spec => Contract!ContractSafety
<1>1. Init => Contract!ContractInit
  BY InitIsContract
<1>2. WorkflowInv /\ CausalInv /\ [Next]_vars
        => [Contract!ContractNext]_(Contract!contractVars)
  BY StepIsContract DEF CausalInv
<1>. QED BY <1>1, <1>2, WorkflowInvariant, CausalInvariant, PTL
         DEF Spec, Contract!ContractSafety
=============================================================================
