------------------------- MODULE ExecutionWorkflow -------------------------
(***************************************************************************)
(* The execution workflow of ManipulatorService (application/service.py),  *)
(* composed with the plan registry, the execution registry and the         *)
(* execution backend.                                                      *)
(*                                                                         *)
(* All coroutines share one event loop, so the code between two real       *)
(* suspensions is one step.  With the Jazzy backend the only suspensions   *)
(* are the hand-overs to worker threads and asyncio.sleep; describing the  *)
(* manipulator and publishing a stop do not suspend.  pc[x] names the      *)
(* suspension at which the task of execution x (_run_execution) rests:     *)
(*                                                                         *)
(*   idle -> validating -> reading_state -> reading_scene -> submitting    *)
(*        -> waiting -> stabilizing -> done                                *)
(*                                                                         *)
(* Between any two of its steps cancellations, new requests, other plans,  *)
(* the clock, the sending thread and MoveIt take theirs.  How long a       *)
(* bounded wait lasts is left open: it may end without its answer at any   *)
(* time.  Execution is taken as enabled: disabled, no step below starts.   *)
(***************************************************************************)
EXTENDS PlanRegistry, ExecutionRegistry, ExecutionBackend

VARIABLES
  pc,           \* where the task of each execution is suspended
  suspect,      \* has its validation collected a finding so far?
  quarantined   \* service._execution_quarantined

taskVars == <<pc, suspect>>
vars == <<planVars, execVars, backendVars, taskVars, quarantined>>

BeforeAcceptance ==
  {"validating", "reading_state", "reading_scene", "submitting"}
PC == {"idle", "waiting", "stabilizing", "done"} \cup BeforeAcceptance

At(x, from) == pc[x] = from
Goto(x, to) == pc' = [pc EXCEPT ![x] = to]

PlanOf(x) == records[x].plan

-----------------------------------------------------------------------------
(* Helpers of the service. *)

\* Mutants: the adapter is not told; nobody is.
QuarantineServiceOnly(ambiguous) ==
  /\ quarantined' = (quarantined \/ ambiguous)
  /\ adapterQuarantined' = adapterQuarantined

QuarantineNever(ambiguous) == UNCHANGED <<quarantined, adapterQuarantined>>

\* _enter_quarantine sets the service's flag and the adapter's; neither is
\* ever cleared.
QuarantineIf(ambiguous) ==
  /\ quarantined' = (quarantined \/ ambiguous)
  /\ adapterQuarantined' = (adapterQuarantined \/ ambiguous)

\* release_reservation: refused, without effect, for anybody but the owner.
ReleaseFor(x) ==
  IF Reserves(PlanOf(x), x) THEN Release(PlanOf(x), x) ELSE UNCHANGED planVars

\* The task ends with a transition to a terminal state.
End(rs, x, s, failure) ==
  /\ TransitionFrom(rs, active, x, s, failure)
  /\ Goto(x, "done")
  /\ UNCHANGED <<created, suspect>>

\* _reject_execution and _fail_before_acceptance.
GiveUp(rs, x, failure) ==
  /\ ReleaseFor(x)
  /\ End(rs, x, "failed", failure)
  /\ UNCHANGED <<backendVars, quarantined>>

\* What _dispatch_stop_once can meet: it asks the adapter at most once.
StopReplies(rs, x, owner) ==
  IF "backend_stop_requested" \in rs[x].evidence
  THEN {"already"} ELSE StopAnswers(x, owner)

\* Mutant: the request for a stop is not put on record.
StopUnnoted(rs, x) == rs

StopNoted(rs, x) == Noted(rs, x, {"backend_stop_requested"})

-----------------------------------------------------------------------------
(* execute_motion_plan: prepare_execution, then a task of its own. *)

MayStart == ~quarantined /\ active = None /\ created < MaxExec

Start(p) ==
  LET x == created + 1 IN
  /\ MayStart
  /\ Reserve(p, x)
  /\ records' = Moved([records EXCEPT ![x] = NewRecord(p)],
                      x, "validating", None)
  /\ active' = x
  /\ created' = x
  /\ Goto(x, "validating")
  /\ UNCHANGED <<backendVars, suspect, quarantined>>

\* The plan cannot be reserved: the record just created fails at once.
StartFails(p) ==
  LET x == created + 1 IN
  /\ MayStart
  /\ Live[p].state # "available"
  /\ Lookup
  /\ records' = Moved([records EXCEPT ![x] = NewRecord(p)],
                      x, "failed", "plan_refused")
  /\ active' = None
  /\ created' = x
  /\ UNCHANGED <<backendVars, taskVars, quarantined>>

-----------------------------------------------------------------------------
(* validate_execution, one step per await. *)

\* Ownership, reservation, stored policy and request are checked at once.
CheckStored(x) ==
  /\ At(x, "validating")
  /\ \/ /\ active = x /\ Reserves(PlanOf(x), x)
        /\ Goto(x, "reading_state")
        /\ UNCHANGED <<planVars, execVars, backendVars, suspect, quarantined>>
     \/ GiveUp(records, x, "validation_failed")

\* The state that was read is missing, or it is bad (stale, or away from the
\* start of the trajectory), or it is good; a bad one still reads the scene.
CheckState(x) ==
  /\ At(x, "reading_state")
  /\ \/ /\ suspect' \in {[suspect EXCEPT ![x] = bad] : bad \in BOOLEAN}
        /\ Goto(x, "reading_scene")
        /\ UNCHANGED <<planVars, execVars, backendVars, quarantined>>
     \/ GiveUp(records, x, "validation_failed")

\* The scene matches the plan's revision and nothing was found: the execution
\* is starting, and is submitted in the same step unless the adapter refuses.
Submit(x) ==
  LET starting == Moved(records, x, "starting", None) IN
  /\ ~suspect[x]
  /\ IF MaySubmit /\ Reserves(PlanOf(x), x)
     THEN /\ BeginSubmit(x)
          /\ records' = starting
          /\ Goto(x, "submitting")
          /\ UNCHANGED <<planVars, active, created, suspect, quarantined>>
     ELSE GiveUp(starting, x, "not_submitted")

CheckScene(x) ==
  /\ At(x, "reading_scene")
  /\ Submit(x) \/ GiveUp(records, x, "validation_failed")

-----------------------------------------------------------------------------
(* _run_execution from the answer to the goal request on. *)

\* Mutant: the failure leaks the reservation.
NotAcceptedLeaking(x) ==
  /\ At(x, "submitting")
  /\ sending[x] \in SendOutcome \ {"accepted"}
  /\ End(records, x, "failed", "not_submitted")
  /\ UNCHANGED <<planVars, backendVars, quarantined>>

\* The goal was not accepted in time.
NotAccepted(x) ==
  /\ At(x, "submitting")
  /\ sending[x] \in SendOutcome \ {"accepted"}
  /\ GiveUp(records, x, "not_submitted")

\* After consumption: the execution runs, or a cancellation that was latched
\* meanwhile is dispatched now and fails the execution if it cannot be.
Proceed(noted, x) ==
  \/ /\ records[x].state = "starting"
     /\ TransitionFrom(noted, active, x, "running", None)
     /\ Goto(x, "waiting")
     /\ UNCHANGED <<created, suspect, quarantined, stopRequested, stops,
                    published, adapterQuarantined>>
  \/ /\ records[x].state = "cancelling"
     /\ \E answer \in StopReplies(noted, x, x) :
          /\ StopAnswered(x, answer)
          /\ QuarantineIf(answer \in StopErrors)
          /\ IF answer \in StopErrors
             THEN End(StopNoted(noted, x), x, "failed", "backend_quarantined")
             ELSE /\ records' = StopNoted(noted, x)
                  /\ Goto(x, "waiting")
                  /\ UNCHANGED <<active, created, suspect>>

\* The adapter records the goal and the plan is consumed; a plan that is not
\* this execution's to consume quarantines the backend.
Accepted(x) ==
  LET noted == Noted(records, x, {"backend_goal_accepted"}) IN
  /\ At(x, "submitting")
  /\ sending[x] = "accepted"
  /\ adapterActive' = x
  /\ IF Reserves(PlanOf(x), x)
     THEN Consume(PlanOf(x), x) /\ Proceed(noted, x)
     ELSE /\ QuarantineIf(TRUE)
          /\ End(noted, x, "failed", "plan_refused")
          /\ UNCHANGED <<planVars, stopRequested, stops, published>>
  /\ UNCHANGED <<sending, goal>>

CancelAsked(x) == records[x].state = "cancelling"

\* Mutant: a completion after a request to stop is taken at its word.
AmbiguousNever(x) == FALSE

\* A terminal result other than preemption says nothing about the stop.
Ambiguous(x) == CancelAsked(x) /\ Outcome(goal[x]) # "preempted"

\* A terminal result: what it means depends on whether a stop was asked for.
Result(x) ==
  LET noted == Noted(records, x, {"execution_terminal"})
      outcome == Outcome(goal[x])
  IN
  /\ At(x, "waiting")
  /\ Waitable(x)
  /\ goal[x] \in GoalResult
  /\ ResultTaken(x)
  /\ QuarantineIf(Ambiguous(x))
  /\ \/ /\ outcome = "succeeded" /\ ~CancelAsked(x)
        /\ End(noted, x, "succeeded", None)
     \/ /\ outcome = "preempted" /\ CancelAsked(x)
        /\ records' = Noted(noted, x, {"backend_stop_acknowledged"})
        /\ Goto(x, "stabilizing")
        /\ UNCHANGED <<active, created, suspect>>
     \/ /\ outcome # "preempted" /\ CancelAsked(x)
        /\ End(noted, x, "failed", "backend_quarantined")
     \/ /\ outcome # "succeeded" /\ ~CancelAsked(x)
        /\ End(noted, x, "failed", "execution_failed")
  /\ UNCHANGED <<planVars, sending, goal, stops, published>>

\* Mutant: only a cancelled execution has a deadline.
ResultTimesOutCancelling(x) ==
  /\ CancelAsked(x)
  /\ At(x, "waiting")
  /\ QuarantineIf(TRUE)
  /\ End(records, x, "timed_out", "timeout")
  /\ UNCHANGED <<planVars, adapterActive, stopRequested, sending, goal, stops,
                 published>>

\* The deadline passes: ask for a stop unless that was done, quarantine.
ResultTimesOut(x) ==
  LET cancelling == IF CanMove(records[x], "cancelling", None)
                    THEN Moved(records, x, "cancelling", None) ELSE records
  IN
  /\ At(x, "waiting")
  /\ \E answer \in StopReplies(cancelling, x, adapterActive) :
       StopAnswered(x, answer)
  /\ QuarantineIf(TRUE)
  /\ End(StopNoted(cancelling, x), x, "timed_out", "timeout")
  /\ UNCHANGED <<planVars, adapterActive, sending, goal>>

\* Waiting fails otherwise: the adapter does not know the execution, or ROS
\* itself reports an error.  The execution fails, and nothing else happens.
WaitFails(x) ==
  /\ At(x, "waiting")
  /\ "wait_error" \in Faults \/ ~Waitable(x)
  /\ End(records, x, "failed", "backend_error")
  /\ UNCHANGED <<planVars, backendVars, quarantined>>

\* _wait_for_state_stabilization ends: the joints came to rest, or not.
Stabilize(x) ==
  /\ At(x, "stabilizing")
  /\ \/ /\ End(Noted(records, x, {"state_stabilized"}), x, "cancelled", None)
        /\ QuarantineIf(FALSE)
     \/ /\ End(records, x, "failed", "backend_quarantined")
        /\ QuarantineIf(TRUE)
  /\ UNCHANGED <<planVars, adapterActive, stopRequested, sending, goal, stops,
                 published>>

RunExecution(x) ==
  \/ CheckStored(x) \/ CheckState(x) \/ CheckScene(x)
  \/ NotAccepted(x) \/ Accepted(x)
  \/ Result(x) \/ ResultTimesOut(x) \/ WaitFails(x) \/ Stabilize(x)

-----------------------------------------------------------------------------
(* cancel_execution: latched while starting, dispatched while running. *)

\* Mutant: the stop is dispatched while the goal is still on its way.
CancelUnlatched(x) ==
  /\ active = x
  /\ records[x].state \in {"starting", "running"}
  /\ records' = StopNoted(Moved(records, x, "cancelling", None), x)
  /\ \E answer \in StopReplies(records, x, adapterActive) :
       StopAnswered(x, answer) /\ QuarantineIf(answer \in StopErrors)
  /\ UNCHANGED <<adapterActive, sending, goal, planVars, active, created, taskVars>>

Cancel(x) ==
  LET cancelling == Moved(records, x, "cancelling", None) IN
  /\ active = x
  /\ \/ /\ records[x].state = "starting"
        /\ records' = cancelling
        /\ UNCHANGED <<backendVars, quarantined>>
     \/ /\ records[x].state = "running"
        /\ records' = StopNoted(cancelling, x)
        /\ \E answer \in StopReplies(cancelling, x, adapterActive) :
             StopAnswered(x, answer) /\ QuarantineIf(answer \in StopErrors)
        /\ UNCHANGED <<adapterActive, sending, goal>>
  /\ UNCHANGED <<planVars, active, created, taskVars>>

\* Planning, plan lookups, discards and time go on meanwhile.
PlanTraffic ==
  /\ Store \/ StoreRefused \/ Lookup \/ Tick \/ \E p \in PlanId : Discard(p)
  /\ UNCHANGED <<execVars, backendVars, taskVars, quarantined>>

Background ==
  /\ BackendNext
  /\ UNCHANGED <<planVars, execVars, taskVars, quarantined>>

-----------------------------------------------------------------------------
Init ==
  /\ PlanInit
  /\ ExecInit
  /\ BackendInit
  /\ pc = [x \in ExecId |-> "idle"]
  /\ suspect = [x \in ExecId |-> FALSE]
  /\ quarantined = FALSE

Next ==
  \/ \E p \in PlanId : Start(p) \/ StartFails(p)
  \/ \E x \in ExecId : RunExecution(x) \/ Cancel(x)
  \/ PlanTraffic
  \/ Background

Spec == Init /\ [][Next]_vars

\* The event loop runs every task that is ready, and every wait of a task or
\* of the sending thread is bounded by a timeout.  MoveIt owes nothing.
FairSpec ==
  /\ Spec
  /\ \A x \in ExecId : WF_vars(RunExecution(x))
  /\ \A x \in ExecId :
       WF_vars(SendThread(x) /\ UNCHANGED <<planVars, execVars, taskVars,
                                            quarantined>>)
-----------------------------------------------------------------------------
(* Properties. *)

TypeOK ==
  /\ PlanTypeOK
  /\ ExecTypeOK
  /\ BackendTypeOK
  /\ pc \in [ExecId -> PC]
  /\ suspect \in [ExecId -> BOOLEAN]
  /\ quarantined \in BOOLEAN

Has(x, evidence) == evidence \in records[x].evidence

\* A plan is reserved exactly while the one active execution that names it has
\* not been accepted: no failure leaks a reservation, and none is lost under
\* an execution that still needs it (prepare_execution, _reject_execution,
\* _fail_before_acceptance, consume_reservation).
ReservationOwned ==
  /\ \A p \in PlanId :
       plans[p].state = "reserved" =>
         LET x == plans[p].reservation_id IN
         /\ active = x
         /\ PlanOf(x) = p
         /\ pc[x] \in BeforeAcceptance
  /\ \A x \in ExecId :
       pc[x] \in BeforeAcceptance => active = x /\ Reserves(PlanOf(x), x)

\* The slot is held by exactly the execution whose task has not ended, in a
\* state that fits where the task is suspended: no path ends a task and keeps
\* the slot, or frees the slot under a running task (_run_execution).
TaskStates ==
  [validating |-> {"validating"}, reading_state |-> {"validating"},
   reading_scene |-> {"validating"}, submitting |-> {"starting", "cancelling"},
   waiting |-> {"running", "cancelling"}, stabilizing |-> {"cancelling"}]

SlotFollowsTask ==
  \A x \in ExecId :
    IF active = x
    THEN pc[x] \in DOMAIN TaskStates /\ records[x].state \in TaskStates[pc[x]]
    ELSE pc[x] \in {"idle", "done"} /\ records[x].state \notin LiveState

\* A plan whose goal was accepted is consumed or gone, whatever became of the
\* execution: "Backend acceptance consumes the plan permanently".
AcceptedPlanIsSpent ==
  \A x \in ExecId :
    Has(x, "backend_goal_accepted")
      => plans[PlanOf(x)].state \in {"consumed", "absent"}

\* An execution reported as cancelled was really preempted by the one stop
\* published for it, after MoveIt had accepted its goal, and came to rest
\* ("CANCELLED requires causal MoveIt PREEMPTED plus bounded state
\* stabilization"); one reported as succeeded really succeeded, and nobody had
\* asked to cancel it.
OutcomeIsEarned ==
  \A x \in ExecId :
    /\ records[x].state = "cancelled" =>
         /\ records[x].evidence = Evidence
         /\ published[x] = 1
         /\ goal[x] = "preempted"
    /\ records[x].state = "succeeded" =>
         /\ goal[x] = "succeeded"
         /\ published[x] = 0
         /\ ~records[x].cancellation_requested

\* Started: the goals MoveIt accepted, whatever became of them.
Started(x) == goal[x] \in {"executing"} \cup GoalResult

\* At most one stop is ever published for an execution, and only after its
\* goal was accepted: repeated cancellations, the latched one and the one of
\* the timeout count together; the record and the adapter, which each keep
\* account of it, agree (_dispatch_stop_once, request_execution_stop).
StopsOnce ==
  \A x \in ExecId :
    /\ published[x] <= 1
    /\ published[x] = 1 => Started(x)
    /\ active = x /\ adapterActive = x =>
         (Has(x, "backend_stop_requested") <=> x \in stopRequested)

\* The stop topic is global, yet a stop on its way can only hit the goal it was
\* published for: no later goal starts while one may still arrive.
StopHitsItsOwner ==
  \A x \in stops, y \in ExecId : goal[y] = "executing" => x = y

\* While MoveIt executes a goal, that execution holds the active slot, or the
\* backend is quarantined: "the execution slot remains owned until the causal
\* terminal result".
MotionIsOwned == \A x \in Executing : active = x \/ quarantined

\* The adapter is free again whenever the service is, unless both are
\* quarantined: an execution the service no longer owns cannot wedge the
\* backend, refusing every later goal (submit_execution's conflict check).
AdapterFollowsSlot ==
  /\ adapterActive # None /\ active # adapterActive => quarantined
  /\ \A x \in ExecId : records[x].state = "running" => adapterActive = x

\* One plan is never accepted by MoveIt for two executions: "plans are
\* single-use for execution".
PlanRunsOnce ==
  \A x, y \in ExecId :
    /\ x # y /\ PlanOf(x) = PlanOf(y) /\ PlanOf(x) # None
    => ~(Started(x) /\ Started(y))

\* An accepted execution that was asked to cancel and did not end as cancelled
\* leaves the backend quarantined, and so does one that timed out: "ambiguous
\* cancellation also quarantines".
AmbiguityQuarantines ==
  \A x \in ExecId :
    /\ Has(x, "backend_goal_accepted")
    /\ \/ records[x].state = "timed_out"
       \/ records[x].state = "failed" /\ records[x].cancellation_requested
    => quarantined

\* The service's and the adapter's quarantine agree, although either may be
\* the first to notice (_enter_quarantine, request_execution_stop).
QuarantinesAgree == quarantined = adapterQuarantined

\* After quarantine no new goal is sent: none of the ways to reach a goal
\* request is left open, whichever task is under way when it is entered.
QuarantineIsFinal ==
  [][quarantined =>
       /\ quarantined'
       /\ \A x \in ExecId : goal[x] = "none" => goal'[x] = "none"]_vars

\* What a client can know of an execution from its record.
StatusOf(x) ==
  LET s == records[x].state IN
  CASE s \in TerminalState              -> s
    [] s = "cancelling"                 -> "stopping"
    [] s \in LiveState \ {"cancelling"} -> "live"
    [] OTHER -> IF x > created THEN "unborn" ELSE "forgotten"

Contract == INSTANCE ExecutionContract WITH
  status <- [x \in ExecId |-> StatusOf(x)], barred <- quarantined

\* The workflow keeps the promise made to clients (ExecutionContract), and
\* under fair scheduling the promise that every execution ends.
KeepsContract == Contract!ContractSpec

\* Every execution that starts ends, and frees the slot, even if MoveIt never
\* answers (_run_execution's bounded waits).
ExecutionEnds == \A x \in ExecId : active = x ~> active # x

\* Every record that exists names a plan identifier.
Planned == \A x \in ExecId : records[x].state # "none" => PlanOf(x) \in PlanId

\* The slot follows the task and reservations are owned: neither is inductive
\* without the other, the types, and the plans that records name.
WorkflowInv ==
  /\ TypeOK
  /\ SlotFollowsTask
  /\ ReservationOwned
  /\ Planned

\* Quarantine is one for service and adapter, and it is for good.
QuarantineHolds == []QuarantinesAgree /\ QuarantineIsFinal
=============================================================================
