------------------------- MODULE ExecutionRegistry -------------------------
(***************************************************************************)
(* Execution records, their state machine (domain/execution.py) and the    *)
(* registry that owns them (application/executions.py, class               *)
(* ExecutionRegistry): one active execution, and a bounded history of      *)
(* finished ones.                                                          *)
(*                                                                         *)
(* The registry's methods run under one lock and never wait, so each is    *)
(* one step; the operators on the value of the records let a caller do     *)
(* several in one step of its own.                                         *)
(***************************************************************************)
EXTENDS Identifiers, FiniteSets

CONSTANT MaxTerminal   \* how many finished records are kept

ASSUME ExecAssumption == MaxTerminal \in Nat \ {0}

VARIABLES
  records,   \* _records: execution -> record, NoRecord where there is none
  active,    \* _active_execution_id
  created    \* how many identifiers _new_execution_id has handed out

execVars == <<records, active, created>>

-----------------------------------------------------------------------------
(* The state machine of one record. *)

TerminalState == {"succeeded", "failed", "cancelled", "timed_out"}
LiveState == {"pending", "validating", "starting", "running", "cancelling"}

\* _LEGAL_TRANSITIONS; a terminal state has no successor.
Successors(s) ==
  CASE s = "pending"    -> {"validating", "failed"}
    [] s = "validating" -> {"starting", "failed"}
    [] s = "starting"   -> {"running", "cancelling", "failed", "timed_out"}
    [] s = "running"    -> {"succeeded", "failed", "cancelling", "timed_out"}
    [] s = "cancelling" -> {"cancelled", "failed", "timed_out"}
    [] OTHER            -> {}

\* The causes of failure the workflow tells apart (DomainFailure codes).
FailureCode == {"plan_refused", "validation_failed", "not_submitted",
                "execution_failed", "backend_error", "timeout",
                "backend_quarantined"}

\* The evidence update_cancellation_status records.
Evidence == {"backend_goal_accepted", "backend_stop_requested",
             "backend_stop_acknowledged", "execution_terminal",
             "state_stabilized"}

Record == [state : {"none"} \cup LiveState \cup TerminalState,
           plan : PlanId \cup {None},
           failure : FailureCode \cup {None},
           cancellation_requested : BOOLEAN,
           evidence : SUBSET Evidence]

NoRecord == [state |-> "none", plan |-> None, failure |-> None,
             cancellation_requested |-> FALSE, evidence |-> {}]

\* The defaults of a new ExecutionRecord.
NewRecord(plan) == [NoRecord EXCEPT !.state = "pending", !.plan = plan]

\* ExecutionRecord refuses a failure outside these states, and transition
\* then reports the transition as illegal.
FailureAllowed(s, failure) == failure = None \/ s \in {"failed", "timed_out"}

\* Mutants: a request to cancel is ignored on success; a timeout is not final.
CanMoveLate(r, s, failure) ==
  /\ \/ s \in Successors(r.state)
     \/ r.state = "cancelling" /\ s = "succeeded"
  /\ FailureAllowed(s, failure)

CanMoveAgain(r, s, failure) ==
  /\ \/ s \in Successors(r.state)
     \/ r.state = "timed_out" /\ s = "failed"
  /\ FailureAllowed(s, failure)

CanMove(r, s, failure) == s \in Successors(r.state) /\ FailureAllowed(s, failure)

\* ExecutionRecord.transition.
MovedRecord(r, s, failure) ==
  [r EXCEPT !.state = s,
            !.failure = failure,
            !.cancellation_requested = @ \/ s = "cancelling"]

-----------------------------------------------------------------------------
(* The records as a value. *)

TerminalIn(rs) == {x \in ExecId : rs[x].state \in TerminalState}
LiveIn(rs) == {x \in ExecId : rs[x].state \in LiveState}

\* Mutant: an off-by-one in the length of the history.
TrimmedOffByOne(rs) ==
  [x \in ExecId |->
     IF /\ x \in TerminalIn(rs)
        /\ Cardinality({y \in TerminalIn(rs) : y > x}) > MaxTerminal
     THEN NoRecord ELSE rs[x]]

\* _trim_terminal_records: only the newest finished records stay.
Trimmed(rs) ==
  [x \in ExecId |->
     IF /\ x \in TerminalIn(rs)
        /\ Cardinality({y \in TerminalIn(rs) : y > x}) >= MaxTerminal
     THEN NoRecord ELSE rs[x]]

\* A legal transition; a record that becomes terminal makes the history be
\* trimmed.
Moved(rs, x, s, failure) ==
  LET moved == [rs EXCEPT ![x] = MovedRecord(rs[x], s, failure)]
  IN  IF s \in TerminalState THEN Trimmed(moved) ELSE moved

\* Mutant: a timeout keeps the slot.
SlotKeptOnTimeout(slot, x, s) ==
  IF s \in TerminalState \ {"timed_out"} /\ slot = x THEN None ELSE slot

\* The active slot after that transition.
SlotAfter(slot, x, s) == IF s \in TerminalState /\ slot = x THEN None ELSE slot

\* transition, on records that the same step may have changed already: an
\* illegal one is refused and changes nothing.
TransitionFrom(rs, slot, x, s, failure) ==
  IF CanMove(rs[x], s, failure)
  THEN records' = Moved(rs, x, s, failure) /\ active' = SlotAfter(slot, x, s)
  ELSE records' = rs /\ active' = slot

\* update_cancellation_status.
Noted(rs, x, flags) == [rs EXCEPT ![x].evidence = @ \cup flags]

-----------------------------------------------------------------------------
(* Operations.  A refused call changes nothing. *)

Create(plan) ==
  /\ active = None
  /\ created < MaxExec
  /\ records' = [records EXCEPT ![created + 1] = NewRecord(plan)]
  /\ active' = created + 1
  /\ created' = created + 1

Transition(x, s, failure) ==
  /\ CanMove(records[x], s, failure)
  /\ TransitionFrom(records, active, x, s, failure)
  /\ UNCHANGED created

UpdateCancellationStatus(x, flags) ==
  /\ records[x].state # "none"
  /\ records' = Noted(records, x, flags)
  /\ UNCHANGED <<active, created>>

ExecInit ==
  /\ records = [x \in ExecId |-> NoRecord]
  /\ active = None
  /\ created = 0

ExecNext ==
  \/ \E plan \in PlanId : Create(plan)
  \/ \E x \in ExecId :
       \/ \E s \in LiveState \cup TerminalState, f \in FailureCode \cup {None} :
            Transition(x, s, f)
       \/ \E flag \in Evidence : UpdateCancellationStatus(x, {flag})

ExecSpec == ExecInit /\ [][ExecNext]_execVars

-----------------------------------------------------------------------------
(* Properties. *)

ExecTypeOK ==
  /\ records \in [ExecId -> Record]
  /\ active \in ExecId \cup {None}
  /\ created \in 0..MaxExec
  /\ \A x \in ExecId : x > created => records[x] = NoRecord

\* The slot and the records never disagree: whatever calls are made, the
\* records that are not terminal are exactly the one the slot names (create,
\* transition; has_active_execution and owns_active_execution trust the slot).
SlotIsTheLiveRecord == LiveIn(records) = {active} \ {None}

\* Trimming keeps exactly the newest finished executions: one is forgotten
\* only once max_terminal_records executions that started after it have
\* finished, and the active one is never forgotten (_trim_terminal_records).
HistoryIsRecent ==
  \A x \in 1..created :
    records[x].state = "none" <=>
      Cardinality({y \in (x + 1)..created : y # active}) >= MaxTerminal

\* Along every legal path an execution that somebody asked to cancel never
\* ends as succeeded, and one that ends as cancelled was asked to cancel
\* (_LEGAL_TRANSITIONS and ExecutionRecord.transition).
CancellationIsNotSuccess ==
  \A x \in ExecId :
    /\ records[x].state = "succeeded" => ~records[x].cancellation_requested
    /\ records[x].state \in {"cancelling", "cancelled"}
         => records[x].cancellation_requested

\* A finished record is forgotten or stays as it is but for its evidence: no
\* late transition reopens it or rewrites how it ended, and no other record
\* changes state with it (transition, create).
OutcomeIsFinal ==
  [][\A x \in ExecId :
       records[x].state \in TerminalState =>
         \/ records'[x] = NoRecord
         \/ /\ records'[x].state = records[x].state
            /\ records'[x].failure = records[x].failure]_execVars

\* Types, and the slot in step with the records, whatever calls are made.
ExecInv == ExecTypeOK /\ SlotIsTheLiveRecord
=============================================================================
