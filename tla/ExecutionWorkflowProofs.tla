----------------------- MODULE ExecutionWorkflowProofs -----------------------
(***************************************************************************)
(* Proofs about the registry of executions (ExecutionRegistry) and about   *)
(* the workflow on top of it and of the registry of plans, for every       *)
(* capacity, lifetime, length of the history and number of executions, and *)
(* with every fault of the environment.                                    *)
(*                                                                         *)
(* The lemmas about the operators of the registry (Moved, SlotAfter,       *)
(* Noted) speak of records as a value, so that the workflow, which makes   *)
(* several calls in one step, can chain them.                              *)
(*                                                                         *)
(* Of the workflow, ReservationOwned and SlotFollowsTask lean on each      *)
(* other: that a plan is released when its execution gives up needs the    *)
(* reservation to be there for as long as the task is before acceptance,   *)
(* and that the task's last transition is legal, so that the slot is       *)
(* freed, needs the state to fit the suspension point.  With the types,    *)
(* and the fact that every record names a plan, their conjunction is       *)
(* inductive (WorkflowInv).                                                *)
(***************************************************************************)
EXTENDS ExecutionWorkflow, PlanRegistryProofs

Records == [ExecId -> Record]

State == {"none"} \cup LiveState \cup TerminalState
Failures == FailureCode \cup {None}

-----------------------------------------------------------------------------
(* The operators on the value of the records. *)

\* The mark for "no record" has the type of a record.
LEMMA NoRecordIsRecord == NoRecord \in Record
BY DEF NoRecord, Record

\* create makes a well-formed, pending record of its plan.
LEMMA NewRecordIsRecord ==
  ASSUME NEW p \in PlanId
  PROVE  /\ NewRecord(p) \in Record
         /\ NewRecord(p).state = "pending"
         /\ NewRecord(p).plan = p
         /\ NewRecord(p).evidence = {}
         /\ ~NewRecord(p).cancellation_requested
BY DEF NewRecord, NoRecord, Record, LiveState

\* A legal transition leaves a live state, for one of the five or four.
LEMMA MovesFromLive ==
  ASSUME NEW r, NEW s, NEW f, CanMove(r, s, f)
  PROVE  r.state \in LiveState /\ s \in LiveState \cup TerminalState
BY DEF CanMove, Successors, LiveState, TerminalState

\* Trimming drops a record or leaves it alone, and drops only finished ones.
LEMMA TrimmedEach ==
  ASSUME NEW rs, NEW y \in ExecId
  PROVE  /\ Trimmed(rs)[y] \in {rs[y], NoRecord}
         /\ rs[y].state \notin TerminalState => Trimmed(rs)[y] = rs[y]
BY DEF Trimmed, TerminalIn

\* What a transition makes of each record: the one that moves may be trimmed
\* at once, another only once it is terminal.
LEMMA MovedEach ==
  ASSUME NEW rs \in Records, NEW x \in ExecId, NEW s, NEW f, NEW y \in ExecId
  PROVE  /\ y = x => Moved(rs, x, s, f)[y] \in
                       {MovedRecord(rs[x], s, f), NoRecord}
         /\ y = x /\ s \notin TerminalState =>
              Moved(rs, x, s, f)[y] = MovedRecord(rs[x], s, f)
         /\ y # x => Moved(rs, x, s, f)[y] \in {rs[y], NoRecord}
         /\ y # x /\ (s \notin TerminalState \/ rs[y].state \notin TerminalState)
              => Moved(rs, x, s, f)[y] = rs[y]
<1>. DEFINE moved == [rs EXCEPT ![x] = MovedRecord(rs[x], s, f)]
<1>1. /\ y = x => moved[y] = MovedRecord(rs[x], s, f)
      /\ y # x => moved[y] = rs[y]
  BY DEF Records
<1>2. CASE s \in TerminalState
  <2>1. Moved(rs, x, s, f) = Trimmed(moved)
    BY <1>2 DEF Moved
  <2>2. /\ Trimmed(moved)[y] \in {moved[y], NoRecord}
        /\ moved[y].state \notin TerminalState => Trimmed(moved)[y] = moved[y]
    BY TrimmedEach
  <2>. HIDE DEF moved
  <2>. QED BY <1>1, <1>2, <2>1, <2>2
<1>3. CASE s \notin TerminalState
  <2>1. Moved(rs, x, s, f) = moved
    BY <1>3 DEF Moved
  <2>. HIDE DEF moved
  <2>. QED BY <1>1, <1>3, <2>1
<1>. QED BY <1>2, <1>3

\* What a legal transition makes of one record.
LEMMA MovedRecordType ==
  ASSUME NEW r \in Record, NEW s \in State, NEW f \in Failures
  PROVE  /\ MovedRecord(r, s, f) \in Record
         /\ MovedRecord(r, s, f).state = s
         /\ MovedRecord(r, s, f).plan = r.plan
         /\ MovedRecord(r, s, f).evidence = r.evidence
         /\ MovedRecord(r, s, f).cancellation_requested
              = (r.cancellation_requested \/ s = "cancelling")
BY DEF MovedRecord, Record, State, Failures

\* A legal transition keeps every record well formed.
LEMMA MovedType ==
  ASSUME NEW rs \in Records, NEW x \in ExecId, NEW s \in State, NEW f \in Failures
  PROVE  Moved(rs, x, s, f) \in Records
<1>1. Moved(rs, x, s, f) = [y \in ExecId |-> Moved(rs, x, s, f)[y]]
  BY DEF Moved, Trimmed, Records
<1>2. ASSUME NEW y \in ExecId PROVE Moved(rs, x, s, f)[y] \in Record
  <2>1. rs[y] \in Record /\ rs[x] \in Record
    BY DEF Records
  <2>. QED BY <2>1, MovedEach, MovedRecordType, NoRecordIsRecord
<1>. QED BY <1>1, <1>2 DEF Records

\* Recording evidence changes nothing else of a record.
LEMMA NotedType ==
  ASSUME NEW rs \in Records, NEW x \in ExecId, NEW flags \in SUBSET Evidence
  PROVE  /\ Noted(rs, x, flags) \in Records
         /\ \A y \in ExecId \ {x} : Noted(rs, x, flags)[y] = rs[y]
         /\ Noted(rs, x, flags)[x].state = rs[x].state
         /\ Noted(rs, x, flags)[x].plan = rs[x].plan
         /\ Noted(rs, x, flags)[x].failure = rs[x].failure
         /\ Noted(rs, x, flags)[x].cancellation_requested
              = rs[x].cancellation_requested
         /\ Noted(rs, x, flags)[x].evidence = rs[x].evidence \cup flags
BY DEF Noted, Records, Record

-----------------------------------------------------------------------------
(* Type correctness. *)

\* The empty registry is well formed.
LEMMA ExecInitType == ExecInit => ExecTypeOK
BY NoRecordIsRecord, IdentifierAssumption DEF ExecInit, ExecTypeOK, Records

\* The records above created are the ones not yet made.
NoneAbove(rs, n) == \A x \in ExecId : x > n => rs[x] = NoRecord

\* create preserves the type invariant.
LEMMA CreateType ==
  ASSUME NEW p \in PlanId, ExecTypeOK, Create(p)
  PROVE  ExecTypeOK'
<1>1. created + 1 \in ExecId
  BY IdentifierAssumption DEF Create, ExecTypeOK, ExecId
<1>2. records' \in Records
  BY <1>1, NewRecordIsRecord DEF Create, ExecTypeOK, Records
<1>3. NoneAbove(records', created')
  BY <1>1 DEF Create, ExecTypeOK, NoneAbove, ExecId
<1>. QED BY <1>1, <1>2, <1>3, IdentifierAssumption
         DEF Create, ExecTypeOK, Records, NoneAbove

\* transition preserves the type invariant.
LEMMA TransitionType ==
  ASSUME NEW x \in ExecId, NEW s \in State, NEW f \in Failures,
         ExecTypeOK, Transition(x, s, f)
  PROVE  ExecTypeOK'
<1>1. CanMove(records[x], s, f) /\ records \in Records
  BY DEF Transition, ExecTypeOK, Records
<1>2. records' = Moved(records, x, s, f) /\ active' = SlotAfter(active, x, s)
  BY <1>1 DEF Transition, TransitionFrom
<1>3. records' \in Records
  BY <1>1, <1>2, MovedType
<1>4. active' \in ExecId \cup {None}
  BY <1>2 DEF SlotAfter, ExecTypeOK
<1>5. NoneAbove(records', created)
  <2>1. records[x] # NoRecord
    BY <1>1, MovesFromLive DEF NoRecord, LiveState
  <2>. QED BY <1>1, <1>2, <2>1, MovedEach DEF NoneAbove, ExecTypeOK
<1>. QED BY <1>3, <1>4, <1>5 DEF Transition, ExecTypeOK, Records, NoneAbove

\* update_cancellation_status preserves the type invariant.
LEMMA UpdateType ==
  ASSUME NEW x \in ExecId, NEW flag \in Evidence,
         ExecTypeOK, UpdateCancellationStatus(x, {flag})
  PROVE  ExecTypeOK'
<1>1. records \in Records /\ records[x] # NoRecord
  BY DEF UpdateCancellationStatus, ExecTypeOK, Records, NoRecord
<1>2. /\ records' \in Records
      /\ \A y \in ExecId \ {x} : records'[y] = records[y]
  BY <1>1, NotedType DEF UpdateCancellationStatus
<1>. QED BY <1>1, <1>2 DEF UpdateCancellationStatus, ExecTypeOK, Records

\* Every call preserves the type invariant.
LEMMA ExecNextType == ExecTypeOK /\ [ExecNext]_execVars => ExecTypeOK'
<1>. SUFFICES ASSUME ExecTypeOK, [ExecNext]_execVars PROVE ExecTypeOK'
  OBVIOUS
<1>1. CASE \E p \in PlanId : Create(p)
  BY <1>1, CreateType
<1>2. CASE \E x \in ExecId, s \in LiveState \cup TerminalState,
              f \in FailureCode \cup {None} : Transition(x, s, f)
  BY <1>2, TransitionType DEF State, Failures
<1>3. CASE \E x \in ExecId, flag \in Evidence :
             UpdateCancellationStatus(x, {flag})
  BY <1>3, UpdateType
<1>4. CASE UNCHANGED execVars
  BY <1>4 DEF execVars, ExecTypeOK
<1>. QED BY <1>1, <1>2, <1>3, <1>4 DEF ExecNext

\* Records, slot and counter always have their types (ExecTypeOK).
THEOREM ExecTypeCorrect == ExecSpec => []ExecTypeOK
BY ExecInitType, ExecNextType, PTL DEF ExecSpec

-----------------------------------------------------------------------------
(* The slot and the records. *)

\* A transition takes the record that becomes terminal out of the live ones
\* and changes nobody else's being live.
LEMMA MovedLive ==
  ASSUME NEW rs \in Records, NEW x \in ExecId, NEW s, NEW f,
         CanMove(rs[x], s, f), f \in Failures
  PROVE  LiveIn(Moved(rs, x, s, f)) =
           IF s \in TerminalState THEN LiveIn(rs) \ {x} ELSE LiveIn(rs)
<1>. DEFINE ms == Moved(rs, x, s, f)
<1>1. rs[x].state \in LiveState /\ s \in LiveState \cup TerminalState
  BY MovesFromLive
<1>2. LiveState \cap TerminalState = {} /\ NoRecord.state \notin LiveState
  BY DEF LiveState, TerminalState, NoRecord
<1>3. ASSUME NEW y \in ExecId, y # x
      PROVE  ms[y].state \in LiveState <=> rs[y].state \in LiveState
  BY <1>2, <1>3, MovedEach
<1>4. ms[x].state \in LiveState <=> s \notin TerminalState
  <2>1. MovedRecord(rs[x], s, f).state = s
    <3>1. rs[x] \in Record /\ s \in State
      BY <1>1 DEF Records, State
    <3>. QED BY <3>1, MovedRecordType
  <2>. QED BY <1>1, <1>2, <2>1, MovedEach
<1>5. ASSUME NEW y \in ExecId
      PROVE  y \in LiveIn(ms) <=>
               y \in LiveIn(rs) /\ ~(y = x /\ s \in TerminalState)
  BY <1>1, <1>3, <1>4 DEF LiveIn
<1>6. LiveIn(ms) \subseteq ExecId /\ LiveIn(rs) \subseteq ExecId
  BY DEF LiveIn
<1>. HIDE DEF ms
<1>7. LiveIn(ms) = IF s \in TerminalState THEN LiveIn(rs) \ {x} ELSE LiveIn(rs)
  BY <1>5, <1>6
<1>. QED BY <1>7 DEF ms

\* Every call keeps the slot and the live records in step.
LEMMA SlotStep ==
  ExecTypeOK /\ SlotIsTheLiveRecord /\ [ExecNext]_execVars
    => SlotIsTheLiveRecord'
<1>. SUFFICES ASSUME ExecTypeOK, SlotIsTheLiveRecord, [ExecNext]_execVars
              PROVE  SlotIsTheLiveRecord'
  OBVIOUS
<1>0. records \in Records /\ None \notin ExecId
  BY IdentifierAssumption DEF ExecTypeOK, Records, ExecId
<1>1. CASE \E p \in PlanId : Create(p)
  <2>1. PICK p \in PlanId : Create(p)
    BY <1>1
  <2>2. created + 1 \in ExecId /\ created + 1 # None
    BY <1>0, <2>1, IdentifierAssumption DEF Create, ExecTypeOK, ExecId
  <2>3. LiveIn(records) = {}
    BY <2>1 DEF Create, SlotIsTheLiveRecord
  <2>4. NewRecord(p).state \in LiveState
    BY NewRecordIsRecord DEF LiveState
  <2>5. LiveIn(records') = {created + 1}
    BY <1>0, <2>1, <2>2, <2>3, <2>4 DEF Create, LiveIn, Records
  <2>. QED BY <2>1, <2>2, <2>5 DEF Create, SlotIsTheLiveRecord
<1>2. CASE \E x \in ExecId, s \in LiveState \cup TerminalState,
              f \in FailureCode \cup {None} : Transition(x, s, f)
  <2>1. PICK x \in ExecId, s \in LiveState \cup TerminalState, f \in Failures :
          Transition(x, s, f)
    BY <1>2 DEF Failures
  <2>2. CanMove(records[x], s, f)
    BY <2>1 DEF Transition
  <2>3. records' = Moved(records, x, s, f) /\ active' = SlotAfter(active, x, s)
    BY <2>1, <2>2 DEF Transition, TransitionFrom
  <2>4. x = active
    <3>1. records[x].state \in LiveState
      BY <2>2, MovesFromLive
    <3>. QED BY <3>1 DEF SlotIsTheLiveRecord, LiveIn
  <2>5. LiveIn(records') =
          IF s \in TerminalState THEN LiveIn(records) \ {x} ELSE LiveIn(records)
    BY <1>0, <2>2, <2>3, MovedLive
  <2>. QED BY <1>0, <2>3, <2>4, <2>5 DEF SlotIsTheLiveRecord, SlotAfter
<1>3. CASE \E x \in ExecId, flag \in Evidence :
             UpdateCancellationStatus(x, {flag})
  <2>1. PICK x \in ExecId, flag \in Evidence :
          UpdateCancellationStatus(x, {flag})
    BY <1>3
  <2>2. \A y \in ExecId : records'[y].state = records[y].state
    BY <1>0, <2>1, NotedType DEF UpdateCancellationStatus
  <2>. QED BY <2>1, <2>2
           DEF UpdateCancellationStatus, SlotIsTheLiveRecord, LiveIn
<1>4. CASE UNCHANGED execVars
  BY <1>4 DEF execVars, SlotIsTheLiveRecord, LiveIn
<1>. QED BY <1>1, <1>2, <1>3, <1>4 DEF ExecNext

\* The live records are exactly the one the slot names, whatever sequence of
\* calls is made (SlotIsTheLiveRecord).
THEOREM SlotCorrect == ExecSpec => []SlotIsTheLiveRecord
<1>1. ExecInit => SlotIsTheLiveRecord
  BY DEF ExecInit, SlotIsTheLiveRecord, LiveIn, NoRecord, LiveState
<1>. QED BY <1>1, SlotStep, ExecTypeCorrect, PTL DEF ExecSpec

\* Types and slot at once, as TLC checks them (ExecInv).
THEOREM ExecInvariant == ExecSpec => []ExecInv
BY ExecTypeCorrect, SlotCorrect, PTL DEF ExecInv

-----------------------------------------------------------------------------
(* A request to cancel, and how an execution ends. *)

\* The states from which success can still be reached have seen no request;
\* this is what makes CancellationIsNotSuccess inductive.
Unasked == {"none", "pending", "validating", "starting", "running", "succeeded"}

AskedWell(r) ==
  /\ r.state \in {"cancelling", "cancelled"} => r.cancellation_requested
  /\ r.state \in Unasked => ~r.cancellation_requested

AskedIsKept == \A x \in ExecId : AskedWell(records[x])

\* A record that is not there was never asked to cancel.
LEMMA NoRecordAsked == AskedWell(NoRecord)
BY DEF AskedWell, NoRecord, Unasked

\* Every legal transition keeps the request and the state in step.
LEMMA MovedAsked ==
  ASSUME NEW r \in Record, NEW s \in State, NEW f \in Failures,
         AskedWell(r), CanMove(r, s, f)
  PROVE  AskedWell(MovedRecord(r, s, f))
<1>1. /\ MovedRecord(r, s, f).state = s
      /\ MovedRecord(r, s, f).cancellation_requested
           = (r.cancellation_requested \/ s = "cancelling")
  BY MovedRecordType
<1>2. s \in Successors(r.state) /\ r.state \in LiveState
  BY MovesFromLive DEF CanMove
<1>3. r.cancellation_requested \in BOOLEAN
  BY DEF Record
<1>4. s = "cancelled" => r.state = "cancelling"
  BY <1>2 DEF Successors, LiveState
<1>5. s \in Unasked => r.state \in Unasked
  BY <1>2 DEF Successors, LiveState, Unasked
<1>6. s \in Unasked => s # "cancelling"
  BY DEF Unasked
<1>. QED BY <1>1, <1>3, <1>4, <1>5, <1>6 DEF AskedWell

\* Every call keeps the request and the state of every record in step.
LEMMA AskedStep ==
  ASSUME ExecTypeOK, AskedIsKept, [ExecNext]_execVars, NEW y \in ExecId
  PROVE  AskedWell(records'[y])
<1>0. records \in Records /\ AskedWell(records[y])
  BY DEF ExecTypeOK, Records, AskedIsKept
<1>1. CASE \E p \in PlanId : Create(p)
  BY <1>0, <1>1, NewRecordIsRecord DEF Create, Records, AskedWell, Unasked
<1>2. CASE \E x \in ExecId, s \in LiveState \cup TerminalState,
              f \in FailureCode \cup {None} : Transition(x, s, f)
  <2>1. PICK x \in ExecId, s \in LiveState \cup TerminalState, f \in Failures :
          Transition(x, s, f)
    BY <1>2 DEF Failures
  <2>2. CanMove(records[x], s, f) /\ records' = Moved(records, x, s, f)
    BY <2>1 DEF Transition, TransitionFrom
  <2>3. records[x] \in Record /\ s \in State /\ AskedWell(records[x])
    BY <1>0 DEF Records, State, AskedIsKept
  <2>4. AskedWell(MovedRecord(records[x], s, f))
    BY <2>2, <2>3, MovedAsked
  <2>5. records'[y] \in {MovedRecord(records[x], s, f), records[y], NoRecord}
    BY <1>0, <2>2, MovedEach
  <2>. QED BY <1>0, <2>4, <2>5, NoRecordAsked
<1>3. CASE \E x \in ExecId, flag \in Evidence :
             UpdateCancellationStatus(x, {flag})
  <2>1. PICK x \in ExecId, flag \in Evidence :
          UpdateCancellationStatus(x, {flag})
    BY <1>3
  <2>2. /\ records'[y].state = records[y].state
        /\ records'[y].cancellation_requested
             = records[y].cancellation_requested
    BY <1>0, <2>1, NotedType DEF UpdateCancellationStatus
  <2>. QED BY <1>0, <2>2 DEF AskedWell
<1>4. CASE UNCHANGED execVars
  BY <1>0, <1>4 DEF execVars
<1>. QED BY <1>1, <1>2, <1>3, <1>4 DEF ExecNext

\* No legal path leads from a request to cancel to success, and none to
\* cancelled without a request (CancellationIsNotSuccess).
THEOREM CancellationCorrect == ExecSpec => []CancellationIsNotSuccess
<1>1. ExecInit => AskedIsKept
  BY NoRecordAsked DEF ExecInit, AskedIsKept
<1>2. ExecTypeOK /\ AskedIsKept /\ [ExecNext]_execVars => AskedIsKept'
  BY AskedStep DEF AskedIsKept
<1>3. ExecTypeOK /\ AskedIsKept => CancellationIsNotSuccess
  BY DEF AskedIsKept, AskedWell, Unasked, CancellationIsNotSuccess
<1>. QED BY <1>1, <1>2, <1>3, ExecTypeCorrect, PTL DEF ExecSpec

\* No call rewrites how a finished execution ended.
LEMMA FinalStep ==
  ASSUME ExecTypeOK, [ExecNext]_execVars, NEW y \in ExecId,
         records[y].state \in TerminalState
  PROVE  \/ records'[y] = NoRecord
         \/ /\ records'[y].state = records[y].state
            /\ records'[y].failure = records[y].failure
<1>0. records \in Records /\ records[y] # NoRecord
  BY DEF ExecTypeOK, Records, NoRecord, TerminalState
<1>1. CASE \E p \in PlanId : Create(p)
  <2>1. y # created + 1
    BY <1>0, <1>1 DEF ExecTypeOK, Create, ExecId
  <2>. QED BY <1>0, <1>1, <2>1 DEF Create, Records
<1>2. CASE \E x \in ExecId, s \in LiveState \cup TerminalState,
              f \in FailureCode \cup {None} : Transition(x, s, f)
  <2>1. PICK x \in ExecId, s \in LiveState \cup TerminalState, f \in Failures :
          Transition(x, s, f)
    BY <1>2 DEF Failures
  <2>2. CanMove(records[x], s, f) /\ records' = Moved(records, x, s, f)
    BY <2>1 DEF Transition, TransitionFrom
  <2>3. y # x
    BY <2>2, MovesFromLive DEF LiveState, TerminalState
  <2>. QED BY <1>0, <2>2, <2>3, MovedEach
<1>3. CASE \E x \in ExecId, flag \in Evidence :
             UpdateCancellationStatus(x, {flag})
  BY <1>0, <1>3, NotedType DEF UpdateCancellationStatus
<1>4. CASE UNCHANGED execVars
  BY <1>4 DEF execVars
<1>. QED BY <1>1, <1>2, <1>3, <1>4 DEF ExecNext

\* How an execution ended is never rewritten: a finished record keeps its
\* state and its failure until it is forgotten (OutcomeIsFinal).
THEOREM OutcomesAreFinal == ExecSpec => OutcomeIsFinal
<1>1. ExecTypeOK /\ [ExecNext]_execVars =>
        [\A x \in ExecId :
           records[x].state \in TerminalState =>
             \/ records'[x] = NoRecord
             \/ /\ records'[x].state = records[x].state
                /\ records'[x].failure = records[x].failure]_execVars
  BY FinalStep
<1>. QED BY <1>1, ExecTypeCorrect, PTL DEF ExecSpec, OutcomeIsFinal

-----------------------------------------------------------------------------
(* The history. *)

\* Executions end in the order they begin, so those that have ended are the
\* identifiers up to this one.
Ended == IF active = None THEN created ELSE created - 1

\* The slot is the newest execution's, and the records that are kept are those
\* of the last MaxTerminal that have ended, and of the one that has not.
Window ==
  /\ active # None => active = created
  /\ \A x \in 1..created :
       records[x].state = "none" <=> x + MaxTerminal <= Ended

\* How many ended after x: nothing but a difference.
LEMMA EndedAfter ==
  ASSUME ExecTypeOK, active # None => active = created, NEW x \in 1..created
  PROVE  Cardinality({y \in (x + 1)..created : y # active})
           = IF x <= Ended THEN Ended - x ELSE 0
<1>1. created \in Nat /\ x \in Nat
  BY IdentifierAssumption DEF ExecTypeOK
<1>2. {y \in (x + 1)..created : y # active} = (x + 1)..Ended
  <2>1. CASE active = None
    <3>1. \A y \in (x + 1)..created : y # None
      BY <1>1, IdentifierAssumption
    <3>. QED BY <2>1, <3>1 DEF Ended
  <2>2. CASE active # None
    <3>1. active = created /\ Ended = created - 1
      BY <2>2 DEF Ended
    <3>. QED BY <1>1, <3>1
  <2>. QED BY <2>1, <2>2
<1>3. Ended \in Int /\ x + 1 \in Int
  BY <1>1 DEF Ended
<1>4. Cardinality((x + 1)..Ended)
        = IF x + 1 > Ended THEN 0 ELSE Ended - (x + 1) + 1
  BY <1>3, FS_Interval
<1>5. (IF x + 1 > Ended THEN 0 ELSE Ended - (x + 1) + 1)
        = IF x <= Ended THEN Ended - x ELSE 0
  BY <1>1, <1>3
<1>. QED BY <1>2, <1>4, <1>5

\* Trimming, when the newest execution ends: the finished records were without
\* a gap, so counting the newer ones is a subtraction (_trim_terminal_records).
LEMMA TrimmedIsRecent ==
  ASSUME NEW rs, NEW n \in ExecId, NEW lo \in Nat,
         \A y \in ExecId : y \in TerminalIn(rs) <=> lo < y /\ y <= n,
         NEW z \in ExecId, lo < z, z <= n
  PROVE  Trimmed(rs)[z] = IF z + MaxTerminal <= n THEN NoRecord ELSE rs[z]
<1>1. n \in Nat /\ z \in Nat /\ MaxTerminal \in Nat
  BY IdentifierAssumption, ExecAssumption DEF ExecId
<1>2. {y \in TerminalIn(rs) : y > z} = (z + 1)..n
  <2>1. ASSUME NEW y \in (z + 1)..n
        PROVE  y \in TerminalIn(rs) /\ y > z
    <3>1. y \in ExecId /\ lo < y /\ y <= n /\ y > z
      BY <1>1, IdentifierAssumption DEF ExecId
    <3>. QED BY <3>1
  <2>2. ASSUME NEW y \in TerminalIn(rs), y > z
        PROVE  y \in (z + 1)..n
    <3>1. y \in ExecId
      BY DEF TerminalIn
    <3>2. y \in Nat /\ y <= n
      BY <3>1, IdentifierAssumption DEF ExecId
    <3>. QED BY <1>1, <2>2, <3>2
  <2>. QED BY <2>1, <2>2
<1>3. Cardinality((z + 1)..n) = n - z
  BY <1>1, FS_Interval
<1>4. z \in TerminalIn(rs)
  OBVIOUS
<1>5. Cardinality({y \in TerminalIn(rs) : y > z}) >= MaxTerminal
        <=> z + MaxTerminal <= n
  <2>1. n - z >= MaxTerminal <=> z + MaxTerminal <= n
    BY <1>1
  <2>. QED BY <1>2, <1>3, <2>1
<1>. QED BY <1>4, <1>5 DEF Trimmed

\* A transition of the active execution to its end.
LEMMA WindowAtEnd ==
  ASSUME ExecTypeOK, SlotIsTheLiveRecord, Window,
         NEW x \in ExecId, NEW s \in TerminalState, NEW f \in Failures,
         Transition(x, s, f)
  PROVE  Window'
<1>1. CanMove(records[x], s, f) /\ records \in Records
  BY DEF Transition, ExecTypeOK, Records
<1>2. records[x].state \in LiveState
  BY <1>1, MovesFromLive
<1>3. x = active /\ x = created /\ x \in Nat /\ MaxTerminal \in Nat \ {0}
  BY <1>2, IdentifierAssumption, ExecAssumption
     DEF SlotIsTheLiveRecord, LiveIn, Window, ExecId
<1>4. x # None
  BY IdentifierAssumption DEF ExecId
<1>5. PICK moved : moved = [records EXCEPT ![x] = MovedRecord(records[x], s, f)]
  OBVIOUS
<1>6. records' = Trimmed(moved) /\ active' = None /\ created' = created
  BY <1>1, <1>3, <1>5 DEF Transition, TransitionFrom, Moved, SlotAfter
<1>7. moved[x].state = s /\ \A y \in ExecId \ {x} : moved[y] = records[y]
  <2>1. records[x] \in Record /\ s \in State
    BY <1>1 DEF Records, State
  <2>. QED BY <1>1, <1>5, <2>1, MovedRecordType DEF Records
<1>8. PICK lo \in Nat : /\ lo < x
                        /\ \A y \in 1..x : y + MaxTerminal < x <=> y < lo + 1
                        /\ lo = 0 \/ lo + MaxTerminal < x
  <2>1. CASE MaxTerminal < x
    <3>1. PICK l \in Nat : l = x - MaxTerminal - 1
      BY <1>3, <2>1
    <3>2. /\ l < x /\ l + MaxTerminal < x
          /\ \A y \in 1..x : y + MaxTerminal < x <=> y < l + 1
      BY <1>3, <3>1
    <3>. QED BY <3>2
  <2>2. CASE ~(MaxTerminal < x)
    <3>1. \A y \in 1..x : y + MaxTerminal < x <=> y < 0 + 1
      BY <1>3, <2>2
    <3>2. 0 \in Nat /\ 0 < x
      BY <1>3, IdentifierAssumption DEF ExecId
    <3>. QED BY <3>1, <3>2
  <2>. QED BY <2>1, <2>2
<1>9. ASSUME NEW y \in ExecId
      PROVE  y \in TerminalIn(moved) <=> lo < y /\ y <= x
  <2>0. y \in Nat /\ y >= 1
    BY IdentifierAssumption DEF ExecId
  <2>1. CASE y = x
    BY <1>3, <1>7, <1>8, <2>1 DEF TerminalIn
  <2>2. CASE y > x
    <3>1. moved[y] = NoRecord
      BY <1>3, <1>7, <2>0, <2>2 DEF ExecTypeOK
    <3>. QED BY <1>3, <2>0, <2>2, <3>1 DEF TerminalIn, NoRecord, TerminalState
  <2>3. CASE y < x
    <3>1. records[y].state = "none" <=> y + MaxTerminal <= x - 1
      BY <1>3, <1>4, <2>0, <2>3 DEF Window, Ended
    <3>2. records[y].state = "none" <=> y < lo + 1
      BY <1>3, <1>8, <2>0, <2>3, <3>1
    <3>3. records[y].state \in {"none"} \cup TerminalState
      <4>1. y \notin LiveIn(records)
        BY <1>3, <2>0, <2>3 DEF SlotIsTheLiveRecord
      <4>2. records[y].state \in {"none"} \cup LiveState \cup TerminalState
        BY <1>1 DEF Records, Record
      <4>. QED BY <4>1, <4>2 DEF LiveIn
    <3>4. moved[y].state = records[y].state
      BY <1>7, <1>3, <2>0, <2>3
    <3>5. y \in TerminalIn(moved) <=> records[y].state # "none"
      BY <3>3, <3>4 DEF TerminalIn, TerminalState
    <3>. QED BY <1>3, <1>8, <2>0, <2>3, <3>2, <3>5
  <2>. QED BY <1>3, <2>0, <2>1, <2>2, <2>3
<1>10. ASSUME NEW z \in 1..x
       PROVE  records'[z].state = "none" <=> z + MaxTerminal <= x
  <2>1. z \in ExecId /\ z \in Nat
    BY IdentifierAssumption DEF ExecId
  <2>2. CASE lo < z
    <3>1. records'[z] = IF z + MaxTerminal <= x THEN NoRecord ELSE moved[z]
      BY <1>6, <1>9, <2>1, <2>2, TrimmedIsRecent
    <3>2. moved[z].state # "none"
      BY <1>9, <2>1, <2>2 DEF TerminalIn, TerminalState
    <3>. QED BY <3>1, <3>2 DEF NoRecord
  <2>3. CASE ~(lo < z)
    <3>1. z + MaxTerminal < x /\ z # x
      BY <1>3, <1>8, <2>1, <2>3
    <3>2. records[z].state = "none"
      BY <1>3, <1>4, <2>1, <3>1 DEF Window, Ended
    <3>3. moved[z].state = "none"
      BY <1>7, <2>1, <3>1, <3>2
    <3>4. records'[z] = moved[z]
      <4>1. moved[z].state \notin TerminalState
        BY <3>3 DEF TerminalState
      <4>. QED BY <1>6, <2>1, <4>1, TrimmedEach
    <3>. QED BY <1>3, <2>1, <3>1, <3>3, <3>4
  <2>. QED BY <2>2, <2>3
<1>. QED BY <1>3, <1>6, <1>10 DEF Window, Ended

\* Every call keeps the window.
LEMMA WindowStep ==
  ASSUME ExecTypeOK, SlotIsTheLiveRecord, Window, [ExecNext]_execVars
  PROVE  Window'
<1>0. /\ created \in Nat /\ None \notin Int /\ MaxTerminal \in Nat \ {0}
      /\ records \in Records
  BY IdentifierAssumption, ExecAssumption DEF ExecTypeOK, Records
<1>1. ASSUME NEW p \in PlanId, Create(p)
      PROVE  Window'
  <2>1. PICK n \in ExecId : n = created + 1
    BY <1>0, <1>1, IdentifierAssumption DEF Create, ExecId
  <2>2. /\ active = None /\ active' = n /\ created' = n
        /\ records' = [records EXCEPT ![n] = NewRecord(p)]
    BY <1>1, <2>1 DEF Create
  <2>3. /\ records'[n].state = "pending"
        /\ \A y \in ExecId \ {n} : records'[y] = records[y]
    BY <1>0, <2>2, NewRecordIsRecord DEF Records
  <2>4. Ended' = created /\ Ended = created
    BY <1>0, <2>1, <2>2, IdentifierAssumption DEF Ended, ExecId
  <2>5. \A y \in 1..created : y \in ExecId \ {n}
    BY <1>0, <2>1, IdentifierAssumption DEF ExecId
  <2>6. ASSUME NEW y \in 1..n
        PROVE  records'[y].state = "none" <=> y + MaxTerminal <= created
    BY <1>0, <2>1, <2>3, <2>4, <2>5 DEF Window
  <2>. QED BY <2>2, <2>4, <2>6 DEF Window
<1>2. ASSUME NEW x \in ExecId, NEW s \in LiveState, NEW f \in Failures,
             Transition(x, s, f)
      PROVE  Window'
  <2>1. CanMove(records[x], s, f) /\ s \notin TerminalState
    BY <1>2 DEF Transition, LiveState, TerminalState
  <2>2. /\ records' = Moved(records, x, s, f)
        /\ active' = active /\ created' = created
    BY <1>2, <2>1 DEF Transition, TransitionFrom, SlotAfter
  <2>3. records[x].state \in LiveState
    BY <2>1, MovesFromLive
  <2>4. records'[x].state = s
    <3>1. records[x] \in Record /\ s \in State
      BY <1>0 DEF Records, State
    <3>. QED BY <1>0, <2>1, <2>2, <3>1, MovedEach, MovedRecordType
  <2>5. \A y \in ExecId : records'[y].state = "none" <=> records[y].state = "none"
    BY <1>0, <2>1, <2>2, <2>3, <2>4, MovedEach DEF LiveState
  <2>6. 1..created \subseteq ExecId
    BY IdentifierAssumption DEF ExecTypeOK, ExecId
  <2>. QED BY <2>2, <2>5, <2>6 DEF Window, Ended
<1>3. ASSUME NEW x \in ExecId, NEW flag \in Evidence,
             UpdateCancellationStatus(x, {flag})
      PROVE  Window'
  <2>1. \A y \in ExecId : records'[y].state = records[y].state
    BY <1>0, <1>3, NotedType DEF UpdateCancellationStatus
  <2>2. 1..created \subseteq ExecId
    BY IdentifierAssumption DEF ExecTypeOK, ExecId
  <2>. QED BY <1>3, <2>1, <2>2 DEF UpdateCancellationStatus, Window, Ended
<1>4. CASE UNCHANGED execVars
  BY <1>4 DEF execVars, Window, Ended
<1>. QED BY <1>1, <1>2, <1>3, <1>4, WindowAtEnd DEF ExecNext, Failures

\* Exactly the newest finished executions are remembered, whatever the length
\* of the history and however many there have been (HistoryIsRecent).
THEOREM HistoryStaysRecent == ExecSpec => []HistoryIsRecent
<1>1. ExecInit => Window
  BY DEF ExecInit, Window
<1>2. ASSUME ExecTypeOK, Window PROVE HistoryIsRecent
  <2>1. ASSUME NEW x \in 1..created
        PROVE  Cardinality({y \in (x + 1)..created : y # active}) >= MaxTerminal
                 <=> x + MaxTerminal <= Ended
    <3>1. /\ x \in Nat /\ Ended \in Int /\ MaxTerminal \in Nat \ {0}
      BY <1>2, IdentifierAssumption, ExecAssumption DEF ExecTypeOK, Ended
    <3>. QED BY <1>2, <3>1, EndedAfter DEF Window
  <2>. QED BY <1>2, <2>1 DEF HistoryIsRecent, Window
<1>. QED BY <1>1, <1>2, WindowStep, ExecTypeCorrect, SlotCorrect, PTL
         DEF ExecSpec

-----------------------------------------------------------------------------
(* Facts about the active execution. *)

\* The table of states, one suspension point at a time.
LEMMA TaskStatesAre ==
  /\ DOMAIN TaskStates = {"waiting", "stabilizing"} \cup BeforeAcceptance
  /\ TaskStates["validating"] = {"validating"}
  /\ TaskStates["reading_state"] = {"validating"}
  /\ TaskStates["reading_scene"] = {"validating"}
  /\ TaskStates["submitting"] = {"starting", "cancelling"}
  /\ TaskStates["waiting"] = {"running", "cancelling"}
  /\ TaskStates["stabilizing"] = {"cancelling"}
BY DEF TaskStates, BeforeAcceptance

\* What the invariant says of the types of records and tasks.
LEMMA RecordsTyped ==
  ASSUME WorkflowInv
  PROVE  /\ records \in Records
         /\ pc \in [ExecId -> PC]
         /\ \A y \in ExecId : y > created => records[y] = NoRecord
         /\ created \in 0..MaxExec
BY DEF WorkflowInv, TypeOK, ExecTypeOK, Records

\* A suspended task holds the slot.
LEMMA SuspendedIsActive ==
  ASSUME WorkflowInv, NEW x \in ExecId, pc[x] \in DOMAIN TaskStates
  PROVE  active = x /\ records[x].state \in TaskStates[pc[x]]
BY TaskStatesAre DEF WorkflowInv, SlotFollowsTask, BeforeAcceptance

\* Before acceptance it owns its reservation.
LEMMA OwnsReservation ==
  ASSUME WorkflowInv, NEW x \in ExecId, pc[x] \in BeforeAcceptance
  PROVE  /\ active = x
         /\ PlanOf(x) \in PlanId
         /\ Reserves(PlanOf(x), x)
<1>1. active = x /\ Reserves(PlanOf(x), x)
  BY DEF WorkflowInv, ReservationOwned
<1>2. records[x].state \in TaskStates[pc[x]]
  BY SuspendedIsActive, TaskStatesAre
<1>3. records[x].state # "none"
  BY <1>2, TaskStatesAre DEF BeforeAcceptance
<1>. QED BY <1>1, <1>3 DEF WorkflowInv, Planned

\* No other plan is reserved, and no plan at all unless the active task is
\* before acceptance.
LEMMA OnlyReservation ==
  ASSUME WorkflowInv, NEW p \in PlanId, plans[p].state = "reserved"
  PROVE  /\ active \in ExecId
         /\ plans[p].reservation_id = active
         /\ PlanOf(active) = p
         /\ pc[active] \in BeforeAcceptance
<1>1. plans[p].reservation_id \in ExecId
  BY DEF WorkflowInv, TypeOK, PlanTypeOK, Shaped, Absent
<1>. QED BY <1>1 DEF WorkflowInv, ReservationOwned

\* Only the active execution can be waiting for acceptance.
LEMMA OthersNotBefore ==
  ASSUME WorkflowInv, NEW y \in ExecId, active # y
  PROVE  pc[y] \notin BeforeAcceptance
BY DEF WorkflowInv, SlotFollowsTask, BeforeAcceptance

-----------------------------------------------------------------------------
(* How steps act on the records and the tasks. *)

\* The part of WorkflowInv about records, slot and tasks.
TaskInv ==
  /\ ExecTypeOK
  /\ SlotFollowsTask
  /\ Planned
  /\ pc \in [ExecId -> PC]

\* A task ends: the slot is free and no task is before acceptance.
LEMMA EndEffect ==
  ASSUME WorkflowInv, NEW x \in ExecId, NEW rs \in Records,
         NEW s \in TerminalState, NEW f \in Failures,
         active = x, \A y \in ExecId \ {x} : rs[y] = records[y],
         rs[x].plan = records[x].plan, records[x].state # "none",
         CanMove(rs[x], s, f), End(rs, x, s, f)
  PROVE  /\ TaskInv'
         /\ active' = None
         /\ suspect' = suspect
         /\ \A y \in ExecId : pc'[y] \notin BeforeAcceptance
<1>0. s \in State /\ rs[x] \in Record
  BY DEF State, Records
<1>1. /\ records' = Moved(rs, x, s, f)
      /\ active' = None
      /\ created' = created /\ suspect' = suspect
      /\ pc' = [pc EXCEPT ![x] = "done"]
  BY DEF End, TransitionFrom, SlotAfter, Goto
<1>2. /\ records' \in Records
      /\ records'[x] \in {MovedRecord(rs[x], s, f), NoRecord}
      /\ \A y \in ExecId \ {x} : records'[y] \in {records[y], NoRecord}
  BY <1>0, <1>1, MovedType, MovedEach
<1>3. /\ MovedRecord(rs[x], s, f).state = s
      /\ MovedRecord(rs[x], s, f).plan = records[x].plan
  BY <1>0, MovedRecordType
<1>4. NoRecord.state = "none" /\ "none" \notin LiveState
      /\ TerminalState \cap LiveState = {}
  BY DEF NoRecord, LiveState, TerminalState
<1>5. ExecTypeOK'
  <2>1. ASSUME NEW y \in ExecId, y > created PROVE records'[y] = NoRecord
    <3>1. records[y] = NoRecord
      BY <2>1, RecordsTyped
    <3>2. y # x
      BY <3>1 DEF NoRecord
    <3>. QED BY <1>2, <3>1, <3>2
  <2>. QED BY <1>1, <1>2, <2>1, RecordsTyped DEF ExecTypeOK, Records
<1>6. ASSUME NEW y \in ExecId
      PROVE  /\ pc'[y] \in {"idle", "done"}
             /\ records'[y].state \notin LiveState
             /\ records'[y].state # "none" => records'[y].plan \in PlanId
  <2>1. CASE y = x
    BY <1>1, <1>2, <1>3, <1>4, <2>1, RecordsTyped DEF WorkflowInv, Planned, PlanOf
  <2>2. CASE y # x
    BY <1>1, <1>2, <1>4, <2>2, RecordsTyped
       DEF WorkflowInv, SlotFollowsTask, Planned, PlanOf
  <2>. QED BY <2>1, <2>2
<1>7. None \notin ExecId
  BY IdentifierAssumption DEF ExecId
<1>8. SlotFollowsTask' /\ Planned'
  BY <1>1, <1>6, <1>7 DEF SlotFollowsTask, Planned, PlanOf
<1>9. pc' \in [ExecId -> PC]
  BY <1>1, RecordsTyped DEF PC
<1>. QED BY <1>1, <1>5, <1>6, <1>8, <1>9 DEF TaskInv, BeforeAcceptance

\* A task moves on to another suspension point, in a state that fits it.
LEMMA MoveOnEffect ==
  ASSUME WorkflowInv, NEW x \in ExecId, NEW to \in DOMAIN TaskStates,
         active = x, active' = x, created' = created,
         records' \in Records, \A y \in ExecId \ {x} : records'[y] = records[y],
         records'[x].state \in TaskStates[to],
         records'[x].plan = records[x].plan, records[x].state # "none",
         pc' = [pc EXCEPT ![x] = to]
  PROVE  TaskInv'
<1>1. ExecTypeOK'
  BY RecordsTyped DEF ExecTypeOK, Records, NoRecord
<1>2. ASSUME NEW y \in ExecId, y # x
      PROVE  pc'[y] = pc[y] /\ records'[y] = records[y]
  BY <1>2, RecordsTyped
<1>3. pc'[x] = to
  BY RecordsTyped
<1>4. SlotFollowsTask'
  BY <1>2, <1>3 DEF WorkflowInv, SlotFollowsTask
<1>5. Planned'
  BY <1>2 DEF WorkflowInv, Planned, PlanOf
<1>6. pc' \in [ExecId -> PC]
  BY RecordsTyped, TaskStatesAre DEF PC
<1>. QED BY <1>1, <1>4, <1>5, <1>6 DEF TaskInv

\* Nothing is reserved and nobody needs a reservation.
LEMMA NothingReserved ==
  ASSUME \A p \in PlanId : plans'[p].state # "reserved",
         \A y \in ExecId : pc'[y] \notin BeforeAcceptance
  PROVE  ReservationOwned'
BY DEF ReservationOwned

\* Reservations stay as they are when plans do, and when no task passes the
\* point of acceptance.
LEMMA SameReservations ==
  ASSUME WorkflowInv, plans' = plans, active' = active,
         \A y \in ExecId : records'[y].plan = records[y].plan,
         \A y \in ExecId :
           pc'[y] \in BeforeAcceptance <=> pc[y] \in BeforeAcceptance
  PROVE  ReservationOwned'
<1>1. ASSUME NEW p \in PlanId, plans[p].state = "reserved"
      PROVE  plans[p].reservation_id \in ExecId
  BY <1>1 DEF WorkflowInv, TypeOK, PlanTypeOK, Shaped, Absent
<1>. QED BY <1>1 DEF WorkflowInv, ReservationOwned, Reserves, PlanOf

-----------------------------------------------------------------------------
(* Initially. *)

\* The invariant holds before the first request.
LEMMA WorkflowInitInv == Init => WorkflowInv
<1>. SUFFICES ASSUME Init PROVE WorkflowInv
  OBVIOUS
<1>1. TypeOK
  BY PlanInitType, ExecInitType, IdentifierAssumption
     DEF Init, TypeOK, BackendInit, BackendTypeOK, PC, SendState, GoalState
<1>2. SlotFollowsTask
  BY IdentifierAssumption
     DEF Init, ExecInit, SlotFollowsTask, NoRecord, LiveState, ExecId
<1>3. ReservationOwned
  BY DEF Init, PlanInit, ReservationOwned, Absent, BeforeAcceptance
<1>4. Planned
  BY DEF Init, ExecInit, Planned, NoRecord
<1>. QED BY <1>1, <1>2, <1>3, <1>4 DEF WorkflowInv

-----------------------------------------------------------------------------
(* The steps, on records, tasks and reservations. *)

\* The goal of every step below.
TaskGoal == TaskInv' /\ ReservationOwned'

\* The failures a transition may carry.
LEMMA FailuresAre ==
  /\ None \in Failures /\ FailureCode \subseteq Failures
  /\ TerminalState \subseteq State
  /\ \A f \in Failures, s \in {"failed", "timed_out"} : FailureAllowed(s, f)
  /\ \A s : FailureAllowed(s, None)
BY DEF Failures, State, FailureAllowed

\* Giving up before acceptance frees the slot and the plan.
LEMMA GiveUpStep ==
  ASSUME WorkflowInv, NEW x \in ExecId, pc[x] \in BeforeAcceptance,
         NEW rs \in Records, \A y \in ExecId \ {x} : rs[y] = records[y],
         rs[x].plan = records[x].plan,
         rs[x].state \in {"validating", "starting", "cancelling"},
         NEW f \in FailureCode, GiveUp(rs, x, f)
  PROVE  TaskGoal /\ Release(PlanOf(x), x)
<1>1. /\ active = x
      /\ PlanOf(x) \in PlanId
      /\ Reserves(PlanOf(x), x)
  BY OwnsReservation
<1>2. CanMove(rs[x], "failed", f)
  BY FailuresAre DEF CanMove, Successors
<1>3. records[x].state # "none"
  BY SuspendedIsActive, TaskStatesAre DEF BeforeAcceptance
<1>4. End(rs, x, "failed", f) /\ Release(PlanOf(x), x)
  BY <1>1 DEF GiveUp, ReleaseFor
<1>5. TaskInv' /\ \A y \in ExecId : pc'[y] \notin BeforeAcceptance
  BY <1>1, <1>2, <1>3, <1>4, EndEffect, FailuresAre DEF TerminalState
<1>6. ASSUME NEW p \in PlanId PROVE plans'[p].state # "reserved"
  <2>1. CASE p = PlanOf(x)
    BY <1>1, <1>4, <2>1 DEF Release, Unowned, WorkflowInv, TypeOK, PlanTypeOK
  <2>2. CASE p # PlanOf(x)
    <3>1. plans'[p] = plans[p]
      BY <1>1, <1>4, <2>2 DEF Release, WorkflowInv, TypeOK, PlanTypeOK
    <3>. QED BY <1>1, <2>2, <3>1, OnlyReservation
  <2>. QED BY <2>1, <2>2
<1>. QED BY <1>4, <1>5, <1>6, NothingReserved DEF TaskGoal

\* Ending after acceptance frees the slot; no plan was reserved any more.
LEMMA EndStep ==
  ASSUME WorkflowInv, NEW x \in ExecId, pc[x] \in {"waiting", "stabilizing"},
         NEW rs \in Records, \A y \in ExecId \ {x} : rs[y] = records[y],
         rs[x].plan = records[x].plan,
         NEW s \in TerminalState, NEW f \in Failures,
         CanMove(rs[x], s, f), End(rs, x, s, f), UNCHANGED planVars
  PROVE  TaskGoal
<1>1. active = x /\ records[x].state # "none"
  BY SuspendedIsActive, TaskStatesAre
<1>2. TaskInv' /\ \A y \in ExecId : pc'[y] \notin BeforeAcceptance
  BY <1>1, EndEffect
<1>3. \A p \in PlanId : plans[p].state # "reserved"
  BY <1>1, OnlyReservation DEF BeforeAcceptance
<1>. QED BY <1>2, <1>3, NothingReserved DEF TaskGoal, planVars

\* Moving on within a phase keeps the reservation as it is.
LEMMA MoveOnStep ==
  ASSUME WorkflowInv, NEW x \in ExecId,
         NEW to \in DOMAIN TaskStates, pc[x] \in DOMAIN TaskStates,
         to \in BeforeAcceptance <=> pc[x] \in BeforeAcceptance,
         active' = active, created' = created, UNCHANGED planVars,
         records' \in Records, \A y \in ExecId \ {x} : records'[y] = records[y],
         records'[x].state \in TaskStates[to],
         records'[x].plan = records[x].plan,
         pc' = [pc EXCEPT ![x] = to]
  PROVE  TaskGoal
<1>1. active = x /\ records[x].state # "none"
  BY SuspendedIsActive, TaskStatesAre DEF BeforeAcceptance
<1>2. TaskInv'
  BY <1>1, MoveOnEffect
<1>3. /\ \A y \in ExecId : records'[y].plan = records[y].plan
      /\ \A y \in ExecId :
           pc'[y] \in BeforeAcceptance <=> pc[y] \in BeforeAcceptance
  BY RecordsTyped
<1>. QED BY <1>2, <1>3, SameReservations DEF TaskGoal, planVars

\* What a live transition makes of the records.
LEMMA MovedLiveRecord ==
  ASSUME NEW rs \in Records, NEW x \in ExecId, NEW s \in LiveState
  PROVE  /\ Moved(rs, x, s, None) \in Records
         /\ \A y \in ExecId \ {x} : Moved(rs, x, s, None)[y] = rs[y]
         /\ Moved(rs, x, s, None)[x].state = s
         /\ Moved(rs, x, s, None)[x].plan = rs[x].plan
         /\ Moved(rs, x, s, None)[x].evidence = rs[x].evidence
<1>1. s \in State /\ s \notin TerminalState /\ rs[x] \in Record
  BY DEF State, LiveState, TerminalState, Records
<1>. QED BY <1>1, MovedEach, MovedType, MovedRecordType, FailuresAre

\* Recording one piece of evidence leaves state and plan alone.
LEMMA NotedRecord ==
  ASSUME NEW rs \in Records, NEW x \in ExecId, NEW e \in Evidence
  PROVE  /\ Noted(rs, x, {e}) \in Records
         /\ \A y \in ExecId \ {x} : Noted(rs, x, {e})[y] = rs[y]
         /\ Noted(rs, x, {e})[x].state = rs[x].state
         /\ Noted(rs, x, {e})[x].plan = rs[x].plan
         /\ Noted(rs, x, {e})[x].evidence = rs[x].evidence \cup {e}
BY NotedType

\* So does putting the request for a stop on record.
LEMMA StopNotedRecord ==
  ASSUME NEW rs \in Records, NEW x \in ExecId
  PROVE  /\ StopNoted(rs, x) \in Records
         /\ \A y \in ExecId \ {x} : StopNoted(rs, x)[y] = rs[y]
         /\ StopNoted(rs, x)[x].state = rs[x].state
         /\ StopNoted(rs, x)[x].plan = rs[x].plan
         /\ StopNoted(rs, x)[x].evidence
              = rs[x].evidence \cup {"backend_stop_requested"}
BY NotedRecord DEF StopNoted, Evidence

\* While the slot is free nothing is reserved.
LEMMA NothingReservedIfFree ==
  ASSUME WorkflowInv, active = None
  PROVE  /\ \A p \in PlanId : plans[p].state # "reserved"
         /\ \A y \in ExecId : pc[y] \in {"idle", "done"}
         /\ \A y \in ExecId : records[y].state \notin LiveState
<1>1. None \notin ExecId
  BY IdentifierAssumption DEF ExecId
<1>. QED BY <1>1, OnlyReservation DEF WorkflowInv, SlotFollowsTask

\* The new execution, and the record it starts from.
LEMMA NewExecution ==
  ASSUME WorkflowInv, MayStart, NEW p \in PlanId,
         NEW rs, rs = [records EXCEPT ![created + 1] = NewRecord(p)]
  PROVE  /\ created + 1 \in ExecId
         /\ rs \in Records
         /\ rs[created + 1] = NewRecord(p)
         /\ \A y \in ExecId \ {created + 1} : rs[y] = records[y]
<1>1. created + 1 \in ExecId
  BY RecordsTyped, IdentifierAssumption DEF MayStart, ExecId
<1>. QED BY <1>1, RecordsTyped, NewRecordIsRecord DEF Records

\* prepare_execution reserves the plan for the execution it makes active.
LEMMA StartStep ==
  ASSUME WorkflowInv, NEW p \in PlanId, Start(p)
  PROVE  TaskGoal
<1>. DEFINE x == created + 1
            rs == [records EXCEPT ![x] = NewRecord(p)]
<1>1. MayStart /\ active = None
  BY DEF Start, MayStart
<1>2. /\ x \in ExecId /\ rs \in Records /\ rs[x] = NewRecord(p)
      /\ \A y \in ExecId \ {x} : rs[y] = records[y]
  BY <1>1, NewExecution
<1>3. /\ records' = Moved(rs, x, "validating", None)
      /\ active' = x /\ created' = x
      /\ pc' = [pc EXCEPT ![x] = "validating"]
      /\ Reserve(p, x)
  BY DEF Start, Goto
<1>. HIDE DEF rs
<1>4. /\ records' \in Records
      /\ \A y \in ExecId \ {x} : records'[y] = records[y]
      /\ records'[x].state = "validating" /\ records'[x].plan = p
  <2>1. "validating" \in LiveState /\ rs[x].plan = p
    BY <1>2, NewRecordIsRecord DEF LiveState
  <2>2. /\ Moved(rs, x, "validating", None) \in Records
        /\ \A y \in ExecId \ {x} : Moved(rs, x, "validating", None)[y] = rs[y]
        /\ Moved(rs, x, "validating", None)[x].state = "validating"
        /\ Moved(rs, x, "validating", None)[x].plan = rs[x].plan
    BY <1>2, <2>1, MovedLiveRecord
  <2>. QED BY <1>2, <1>3, <2>1, <2>2
<1>5. ExecTypeOK'
  <2>1. ASSUME NEW y \in ExecId, y > x PROVE records'[y] = NoRecord
    BY <1>4, <2>1, RecordsTyped DEF ExecId
  <2>. QED BY <1>2, <1>3, <1>4, <2>1, RecordsTyped DEF ExecTypeOK, Records, ExecId
<1>6. /\ \A y \in ExecId \ {x} : pc'[y] = pc[y]
      /\ pc'[x] = "validating"
      /\ pc' \in [ExecId -> PC]
  BY <1>2, <1>3, RecordsTyped DEF PC, BeforeAcceptance
<1>7. SlotFollowsTask'
  BY <1>1, <1>3, <1>4, <1>6, NothingReservedIfFree, TaskStatesAre
     DEF SlotFollowsTask, BeforeAcceptance
<1>8. Planned'
  BY <1>4 DEF WorkflowInv, Planned, PlanOf
<1>9. /\ plans'[p].state = "reserved" /\ plans'[p].reservation_id = x
      /\ \A q \in PlanId \ {p} : plans'[q].state # "reserved"
  <2>1. \A q \in PlanId : Live[q].state # "reserved"
    BY <1>1, NothingReservedIfFree, LiveKeepsOrDrops DEF Absent
  <2>2. Live \in [PlanId -> Entry]
    BY LiveWellFormed DEF WorkflowInv, TypeOK, PlanTypeOK, WellFormed
  <2>. QED BY <1>3, <2>1, <2>2 DEF Reserve, Pinned
<1>10. ReservationOwned'
  <2>1. \A y \in ExecId \ {x} : pc'[y] \notin BeforeAcceptance
    BY <1>1, <1>6, NothingReservedIfFree DEF BeforeAcceptance
  <2>. QED BY <1>2, <1>3, <1>4, <1>6, <1>9, <2>1
           DEF ReservationOwned, PlanOf, Reserves, BeforeAcceptance
<1>. QED BY <1>5, <1>6, <1>7, <1>8, <1>10 DEF TaskGoal, TaskInv

\* A refused reservation leaves the slot free and nothing reserved.
LEMMA StartFailsStep ==
  ASSUME WorkflowInv, NEW p \in PlanId, StartFails(p)
  PROVE  TaskGoal
<1>. DEFINE x == created + 1
            rs == [records EXCEPT ![x] = NewRecord(p)]
<1>1. MayStart /\ active = None
  BY DEF StartFails, MayStart
<1>2. /\ x \in ExecId /\ rs \in Records /\ rs[x] = NewRecord(p)
      /\ \A y \in ExecId \ {x} : rs[y] = records[y]
  BY <1>1, NewExecution
<1>3. /\ records' = Moved(rs, x, "failed", "plan_refused")
      /\ active' = None /\ created' = x /\ pc' = pc
      /\ plans' = Live
  BY DEF StartFails, Lookup, taskVars
<1>. HIDE DEF rs
<1>4. /\ "failed" \in State /\ "plan_refused" \in Failures
      /\ rs[x] \in Record /\ rs[x].plan = p
  BY <1>2, NewRecordIsRecord DEF State, TerminalState, Failures, FailureCode
<1>5. /\ records' \in Records
      /\ \A y \in ExecId \ {x} : records'[y] \in {records[y], NoRecord}
      /\ records'[x] \in {MovedRecord(rs[x], "failed", "plan_refused"), NoRecord}
  BY <1>2, <1>3, <1>4, MovedEach, MovedType
<1>6. /\ MovedRecord(rs[x], "failed", "plan_refused").state = "failed"
      /\ MovedRecord(rs[x], "failed", "plan_refused").plan = p
  BY <1>4, MovedRecordType
<1>7. ExecTypeOK'
  <2>1. ASSUME NEW y \in ExecId, y > x PROVE records'[y] = NoRecord
    BY <1>5, <2>1, RecordsTyped DEF ExecId
  <2>. QED BY <1>2, <1>3, <1>5, <2>1, RecordsTyped DEF ExecTypeOK, Records, ExecId
<1>8. SlotFollowsTask' /\ Planned'
  <2>1. NoRecord.state = "none" /\ "none" \notin LiveState /\ "failed" \notin LiveState
    BY DEF NoRecord, LiveState
  <2>2. None \notin ExecId
    BY IdentifierAssumption DEF ExecId
  <2>. QED BY <1>1, <1>3, <1>5, <1>6, <2>1, <2>2, NothingReservedIfFree
           DEF SlotFollowsTask, Planned, PlanOf, WorkflowInv
<1>9. ReservationOwned'
  <2>1. \A q \in PlanId : plans'[q].state # "reserved"
    BY <1>1, <1>3, NothingReservedIfFree, LiveKeepsOrDrops DEF Absent
  <2>. QED BY <1>1, <1>3, <2>1, NothingReservedIfFree, NothingReserved
           DEF BeforeAcceptance
<1>. QED BY <1>3, <1>7, <1>8, <1>9, RecordsTyped DEF TaskGoal, TaskInv

\* The stored checks either move on with the reservation or give it up.
LEMMA CheckStoredStep ==
  ASSUME WorkflowInv, NEW x \in ExecId, CheckStored(x)
  PROVE  TaskGoal
<1>1. pc[x] = "validating" /\ records[x].state = "validating"
  BY SuspendedIsActive, TaskStatesAre DEF CheckStored, At, BeforeAcceptance
<1>2. CASE GiveUp(records, x, "validation_failed")
  BY <1>1, <1>2, RecordsTyped, GiveUpStep DEF BeforeAcceptance, FailureCode
<1>3. CASE Goto(x, "reading_state") /\ UNCHANGED <<planVars, execVars>>
  BY <1>1, <1>3, RecordsTyped, MoveOnStep, TaskStatesAre
     DEF Goto, BeforeAcceptance, execVars
<1>. QED BY <1>2, <1>3 DEF CheckStored

\* So does the check of the state.
LEMMA CheckStateStep ==
  ASSUME WorkflowInv, NEW x \in ExecId, CheckState(x)
  PROVE  TaskGoal
<1>1. pc[x] = "reading_state" /\ records[x].state = "validating"
  BY SuspendedIsActive, TaskStatesAre DEF CheckState, At, BeforeAcceptance
<1>2. CASE GiveUp(records, x, "validation_failed")
  BY <1>1, <1>2, RecordsTyped, GiveUpStep DEF BeforeAcceptance, FailureCode
<1>3. CASE Goto(x, "reading_scene") /\ UNCHANGED <<planVars, execVars>>
  BY <1>1, <1>3, RecordsTyped, MoveOnStep, TaskStatesAre
     DEF Goto, BeforeAcceptance, execVars
<1>. QED BY <1>2, <1>3 DEF CheckState

\* So does the check of the scene, whatever becomes of the submission.
LEMMA CheckSceneStep ==
  ASSUME WorkflowInv, NEW x \in ExecId, CheckScene(x)
  PROVE  TaskGoal
<1>. DEFINE starting == Moved(records, x, "starting", None)
<1>1. pc[x] = "reading_scene" /\ records[x].state = "validating"
  BY SuspendedIsActive, TaskStatesAre DEF CheckScene, At, BeforeAcceptance
<1>2. /\ starting \in Records
      /\ \A y \in ExecId \ {x} : starting[y] = records[y]
      /\ starting[x].state = "starting"
      /\ starting[x].plan = records[x].plan
  BY RecordsTyped, MovedLiveRecord DEF LiveState
<1>. HIDE DEF starting
<1>3. CASE GiveUp(records, x, "validation_failed")
  BY <1>1, <1>3, RecordsTyped, GiveUpStep DEF BeforeAcceptance, FailureCode
<1>4. CASE GiveUp(starting, x, "not_submitted")
  BY <1>1, <1>2, <1>4, GiveUpStep DEF BeforeAcceptance, FailureCode
<1>5. CASE /\ records' = starting /\ Goto(x, "submitting")
           /\ UNCHANGED <<planVars, active, created>>
  BY <1>1, <1>2, <1>5, MoveOnStep, TaskStatesAre DEF Goto, BeforeAcceptance
<1>. QED BY <1>3, <1>4, <1>5 DEF CheckScene, Submit, starting

\* A goal that was not accepted gives the reservation back.
LEMMA NotAcceptedStep ==
  ASSUME WorkflowInv, NEW x \in ExecId, NotAccepted(x)
  PROVE  TaskGoal
<1>1. pc[x] = "submitting" /\ records[x].state \in {"starting", "cancelling"}
  BY SuspendedIsActive, TaskStatesAre DEF NotAccepted, At, BeforeAcceptance
<1>. QED BY <1>1, RecordsTyped, GiveUpStep
         DEF NotAccepted, BeforeAcceptance, FailureCode

\* Consumption ends the one reservation there was.
LEMMA ConsumptionEnds ==
  ASSUME WorkflowInv, NEW x \in ExecId, pc[x] \in BeforeAcceptance,
         Consume(PlanOf(x), x), NEW p \in PlanId
  PROVE  plans'[p].state # "reserved"
<1>1. active = x /\ PlanOf(x) \in PlanId
  BY OwnsReservation
<1>2. CASE p = PlanOf(x)
  BY <1>1, <1>2 DEF Consume, Unowned, WorkflowInv, TypeOK, PlanTypeOK
<1>3. CASE p # PlanOf(x)
  <2>1. plans'[p] = plans[p]
    BY <1>1, <1>3 DEF Consume, WorkflowInv, TypeOK, PlanTypeOK
  <2>. QED BY <1>1, <1>3, <2>1, OnlyReservation
<1>. QED BY <1>2, <1>3

\* Acceptance always finds the reservation in place and consumes the plan.
LEMMA AcceptedStep ==
  ASSUME WorkflowInv, NEW x \in ExecId, Accepted(x)
  PROVE  TaskGoal /\ Consume(PlanOf(x), x)
<1>. DEFINE noted == Noted(records, x, {"backend_goal_accepted"})
            stopped == StopNoted(noted, x)
<1>1. pc[x] = "submitting" /\ records[x].state \in {"starting", "cancelling"}
  BY SuspendedIsActive, TaskStatesAre DEF Accepted, At, BeforeAcceptance
<1>2. active = x /\ Reserves(PlanOf(x), x)
  BY <1>1, OwnsReservation DEF BeforeAcceptance
<1>3. Consume(PlanOf(x), x) /\ Proceed(noted, x)
  BY <1>2 DEF Accepted
<1>4. \A p \in PlanId : plans'[p].state # "reserved"
  BY <1>1, <1>3, ConsumptionEnds DEF BeforeAcceptance
<1>5. /\ noted \in Records
      /\ \A y \in ExecId \ {x} : noted[y] = records[y]
      /\ noted[x].state = records[x].state
      /\ noted[x].plan = records[x].plan
  BY RecordsTyped, NotedRecord DEF Evidence
<1>. HIDE DEF noted
<1>6. /\ stopped \in Records
      /\ \A y \in ExecId \ {x} : stopped[y] = records[y]
      /\ stopped[x].state = records[x].state
      /\ stopped[x].plan = records[x].plan
  BY <1>5, StopNotedRecord
<1>. HIDE DEF stopped
<1>7. ASSUME records' \in Records,
             \A y \in ExecId \ {x} : records'[y] = records[y],
             records'[x].state \in TaskStates["waiting"],
             records'[x].plan = records[x].plan,
             active' = active, created' = created, Goto(x, "waiting")
      PROVE  TaskGoal
  <2>1. TaskInv'
    BY <1>1, <1>2, <1>7, MoveOnEffect, TaskStatesAre DEF Goto
  <2>2. \A y \in ExecId : pc'[y] \notin BeforeAcceptance
    BY <1>2, <1>7, OthersNotBefore, RecordsTyped DEF Goto, BeforeAcceptance
  <2>. QED BY <1>4, <2>1, <2>2, NothingReserved DEF TaskGoal
<1>8. CASE records[x].state = "starting"
  <2>1. /\ TransitionFrom(noted, active, x, "running", None)
        /\ Goto(x, "waiting") /\ created' = created
    BY <1>3, <1>8 DEF Proceed
  <2>2. CanMove(noted[x], "running", None)
    BY <1>5, <1>8, FailuresAre DEF CanMove, Successors
  <2>3. records' = Moved(noted, x, "running", None) /\ active' = active
    BY <2>1, <2>2 DEF TransitionFrom, SlotAfter, TerminalState
  <2>4. "running" \in LiveState
    BY DEF LiveState
  <2>5. /\ records' \in Records
        /\ \A y \in ExecId \ {x} : records'[y] = noted[y]
        /\ records'[x].state = "running"
        /\ records'[x].plan = noted[x].plan
    BY <1>5, <2>3, <2>4, MovedLiveRecord
  <2>. QED BY <1>3, <1>5, <1>7, <2>1, <2>3, <2>5, TaskStatesAre
<1>9. CASE records[x].state = "cancelling"
  <2>1. \/ End(stopped, x, "failed", "backend_quarantined")
        \/ /\ records' = stopped /\ Goto(x, "waiting")
           /\ UNCHANGED <<active, created>>
    BY <1>3, <1>9 DEF Proceed, stopped
  <2>2. CASE End(stopped, x, "failed", "backend_quarantined")
    <3>1. CanMove(stopped[x], "failed", "backend_quarantined")
      BY <1>6, <1>9, FailuresAre DEF CanMove, Successors, FailureCode
    <3>2. TaskInv' /\ \A y \in ExecId : pc'[y] \notin BeforeAcceptance
      BY <1>1, <1>2, <1>6, <2>2, <3>1, EndEffect, FailuresAre
         DEF TerminalState, FailureCode
    <3>. QED BY <1>3, <1>4, <3>2, NothingReserved DEF TaskGoal
  <2>3. CASE /\ records' = stopped /\ Goto(x, "waiting")
             /\ UNCHANGED <<active, created>>
    BY <1>3, <1>6, <1>7, <1>9, <2>3, TaskStatesAre
  <2>. QED BY <2>1, <2>2, <2>3
<1>. QED BY <1>1, <1>8, <1>9

\* A terminal result ends the task or leaves it to stabilize.
LEMMA ResultStep ==
  ASSUME WorkflowInv, NEW x \in ExecId, Result(x)
  PROVE  TaskGoal
<1>. DEFINE noted == Noted(records, x, {"execution_terminal"})
            acknowledged == Noted(noted, x, {"backend_stop_acknowledged"})
<1>1. pc[x] = "waiting" /\ records[x].state \in {"running", "cancelling"}
  BY SuspendedIsActive, TaskStatesAre DEF Result, At, BeforeAcceptance
<1>2. /\ noted \in Records
      /\ \A y \in ExecId \ {x} : noted[y] = records[y]
      /\ noted[x].state = records[x].state
      /\ noted[x].plan = records[x].plan
  BY RecordsTyped, NotedRecord DEF Evidence
<1>. HIDE DEF noted
<1>3. /\ acknowledged \in Records
      /\ \A y \in ExecId \ {x} : acknowledged[y] = records[y]
      /\ acknowledged[x].state = records[x].state
      /\ acknowledged[x].plan = records[x].plan
  BY <1>2, NotedRecord DEF Evidence
<1>. HIDE DEF acknowledged
<1>4. CASE End(noted, x, "succeeded", None) /\ ~CancelAsked(x)
  <2>1. CanMove(noted[x], "succeeded", None)
    BY <1>1, <1>2, <1>4, FailuresAre DEF CanMove, Successors, CancelAsked
  <2>. QED BY <1>1, <1>2, <1>4, <2>1, EndStep, FailuresAre
           DEF Result, TerminalState
<1>5. CASE \E f \in {"backend_quarantined", "execution_failed"} :
             End(noted, x, "failed", f)
  <2>1. PICK f \in FailureCode : End(noted, x, "failed", f)
    BY <1>5 DEF FailureCode
  <2>2. CanMove(noted[x], "failed", f)
    BY <1>1, <1>2, FailuresAre DEF CanMove, Successors
  <2>. QED BY <1>1, <1>2, <2>1, <2>2, EndStep, FailuresAre
           DEF Result, TerminalState
<1>6. CASE /\ CancelAsked(x) /\ records' = acknowledged
           /\ Goto(x, "stabilizing") /\ UNCHANGED <<active, created>>
  <2>1. UNCHANGED planVars
    BY DEF Result
  <2>2. records'[x].state \in TaskStates["stabilizing"]
    BY <1>3, <1>6, TaskStatesAre DEF CancelAsked
  <2>. QED BY <1>1, <1>3, <1>6, <2>1, <2>2, MoveOnStep, TaskStatesAre
           DEF Goto, BeforeAcceptance
<1>. QED BY <1>4, <1>5, <1>6 DEF Result, noted, acknowledged

\* The deadline ends the task as timed out.
LEMMA ResultTimesOutStep ==
  ASSUME WorkflowInv, NEW x \in ExecId, ResultTimesOut(x)
  PROVE  TaskGoal
<1>. DEFINE cancelling == IF CanMove(records[x], "cancelling", None)
                          THEN Moved(records, x, "cancelling", None) ELSE records
            stopped == StopNoted(cancelling, x)
<1>1. pc[x] = "waiting" /\ records[x].state \in {"running", "cancelling"}
  BY SuspendedIsActive, TaskStatesAre DEF ResultTimesOut, At, BeforeAcceptance
<1>2. /\ cancelling \in Records
      /\ \A y \in ExecId \ {x} : cancelling[y] = records[y]
      /\ cancelling[x].state = "cancelling"
      /\ cancelling[x].plan = records[x].plan
  <2>1. CASE records[x].state = "running"
    <3>1. cancelling = Moved(records, x, "cancelling", None)
      BY <2>1, FailuresAre DEF CanMove, Successors
    <3>. HIDE DEF cancelling
    <3>2. "cancelling" \in LiveState
      BY DEF LiveState
    <3>. QED BY <3>1, <3>2, RecordsTyped, MovedLiveRecord
  <2>2. CASE records[x].state = "cancelling"
    BY <2>2, RecordsTyped DEF CanMove, Successors
  <2>. QED BY <1>1, <2>1, <2>2
<1>. HIDE DEF cancelling
<1>3. /\ stopped \in Records
      /\ \A y \in ExecId \ {x} : stopped[y] = records[y]
      /\ stopped[x].state = "cancelling"
      /\ stopped[x].plan = records[x].plan
  BY <1>2, StopNotedRecord
<1>. HIDE DEF stopped
<1>4. End(stopped, x, "timed_out", "timeout") /\ UNCHANGED planVars
  BY DEF ResultTimesOut, stopped, cancelling
<1>5. CanMove(stopped[x], "timed_out", "timeout")
  BY <1>3, FailuresAre DEF CanMove, Successors, FailureCode
<1>. QED BY <1>1, <1>3, <1>4, <1>5, EndStep, FailuresAre
         DEF TerminalState, FailureCode

\* A failure to wait ends the task as failed.
LEMMA WaitFailsStep ==
  ASSUME WorkflowInv, NEW x \in ExecId, WaitFails(x)
  PROVE  TaskGoal
<1>1. pc[x] = "waiting" /\ records[x].state \in {"running", "cancelling"}
  BY SuspendedIsActive, TaskStatesAre DEF WaitFails, At, BeforeAcceptance
<1>2. CanMove(records[x], "failed", "backend_error")
  BY <1>1, FailuresAre DEF CanMove, Successors, FailureCode
<1>. QED BY <1>1, <1>2, RecordsTyped, EndStep, FailuresAre
         DEF WaitFails, TerminalState, FailureCode

\* Stabilization ends the task as cancelled or as failed.
LEMMA StabilizeStep ==
  ASSUME WorkflowInv, NEW x \in ExecId, Stabilize(x)
  PROVE  TaskGoal
<1>. DEFINE noted == Noted(records, x, {"state_stabilized"})
<1>1. pc[x] = "stabilizing" /\ records[x].state = "cancelling"
  BY SuspendedIsActive, TaskStatesAre DEF Stabilize, At, BeforeAcceptance
<1>2. /\ noted \in Records
      /\ \A y \in ExecId \ {x} : noted[y] = records[y]
      /\ noted[x].state = records[x].state
      /\ noted[x].plan = records[x].plan
  BY RecordsTyped, NotedRecord DEF Evidence
<1>. HIDE DEF noted
<1>3. CASE End(noted, x, "cancelled", None)
  <2>1. CanMove(noted[x], "cancelled", None)
    BY <1>1, <1>2, FailuresAre DEF CanMove, Successors
  <2>. QED BY <1>1, <1>2, <1>3, <2>1, EndStep, FailuresAre
           DEF Stabilize, TerminalState
<1>4. CASE End(records, x, "failed", "backend_quarantined")
  <2>1. CanMove(records[x], "failed", "backend_quarantined")
    BY <1>1, FailuresAre DEF CanMove, Successors, FailureCode
  <2>. QED BY <1>1, <1>4, <2>1, RecordsTyped, EndStep, FailuresAre
           DEF Stabilize, TerminalState, FailureCode
<1>. QED BY <1>3, <1>4 DEF Stabilize, noted

\* A request to cancel finds the task in submitting or waiting.
LEMMA CancelStep ==
  ASSUME WorkflowInv, NEW x \in ExecId, Cancel(x)
  PROVE  TaskGoal
<1>. DEFINE cancelling == Moved(records, x, "cancelling", None)
            stopped == StopNoted(cancelling, x)
<1>1. /\ pc[x] \in {"submitting", "waiting"}
      /\ pc[x] \in DOMAIN TaskStates
      /\ "cancelling" \in TaskStates[pc[x]]
  <2>1. active = x /\ records[x].state \in {"starting", "running"}
    BY DEF Cancel
  <2>2. pc[x] \in DOMAIN TaskStates /\ records[x].state \in TaskStates[pc[x]]
    BY <2>1 DEF WorkflowInv, SlotFollowsTask
  <2>. QED BY <2>1, <2>2, TaskStatesAre DEF BeforeAcceptance
<1>2. "cancelling" \in LiveState
  BY DEF LiveState
<1>3. /\ cancelling \in Records
      /\ \A y \in ExecId \ {x} : cancelling[y] = records[y]
      /\ cancelling[x].state = "cancelling"
      /\ cancelling[x].plan = records[x].plan
  BY <1>2, RecordsTyped, MovedLiveRecord
<1>. HIDE DEF cancelling
<1>4. /\ stopped \in Records
      /\ \A y \in ExecId \ {x} : stopped[y] = records[y]
      /\ stopped[x].state = "cancelling"
      /\ stopped[x].plan = records[x].plan
  BY <1>3, StopNotedRecord
<1>. HIDE DEF stopped
<1>5. /\ records' \in {cancelling, stopped}
      /\ UNCHANGED <<planVars, active, created, pc>>
  BY DEF Cancel, cancelling, stopped, taskVars
<1>6. pc' = [pc EXCEPT ![x] = pc[x]]
  BY <1>5, RecordsTyped
<1>. QED BY <1>1, <1>3, <1>4, <1>5, <1>6, MoveOnStep

\* Planning and the clock leave every reserved entry as it is and reserve
\* nothing.
LEMMA TrafficReserves ==
  ASSUME WorkflowInv, PlanTraffic, NEW p \in PlanId
  PROVE  /\ plans[p].state = "reserved" => plans'[p] = plans[p]
         /\ plans'[p].state = "reserved" => plans[p].state = "reserved"
<1>. PlanTypeOK
  BY DEF WorkflowInv, TypeOK
<1>0. Live \in [PlanId -> Entry]
  BY LiveWellFormed DEF PlanTypeOK, WellFormed
<1>1. /\ plans[p].state = "reserved" =>
           Live[p] = plans[p] /\ p \notin Evictable(Live)
      /\ Live[p] \in {plans[p], Absent}
  BY ReservedIsLive, LiveKeepsOrDrops
<1>2. Absent.state = "absent"
  BY DEF Absent
<1>3. CASE Store
  <2>1. CASE p = issued + 1
    BY <1>2, <1>3, <2>1, StoreEffect DEF Unowned
  <2>2. CASE p # issued + 1
    BY <1>1, <1>2, <1>3, <2>2, StoreEffect
  <2>. QED BY <2>1, <2>2
<1>4. CASE StoreRefused \/ Lookup \/ Tick
  BY <1>1, <1>2, <1>4 DEF StoreRefused, Lookup, Tick
<1>5. CASE \E q \in PlanId : Discard(q)
  BY <1>0, <1>1, <1>2, <1>5 DEF Discard
<1>. QED BY <1>3, <1>4, <1>5 DEF PlanTraffic

\* What leaves records and tasks alone keeps their part of the invariant.
LEMMA UnchangedTasks ==
  ASSUME WorkflowInv, UNCHANGED <<execVars, taskVars>>
  PROVE  TaskInv'
BY DEF WorkflowInv, TypeOK, TaskInv, ExecTypeOK, SlotFollowsTask, Planned,
       PlanOf, execVars, taskVars

\* Planning, lookups, discards and time leave reservations alone.
LEMMA TrafficStep ==
  ASSUME WorkflowInv, PlanTraffic
  PROVE  TaskGoal
<1>1. UNCHANGED <<execVars, taskVars>>
  BY DEF PlanTraffic
<1>2. ASSUME NEW p \in PlanId, plans'[p].state = "reserved"
      PROVE  plans[p].state = "reserved" /\ plans'[p] = plans[p]
  BY <1>2, TrafficReserves
<1>3. ASSUME NEW x \in ExecId, pc'[x] \in BeforeAcceptance
      PROVE  active' = x /\ Reserves(PlanOf(x), x)'
  <2>1. pc[x] \in BeforeAcceptance
    BY <1>1, <1>3 DEF taskVars
  <2>2. active = x /\ PlanOf(x) \in PlanId /\ Reserves(PlanOf(x), x)
    BY <2>1, OwnsReservation
  <2>3. plans'[PlanOf(x)] = plans[PlanOf(x)]
    BY <2>2, TrafficReserves DEF Reserves
  <2>. QED BY <1>1, <2>2, <2>3 DEF Reserves, PlanOf, execVars
<1>4. ASSUME NEW p \in PlanId, plans'[p].state = "reserved"
      PROVE  LET x == plans'[p].reservation_id IN
             active' = x /\ records'[x].plan = p /\ pc'[x] \in BeforeAcceptance
  BY <1>1, <1>2, <1>4
     DEF WorkflowInv, ReservationOwned, PlanOf, execVars, taskVars
<1>5. ReservationOwned'
  BY <1>3, <1>4 DEF ReservationOwned, PlanOf
<1>. QED BY <1>1, <1>5, UnchangedTasks DEF TaskGoal

\* The sending thread and MoveIt touch neither plans, records nor tasks.
LEMMA BackgroundStep ==
  ASSUME WorkflowInv, Background \/ UNCHANGED vars
  PROVE  TaskGoal
<1>1. UNCHANGED <<planVars, execVars, taskVars>>
  BY DEF Background, vars
<1>2. ReservationOwned'
  BY <1>1, SameReservations DEF planVars, execVars, taskVars
<1>. QED BY <1>1, <1>2, UnchangedTasks DEF TaskGoal

\* Every step keeps slot, task, record and reservation in step.
LEMMA TaskStep ==
  ASSUME WorkflowInv, [Next]_vars
  PROVE  TaskGoal
<1>1. CASE \E p \in PlanId : Start(p) \/ StartFails(p)
  BY <1>1, StartStep, StartFailsStep
<1>2. CASE \E x \in ExecId : RunExecution(x)
  BY <1>2, CheckStoredStep, CheckStateStep, CheckSceneStep, NotAcceptedStep,
     AcceptedStep, ResultStep, ResultTimesOutStep, WaitFailsStep, StabilizeStep
     DEF RunExecution
<1>3. CASE \E x \in ExecId : Cancel(x)
  BY <1>3, CancelStep
<1>4. CASE PlanTraffic
  BY <1>4, TrafficStep
<1>5. CASE Background \/ UNCHANGED vars
  BY <1>5, BackgroundStep
<1>. QED BY <1>1, <1>2, <1>3, <1>4, <1>5 DEF Next

-----------------------------------------------------------------------------
(* The steps, on the plans: each is at most one operation of the registry. *)

\* Every step is at most one operation of the plan registry.
LEMMA PlanStep ==
  ASSUME WorkflowInv, [Next]_vars
  PROVE  [PlanNext]_planVars
<1>1. CASE \E p \in PlanId : Start(p) \/ StartFails(p)
  <2>1. PICK p \in PlanId : Start(p) \/ StartFails(p)
    BY <1>1
  <2>2. CASE Start(p)
    <3>1. created + 1 \in ExecId
      BY <2>2, RecordsTyped, IdentifierAssumption DEF Start, MayStart, ExecId
    <3>. QED BY <2>2, <3>1 DEF Start, PlanNext
  <2>3. CASE StartFails(p)
    BY <2>3 DEF StartFails, PlanNext
  <2>. QED BY <2>1, <2>2, <2>3
<1>2. CASE \E x \in ExecId : RunExecution(x)
  <2>1. PICK x \in ExecId : RunExecution(x)
    BY <1>2
  <2>2. ASSUME pc[x] \in BeforeAcceptance,
               Release(PlanOf(x), x) \/ Consume(PlanOf(x), x)
        PROVE  PlanNext
    BY <2>2, OwnsReservation DEF PlanNext
  <2>3. ASSUME pc[x] \in BeforeAcceptance, ReleaseFor(x) PROVE PlanNext
    BY <2>2, <2>3, OwnsReservation DEF ReleaseFor
  <2>4. CASE CheckStored(x) \/ CheckState(x) \/ CheckScene(x) \/ NotAccepted(x)
    BY <2>3, <2>4 DEF CheckStored, CheckState, CheckScene, Submit, NotAccepted,
       GiveUp, At, BeforeAcceptance
  <2>5. CASE Accepted(x)
    BY <2>2, <2>5, AcceptedStep DEF Accepted, At, BeforeAcceptance
  <2>6. CASE Result(x) \/ ResultTimesOut(x) \/ WaitFails(x) \/ Stabilize(x)
    BY <2>6 DEF Result, ResultTimesOut, WaitFails, Stabilize
  <2>. QED BY <2>1, <2>4, <2>5, <2>6 DEF RunExecution
<1>3. CASE \E x \in ExecId : Cancel(x)
  BY <1>3 DEF Cancel
<1>4. CASE PlanTraffic
  BY <1>4 DEF PlanTraffic, PlanNext
<1>5. CASE Background \/ UNCHANGED vars
  BY <1>5 DEF Background, vars
<1>. QED BY <1>1, <1>2, <1>3, <1>4, <1>5 DEF Next

-----------------------------------------------------------------------------
(* The steps, on the backend and the flags. *)

\* The types of what neither registry holds.
FlagsType ==
  /\ BackendTypeOK
  /\ suspect \in [ExecId -> BOOLEAN]
  /\ quarantined \in BOOLEAN

\* Asking for a stop keeps the types of the adapter and of the topic.
LEMMA StopAnsweredType ==
  ASSUME BackendTypeOK, NEW x \in ExecId, NEW answer, StopAnswered(x, answer)
  PROVE  /\ stopRequested' \subseteq ExecId
         /\ stops' \subseteq ExecId
         /\ published' \in [ExecId -> Nat]
<1>1. CASE answer = "published"
  BY <1>1 DEF StopAnswered, BackendTypeOK
<1>2. CASE answer # "published"
  BY <1>2 DEF StopAnswered, BackendTypeOK
<1>. QED BY <1>1, <1>2

\* Entering quarantine keeps the types of the two flags.
LEMMA QuarantineType ==
  ASSUME FlagsType, NEW ambiguous \in BOOLEAN, QuarantineIf(ambiguous)
  PROVE  /\ quarantined' \in BOOLEAN
         /\ adapterQuarantined' \in BOOLEAN
BY DEF QuarantineIf, FlagsType, BackendTypeOK

\* Asking for a stop and quarantining on an error keep their types.
LEMMA AnsweredType ==
  ASSUME FlagsType, NEW x \in ExecId, NEW answer, StopAnswered(x, answer),
         QuarantineIf(answer \in StopErrors)
  PROVE  /\ stopRequested' \subseteq ExecId
         /\ stops' \subseteq ExecId
         /\ published' \in [ExecId -> Nat]
         /\ quarantined' \in BOOLEAN
         /\ adapterQuarantined' \in BOOLEAN
<1>1. (answer \in StopErrors) \in BOOLEAN
  OBVIOUS
<1>. QED BY <1>1, QuarantineType, StopAnsweredType DEF FlagsType

\* A step of the sending thread or of MoveIt.
LEMMA BackendStepType ==
  ASSUME BackendTypeOK, BackendNext
  PROVE  BackendTypeOK'
<1>1. PICK x \in ExecId : SendThread(x) \/ MoveIt(x)
  BY DEF BackendNext
<1>2. CASE SendThread(x)
  BY <1>2 DEF SendThread, ServerUnavailable, SendGoal, AcceptanceTimesOut,
     SendStep, BackendTypeOK, SendState, GoalState
<1>3. CASE AcceptGoal(x) \/ RejectGoal(x)
  BY <1>3 DEF AcceptGoal, RejectGoal, SendStep, BackendTypeOK, SendState,
     GoalState
<1>4. CASE AcceptLate(x) \/ FinishGoal(x)
  BY <1>4 DEF AcceptLate, FinishGoal, GoalStep, BackendTypeOK, GoalState,
     GoalResult
<1>5. CASE DeliverStop(x) \/ LoseStop(x)
  BY <1>5 DEF DeliverStop, LoseStop, BackendTypeOK, GoalState, GoalResult
<1>. QED BY <1>1, <1>2, <1>3, <1>4, <1>5 DEF MoveIt

\* What leaves the backend and the flags alone keeps their types.
LEMMA UnchangedFlags ==
  ASSUME FlagsType, UNCHANGED <<backendVars, suspect, quarantined>>
  PROVE  FlagsType'
BY DEF FlagsType, BackendTypeOK, backendVars

\* The steps before acceptance keep the types of backend and flags.
LEMMA SubmitFlags ==
  ASSUME FlagsType, NEW x \in ExecId,
         CheckStored(x) \/ CheckState(x) \/ CheckScene(x) \/ NotAccepted(x)
  PROVE  FlagsType'
<1>1. ASSUME NEW rs, NEW f, GiveUp(rs, x, f) PROVE FlagsType'
  BY <1>1, UnchangedFlags DEF GiveUp, End
<1>2. CASE CheckStored(x)
  BY <1>1, <1>2, UnchangedFlags DEF CheckStored
<1>3. CASE CheckState(x)
  <2>1. CASE GiveUp(records, x, "validation_failed")
    BY <1>1, <2>1
  <2>2. CASE /\ suspect' \in {[suspect EXCEPT ![x] = bad] : bad \in BOOLEAN}
             /\ UNCHANGED <<backendVars, quarantined>>
    <3>1. suspect' \in [ExecId -> BOOLEAN]
      BY <2>2 DEF FlagsType
    <3>. QED BY <2>2, <3>1 DEF FlagsType, BackendTypeOK, backendVars
  <2>. QED BY <1>3, <2>1, <2>2 DEF CheckState
<1>4. CASE CheckScene(x)
  <2>1. CASE BeginSubmit(x) /\ UNCHANGED <<suspect, quarantined>>
    BY <2>1 DEF BeginSubmit, FlagsType, BackendTypeOK, SendState
  <2>. QED BY <1>1, <1>4, <2>1 DEF CheckScene, Submit
<1>5. CASE NotAccepted(x)
  BY <1>1, <1>5 DEF NotAccepted
<1>. QED BY <1>2, <1>3, <1>4, <1>5

\* Acceptance keeps the types of backend and flags.
LEMMA AcceptedFlags ==
  ASSUME FlagsType, NEW x \in ExecId, Accepted(x)
  PROVE  FlagsType'
<1>1. adapterActive' = x /\ UNCHANGED <<sending, goal>>
  BY DEF Accepted
<1>2. /\ suspect' = suspect
      /\ stopRequested' \subseteq ExecId
      /\ stops' \subseteq ExecId
      /\ published' \in [ExecId -> Nat]
      /\ quarantined' \in BOOLEAN
      /\ adapterQuarantined' \in BOOLEAN
  <2>1. CASE UNCHANGED <<stopRequested, stops, published>>
             /\ UNCHANGED <<suspect, quarantined, adapterQuarantined>>
    BY <2>1 DEF FlagsType, BackendTypeOK
  <2>2. CASE UNCHANGED <<stopRequested, stops, published, suspect>>
             /\ QuarantineIf(TRUE)
    BY <2>2, QuarantineType DEF FlagsType, BackendTypeOK
  <2>3. CASE \E answer : /\ StopAnswered(x, answer)
                         /\ QuarantineIf(answer \in StopErrors)
                         /\ UNCHANGED suspect
    BY <2>3, AnsweredType
  <2>. QED BY <2>1, <2>2, <2>3 DEF Accepted, Proceed, End
<1>. QED BY <1>1, <1>2 DEF FlagsType, BackendTypeOK

\* The steps after acceptance keep the types of backend and flags.
LEMMA WaitFlags ==
  ASSUME FlagsType, NEW x \in ExecId,
         Result(x) \/ ResultTimesOut(x) \/ WaitFails(x) \/ Stabilize(x)
  PROVE  FlagsType'
<1>1. suspect' = suspect
  BY DEF Result, ResultTimesOut, WaitFails, Stabilize, End
<1>2. CASE Result(x)
  <2>1. Ambiguous(x) \in BOOLEAN
    BY DEF Ambiguous, CancelAsked
  <2>. QED BY <1>1, <1>2, <2>1, QuarantineType
           DEF Result, ResultTaken, FlagsType, BackendTypeOK
<1>3. CASE ResultTimesOut(x)
  BY <1>1, <1>3, QuarantineType, StopAnsweredType
     DEF ResultTimesOut, FlagsType, BackendTypeOK
<1>4. CASE WaitFails(x)
  BY <1>1, <1>4, UnchangedFlags DEF WaitFails
<1>5. CASE Stabilize(x)
  BY <1>1, <1>5, QuarantineType DEF Stabilize, FlagsType, BackendTypeOK
<1>. QED BY <1>2, <1>3, <1>4, <1>5

\* A request to cancel keeps the types of backend and flags.
LEMMA CancelFlags ==
  ASSUME FlagsType, NEW x \in ExecId, Cancel(x)
  PROVE  FlagsType'
<1>1. suspect' = suspect
  BY DEF Cancel, taskVars
<1>2. CASE UNCHANGED <<backendVars, quarantined>>
  BY <1>1, <1>2, UnchangedFlags
<1>3. CASE /\ \E answer : /\ StopAnswered(x, answer)
                          /\ QuarantineIf(answer \in StopErrors)
           /\ UNCHANGED <<adapterActive, sending, goal>>
  <2>1. /\ stopRequested' \subseteq ExecId
        /\ stops' \subseteq ExecId
        /\ published' \in [ExecId -> Nat]
        /\ quarantined' \in BOOLEAN
        /\ adapterQuarantined' \in BOOLEAN
    BY <1>3, AnsweredType
  <2>. QED BY <1>1, <1>3, <2>1 DEF FlagsType, BackendTypeOK
<1>. QED BY <1>2, <1>3 DEF Cancel

\* Every step keeps the types of backend and flags.
LEMMA FlagsStep ==
  ASSUME FlagsType, [Next]_vars
  PROVE  FlagsType'
<1>1. CASE \E p \in PlanId : Start(p) \/ StartFails(p)
  BY <1>1, UnchangedFlags DEF Start, StartFails, taskVars
<1>2. CASE \E x \in ExecId : RunExecution(x)
  BY <1>2, SubmitFlags, AcceptedFlags, WaitFlags DEF RunExecution
<1>3. CASE \E x \in ExecId : Cancel(x)
  BY <1>3, CancelFlags
<1>4. CASE PlanTraffic \/ UNCHANGED vars
  BY <1>4, UnchangedFlags DEF PlanTraffic, taskVars, vars
<1>5. CASE Background
  BY <1>5, BackendStepType DEF Background, FlagsType, taskVars
<1>. QED BY <1>1, <1>2, <1>3, <1>4, <1>5 DEF Next

-----------------------------------------------------------------------------
(* The inductive invariant. *)

\* Every step preserves the inductive invariant.
LEMMA WorkflowStepInv == WorkflowInv /\ [Next]_vars => WorkflowInv'
<1>. SUFFICES ASSUME WorkflowInv, [Next]_vars PROVE WorkflowInv'
  OBVIOUS
<1>1. PlanTypeOK'
  BY PlanStep, PlanNextType DEF WorkflowInv, TypeOK
<1>2. TaskGoal
  BY TaskStep
<1>3. FlagsType'
  BY FlagsStep DEF WorkflowInv, TypeOK, FlagsType
<1>. QED BY <1>1, <1>2, <1>3
         DEF WorkflowInv, TypeOK, TaskGoal, TaskInv, FlagsType

\* The inductive invariant holds of the whole workflow: types, the slot and the
\* task in step, reservations owned, and every task naming a plan.
THEOREM WorkflowInvariant == Spec => []WorkflowInv
BY WorkflowInitInv, WorkflowStepInv, PTL DEF Spec

\* The whole workflow keeps the types of its state (TypeOK).
THEOREM WorkflowTypeCorrect == Spec => []TypeOK
BY WorkflowInvariant, PTL DEF WorkflowInv

\* No failure leaks a reservation and none is lost under an execution that
\* still needs it, whatever else the service does meanwhile (ReservationOwned).
THEOREM ReservationsOwned == Spec => []ReservationOwned
BY WorkflowInvariant, PTL DEF WorkflowInv

\* No path ends a task and keeps the slot, or frees the slot under a running
\* task (SlotFollowsTask).
THEOREM SlotFollows == Spec => []SlotFollowsTask
BY WorkflowInvariant, PTL DEF WorkflowInv

\* The workflow uses the plan registry as PlanRegistry describes it, one
\* operation at a time, so what is proved of the registry holds in it:
\* among it LifetimeConserved, CapacityHeld and PinnedWhileReserved.
THEOREM WorkflowIsPlanSpec == Spec => PlanSpec
<1>1. Init => PlanInit
  BY DEF Init
<1>2. WorkflowInv /\ [Next]_vars => [PlanNext]_planVars
  BY PlanStep
<1>. QED BY <1>1, <1>2, WorkflowInvariant, PTL DEF Spec, PlanSpec

\* Suspended reservations neither cost nor gain a plan any of its life, in
\* the composed system too (LifetimeConserved).
THEOREM WorkflowConservesLifetime == Spec => []LifetimeConserved
BY WorkflowIsPlanSpec, LifetimeIsConserved, PTL

\* A registry of more than one slot always has one for a new plan: only the
\* plan of the active execution is reserved, so store never raises in a server
\* whose registry has 32 (server.py:81, plans.py:90).
THEOREM StoreFindsRoom == Spec => [](MaxPlans > 1 => ~CapacityReserved)
<1>1. ASSUME WorkflowInv, MaxPlans > 1, CapacityReserved PROVE FALSE
  <2>1. Stored(Live) \subseteq {PlanOf(active)}
    <3>1. ASSUME NEW p \in Stored(Live) PROVE p = PlanOf(active)
      <4>1. plans[p].state = "reserved"
        BY <1>1, <3>1, LiveKeepsOrDrops
        DEF CapacityReserved, Evictable, Stored, WorkflowInv, TypeOK
      <4>. QED BY <1>1, <3>1, <4>1 DEF Stored, WorkflowInv, ReservationOwned
    <3>. QED BY <3>1
  <2>2. Cardinality(Stored(Live)) <= 1
    <3>1. /\ IsFiniteSet({PlanOf(active)})
          /\ Cardinality({PlanOf(active)}) = 1
      BY FS_Singleton
    <3>2. Cardinality(Stored(Live)) <= Cardinality({PlanOf(active)})
      BY <2>1, <3>1, FS_Subset
    <3>. QED BY <3>1, <3>2
  <2>. QED BY <1>1, <2>2, StoredFinite, PlanAssumption DEF CapacityReserved
<1>2. WorkflowInv => (MaxPlans > 1 => ~CapacityReserved)
  BY <1>1
<1>. QED BY <1>2, WorkflowInvariant, PTL

-----------------------------------------------------------------------------
(* Quarantine. *)

\* Every step quarantines service and adapter together or neither.
LEMMA QuarantinesTogether ==
  ASSUME [Next]_vars
  PROVE  \/ UNCHANGED <<quarantined, adapterQuarantined>>
         \/ \E ambiguous : QuarantineIf(ambiguous)
<1>1. CASE \E p \in PlanId : Start(p) \/ StartFails(p)
  BY <1>1 DEF Start, StartFails, backendVars
<1>2. CASE \E x \in ExecId : RunExecution(x)
  <2>1. PICK x \in ExecId : RunExecution(x)
    BY <1>2
  <2>2. CASE CheckStored(x) \/ CheckState(x) \/ CheckScene(x) \/ NotAccepted(x)
    BY <2>2 DEF CheckStored, CheckState, CheckScene, Submit, BeginSubmit,
       NotAccepted, GiveUp, backendVars
  <2>3. CASE Accepted(x)
    BY <2>3 DEF Accepted, Proceed
  <2>4. CASE Result(x) \/ ResultTimesOut(x) \/ WaitFails(x) \/ Stabilize(x)
    BY <2>4 DEF Result, ResultTimesOut, WaitFails, Stabilize, backendVars
  <2>. QED BY <2>1, <2>2, <2>3, <2>4 DEF RunExecution
<1>3. CASE \E x \in ExecId : Cancel(x)
  BY <1>3 DEF Cancel, backendVars
<1>4. CASE PlanTraffic \/ UNCHANGED vars
  BY <1>4 DEF PlanTraffic, vars, backendVars
<1>5. CASE Background
  BY <1>5 DEF Background, BackendNext, SendThread, ServerUnavailable, SendGoal,
     AcceptanceTimesOut, SendStep, MoveIt, AcceptGoal, RejectGoal, AcceptLate,
     FinishGoal, GoalStep, DeliverStop, LoseStop
<1>. QED BY <1>1, <1>2, <1>3, <1>4, <1>5 DEF Next

\* The service's and the adapter's quarantine agree after every step, under
\* every fault (QuarantinesAgree).
THEOREM QuarantinesAlwaysAgree == Spec => []QuarantinesAgree
<1>1. Init => QuarantinesAgree
  BY DEF Init, BackendInit, QuarantinesAgree
<1>2. QuarantinesAgree /\ [Next]_vars => QuarantinesAgree'
  BY QuarantinesTogether DEF QuarantinesAgree, QuarantineIf
<1>. QED BY <1>1, <1>2, PTL DEF Spec

\* Once in quarantine no task is before acceptance, and a thread is sending a
\* goal only while its task waits for the answer.
Barred == quarantined => \A x \in ExecId : pc[x] \notin BeforeAcceptance

Underway == {"discovering", "sent"}

SendingSubmits == \A x \in ExecId : sending[x] \in Underway => pc[x] = "submitting"

\* Quarantine is entered only by the active execution, after acceptance.
LEMMA BarredStep ==
  ASSUME WorkflowInv, Barred, [Next]_vars
  PROVE  Barred'
<1>1. CASE \E p \in PlanId : Start(p) \/ StartFails(p)
  BY <1>1 DEF Start, StartFails, MayStart, Barred
<1>2. ASSUME NEW x \in ExecId,
             CheckStored(x) \/ CheckState(x) \/ CheckScene(x) \/ NotAccepted(x)
      PROVE  Barred'
  <2>1. pc[x] \in BeforeAcceptance
    BY <1>2 DEF CheckStored, CheckState, CheckScene, NotAccepted, At,
       BeforeAcceptance
  <2>2. quarantined' = quarantined
    BY <1>2 DEF CheckStored, CheckState, CheckScene, Submit, NotAccepted, GiveUp
  <2>. QED BY <2>1, <2>2 DEF Barred
<1>3. ASSUME NEW x \in ExecId,
             \/ Accepted(x) \/ Result(x) \/ ResultTimesOut(x)
             \/ WaitFails(x) \/ Stabilize(x)
      PROVE  Barred'
  <2>1. active = x
    BY <1>3, SuspendedIsActive, TaskStatesAre
       DEF Accepted, Result, ResultTimesOut, WaitFails, Stabilize, At,
           BeforeAcceptance
  <2>2. \E to \in {"waiting", "stabilizing", "done"} :
          pc' = [pc EXCEPT ![x] = to]
    BY <1>3 DEF Accepted, Proceed, Result, ResultTimesOut, WaitFails, Stabilize,
       End, Goto
  <2>3. \A y \in ExecId : pc'[y] \notin BeforeAcceptance
    BY <2>1, <2>2, OthersNotBefore, RecordsTyped DEF BeforeAcceptance
  <2>. QED BY <2>3 DEF Barred
<1>4. ASSUME NEW x \in ExecId, Cancel(x)
      PROVE  Barred'
  <2>1. pc' = pc /\ active = x
    BY <1>4 DEF Cancel, taskVars
  <2>2. CASE records[x].state = "starting"
    BY <1>4, <2>1, <2>2 DEF Cancel, Barred
  <2>3. CASE records[x].state = "running"
    <3>1. pc[x] = "waiting"
      BY <2>1, <2>3, TaskStatesAre
         DEF WorkflowInv, SlotFollowsTask, BeforeAcceptance
    <3>. QED BY <2>1, <3>1, OthersNotBefore DEF Barred, BeforeAcceptance
  <2>. QED BY <1>4, <2>2, <2>3 DEF Cancel
<1>5. CASE PlanTraffic \/ Background \/ UNCHANGED vars
  BY <1>5 DEF PlanTraffic, Background, vars, taskVars, Barred
<1>. QED BY <1>1, <1>2, <1>3, <1>4, <1>5 DEF Next, RunExecution

\* A task that is not waiting for an answer may move on.
LEMMA MovesUnsent ==
  ASSUME WorkflowInv, SendingSubmits, NEW x \in ExecId, NEW to,
         sending[x] \notin Underway, UNCHANGED sending, Goto(x, to)
  PROVE  SendingSubmits'
BY RecordsTyped DEF SendingSubmits, Goto

\* The thread starts and ends within its task's wait for the answer.
LEMMA SendingStep ==
  ASSUME WorkflowInv, SendingSubmits, [Next]_vars
  PROVE  SendingSubmits'
<1>0. sending \in [ExecId -> SendState]
  BY DEF WorkflowInv, TypeOK, BackendTypeOK
<1>1. ASSUME NEW p \in PlanId, Start(p)
      PROVE  SendingSubmits'
  <2>1. created + 1 \in ExecId /\ pc[created + 1] # "submitting"
    BY <1>1, RecordsTyped, IdentifierAssumption
       DEF Start, MayStart, ExecId, WorkflowInv, SlotFollowsTask
  <2>. QED BY <1>1, <2>1, MovesUnsent DEF Start, backendVars, SendingSubmits
<1>2. ASSUME NEW x \in ExecId, CheckStored(x) \/ CheckState(x)
      PROVE  SendingSubmits'
  <2>1. pc[x] # "submitting" /\ UNCHANGED sending
    BY <1>2 DEF CheckStored, CheckState, At, GiveUp, backendVars
  <2>2. \E to : Goto(x, to)
    BY <1>2 DEF CheckStored, CheckState, GiveUp, End
  <2>. QED BY <2>1, <2>2, MovesUnsent DEF SendingSubmits
<1>3. ASSUME NEW x \in ExecId, CheckScene(x)
      PROVE  SendingSubmits'
  <2>1. pc[x] # "submitting"
    BY <1>3 DEF CheckScene, At
  <2>2. CASE BeginSubmit(x) /\ Goto(x, "submitting")
    BY <1>0, <2>2, RecordsTyped DEF BeginSubmit, Goto, SendingSubmits
  <2>3. CASE UNCHANGED sending /\ Goto(x, "done")
    BY <2>1, <2>3, MovesUnsent DEF SendingSubmits
  <2>. QED BY <1>3, <2>2, <2>3 DEF CheckScene, Submit, GiveUp, End, backendVars
<1>4. ASSUME NEW x \in ExecId, NotAccepted(x) \/ Accepted(x)
      PROVE  SendingSubmits'
  <2>1. sending[x] \notin Underway /\ UNCHANGED sending
    BY <1>4 DEF NotAccepted, Accepted, GiveUp, SendOutcome, Underway, backendVars
  <2>2. \E to : Goto(x, to)
    BY <1>4 DEF NotAccepted, Accepted, Proceed, GiveUp, End
  <2>. QED BY <2>1, <2>2, MovesUnsent
<1>5. ASSUME NEW x \in ExecId,
             Result(x) \/ ResultTimesOut(x) \/ WaitFails(x) \/ Stabilize(x)
      PROVE  SendingSubmits'
  <2>1. pc[x] # "submitting" /\ UNCHANGED sending
    BY <1>5 DEF Result, ResultTimesOut, WaitFails, Stabilize, At, backendVars
  <2>2. \E to : Goto(x, to)
    BY <1>5 DEF Result, ResultTimesOut, WaitFails, Stabilize, End
  <2>. QED BY <2>1, <2>2, MovesUnsent DEF SendingSubmits
<1>6. CASE \/ \E p \in PlanId : StartFails(p)
           \/ \E x \in ExecId : Cancel(x)
           \/ PlanTraffic \/ UNCHANGED vars
  BY <1>6 DEF StartFails, Cancel, PlanTraffic, vars, taskVars, backendVars,
     SendingSubmits
<1>7. CASE Background
  <2>1. pc' = pc
    BY <1>7 DEF Background, taskVars
  <2>2. PICK x \in ExecId : SendThread(x) \/ MoveIt(x)
    BY <1>7 DEF Background, BackendNext
  <2>3. CASE UNCHANGED sending
    BY <2>1, <2>3 DEF SendingSubmits
  <2>4. CASE /\ sending[x] \in Underway
             /\ \E to : sending' = [sending EXCEPT ![x] = to]
    BY <1>0, <2>1, <2>4 DEF SendingSubmits
  <2>. QED BY <2>2, <2>3, <2>4
           DEF SendThread, ServerUnavailable, SendGoal, AcceptanceTimesOut,
               MoveIt, AcceptGoal, RejectGoal, SendStep, AcceptLate, FinishGoal,
               GoalStep, DeliverStop, LoseStop, Underway
<1>. QED BY <1>1, <1>2, <1>3, <1>4, <1>5, <1>6, <1>7 DEF Next, RunExecution

\* In quarantine no thread is left that could send a goal.
LEMMA FinalGoalStep ==
  ASSUME WorkflowInv, Barred, SendingSubmits, [Next]_vars, quarantined,
         NEW x \in ExecId, goal[x] = "none"
  PROVE  goal'[x] = "none"
<1>0. goal \in [ExecId -> GoalState]
  BY DEF WorkflowInv, TypeOK, BackendTypeOK
<1>1. sending[x] # "discovering"
  BY DEF Barred, SendingSubmits, Underway, BeforeAcceptance
<1>2. CASE Background
  <2>1. PICK y \in ExecId : SendThread(y) \/ MoveIt(y)
    BY <1>2 DEF Background, BackendNext
  <2>2. CASE SendThread(y)
    BY <1>0, <1>1, <2>2 DEF SendThread, ServerUnavailable, SendGoal,
       AcceptanceTimesOut, SendStep
  <2>3. CASE AcceptGoal(y) \/ RejectGoal(y) \/ AcceptLate(y) \/ FinishGoal(y)
    BY <1>0, <2>3 DEF AcceptGoal, RejectGoal, AcceptLate, FinishGoal, GoalStep
  <2>4. CASE DeliverStop(y) \/ LoseStop(y)
    BY <1>0, <2>4 DEF DeliverStop, LoseStop
  <2>. QED BY <2>1, <2>2, <2>3, <2>4 DEF MoveIt
<1>3. CASE \E p \in PlanId : Start(p) \/ StartFails(p)
  BY <1>3 DEF Start, StartFails, backendVars
<1>4. CASE \E y \in ExecId : RunExecution(y)
  <2>1. PICK y \in ExecId : RunExecution(y)
    BY <1>4
  <2>2. CASE CheckStored(y) \/ CheckState(y) \/ CheckScene(y) \/ NotAccepted(y)
    BY <2>2 DEF CheckStored, CheckState, CheckScene, Submit, BeginSubmit,
       NotAccepted, GiveUp, backendVars
  <2>3. CASE \/ Accepted(y) \/ Result(y) \/ ResultTimesOut(y)
             \/ WaitFails(y) \/ Stabilize(y)
    BY <2>3 DEF Accepted, Result, ResultTimesOut, WaitFails, Stabilize,
       backendVars
  <2>. QED BY <2>1, <2>2, <2>3 DEF RunExecution
<1>5. CASE \E y \in ExecId : Cancel(y)
  BY <1>5 DEF Cancel, backendVars
<1>6. CASE PlanTraffic \/ UNCHANGED vars
  BY <1>6 DEF PlanTraffic, vars, backendVars
<1>. QED BY <1>2, <1>3, <1>4, <1>5, <1>6 DEF Next

\* Quarantine is never left and no goal is sent after it, whatever task or
\* thread is under way when it is entered (QuarantineIsFinal).
THEOREM QuarantineFinal == Spec => QuarantineIsFinal
<1>1. Init => Barred /\ SendingSubmits
  BY DEF Init, BackendInit, Barred, SendingSubmits, Underway
<1>2. WorkflowInv /\ Barred /\ SendingSubmits /\ [Next]_vars
        => Barred' /\ SendingSubmits'
  BY BarredStep, SendingStep
<1>3. Spec => [](Barred /\ SendingSubmits)
  BY <1>1, <1>2, WorkflowInvariant, PTL DEF Spec
<1>4. ASSUME WorkflowInv, Barred, SendingSubmits, [Next]_vars
      PROVE  [quarantined =>
                /\ quarantined'
                /\ \A x \in ExecId : goal[x] = "none" => goal'[x] = "none"]_vars
  <2>1. ASSUME quarantined PROVE quarantined'
    BY <1>4, <2>1, QuarantinesTogether DEF QuarantineIf
  <2>. QED BY <1>4, <2>1, FinalGoalStep
<1>. QED BY <1>3, <1>4, WorkflowInvariant, PTL DEF Spec, QuarantineIsFinal

\* Quarantine is one for service and adapter, and for good (QuarantineHolds).
THEOREM QuarantineIsSound == Spec => QuarantineHolds
BY QuarantinesAlwaysAgree, QuarantineFinal, PTL DEF QuarantineHolds
=============================================================================
