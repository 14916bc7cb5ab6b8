------------------------------- MODULE Waits -------------------------------
(***************************************************************************)
(* Everything that waits on a clock: the wait for a terminal result        *)
(* (TerminalWait), the observation of the robot after a stop               *)
(* (Stabilization), and the calls to ROS (RosCalls).  The service makes    *)
(* the first and the second one after the other, and none of them looks at *)
(* another's state: one is watched while the others are over.              *)
(***************************************************************************)
EXTENDS TerminalWait, Stabilization, RosCalls

-----------------------------------------------------------------------------
WaitOver ==
  /\ now = 0 /\ since = 0 /\ pollEnd = 0
  /\ duration = CHOOSE d \in Durations : TRUE
  /\ cancelling = None /\ cancelDeadline = None /\ finish = None
  /\ stage = "done" /\ reply = "error"

ObservationOver ==
  /\ clock = 0 /\ deadline = 0 /\ begun = 0 /\ disturbed = 0
  /\ previous = None /\ quietSince = None
  /\ step = "done" /\ stopped = FALSE /\ failed = TRUE

\* The runtime is closed, and all its clients are gone.
CallsOver ==
  /\ open = FALSE
  /\ at = [c \in Call |-> "done"] /\ outcome = [c \in Call |-> "closed"]
  /\ pool = <<>> /\ lock = None
  /\ clients = {} /\ topics = {} /\ up = {} /\ requests = {}
  /\ created = [s \in Service |-> 0]
  /\ elapsed = [c \in Call |-> 0] /\ busy = elapsed /\ taken = elapsed

Init ==
  \/ WaitInit /\ ObservationOver /\ CallsOver
  \/ WaitOver /\ ObservationInit /\ CallsOver
  \/ WaitOver /\ ObservationOver /\ CallsInit

Next ==
  \/ WaitNext /\ UNCHANGED <<observationVars, callVars>>
  \/ ObservationNext /\ UNCHANGED <<waitVars, callVars>>
  \/ CallsNext /\ UNCHANGED <<waitVars, observationVars>>

Spec ==
  /\ Init /\ [][Next]_<<waitVars, observationVars, callVars>>
  /\ WaitFairness /\ ObservationFairness /\ CallsFairness

\* No wait is longer than its time-outs allow for, whoever answers late or
\* never: for a terminal result (_wait_for_execution_terminal), for the robot
\* to stand still (_wait_for_state_stabilization), and of a worker for ROS
\* (_call_service_blocking), which shares its clients.
WaitsInv ==
  /\ WaitTypeOK /\ EndsInTime
  /\ StabilizationTypeOK /\ AnswersInTime
  /\ CallsTypeOK /\ WorkersAreFreed /\ ClientsAreShared

\* And none gives up what was in time: a motion within its allowance, a robot
\* that stands still, an answer to a request.
NothingInTimeIsGivenUp ==
  /\ NoFalseTimeout /\ CancelledInTime
  /\ NoFalseAlarm
  /\ AnswersAreAwaited

\* Every wait ends.
WaitsEnd == WaitEnds /\ StabilizationEnds /\ EveryCallEnds
=============================================================================
