---------------------------- MODULE Stabilization ----------------------------
(***************************************************************************)
(* ManipulatorService._wait_for_state_stabilization on a discrete clock:   *)
(* after a stop, joint states are read one after the other until they have *)
(* been quiet for a while.                                                 *)
(*                                                                         *)
(* What is read is up to the robot: positions and velocities of the joints *)
(* in Readings.  A read takes up to ReadTime, a sleep is up to Lag longer  *)
(* than asked for.  The clock (time.monotonic) may read zero on the way.   *)
(***************************************************************************)
EXTENDS Integers, EventLoop

CONSTANTS
  Joint,       \* the joints of the trajectory
  Readings,    \* what may be read: [position, velocity] of some joints
  Start,       \* what the clock may say at the beginning
  Patience,     \* stabilization_timeout_seconds
  Window,      \* stabilization_quiet_window_seconds
  MaxDelta,    \* stabilization_position_delta_rad
  MaxVelocity, \* stabilization_velocity_rad_per_sec
  Sleep,       \* 0.05 seconds
  ReadTime     \* state_timeout_seconds

ASSUME StabilizationAssumption ==
  /\ {Patience, Window, Sleep} \subseteq Nat \ {0}
  /\ {ReadTime, Lag, MaxDelta, MaxVelocity} \subseteq Nat
  /\ Start \subseteq Int
  /\ None \notin Int /\ None \notin BOOLEAN
  /\ \A r \in Readings : r.position # None

VARIABLES
  clock,
  deadline,
  step,       \* top -> reading -> sleeping -> top ... done
  begun,      \* when the step began
  previous,   \* the positions read last (or None)
  quietSince, \* quiet_since
  stopped,    \* the answer
  disturbed,  \* when the last reading that was not quiet was judged
  failed      \* was a read without use?

observationVars == <<clock, deadline, step, begun, previous, quietSince,
                     stopped, disturbed, failed>>

-----------------------------------------------------------------------------
Distance(a, b) == IF a >= b THEN a - b ELSE b - a

\* RobotState without velocities counts as quiet.
VelocityQuiet(r) ==
  r.velocity # None =>
    \A j \in Joint : Distance(r.velocity[j], 0) <= MaxVelocity

\* There is nothing to compare the first reading with.
PositionQuiet(r) ==
  /\ previous # None
  /\ \A j \in Joint : Distance(r.position[j], previous[j]) <= MaxDelta

\* Mutant: the window begins anew with each reading.
QuietSinceRestarted == clock

\* quiet_since or now: zero, too, is replaced.
QuietSince == IF quietSince \in {None, 0} THEN clock ELSE quietSince

-----------------------------------------------------------------------------
Answer(b) == step' = "done" /\ stopped' = b

\* Mutant: no pause between two readings.
PauseSkipped == step' = "top" /\ UNCHANGED begun

\* asyncio.sleep(0.05).
Pause == step' = "sleeping" /\ begun' = clock

\* Mutant: the deadline is looked at only when nothing is quiet.
MayReadOn == clock < deadline \/ quietSince # None

MayRead == clock < deadline

\* while monotonic() < deadline.
LookAgain ==
  /\ step = "top"
  /\ IF MayRead
     THEN step' = "reading" /\ begun' = clock /\ UNCHANGED stopped
     ELSE Answer(FALSE) /\ UNCHANGED begun
  /\ UNCHANGED <<clock, deadline, previous, quietSince, disturbed, failed>>

\* get_current_state fails, times out, or lacks a joint.
ReadFails ==
  /\ step = "reading"
  /\ Answer(FALSE)
  /\ failed' = TRUE
  /\ UNCHANGED <<clock, deadline, begun, previous, quietSince, disturbed>>

\* Mutant: a disturbance does not end the quiet time.
NotQuietIgnored == UNCHANGED quietSince

NotQuiet == quietSince' = None

\* A reading is judged: quiet long enough, quiet, or not.
Judge(r) ==
  /\ step = "reading"
  /\ Joint \subseteq DOMAIN r.position
  /\ LET quiet == VelocityQuiet(r) /\ PositionQuiet(r) IN
     \/ /\ quiet
        /\ clock - QuietSince >= Window
        /\ Answer(TRUE)
        /\ UNCHANGED <<previous, quietSince, begun, disturbed>>
     \/ /\ quiet
        /\ clock - QuietSince < Window
        /\ quietSince' = QuietSince
        /\ Pause /\ previous' = r.position
        /\ UNCHANGED <<stopped, disturbed>>
     \/ /\ ~quiet
        /\ NotQuiet
        /\ disturbed' = clock
        /\ Pause /\ previous' = r.position
        /\ UNCHANGED stopped
  /\ UNCHANGED <<clock, deadline, failed>>

WakeUp ==
  /\ step = "sleeping"
  /\ clock >= begun + Sleep
  /\ step' = "top"
  /\ UNCHANGED <<clock, deadline, begun, previous, quietSince, stopped,
                 disturbed, failed>>

ClockTick ==
  /\ \/ step = "reading" /\ clock < begun + ReadTime
     \/ step = "sleeping" /\ clock < begun + Sleep + Lag
  /\ clock' = clock + 1
  /\ UNCHANGED <<deadline, step, begun, previous, quietSince, stopped,
                 disturbed, failed>>

ObservationInit ==
  /\ clock \in Start
  /\ deadline = clock + Patience
  /\ step = "top"
  /\ begun = clock
  /\ previous = None
  /\ quietSince = None
  /\ stopped = None
  /\ disturbed = clock
  /\ failed = FALSE

ObservationNext ==
  \/ LookAgain
  \/ ReadFails
  \/ \E r \in Readings : Judge(r)
  \/ WakeUp
  \/ ClockTick

ObservationFairness ==
  /\ WF_observationVars(LookAgain)
  /\ WF_observationVars(WakeUp)
  /\ WF_observationVars(ClockTick)
  /\ WF_observationVars(ReadFails \/ \E r \in Readings : Judge(r))

ObservationSpec == ObservationInit /\ [][ObservationNext]_observationVars
FairObservation == ObservationSpec /\ ObservationFairness

-----------------------------------------------------------------------------
(* Properties. *)

StabilizationTypeOK ==
  /\ clock \in Int /\ deadline \in Int /\ begun \in Int
  /\ step \in {"top", "reading", "sleeping", "done"}
  /\ previous # None => Joint \subseteq DOMAIN previous
  /\ quietSince \in Int \cup {None}
  /\ stopped \in BOOLEAN \cup {None}
  /\ disturbed \in Int
  /\ failed \in BOOLEAN
  /\ step = "done" <=> stopped # None

\* A stop is confirmed only when for a whole window, and since a reading
\* before it, no reading differed from the one before or showed speed.
QuietForWindow == stopped = TRUE => clock - disturbed >= Window + Sleep

\* A robot at rest, its joint states in time, is recognised as stopped: what
\* is not confirmed was disturbed near the end, or could not be read.
NoFalseAlarm ==
  stopped = FALSE /\ ~failed =>
    disturbed + Window + 3 * (Sleep + Lag + ReadTime) >= deadline

\* The answer comes at the latest one read after the deadline.
AnswersInTime == clock <= deadline + ReadTime + Sleep + Lag

\* The wait ends, whatever the robot does.
StabilizationEnds == <>(step = "done")
=============================================================================
