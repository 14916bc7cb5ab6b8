---------------------------- MODULE ServerStart ----------------------------
(***************************************************************************)
(* From the configuration file to a serving process (server.py,            *)
(* config/settings.py): the settings are loaded and judged, the adapter is *)
(* made, which opens the ROS runtime, and the service, which judges the    *)
(* same numbers again.  create_server then loads the settings a second     *)
(* time, for what the resources tell of them.                              *)
(*                                                                         *)
(* phase:  building -> assembling -> creating -> serving; what follows, a  *)
(* failure to create the server included, is in Shutdown.                  *)
(***************************************************************************)
EXTENDS Integers

CONSTANTS
  None,
  NotFinite,   \* an infinity, or not a number
  Content,     \* what the file may hold: a configuration, or None
  Invalid      \* a policy SafetyPolicy does not accept

LOCAL INSTANCE DomainValues WITH One <- 1, NormSlack <- 0

VARIABLES
  phase,       \* where main() stands
  file,        \* the configuration file
  edited,      \* history: it was edited since main() began
  enforced,    \* the settings of the service
  advertised,  \* the settings the resources tell of
  runtime      \* the ROS runtime: none, open, closed

startVars == <<phase, file, edited, enforced, advertised, runtime>>

-----------------------------------------------------------------------------
(* What is accepted where. *)

\* ExecutionSettings that must be positive.
Limits ==
  {"start_state_tolerance", "state_freshness", "action_server_discovery",
   "goal_acceptance", "cancel", "shutdown", "timeout_multiplier",
   "timeout_max", "stabilization", "quiet_window", "position_delta",
   "velocity"}

\* Mutant: only what is due at once is judged when the file is loaded.
ExecutionAcceptedLater(c) ==
  /\ \A l \in Limits \ {"stabilization"} : Positive(c.limit[l])
  /\ NonNegative(c.margin)

ExecutionAccepted(c) ==
  /\ \A l \in Limits : Positive(c.limit[l])
  /\ NonNegative(c.margin)

\* load_settings: a service time-out that is infinite is not refused here.
Loadable(c) ==
  /\ c # None
  /\ Finite(c.timeout) => c.timeout > 0
  /\ ExecutionAccepted(c)
  /\ c.policy # Invalid

\* Mutant: any time-out that is loaded is good enough.
AdapterAcceptsAny(c) == Finite(c.timeout) => c.timeout > 0

\* JazzyMoveItSettings.
AdapterAccepts(c) == Positive(c.timeout)

\* ManipulatorService: it has no use for the shutdown time-out.
ServiceAccepts(c) ==
  /\ \A l \in Limits \ {"shutdown"} : Positive(c.limit[l])
  /\ NonNegative(c.margin)

-----------------------------------------------------------------------------
Die == phase' = "dead"

\* _build_default_service up to the adapter: the runtime is opened, or not.
Build ==
  /\ phase = "building"
  /\ UNCHANGED <<file, edited, advertised>>
  /\ \/ Die /\ UNCHANGED <<enforced, runtime>>
     \/ /\ Loadable(file) /\ file.supported /\ AdapterAccepts(file)
        /\ phase' = "assembling"
        /\ enforced' = file
        /\ runtime' = "open"

\* The service is made; if it is not, nobody has the adapter any more.
Assemble ==
  /\ phase = "assembling"
  /\ IF ServiceAccepts(enforced) THEN phase' = "creating" ELSE Die
  /\ UNCHANGED <<file, edited, enforced, advertised, runtime>>

\* Mutant: the resources tell of the packaged defaults.
SecondLoadOfDefaults == CHOOSE c \in Content : Loadable(c)

SecondLoad == file

\* create_server.
Create ==
  /\ phase = "creating"
  /\ IF Loadable(SecondLoad)
     THEN phase' = "serving" /\ advertised' = SecondLoad
     ELSE phase' = "drained" /\ UNCHANGED advertised
  /\ UNCHANGED <<file, edited, enforced, runtime>>

\* Somebody edits the file, or removes it, while it may still be read.
Edit(c) ==
  /\ phase \in {"building", "assembling", "creating"}
  /\ file' = c
  /\ edited' = (phase # "building" \/ edited)
  /\ UNCHANGED <<phase, enforced, advertised, runtime>>

StartInit ==
  /\ phase = "building"
  /\ file \in Content
  /\ edited = FALSE
  /\ enforced = None
  /\ advertised = None
  /\ runtime = "none"

StartNext ==
  \/ Build
  \/ Assemble
  \/ Create
  \/ \E c \in Content : Edit(c)

-----------------------------------------------------------------------------
(* Properties. *)

\* No way to fail leaves the ROS runtime open behind it: whatever the service
\* would refuse has been refused before the adapter was made
\* (ExecutionSettings, ManipulatorService, JazzyMoveItSettings).
RuntimeIsNotLeft == phase = "dead" => runtime # "open"

\* Every time-out the adapter and the service wait for is finite, although an
\* infinite one gets past load_settings.
WaitsAreFinite ==
  runtime = "open" =>
    /\ Positive(enforced.timeout)
    /\ \A l \in Limits : Positive(enforced.limit[l])

\* The resources tell of the settings that are enforced, unless the file was
\* edited between the two loads.
ToldUnlessEdited ==
  phase = "serving" /\ ~edited => advertised = enforced
=============================================================================
