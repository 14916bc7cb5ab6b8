----------------------------- MODULE SceneGuard -----------------------------
(***************************************************************************)
(* The planning scene between its writers and its readers: the mutations   *)
(* of ManipulatorService (apply_collision_object, remove_collision_object) *)
(* through the adapter, plan_motion, which records the revision of the     *)
(* scene, and the validation of an execution, which compares it.           *)
(*                                                                         *)
(* Every call to MoveIt is made in a worker thread: the request, the       *)
(* moment it is served and the coroutine's next line are three steps, with *)
(* everybody else's between them.  A revision is a hash of the world's     *)
(* content, so two equal scenes have one revision.  One plan is followed   *)
(* at a time, the one the next execution takes.                            *)
(*                                                                         *)
(* pc[c], for a client's calls:  reading -> read -> writing -> landed, and *)
(* at rest the reply of the last one: idle (none yet), ok, declined        *)
(* (nothing was asked of MoveIt), refused (by MoveIt), error (unknown).    *)
(***************************************************************************)
EXTENDS SafetyPolicy

CONSTANTS
  Client,    \* who calls the tools, each one call at a time
  Object,    \* collision objects: [id, primitive, size, frame]
  Replace,   \* the values of the argument "replace" that occur
  Policy,    \* the safety policy
  External,  \* scenes that other ROS nodes may put in place
  MaxLate    \* bound: how many writes may be overdue at once

\* MoveIt keeps the objects of its world by their names.
Scene == {s \in SUBSET Object : \A x, y \in s : x.id = y.id => x = y}

\* A tool can name a mesh to remove it, but not bring one.
Call == [kind : {"apply"}, object : {o \in Object : o.primitive # "mesh"},
         replace : Replace]
          \cup [kind : {"remove"}, id : {o.id : o \in Object}]

ASSUME SceneAssumption ==
  /\ PolicyOK(Policy)
  /\ Policy.max["objects"] \in Nat
  /\ Replace \subseteq BOOLEAN
  /\ External \subseteq Scene
  /\ MaxLate \in Nat
  /\ \A s \in Scene : s # None
  /\ \A w \in Call : w # None

VARIABLES
  scene,     \* the world of MoveIt's planning scene
  pc,        \* where each client's call stands
  call,      \* what it asks for
  snap,      \* the scene it was judged against
  wrote,     \* has MoveIt carried its write out?
  late,      \* writes whose callers stopped waiting, still to be served
  planning,  \* the revision plan_motion has read, while it plans
  plan,      \* the stored plan: the revision it carries
  exec,      \* the execution slot: free -> validating -> read -> moving
  matched,   \* did the revision read for validation match the plan's?
  exposed    \* has anything the service cannot hold back been under way?

clientVars == <<pc, call, snap, wrote>>
planVars == <<planning, plan>>
execVars == <<exec, matched, exposed>>
vars == <<scene, clientVars, late, planVars, execVars>>

Resting == {"idle", "ok", "declined", "refused", "error"}

-----------------------------------------------------------------------------
(* MoveIt's side of the scene services. *)

\* from_planning_scene_message fails on anything but single primitives.
Readable(s) == \A x \in s : x.primitive # "mesh"

\* The scene after a diff with one object.
After(s, w) ==
  IF w.kind = "apply"
  THEN {x \in s : x.id # w.object.id} \cup {w.object}
  ELSE {x \in s : x.id # w.id}

Removes(w) == w.kind = "remove"

\* Whose writes are somewhere between the service and the scene.
Underway == {c \in Client : pc[c] = "writing"}

-----------------------------------------------------------------------------
(* The service's scene mutations. *)

\* has_active_execution.
Active == exec # "free"

Reply(c, r) == pc' = [pc EXCEPT ![c] = r]

\* The call is over: what it asked for and read is forgotten.
Rest(c, r) ==
  /\ Reply(c, r)
  /\ call' = [call EXCEPT ![c] = None]
  /\ snap' = [snap EXCEPT ![c] = {}]

CallOnly(c) == UNCHANGED <<scene, late, planVars, execVars>>

\* Mutant: only apply_collision_object looks at the slot.
RemoveDeclinedUnguarded(w) == ~Allowed(RemovalFindings(Policy, w.id))

\* The guards of remove_collision_object.
RemoveDeclined(w) == Active \/ ~Allowed(RemovalFindings(Policy, w.id))

\* remove_collision_object up to its request, apply_collision_object up to
\* its read of the scene.
Begin(c) ==
  /\ pc[c] \in Resting
  /\ wrote' = [wrote EXCEPT ![c] = FALSE]
  /\ CallOnly(c)
  /\ \/ /\ Active
        /\ Rest(c, "declined")
     \/ \E w \in Call :
          /\ Removes(w)
          /\ RemoveDeclined(w)
          /\ Rest(c, "declined")
     \/ \E w \in Call :
          /\ IF Removes(w) THEN ~RemoveDeclined(w) ELSE ~Active
          /\ Reply(c, IF Removes(w) THEN "writing" ELSE "reading")
          /\ call' = [call EXCEPT ![c] = w]
          /\ UNCHANGED snap

\* get_planning_scene is answered.
ServeRead(c) ==
  /\ pc[c] = "reading"
  /\ Readable(scene)
  /\ snap' = [snap EXCEPT ![c] = scene]
  /\ Reply(c, "read")
  /\ UNCHANGED <<call, wrote>>
  /\ CallOnly(c)

\* It is not, or not usefully.
ReadFails(c) ==
  /\ pc[c] = "reading"
  /\ Rest(c, "declined")
  /\ UNCHANGED wrote
  /\ CallOnly(c)

\* Mutant: the slot is not looked at again after the read.
DeclinedUnguarded(c) ==
  ~Allowed(CollisionFindings(Policy, call[c].object, snap[c], call[c].replace))

\* Policy against the snapshot, then the slot once more.
Declined(c) ==
  \/ ~Allowed(CollisionFindings(Policy, call[c].object, snap[c],
                                call[c].replace))
  \/ Active

Decide(c) ==
  /\ pc[c] = "read"
  /\ UNCHANGED wrote
  /\ CallOnly(c)
  /\ IF Declined(c)
     THEN Rest(c, "declined")
     ELSE /\ Reply(c, "writing")
          /\ snap' = [snap EXCEPT ![c] = {}]
          /\ UNCHANGED call

\* MoveIt applies the diff.
Land(c) ==
  /\ pc[c] = "writing"
  /\ scene' = After(scene, call[c])
  /\ wrote' = [wrote EXCEPT ![c] = TRUE]
  /\ Reply(c, "landed")
  /\ UNCHANGED <<call, snap, late, planVars, execVars>>

\* Mutant: the success flag of the response is not looked at.
RefusedUnseen(c) == Reply(c, "landed") /\ UNCHANGED <<call, snap>>

\* response.success is false.
Refused(c) == Rest(c, "refused")

\* MoveIt refuses it with success = false, or was not there to be asked.
Refuse(c) ==
  /\ pc[c] = "writing"
  /\ Refused(c)
  /\ UNCHANGED wrote
  /\ CallOnly(c)

\* The wait times out.  Cancelling the future withdraws nothing.
StopWaiting(c) ==
  /\ pc[c] = "writing"
  /\ Cardinality(late) < MaxLate
  /\ late' = late \cup {call[c]}
  /\ Rest(c, "error")
  /\ UNCHANGED <<scene, wrote, planVars, execVars>>

\* The scene is read back for the reply; the read, too, may fail.
ReadBack(c) ==
  /\ pc[c] = "landed"
  /\ \/ Readable(scene) /\ Rest(c, "ok")
     \/ Rest(c, "error")
  /\ UNCHANGED wrote
  /\ CallOnly(c)

\* MoveIt serves a request nobody waits for any more.
LandLate(w) ==
  /\ w \in late
  /\ late' = late \ {w}
  /\ scene' \in {scene, After(scene, w)}
  /\ UNCHANGED <<clientVars, planVars, execVars>>

\* Another node of the ROS graph changes the scene.
OtherNode(s) ==
  /\ s # scene
  /\ scene' = s
  /\ exposed' = (exposed \/ Active)
  /\ UNCHANGED <<clientVars, late, planVars, exec, matched>>

-----------------------------------------------------------------------------
(* Planning: the revision is read first, then the trajectory is asked for. *)

ReadForPlan ==
  /\ ~Active
  /\ planning = None
  /\ Readable(scene)
  /\ planning' = scene
  /\ UNCHANGED <<scene, clientVars, late, plan, execVars>>

\* MoveIt plans in whatever scene there is by now; the revision is older.
MakePlan ==
  /\ planning # None
  /\ plan' = planning
  /\ planning' = None
  /\ UNCHANGED <<scene, clientVars, late, execVars>>

PlanFails ==
  /\ planning # None
  /\ planning' = None
  /\ UNCHANGED <<scene, clientVars, late, plan, execVars>>

PlanMotion == ReadForPlan \/ MakePlan \/ PlanFails

-----------------------------------------------------------------------------
(* An execution, as far as the scene is concerned. *)

\* start_motion_plan_execution takes the slot.
StartExecution ==
  /\ ~Active
  /\ plan # None
  /\ planning = None
  /\ exec' = "validating"
  /\ exposed' = (Underway # {} \/ late # {})
  /\ UNCHANGED <<scene, clientVars, late, planVars, matched>>

\* require_exact_scene_revision.
Matches(s) == s = plan

ServeValidation ==
  /\ exec = "validating"
  /\ Readable(scene)
  /\ exec' = "read"
  /\ matched' = Matches(scene)
  /\ UNCHANGED <<scene, clientVars, late, planVars, exposed>>

GiveUp ==
  /\ exec = "validating" \/ (exec = "read" /\ ~matched)
  /\ exec' = "free"
  /\ matched' = FALSE
  /\ exposed' = FALSE
  /\ UNCHANGED <<scene, clientVars, late, planVars>>

\* The goal is sent: from now on the robot may move.
SubmitGoal ==
  /\ exec = "read" /\ matched
  /\ exec' = "moving"
  /\ UNCHANGED <<scene, clientVars, late, planVars, matched, exposed>>

\* The execution ends, and with it its plan.
Finish ==
  /\ exec = "moving"
  /\ exec' = "free"
  /\ matched' = FALSE
  /\ exposed' = FALSE
  /\ plan' = None
  /\ UNCHANGED <<scene, clientVars, late, planning>>

Execution ==
  StartExecution \/ ServeValidation \/ GiveUp \/ SubmitGoal \/ Finish

-----------------------------------------------------------------------------
Init ==
  /\ scene = {}
  /\ pc = [c \in Client |-> "idle"]
  /\ call = [c \in Client |-> None]
  /\ snap = [c \in Client |-> {}]
  /\ wrote = [c \in Client |-> FALSE]
  /\ late = {}
  /\ planning = None
  /\ plan = None
  /\ exec = "free"
  /\ matched = FALSE
  /\ exposed = FALSE

ClientStep(c) ==
  \/ Begin(c) \/ ServeRead(c) \/ ReadFails(c) \/ Decide(c)
  \/ Land(c) \/ Refuse(c) \/ StopWaiting(c) \/ ReadBack(c)

Next ==
  \/ \E c \in Client : ClientStep(c)
  \/ \E w \in late : LandLate(w)
  \/ \E s \in External : OtherNode(s)
  \/ PlanMotion
  \/ Execution

Spec == Init /\ [][Next]_vars

-----------------------------------------------------------------------------
(* Properties. *)

\* Types; a call in progress is known, and one at rest has left nothing.
SceneTypeOK ==
  /\ scene \in Scene
  /\ pc \in [Client -> Resting \cup {"reading", "read", "writing", "landed"}]
  /\ call \in [Client -> Call \cup {None}]
  /\ snap \in [Client -> Scene]
  /\ wrote \in [Client -> BOOLEAN]
  /\ late \subseteq Call /\ Cardinality(late) <= MaxLate
  /\ planning \in Scene \cup {None}
  /\ plan \in Scene \cup {None}
  /\ exec \in {"free", "validating", "read", "moving"}
  /\ matched \in BOOLEAN /\ exposed \in BOOLEAN
  /\ \A c \in Client : pc[c] \in Resting <=> call[c] = None

\* While the robot moves the scene is the one the plan names, unless a write
\* was already on its way when the execution took the slot, or another node
\* interfered: validation and the guards of the mutations (service.py:894,
\* 906, 920) leave no other way in, whatever is in progress.
MotionInItsScene ==
  exec = "moving" /\ ~exposed => scene = plan

\* What the caller is told is so: after "ok" its write has been carried out,
\* after a refusal by guard, policy or MoveIt it has not.
RepliesAreTrue ==
  \A c \in Client :
    /\ pc[c] = "ok" => wrote[c]
    /\ pc[c] \in {"declined", "refused"} => ~wrote[c]

\* However the calls of one client follow one another, the objects in the
\* scene are never more than the policy allows, and each is one it allows.
PolicyHolds ==
  /\ Cardinality(scene) <= Policy.max["objects"]
  /\ \A x \in scene :
       Allowed(ObjectFindings(Policy, x))

\* A step in which an object gives way to another of its name only because a
\* call said so.
ReplacesOnRequest ==
  \A x \in scene, y \in scene' :
    x.id = y.id /\ x # y =>
      \E c \in Underway :
        call[c] = [kind |-> "apply", object |-> y, replace |-> TRUE]

\* README_PHASE_17: scene mutation remains blocked while an execution is
\* active.
SceneFrozenWhileActive ==
  [][exec # "free" /\ exec' # "free" => scene' = scene]_vars

\* Types, and replies that are true, whatever others do to the scene.
SceneInv == SceneTypeOK /\ RepliesAreTrue
=============================================================================
