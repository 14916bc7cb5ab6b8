-------------------------- MODULE SceneGuardProofs --------------------------
(***************************************************************************)
(* Proofs about the scene between its writers and its readers, for any     *)
(* number of clients, any objects and any policy.                          *)
(*                                                                         *)
(* Replies are true because of what is known while a call is under way     *)
(* (Known): nothing is written before the request is served, and a call    *)
(* that landed was.  The robot moves in the scene of its plan because,     *)
(* once the slot is held, no write can be under way that was not already   *)
(* (Guarded): the guards turn new ones away, and the two reads that        *)
(* judge a mutation or an execution are each followed by a look at the     *)
(* slot.                                                                   *)
(***************************************************************************)
EXTENDS SceneGuard, FiniteSetTheorems, TLAPS

-----------------------------------------------------------------------------
(* Types and replies. *)

PC == Resting \cup {"reading", "read", "writing", "landed"}

\* What is known of a call by where it stands.
Known ==
  \A c \in Client :
    /\ pc[c] \in {"reading", "read", "writing"} => ~wrote[c]
    /\ pc[c] = "landed" => wrote[c]
    /\ pc[c] \in {"reading", "read"} => ~Removes(call[c])

\* The replies follow from what is known, and the overdue writes are
\* finitely many.
GuardInv ==
  /\ SceneTypeOK
  /\ RepliesAreTrue
  /\ Known
  /\ IsFiniteSet(late)

\* The types of the clients' variables.
ClientTypeOK ==
  /\ pc \in [Client -> PC]
  /\ call \in [Client -> Call \cup {None}]
  /\ snap \in [Client -> Scene]
  /\ wrote \in [Client -> BOOLEAN]
  /\ \A c \in Client : pc[c] \in Resting <=> call[c] = None

\* What a step of one client preserves, as far as the clients go.
ClientGoal == ClientTypeOK' /\ RepliesAreTrue' /\ Known'

\* The empty scene is a scene.
LEMMA EmptyScene == {} \in Scene
BY DEF Scene

\* A diff with one object makes a scene of a scene.
LEMMA AfterIsScene ==
  ASSUME NEW s \in Scene, NEW w \in Call
  PROVE  After(s, w) \in Scene
<1>1. CASE w.kind = "apply"
  <2>1. w.object \in Object
    BY <1>1 DEF Call
  <2>. QED BY <1>1, <2>1 DEF After, Scene
<1>2. CASE w.kind # "apply"
  BY <1>2 DEF After, Scene
<1>. QED BY <1>1, <1>2

\* Only a client that moves can break what is known of clients.
LEMMA ClientMoves ==
  ASSUME GuardInv, NEW c \in Client,
         NEW p \in PC, NEW w \in Call \cup {None}, NEW s \in Scene,
         NEW b \in BOOLEAN,
         pc' = [pc EXCEPT ![c] = p],
         call' = [call EXCEPT ![c] = w],
         snap' = [snap EXCEPT ![c] = s],
         wrote' = [wrote EXCEPT ![c] = b],
         p \in Resting <=> w = None,
         p \in {"reading", "read"} => ~Removes(w),
         p \in {"ok", "landed"} => b,
         p \in {"declined", "refused", "reading", "read", "writing"} => ~b
  PROVE  ClientGoal
<1>1. ClientTypeOK
  BY DEF GuardInv, SceneTypeOK, ClientTypeOK, PC
<1>2. /\ pc'[c] = p /\ call'[c] = w /\ wrote'[c] = b
      /\ \A d \in Client \ {c} :
           pc'[d] = pc[d] /\ call'[d] = call[d] /\ wrote'[d] = wrote[d]
  BY <1>1 DEF ClientTypeOK
<1>3. ClientTypeOK'
  BY <1>1, <1>2 DEF ClientTypeOK
<1>4. RepliesAreTrue' /\ Known'
  BY <1>2 DEF GuardInv, RepliesAreTrue, Known
<1>. QED BY <1>3, <1>4 DEF ClientGoal

\* A call that comes to rest.
LEMMA RestKeeps ==
  ASSUME GuardInv, NEW c \in Client, NEW r \in Resting, Rest(c, r),
         UNCHANGED wrote,
         r = "ok" => wrote[c],
         r \in {"declined", "refused"} => ~wrote[c]
  PROVE  ClientGoal
<1>1. wrote' = [wrote EXCEPT ![c] = wrote[c]] /\ wrote[c] \in BOOLEAN
  BY DEF GuardInv, SceneTypeOK
<1>2. r \in PC /\ r \notin {"reading", "read", "writing", "landed"}
  BY DEF PC, Resting
<1>. QED BY <1>1, <1>2, EmptyScene, ClientMoves DEF Rest, Reply

\* Every step of a client keeps types, replies and what is known.
LEMMA ClientKeeps ==
  ASSUME GuardInv, NEW c \in Client, ClientStep(c)
  PROVE  ClientGoal
<1>1. /\ pc \in [Client -> PC] /\ call \in [Client -> Call \cup {None}]
      /\ snap \in [Client -> Scene] /\ wrote \in [Client -> BOOLEAN]
      /\ scene \in Scene
      /\ pc[c] \in Resting <=> call[c] = None
  BY DEF GuardInv, SceneTypeOK, PC
<1>2. /\ call = [call EXCEPT ![c] = call[c]]
      /\ snap = [snap EXCEPT ![c] = snap[c]]
      /\ wrote = [wrote EXCEPT ![c] = wrote[c]]
  BY <1>1
<1>3. /\ {"reading", "read", "writing", "landed"} \subseteq PC
      /\ {"reading", "read", "writing", "landed"} \cap Resting = {}
      /\ {"ok", "declined", "refused", "error"} \subseteq Resting
  BY DEF PC, Resting
<1>4. CASE Begin(c)
  <2>1. CASE Rest(c, "declined")
    <3>1. \E s \in Scene : snap' = [snap EXCEPT ![c] = s]
      BY <2>1, EmptyScene DEF Rest
    <3>. QED BY <1>3, <1>4, <2>1, EmptyScene, ClientMoves DEF Begin, Rest, Reply, PC
  <2>2. CASE \E w \in Call :
               /\ Reply(c, IF Removes(w) THEN "writing" ELSE "reading")
               /\ call' = [call EXCEPT ![c] = w]
               /\ UNCHANGED snap
    <3>1. PICK w \in Call :
               /\ Reply(c, IF Removes(w) THEN "writing" ELSE "reading")
               /\ call' = [call EXCEPT ![c] = w]
               /\ UNCHANGED snap
      BY <2>2
    <3>2. w # None
      BY SceneAssumption
    <3>3. PICK p \in {"writing", "reading"} :
            p = IF Removes(w) THEN "writing" ELSE "reading"
      OBVIOUS
    <3>. QED BY <1>1, <1>2, <1>3, <1>4, <3>1, <3>2, <3>3, ClientMoves
             DEF Begin, Reply
  <2>. QED BY <1>4, <2>1, <2>2 DEF Begin
<1>5. CASE ServeRead(c)
  <2>1. pc[c] = "reading" /\ ~wrote[c] /\ ~Removes(call[c]) /\ call[c] # None
    BY <1>1, <1>3, <1>5 DEF ServeRead, GuardInv, Known
  <2>. QED BY <1>1, <1>2, <1>3, <1>5, <2>1, ClientMoves DEF ServeRead, Reply
<1>6. CASE Decide(c)
  <2>1. pc[c] = "read" /\ ~wrote[c] /\ call[c] # None
    BY <1>1, <1>3, <1>6 DEF Decide, GuardInv, Known
  <2>2. CASE Rest(c, "declined")
    BY <1>3, <1>6, <2>1, <2>2, RestKeeps DEF Decide
  <2>3. CASE Reply(c, "writing") /\ snap' = [snap EXCEPT ![c] = {}]
             /\ UNCHANGED call
    BY <1>1, <1>2, <1>3, <1>6, <2>1, <2>3, EmptyScene, ClientMoves
       DEF Decide, Reply
  <2>. QED BY <1>6, <2>2, <2>3 DEF Decide
<1>7. CASE Land(c)
  <2>1. call[c] # None
    BY <1>1, <1>3, <1>7 DEF Land
  <2>. QED BY <1>1, <1>2, <1>3, <1>7, <2>1, ClientMoves DEF Land, Reply
<1>8. CASE ReadFails(c) \/ Refuse(c) \/ StopWaiting(c) \/ ReadBack(c)
  <2>1. /\ pc[c] \in {"reading", "writing"} => ~wrote[c]
        /\ pc[c] = "landed" => wrote[c]
    BY DEF GuardInv, Known
  <2>. QED BY <1>3, <1>8, <2>1, RestKeeps
           DEF ReadFails, Refuse, Refused, StopWaiting, ReadBack
<1>. QED BY <1>4, <1>5, <1>6, <1>7, <1>8 DEF ClientStep

\* What everybody else's steps leave alone.
LEMMA ClientsRest ==
  ASSUME GuardInv, UNCHANGED clientVars
  PROVE  ClientGoal
BY DEF GuardInv, SceneTypeOK, ClientGoal, ClientTypeOK, RepliesAreTrue, Known,
   clientVars, PC

\* The set of overdue writes grows only while it is below its bound.
LEMMA LateKeeps ==
  ASSUME GuardInv, [Next]_vars
  PROVE  late' \subseteq Call /\ IsFiniteSet(late') /\ Cardinality(late') <= MaxLate
<1>1. /\ late \subseteq Call /\ IsFiniteSet(late)
      /\ Cardinality(late) <= MaxLate /\ Cardinality(late) \in Nat
  BY FS_CardinalityType DEF GuardInv, SceneTypeOK
<1>2. CASE late' = late
  BY <1>1, <1>2
<1>3. CASE \E c \in Client : StopWaiting(c)
  <2>1. PICK c \in Client : StopWaiting(c)
    BY <1>3
  <2>2. call[c] \in Call
    BY <2>1 DEF StopWaiting, GuardInv, SceneTypeOK, Resting
  <2>3. late' = late \cup {call[c]} /\ Cardinality(late) < MaxLate
    BY <2>1 DEF StopWaiting
  <2>4. /\ IsFiniteSet(late \cup {call[c]})
        /\ Cardinality(late \cup {call[c]}) <= Cardinality(late) + 1
    BY <1>1, FS_AddElement
  <2>5. Cardinality(late \cup {call[c]}) \in Nat
    BY <2>4, FS_CardinalityType
  <2>6. Cardinality(late \cup {call[c]}) <= MaxLate
    BY <1>1, <2>3, <2>4, <2>5, SceneAssumption
  <2>. QED BY <1>1, <2>2, <2>3, <2>4, <2>6
<1>4. CASE \E w \in late : LandLate(w)
  <2>1. PICK w \in late : late' = late \ {w}
    BY <1>4 DEF LandLate
  <2>2. /\ IsFiniteSet(late \ {w})
        /\ Cardinality(late \ {w}) = Cardinality(late) - 1
    BY <1>1, FS_RemoveElement
  <2>. QED BY <1>1, <2>1, <2>2, SceneAssumption
<1>5. CASE \E c \in Client : ClientStep(c) /\ ~StopWaiting(c)
  BY <1>2, <1>5 DEF ClientStep, Begin, ServeRead, ReadFails, Decide, Land,
     Refuse, ReadBack, CallOnly
<1>6. CASE (\E s \in External : OtherNode(s)) \/ UNCHANGED vars
  BY <1>2, <1>6 DEF OtherNode, vars
<1>7. CASE PlanMotion \/ Execution
  BY <1>2, <1>7 DEF PlanMotion, ReadForPlan, MakePlan, PlanFails, Execution,
     StartExecution, ServeValidation, GiveUp, SubmitGoal, Finish
<1>. QED BY <1>3, <1>4, <1>5, <1>6, <1>7 DEF Next

\* The types of what is nobody's own.
SharedTypeOK ==
  /\ scene \in Scene
  /\ planning \in Scene \cup {None}
  /\ plan \in Scene \cup {None}
  /\ exec \in {"free", "validating", "read", "moving"}
  /\ matched \in BOOLEAN /\ exposed \in BOOLEAN

\* They, too, are kept by every step.
LEMMA SharedKeeps ==
  ASSUME GuardInv, [Next]_vars
  PROVE  SharedTypeOK'
<1>. USE DEF SharedTypeOK
<1>1. SharedTypeOK /\ late \subseteq Call
  BY DEF GuardInv, SceneTypeOK
<1>2. CASE \E c \in Client : Land(c)
  <2>1. PICK c \in Client : Land(c)
    BY <1>2
  <2>2. call[c] \in Call
    BY <2>1 DEF Land, GuardInv, SceneTypeOK, Resting
  <2>. QED BY <1>1, <2>1, <2>2, AfterIsScene DEF Land, planVars, execVars
<1>3. CASE \E w \in late : LandLate(w)
  BY <1>1, <1>3, AfterIsScene DEF LandLate, planVars, execVars
<1>4. CASE \E c \in Client : ClientStep(c) /\ ~Land(c)
  BY <1>1, <1>4 DEF ClientStep, Begin, ServeRead, ReadFails, Decide,
     Refuse, StopWaiting, ReadBack, CallOnly, planVars, execVars
<1>5. CASE \E s \in External : OtherNode(s)
  BY <1>1, <1>5, SceneAssumption DEF OtherNode, planVars, Active
<1>6. CASE PlanMotion \/ Execution
  BY <1>1, <1>6 DEF PlanMotion, ReadForPlan, MakePlan, PlanFails, Execution,
     StartExecution, ServeValidation, Matches, GiveUp, SubmitGoal, Finish,
     planVars, execVars
<1>7. CASE UNCHANGED vars
  BY <1>1, <1>7 DEF vars, planVars, execVars
<1>. QED BY <1>2, <1>3, <1>4, <1>5, <1>6, <1>7 DEF Next

\* Every step keeps types and replies.
LEMMA GuardStepInv == GuardInv /\ [Next]_vars => GuardInv'
<1>. SUFFICES ASSUME GuardInv, [Next]_vars PROVE GuardInv'
  OBVIOUS
<1>1. ClientGoal
  <2>1. CASE \E c \in Client : ClientStep(c)
    BY <2>1, ClientKeeps
  <2>2. CASE ~\E c \in Client : ClientStep(c)
    <3>1. UNCHANGED clientVars
      BY <2>2 DEF Next, LandLate, OtherNode, PlanMotion, ReadForPlan, MakePlan,
         PlanFails, Execution, StartExecution, ServeValidation, GiveUp,
         SubmitGoal, Finish, vars
    <3>. QED BY <3>1, ClientsRest
  <2>. QED BY <2>1, <2>2
<1>. QED BY <1>1, LateKeeps, SharedKeeps
         DEF GuardInv, SceneTypeOK, ClientGoal, ClientTypeOK, SharedTypeOK, PC

\* Before the first call nothing is under way.
LEMMA GuardInitInv == Init => GuardInv
<1>. SUFFICES ASSUME Init PROVE GuardInv
  OBVIOUS
<1>1. Cardinality({}) <= MaxLate /\ IsFiniteSet({})
  BY SceneAssumption, FS_EmptySet
<1>. QED BY <1>1, EmptyScene
         DEF Init, GuardInv, SceneTypeOK, RepliesAreTrue, Known, Resting

\* Types, and replies that are true whatever others do to the scene
\* (SceneInv).
THEOREM RepliesAlwaysTrue == Spec => []SceneInv
<1>1. GuardInv => SceneInv
  BY DEF GuardInv, SceneInv
<1>. QED BY <1>1, GuardInitInv, GuardStepInv, PTL DEF Spec

\* Everything the inductive invariant says.
THEOREM GuardInvariant == Spec => []GuardInv
BY GuardInitInv, GuardStepInv, PTL DEF Spec

-----------------------------------------------------------------------------
(* The robot in its scene. *)

\* No plan is under construction while the slot is held; unless something was
\* on its way when it was taken, nothing is; and a revision that matched still
\* does.
Guarded ==
  /\ exec # "free" => planning = None
  /\ exec = "moving" => matched
  /\ exec # "free" /\ ~exposed =>
       /\ Underway = {} /\ late = {}
       /\ matched => scene = plan
  /\ exec \in {"free", "validating"} => ~matched

\* While the slot is held no client begins to write.
LEMMA NobodyBeginsToWrite ==
  ASSUME NEW c \in Client, ClientStep(c), Active, Underway = {}
  PROVE  /\ Underway' = {}
         /\ UNCHANGED <<scene, late, planning, plan, exec, matched, exposed>>
<1>1. pc[c] # "writing"
  BY DEF Underway
<1>2. /\ UNCHANGED <<scene, late, planning, plan, exec, matched, exposed>>
      /\ \E r \in Resting \cup {"read"} : pc' = [pc EXCEPT ![c] = r]
  BY <1>1 DEF ClientStep, Begin, RemoveDeclined, ServeRead, ReadFails, Decide,
     Declined, Land, Refuse, StopWaiting, ReadBack, CallOnly, Rest, Reply,
     planVars, execVars, Resting
<1>3. Underway' = {}
  BY <1>2 DEF Underway, Resting
<1>. QED BY <1>2, <1>3

\* Every step keeps the guard.
LEMMA GuardedStep ==
  ASSUME GuardInv, Guarded, [Next]_vars
  PROVE  Guarded'
<1>0. exec \in {"free", "validating", "read", "moving"} /\ exposed \in BOOLEAN
  BY DEF GuardInv, SceneTypeOK
<1>1. CASE \E c \in Client : ClientStep(c)
  <2>1. PICK c \in Client : ClientStep(c)
    BY <1>1
  <2>2. UNCHANGED <<planVars, execVars>>
    BY <2>1 DEF ClientStep, Begin, ServeRead, ReadFails, Decide, Land, Refuse,
       StopWaiting, ReadBack, CallOnly
  <2>. QED BY <2>1, <2>2, NobodyBeginsToWrite
           DEF Guarded, Active, planVars, execVars
<1>2. CASE \E w \in late : LandLate(w)
  BY <1>2 DEF LandLate, Guarded, Underway, clientVars, planVars, execVars
<1>3. CASE \E s \in External : OtherNode(s)
  <2>1. exec # "free" => exposed'
    BY <1>3 DEF OtherNode, Active
  <2>2. UNCHANGED <<planning, exec, matched>>
    BY <1>3 DEF OtherNode, planVars
  <2>. QED BY <2>1, <2>2 DEF Guarded
<1>4. CASE PlanMotion
  BY <1>4 DEF PlanMotion, ReadForPlan, MakePlan, PlanFails, Guarded, Active,
     Underway, clientVars, execVars
<1>5. CASE StartExecution
  <2>1. ~exposed' => Underway = {} /\ late = {}
    BY <1>5 DEF StartExecution
  <2>2. /\ ~matched' /\ planning' = None /\ exec' = "validating"
        /\ Underway' = Underway /\ late' = late
    BY <1>5 DEF StartExecution, Guarded, Active, Underway, clientVars, planVars
  <2>. QED BY <2>1, <2>2 DEF Guarded
<1>6. CASE ServeValidation
  <2>1. matched' => scene = plan
    BY <1>6 DEF ServeValidation, Matches
  <2>2. /\ UNCHANGED <<planning, plan, scene, late, exposed, Underway>>
        /\ exec = "validating" /\ exec' = "read"
    BY <1>6 DEF ServeValidation, Underway, clientVars, planVars
  <2>. QED BY <2>1, <2>2 DEF Guarded
<1>7. CASE GiveUp \/ Finish
  BY <1>7 DEF GiveUp, Finish, Guarded
<1>8. CASE SubmitGoal
  BY <1>8 DEF SubmitGoal, Guarded, Underway, clientVars, planVars
<1>9. CASE UNCHANGED vars
  BY <1>9 DEF vars, Guarded, Underway, clientVars, planVars, execVars
<1>. QED BY <1>1, <1>2, <1>3, <1>4, <1>5, <1>6, <1>7, <1>8, <1>9
         DEF Next, Execution

\* While the robot moves the scene is the one its plan names, unless a write
\* was on its way when the slot was taken or another node interfered
\* (MotionInItsScene).
THEOREM MotionsInTheirScenes == Spec => []MotionInItsScene
<1>1. Init => Guarded
  BY DEF Init, Guarded
<1>2. Spec => []Guarded
  BY <1>1, GuardedStep, GuardInvariant, PTL DEF Spec
<1>3. Guarded => MotionInItsScene
  BY DEF Guarded, MotionInItsScene
<1>. QED BY <1>2, <1>3, PTL

-----------------------------------------------------------------------------
(* Objects the policy allows. *)

Fit(o) == Allowed(ObjectFindings(Policy, o))

Brings(w) == w.kind = "apply"

\* Every object in the scene, and every one on its way there, was vetted.
Vetted ==
  /\ \A x \in scene : Fit(x)
  /\ \A c \in Client : pc[c] = "writing" /\ Brings(call[c]) => Fit(call[c].object)
  /\ \A w \in late : Brings(w) => Fit(w.object)

\* A decision to write is a decision that the object is fit.
LEMMA DecisionVets ==
  ASSUME NEW c \in Client, ~Declined(c)
  PROVE  /\ Fit(call[c].object)
         /\ Allowed(PlaceFindings(Policy, call[c].object.id,
                                  {x.id : x \in snap[c]}, call[c].replace))
BY DEF Declined, Allowed, CollisionFindings, Fit

\* A write that was vetted keeps the scene so.
LEMMA AfterIsFit ==
  ASSUME NEW s, \A x \in s : Fit(x), NEW w, Brings(w) => Fit(w.object)
  PROVE  \A x \in After(s, w) : Fit(x)
BY DEF After, Brings

\* Every step keeps the scene vetted, unless another node interferes.
LEMMA VettedStep ==
  ASSUME GuardInv, Vetted, \A s \in External : \A x \in s : Fit(x), [Next]_vars
  PROVE  Vetted'
<1>1. /\ pc \in [Client -> PC] /\ call \in [Client -> Call \cup {None}]
  BY DEF GuardInv, SceneTypeOK, PC
<1>2. ASSUME NEW c \in Client, NEW p \in PC,
             pc' = [pc EXCEPT ![c] = p],
             \A d \in Client \ {c} : call'[d] = call[d],
             p = "writing" => (Brings(call'[c]) => Fit(call'[c].object)),
             \A x \in scene' : Fit(x),
             \A w \in late' : Brings(w) => Fit(w.object)
      PROVE  Vetted'
  BY <1>1, <1>2 DEF Vetted
<1>3. ASSUME NEW c \in Client, NEW r \in Resting, Rest(c, r),
             UNCHANGED <<scene, late>>
      PROVE  Vetted'
  <2>1. r \in PC /\ r # "writing"
    BY DEF PC, Resting
  <2>. QED BY <1>1, <1>2, <1>3, <2>1 DEF Rest, Reply, Vetted
<1>0. /\ {"reading", "read", "writing", "landed"} \subseteq PC
      /\ {"ok", "declined", "refused", "error"} \subseteq Resting
  BY DEF PC, Resting
<1>4. CASE \E c \in Client : Begin(c)
  <2>1. PICK c \in Client : Begin(c)
    BY <1>4
  <2>2. CASE \E w \in Call :
               /\ Reply(c, IF Removes(w) THEN "writing" ELSE "reading")
               /\ call' = [call EXCEPT ![c] = w]
    <3>1. PICK w \in Call :
               /\ Reply(c, IF Removes(w) THEN "writing" ELSE "reading")
               /\ call' = [call EXCEPT ![c] = w]
      BY <2>2
    <3>2. PICK p \in PC : /\ p = IF Removes(w) THEN "writing" ELSE "reading"
                          /\ p = "writing" => ~Brings(w)
      BY <1>0 DEF Removes, Brings
    <3>3. call'[c] = w /\ \A d \in Client \ {c} : call'[d] = call[d]
      BY <1>1, <3>1
    <3>. QED BY <1>2, <2>1, <3>1, <3>2, <3>3 DEF Begin, CallOnly, Reply, Vetted
  <2>3. CASE Rest(c, "declined")
    BY <1>0, <1>3, <2>1, <2>3 DEF Begin, CallOnly
  <2>. QED BY <2>1, <2>2, <2>3 DEF Begin
<1>5. CASE \E c \in Client : ServeRead(c)
  BY <1>0, <1>2, <1>5 DEF ServeRead, CallOnly, Reply, Vetted
<1>6. CASE \E c \in Client : Decide(c)
  <2>1. PICK c \in Client : Decide(c)
    BY <1>6
  <2>2. CASE Declined(c)
    BY <1>0, <1>3, <2>1, <2>2 DEF Decide, CallOnly
  <2>3. CASE ~Declined(c)
    BY <1>0, <1>2, <2>1, <2>3, DecisionVets DEF Decide, CallOnly, Reply, Vetted
  <2>. QED BY <2>2, <2>3
<1>7. CASE \E c \in Client : Land(c)
  <2>1. PICK c \in Client : Land(c)
    BY <1>7
  <2>2. \A x \in scene' : Fit(x)
    BY <2>1, AfterIsFit DEF Land, Vetted
  <2>. QED BY <1>0, <1>2, <2>1, <2>2 DEF Land, Reply, Vetted
<1>8. CASE \E c \in Client : StopWaiting(c)
  <2>1. PICK c \in Client : StopWaiting(c)
    BY <1>8
  <2>2. \A w \in late' : Brings(w) => Fit(w.object)
    BY <2>1 DEF StopWaiting, Vetted
  <2>3. /\ pc' = [pc EXCEPT ![c] = "error"] /\ scene' = scene
        /\ \A d \in Client \ {c} : call'[d] = call[d]
    BY <1>1, <2>1 DEF StopWaiting, Rest, Reply
  <2>. QED BY <1>0, <1>2, <2>2, <2>3 DEF Vetted, PC
<1>9. CASE \E c \in Client : ReadFails(c) \/ Refuse(c) \/ ReadBack(c)
  BY <1>0, <1>3, <1>9 DEF ReadFails, Refuse, Refused, ReadBack, CallOnly
<1>10. CASE \E w \in late : LandLate(w)
  <2>1. \A x \in scene' : Fit(x)
    BY <1>10, AfterIsFit DEF LandLate, Vetted
  <2>. QED BY <1>10, <2>1 DEF LandLate, Vetted, clientVars
<1>11. CASE \E s \in External : OtherNode(s)
  BY <1>11 DEF OtherNode, Vetted, clientVars
<1>12. CASE PlanMotion \/ Execution \/ UNCHANGED vars
  BY <1>12 DEF PlanMotion, ReadForPlan, MakePlan, PlanFails, Execution,
     StartExecution, ServeValidation, GiveUp, SubmitGoal, Finish, Vetted,
     vars, clientVars
<1>. QED BY <1>4, <1>5, <1>6, <1>7, <1>8, <1>9, <1>10, <1>11, <1>12
         DEF Next, ClientStep

\* However calls overlap, are overdue or are repeated, and whatever the
\* executions do, no object the policy does not allow reaches the scene through
\* the service (evaluate_collision_object; the second part of PolicyHolds).
THEOREM ObjectsAreFit ==
  ASSUME \A s \in External : \A x \in s : Fit(x)
  PROVE  Spec => [](\A x \in scene : Fit(x))
<1>1. Init => Vetted
  BY DEF Init, Vetted
<1>2. GuardInv /\ Vetted /\ [Next]_vars => Vetted'
  BY VettedStep
<1>3. Vetted => \A x \in scene : Fit(x)
  BY DEF Vetted
<1>. QED BY <1>1, <1>2, <1>3, GuardInvariant, PTL DEF Spec

-----------------------------------------------------------------------------
(* One client, alone.  Two overlapping calls can take one place too many, or *)
(* the same name: each is judged against a scene read before the other's     *)
(* write.  One call after another cannot.                                    *)

\* A scene has as many names as objects.
LEMMA NamesAsMany ==
  ASSUME NEW s \in Scene, IsFiniteSet(s)
  PROVE  Cardinality({x.id : x \in s}) = Cardinality(s)
<1>. DEFINE names == {x.id : x \in s}
            f == [x \in s |-> x.id]
<1>1. f \in Bijection(s, names)
  BY DEF Bijection, Injection, Surjection, IsInjective, Scene
<1>2. ExistsBijection(s, names)
  BY <1>1 DEF ExistsBijection
<1>. QED BY <1>2, FS_Bijection

\* Is the scene within the number of objects the policy allows?
Few(s) == IsFiniteSet(s) /\ Cardinality(s) <= Policy.max["objects"]

\* An object for which there is a place takes it; one that goes leaves one.
LEMMA AfterIsFew ==
  ASSUME NEW s \in Scene, NEW w \in Call, Few(s),
         Brings(w) => Allowed(PlaceFindings(Policy, w.object.id,
                                            {x.id : x \in s}, w.replace))
  PROVE  Few(After(s, w))
<1>1. Cardinality(s) \in Nat /\ Policy.max["objects"] \in Nat
  BY FS_CardinalityType, SceneAssumption DEF Few
<1>2. CASE ~Brings(w)
  <2>1. After(s, w) \in SUBSET s
    BY <1>2 DEF After, Brings
  <2>2. /\ IsFiniteSet(After(s, w))
        /\ Cardinality(After(s, w)) <= Cardinality(s)
    BY <2>1, FS_Subset DEF Few
  <2>. QED BY <1>1, <2>2, FS_CardinalityType DEF Few
<1>3. CASE Brings(w)
  <2>. DEFINE id == w.object.id
              rest == {x \in s : x.id # id}
  <2>1. After(s, w) = rest \cup {w.object}
    BY <1>3 DEF After, Brings
  <2>2. IsFiniteSet(rest) /\ Cardinality(rest) <= Cardinality(s)
    BY FS_Subset DEF Few
  <2>3. /\ IsFiniteSet(rest \cup {w.object})
        /\ Cardinality(rest \cup {w.object}) <= Cardinality(rest) + 1
        /\ Cardinality(rest \cup {w.object}) \in Nat
        /\ Cardinality(rest) \in Nat
    <3>1. Cardinality(rest) \in Nat
      BY <2>2, FS_CardinalityType
    <3>. HIDE DEF rest
    <3>2. /\ IsFiniteSet(rest \cup {w.object})
          /\ Cardinality(rest \cup {w.object})
               = IF w.object \in rest THEN Cardinality(rest)
                                      ELSE Cardinality(rest) + 1
      BY <2>2, FS_AddElement
    <3>. QED BY <3>1, <3>2
  <2>4. CASE id \in {x.id : x \in s}
    <3>1. PICK y \in s : y.id = id
      BY <2>4
    <3>2. rest = s \ {y}
      BY <3>1 DEF Scene
    <3>3. Cardinality(rest) = Cardinality(s) - 1
      BY <3>1, <3>2, FS_RemoveElement DEF Few
    <3>. HIDE DEF rest
    <3>. QED BY <1>1, <2>1, <2>3, <3>3 DEF Few
  <2>5. CASE id \notin {x.id : x \in s}
    <3>1. ~(Cardinality({x.id : x \in s}) >= Policy.max["objects"])
      BY <1>3, <2>5 DEF Allowed, PlaceFindings, Finding
    <3>2. Cardinality(s) + 1 <= Policy.max["objects"]
      BY <1>1, <3>1, NamesAsMany DEF Few
    <3>. HIDE DEF rest
    <3>. QED BY <1>1, <2>1, <2>2, <2>3, <3>2 DEF Few
  <2>. QED BY <2>4, <2>5
<1>. QED BY <1>2, <1>3

\* Is there a place for what call c brings?
Placed(c) ==
  Brings(call[c]) =>
    Allowed(PlaceFindings(Policy, call[c].object.id,
                          {x.id : x \in scene}, call[c].replace))

\* What the client read is the scene, for nobody else changes it.
Alone(c) ==
  /\ late = {}
  /\ Few(scene)
  /\ pc[c] = "read" => snap[c] = scene
  /\ pc[c] = "writing" => Placed(c)

\* Every step of the only client keeps it so.
LEMMA AloneStep ==
  ASSUME GuardInv, NEW c, Client = {c}, External = {}, MaxLate = 0,
         Alone(c), [Next]_vars
  PROVE  Alone(c)'
<1>1. /\ pc \in [Client -> PC] /\ call \in [Client -> Call \cup {None}]
      /\ snap \in [Client -> Scene] /\ c \in Client /\ scene \in Scene
  BY DEF GuardInv, SceneTypeOK, PC
<1>2. late' = {}
  <2>1. Cardinality(late') \in Nat /\ Cardinality(late') <= 0 /\ IsFiniteSet(late')
    BY LateKeeps, FS_CardinalityType
  <2>. QED BY <2>1, FS_EmptySet
<1>3. ASSUME NEW r \in Resting, Rest(c, r), scene' = scene PROVE Alone(c)'
  <2>1. pc'[c] = r /\ r \notin {"read", "writing"}
    BY <1>1, <1>3 DEF Rest, Reply, Resting
  <2>. QED BY <1>2, <1>3, <2>1 DEF Alone
<1>0. {"ok", "declined", "refused", "error"} \subseteq Resting
  BY DEF Resting
<1>4. CASE Begin(c)
  <2>1. scene' = scene
    BY <1>4 DEF Begin, CallOnly
  <2>2. CASE \E w \in Call :
               /\ Reply(c, IF Removes(w) THEN "writing" ELSE "reading")
               /\ call' = [call EXCEPT ![c] = w]
    <3>1. PICK w \in Call :
               /\ Reply(c, IF Removes(w) THEN "writing" ELSE "reading")
               /\ call' = [call EXCEPT ![c] = w]
      BY <2>2
    <3>2. /\ pc'[c] \in {"writing", "reading"}
          /\ pc'[c] = "writing" => ~Brings(call'[c])
      BY <1>1, <3>1 DEF Reply, Removes, Brings
    <3>. QED BY <1>2, <2>1, <3>2 DEF Alone, Placed
  <2>. QED BY <1>0, <1>3, <1>4, <2>1, <2>2 DEF Begin
<1>5. CASE ServeRead(c)
  <2>1. pc'[c] = "read" /\ snap'[c] = scene /\ scene' = scene
    BY <1>1, <1>5 DEF ServeRead, Reply, CallOnly
  <2>. QED BY <1>2, <2>1 DEF Alone
<1>6. CASE Decide(c)
  <2>1. scene' = scene
    BY <1>6 DEF Decide, CallOnly
  <2>2. CASE Declined(c)
    BY <1>0, <1>3, <1>6, <2>1, <2>2 DEF Decide
  <2>3. CASE ~Declined(c)
    <3>1. pc'[c] = "writing" /\ call'[c] = call[c] /\ snap[c] = scene
      BY <1>1, <1>6, <2>3 DEF Decide, Reply, Alone
    <3>2. Placed(c)
      BY <1>1, <2>3, <3>1, DecisionVets DEF Placed
    <3>3. Placed(c)'
      BY <2>1, <3>1, <3>2 DEF Placed
    <3>. QED BY <1>2, <2>1, <3>1, <3>3 DEF Alone
  <2>. QED BY <2>2, <2>3
<1>7. CASE Land(c)
  <2>1. /\ pc[c] = "writing" /\ pc'[c] = "landed"
        /\ scene' = After(scene, call[c])
    BY <1>1, <1>7 DEF Land, Reply
  <2>2. call[c] \in Call
    BY <1>1, <2>1 DEF GuardInv, SceneTypeOK, Resting
  <2>3. Few(After(scene, call[c]))
    BY <1>1, <2>1, <2>2, AfterIsFew DEF Alone, Placed
  <2>4. Few(scene)'
    BY <2>1, <2>3 DEF Few
  <2>. QED BY <1>2, <2>1, <2>4 DEF Alone
<1>8. CASE ReadFails(c) \/ Refuse(c) \/ StopWaiting(c) \/ ReadBack(c)
  BY <1>0, <1>3, <1>8
     DEF ReadFails, Refuse, Refused, StopWaiting, ReadBack, CallOnly
<1>9. CASE PlanMotion \/ Execution \/ UNCHANGED vars
  BY <1>2, <1>9 DEF PlanMotion, ReadForPlan, MakePlan, PlanFails, Execution,
     StartExecution, ServeValidation, GiveUp, SubmitGoal, Finish, Alone,
     Placed, Few, vars, clientVars
<1>10. ASSUME NEW w \in late, LandLate(w) PROVE FALSE
  BY <1>10 DEF Alone
<1>. QED BY <1>4, <1>5, <1>6, <1>7, <1>8, <1>9, <1>10 DEF Next, ClientStep

\* It replaces an object only when it said so.
LEMMA ReplacesStep ==
  ASSUME GuardInv, NEW c, Client = {c}, External = {}, Alone(c), [Next]_vars
  PROVE  ReplacesOnRequest
<1>1. scene \in Scene /\ c \in Client
  BY DEF GuardInv, SceneTypeOK
<1>2. CASE scene' = scene
  BY <1>1, <1>2 DEF ReplacesOnRequest, Scene
<1>3. CASE Land(c)
  <2>1. /\ pc[c] = "writing" /\ scene' = After(scene, call[c])
        /\ call[c] \in Call
    BY <1>1, <1>3 DEF Land, GuardInv, SceneTypeOK, Resting
  <2>2. ASSUME NEW x \in scene, NEW y \in scene', x.id = y.id, x # y
        PROVE  call[c] = [kind |-> "apply", object |-> y, replace |-> TRUE]
    <3>1. y \notin scene
      BY <1>1, <2>2 DEF Scene
    <3>2. Brings(call[c]) /\ y = call[c].object
      BY <2>1, <2>2, <3>1 DEF After, Brings
    <3>3. call[c] \in [kind : {"apply"},
                       object : {o \in Object : o.primitive # "mesh"},
                       replace : Replace]
      BY <2>1, <3>2 DEF Call, Brings
    <3>4. call[c].replace
      BY <2>1, <2>2, <3>2
         DEF Alone, Placed, Allowed, PlaceFindings, Finding
    <3>5. call[c].replace = TRUE
      BY <3>3, <3>4, SceneAssumption
    <3>. QED BY <3>2, <3>3, <3>5
  <2>. QED BY <2>1, <2>2, <1>1 DEF ReplacesOnRequest, Underway
<1>4. CASE PlanMotion \/ Execution \/ UNCHANGED vars
  BY <1>2, <1>4 DEF PlanMotion, ReadForPlan, MakePlan, PlanFails, Execution,
     StartExecution, ServeValidation, GiveUp, SubmitGoal, Finish, vars
<1>5. CASE ClientStep(c) /\ ~Land(c)
  BY <1>2, <1>5 DEF ClientStep, Begin, ServeRead, ReadFails, Decide, Refuse,
     StopWaiting, ReadBack, CallOnly
<1>6. ASSUME NEW w \in late, LandLate(w) PROVE FALSE
  BY <1>6 DEF Alone
<1>. QED BY <1>3, <1>4, <1>5, <1>6 DEF Next

\* One client, making one call after another while no other node interferes
\* and no answer is overdue, gets neither past the policy nor past its own
\* words, whatever the objects and the policy (PolicyHolds and
\* ReplacesOnRequest, of which TLC checks PolicyKept).
THEOREM OneClientKeepsPolicy ==
  ASSUME NEW c, Client = {c}, External = {}, MaxLate = 0
  PROVE  Spec => []PolicyHolds /\ [][ReplacesOnRequest]_vars
<1>1. Init => Alone(c)
  <2>1. Few({})
    BY FS_EmptySet, SceneAssumption DEF Few
  <2>. QED BY <2>1 DEF Init, Alone
<1>2. GuardInv /\ Alone(c) /\ [Next]_vars => Alone(c)'
  BY AloneStep
<1>3. GuardInv /\ Alone(c) /\ [Next]_vars => [ReplacesOnRequest]_vars
  BY ReplacesStep
<1>4. Spec => [](\A x \in scene : Fit(x))
  BY ObjectsAreFit
<1>5. Alone(c) /\ (\A x \in scene : Fit(x)) => PolicyHolds
  BY DEF Alone, Few, Fit, PolicyHolds
<1>. QED BY <1>1, <1>2, <1>3, <1>4, <1>5, GuardInvariant, PTL DEF Spec
=============================================================================
