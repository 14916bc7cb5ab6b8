--------------------------- MODULE ShutdownProofs ---------------------------
(***************************************************************************)
(* Proofs about the life of the server process (ServerStart, Shutdown):    *)
(* for every set of configurations and any number of executions, no way to *)
(* fail leaves the ROS runtime open, the resources tell of what is         *)
(* enforced, and whoever is on record at the end has been stopped once.    *)
(*                                                                         *)
(* What makes a number positive or finite plays no part in them: the       *)
(* predicates of DomainValues are left closed, and only the relation       *)
(* between the three judgements of one configuration is used.              *)
(***************************************************************************)
EXTENDS Shutdown, TLAPS

-----------------------------------------------------------------------------
(* The invariants. *)

\* What passed load_settings and the adapter.
Judged == {c \in Content : Loadable(c) /\ AdapterAccepts(c)}

BeforeServing == {"building", "assembling", "creating"}
AfterServing == {"draining", "drained", "stopping", "closing"}

\* The start: the runtime follows the phase, and only what was judged is
\* enforced.  file = enforced until somebody edits the file.
StartInv ==
  /\ phase \in BeforeServing \cup {"serving"} \cup AfterServing \cup {"dead"}
  /\ runtime \in {"none", "open", "closed"}
  /\ file \in Content
  /\ edited \in BOOLEAN
  /\ enforced \in Judged \cup {None}
  /\ runtime = "none" <=> enforced = None
  /\ phase = "building" => runtime = "none"
  /\ phase \notin {"building", "dead"} => runtime = "open"
  /\ phase = "dead" => runtime # "open"
  /\ phase \in {"assembling", "creating"} /\ ~edited => file = enforced
  /\ phase = "serving" /\ ~edited => advertised = enforced

\* Executions: at most one has a task, and only it can be on record.
TaskInv ==
  /\ latest \in 0..MaxExec
  /\ task \in {"none", "sending", "waiting"}
  /\ goal \in [Exec -> {"none", "sent", "accepted", "rejected", "ended"}]
  /\ owner \in Exec \cup {None}
  /\ phase # "serving" => task = "none"
  /\ phase = "serving" => (owner # None <=> task = "waiting")
  /\ phase \in BeforeServing => owner = None
  /\ task # "none" => latest \in Exec /\ goal[latest] # "none"
  /\ task = "waiting" => owner = latest
  /\ \A x \in Exec : x > latest => goal[x] = "none"
  /\ owner # None => goal[owner] \in {"accepted", "ended"}

\* Stops: what is asked for is published at once, but for the moment close()
\* lets go of the lock.
StopInv ==
  /\ asked \subseteq Exec
  /\ published \in [Exec -> Nat]
  /\ \A x \in asked : x = owner
  /\ \A x \in Exec :
       /\ published[x] <= 1
       /\ published[x] = 1 => goal[x] \in {"accepted", "ended"}
  /\ task = "sending" => published[latest] = 0
  /\ owner # None /\ owner \notin asked => published[owner] = 0
  /\ owner \in asked /\ phase # "stopping" => published[owner] = 1
  /\ phase = "stopping" => owner \in asked /\ published[owner] = 0
  /\ phase \in {"closing", "dead"} /\ owner # None => owner \in asked

ProcessInv == StartInv /\ TaskInv /\ StopInv

-----------------------------------------------------------------------------
(* The start. *)

\* What ExecutionSettings accepts, the service accepts: a configuration that
\* was judged is refused nowhere later.
LEMMA JudgedIsAccepted ==
  ASSUME NEW c \in Judged
  PROVE  /\ c \in Content /\ c # None
         /\ Loadable(c) /\ AdapterAccepts(c) /\ ServiceAccepts(c)
<1>1. c \in Content /\ Loadable(c) /\ AdapterAccepts(c)
  BY DEF Judged
<1>2. c # None /\ ExecutionAccepted(c)
  BY <1>1 DEF Loadable
<1>3. ServiceAccepts(c)
  BY <1>2 DEF ExecutionAccepted, ServiceAccepts
<1> QED
  BY <1>1, <1>2, <1>3

\* The adapter is made of a configuration that was judged (Build).
LEMMA BuildJudges ==
  ASSUME NEW c \in Content, Loadable(c), AdapterAccepts(c)
  PROVE  c \in Judged
BY DEF Judged

\* Initially.
LEMMA StartsRight == Init => StartInv
BY DEF Init, StartInit, StartInv, BeforeServing, AfterServing

\* The steps of ServerStart: a failure to make the adapter or the service
\* dies without a runtime, because none of the judged is refused.
LEMMA StartStep ==
  ASSUME StartInv, StartNext
  PROVE  StartInv'
<1> USE DEF BeforeServing, AfterServing
<1>1. CASE Build
  <2>1. CASE Die /\ UNCHANGED <<enforced, runtime>>
    BY <1>1, <2>1 DEF Build, Die, StartInv
  <2>2. CASE ~(Die /\ UNCHANGED <<enforced, runtime>>)
    <3>1. /\ phase = "building" /\ phase' = "assembling"
          /\ Loadable(file) /\ AdapterAccepts(file)
          /\ enforced' = file /\ runtime' = "open"
          /\ file' = file /\ edited' = edited /\ advertised' = advertised
      BY <1>1, <2>2 DEF Build
    <3>2. PICK c \in Content : c = file
      BY DEF StartInv
    <3>3. c \in Judged
      BY <3>1, <3>2, BuildJudges
    <3>4. c # None
      BY <3>3, JudgedIsAccepted
    <3> QED
      BY <3>1, <3>2, <3>3, <3>4 DEF StartInv
  <2> QED
    BY <2>1, <2>2
<1>2. CASE Assemble
  <2>1. PICK c \in Judged : c = enforced
    BY <1>2 DEF Assemble, StartInv
  <2>2. ServiceAccepts(enforced)
    BY <2>1, JudgedIsAccepted
  <2>3. phase = "assembling" /\ phase' = "creating"
    BY <1>2, <2>2 DEF Assemble
  <2> QED
    BY <1>2, <2>3 DEF Assemble, StartInv
<1>3. CASE Create
  BY <1>3 DEF Create, SecondLoad, StartInv
<1>4. CASE \E c \in Content : Edit(c)
  BY <1>4 DEF Edit, StartInv
<1> QED
  BY <1>1, <1>2, <1>3, <1>4 DEF StartNext

\* Every step: after the start only the phase moves, and the runtime closes
\* with the last of them.
LEMMA StartKept ==
  ASSUME StartInv, [Next]_vars
  PROVE  StartInv'
<1> USE DEF BeforeServing, AfterServing
<1>1. CASE StartNext
  BY <1>1, StartStep
<1>2. CASE UNCHANGED startVars
  BY <1>2 DEF StartInv, startVars
<1>3. CASE EndOfInput \/ ThreadsEnd \/ Close \/ CloseStops
  BY <1>3 DEF EndOfInput, ThreadsEnd, Close, CloseStops, settingVars, StartInv
<1>4. CASE CloseRuntime
  BY <1>4 DEF CloseRuntime, settingVars, StartInv
<1>5. CASE Begin \/ Submitted \/ RequestStop \/ ResultTaken
  BY <1>5, <1>2 DEF Begin, Submitted, RequestStop, ResultTaken
<1>6. CASE \E x \in Exec : Answered(x) \/ MotionEnds(x)
  BY <1>6, <1>2 DEF Answered, MotionEnds
<1>7. CASE UNCHANGED vars
  BY <1>7, <1>2 DEF vars
<1> QED
  BY <1>1, <1>3, <1>4, <1>5, <1>6, <1>7 DEF Next

-----------------------------------------------------------------------------
(* Executions and their tasks. *)

\* Initially.
LEMMA TasksStartRight == Init => TaskInv
BY ShutdownAssumption
DEF Init, StartInit, TaskInv, BeforeServing, Exec

\* The steps of ServerStart know nothing of executions; only Create leaves
\* the phases before serving.
LEMMA TasksBeforeServing ==
  ASSUME StartInv, TaskInv, StartNext, UNCHANGED execVars
  PROVE  TaskInv'
<1> USE DEF BeforeServing, AfterServing
<1>1. phase \in BeforeServing
  BY DEF StartNext, Build, Assemble, Create, Edit
<1>2. phase' \in BeforeServing \cup {"serving", "drained", "dead"}
  BY DEF StartInv, StartNext, Build, Die, Assemble, Create, Edit
<1>3. owner = None /\ task = "none"
  BY <1>1 DEF TaskInv
<1> QED
  BY <1>2, <1>3 DEF TaskInv, execVars

\* One step of the event loop, of a worker thread or of main().
LEMMA TasksKept ==
  ASSUME StartInv, TaskInv, [Next]_vars
  PROVE  TaskInv'
<1> USE ShutdownAssumption DEF BeforeServing, Exec
<1>1. CASE StartNext /\ UNCHANGED execVars
  BY <1>1, TasksBeforeServing
<1>2. CASE Begin
  BY <1>2 DEF Begin, startVars, TaskInv
<1>3. CASE Submitted
  <2>1. CASE goal[latest] = "rejected"
    BY <1>3, <2>1 DEF Submitted, startVars, TaskInv
  <2>2. CASE goal[latest] # "rejected"
    <3>1. latest \in Exec /\ goal[latest] \in {"accepted", "ended"}
      BY <1>3, <2>2 DEF Submitted, TaskInv
    <3> QED
      BY <1>3, <2>2, <3>1 DEF Submitted, startVars, TaskInv
  <2> QED
    BY <2>1, <2>2
<1>4. CASE RequestStop
  BY <1>4 DEF RequestStop, startVars, TaskInv
<1>5. CASE ResultTaken
  BY <1>5 DEF ResultTaken, OwnerAfterResult, startVars, TaskInv
<1>6. CASE EndOfInput \/ ThreadsEnd \/ Close \/ CloseStops \/ CloseRuntime
  BY <1>6
  DEF EndOfInput, ThreadsEnd, Close, CloseStops, CloseRuntime, execVars, TaskInv
<1>7. ASSUME NEW x \in Exec, Answered(x) \/ MotionEnds(x)
      PROVE  TaskInv'
  <2>1. /\ UNCHANGED <<phase, latest, task, owner>>
        /\ goal[x] \in {"sent", "accepted"}
    BY <1>7 DEF Answered, MotionEnds, startVars
  <2>2. PICK g \in {"accepted", "rejected", "ended"} :
          /\ goal' = [goal EXCEPT ![x] = g]
          /\ goal[x] = "accepted" => g = "ended"
    BY <1>7 DEF Answered, MotionEnds
  <2> QED
    BY <2>1, <2>2 DEF TaskInv
<1>8. CASE UNCHANGED vars
  BY <1>8 DEF vars, startVars, execVars, TaskInv
<1> QED
  BY <1>1, <1>2, <1>3, <1>4, <1>5, <1>6, <1>7, <1>8 DEF Next

-----------------------------------------------------------------------------
(* Stops. *)

\* Initially.
LEMMA StopsStartRight == Init => StopInv
BY DEF Init, StartInit, StopInv

\* No step of ServerStart leads among the phases of the end with somebody on
\* record.
LEMMA StopsBeforeServing ==
  ASSUME StartInv, TaskInv, StopInv, StartNext, UNCHANGED execVars
  PROVE  StopInv'
<1> USE DEF BeforeServing, AfterServing
<1>1. phase \in BeforeServing
  BY DEF StartNext, Build, Assemble, Create, Edit
<1>2. phase' \in BeforeServing \cup {"serving", "drained", "dead"}
  BY DEF StartInv, StartNext, Build, Die, Assemble, Create, Edit
<1>3. owner = None /\ task = "none"
  BY <1>1 DEF TaskInv
<1>4. asked = {}
  BY <1>3, ShutdownAssumption DEF StopInv, Exec
<1> QED
  BY <1>2, <1>3, <1>4 DEF StopInv, execVars

\* A stop is published while the runtime is open, for whoever is on record.
LEMMA StopPublished ==
  ASSUME StartInv, TaskInv, StopInv, NEW x \in Exec, Publish(x),
         phase \notin {"building", "dead"}, published[x] = 0
  PROVE  /\ published' \in [Exec -> Nat]
         /\ published'[x] = 1
         /\ \A y \in Exec \ {x} : published'[y] = published[y]
<1>1. runtime = "open"
  BY DEF StartInv
<1> QED
  BY <1>1 DEF Publish, StopInv

\* One step of the event loop, of a worker thread or of main().
LEMMA StopsKept ==
  ASSUME StartInv, TaskInv, StopInv, [Next]_vars
  PROVE  StopInv'
<1> USE ShutdownAssumption
<1>0. /\ latest \in 0..MaxExec /\ owner \in Exec \cup {None}
      /\ task # "none" => latest \in Exec
      /\ None \notin Exec
  BY DEF TaskInv, Exec
<1>1. CASE StartNext /\ UNCHANGED execVars
  BY <1>1, StopsBeforeServing
<1>2. CASE Begin
  <2>1. /\ UNCHANGED <<phase, owner, asked, published>>
        /\ phase = "serving" /\ owner = None /\ task' = "sending"
    BY <1>2 DEF Begin, startVars
  <2>2. PICK n \in Exec : n = latest + 1
    BY <1>2 DEF Begin, TaskInv, Exec
  <2>3. goal[n] = "none" /\ latest' = n
    BY <1>2, <2>2 DEF Begin, TaskInv, Exec
  <2>4. published[n] = 0
    BY <2>3 DEF StopInv
  <2>5. \A x \in Exec : x # n => goal'[x] = goal[x]
    BY <1>2, <2>2 DEF Begin, TaskInv
  <2> QED
    BY <2>1, <2>3, <2>4, <2>5, <1>0 DEF StopInv
<1>3. CASE Submitted
  <2>1. /\ UNCHANGED <<phase, latest, goal, asked, published>>
        /\ phase = "serving" /\ task = "sending" /\ owner = None
    BY <1>3 DEF Submitted, startVars, TaskInv
  <2>2. asked = {} /\ published[latest] = 0
    BY <2>1, <1>0 DEF StopInv
  <2>3. task' # "sending" /\ owner' \in {None, latest}
    BY <1>3, <2>1 DEF Submitted
  <2> QED
    BY <2>1, <2>2, <2>3, <1>0 DEF StopInv
<1>4. CASE RequestStop
  <2>1. /\ UNCHANGED <<phase, latest, task, goal, owner>>
        /\ phase = "serving" /\ task = "waiting" /\ latest = owner
        /\ owner \notin asked /\ asked' = asked \cup {owner}
        /\ Publish(owner)
    BY <1>4 DEF RequestStop, startVars
  <2>2. owner \in Exec /\ published[owner] = 0
        /\ goal[owner] \in {"accepted", "ended"}
    BY <2>1, <1>0 DEF StopInv, TaskInv
  <2>3. /\ published' \in [Exec -> Nat] /\ published'[owner] = 1
        /\ \A y \in Exec \ {owner} : published'[y] = published[y]
    BY <2>1, <2>2, StopPublished
  <2> QED
    BY <2>1, <2>2, <2>3 DEF StopInv
<1>5. CASE ResultTaken
  <2>1. /\ UNCHANGED <<phase, latest, goal, published>>
        /\ phase = "serving" /\ task' = "none" /\ owner' = None
        /\ owner = latest /\ asked' = asked \ {latest}
    BY <1>5 DEF ResultTaken, OwnerAfterResult, startVars, TaskInv
  <2>2. asked' = {}
    BY <2>1 DEF StopInv
  <2> QED
    BY <2>1, <2>2 DEF StopInv
<1>6. CASE EndOfInput \/ ThreadsEnd
  BY <1>6 DEF EndOfInput, ThreadsEnd, execVars, StopInv
<1>7. CASE Close
  <2>1. /\ phase = "drained" /\ task = "none"
        /\ UNCHANGED <<latest, task, goal, owner, published>>
    BY <1>7 DEF Close, TaskInv
  <2>2. CASE ShouldStop
    <3>1. /\ phase' = "stopping" /\ asked' = asked \cup {owner}
          /\ owner \in Exec /\ owner \notin asked
      BY <1>7, <2>2, <1>0 DEF Close, ShouldStop
    <3>2. asked' = {owner} /\ published[owner] = 0
      BY <3>1, <1>0 DEF StopInv
    <3> QED
      BY <2>1, <3>1, <3>2 DEF StopInv
  <2>3. CASE ~ShouldStop
    <3>1. /\ phase' = "closing" /\ asked' = asked
          /\ owner # None => owner \in asked
      BY <1>7, <2>3 DEF Close, ShouldStop
    <3> QED
      BY <2>1, <3>1 DEF StopInv
  <2> QED
    BY <2>2, <2>3
<1>8. CASE CloseStops
  <2>1. /\ phase = "stopping" /\ phase' = "closing" /\ task = "none"
        /\ UNCHANGED <<latest, task, goal, owner, asked>>
        /\ Publish(owner)
    BY <1>8 DEF CloseStops, TaskInv
  <2>2. owner \in Exec /\ owner \in asked /\ published[owner] = 0
        /\ goal[owner] \in {"accepted", "ended"}
    BY <2>1, <1>0 DEF StopInv, TaskInv
  <2>3. /\ published' \in [Exec -> Nat] /\ published'[owner] = 1
        /\ \A y \in Exec \ {owner} : published'[y] = published[y]
    BY <2>1, <2>2, StopPublished
  <2> QED
    BY <2>1, <2>2, <2>3 DEF StopInv
<1>9. CASE CloseRuntime
  BY <1>9 DEF CloseRuntime, execVars, StopInv
<1>10. ASSUME NEW x \in Exec, Answered(x) \/ MotionEnds(x)
       PROVE  StopInv'
  <2>1. UNCHANGED <<phase, latest, task, owner, asked, published>>
    BY <1>10 DEF Answered, MotionEnds, startVars
  <2>2. \A y \in Exec : goal[y] \in {"accepted", "ended"}
                       => goal'[y] \in {"accepted", "ended"}
    BY <1>10 DEF Answered, MotionEnds, TaskInv
  <2> QED
    BY <2>1, <2>2 DEF StopInv
<1>11. CASE UNCHANGED vars
  BY <1>11 DEF vars, startVars, execVars, StopInv
<1> QED
  BY <1>1, <1>2, <1>3, <1>4, <1>5, <1>6, <1>7, <1>8, <1>9, <1>10, <1>11
  DEF Next

-----------------------------------------------------------------------------
(* The theorems. *)

\* Phase, runtime, executions and stops fit together in every state of the
\* process, from the first line of main() to its end.
THEOREM ProcessInvariant == Spec => []ProcessInv
<1>1. Init => ProcessInv
  BY StartsRight, TasksStartRight, StopsStartRight DEF ProcessInv
<1>2. ProcessInv /\ [Next]_vars => ProcessInv'
  BY StartKept, TasksKept, StopsKept DEF ProcessInv
<1> QED
  BY <1>1, <1>2, PTL DEF Spec

\* However the process fails or ends, the ROS runtime is not left open, every
\* time-out it waits for is finite, and no execution is stopped twice or
\* without MoveIt having accepted it (server.py, close of the adapter).
THEOREM NothingIsLeftOpen == Spec => []ServerInv
<1>1. ASSUME ProcessInv PROVE ServerInv
  <2> USE <1>1 DEF ProcessInv
  <2>1. ShutdownTypeOK
    BY DEF ShutdownTypeOK, StartInv, TaskInv, StopInv,
           BeforeServing, AfterServing
  <2>2. RuntimeIsNotLeft
    BY DEF RuntimeIsNotLeft, StartInv
  <2>3. WaitsAreFinite
    <3> SUFFICES ASSUME runtime = "open"
                 PROVE  /\ AdapterAccepts(enforced)
                        /\ ExecutionAccepted(enforced)
      BY DEF WaitsAreFinite, AdapterAccepts, ExecutionAccepted
    <3>1. enforced \in Judged
      BY DEF StartInv
    <3> QED
      BY <3>1, JudgedIsAccepted DEF Loadable
  <2>4. StopsAtMostOnce
    BY DEF StopsAtMostOnce, StopInv
  <2> QED
    BY <2>1, <2>2, <2>3, <2>4 DEF ServerInv
<1> QED
  BY <1>1, ProcessInvariant, PTL

\* The resources tell of the settings the service enforces, unless the file
\* was edited between the two loads (create_server).
THEOREM ResourcesTellTheTruth == Spec => []ToldUnlessEdited
<1>1. ProcessInv => ToldUnlessEdited
  BY DEF ProcessInv, StartInv, ToldUnlessEdited
<1> QED
  BY <1>1, ProcessInvariant, PTL

\* Whoever is on record when the process ends was stopped before the runtime
\* closed, whether the client had cancelled it or not (close).
THEOREM NobodyIsLeftMoving == Spec => []RecordedIsStopped
<1>1. ProcessInv => RecordedIsStopped
  BY DEF ProcessInv, StopInv, RecordedIsStopped
<1> QED
  BY <1>1, ProcessInvariant, PTL
=============================================================================
