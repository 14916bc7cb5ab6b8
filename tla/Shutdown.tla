------------------------------ MODULE Shutdown ------------------------------
(***************************************************************************)
(* The life of the server process (server.py), from its start, which is in *)
(* ServerStart, to its end: when the client closes its end, MCPServer.run  *)
(* returns, which cancels every task of the event loop and waits for its   *)
(* worker threads; then the adapter is closed, which asks for one stop of  *)
(* the execution it has on record and closes the ROS runtime.              *)
(*                                                                         *)
(* phase:  serving -> draining -> drained -> stopping -> closing -> dead   *)
(*                                                                         *)
(* Executions are the service's, one at a time; of each only what the      *)
(* adapter and MoveIt know is kept.  The thread that sends a goal is not   *)
(* stopped by the cancellation of the task that waits for it.              *)
(***************************************************************************)
EXTENDS ServerStart

CONSTANT MaxExec  \* bound: how many executions are ever started

ASSUME ShutdownAssumption == MaxExec \in Nat /\ None \notin Int

VARIABLES
  latest,    \* the execution started last (0: none)
  task,      \* its task: none, sending, waiting
  goal,      \* what became of each goal
  owner,     \* adapter._active_execution_id
  asked,     \* adapter._stop_requested
  published  \* how many stops were published for each execution

execVars == <<latest, task, goal, owner, asked, published>>
vars == <<startVars, execVars>>

\* What the process was started with.
settingVars == <<file, edited, enforced, advertised>>

Exec == 1..MaxExec

Publish(x) ==
  published' = [published EXCEPT ![x] = IF runtime = "open" THEN @ + 1 ELSE @]

-----------------------------------------------------------------------------
(* While the server runs. *)

\* A goal is handed to a thread, if execution is enabled at all.
Begin ==
  /\ phase = "serving" /\ enforced.enabled
  /\ task = "none" /\ owner = None
  /\ latest < MaxExec
  /\ latest' = latest + 1
  /\ task' = "sending"
  /\ goal' = [goal EXCEPT ![latest + 1] = "sent"]
  /\ UNCHANGED <<startVars, owner, asked, published>>

\* The thread has MoveIt's answer, whoever still waits for it.
Answered(x) ==
  /\ goal[x] = "sent"
  /\ \E g \in {"accepted", "rejected"} : goal' = [goal EXCEPT ![x] = g]
  /\ UNCHANGED <<startVars, latest, task, owner, asked, published>>

\* The motion of an accepted goal ends.
MotionEnds(x) ==
  /\ goal[x] = "accepted"
  /\ goal' = [goal EXCEPT ![x] = "ended"]
  /\ UNCHANGED <<startVars, latest, task, owner, asked, published>>

\* submit_execution goes on, and records what was accepted.
Submitted ==
  /\ phase = "serving"
  /\ task = "sending"
  /\ goal[latest] # "sent"
  /\ IF goal[latest] = "rejected"
     THEN task' = "none" /\ UNCHANGED owner
     ELSE task' = "waiting" /\ owner' = latest
  /\ UNCHANGED <<startVars, latest, goal, asked, published>>

\* request_execution_stop: runs on the event loop, without a pause.
RequestStop ==
  /\ phase = "serving"
  /\ task = "waiting"
  /\ latest = owner
  /\ latest \notin asked
  /\ asked' = asked \cup {latest}
  /\ Publish(latest)
  /\ UNCHANGED <<startVars, latest, task, goal, owner>>

OwnerAfterResult == None

\* The result is taken, and the record cleared.
ResultTaken ==
  /\ phase = "serving"
  /\ task = "waiting"
  /\ goal[latest] = "ended"
  /\ task' = "none"
  /\ owner' = OwnerAfterResult
  /\ asked' = asked \ {latest}
  /\ UNCHANGED <<startVars, latest, goal, published>>

-----------------------------------------------------------------------------
(* The end. *)

\* The transport ends; the event loop cancels its tasks.
EndOfInput ==
  /\ phase = "serving"
  /\ phase' = "draining"
  /\ task' = "none"
  /\ UNCHANGED <<settingVars, runtime, latest, goal, owner, asked, published>>

\* Mutant: motion is waited for, too.
JoinedAtRest == \A x \in Exec : goal[x] \notin {"sent", "accepted"}

Joined == \A x \in Exec : goal[x] # "sent"

\* Threads are waited for, their results dropped.
ThreadsEnd ==
  /\ phase = "draining"
  /\ Joined
  /\ phase' = "drained"
  /\ UNCHANGED <<settingVars, runtime, execVars>>

\* Mutants: any recorded execution is stopped once more; none is.
ShouldStopAgain == owner # None

ShouldStopNever == FALSE

\* should_stop.
ShouldStop == owner # None /\ owner \notin asked

\* close, under the lock.
Close ==
  /\ phase = "drained"
  /\ IF ShouldStop
     THEN phase' = "stopping" /\ asked' = asked \cup {owner}
     ELSE phase' = "closing" /\ UNCHANGED asked
  /\ UNCHANGED <<settingVars, runtime, latest, task, goal, owner, published>>

\* The stop is published; an error is swallowed.
CloseStops ==
  /\ phase = "stopping"
  /\ Publish(owner)
  /\ phase' = "closing"
  /\ UNCHANGED <<settingVars, runtime, latest, task, goal, owner, asked>>

CloseRuntime ==
  /\ phase = "closing"
  /\ runtime' = "closed"
  /\ phase' = "dead"
  /\ UNCHANGED <<settingVars, execVars>>

Init ==
  /\ StartInit
  /\ latest = 0
  /\ task = "none"
  /\ goal = [x \in Exec |-> "none"]
  /\ owner = None
  /\ asked = {}
  /\ published = [x \in Exec |-> 0]

Next ==
  \/ StartNext /\ UNCHANGED execVars
  \/ Begin \/ Submitted \/ RequestStop \/ ResultTaken
  \/ EndOfInput \/ ThreadsEnd \/ Close \/ CloseStops \/ CloseRuntime
  \/ \E x \in Exec : Answered(x) \/ MotionEnds(x)

\* Worker threads have timeouts, and main runs on to its end.
Fairness ==
  /\ WF_vars(\E x \in Exec : Answered(x))
  /\ WF_vars(ThreadsEnd \/ Close \/ CloseStops \/ CloseRuntime)

Spec == Init /\ [][Next]_vars
FairSpec == Spec /\ Fairness

-----------------------------------------------------------------------------
(* Properties. *)

ShutdownTypeOK ==
  /\ phase \in {"building", "assembling", "creating", "serving",
                "draining", "drained", "stopping", "closing", "dead"}
  /\ runtime \in {"none", "open", "closed"}
  /\ runtime = "none" <=> enforced = None
  /\ latest \in 0..MaxExec
  /\ task \in {"none", "sending", "waiting"}
  /\ goal \in [Exec -> {"none", "sent", "accepted", "rejected", "ended"}]
  /\ owner \in Exec \cup {None}
  /\ asked \subseteq Exec
  /\ published \in [Exec -> Nat]
  /\ phase = "serving" => (owner # None <=> task = "waiting")

\* However a cancellation and the shutdown meet, an execution is stopped at
\* most once, and never one that MoveIt did not accept.
StopsAtMostOnce ==
  \A x \in Exec :
    /\ published[x] <= 1
    /\ published[x] = 1 => goal[x] \in {"accepted", "ended"}

\* Once the server is gone, the execution it had on record has been asked to
\* stop, before the runtime closed.
RecordedIsStopped ==
  phase = "dead" /\ owner # None => published[owner] = 1

\* Once the client is gone, the process comes to its end.
ShutdownEnds == phase = "draining" ~> phase = "dead"

\* Whatever the configuration and whenever it fails, nothing is left open and
\* nothing waits for ever; and no execution is stopped twice.
ServerInv ==
  /\ ShutdownTypeOK
  /\ RuntimeIsNotLeft
  /\ WaitsAreFinite
  /\ StopsAtMostOnce
=============================================================================
