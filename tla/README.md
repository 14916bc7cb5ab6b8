# A formal model of ros2_manipulator_mcp

`ros2_manipulator_mcp` lets an MCP client plan and execute motions of a robot arm.
It is a layered Python program; what can go wrong in it over time is concentrated
in the application service, which owns plans and executions, and in the adapter,
which turns them into ROS 2 actions, services and topics. This directory models the
program in TLA+, from its tools to its conversions, checks it with TLC on small instances,
and proves with TLAPS what it checks of safety, for all instances.

Source paths below are relative to `src/ros2_manipulator_mcp/`.

## 1. Inventory

```
MCP client --stdio--> MCP server --> ManipulatorService --> ports --> JazzyManipulatorAdapter
                      (tools,         |  PlanRegistry                  |
                       resources,     |  ExecutionRegistry         JazzyRosRuntime --threads--> MoveIt
                       prompts)       |  SafetyEvaluator                                        (external)
```

There is one process and one event loop. Coroutines of the service interleave only
where they really suspend: at hand-overs to worker threads (`asyncio.to_thread`)
and at `asyncio.sleep`. The worker threads, the rclpy executor and MoveIt run beside
the loop.

| component | state | operations | what makes it correct |
|---|---|---|---|
| Plan registry, `application/plans.py` | entries in insertion order: available, reserved (owner, frozen lifetime) or consumed | store, get, discard, validation_context, reserve, release, consume | capacity; eviction of the oldest unreserved plan; a reserved plan is pinned; reservations neither lengthen nor shorten a life; one owner at a time |
| Execution records, `domain/execution.py` | state, failure, evidence of cancellation | transition, with_cancellation_status | endings are final; a request to cancel rules out success |
| Execution registry, `application/executions.py` | records in order of creation, the active slot | create, get, transition, update_cancellation_status, trimming | slot and records agree; only the oldest finished records are forgotten |
| Execution workflow, `application/service.py` | one task per execution, a quarantine flag | start, validate, submit, wait, classify, cancel, stop, quarantine | no reservation leaks; slot held exactly as long as the task; one stop; outcomes are earned; quarantine is final; every execution ends |
| Execution half of the adapter, `ros/jazzy/adapter.py` | active execution and handle, stops requested, a quarantine flag | submit_execution, wait_execution_result, request_execution_stop, quarantine, close | one goal at a time; agrees with the service |
| ROS runtime, `ros/jazzy/runtime.py` | clients, publishers, the executor thread | send_action_goal, wait_action_result, publish_message, call_service, read_message, close | bounded waits; what is sent is not lost sight of |
| Scene operations of the service | none of its own; the scene lives in MoveIt | apply_collision_object, remove_collision_object, get_planning_scene | no mutation under an execution; the policy is kept; replies are true |
| Planning operations of the service | none of its own; plans are stored in the registry | plan_motion, compute_cartesian_path, validate, discard | a plan reaches its own goal; nothing gets past the policy |
| Safety policy, `safety/` | none (a policy) | evaluate_* | every limit in its branch |
| Planning, kinematics and scene calls of the adapter, `ros/jazzy/conversions.py` | none | conversion around single service calls | conversions keep meaning, fractions and widths; failures stay failures |
| Domain values, `domain/` | none | validation | reject malformed values |
| MCP tools and resources, `mcp/` | none | 22 tools, 11 resources | answers are about what was asked, and current |
| MCP prompts and instructions | none | constant text | |
| Configuration and server, `config/`, `server.py` | the settings, loaded twice | load, compose, serve, close | whatever fails, nothing is left open |
| Profiles, ports | none | a constant descriptor, protocol classes | |

How the parts interact: a tool call becomes one call of the service. `execute_motion_plan`
creates a record, reserves the plan under the record's identifier and starts a task. The
task reads state and scene through the adapter, submits the goal through a worker thread,
consumes the reservation when the goal is accepted, polls for the terminal result in waits
of at most 0.1 s, and classifies it. `cancel_execution` works on the same record from
another coroutine: it is latched while the goal is on its way, and otherwise publishes one
message on MoveIt's global stop topic. A stop that cannot be trusted puts service and
adapter in quarantine until the process restarts. Planning tools read the scene's revision,
ask MoveIt, and store what it answers; execution compares the revision with the scene's.
Scene tools judge an object against a snapshot, write, and read back. Every call to ROS but
the stop is made by a worker thread of one pool.

What is hard: cancellation arriving at every suspension of the task; a goal accepted after
everybody stopped waiting; a stop topic that names no goal; messages that are lost; errors
raised while waiting; two registries, an adapter and a remote server that must agree on who
owns the robot; limits and lifetimes that interact with reservations; a scene that is judged
in one call and written in the next, while plans and executions depend on it; deadlines of
several layers on one clock; conversions between two accounts of where things are. Nothing is persisted,
so there is no crash recovery; a restart begins from the initial state. The complete list,
each at its line, is `hazards` in `PROJECT.json`.

## 2. Modules

| module | models | notes |
|---|---|---|
| `Identifiers` | plan and execution identifiers | named in order of issue, which is the order of both `OrderedDict`s |
| `PlanRegistry` | `PlanRegistry` | every operation an action; `lived` is a history variable: how long each plan has been unreserved |
| `ExecutionRegistry` | `ExecutionRecord`, `ExecutionRegistry` | operators on the value of the records, so that a caller may do several in one step |
| `ExecutionBackend` | the adapter's execution half, the sending thread, and MoveIt (external) | MoveIt is modelled from what the adapter relies on; `published` is a history variable |
| `ExecutionWorkflow` | the service's execution workflow, composed with the three above | one action per stretch of code between suspensions |
| `ExecutionContract` | nothing: the abstract promise to clients | implemented by `ExecutionWorkflow` (`KeepsContract`) |
| `EventLoop` | what the next three share | how late a ready coroutine may go on |
| `TerminalWait` | `calculate_execution_timeout`, `_wait_for_execution_terminal` | polling under two deadlines, on a clock |
| `Stabilization` | `_wait_for_state_stabilization` | sampling of joint states, on a clock; `disturbed` is a history variable |
| `RosCalls` | `call_service`, `read_message` of the runtime, its clients and the pool of threads | `busy` and `taken` are history variables |
| `Waits` | the three above, observed one at a time | they are made one after the other and share no state |
| `ServerStart` | the two loads of the settings, and the composition of the server | what each layer accepts, one predicate each |
| `Shutdown` | `ServerStart`, then executions, the end of the event loop, `close` of adapter and runtime | the life of the process |
| `SafetyPolicy` | `SafetyPolicy`, `SafetyEvaluator` | pure; findings are sets of codes |
| `SceneGuard` | scene operations of the service beside planning and executions | extends `SafetyPolicy` |
| `DomainValues` | what the constructors of `domain/` accept | pure |
| `Conversions` | `ros/jazzy/conversions.py` | pure; extends `DomainValues` |
| `TrajectoryWire`, `SceneWire` | trajectories from planner to executor; objects to MoveIt and back | `truth` in `SceneWire` is a history variable, computed with matrices and not with quaternions; `Turn` is the set of the rotations that occur |
| `AdapterCalls` | the requests and answers of the adapter's service calls | pure; extends `Conversions` |
| `PlanningTools` | the planning tools, from their arguments to stored plans | composes `PlanRegistry`, `SafetyPolicy` and `AdapterCalls` |
| `QueryTools` | the reading tools and resources | extends `AdapterCalls`; `course` (where the robot has been at each instant), `span` and `shown` are history variables |
| `MC*` | instances for TLC | numbers are in the `.cfg` files |
| `PlanRegistryProofs` | theorems about `PlanRegistry` | |
| `ExecutionWorkflowProofs` | about `ExecutionRegistry`, and about who owns what in `ExecutionWorkflow` | |
| `ExecutionOutcomeProofs` | about what becomes of executions, and the refinement of `ExecutionContract` | builds on the one before |
| `SceneGuardProofs`, `ShutdownProofs`, `WaitsProofs`, `PlanningToolsProofs` | about the modules they are named for | `ShutdownProofs` covers `ServerStart`, `WaitsProofs` the three modules of `Waits` |
| `ConversionsProofs` | about `QueryTools`, `TrajectoryWire` and `SceneWire` | |

State and code of the workflow: `plans` is `_entries`, `records` is `_records`, `active` is
`_active_execution_id`, `adapterActive`, `stopRequested` and `adapterQuarantined` are the
adapter's three fields, `quarantined` is the service's flag. `pc[x]` says where the task of
execution `x` is suspended, and `suspect[x]` is its local list of findings, empty or not.
`sending[x]` is how far the worker thread in `_send_action_goal_blocking` has come, `goal[x]`
what MoveIt holds of the goal, and `stops` the messages under way on the stop topic.

| suspended at | in the code |
|---|---|
| `validating` | the task created but not yet run (`asyncio.create_task`) |
| `reading_state`, `reading_scene` | the two awaited reads of `validate_execution` |
| `submitting` | `await submit_execution` |
| `waiting` | `_wait_for_execution_terminal` |
| `stabilizing` | `_wait_for_state_stabilization` |

`describe_manipulator` and `request_execution_stop` are coroutines that never suspend in
this adapter, so they are part of the step that calls them.

In the other modules `pc[c]` says what a client's call is waiting for; a call is served at one
moment, by an action of MoveIt's, and goes on at a later one.

Abstractions worth knowing:

- In the workflow, contents are abstracted: a plan has no trajectory, a state or a scene is
  good or bad, and the policy's verdict is a free choice. No operation of the registries looks
  at them. `PlanningTools` and `SceneGuard` have the contents, and executions that only take
  the slot, reserve a plan and consume it.
- In the workflow, bounded waits may end without their answer at any time, which covers every
  value of the timeouts. How long they take is in `TerminalWait`, `Stabilization` and
  `RosCalls`, each on a clock of its own; the workflow is not composed with them.
- Identifiers are never issued twice. The code draws 18 random bytes and checks only against
  what is stored.
- `ttl_seconds = None` (plans that never expire) is left out; it only removes behaviour.
- Every terminal result of MoveIt is one of four pairs of status and error code; the
  adapter's `Outcome` tells three apart.
- The faults of the environment are a constant (`Faults`), so that a run can say which of
  them a property survives: a goal accepted late, an error of ROS while waiting, a lost stop.
- A message of the robot's state is of any instant there has been, and its stamp is by the robot's
  clock, which may be ahead of the adapter's or behind (`Skew`). The adapter takes a sample of
  any age that is not negative (`ros/jazzy/adapter.py:205`), so nothing in `QueryTools` makes it
  recent. What MoveIt itself takes for the present state, when it computes kinematics or judges
  validity, is the robot's.
- Floats are exact. Quantities are whole multiples of some unit (`One` stands for 1.0), seconds
  of conversions are halves of a nanosecond, so that rounding has its ties; an infinity or a
  NaN is `NotFinite`. What rounding does to sums, norms and comparisons is not modelled.
- A scene is its set of objects, and its revision is the scene itself: the code's is a hash of
  the content, and collisions of the hash are left out.
- Names are sequences of segments, so that a policy's prefix is a prefix.
- What is `external` in the map is MoveIt, other ROS nodes and whoever edits the
  configuration: they do what the code under `src/` has to reckon with, and no more is assumed
  than a success code of the planner meaning that its trajectory ends where it was asked to.

## 3. What the runs check

| run | question | result |
|---|---|---|
| `registries` | do callers in any order keep capacity, eviction order and lifetimes of plans, and slot, records and history of executions in step? | holds |
| `workflow_faults` | what does the workflow guarantee whatever the environment does? | holds |
| `workflow_trusted` | who owns motion, plans, stops and the adapter if only stops are lost; does the workflow keep `ExecutionContract`, and does every execution end? | holds |
| `workflow_late_acceptance` | is a plan executed once even if MoveIt accepts a goal late? | violated |
| `workflow_wait_error` | is motion owned even if ROS raises while waiting? | violated |
| `scene_guard` | is motion made in the scene its plan names, are replies true, and is the policy kept? | holds |
| `scene_frozen` | is the scene never changed while an execution is active? | violated |
| `waits` | do the waits end in time, and is nothing given up that was in time? | holds |
| `server_process` | is nothing left open, whatever fails at the start, and is what moves stopped at the end? | holds |
| `wires` | do trajectories and objects survive their conversions; are answers of the reading tools about what was asked, and was it so when they say? | holds |
| `planning_tools` | does each success have its own plan, to its own goal, within the policy? | holds |
| `planning_escapes` | does every failure of a planning tool have a code? | violated |

`registries`, `waits` and `wires` each look at components that share no state, one at a time:
while one is used the others are at their beginning or over, so that their states add up and
do not multiply. A property that a run checks is often a conjunction of named parts (`PlanInv`,
`ExecInv`, `WorkflowInv`, `SceneInv`, `WaitsInv`, `ServerInv`, `QueryInv` and others); the
parts are what the text below names.

**Registries.** `PlanInv` is the types of the plan registry and `LifetimeConserved`, `ExecInv` those
of the execution registry and `SlotIsTheLiveRecord`. Beside them: capacity (`CapacityHeld`),
history (`HistoryIsRecent`), cancellation and success exclude each other
(`CancellationIsNotSuccess`), and what a step may not do to a reserved, a granted, a stored or a
finished entry (`PinnedWhileReserved`, `GrantsAreFresh`, `EvictsTheOldest`, `OutcomeIsFinal`).

**Workflow.** Under all faults (`workflow_faults`): reservations are owned
(`ReservationOwned`) and the slot follows the task (`SlotFollowsTask`), both in `WorkflowInv`;
an accepted plan is spent
(`AcceptedPlanIsSpent`), reported outcomes really happened (`OutcomeIsEarned`), at most one
stop is published and the two accounts of it agree (`StopsOnce`), the two quarantine flags
agree and no goal is sent after quarantine (`QuarantinesAgree` and `QuarantineIsFinal`, in
`QuarantineHolds`). Only
without late acceptance and errors of the wait (`workflow_trusted`): a stop in flight can hit
only its own goal (`StopHitsItsOwner`), executing goals are owned (`MotionIsOwned`), a plan
runs once (`PlanRunsOnce`), ambiguity quarantines (`AmbiguityQuarantines`) and the adapter is
free when the service is (`AdapterFollowsSlot`).

**Waits** (`WaitsInv`, `NothingInTimeIsGivenUp`, `QuietForWindow`, `WaitsEnd`). A wait for a result is over by the maximum, and by the cancellation timeout after
the request was seen, plus one poll and the loop's lag (`EndsInTime`); a motion that ended
within its allowance is not reported as timed out (`NoFalseTimeout`, `CancelledInTime`), which
supposes that the action server answers within one poll (`MaxDelay < Poll`, in
`TimingAssumption`): a slower server is polled in vain for ever, and reported as timed out. A
stop is confirmed only after a quiet window (`QuietForWindow`), a robot at rest is
recognised (`NoFalseAlarm`), and the answer comes at most one read after the deadline
(`AnswersInTime`). Clients of services are shared (`ClientsAreShared`), a worker is freed
within two time-outs (`WorkersAreFreed`), and a slow discovery does not shorten the wait for
the answer (`AnswersAreAwaited`).

**Scene.** Replies tell what was written (`RepliesAreTrue`, in `SceneInv`). `MotionInItsScene` has an exception that the code has, too: what was on its way when
the execution took the slot (`exposed`), which includes writes whose callers had given up.
Policy and replacement are promised to a client that is alone (`PolicyHoldsAlone`,
`NoSilentReplacementAlone`, together `PolicyKept`): two clients judged
against one snapshot get past both (`application/service.py:896`: the snapshot is read and judged
before the write is awaited). No run shows that race, and no property bounds its effect.

**Process** (`ServerInv`, `ToldUnlessEdited`, `RecordedIsStopped`, `ShutdownEnds`). A configuration that the adapter or the service would refuse is refused before the
ROS runtime is opened (`RuntimeIsNotLeft`), although the settings are judged by three
constructors and a loader; an infinite service time-out gets past the loader, and only the
adapter's settings keep it out (`WaitsAreFinite`). The execution on record at the end is
stopped once (`RecordedIsStopped`, `StopsAtMostOnce`).

**Conversions and tools.** What is sent is what was planned, in normal form
(`TrajectoriesSurvive`), and objects are read whole and in place (`ScenesAreRead`). `ReadWhereItIs` compares composed poses with rotation matrices,
for turns that do not commute. Plans reach the goals of their own requests, and nobody is told of
another's (`PlansServeTheirRequests`): `PlansReachTheirGoals` joins constraints, codes and conversions
of both directions: a stored trajectory ends at the goal of its own request.
`PlansStayApproved` and `PathsAreComplete` say that nothing is stored or reported that the
policy forbids (together `PolicyIsKept`), `StoredIsTold` that a plan is stored exactly if its
caller is told, and carries the request and the revision of that very call, although the scene
is read by several. `ReadingsAreDated`, `KinematicsAnswers` and `ScenesWereThere` (in `QueryInv`)
hold the reading tools to what was so: a state is one the robot was in, all joints at once,
under the date and the age of its own message; a pose is of one posture, although it is
computed in a second call; what MoveIt fills in, scenes and objects are of the time of the
call. States are asked about in full, in part, with a joint named twice, or not at all. Nothing
says that a state or a pose is recent: a sample of any age is taken, and the pose is
reported without date or age. Only the workflow refuses samples that are too old
(`application/service.py:438`).

### Findings

The four runs that are expected to fail show where the code departs from its documents.

1. *Late acceptance* (`ros/jazzy/runtime.py:269`). When the wait for acceptance times out the
   pending request is neither withdrawn nor watched. The plan is released; MoveIt may accept
   the goal afterwards, and a client that retries has the plan executed twice.
   `docs/README_PHASE_14.md:227`: "Plans are single-use for execution."; line 392 plans
   "cancel if a late accepted handle appears".
2. *Errors of the wait* (`application/service.py:659`). An error that is not a timeout ends
   the execution as failed, without stop and without quarantine, while MoveIt may still be
   executing. `docs/README_PHASE_17.md:49`: "The execution slot remains owned until the causal
   terminal result and required post-stop observation." The adapter keeps the execution on
   record, so all later submissions are refused. The same branch ignores that a cancellation
   was requested, although "Ambiguous cancellation also quarantines."
   (`docs/README_PHASE_21.md:93`): with `wait_error` among the faults `AmbiguityQuarantines`
   fails, too.
3. *Scene under execution* (`application/service.py:906`). A mutation looks at the slot a last
   time before it awaits its write; the write may land when an execution has started and read
   the scene. `docs/README_PHASE_17.md:12`: "Scene mutation remains blocked during that
   interval."
4. *Failures without a code* (`application/service.py:217`, `:239`). The `PlanningRequest` is
   built outside of the tool's `try`; numbers it refuses, such as a velocity scaling above one,
   raise a `ValueError` out of the tool. `docs/README_PHASE_7.md:60`: "Domain/application
   failures set `success=false`, `status="error"`, a stable domain error code", and "Python
   exception objects never enter results."
   There is a second way out, the `RuntimeError` of `store` when every slot is reserved
   (`application/plans.py:90`), and no third (`EscapesAreTheKnownOnes`). It takes a registry of
   one slot, as `planning_tools` has: only the plan of the active execution is reserved
   (`StoreFindsRoom`), and `server.py:81` builds a registry of 32.

### Bounds

| constant | values | why enough |
|---|---|---|
| `MaxPlans` | 2; 1 in `planning_tools` | eviction with a choice of victim, one slot reserved and one free, all slots reserved; with one slot, every plan meets a full registry |
| `MaxIssue` | 4, 3 or 2 | in the registry alone, plans are evicted twice; in the tools, two callers and an eviction; in the workflow, two plans to mix up |
| `MaxExec` | 2 or 3; 1 in `planning_tools` | the properties relate at most two executions; a third sees what two left behind |
| `TTL`, `MaxTime` | 2, 5 in `registries`; else 1 and 1 or 0 | in the registry alone, a plan's expiry can pass before, during and after each of several reservations; elsewhere, a plan can expire before it is reserved or after it is released; no property of `workflow_trusted` is about expiry |
| `MaxTerminal` | 1 to 3 | 1: the history is trimmed; 2 or 3: nothing is forgotten, so that properties of past executions see them |
| `Faults` | see above | |
| `Client` | 2; 1 in `wires` | the reading calls have no state in common |
| `Revision` | 2 | calls that have read different scenes |
| `MaxTime`, `Skew` in `wires` | 2; 0 and 1 | a message from before the call, and one that is stamped in the future; robot and call can both go on between the two calls of a pose |
| `MaxLate` | 1 | one overdue write under one execution |
| objects in `scene_guard` | three that fit the policy, a second size of one, two that do not fit, a mesh | the limit of two is reached; each check has something to refuse |
| `Durations`, `Maximum` | 0 to 6, 11 | scaled durations below and above the maximum |
| `Poll`, `MaxDelay`, `CancelTimeout`, `Lag` | 3, 1, 4, 1 | several polls within each deadline, deadlines within a poll, answers between polls |
| `Patience`, `Window`, `Sleep`, `ReadTime` | 16, 3, 1, 1 | several windows within the wait; readings of two joints, from a jump to a creep |
| calls in `waits` | 3, of one service and one topic, over 2 workers | one waits for a worker, two for the lock |
| configurations | two good ones, and every one wrong in one place | judgements of single values |
| `Giga` | 4 | all fractions of a second, and the carry |
| `One`, `Turn` in `SceneWire` | 2, all 24 unit quaternions of that scale | the turns of a tetrahedron, in whole numbers; closed under products, and not commuting |
| `Reach` | 1 | three positions on each axis |

`MaxIssue`, `MaxExec`, `MaxTime`, `MaxLate` and `Reach` bound what the code does not bound; the
others are parameters or data of the code. `CHECK_DEADLOCK FALSE` stands where all that is
modelled comes to an end: calls that were made, waits that are over, processes that are gone.
`Lookup` is always enabled in the registry and the workflow, so TLC's deadlock check says
nothing there; that nobody waits for ever is `ExecutionEnds`.

### Fairness

In the workflow, `FairSpec` has weak fairness on `RunExecution(x)`, for each task, and on
`SendThread(x)`, for each sending thread: the event loop runs what is ready, and every wait of
a task or thread is bounded by a timeout of the code (`wait_for_server`, the acceptance wait,
the polling loop's deadlines, the stabilization deadline). MoveIt, clients and the clock of
plans owe nothing, so executions end even if MoveIt never answers. Errors of the wait are left
out of the run: an error is an alternative of `RunExecution`, and fairness must not be what
brings it about.

In `waits`, time passes and what is due is done: the polling loop's turns and the end of a
poll, the observation's turns, sleeps and the end of a read (which has a time-out), and the
steps of worker threads. Results arrive only within what was assumed of the action server;
MoveIt's services and topics owe no answer. In `server_process`, a thread that sends a goal
comes to its end (its waits have time-outs) and `main` goes on.

## 4. What is proved

TLAPS proves the following for every value of the constants that satisfies the named
assumptions of the modules. They say of the numbers what the constructors of the code enforce
(capacities, lifetimes, scales and polls are positive, other bounds natural), that `None` is
none of the values it stands beside, that arrays are sequences, and of the policy what
`SafetyPolicy.__post_init__` demands. Some say more:

- `TimingAssumption` has the action server answer within a poll (`MaxDelay < Poll`); a slower one
  is reported as timed out, as section 3 says.
- `SceneWireAssumption` has a set of turns that contains the identity, is closed under
  composition, and on which whole numbers are exact: it stands for exact arithmetic, which the
  code's floats only approximate.
- `TrajectoryAssumption` and `QueryAssumption` describe messages as ROS generates them, and a robot
  whose joints have different names and whose clock is off by any times, of either sign.
- `PlanningAssumption` has the limits of the policy and the numbers of requests in the scale of
  the model, and revisions that are names.

Every inductive invariant below was checked by TLC on the instances of the runs before it was
proved. Each safety property of a passing run is a theorem but one (`PolicyKept`); what is left to TLC is listed at the end.

**`PlanRegistryProofs`**: every property of plans that `registries` checks. The type invariant is
inductive by itself: entries have the shape of their state. `LifetimeConserved` is
inductive together with the type invariant, because a reservation freezes exactly what the
history variable says is left: an entry that survives the purge has some life left, so the
`max(0, ...)` of the code never cuts anything off. `CapacityHeld` rests on facts about
cardinalities: making room removes one stored plan, and there is one to remove unless every slot
is reserved. That the victim is the oldest rests on every nonempty set of naturals having a least
member. The action properties follow from the type invariant, one operation at a time.

**`ExecutionWorkflowProofs`**, the registry of executions: types, `SlotIsTheLiveRecord`,
`HistoryIsRecent`, `CancellationIsNotSuccess` and `OutcomeIsFinal`. The lemma the rest stands on
is what a transition makes of each record (`MovedEach`): the record that moves changes as the
table says or is trimmed, and any other stays or, being finished, is trimmed.
`CancellationIsNotSuccess` alone is not inductive: from a state such as `running` it says nothing
about an earlier request, so `AskedIsKept` adds that the states from which success is reachable
were never asked to cancel.

The same module, the workflow: `WorkflowInv`, the conjunction of `TypeOK`, `SlotFollowsTask`,
`ReservationOwned` and `Planned` (a record that exists names a plan), is inductive. No conjunct is
by itself: that the slot follows the task needs transitions to be legal, which needs the state to
fit the suspension point; that reservations are owned needs the slot to exclude a second task
before acceptance. The proof has one lemma per action. Two things follow that TLC's runs
only suggest: the branch in which consumption fails after acceptance is unreachable
(`AcceptedStep`), and the workflow refines `PlanRegistry` (`WorkflowIsPlanSpec`), so that all
theorems about the registry hold in the composed system (`WorkflowConservesLifetime` is one).
That at most one plan is reserved, the one of the slot's owner, gives `StoreFindsRoom`.
Quarantine: the two flags change together (`QuarantinesAlwaysAgree`); `QuarantineFinal` needs two
more invariants, that in quarantine no task is before acceptance (`Barred`, because only the
active execution quarantines, and only after acceptance), and that a thread is under way with a
goal only while its task waits for the answer (`SendingSubmits`).

**`ExecutionOutcomeProofs`**: all other properties of `workflow_faults` and `workflow_trusted`. They
speak of how an execution ends, and none is inductive, because the end depends on what
service, adapter and MoveIt hold at each stage before. `CausalInv` says it: `Course(x)` what is on
record while the task is suspended at each point (nothing before the goal is sent, no
request at the adapter while the answer is awaited, the two accounts of the stop alike while
the result is), `GoalFollows(x)` what MoveIt can hold by what became of sending, and `Causal(x)`
whom a stop on its way can hit: while an accepted goal is executing, no other execution's stop is
under way and no other task is past its checks. `PlansSpent` and `NewestIsActive` link
executions to plans and to the order of issue. What holds under every fault is proved from
`CausalInv` without hypothesis (`AcceptedPlansAreSpent`, `OutcomesAreEarned`, `OneStopEach`). The
others name the fault they cannot bear, and no more:

| theorem | hypothesis |
|---|---|
| `StopsHitTheirOwners`, `PlansRunOnce` | no late acceptance |
| `AmbiguityIsQuarantined`, `AdapterFollows` | no error of the wait |
| `MotionsAreOwned` | neither |

Run `workflow_late_acceptance` shows the hypothesis of `PlansRunOnce` needed, and
`workflow_wait_error` that of `MotionsAreOwned`. Of the five properties only `MotionIsOwned`
needs all that `workflow_trusted` leaves out.

`WorkflowKeepsContract` is the safety part of the refinement of `ExecutionContract`: the initial
state maps to its initial state, and each step, one lemma per action, to one of its steps or to a
stutter. It is where `CancellationIsNotSuccess`, the legality of transitions and the order of
evidence are used together.

**`SceneGuardProofs`**: for any number of clients, objects and overdue writes. Replies are true
(`RepliesAlwaysTrue`) by what is known where a call stands (`Known`: nothing is written before it is
served, a call that landed was). `MotionInItsScene` needs `Guarded`: while an execution holds the
slot, no write is under way or overdue that was not when it took the slot, and what
validation read is the plan's scene unless it was exposed. `ObjectsAreFit`: no object the policy
forbids is ever in the scene if other nodes put none there, however many clients race, because
fitness is judged of the object alone. The rest of the policy (the number of objects, replacement
on request only) is judged of a snapshot; `OneClientKeepsPolicy` proves it for a client that is
alone, with no other node writing and no overdue write, where the snapshot cannot be stale.

**`ShutdownProofs`**: `ProcessInv` relates the phase of `main`, the runtime, the task, the
executions and the stops, and all safety properties of `server_process` follow from it. Of the
configurations only the relation between the three judgements is used (`JudgedIsAccepted`: what
loader and adapter accept, the service accepts), which is why nothing is opened that is
refused later.

**`WaitsProofs`**: all safety properties of `waits`, for every time-out, lag, delay, reading, and
any number of services, calls and workers. `WaitsProper` has a part for each wait: where the clock
can be in each stage between the two deadlines (`WaitBounds`), what has been seen since the window
began (`Observed`), and for calls what each has spent so far by where it stands (`Spent`), with
at most one call in each worker and behind each lock (`Placed`, `WorkersBounded`). That
workers are freed within two time-outs is arithmetic on `Spent`: discovery and answer each have
one of their own, and looking up a client takes no time.

**`PlanningToolsProofs`**: every safety property of `planning_tools`. `PlanningInv` carries what was
judged at three moments from one to the next: a request that was sound when it was made
belongs to the call that waits, an answer that ends at the goal of its message ends at the goal of
the request the message was made of (`ReadAsSent`, `PlanArrives`), and what was stored stays as
it was. `ToolsArePlanSpec` shows that the tools, with executions beside them, refine
`PlanRegistry`, so its theorems hold here, too (`ToolsConserveLifetime` is one).
`EscapesAreTheKnownOnes` says that finding 5 has no other causes.

**`ConversionsProofs`**: the reading tools answer truly (`ReadersAnswerTruly`), by `ReadingInv`: a call
carries a state the robot was in at one instant, with that instant's date by the robot's clock and
the age it had at an instant of the call, however old that is (`Dated`). Trajectories are sent as planned
(`TrajectoriesAreSentAsPlanned`): `WholeNanoseconds` says that a duration that was read has no
fraction of a nanosecond, so that the rounding on the way out changes nothing, and the carry
keeps the form normal, for every `Giga`. Scenes are read in place (`ScenesAreReadInPlace`), and what
is read can be applied again (`WhatIsReadCanBeApplied`). This is algebra: `TurnsCompose` shows that
the rotation matrix of a product of quaternions is the product of their matrices, first as
polynomials in the eight coordinates (`MatrixIs`, `ProductIs`), then with the divisions by `One`,
which are exact for the turns of the assumption (`Quotient`); composition of poses
follows (`ComposedIs`). Swapped factors or a conjugated turn would break it.

**Only model-checked.**

- `PolicyKept` in the form `scene_guard` checks it, where the second client of the instance stays
  idle. The theorem for one client, any objects and any policy is `OneClientKeepsPolicy`.
- Liveness, which TLAPS 1.4.5 cannot do: `ExecutionEnds`, `WaitsEnd` (its parts `WaitEnds`,
  `StabilizationEnds`, `EveryCallEnds`), `ShutdownEnds`, and the fairness part of `KeepsContract`.
- That the hypotheses above are needed, which the runs that are expected to fail show.

## 5. Not modelled

- MCP prompts and instructions, the descriptor of the robot and the protocol classes of the
  ports: constant, or without code.
- How results are laid out as JSON, how TOML is parsed and which file is chosen.
- The resource `manipulator://overview`, which is constant, and the ones for plans and
  executions beyond the look-up they make.
- `planning_duration`, and the multi-DOF part of a trajectory message, which
  `from_trajectory_message` drops.
- Rounding of floats other than of durations. Each factor of a product of quaternions may be
  off the unit norm by the tolerance, and their product by twice that, so that a readable pose
  and a readable primitive pose can make an object that is not; in exact numbers this does not
  happen.
- What a scene has besides objects: attached objects and the allowed collision matrix are not
  in the revision, and no code reads them. In which scene MoveIt planned: `plan_motion`
  reads the revision first, and MoveIt may see a later scene.
- The frame of the workspace bounds, which the code compares with coordinates in the frame of
  the goal, whichever that is.
- Planning times against the time-out of the planning service: the policy allows more than
  the service is waited for.
- Delivery of the stop at shutdown; and a goal under submission when the client goes away,
  which MoveIt accepts on nobody's record, is modelled in `Shutdown` but under no property,
  as nothing stops it.
- Cancellation of a task from outside while the server runs: no tool awaits
  `execute_motion_plan`.
- The pool of worker threads under polls and samples: `runtime.py:152` and `:190` queue in the same
  pool as every call, so a full pool delays the polls of an execution and the samples after a
  stop, and their deadlines with them. `RosCalls` shows that a worker is free within two time-outs;
  `TerminalWait` and `Stabilization` have one at once.
- How old a reading may be (see `QueryTools` in section 2), and in which scene the
  writes of two clients meet: `PolicyKept` is about one client that is alone.
- The composition of the workflow with the clocks of its waits; it would multiply their states.

## 6. Plan

Done: the modules of section 2, and the proofs of section 4. Next:

1. The policy: what is allowed stays allowed under a wider policy; a plan that was stored
   validates for as long as it is stored, as an action property.
2. Several clients that take turns keep the policy (`OneClientKeepsPolicy` for any number of
   clients with one call under way), which would state `PolicyKept` as it is checked.
3. Conversions of durations that are not in normal form, and goals converted and read back, as
   lemmas for every value.
4. A theorem for `workflow_wait_error`: what holds of owned motion after an error of the wait.
