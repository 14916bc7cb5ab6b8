---------------------------- MODULE TerminalWait ----------------------------
(***************************************************************************)
(* How long an execution is waited for: calculate_execution_timeout        *)
(* (application/executions.py) and the polling loop of                     *)
(* ManipulatorService._wait_for_execution_terminal, on a discrete clock    *)
(* that starts with the wait.                                              *)
(*                                                                         *)
(* Each turn of the loop looks at the record, computes what is left of the *)
(* active deadline and asks the adapter for the result for at most Poll.   *)
(* Every poll makes a request of its own; its answer comes up to MaxDelay  *)
(* after both the request and the end of the motion, and an answer to an   *)
(* abandoned poll is lost.  The event loop may run a ready coroutine up to *)
(* Lag late.  Motion may end, and a client may cancel, at any time.        *)
(***************************************************************************)
EXTENDS Integers, EventLoop

CONSTANTS
  Durations,      \* planned durations that occur
  Multiplier, Margin, Maximum,   \* execution_timeout_*
  CancelTimeout,  \* cancellation_timeout_seconds
  Poll,           \* 0.1 seconds
  MaxDelay        \* bound: the slowest answer of the action server

ASSUME TimingAssumption ==
  /\ Durations \subseteq Nat /\ Durations # {}
  /\ Margin \in Nat /\ MaxDelay \in Nat /\ Lag \in Nat
  /\ {Multiplier, Maximum, CancelTimeout, Poll} \subseteq Nat \ {0}
  /\ MaxDelay < Poll
  /\ MaxDelay < CancelTimeout
  /\ None \notin Int /\ None \notin {"result", "timeout", "error"}

VARIABLES
  now,
  duration,        \* the planned duration of the motion
  cancelling,      \* is the record CANCELLING?  since when? (or None)
  cancelDeadline,  \* cancellation_deadline
  stage,           \* top of the loop, polling, or done
  since,           \* when the stage began
  pollEnd,         \* when the poll in progress gives up
  finish,          \* when MoveIt ended the goal
  reply            \* the outcome: result, timeout, error

waitVars == <<now, duration, cancelling, cancelDeadline, stage, since,
              pollEnd, finish, reply>>

Least(a, b) == IF a <= b THEN a ELSE b
Latest(a, b) == IF a >= b THEN a ELSE b

\* Mutant: the planned duration is not scaled.
NormalTimeoutUnscaled(d) == Least(d + Margin, Maximum)

\* calculate_execution_timeout.
NormalTimeout(d) == Least(d * Multiplier + Margin, Maximum)

\* Mutant: the second deadline is renewed at each look.
CancelDeadlineRenewed ==
  IF cancelling # None THEN now + CancelTimeout ELSE cancelDeadline

\* The first time the loop finds the record CANCELLING, a second deadline is
\* set; it is never moved.
CancelDeadline ==
  IF cancelling # None /\ cancelDeadline = None
  THEN now + CancelTimeout ELSE cancelDeadline

\* The earlier of the two deadlines.
ActiveDeadline(cancel) ==
  IF cancel = None THEN NormalTimeout(duration)
  ELSE Least(NormalTimeout(duration), cancel)

-----------------------------------------------------------------------------
\* No poll outlasts the deadline.
PollFor(remaining) == Least(Poll, remaining)

\* One turn of the loop up to its wait.
Top ==
  /\ stage = "top"
  /\ cancelDeadline' = CancelDeadline
  /\ since' = now
  /\ LET remaining == ActiveDeadline(CancelDeadline) - now IN
     IF remaining <= 0
     THEN stage' = "done" /\ reply' = "timeout" /\ UNCHANGED pollEnd
     ELSE /\ stage' = "polling"
          /\ pollEnd' = now + PollFor(remaining)
          /\ UNCHANGED reply
  /\ UNCHANGED <<now, duration, cancelling, finish>>

\* When the poll in progress has its answer at the latest.
AnswerDue == Latest(finish, since) + MaxDelay

Done(r) == stage' = "done" /\ reply' = r

\* The result arrives.
ResultArrives ==
  /\ stage = "polling"
  /\ finish # None
  /\ Done("result")
  /\ UNCHANGED <<now, duration, cancelling, cancelDeadline, since, pollEnd,
                 finish>>

\* ROS fails, or the adapter does not know the execution.
WaitFails ==
  /\ stage = "polling"
  /\ Done("error")
  /\ UNCHANGED <<now, duration, cancelling, cancelDeadline, since, pollEnd,
                 finish>>

\* Mutants: the timeout of one poll is taken for that of the whole wait; the
\* loop is not turned, and waits on.
AfterPollGivingUp == Done("timeout")

AfterPollWaitingOn == UNCHANGED <<stage, reply>>

\* Only a timeout turns the loop again.
AfterPoll == stage' = "top" /\ UNCHANGED reply

PollTimesOut ==
  /\ stage = "polling"
  /\ now >= pollEnd
  /\ finish # None => AnswerDue >= pollEnd
  /\ AfterPoll
  /\ since' = now
  /\ UNCHANGED <<now, duration, cancelling, cancelDeadline, pollEnd, finish>>

\* A client cancels: the record becomes CANCELLING.
Cancel ==
  /\ stage # "done"
  /\ cancelling = None
  /\ cancelling' = now
  /\ UNCHANGED <<now, duration, cancelDeadline, stage, since, pollEnd,
                 finish, reply>>

\* The motion ends, one way or another.
MotionEnds ==
  /\ stage # "done"
  /\ finish = None
  /\ finish' = now
  /\ UNCHANGED <<now, duration, cancelling, cancelDeadline, stage, since,
                 pollEnd, reply>>

\* Time passes, but not over what happens promptly.
WaitTick ==
  /\ stage # "done"
  /\ stage = "top" => now < since + Lag
  /\ stage = "polling" => now < pollEnd
  /\ stage = "polling" /\ finish # None => now < AnswerDue
  /\ now' = now + 1
  /\ UNCHANGED <<duration, cancelling, cancelDeadline, stage, since, pollEnd,
                 finish, reply>>

\* cancellation_latched: the record may be CANCELLING from the start.
WaitInit ==
  /\ now = 0
  /\ duration \in Durations
  /\ cancelling \in {None, 0}
  /\ cancelDeadline = IF cancelling = None THEN None ELSE CancelTimeout
  /\ stage = "top"
  /\ since = 0
  /\ pollEnd = 0
  /\ finish = None
  /\ reply = None

WaitNext ==
  \/ Top \/ ResultArrives \/ WaitFails \/ PollTimesOut
  \/ Cancel \/ MotionEnds
  \/ WaitTick

\* The clock runs, and whatever is due happens.
WaitFairness ==
  /\ WF_waitVars(WaitTick)
  /\ WF_waitVars(Top)
  /\ WF_waitVars(PollTimesOut)
  /\ WF_waitVars(ResultArrives)

WaitSpec == WaitInit /\ [][WaitNext]_waitVars
FairWait == WaitSpec /\ WaitFairness

-----------------------------------------------------------------------------
(* Properties. *)

WaitTypeOK ==
  /\ now \in Nat
  /\ duration \in Durations
  /\ cancelling \in Nat \cup {None}
  /\ cancelDeadline \in Nat \cup {None}
  /\ cancelDeadline # None => cancelling # None
  /\ stage \in {"top", "polling", "done"}
  /\ since \in Nat /\ pollEnd \in Nat
  /\ finish \in Nat \cup {None}
  /\ reply \in {None, "result", "timeout", "error"}
  /\ stage = "done" <=> reply # None

\* The wait is over soon after the maximum, and soon after the cancellation
\* timeout has passed since the request: what may come on top is one poll
\* until the request is seen, and the lag of the event loop.
EndsInTime ==
  /\ now <= Maximum + Lag
  /\ cancelling # None => now <= cancelling + Poll + Lag + CancelTimeout + Lag

\* A motion that ended within its allowance is not reported as timed out,
\* unless it was cancelled: the allowance is Multiplier times what was
\* planned, up to Maximum, less what the last polls may miss.
NoFalseTimeout ==
  reply = "timeout" /\ cancelling = None =>
    \/ finish = None
    \/ finish + 2 * MaxDelay + Lag
         >= Least(duration * Multiplier + Margin, Maximum)

\* Nor is it when it was cancelled, until the cancellation timeout is over.
CancelledInTime ==
  reply = "timeout" /\ cancelling # None =>
    \/ now >= cancelling + CancelTimeout
    \/ now >= NormalTimeout(duration)

\* The wait comes to an end, also if MoveIt never answers.
WaitEnds == <>(stage = "done")
=============================================================================
