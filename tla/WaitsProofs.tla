---------------------------- MODULE WaitsProofs ----------------------------
(***************************************************************************)
(* Proofs about everything that waits on a clock (Waits), for every choice *)
(* of time-outs, lags, readings, services, calls and workers: no wait is   *)
(* longer than its time-outs allow for, and none gives up what was in time.*)
(***************************************************************************)
EXTENDS Waits, FiniteSetTheorems, SequenceTheorems, TLAPS

-----------------------------------------------------------------------------
(* The wait for a terminal result. *)

\* Where the clock is in each stage, and how it stands to the two deadlines.
\* The record may have become CANCELLING since the loop last looked.
WaitBounds ==
  /\ since <= now
  /\ now <= Maximum + Lag
  /\ stage = "top" =>
       /\ now <= since + Lag
       /\ since <= Maximum
       /\ cancelDeadline # None => since <= cancelDeadline
  /\ stage = "polling" =>
       /\ now <= pollEnd
       /\ pollEnd <= since + Poll
       /\ pollEnd <= NormalTimeout(duration)
       /\ cancelDeadline # None => pollEnd <= cancelDeadline
       /\ cancelDeadline = None =>
            pollEnd = since + Poll \/ pollEnd = NormalTimeout(duration)
  /\ cancelling # None =>
       /\ cancelling <= now
       /\ now <= cancelling + Poll + Lag + CancelTimeout + Lag
  /\ cancelling # None /\ cancelDeadline = None =>
       /\ stage = "top" => since <= cancelling + Poll
       /\ stage = "polling" => since <= cancelling
       /\ stage = "done" => now <= cancelling + Poll
  /\ cancelDeadline # None =>
       /\ cancelling + CancelTimeout <= cancelDeadline
       /\ cancelDeadline <= cancelling + Poll + Lag + CancelTimeout

\* How long ago a motion can have ended whose result has not been seen: an
\* answer is missed only when a poll gives up within MaxDelay of it, and only
\* the last poll is shorter than Poll.
Missed ==
  finish # None =>
    /\ finish <= now
    /\ stage = "top" /\ cancelling = None =>
         \/ since <= finish + MaxDelay
         \/ NormalTimeout(duration) <= finish + 2 * MaxDelay + Lag
    /\ stage = "polling" /\ cancelling = None => since <= finish + MaxDelay + Lag

WaitProper ==
  /\ WaitTypeOK /\ WaitBounds /\ Missed
  /\ NoFalseTimeout /\ CancelledInTime

-----------------------------------------------------------------------------
(* The observation of the robot. *)

\* From one judgement to the next.
Round == Sleep + Lag + ReadTime

\* Where the clock is in each step, and since when the robot has been quiet.
ObservationProper ==
  /\ StabilizationTypeOK
  /\ disturbed <= clock /\ begun <= clock
  /\ clock <= deadline + ReadTime + Sleep + Lag
  /\ previous = None => quietSince = None
  /\ quietSince # None => disturbed + Sleep <= quietSince
  /\ step = "top" =>
       /\ clock <= begun + Sleep + Lag
       /\ disturbed <= begun
       /\ previous # None => begun + Sleep <= clock
  /\ step = "reading" =>
       /\ begun < deadline
       /\ clock <= begun + ReadTime
       /\ previous # None => disturbed + Sleep <= begun
  /\ step = "sleeping" =>
       /\ begun < deadline + ReadTime
       /\ clock <= begun + Sleep + Lag
       /\ disturbed <= begun
       /\ previous # None

\* How long ago the last disturbance can have been.  A quiet time that began
\* when the clock read zero is begun again.
Vigilant ==
  /\ step \in {"top", "sleeping"} =>
       /\ quietSince = None => begun = disturbed
       /\ quietSince = 0 => begun = 0 /\ 0 <= disturbed + Round
       /\ quietSince \notin {None, 0} =>
            quietSince <= disturbed + 2 * Round /\ begun < quietSince + Window
  /\ step = "reading" =>
       /\ quietSince = None => begun <= disturbed + Sleep + Lag
       /\ quietSince = 0 =>
            0 <= disturbed + Round /\ 0 < begun /\ begun <= Sleep + Lag
       /\ quietSince \notin {None, 0} => quietSince <= disturbed + 2 * Round

Observed == ObservationProper /\ Vigilant /\ QuietForWindow /\ NoFalseAlarm

-----------------------------------------------------------------------------
(* The calls to ROS. *)

Place == {"idle", "queued", "done"} \cup Working

\* What the lock, the topics, the queue and the outcome say of a call is where
\* it is.
Placed(c) ==
  /\ at[c] = "creating" <=> lock = c
  /\ at[c] = "reading" <=> c \in topics
  /\ at[c] = "queued" <=> c \in Range(pool)
  /\ IF at[c] = "done" THEN outcome[c] \in Outcomes ELSE outcome[c] = None

\* How far the time of a worker and of its request have come at each place.
Spent(c) ==
  /\ at[c] \in {"idle", "queued", "locking", "creating"} => busy[c] = 0
  /\ at[c] \in {"discovering", "reading"} => busy[c] = elapsed[c]
  /\ at[c] = "waiting" => busy[c] <= Timeout + elapsed[c]
  /\ at[c] = "done" => busy[c] <= 2 * Timeout
  /\ at[c] \notin {"waiting", "done"} => taken[c] = 0
  /\ at[c] = "waiting" => taken[c] = elapsed[c]
  /\ c \in DOMAIN ServiceOf /\ outcome[c] = "timeout" => taken[c] >= Timeout

\* Which calls are where, and what the table of clients has for them.
Served(c) ==
  /\ at[c] \in {"locking", "creating", "discovering", "waiting"}
       => c \in DOMAIN ServiceOf
  /\ at[c] = "reading" => c \notin DOMAIN ServiceOf
  /\ at[c] = "creating" => ServiceOf[c] \notin clients
  /\ at[c] \in {"discovering", "waiting"} => ServiceOf[c] \in clients

CallsTyped ==
  /\ at \in [Call -> Place]
  /\ outcome \in [Call -> Outcomes \cup {None}]
  /\ elapsed \in [Call -> 0..Timeout]
  /\ busy \in [Call -> Nat] /\ taken \in [Call -> Nat]
  /\ lock \in Call \cup {None} /\ topics \subseteq Call
  /\ pool \in Seq(Call) /\ IsInjective(pool)
  /\ clients \subseteq Service
  /\ created = [s \in Service |-> IF s \in clients THEN 1 ELSE 0]

WorkersBounded ==
  IsFiniteSet(With(Working)) /\ Cardinality(With(Working)) <= Workers

CallsProper ==
  /\ CallsTyped /\ WorkersBounded
  /\ \A c \in Call : Placed(c) /\ Spent(c) /\ Served(c)

WaitsProper == WaitProper /\ Observed /\ CallsProper

-----------------------------------------------------------------------------
(* Proofs: the wait for a terminal result. *)

\* The numbers of the wait, with their types.
LEMMA WaitNumbers ==
  ASSUME WaitTypeOK
  PROVE  /\ now \in Nat /\ since \in Nat /\ pollEnd \in Nat
         /\ cancelling \in Nat \cup {None}
         /\ cancelDeadline \in Nat \cup {None}
         /\ finish \in Nat \cup {None}
         /\ duration \in Nat
         /\ Multiplier \in Nat \ {0} /\ Maximum \in Nat \ {0}
         /\ CancelTimeout \in Nat \ {0} /\ Poll \in Nat \ {0}
         /\ Margin \in Nat /\ MaxDelay \in Nat /\ Lag \in Nat
         /\ MaxDelay < Poll
         /\ None \notin Int /\ None \notin {"result", "timeout", "error"}
BY TimingAssumption DEF WaitTypeOK

\* The allowance is at most the maximum (calculate_execution_timeout).
LEMMA AllowanceBounded ==
  ASSUME NEW d \in Nat
  PROVE  NormalTimeout(d) \in Nat /\ NormalTimeout(d) <= Maximum
<1>1. PICK m \in Nat : m = d * Multiplier
  BY TimingAssumption
<1>. QED BY <1>1, TimingAssumption DEF NormalTimeout, Least

\* The allowance of a wait does not change in the course of it.
LEMMA AllowanceStays ==
  ASSUME WaitProper, duration' = duration
  PROVE  \E nt \in Nat :
           /\ nt <= Maximum
           /\ NormalTimeout(duration) = nt /\ NormalTimeout(duration)' = nt
           /\ Least(duration * Multiplier + Margin, Maximum) = nt
           /\ Least(duration * Multiplier + Margin, Maximum)' = nt
<1>1. PICK d \in Nat : d = duration
  BY WaitNumbers DEF WaitProper
<1>2. PICK nt \in Nat : nt = NormalTimeout(d) /\ nt <= Maximum
  BY AllowanceBounded
<1>3. Least(d * Multiplier + Margin, Maximum) = nt
  BY <1>2 DEF NormalTimeout
<1>. QED BY <1>1, <1>2, <1>3

\* One turn of the loop.
LEMMA TopKeeps ==
  ASSUME WaitProper, Top
  PROVE  WaitProper'
<1>0. WaitTypeOK
  BY DEF WaitProper
<1>. USE <1>0, WaitNumbers
<1>1. PICK nt \in Nat :
       /\ nt <= Maximum
       /\ NormalTimeout(duration) = nt /\ NormalTimeout(duration)' = nt
       /\ Least(duration * Multiplier + Margin, Maximum) = nt
       /\ Least(duration * Multiplier + Margin, Maximum)' = nt
  BY AllowanceStays DEF Top
<1>2. /\ stage = "top" /\ since' = now
      /\ UNCHANGED <<now, duration, cancelling, finish>>
      /\ reply = None
  BY DEF Top, WaitProper, WaitTypeOK
<1>3. PICK cd \in Nat \cup {None} :
        /\ cancelDeadline' = cd
        /\ cancelDeadline # None => cd = cancelDeadline
        /\ cancelDeadline = None /\ cancelling # None => cd = now + CancelTimeout
        /\ cancelDeadline = None /\ cancelling = None => cd = None
  BY DEF WaitProper, WaitTypeOK, Top, CancelDeadline
<1>4. PICK ad \in Nat :
        /\ ad = ActiveDeadline(CancelDeadline)
        /\ ad <= nt
        /\ cd = None => ad = nt
        /\ cd # None => ad <= cd /\ (ad = nt \/ ad = cd)
  BY <1>1, <1>3 DEF Top, ActiveDeadline, Least
<1>5. CASE ad - now <= 0
  <2>1. stage' = "done" /\ reply' = "timeout" /\ pollEnd' = pollEnd
    BY <1>4, <1>5 DEF Top
  <2>2. WaitTypeOK'
    BY <1>2, <1>3, <2>1 DEF WaitProper, WaitTypeOK
  <2>3. WaitBounds'
    <3>1. ASSUME cancelling # None
          PROVE  /\ cd # None
                 /\ cancelling + CancelTimeout <= cd
                 /\ cd <= cancelling + Poll + Lag + CancelTimeout
      BY <1>2, <1>3, <3>1 DEF WaitProper, WaitTypeOK, WaitBounds
    <3>2. cd # None => cancelling # None
      BY <1>3 DEF WaitTypeOK
    <3>. QED BY <1>2, <1>3, <2>1, <3>1, <3>2 DEF WaitProper, WaitBounds
  <2>4. Missed'
    BY <1>2, <2>1 DEF WaitProper, Missed
  <2>5. CancelledInTime'
    BY <1>1, <1>2, <1>3, <1>4, <1>5, <2>1
    DEF WaitProper, WaitBounds, CancelledInTime
  <2>6. NoFalseTimeout'
    <3>1. SUFFICES ASSUME cancelling = None, finish # None
                   PROVE  nt <= finish + 2 * MaxDelay + Lag
      BY <1>1, <1>2 DEF NoFalseTimeout
    <3>2. cd = None /\ nt <= now
      BY <1>2, <1>3, <1>4, <1>5, <3>1 DEF WaitProper, WaitTypeOK
    <3>3. \/ since <= finish + MaxDelay
          \/ nt <= finish + 2 * MaxDelay + Lag
      BY <1>1, <1>2, <3>1 DEF WaitProper, Missed
    <3>. QED BY <1>2, <3>1, <3>2, <3>3 DEF WaitProper, WaitBounds
  <2>. QED BY <2>2, <2>3, <2>4, <2>5, <2>6 DEF WaitProper
<1>6. CASE ~(ad - now <= 0)
  <2>1. /\ stage' = "polling" /\ reply' = reply
        /\ pollEnd' = now + Least(Poll, ad - now)
    BY <1>4, <1>6 DEF Top, PollFor
  <2>2. /\ pollEnd' \in Nat /\ now < pollEnd'
        /\ pollEnd' <= now + Poll /\ pollEnd' <= ad
        /\ pollEnd' = now + Poll \/ pollEnd' = ad
    BY <1>6, <2>1 DEF Least, WaitProper
  <2>3. WaitTypeOK'
    BY <1>2, <1>3, <2>1, <2>2 DEF WaitProper, WaitTypeOK
  <2>4. WaitBounds'
    BY <1>1, <1>2, <1>3, <1>4, <2>1, <2>2 DEF WaitProper, WaitTypeOK, WaitBounds
  <2>5. Missed'
    <3>1. SUFFICES ASSUME cancelling = None, finish # None
                   PROVE  finish <= now /\ now <= finish + MaxDelay + Lag
      BY <1>2, <2>1 DEF Missed, WaitProper
    <3>2. cd = None /\ now < nt
      BY <1>2, <1>3, <1>4, <1>6, <3>1 DEF WaitProper, WaitTypeOK
    <3>3. \/ since <= finish + MaxDelay
          \/ nt <= finish + 2 * MaxDelay + Lag
      BY <1>1, <1>2, <3>1 DEF WaitProper, Missed
    <3>4. finish <= now /\ now <= since + Lag
      BY <1>2, <3>1 DEF WaitProper, Missed, WaitBounds
    <3>. QED BY <3>1, <3>2, <3>3, <3>4 DEF WaitProper
  <2>6. NoFalseTimeout' /\ CancelledInTime'
    BY <1>2, <2>1 DEF NoFalseTimeout, CancelledInTime
  <2>. QED BY <2>3, <2>4, <2>5, <2>6 DEF WaitProper
<1>. QED BY <1>5, <1>6, <1>4

\* A poll gives up: what it missed ended late, or the poll was the last.
LEMMA PollKeeps ==
  ASSUME WaitProper, PollTimesOut
  PROVE  WaitProper'
<1>0. WaitTypeOK
  BY DEF WaitProper
<1>. USE <1>0, WaitNumbers
<1>1. PICK nt \in Nat :
       /\ nt <= Maximum
       /\ NormalTimeout(duration) = nt /\ NormalTimeout(duration)' = nt
       /\ Least(duration * Multiplier + Margin, Maximum) = nt
       /\ Least(duration * Multiplier + Margin, Maximum)' = nt
  BY AllowanceStays DEF PollTimesOut
<1>2. /\ stage = "polling" /\ stage' = "top" /\ reply = None /\ reply' = reply
      /\ since' = now /\ now = pollEnd
      /\ finish # None => AnswerDue >= pollEnd
      /\ UNCHANGED <<now, duration, cancelling, cancelDeadline, pollEnd, finish>>
  BY DEF PollTimesOut, AfterPoll, WaitProper, WaitTypeOK, WaitBounds
<1>3. WaitTypeOK'
  BY <1>2 DEF WaitProper, WaitTypeOK
<1>4. WaitBounds'
  BY <1>1, <1>2 DEF WaitProper, WaitTypeOK, WaitBounds
<1>5. Missed'
  <2>1. SUFFICES ASSUME cancelling = None, finish # None
                 PROVE  /\ finish <= now
                        /\ \/ now <= finish + MaxDelay
                           \/ nt <= finish + 2 * MaxDelay + Lag
    BY <1>1, <1>2 DEF Missed, WaitProper
  <2>2. /\ finish <= now /\ since <= finish + MaxDelay + Lag
        /\ now = since + Poll \/ now = nt
    BY <1>1, <1>2, <2>1 DEF WaitProper, WaitTypeOK, WaitBounds, Missed
  <2>3. now <= finish + MaxDelay \/ now <= since + MaxDelay
    BY <1>2, <2>1 DEF AnswerDue, Latest, WaitProper
  <2>. QED BY <2>1, <2>2, <2>3 DEF WaitProper
<1>6. NoFalseTimeout' /\ CancelledInTime'
  BY <1>2 DEF NoFalseTimeout, CancelledInTime
<1>. QED BY <1>3, <1>4, <1>5, <1>6 DEF WaitProper

\* The result comes, the wait fails, a client cancels, the motion ends, or
\* time passes.
LEMMA OthersKeep ==
  ASSUME WaitProper,
         ResultArrives \/ WaitFails \/ Cancel \/ MotionEnds \/ WaitTick
  PROVE  WaitProper'
<1>0. WaitTypeOK
  BY DEF WaitProper
<1>. USE <1>0, WaitNumbers
<1>1. PICK nt \in Nat :
       /\ nt <= Maximum
       /\ NormalTimeout(duration) = nt /\ NormalTimeout(duration)' = nt
       /\ Least(duration * Multiplier + Margin, Maximum) = nt
       /\ Least(duration * Multiplier + Margin, Maximum)' = nt
  BY AllowanceStays
  DEF ResultArrives, WaitFails, Cancel, MotionEnds, WaitTick
<1>2. CASE ResultArrives \/ WaitFails
  <2>1. /\ stage = "polling" /\ stage' = "done" /\ reply' \in {"result", "error"}
        /\ UNCHANGED <<now, duration, cancelling, cancelDeadline, since,
                       pollEnd, finish>>
    BY <1>2 DEF ResultArrives, WaitFails, Done
  <2>2. WaitTypeOK'
    BY <2>1 DEF WaitProper, WaitTypeOK
  <2>3. WaitBounds'
    BY <1>1, <2>1 DEF WaitProper, WaitTypeOK, WaitBounds
  <2>4. Missed' /\ NoFalseTimeout' /\ CancelledInTime'
    BY <2>1 DEF WaitProper, Missed, NoFalseTimeout, CancelledInTime
  <2>. QED BY <2>2, <2>3, <2>4 DEF WaitProper
<1>3. CASE Cancel
  <2>1. /\ stage # "done" /\ cancelling = None /\ cancelling' = now
        /\ reply = None
        /\ UNCHANGED <<now, duration, cancelDeadline, stage, since, pollEnd,
                       finish, reply>>
    BY <1>3 DEF Cancel, WaitProper, WaitTypeOK
  <2>. QED BY <1>1, <2>1
           DEF WaitProper, WaitTypeOK, WaitBounds, Missed, NoFalseTimeout,
               CancelledInTime
<1>4. CASE MotionEnds
  <2>1. /\ stage # "done" /\ finish' = now /\ reply = None
        /\ UNCHANGED <<now, duration, cancelling, cancelDeadline, stage, since,
                       pollEnd, reply>>
    BY <1>4 DEF MotionEnds, WaitProper, WaitTypeOK
  <2>. QED BY <1>1, <2>1
           DEF WaitProper, WaitTypeOK, WaitBounds, Missed, NoFalseTimeout,
               CancelledInTime
<1>5. CASE WaitTick
  <2>1. /\ stage # "done" /\ now' = now + 1 /\ reply = None
        /\ stage = "top" => now < since + Lag
        /\ stage = "polling" => now < pollEnd
        /\ UNCHANGED <<duration, cancelling, cancelDeadline, stage, since,
                       pollEnd, finish, reply>>
    BY <1>5 DEF WaitTick, WaitProper, WaitTypeOK
  <2>2. WaitTypeOK'
    BY <2>1 DEF WaitProper, WaitTypeOK
  <2>3. WaitBounds'
    BY <1>1, <2>1, <2>2 DEF WaitProper, WaitTypeOK, WaitBounds
  <2>4. Missed'
    BY <1>1, <2>1 DEF WaitProper, WaitTypeOK, Missed
  <2>5. NoFalseTimeout' /\ CancelledInTime'
    BY <2>1 DEF NoFalseTimeout, CancelledInTime
  <2>. QED BY <2>2, <2>3, <2>4, <2>5 DEF WaitProper
<1>. QED BY <1>2, <1>3, <1>4, <1>5

\* Every step of the wait.
LEMMA WaitStep ==
  ASSUME WaitProper, [WaitNext]_waitVars
  PROVE  WaitProper'
<1>1. CASE WaitNext
  BY <1>1, TopKeeps, PollKeeps, OthersKeep DEF WaitNext
<1>2. CASE UNCHANGED waitVars
  <2>1. UNCHANGED <<now, duration, cancelling, cancelDeadline, stage, since,
                    pollEnd, finish, reply>>
    BY <1>2 DEF waitVars
  <2>2. PICK nt \in Nat :
         /\ NormalTimeout(duration) = nt /\ NormalTimeout(duration)' = nt
         /\ Least(duration * Multiplier + Margin, Maximum) = nt
         /\ Least(duration * Multiplier + Margin, Maximum)' = nt
    BY <2>1, AllowanceStays
  <2>. QED BY <2>1, <2>2
           DEF WaitProper, WaitTypeOK, WaitBounds, Missed, NoFalseTimeout,
               CancelledInTime
<1>. QED BY <1>1, <1>2

\* A wait begins as it should, and one that is over is as it should be.
LEMMA WaitBegins == WaitInit \/ WaitOver => WaitProper
<1>1. ASSUME WaitInit PROVE WaitProper
  BY <1>1, TimingAssumption
  DEF WaitInit, WaitProper, WaitTypeOK, WaitBounds, Missed, NoFalseTimeout,
      CancelledInTime
<1>2. ASSUME WaitOver PROVE WaitProper
  <2>1. duration \in Durations
    BY <1>2, TimingAssumption DEF WaitOver
  <2>. QED BY <1>2, <2>1, TimingAssumption
           DEF WaitOver, WaitProper, WaitTypeOK, WaitBounds, Missed,
               NoFalseTimeout, CancelledInTime
<1>. QED BY <1>1, <1>2

-----------------------------------------------------------------------------
(* Proofs: the observation of the robot. *)

\* The numbers of the observation, with their types.
LEMMA ObservationNumbers ==
  ASSUME StabilizationTypeOK
  PROVE  /\ clock \in Int /\ deadline \in Int /\ begun \in Int
         /\ disturbed \in Int /\ quietSince \in Int \cup {None}
         /\ Patience \in Nat \ {0} /\ Window \in Nat \ {0}
         /\ Sleep \in Nat \ {0} /\ ReadTime \in Nat /\ Lag \in Nat
         /\ Round \in Nat /\ Round = Sleep + Lag + ReadTime
         /\ None \notin Int /\ None \notin BOOLEAN
BY StabilizationAssumption DEF StabilizationTypeOK, Round

\* The loop looks at its deadline.
LEMMA LookKeeps ==
  ASSUME Observed, LookAgain
  PROVE  Observed'
<1>0. StabilizationTypeOK
  BY DEF Observed, ObservationProper
<1>. USE <1>0, ObservationNumbers
<1>1. /\ step = "top" /\ stopped = None
      /\ UNCHANGED <<clock, deadline, previous, quietSince, disturbed, failed>>
  BY DEF LookAgain, StabilizationTypeOK
<1>2. CASE MayRead
  <2>1. step' = "reading" /\ begun' = clock /\ stopped' = None /\ clock < deadline
    BY <1>1, <1>2 DEF LookAgain, MayRead
  <2>2. ObservationProper'
    BY <1>1, <2>1 DEF Observed, ObservationProper, StabilizationTypeOK
  <2>3. Vigilant'
    <3>1. quietSince = None => clock <= disturbed + Sleep + Lag
      BY <1>1 DEF Observed, ObservationProper, Vigilant
    <3>2. quietSince = 0 => 0 <= disturbed + Round /\ 0 < clock /\ clock <= Sleep + Lag
      BY <1>1 DEF Observed, ObservationProper, Vigilant
    <3>3. quietSince \notin {None, 0} => quietSince <= disturbed + 2 * Round
      BY <1>1 DEF Observed, Vigilant
    <3>. QED BY <1>1, <2>1, <3>1, <3>2, <3>3 DEF Vigilant, Round
  <2>4. QuietForWindow' /\ NoFalseAlarm'
    BY <2>1 DEF QuietForWindow, NoFalseAlarm
  <2>. QED BY <2>2, <2>3, <2>4 DEF Observed
<1>3. CASE ~MayRead
  <2>1. /\ step' = "done" /\ begun' = begun /\ stopped' = FALSE
        /\ deadline <= clock
    BY <1>1, <1>3 DEF LookAgain, Answer, MayRead
  <2>2. ObservationProper'
    BY <1>1, <2>1 DEF Observed, ObservationProper, StabilizationTypeOK
  <2>3. Vigilant' /\ QuietForWindow'
    BY <2>1 DEF Vigilant, QuietForWindow
  <2>4. deadline <= disturbed + Window + 3 * Round
    <3>1. clock <= begun + Sleep + Lag
      BY <1>1 DEF Observed, ObservationProper
    <3>2. CASE quietSince = None
      BY <1>1, <2>1, <3>1, <3>2 DEF Observed, Vigilant
    <3>3. CASE quietSince = 0
      BY <1>1, <2>1, <3>1, <3>3 DEF Observed, Vigilant
    <3>4. CASE quietSince \notin {None, 0}
      BY <1>1, <2>1, <3>1, <3>4 DEF Observed, Vigilant
    <3>. QED BY <3>2, <3>3, <3>4
  <2>5. NoFalseAlarm'
    BY <1>1, <2>4 DEF NoFalseAlarm
  <2>. QED BY <2>2, <2>3, <2>5 DEF Observed
<1>. QED BY <1>2, <1>3

\* A reading is judged.  The window is counted from the first quiet reading,
\* which came after a pause; and no window is counted anew but at clock zero.
LEMMA JudgeKeeps ==
  ASSUME Observed, NEW r \in Readings, Judge(r)
  PROVE  Observed'
<1>0. StabilizationTypeOK
  BY DEF Observed, ObservationProper
<1>. USE <1>0, ObservationNumbers
<1>1. /\ step = "reading" /\ stopped = None
      /\ UNCHANGED <<clock, deadline, failed>>
      /\ Joint \subseteq DOMAIN r.position /\ r.position # None
  BY StabilizationAssumption DEF Judge, StabilizationTypeOK
<1>2. PICK quiet \in BOOLEAN :
        /\ quiet <=> VelocityQuiet(r) /\ PositionQuiet(r)
        /\ quiet => previous # None
  BY DEF PositionQuiet
<1>3. PICK qs \in Int : /\ qs = QuietSince
                        /\ quietSince \in {None, 0} => qs = clock
                        /\ quietSince \notin {None, 0} => qs = quietSince
  BY DEF QuietSince
<1>4. previous # None => disturbed + Sleep <= qs
  BY <1>1, <1>3 DEF Observed, ObservationProper
<1>5. CASE quiet /\ clock - qs >= Window
  <2>1. /\ step' = "done" /\ stopped' = TRUE
        /\ UNCHANGED <<previous, quietSince, begun, disturbed>>
    <3>1. VelocityQuiet(r) /\ PositionQuiet(r) /\ clock - QuietSince >= Window
          /\ ~(clock - QuietSince < Window)
      BY <1>2, <1>3, <1>5
    <3>. QED BY <3>1 DEF Judge, Answer
  <2>2. ObservationProper'
    BY <1>1, <2>1 DEF Observed, ObservationProper, StabilizationTypeOK
  <2>3. Vigilant' /\ NoFalseAlarm'
    BY <2>1 DEF Vigilant, NoFalseAlarm
  <2>4. QuietForWindow'
    BY <1>1, <1>2, <1>4, <1>5, <2>1 DEF QuietForWindow
  <2>. QED BY <2>2, <2>3, <2>4 DEF Observed
<1>6. CASE quiet /\ clock - qs < Window
  <2>1. /\ step' = "sleeping" /\ begun' = clock /\ quietSince' = qs
        /\ previous' = r.position /\ UNCHANGED <<stopped, disturbed>>
    <3>1. VelocityQuiet(r) /\ PositionQuiet(r) /\ clock - QuietSince < Window
          /\ ~(clock - QuietSince >= Window)
      BY <1>2, <1>3, <1>6
    <3>2. quietSince' = QuietSince
      BY <3>1 DEF Judge
    <3>. QED BY <1>3, <3>1, <3>2 DEF Judge, Pause
  <2>2. ObservationProper'
    BY <1>1, <1>2, <1>4, <1>6, <2>1
    DEF Observed, ObservationProper, StabilizationTypeOK
  <2>3. Vigilant'
    <3>1. CASE quietSince = None
      <4>1. qs = clock /\ clock <= disturbed + Round
        BY <1>1, <1>3, <3>1 DEF Observed, ObservationProper, Vigilant
      <4>. QED BY <1>1, <1>6, <2>1, <4>1 DEF Vigilant, Round
    <3>2. CASE quietSince = 0
      <4>1. qs = clock /\ 0 < clock /\ clock <= disturbed + 2 * Round
        BY <1>1, <1>3, <3>2 DEF Observed, ObservationProper, Vigilant
      <4>. QED BY <1>1, <1>6, <2>1, <4>1 DEF Vigilant, Round
    <3>3. CASE quietSince \notin {None, 0}
      <4>1. qs = quietSince /\ quietSince <= disturbed + 2 * Round
        BY <1>1, <1>3, <3>3 DEF Observed, ObservationProper, Vigilant
      <4>. QED BY <1>1, <1>6, <2>1, <3>3, <4>1 DEF Vigilant, Round
    <3>. QED BY <3>1, <3>2, <3>3
  <2>4. QuietForWindow' /\ NoFalseAlarm'
    BY <1>1, <2>1 DEF QuietForWindow, NoFalseAlarm
  <2>. QED BY <2>2, <2>3, <2>4 DEF Observed
<1>7. CASE ~quiet
  <2>1. /\ step' = "sleeping" /\ begun' = clock /\ quietSince' = None
        /\ disturbed' = clock /\ previous' = r.position
        /\ UNCHANGED stopped
    BY <1>2, <1>7 DEF Judge, NotQuiet, Pause
  <2>2. ObservationProper'
    BY <1>1, <2>1 DEF Observed, ObservationProper, StabilizationTypeOK
  <2>3. Vigilant'
    BY <1>1, <2>1 DEF Vigilant
  <2>4. QuietForWindow' /\ NoFalseAlarm'
    BY <1>1, <2>1 DEF QuietForWindow, NoFalseAlarm
  <2>. QED BY <2>2, <2>3, <2>4 DEF Observed
<1>. QED BY <1>2, <1>3, <1>5, <1>6, <1>7

\* A read fails, the pause is over, or time passes.
LEMMA PausesKeep ==
  ASSUME Observed, ReadFails \/ WakeUp \/ ClockTick
  PROVE  Observed'
<1>0. StabilizationTypeOK
  BY DEF Observed, ObservationProper
<1>. USE <1>0, ObservationNumbers
<1>1. CASE ReadFails
  <2>1. /\ step = "reading" /\ stopped = None
        /\ step' = "done" /\ stopped' = FALSE /\ failed' = TRUE
        /\ UNCHANGED <<clock, deadline, begun, previous, quietSince, disturbed>>
    BY <1>1 DEF ReadFails, Answer, StabilizationTypeOK
  <2>. QED BY <2>1
           DEF Observed, ObservationProper, StabilizationTypeOK, Vigilant,
               QuietForWindow, NoFalseAlarm
<1>2. CASE WakeUp
  <2>1. /\ step = "sleeping" /\ stopped = None /\ begun + Sleep <= clock
        /\ step' = "top"
        /\ UNCHANGED <<clock, deadline, begun, previous, quietSince, stopped,
                       disturbed, failed>>
    BY <1>2 DEF WakeUp, StabilizationTypeOK
  <2>. QED BY <2>1
           DEF Observed, ObservationProper, StabilizationTypeOK, Vigilant,
               QuietForWindow, NoFalseAlarm
<1>3. CASE ClockTick
  <2>1. /\ clock' = clock + 1 /\ stopped = None
        /\ \/ step = "reading" /\ clock < begun + ReadTime
           \/ step = "sleeping" /\ clock < begun + Sleep + Lag
        /\ UNCHANGED <<deadline, step, begun, previous, quietSince, stopped,
                       disturbed, failed>>
    BY <1>3 DEF ClockTick, StabilizationTypeOK
  <2>2. ObservationProper'
    BY <2>1 DEF Observed, ObservationProper, StabilizationTypeOK
  <2>3. Vigilant'
    BY <2>1 DEF Observed, Vigilant
  <2>4. QuietForWindow' /\ NoFalseAlarm'
    BY <2>1 DEF QuietForWindow, NoFalseAlarm
  <2>. QED BY <2>2, <2>3, <2>4 DEF Observed
<1>. QED BY <1>1, <1>2, <1>3

\* Every step of the observation.
LEMMA ObservationStep ==
  ASSUME Observed, [ObservationNext]_observationVars
  PROVE  Observed'
<1>1. CASE ObservationNext
  BY <1>1, LookKeeps, JudgeKeeps, PausesKeep DEF ObservationNext
<1>2. CASE UNCHANGED observationVars
  BY <1>2
  DEF observationVars, Observed, ObservationProper, StabilizationTypeOK,
      Vigilant, QuietForWindow, NoFalseAlarm
<1>. QED BY <1>1, <1>2

\* An observation begins as it should, and one that is over is as it should be.
LEMMA ObservationBegins == ObservationInit \/ ObservationOver => Observed
<1>1. ASSUME ObservationInit PROVE Observed
  <2>1. StabilizationTypeOK
    <3>1. clock \in Int /\ deadline \in Int /\ begun \in Int /\ disturbed \in Int
      BY <1>1, StabilizationAssumption DEF ObservationInit
    <3>2. stopped = None /\ failed \in BOOLEAN
      BY <1>1 DEF ObservationInit
    <3>. QED BY <1>1, <3>1, <3>2 DEF ObservationInit, StabilizationTypeOK
  <2>2. ObservationProper
    BY <1>1, <2>1, ObservationNumbers DEF ObservationInit, ObservationProper
  <2>3. Vigilant
    BY <1>1, <2>1, ObservationNumbers DEF ObservationInit, Vigilant
  <2>4. QuietForWindow /\ NoFalseAlarm
    BY <1>1, <2>1, ObservationNumbers
    DEF ObservationInit, QuietForWindow, NoFalseAlarm
  <2>. QED BY <2>2, <2>3, <2>4 DEF Observed
<1>2. ASSUME ObservationOver PROVE Observed
  <2>1. StabilizationTypeOK
    <3>1. clock \in Int /\ deadline \in Int /\ begun \in Int /\ disturbed \in Int
      BY <1>2 DEF ObservationOver
    <3>2. stopped \in BOOLEAN /\ stopped # None /\ failed \in BOOLEAN
      BY <1>2, StabilizationAssumption DEF ObservationOver
    <3>. QED BY <1>2, <3>1, <3>2 DEF ObservationOver, StabilizationTypeOK
  <2>2. ObservationProper
    BY <1>2, <2>1, ObservationNumbers DEF ObservationOver, ObservationProper
  <2>3. Vigilant /\ QuietForWindow /\ NoFalseAlarm
    BY <1>2, <2>1, ObservationNumbers
    DEF ObservationOver, Vigilant, QuietForWindow, NoFalseAlarm
  <2>. QED BY <2>2, <2>3 DEF Observed
<1>. QED BY <1>1, <1>2

-----------------------------------------------------------------------------
(* Proofs: the calls to ROS. *)

\* Ranges of sequences that grow at the end and shrink at the beginning, each
\* element once.
LEMMA AppendOnce ==
  ASSUME NEW s \in Seq(Call), NEW c \in Call, IsInjective(s), c \notin Range(s)
  PROVE  /\ Append(s, c) \in Seq(Call)
         /\ Range(Append(s, c)) = Range(s) \cup {c}
         /\ IsInjective(Append(s, c))
<1>1. PICK n \in Nat : n = Len(s) /\ DOMAIN s = 1..n
  BY LenProperties
<1>2. PICK t \in Seq(Call) : t = Append(s, c)
  BY AppendProperties
<1>3. /\ DOMAIN t = 1..(n + 1) /\ t[n + 1] = c
      /\ \A i \in 1..n : t[i] = s[i]
  BY <1>1, <1>2, AppendProperties, LenProperties
<1>4. Range(t) = Range(s) \cup {c}
  <2>1. 1..(n + 1) = (1..n) \cup {n + 1}
    BY <1>1
  <2>. QED BY <1>1, <1>3, <2>1 DEF Range
<1>5. ASSUME NEW i \in DOMAIN t, NEW j \in DOMAIN t, t[i] = t[j]
      PROVE  i = j
  <2>1. \A k \in 1..n : t[k] \in Range(s)
    BY <1>1, <1>3 DEF Range
  <2>2. CASE i = n + 1 \/ j = n + 1
    BY <1>1, <1>3, <1>5, <2>1, <2>2
  <2>3. CASE i # n + 1 /\ j # n + 1
    <3>1. i \in 1..n /\ j \in 1..n
      BY <1>1, <1>3, <1>5, <2>3
    <3>. QED BY <1>1, <1>3, <1>5, <3>1 DEF IsInjective
  <2>. QED BY <2>2, <2>3
<1>. QED BY <1>2, <1>4, <1>5 DEF IsInjective

\* The same of a sequence that loses its first element.
LEMMA TailOnce ==
  ASSUME NEW s \in Seq(Call), s # <<>>, IsInjective(s)
  PROVE  /\ Head(s) \in Range(s) /\ Head(s) \in Call
         /\ Tail(s) \in Seq(Call)
         /\ Range(Tail(s)) = Range(s) \ {Head(s)}
         /\ IsInjective(Tail(s))
<1>1. PICK n \in Nat : n = Len(s) /\ DOMAIN s = 1..n /\ n >= 1
  BY LenProperties, EmptySeq
<1>2. PICK t \in Seq(Call) : t = Tail(s)
  BY HeadTailProperties
<1>3. DOMAIN t = 1..(n - 1) /\ \A i \in 1..(n - 1) : t[i] = s[i + 1]
  BY <1>1, <1>2, HeadTailProperties, LenProperties
<1>4. Head(s) = s[1] /\ 1 \in DOMAIN s
  BY <1>1
<1>5. ASSUME NEW x PROVE x \in Range(t) <=> x \in Range(s) \ {s[1]}
  <2>1. ASSUME NEW i \in 1..(n - 1)
        PROVE  t[i] \in Range(s) /\ t[i] # s[1]
    <3>1. i + 1 \in DOMAIN s /\ i + 1 # 1
      BY <1>1
    <3>. QED BY <1>3, <1>4, <3>1 DEF Range, IsInjective
  <2>2. ASSUME NEW j \in DOMAIN s, s[j] # s[1]
        PROVE  s[j] \in Range(t)
    <3>1. PICK i \in 1..(n - 1) : j = i + 1
      <4>1. j - 1 \in 1..(n - 1) /\ j = (j - 1) + 1
        BY <1>1, <2>2
      <4>. QED BY <4>1
    <3>. QED BY <1>3, <3>1 DEF Range
  <2>. QED BY <1>3, <2>1, <2>2 DEF Range
<1>6. IsInjective(t)
  <2>1. ASSUME NEW i \in 1..(n - 1), NEW j \in 1..(n - 1), t[i] = t[j]
        PROVE  i = j
    <3>1. i + 1 \in DOMAIN s /\ j + 1 \in DOMAIN s /\ s[i + 1] = s[j + 1]
      BY <1>1, <1>3, <2>1
    <3>2. i + 1 = j + 1
      BY <3>1 DEF IsInjective
    <3>. QED BY <3>2
  <2>. QED BY <1>3, <2>1 DEF IsInjective
<1>7. Range(t) = Range(s) \ {Head(s)}
  BY <1>4, <1>5
<1>8. Head(s) \in Range(s) /\ Head(s) \in Call
  BY <1>4, HeadTailProperties DEF Range
<1>. QED BY <1>2, <1>6, <1>7, <1>8

\* A call that moves makes the workers no more than there are.
LEMMA WorkersMove ==
  ASSUME CallsProper, NEW c \in Call, NEW s \in Place,
         at' = [at EXCEPT ![c] = s],
         s \in Working /\ at[c] \notin Working
           => Cardinality(With(Working)) < Workers
  PROVE  WorkersBounded'
<1>. DEFINE W == With(Working)
<1>1. /\ IsFiniteSet(W) /\ Cardinality(W) \in Nat /\ Cardinality(W) <= Workers
      /\ Workers \in Nat /\ at \in [Call -> Place]
  BY FS_CardinalityType, CallsAssumption DEF CallsProper, CallsTyped, WorkersBounded
<1>2. CASE s \in Working
  <2>1. With(Working)' = W \cup {c}
    BY <1>1, <1>2 DEF With
  <2>2. c \in W <=> at[c] \in Working
    BY DEF With
  <2>3. /\ IsFiniteSet(W \cup {c})
        /\ Cardinality(W \cup {c})
             = IF c \in W THEN Cardinality(W) ELSE Cardinality(W) + 1
    BY <1>1, FS_AddElement
  <2>. HIDE DEF W
  <2>4. Cardinality(W \cup {c}) <= Workers
    <3>1. c \notin W => Cardinality(W) < Workers
      BY <1>2, <2>2 DEF W
    <3>. QED BY <1>1, <2>3, <3>1
  <2>. QED BY <2>1, <2>3, <2>4 DEF WorkersBounded
<1>3. CASE s \notin Working
  <2>1. With(Working)' = W \ {c}
    BY <1>1, <1>3 DEF With
  <2>2. /\ IsFiniteSet(W \ {c})
        /\ Cardinality(W \ {c}) <= Cardinality(W) /\ Cardinality(W \ {c}) \in Nat
    <3>1. W \ {c} \in SUBSET W
      OBVIOUS
    <3>. QED BY <1>1, <3>1, FS_Subset, FS_CardinalityType
  <2>. HIDE DEF W
  <2>3. Cardinality(W \ {c}) <= Workers
    BY <1>1, <2>2
  <2>. QED BY <2>1, <2>2, <2>3 DEF WorkersBounded
<1>. QED BY <1>2, <1>3

\* What the assumptions and the types say of the numbers of a call.
LEMMA CallNumbers ==
  ASSUME CallsProper, NEW c \in Call
  PROVE  /\ Timeout \in Nat \ {0} /\ elapsed[c] \in 0..Timeout
         /\ busy[c] \in Nat /\ taken[c] \in Nat /\ at[c] \in Place
         /\ None \notin Call /\ None # "timeout"
BY CallsAssumption, TimingAssumption DEF CallsProper, CallsTyped

\* A call is asked for.
LEMMA AskKeeps ==
  ASSUME CallsProper, NEW c \in Call, Ask(c)
  PROVE  CallsProper'
<1>1. /\ at[c] = "idle" /\ c \notin Range(pool)
      /\ UNCHANGED <<lock, clients, created, topics, elapsed, busy, taken>>
  BY DEF Ask, CallsProper, Placed
<1>2. CASE open
  <2>1. /\ at' = [at EXCEPT ![c] = "queued"] /\ outcome' = outcome
        /\ pool' = Append(pool, c)
    BY <1>2 DEF Ask, Move
  <2>2. /\ pool' \in Seq(Call) /\ IsInjective(pool')
        /\ Range(pool') = Range(pool) \cup {c}
    BY <1>1, <2>1, AppendOnce DEF CallsProper, CallsTyped
  <2>3. CallsTyped'
    BY <1>1, <2>1, <2>2 DEF CallsProper, CallsTyped, Place
  <2>4. WorkersBounded'
    BY <2>1, WorkersMove DEF Place, Working
  <2>5. ASSUME NEW y \in Call
        PROVE  Placed(y)' /\ Spent(y)' /\ Served(y)'
    BY <1>1, <2>1, <2>2
    DEF CallsProper, CallsTyped, Place, Working, Placed, Spent, Served
  <2>. QED BY <2>3, <2>4, <2>5 DEF CallsProper
<1>3. CASE ~open
  <2>1. /\ at' = [at EXCEPT ![c] = "done"] /\ pool' = pool
        /\ outcome' = [outcome EXCEPT ![c] = "closed"]
    BY <1>3 DEF Ask, End, Move
  <2>2. CallsTyped'
    BY <1>1, <2>1 DEF CallsProper, CallsTyped, Place, Outcomes
  <2>3. WorkersBounded'
    BY <2>1, WorkersMove DEF Place, Working
  <2>4. ASSUME NEW y \in Call
        PROVE  Placed(y)' /\ Spent(y)' /\ Served(y)'
    BY <1>1, <2>1, CallNumbers
    DEF CallsProper, CallsTyped, Outcomes, Placed, Spent, Served
  <2>. QED BY <2>2, <2>3, <2>4 DEF CallsProper
<1>. QED BY <1>2, <1>3

\* A worker takes the next call.
LEMMA TakeKeeps ==
  ASSUME CallsProper, Take
  PROVE  CallsProper'
<1>1. PICK c \in Call :
        /\ c = Head(pool) /\ c \in Range(pool) /\ pool' = Tail(pool)
        /\ pool' \in Seq(Call) /\ IsInjective(pool')
        /\ Range(pool') = Range(pool) \ {c}
  BY TailOnce DEF Take, CallsProper, CallsTyped
<1>2. PICK s \in {"locking", "reading"} :
        /\ at' = [at EXCEPT ![c] = s]
        /\ s = "locking" <=> c \in DOMAIN ServiceOf
        /\ topics' = IF s = "locking" THEN topics ELSE topics \cup {c}
  BY <1>1 DEF Take, Move
<1>3. /\ at[c] = "queued" /\ elapsed' = [elapsed EXCEPT ![c] = 0]
      /\ Cardinality(With(Working)) < Workers
      /\ UNCHANGED <<lock, clients, created, busy, taken, outcome>>
  BY <1>1 DEF Take, Restarted, CallsProper, Placed
<1>4. CallsTyped'
  BY <1>1, <1>2, <1>3, CallNumbers DEF CallsProper, CallsTyped, Place, Working
<1>5. WorkersBounded'
  BY <1>2, <1>3, WorkersMove DEF Place, Working
<1>6. ASSUME NEW y \in Call
      PROVE  Placed(y)' /\ Spent(y)' /\ Served(y)'
  BY <1>1, <1>2, <1>3, CallNumbers
  DEF CallsProper, CallsTyped, Placed, Spent, Served
<1>. QED BY <1>4, <1>5, <1>6 DEF CallsProper

\* A worker looks for the client of its service, and creates one that is
\* missing.
LEMMA ClientsKeep ==
  ASSUME CallsProper, NEW c \in Call, LookUp(c) \/ Create(c)
  PROVE  CallsProper'
<1>1. CASE LookUp(c)
  <2>1. /\ at[c] = "locking" /\ lock = None /\ c \in DOMAIN ServiceOf
        /\ UNCHANGED <<pool, clients, created, topics, busy, taken, outcome>>
    BY <1>1 DEF LookUp, MayLookUp, CallsProper, Served
  <2>2. CASE ServiceOf[c] \in clients
    <3>1. /\ at' = [at EXCEPT ![c] = "discovering"]
          /\ elapsed' = [elapsed EXCEPT ![c] = 0] /\ lock' = lock
      BY <1>1, <2>2 DEF LookUp, Move, Restarted
    <3>2. CallsTyped'
      BY <2>1, <3>1, CallNumbers DEF CallsProper, CallsTyped, Place, Working
    <3>3. WorkersBounded'
      BY <2>1, <3>1, WorkersMove DEF Place, Working
    <3>4. ASSUME NEW y \in Call
          PROVE  Placed(y)' /\ Spent(y)' /\ Served(y)'
      BY <2>1, <2>2, <3>1, CallNumbers
      DEF CallsProper, CallsTyped, Placed, Spent, Served
    <3>. QED BY <3>2, <3>3, <3>4 DEF CallsProper
  <2>3. CASE ServiceOf[c] \notin clients
    <3>1. /\ at' = [at EXCEPT ![c] = "creating"]
          /\ elapsed' = elapsed /\ lock' = c
      BY <1>1, <2>3 DEF LookUp, Move
    <3>2. CallsTyped'
      BY <2>1, <3>1 DEF CallsProper, CallsTyped, Place, Working
    <3>3. WorkersBounded'
      BY <2>1, <3>1, WorkersMove DEF Place, Working
    <3>4. ASSUME NEW y \in Call
          PROVE  Placed(y)' /\ Spent(y)' /\ Served(y)'
      BY <2>1, <2>3, <3>1, CallNumbers
      DEF CallsProper, CallsTyped, Placed, Spent, Served
    <3>. QED BY <3>2, <3>3, <3>4 DEF CallsProper
  <2>. QED BY <2>2, <2>3
<1>2. CASE Create(c)
  <2>1. /\ at[c] = "creating" /\ lock = c /\ lock' = None
        /\ c \in DOMAIN ServiceOf /\ ServiceOf[c] \notin clients
        /\ at' = [at EXCEPT ![c] = "discovering"]
        /\ elapsed' = [elapsed EXCEPT ![c] = 0]
        /\ clients' = clients \cup {ServiceOf[c]}
        /\ UNCHANGED <<pool, topics, busy, taken, outcome>>
    BY <1>2 DEF Create, Move, Restarted, CallsProper, Placed, Served
  <2>2. PICK s \in Service : s = ServiceOf[c]
    BY <2>1, CallsAssumption DEF Range
  <2>3. created' = [t \in Service |-> IF t \in clients' THEN 1 ELSE 0]
    <3>1. created' = [created EXCEPT ![s] = created[s] + 1]
      BY <1>2, <2>2 DEF Create
    <3>2. /\ s \notin clients /\ clients' = clients \cup {s}
          /\ created = [t \in Service |-> IF t \in clients THEN 1 ELSE 0]
      BY <2>1, <2>2 DEF CallsProper, CallsTyped
    <3>3. created[s] = 0
      BY <3>2
    <3>4. created' = [t \in Service |-> IF t = s THEN 1 ELSE created[t]]
      BY <3>1, <3>2, <3>3
    <3>. QED BY <3>2, <3>4
  <2>4. CallsTyped'
    BY <2>1, <2>2, <2>3, CallNumbers DEF CallsProper, CallsTyped, Place, Working
  <2>5. WorkersBounded'
    BY <2>1, WorkersMove DEF Place, Working
  \* Nobody else is creating one: the lock is held by this call.
  <2>6. ASSUME NEW y \in Call
        PROVE  Placed(y)' /\ Spent(y)' /\ Served(y)'
    BY <2>1, CallNumbers DEF CallsProper, CallsTyped, Placed, Spent, Served
  <2>. QED BY <2>4, <2>5, <2>6 DEF CallsProper
<1>. QED BY <1>1, <1>2

\* The service is there, and the request is sent.
LEMMA DiscoverKeeps ==
  ASSUME CallsProper, NEW c \in Call, Discover(c)
  PROVE  CallsProper'
<1>1. /\ at[c] = "discovering" /\ at' = [at EXCEPT ![c] = "waiting"]
      /\ elapsed' = [elapsed EXCEPT ![c] = 0]
      /\ UNCHANGED <<pool, lock, clients, created, topics, busy, taken, outcome>>
  BY DEF Discover, Sent, Move, Restarted
<1>2. CallsTyped'
  BY <1>1, CallNumbers DEF CallsProper, CallsTyped, Place, Working
<1>3. WorkersBounded'
  BY <1>1, WorkersMove DEF Place, Working
<1>4. ASSUME NEW y \in Call
      PROVE  Placed(y)' /\ Spent(y)' /\ Served(y)'
  BY <1>1, CallNumbers DEF CallsProper, CallsTyped, Placed, Spent, Served
<1>. QED BY <1>2, <1>3, <1>4 DEF CallsProper

\* A call that is over gives its place up: with an answer or without, at the
\* end of a wait or before it.
LEMMA EndKeeps ==
  ASSUME CallsProper, NEW c \in Call, NEW how \in Outcomes,
         at[c] \in Timed, End(c, how),
         how = "timeout" => elapsed[c] = Timeout,
         at[c] = "reading" => topics' = topics \ {c},
         at[c] # "reading" => topics' = topics,
         UNCHANGED <<pool, lock, clients, created, elapsed, busy, taken>>,
         c \in DOMAIN ServiceOf /\ how = "timeout" => at[c] = "waiting"
  PROVE  CallsProper'
<1>1. /\ at' = [at EXCEPT ![c] = "done"]
      /\ outcome' = [outcome EXCEPT ![c] = how]
  BY DEF End, Move
<1>2. topics' = topics \ {c}
  BY DEF CallsProper, Placed
<1>3. CallsTyped'
  BY <1>1, <1>2 DEF CallsProper, CallsTyped, Place
<1>4. WorkersBounded'
  BY <1>1, WorkersMove DEF Place, Working
<1>5. ASSUME NEW y \in Call
      PROVE  Placed(y)' /\ Served(y)'
  BY <1>1, <1>2, CallNumbers
  DEF CallsProper, CallsTyped, Placed, Served, Timed
<1>6. ASSUME NEW y \in Call
      PROVE  Spent(y)'
  BY <1>1, CallNumbers DEF CallsProper, CallsTyped, Spent, Timed
<1>. QED BY <1>3, <1>4, <1>5, <1>6 DEF CallsProper

\* A wait ends without what it waits for, or with it.
LEMMA WaitsEndProperly ==
  ASSUME CallsProper, NEW c \in Call,
         GiveUp(c) \/ NoMessage(c) \/ Message(c) \/ Serve(c)
  PROVE  CallsProper'
<1>. USE DEF Timed, Outcomes
<1>1. CASE GiveUp(c)
  <2>1. CASE Unavailable(c)
    BY <1>1, <2>1, EndKeeps DEF GiveUp, Unavailable
  <2>2. CASE TimeOut(c)
    BY <1>1, <2>2, EndKeeps DEF GiveUp, TimeOut
  <2>. QED BY <1>1, <2>1, <2>2 DEF GiveUp
<1>2. CASE NoMessage(c)
  <2>1. c \notin DOMAIN ServiceOf
    BY <1>2 DEF NoMessage, StopReading, CallsProper, Served
  <2>. QED BY <1>2, <2>1, EndKeeps DEF NoMessage, StopReading
<1>3. CASE Message(c)
  BY <1>3, EndKeeps DEF Message
<1>4. CASE Serve(c)
  <2>1. CASE at[c] = "waiting"
    BY <1>4, <2>1, EndKeeps DEF Serve
  <2>2. CASE at[c] # "waiting"
    BY <1>4, <2>2
    DEF Serve, CallsProper, CallsTyped, WorkersBounded, With, Placed, Spent,
        Served
  <2>. QED BY <2>1, <2>2
<1>. QED BY <1>1, <1>2, <1>3, <1>4

\* The runtime is closed, a service comes or goes, or nothing happens.
LEMMA RestKeeps ==
  ASSUME CallsProper,
         UNCHANGED <<pool, at, lock, clients, created, topics, elapsed, busy,
                     taken, outcome>>
  PROVE  CallsProper'
BY DEF CallsProper, CallsTyped, WorkersBounded, With, Placed, Spent, Served

\* Time passes for everyone who waits, and nobody is overslept.
LEMMA TimeKeeps ==
  ASSUME CallsProper, TimePasses
  PROVE  CallsProper'
<1>1. UNCHANGED <<pool, at, lock, clients, created, topics, outcome>>
  BY DEF TimePasses
<1>2. /\ elapsed' = [c \in Call |->
                       IF at[c] \in Timed THEN elapsed[c] + 1 ELSE elapsed[c]]
      /\ busy' = [c \in Call |->
                    IF at[c] \in Timed /\ busy[c] <= 2 * Timeout
                    THEN busy[c] + 1 ELSE busy[c]]
      /\ taken' = [c \in Call |->
                     IF at[c] = "waiting" THEN taken[c] + 1 ELSE taken[c]]
  BY DEF TimePasses
<1>3. ASSUME NEW c \in Call
      PROVE  /\ elapsed'[c] \in 0..Timeout
             /\ busy'[c] \in Nat /\ taken'[c] \in Nat
  BY <1>2, CallNumbers DEF TimePasses
<1>4. CallsTyped'
  <2>1. /\ elapsed' \in [Call -> 0..Timeout]
        /\ busy' \in [Call -> Nat] /\ taken' \in [Call -> Nat]
    BY <1>2, <1>3
  <2>. QED BY <1>1, <2>1 DEF CallsProper, CallsTyped
<1>5. WorkersBounded'
  BY <1>1 DEF CallsProper, WorkersBounded, With
<1>6. ASSUME NEW c \in Call
      PROVE  Placed(c)' /\ Served(c)'
  BY <1>1 DEF CallsProper, Placed, Served
<1>7. ASSUME NEW c \in Call
      PROVE  Spent(c)'
  <2>1. CASE at[c] \in Timed
    <3>1. elapsed[c] < Timeout /\ elapsed'[c] = elapsed[c] + 1
      BY <1>2, <2>1 DEF TimePasses
    <3>2. busy[c] <= 2 * Timeout /\ busy'[c] = busy[c] + 1
      <4>1. busy[c] <= 2 * Timeout
        BY <2>1, <3>1, CallNumbers DEF CallsProper, Spent, Timed
      <4>. QED BY <1>2, <2>1, <4>1
    <3>3. taken'[c] = IF at[c] = "waiting" THEN taken[c] + 1 ELSE taken[c]
      BY <1>2
    <3>4. outcome[c] = None
      BY <2>1 DEF CallsProper, Placed, Timed
    <3>. QED BY <1>1, <2>1, <3>1, <3>2, <3>3, <3>4, CallNumbers
             DEF CallsProper, Spent, Timed
  <2>2. CASE at[c] \notin Timed
    <3>1. /\ elapsed'[c] = elapsed[c] /\ busy'[c] = busy[c]
          /\ taken'[c] = taken[c]
      BY <1>2, <2>2 DEF Timed
    <3>. QED BY <1>1, <3>1 DEF CallsProper, Spent
  <2>. QED BY <2>1, <2>2
<1>. QED BY <1>4, <1>5, <1>6, <1>7 DEF CallsProper

\* Every step of the calls.
LEMMA CallsStep ==
  ASSUME CallsProper, [CallsNext]_callVars
  PROVE  CallsProper'
<1>1. CASE \E c \in Call : Ask(c) \/ Serve(c) \/ Message(c)
  BY <1>1, AskKeeps, WaitsEndProperly
<1>2. CASE Worker
  BY <1>2, TakeKeeps, ClientsKeep, DiscoverKeeps, WaitsEndProperly DEF Worker
<1>3. CASE Close \/ \E s \in Service : ComeOrGo(s)
  BY <1>3, RestKeeps DEF Close, ComeOrGo
<1>4. CASE TimePasses
  BY <1>4, TimeKeeps
<1>5. CASE UNCHANGED callVars
  BY <1>5, RestKeeps DEF callVars
<1>. QED BY <1>1, <1>2, <1>3, <1>4, <1>5 DEF CallsNext

\* The calls begin as they should, and a runtime that is closed is as it should
\* be.
LEMMA CallsBegin == CallsInit \/ CallsOver => CallsProper
<1>. SUFFICES ASSUME CallsInit \/ CallsOver
              PROVE  CallsProper
  OBVIOUS
<1>1. /\ pool = <<>> /\ lock = None /\ topics = {} /\ clients = {}
      /\ \A c \in Call : elapsed[c] = 0 /\ busy[c] = 0 /\ taken[c] = 0
      /\ \/ /\ at = [c \in Call |-> "idle"]
            /\ outcome = [c \in Call |-> None]
         \/ /\ at = [c \in Call |-> "done"]
            /\ outcome = [c \in Call |-> "closed"]
  BY DEF CallsInit, CallsOver
<1>2. pool \in Seq(Call) /\ IsInjective(pool) /\ Range(pool) = {}
  <2>1. DOMAIN pool = {} /\ pool \in Seq(Call)
    BY <1>1, EmptySeq
  <2>. QED BY <2>1 DEF IsInjective, Range
<1>3. CallsTyped
  <2>1. /\ elapsed = [c \in Call |-> 0] /\ busy = [c \in Call |-> 0]
        /\ taken = [c \in Call |-> 0] /\ created = [s \in Service |-> 0]
    BY DEF CallsInit, CallsOver
  <2>2. /\ elapsed \in [Call -> 0..Timeout]
        /\ busy \in [Call -> Nat] /\ taken \in [Call -> Nat]
    BY <2>1, CallsAssumption
  <2>3. created = [s \in Service |-> IF s \in clients THEN 1 ELSE 0]
    BY <1>1, <2>1
  <2>. QED BY <1>1, <1>2, <2>2, <2>3 DEF CallsTyped, Place, Outcomes
<1>4. WorkersBounded
  <2>1. With(Working) = {}
    BY <1>1 DEF With, Working
  <2>. QED BY <2>1, FS_EmptySet, CallsAssumption DEF WorkersBounded
<1>5. ASSUME NEW c \in Call
      PROVE  Placed(c) /\ Spent(c) /\ Served(c)
  BY <1>1, <1>2, CallsAssumption, TimingAssumption
  DEF Placed, Spent, Served, Outcomes
<1>. QED BY <1>3, <1>4, <1>5 DEF CallsProper

\* What the runs check of the calls follows.
LEMMA CallsAreProper ==
  ASSUME CallsProper
  PROVE  /\ CallsTypeOK /\ WorkersAreFreed /\ ClientsAreShared
         /\ AnswersAreAwaited
<1>1. With({"creating"}) = IF lock = None THEN {} ELSE {lock}
  <2>1. ASSUME NEW c PROVE c \in With({"creating"}) <=> c \in Call /\ lock = c
    BY DEF CallsProper, Placed, With
  <2>2. lock \in Call \cup {None} /\ None \notin Call
    BY CallsAssumption DEF CallsProper, CallsTyped
  <2>. QED BY <2>1, <2>2
<1>2. topics = With({"reading"})
  BY DEF CallsProper, CallsTyped, Placed, With
<1>3. With({"queued"}) = Range(pool)
  <2>1. Range(pool) \subseteq Call
    BY LenProperties DEF CallsProper, CallsTyped, Range
  <2>. QED BY <2>1 DEF CallsProper, Placed, With
<1>4. CallsTypeOK
  BY <1>1, <1>2, <1>3
  DEF CallsProper, CallsTyped, WorkersBounded, Placed, CallsTypeOK
<1>5. WorkersAreFreed
  <2>1. SUFFICES ASSUME NEW c \in Call PROVE busy[c] <= 2 * Timeout
    BY DEF WorkersAreFreed
  <2>. QED BY CallNumbers DEF CallsProper, Spent, Place, Working
<1>6. ClientsAreShared
  BY DEF CallsProper, CallsTyped, Served, With, ClientsAreShared
<1>7. AnswersAreAwaited
  BY CallsAssumption DEF CallsProper, Spent, AnswersAreAwaited
<1>. QED BY <1>4, <1>5, <1>6, <1>7

-----------------------------------------------------------------------------
(* Theorems. *)

\* Each wait, observed in turn, keeps what its deadlines rest on: the inductive
\* invariant of everything that waits on a clock.
THEOREM WaitsProperAlways == Spec => []WaitsProper
<1>1. Init => WaitsProper
  BY WaitBegins, ObservationBegins, CallsBegin DEF Init, WaitsProper
<1>2. WaitsProper /\ [Next]_<<waitVars, observationVars, callVars>>
        => WaitsProper'
  <2>. SUFFICES ASSUME WaitsProper, [Next]_<<waitVars, observationVars, callVars>>
                PROVE  WaitsProper'
    OBVIOUS
  <2>1. /\ [WaitNext]_waitVars
        /\ [ObservationNext]_observationVars
        /\ [CallsNext]_callVars
    BY DEF Next
  <2>. QED BY <2>1, WaitStep, ObservationStep, CallsStep DEF WaitsProper
<1>. QED BY <1>1, <1>2, PTL DEF Spec

\* No wait is longer than its time-outs allow for, whoever answers late or never
\* (_wait_for_execution_terminal, _wait_for_state_stabilization,
\* _call_service_blocking), and the clients of the services are shared.
THEOREM WaitsAreBounded == Spec => []WaitsInv
<1>1. WaitsProper => WaitsInv
  <2>. SUFFICES ASSUME WaitsProper PROVE WaitsInv
    OBVIOUS
  <2>1. WaitTypeOK /\ EndsInTime
    BY WaitNumbers DEF WaitsProper, WaitProper, WaitBounds, EndsInTime
  <2>2. StabilizationTypeOK /\ AnswersInTime
    BY ObservationNumbers
    DEF WaitsProper, Observed, ObservationProper, AnswersInTime
  <2>3. CallsTypeOK /\ WorkersAreFreed /\ ClientsAreShared
    BY CallsAreProper DEF WaitsProper
  <2>. QED BY <2>1, <2>2, <2>3 DEF WaitsInv
<1>. QED BY <1>1, WaitsProperAlways, PTL

\* And none gives up what was in time: a motion within its allowance, a robot
\* that stands still, an answer to a request (_remaining_timeout,
\* _wait_for_state_stabilization, _call_service_blocking).
THEOREM NothingInTimeIsLost == Spec => []NothingInTimeIsGivenUp
<1>1. WaitsProper => NothingInTimeIsGivenUp
  BY CallsAreProper
  DEF WaitsProper, WaitProper, Observed, NothingInTimeIsGivenUp
<1>. QED BY <1>1, WaitsProperAlways, PTL

\* A stop is only confirmed when no reading of a whole window, or of the pause
\* before it, moved on from the one before or showed speed
\* (_wait_for_state_stabilization).
THEOREM StopsAreConfirmed == Spec => []QuietForWindow
<1>1. WaitsProper => QuietForWindow
  BY DEF WaitsProper, Observed
<1>. QED BY <1>1, WaitsProperAlways, PTL
=============================================================================
