------------------------------ MODULE RosCalls ------------------------------
(***************************************************************************)
(* The calls the adapter makes through JazzyRosRuntime (call_service and   *)
(* read_message): the event loop hands each to asyncio's default pool of   *)
(* worker threads, which serves them first come, first served.  A worker   *)
(* finds or creates the client of the service under a lock, waits for the  *)
(* service, sends the request and waits for the answer, each wait with a   *)
(* time-out of its own; or subscribes to a topic until one message comes.  *)
(*                                                                         *)
(* at[c]:  idle -> queued -> locking -> creating -> discovering ->         *)
(* waiting -> done,  or  idle -> queued -> reading -> done.                *)
(*                                                                         *)
(* Time is discrete, and nobody acts later than it is due.                 *)
(***************************************************************************)
EXTENDS Integers, Sequences, FiniteSets, Functions, EventLoop

CONSTANTS
  Call,       \* calls, each made once
  Service,    \* services of MoveIt
  ServiceOf,  \* the service a call is for; other calls read a topic
  Workers,    \* threads of the pool
  Timeout     \* the time-out given to every wait

ASSUME CallsAssumption ==
  /\ Workers \in Nat \ {0}
  /\ Timeout \in Nat \ {0}
  /\ DOMAIN ServiceOf \subseteq Call
  /\ Range(ServiceOf) \subseteq Service
  /\ None \notin Call

VARIABLES
  open,      \* the runtime is not closed
  pool,      \* calls no worker has taken yet, in order
  at,        \* where each call stands
  lock,      \* _client_lock: the call that holds it
  clients,   \* _clients: the services that have one
  created,   \* how many were created for each
  topics,    \* subscriptions there are, by call
  up,        \* services that can be discovered
  requests,  \* requests MoveIt has not answered
  elapsed,   \* how long each call's present wait has lasted
  busy,      \* history: how long a worker has been with it
  taken,     \* history: how long its request has been on its way
  outcome    \* how each call ended

callVars == <<open, pool, at, lock, clients, created, topics, up, requests,
              elapsed, busy, taken, outcome>>

Working == {"locking", "creating", "discovering", "waiting", "reading"}
Timed == {"discovering", "waiting", "reading"}
Outcomes == {"answer", "unavailable", "timeout", "closed"}

With(s) == {c \in Call : at[c] \in s}

Move(c, s) == at' = [at EXCEPT ![c] = s]

End(c, how) ==
  /\ Move(c, "done")
  /\ outcome' = [outcome EXCEPT ![c] = how]

Restarted(c) == elapsed' = [elapsed EXCEPT ![c] = 0]

-----------------------------------------------------------------------------
(* The event loop. *)

\* call_service and read_message up to to_thread; _ensure_open raises.
Ask(c) ==
  /\ at[c] = "idle"
  /\ IF open
     THEN /\ Move(c, "queued")
          /\ pool' = Append(pool, c)
          /\ UNCHANGED outcome
     ELSE /\ End(c, "closed")
          /\ UNCHANGED pool
  /\ UNCHANGED <<open, lock, clients, created, topics, up, requests, elapsed,
                 busy, taken>>

\* The server closes the runtime when the pool is joined.
Close ==
  /\ open
  /\ pool = <<>> /\ With(Working) = {}
  /\ open' = FALSE
  /\ UNCHANGED <<pool, at, lock, clients, created, topics, up, requests,
                 elapsed, busy, taken, outcome>>

-----------------------------------------------------------------------------
(* A worker. *)

Take ==
  /\ pool # <<>>
  /\ Cardinality(With(Working)) < Workers
  /\ LET c == Head(pool)
     IN  /\ pool' = Tail(pool)
         /\ Restarted(c)
         /\ IF c \in DOMAIN ServiceOf
            THEN Move(c, "locking") /\ UNCHANGED topics
            ELSE Move(c, "reading") /\ topics' = topics \cup {c}
  /\ UNCHANGED <<open, lock, clients, created, up, requests, busy, taken,
                 outcome>>

\* Mutant: the table of clients is not locked.
MayLookUpUnlocked(c) == TRUE

MayLookUp(c) == lock = None

\* _client: the table is read under the lock ...
LookUp(c) ==
  /\ at[c] = "locking"
  /\ MayLookUp(c)
  /\ IF ServiceOf[c] \in clients
     THEN Move(c, "discovering") /\ Restarted(c) /\ UNCHANGED lock
     ELSE Move(c, "creating") /\ lock' = c /\ UNCHANGED elapsed
  /\ UNCHANGED <<open, pool, clients, created, topics, up, requests, busy,
                 taken, outcome>>

\* ... which is held until a client that was missing is there.
Create(c) ==
  /\ at[c] = "creating"
  /\ clients' = clients \cup {ServiceOf[c]}
  /\ created' = [created EXCEPT ![ServiceOf[c]] = @ + 1]
  /\ lock' = None
  /\ Move(c, "discovering")
  /\ Restarted(c)
  /\ UNCHANGED <<open, pool, topics, up, requests, busy, taken, outcome>>

\* Mutant: one time-out for discovery and answer together.
SentKeepingTime(c) ==
  /\ Move(c, "waiting")
  /\ UNCHANGED elapsed

Sent(c) ==
  /\ Move(c, "waiting")
  /\ Restarted(c)

\* wait_for_service returns, and the request is sent.
Discover(c) ==
  /\ at[c] = "discovering"
  /\ ServiceOf[c] \in up
  /\ Sent(c)
  /\ requests' = requests \cup {c}
  /\ UNCHANGED <<open, pool, lock, clients, created, topics, up, busy, taken,
                 outcome>>

\* Mutant: the wait for a service is repeated.
UnavailableAgain(c) ==
  /\ at[c] = "discovering"
  /\ elapsed[c] = Timeout
  /\ Restarted(c)
  /\ UNCHANGED <<at, outcome>>

Unavailable(c) ==
  /\ at[c] = "discovering"
  /\ elapsed[c] = Timeout
  /\ End(c, "unavailable")
  /\ UNCHANGED elapsed

\* The future is cancelled; the request is not.
TimeOut(c) ==
  /\ at[c] = "waiting"
  /\ elapsed[c] = Timeout
  /\ End(c, "timeout")
  /\ UNCHANGED elapsed

GiveUp(c) ==
  /\ Unavailable(c) \/ TimeOut(c)
  /\ UNCHANGED <<open, pool, lock, clients, created, topics, up, requests,
                 busy, taken>>

\* No message came: the subscription is destroyed all the same.
StopReading(c) ==
  /\ at[c] = "reading"
  /\ elapsed[c] = Timeout
  /\ End(c, "timeout")
  /\ topics' = topics \ {c}

NoMessage(c) ==
  /\ StopReading(c)
  /\ UNCHANGED <<open, pool, lock, clients, created, up, requests, elapsed,
                 busy, taken>>

-----------------------------------------------------------------------------
(* MoveIt, the robot, and time. *)

\* The first message on the topic; later ones are ignored.
Message(c) ==
  /\ at[c] = "reading" /\ c \in topics
  /\ End(c, "answer")
  /\ topics' = topics \ {c}
  /\ UNCHANGED <<open, pool, lock, clients, created, up, requests, elapsed,
                 busy, taken>>

\* An answer that nobody waits for any more is dropped.
Serve(c) ==
  /\ c \in requests
  /\ requests' = requests \ {c}
  /\ IF at[c] = "waiting" THEN End(c, "answer") ELSE UNCHANGED <<at, outcome>>
  /\ UNCHANGED <<open, pool, lock, clients, created, topics, up, elapsed,
                 busy, taken>>

ComeOrGo(s) ==
  /\ open
  /\ up' = IF s \in up THEN up \ {s} ELSE up \cup {s}
  /\ UNCHANGED <<open, pool, at, lock, clients, created, topics, requests,
                 elapsed, busy, taken, outcome>>

\* A wait is not overslept, and looking up a client takes no time.
TimePasses ==
  /\ \A c \in Call : at[c] \in Timed => elapsed[c] < Timeout
  /\ With({"locking", "creating"}) = {}
  /\ With(Timed) # {}
  /\ elapsed' = [c \in Call |->
                   IF at[c] \in Timed THEN elapsed[c] + 1 ELSE elapsed[c]]
  /\ busy' = [c \in Call |->
                IF at[c] \in Timed /\ busy[c] <= 2 * Timeout
                THEN busy[c] + 1 ELSE busy[c]]
  /\ taken' = [c \in Call |->
                 IF at[c] = "waiting" THEN taken[c] + 1 ELSE taken[c]]
  /\ UNCHANGED <<open, pool, at, lock, clients, created, topics, up,
                 requests, outcome>>

CallsInit ==
  /\ open = TRUE
  /\ pool = <<>>
  /\ at = [c \in Call |-> "idle"]
  /\ lock = None
  /\ clients = {}
  /\ created = [s \in Service |-> 0]
  /\ topics = {}
  /\ up \in SUBSET Service
  /\ requests = {}
  /\ elapsed = [c \in Call |-> 0]
  /\ busy = [c \in Call |-> 0]
  /\ taken = [c \in Call |-> 0]
  /\ outcome = [c \in Call |-> None]

Worker ==
  \/ Take
  \/ \E c \in Call : LookUp(c) \/ Create(c) \/ Discover(c)
                      \/ GiveUp(c) \/ NoMessage(c)

CallsNext ==
  \/ \E c \in Call : Ask(c) \/ Serve(c) \/ Message(c)
  \/ Close
  \/ Worker
  \/ \E s \in Service : ComeOrGo(s)
  \/ TimePasses

\* Threads are scheduled, and time passes; MoveIt owes nobody an answer.
CallsFairness == WF_callVars(Worker) /\ WF_callVars(TimePasses)

CallsSpec == CallsInit /\ [][CallsNext]_callVars /\ CallsFairness

-----------------------------------------------------------------------------
(* Properties. *)

\* The lock is held exactly while a client is created, subscriptions are those
\* of the calls that read, and only calls that ended have an outcome.
CallsTypeOK ==
  /\ lock \in Call \cup {None}
  /\ With({"creating"}) = IF lock = None THEN {} ELSE {lock}
  /\ topics = With({"reading"})
  /\ With({"queued"}) = Range(pool) /\ IsInjective(pool)
  /\ Cardinality(With(Working)) <= Workers
  /\ \A c \in Call : IF at[c] = "done" THEN outcome[c] \in Outcomes
                     ELSE outcome[c] = None
  /\ elapsed \in [Call -> 0..Timeout]

\* One client for a service, however many workers ask for it at once, and no
\* request is sent without one (_client).
ClientsAreShared ==
  /\ \A s \in Service : created[s] <= 1
  /\ \A c \in With({"discovering", "waiting"}) : ServiceOf[c] \in clients

\* A worker is done with a call within two time-outs: one to discover the
\* service and one for its answer (_call_service_blocking).
WorkersAreFreed == \A c \in Call : busy[c] <= 2 * Timeout

\* A service that is late to be discovered has its whole time to answer all the
\* same: a time-out means that the answer took that long.
AnswersAreAwaited ==
  \A c \in DOMAIN ServiceOf : outcome[c] = "timeout" => taken[c] >= Timeout

\* Every call that is made ends, although calls wait for a worker behind others
\* and MoveIt may never answer.
EveryCallEnds == \A c \in Call : at[c] = "queued" ~> at[c] = "done"
=============================================================================
