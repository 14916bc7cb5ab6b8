---------------------------- MODULE PlanRegistry ----------------------------
(***************************************************************************)
(* The bounded, in-memory registry of motion plans                         *)
(* (application/plans.py, class PlanRegistry).                             *)
(*                                                                         *)
(* A plan is available, reserved by one execution, or consumed.  A         *)
(* reserved plan is pinned: it neither expires nor is evicted or           *)
(* discarded, and its lifetime stands still until it is released or        *)
(* consumed.                                                               *)
(*                                                                         *)
(* Plans are named in the order of issue (Identifiers), which is the order *)
(* in which eviction looks for a victim.  A reservation carries the        *)
(* identifier of the execution that owns it.  What a plan contains is      *)
(* abstracted: no operation of the registry looks at it.                   *)
(***************************************************************************)
EXTENDS Identifiers, FiniteSets

CONSTANTS
  MaxPlans,   \* capacity (max_plans)
  TTL,        \* lifetime of an unreserved plan, in ticks (ttl_seconds)
  MaxTime     \* bound: the last instant of the clock

ASSUME PlanAssumption ==
  /\ MaxPlans \in Nat \ {0}
  /\ TTL \in Nat \ {0}
  /\ MaxTime \in Nat

VARIABLES
  plans,    \* _entries: plan -> entry, Absent where there is none
  issued,   \* how many identifiers _new_plan_id has handed out
  now,      \* the injected monotonic clock
  lived     \* history: ticks each stored plan has spent unreserved

planVars == <<plans, issued, now, lived>>

PlanState == {"absent", "available", "reserved", "consumed"}

Entry == [state : PlanState,
          expires_at : Int \cup {None},
          reservation_id : ExecId \cup {None},
          remaining : Int \cup {None}]

Absent == [state |-> "absent", expires_at |-> None,
           reservation_id |-> None, remaining |-> None]

\* An entry no execution owns: the defaults of _PlanEntry.
Unowned(state, expires_at) ==
  [state |-> state, expires_at |-> expires_at,
   reservation_id |-> None, remaining |-> None]

Pinned(owner, remaining) ==
  [state |-> "reserved", expires_at |-> None,
   reservation_id |-> owner, remaining |-> remaining]

Stored(es) == {p \in PlanId : es[p].state # "absent"}
\* Mutant: eviction takes any plan, reserved ones too.
EvictableAny(es) == Stored(es)

Evictable(es) == {p \in Stored(es) : es[p].state # "reserved"}

-----------------------------------------------------------------------------
(* Helpers of the registry. *)

\* Does _remove_expired drop this entry?
Expired(e) == e.state \in {"available", "consumed"} /\ e.expires_at <= now

\* Mutant: reserving and looking up forget to drop what has expired.
LiveUnpurged == plans

\* The entries after _remove_expired(clock()).
Live == [p \in PlanId |-> IF Expired(plans[p]) THEN Absent ELSE plans[p]]

\* The guard of _reservation: is p reserved by this very owner?
Reserves(p, owner) ==
  plans[p].state = "reserved" /\ plans[p].reservation_id = owner

\* Mutant: the newest plan is evicted.
VictimNewest(es) == CHOOSE p \in Evictable(es) : \A q \in Evictable(es) : p >= q

\* The first entry, in insertion order, that store may evict.
Victim(es) == CHOOSE p \in Evictable(es) : \A q \in Evictable(es) : p <= q

\* Mutant: an off-by-one at the capacity.
RoomOffByOne(es) == IF Cardinality(Stored(es)) > MaxPlans
                    THEN [es EXCEPT ![Victim(es)] = Absent]
                    ELSE es

\* The entries store has room to add to: one victim gives way at capacity.
Room(es) == IF Cardinality(Stored(es)) >= MaxPlans
            THEN [es EXCEPT ![Victim(es)] = Absent]
            ELSE es

\* Mutant: a reservation renews the lifetime.
RemainingRenewed(e) == TTL

\* What a reservation freezes: max(0.0, expires_at - now).
Remaining(e) == IF e.expires_at > now THEN e.expires_at - now ELSE 0

-----------------------------------------------------------------------------
(* Operations. *)

\* store fails when every slot is reserved.
CapacityReserved ==
  Cardinality(Stored(Live)) >= MaxPlans /\ Evictable(Live) = {}

StoreRefused ==
  /\ CapacityReserved
  /\ plans' = Live
  /\ UNCHANGED <<issued, now, lived>>

Store ==
  /\ issued < MaxIssue
  /\ ~CapacityReserved
  /\ plans' = [Room(Live) EXCEPT
                 ![issued + 1] = Unowned("available", now + TTL)]
  /\ issued' = issued + 1
  /\ UNCHANGED <<now, lived>>

\* get and validation_context, and every refused discard or reservation:
\* their only effect is to drop what has expired.
Lookup ==
  /\ plans' = Live
  /\ UNCHANGED <<issued, now, lived>>

Discard(p) ==
  /\ Live[p].state \in {"available", "consumed"}
  /\ plans' = [Live EXCEPT ![p] = Absent]
  /\ UNCHANGED <<issued, now, lived>>

Reserve(p, owner) ==
  /\ Live[p].state = "available"
  /\ plans' = [Live EXCEPT ![p] = Pinned(owner, Remaining(Live[p]))]
  /\ UNCHANGED <<issued, now, lived>>

\* Neither release nor consumption drops what has expired.
Release(p, owner) ==
  /\ Reserves(p, owner)
  /\ plans' = [plans EXCEPT
                 ![p] = Unowned("available", now + plans[p].remaining)]
  /\ UNCHANGED <<issued, now, lived>>

\* Mutant: an accepted plan becomes available again.
ConsumeAsRelease(p, owner) == Release(p, owner)

Consume(p, owner) ==
  /\ Reserves(p, owner)
  /\ plans' = [plans EXCEPT
                 ![p] = Unowned("consumed", now + plans[p].remaining)]
  /\ UNCHANGED <<issued, now, lived>>

\* Time passes, and ages the plans nobody has reserved.
Tick ==
  /\ now < MaxTime
  /\ now' = now + 1
  /\ lived' = [p \in PlanId |->
                 IF p \in Evictable(plans) THEN lived[p] + 1 ELSE lived[p]]
  /\ UNCHANGED <<plans, issued>>

-----------------------------------------------------------------------------
PlanInit ==
  /\ plans = [p \in PlanId |-> Absent]
  /\ issued = 0
  /\ now = 0
  /\ lived = [p \in PlanId |-> 0]

PlanNext ==
  \/ Store
  \/ StoreRefused
  \/ Lookup
  \/ \E p \in PlanId : Discard(p)
  \/ \E p \in PlanId, owner \in ExecId :
       Reserve(p, owner) \/ Release(p, owner) \/ Consume(p, owner)
  \/ Tick

PlanSpec == PlanInit /\ [][PlanNext]_planVars

-----------------------------------------------------------------------------
(* Properties. *)

\* Entries have the shape of their state: only a reserved entry has an owner
\* and a frozen lifetime, only an unreserved one an expiry (_PlanEntry).
Shaped(e) ==
  \/ e = Absent
  \/ /\ e.state \in {"available", "consumed"}
     /\ e.expires_at \in Int
     /\ e.reservation_id = None
     /\ e.remaining = None
  \/ /\ e.state = "reserved"
     /\ e.expires_at = None
     /\ e.reservation_id \in ExecId
     /\ e.remaining \in Nat

PlanTypeOK ==
  /\ plans \in [PlanId -> Entry]
  /\ \A p \in PlanId : Shaped(plans[p])
  /\ issued \in 0..MaxIssue
  /\ now \in Nat
  /\ lived \in [PlanId -> Nat]
  /\ \A p \in PlanId : p > issued => plans[p] = Absent /\ lived[p] = 0

\* The registry never holds more than max_plans plans, although reserving,
\* releasing and consuming write entries without looking at the capacity
\* (store, _remove_expired).
CapacityHeld == Cardinality(Stored(plans)) <= MaxPlans

\* Reserving, releasing and consuming neither lengthen nor shorten a plan's
\* life: whatever happens in between, what is left of it is the TTL less the
\* time it has spent unreserved (reserve_for_execution, release_reservation,
\* consume_reservation: "without losing TTL").
LifetimeConserved ==
  \A p \in Stored(plans) :
    IF plans[p].state = "reserved"
    THEN plans[p].remaining = TTL - lived[p]
    ELSE plans[p].expires_at - now = TTL - lived[p]

\* A reserved plan leaves its reservation only by release or consumption:
\* expiry, eviction, discard and a second reservation leave it untouched, and
\* the suspended lifetime starts again where it stopped.
PinnedWhileReserved ==
  [][\A p \in PlanId :
       plans[p].state = "reserved" /\ plans'[p] # plans[p]
         => /\ plans'[p].state \in {"available", "consumed"}
            /\ plans'[p].expires_at = now + plans[p].remaining]_planVars

\* No execution is ever given a plan that is consumed, or that has already
\* spent its whole lifetime unreserved (reserve_for_execution purges first).
GrantsAreFresh ==
  [][\A p \in PlanId :
       plans[p].state # "reserved" /\ plans'[p].state = "reserved"
         => plans[p].state = "available" /\ lived[p] < TTL]_planVars

\* store drops an unexpired plan only at capacity, and then the oldest one
\* that is not reserved.
EvictsTheOldest ==
  [][issued' # issued =>
       \A p \in Stored(Live) :
         plans'[p].state = "absent" =>
           /\ Cardinality(Stored(Live)) = MaxPlans
           /\ \A q \in Stored(Live) : q < p => plans[q].state = "reserved"
    ]_planVars

\* The two invariants that keep each other: entries have the shape of their
\* state, and what is left of a life is conserved around reservations.
PlanInv == PlanTypeOK /\ LifetimeConserved
=============================================================================
