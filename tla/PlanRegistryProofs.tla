------------------------- MODULE PlanRegistryProofs -------------------------
(***************************************************************************)
(* Proofs about PlanRegistry, for every capacity, lifetime, number of      *)
(* plans and number of executions.                                         *)
(***************************************************************************)
EXTENDS PlanRegistry, FiniteSetTheorems, WellFoundedInduction, TLAPS

-----------------------------------------------------------------------------
(* What the helpers preserve. *)

\* The constructors build well-formed entries.
LEMMA UnownedShaped ==
  ASSUME NEW s \in {"available", "consumed"}, NEW t \in Int
  PROVE  Unowned(s, t) \in Entry /\ Shaped(Unowned(s, t))
BY DEF Unowned, Entry, Shaped, PlanState, Absent

\* A reserved entry is well formed.
LEMMA PinnedShaped ==
  ASSUME NEW owner \in ExecId, NEW r \in Nat
  PROVE  Pinned(owner, r) \in Entry /\ Shaped(Pinned(owner, r))
BY DEF Pinned, Entry, Shaped, PlanState, Absent

\* The mark for "no entry" is well formed.
LEMMA AbsentShaped == Absent \in Entry /\ Shaped(Absent)
BY DEF Absent, Entry, Shaped, PlanState

\* Entries that are well formed, one by one.
WellFormed(es) == es \in [PlanId -> Entry] /\ \A p \in PlanId : Shaped(es[p])

\* Dropping what has expired keeps entries well formed.
LEMMA LiveWellFormed ==
  ASSUME WellFormed(plans)
  PROVE  WellFormed(Live)
BY AbsentShaped DEF WellFormed, Live

\* Writing a well-formed entry keeps the entries well formed.
LEMMA WriteWellFormed ==
  ASSUME NEW es, WellFormed(es), NEW p \in PlanId,
         NEW e, e \in Entry, Shaped(e)
  PROVE  WellFormed([es EXCEPT ![p] = e])
BY DEF WellFormed

\* What is absent stays absent.
LEMMA LiveAboveIssued ==
  ASSUME NEW p \in PlanId, plans[p] = Absent
  PROVE  Live[p] = Absent
BY DEF Live

\* Making room keeps entries well formed.
LEMMA RoomWellFormed ==
  ASSUME NEW es, WellFormed(es)
  PROVE  WellFormed(Room(es))
<1>1. \A p : [es EXCEPT ![p] = Absent] \in [PlanId -> Entry]
  BY AbsentShaped DEF WellFormed
<1>2. \A p, q : q \in PlanId => Shaped([es EXCEPT ![p] = Absent][q])
  BY AbsentShaped DEF WellFormed
<1>. QED BY <1>1, <1>2 DEF Room, WellFormed

\* Making room invents no entry.
LEMMA RoomAboveIssued ==
  ASSUME NEW es, WellFormed(es), NEW p \in PlanId, es[p] = Absent
  PROVE  Room(es)[p] = Absent
BY DEF Room, WellFormed

-----------------------------------------------------------------------------
(* Type correctness. *)

\* The empty registry is well formed.
LEMMA PlanInitType == PlanInit => PlanTypeOK
BY PlanAssumption, IdentifierAssumption, AbsentShaped
   DEF PlanInit, PlanTypeOK

\* The part of PlanTypeOK that is about the entries.
LEMMA TypeIsWellFormed ==
  PlanTypeOK <=>
    /\ WellFormed(plans)
    /\ issued \in 0..MaxIssue
    /\ now \in Nat
    /\ lived \in [PlanId -> Nat]
    /\ \A p \in PlanId : p > issued => plans[p] = Absent /\ lived[p] = 0
BY DEF PlanTypeOK, WellFormed

\* store preserves the type invariant.
LEMMA StoreType == PlanTypeOK /\ Store => PlanTypeOK'
<1>. SUFFICES ASSUME PlanTypeOK, Store PROVE PlanTypeOK'
  OBVIOUS
<1>. USE PlanAssumption, IdentifierAssumption
<1>1. WellFormed(plans)
  BY DEF PlanTypeOK, WellFormed
<1>2. WellFormed(Room(Live))
  BY <1>1, LiveWellFormed, RoomWellFormed
<1>3. issued + 1 \in PlanId
  BY DEF Store, PlanTypeOK, PlanId
<1>4. WellFormed(plans')
  <2>1. now + TTL \in Int
    BY DEF PlanTypeOK
  <2>2. /\ Unowned("available", now + TTL) \in Entry
        /\ Shaped(Unowned("available", now + TTL))
    BY <2>1, UnownedShaped
  <2>3. WellFormed([Room(Live) EXCEPT
                      ![issued + 1] = Unowned("available", now + TTL)])
    BY <1>2, <1>3, <2>2, WriteWellFormed
  <2>. QED BY <2>3 DEF Store
<1>5. ASSUME NEW p \in PlanId, p > issued'
      PROVE  plans'[p] = Absent /\ lived'[p] = 0
  <2>1. p # issued + 1 /\ p > issued
    BY <1>5 DEF Store, PlanTypeOK, PlanId
  <2>2. plans[p] = Absent /\ lived[p] = 0
    BY <2>1 DEF PlanTypeOK
  <2>3. Room(Live)[p] = Absent
    BY <2>2, <1>1, LiveWellFormed, LiveAboveIssued, RoomAboveIssued
  <2>4. plans'[p] = Room(Live)[p]
    BY <2>1, <1>2 DEF Store, WellFormed
  <2>. QED BY <2>2, <2>3, <2>4 DEF Store
<1>. QED
  BY <1>4, <1>5 DEF Store, PlanTypeOK, WellFormed

\* An operation that drops the expired entries, then may rewrite a live one.
LEMMA RewriteType ==
  ASSUME PlanTypeOK, UNCHANGED <<issued, now, lived>>,
         NEW base, base \in {plans, Live},
         NEW p \in PlanId, base[p].state # "absent",
         NEW e, e \in Entry, Shaped(e),
         plans' = [base EXCEPT ![p] = e]
  PROVE  PlanTypeOK'
<1>1. WellFormed(plans)
  BY DEF PlanTypeOK, WellFormed
<1>2. WellFormed(base)
  BY <1>1, LiveWellFormed
<1>3. WellFormed(plans')
  BY <1>2, WriteWellFormed
<1>4. ASSUME NEW q \in PlanId, q > issued' PROVE plans'[q] = Absent /\ lived'[q] = 0
  <2>1. plans[q] = Absent /\ lived[q] = 0
    BY <1>4 DEF PlanTypeOK
  <2>2. base[q] = Absent
    BY <2>1, LiveAboveIssued
  <2>3. q # p
    BY <2>2 DEF Absent
  <2>. QED BY <1>2, <2>1, <2>2, <2>3 DEF WellFormed
<1>. QED BY <1>3, <1>4 DEF PlanTypeOK, WellFormed

\* Lookups and refused calls preserve the type invariant.
LEMMA LookupType == PlanTypeOK /\ (Lookup \/ StoreRefused) => PlanTypeOK'
<1>. SUFFICES ASSUME PlanTypeOK, plans' = Live, UNCHANGED <<issued, now, lived>>
     PROVE  PlanTypeOK'
  BY DEF Lookup, StoreRefused
<1>1. WellFormed(plans')
  BY LiveWellFormed DEF PlanTypeOK, WellFormed
<1>2. \A q \in PlanId : q > issued' => plans'[q] = Absent /\ lived'[q] = 0
  BY LiveAboveIssued DEF PlanTypeOK
<1>. QED BY <1>1, <1>2 DEF PlanTypeOK, WellFormed

\* discard preserves the type invariant.
LEMMA DiscardType ==
  ASSUME NEW p \in PlanId, PlanTypeOK, Discard(p)
  PROVE  PlanTypeOK'
<1>1. Live[p].state # "absent"
  BY DEF Discard
<1>. QED BY <1>1, RewriteType, AbsentShaped DEF Discard

\* What a reservation freezes is a length of time.
LEMMA RemainingIsNat ==
  ASSUME PlanTypeOK, NEW e, e.expires_at \in Int
  PROVE  Remaining(e) \in Nat
BY DEF Remaining, PlanTypeOK

\* What is still available after the purge is as it was, and has an expiry.
LEMMA AvailableExpires ==
  ASSUME PlanTypeOK, NEW p \in PlanId, Live[p].state = "available"
  PROVE  Live[p] = plans[p] /\ plans[p].expires_at \in Int
<1>1. Live[p] # Absent
  BY DEF Absent
<1>2. Live[p] = plans[p]
  BY <1>1 DEF Live
<1>. QED BY <1>1, <1>2 DEF PlanTypeOK, Shaped, Absent

\* reserve_for_execution preserves the type invariant.
LEMMA ReserveType ==
  ASSUME NEW p \in PlanId, NEW owner \in ExecId, PlanTypeOK, Reserve(p, owner)
  PROVE  PlanTypeOK'
<1>1. Live[p].state = "available" /\ Live[p].expires_at \in Int
  BY AvailableExpires DEF Reserve
<1>2. Remaining(Live[p]) \in Nat
  BY <1>1, RemainingIsNat
<1>3. /\ Pinned(owner, Remaining(Live[p])) \in Entry
      /\ Shaped(Pinned(owner, Remaining(Live[p])))
  BY <1>2, PinnedShaped
<1>. QED BY <1>1, <1>3, RewriteType DEF Reserve

\* A reserved entry has a natural number of ticks left.
LEMMA ReservedRemains ==
  ASSUME PlanTypeOK, NEW p \in PlanId, plans[p].state = "reserved"
  PROVE  plans[p].remaining \in Nat
BY DEF PlanTypeOK, Shaped, Absent

\* release_reservation and consume_reservation preserve the type invariant.
LEMMA ReleaseType ==
  ASSUME NEW p \in PlanId, NEW owner \in ExecId, PlanTypeOK,
         Release(p, owner) \/ Consume(p, owner)
  PROVE  PlanTypeOK'
<1>1. plans[p].state = "reserved"
  BY DEF Release, Consume, Reserves
<1>2. now + plans[p].remaining \in Int
  BY <1>1, ReservedRemains DEF PlanTypeOK
<1>3. PICK s \in {"available", "consumed"} :
        plans' = [plans EXCEPT ![p] = Unowned(s, now + plans[p].remaining)]
  BY DEF Release, Consume
<1>4. UNCHANGED <<issued, now, lived>>
  BY DEF Release, Consume
<1>. QED BY <1>1, <1>2, <1>3, <1>4, UnownedShaped, RewriteType

\* The clock preserves the type invariant.
LEMMA TickType == PlanTypeOK /\ Tick => PlanTypeOK'
<1>. SUFFICES ASSUME PlanTypeOK, Tick PROVE PlanTypeOK'
  OBVIOUS
<1>1. lived' \in [PlanId -> Nat]
  BY DEF Tick, PlanTypeOK
<1>2. ASSUME NEW p \in PlanId, p > issued PROVE lived'[p] = 0
  BY <1>2 DEF Tick, PlanTypeOK, Evictable, Stored, Absent
<1>. QED BY <1>1, <1>2, PlanAssumption DEF Tick, PlanTypeOK, Shaped

\* Every operation preserves the type invariant.
LEMMA PlanNextType == PlanTypeOK /\ [PlanNext]_planVars => PlanTypeOK'
<1>. SUFFICES ASSUME PlanTypeOK, [PlanNext]_planVars PROVE PlanTypeOK'
  OBVIOUS
<1>1. CASE Store
  BY <1>1, StoreType
<1>2. CASE StoreRefused \/ Lookup
  BY <1>2, LookupType
<1>3. CASE \E p \in PlanId : Discard(p)
  BY <1>3, DiscardType
<1>4. CASE \E p \in PlanId, owner \in ExecId : Reserve(p, owner)
  BY <1>4, ReserveType
<1>5. CASE \E p \in PlanId, owner \in ExecId :
             Release(p, owner) \/ Consume(p, owner)
  BY <1>5, ReleaseType
<1>6. CASE Tick
  BY <1>6, TickType
<1>7. CASE UNCHANGED planVars
  BY <1>7 DEF planVars, PlanTypeOK, Shaped
<1>. QED BY <1>1, <1>2, <1>3, <1>4, <1>5, <1>6, <1>7 DEF PlanNext

\* Every entry of the registry has the shape of its state (PlanTypeOK).
THEOREM PlanTypeCorrect == PlanSpec => []PlanTypeOK
BY PlanInitType, PlanNextType, PTL DEF PlanSpec

-----------------------------------------------------------------------------
(* The first of several plans exists, so eviction really finds its victim. *)

\* A set of naturals that is not empty has a least member.
LEMMA LeastExists ==
  ASSUME NEW S, S \subseteq Nat, S # {}
  PROVE  \E p \in S : \A q \in S : p <= q
<1>1. \E p \in S : \A q \in S : ~ (<<q, p>> \in OpToRel(<, Nat))
  BY NatLessThanWellFounded, WFMin, Zenon
<1>2. \A p, q \in Nat : <<q, p>> \in OpToRel(<, Nat) <=> q < p
  BY DEF OpToRel
<1>3. \E p \in S : \A q \in S : ~ (q < p)
  BY <1>1, <1>2, Zenon
<1>. QED BY <1>3

\* The victim of an eviction is the oldest plan that may be evicted.
LEMMA VictimIsFirst ==
  ASSUME NEW es, Evictable(es) # {}
  PROVE  /\ Victim(es) \in Evictable(es)
         /\ \A q \in Evictable(es) : Victim(es) <= q
<1>1. Evictable(es) \subseteq Nat
  BY DEF Evictable, Stored, PlanId
<1>2. \E p \in Evictable(es) : \A q \in Evictable(es) : p <= q
  BY <1>1, LeastExists
<1>. QED BY <1>2 DEF Victim

\* What an operation of store leaves of the other entries.
LEMMA StoreEffect ==
  ASSUME PlanTypeOK, Store, NEW p \in PlanId
  PROVE  /\ issued + 1 \in PlanId
         /\ plans[issued + 1] = Absent
         /\ plans'[issued + 1] = Unowned("available", now + TTL)
         /\ p # issued + 1 => plans'[p] = Room(Live)[p]
         /\ Room(Live)[p] # Live[p] =>
              /\ Cardinality(Stored(Live)) >= MaxPlans
              /\ Room(Live)[p] = Absent
              /\ p \in Evictable(Live)
              /\ \A q \in Evictable(Live) : p <= q
<1>1. issued + 1 \in PlanId
  BY PlanAssumption, IdentifierAssumption DEF Store, PlanTypeOK, PlanId
<1>2. WellFormed(Live) /\ WellFormed(Room(Live))
  BY LiveWellFormed, RoomWellFormed DEF PlanTypeOK, WellFormed
<1>3. plans[issued + 1] = Absent
  BY <1>1 DEF PlanTypeOK
<1>4. /\ plans'[issued + 1] = Unowned("available", now + TTL)
      /\ p # issued + 1 => plans'[p] = Room(Live)[p]
  BY <1>1, <1>2 DEF Store, WellFormed
<1>5. ASSUME Room(Live)[p] # Live[p]
      PROVE  /\ Cardinality(Stored(Live)) >= MaxPlans
             /\ Room(Live)[p] = Absent
             /\ p \in Evictable(Live)
             /\ \A q \in Evictable(Live) : p <= q
  <2>1. Cardinality(Stored(Live)) >= MaxPlans
    BY <1>5 DEF Room
  <2>2. Evictable(Live) # {}
    BY <2>1 DEF Store, CapacityReserved
  <2>3. Room(Live)[p] = Absent /\ p = Victim(Live)
    BY <1>2, <1>5, <2>1 DEF Room, WellFormed
  <2>. QED BY <2>1, <2>2, <2>3, VictimIsFirst
<1>. QED BY <1>1, <1>3, <1>4, <1>5

\* Live keeps an entry as it is or, if it has expired, drops it.
LEMMA LiveKeepsOrDrops ==
  ASSUME NEW p \in PlanId
  PROVE  /\ Live[p] = plans[p] \/ (Expired(plans[p]) /\ Live[p] = Absent)
         /\ p \in Stored(Live) => Live[p] = plans[p]
BY DEF Live, Stored, Absent

-----------------------------------------------------------------------------
(* The lifetime of a plan. *)

Lifetime == PlanTypeOK /\ LifetimeConserved

\* LifetimeConserved, for one plan.
Conserved(p) ==
  plans[p].state # "absent" =>
    IF plans[p].state = "reserved"
    THEN plans[p].remaining = TTL - lived[p]
    ELSE plans[p].expires_at - now = TTL - lived[p]

\* LifetimeConserved, one plan at a time.
LEMMA ConservedEach == LifetimeConserved <=> \A p \in PlanId : Conserved(p)
BY DEF LifetimeConserved, Conserved, Stored

\* An entry that is kept, or dropped, conserves what it conserved.
LEMMA ConservedOrAbsent ==
  ASSUME NEW p \in PlanId, Conserved(p), UNCHANGED <<now, lived>>,
         plans'[p] = plans[p] \/ plans'[p] = Absent
  PROVE  Conserved(p)'
BY DEF Conserved, Absent

\* A reservation freezes exactly what is left of a life.
LEMMA ReserveConserves ==
  ASSUME NEW p \in PlanId, NEW owner \in ExecId, NEW q \in PlanId,
         PlanTypeOK, Conserved(q), Reserve(p, owner)
  PROVE  Conserved(q)'
<1>1. /\ Live[p] = plans[p]
      /\ plans[p].state = "available"
      /\ plans[p].expires_at \in Int
  BY AvailableExpires DEF Reserve
<1>2. plans[p].expires_at > now
  <2>1. ~Expired(plans[p])
    BY <1>1 DEF Live, Absent
  <2>. QED BY <1>1, <2>1 DEF Expired, PlanTypeOK
<1>3. CASE q = p
  <2>1. plans'[p] = Pinned(owner, Remaining(plans[p]))
    BY <1>1, LiveWellFormed DEF Reserve, PlanTypeOK, WellFormed
  <2>2. Remaining(plans[p]) = plans[p].expires_at - now
    BY <1>2 DEF Remaining
  <2>. QED BY <1>1, <1>3, <2>1, <2>2 DEF Conserved, Pinned, Reserve
<1>4. CASE q # p
  <2>1. plans'[q] = Live[q]
    BY <1>4, LiveWellFormed DEF Reserve, PlanTypeOK, WellFormed
  <2>. QED BY <2>1, LiveKeepsOrDrops, ConservedOrAbsent DEF Reserve
<1>. QED BY <1>3, <1>4

\* Release and consumption start it again where it stopped.
LEMMA ReleaseConserves ==
  ASSUME NEW p \in PlanId, NEW owner \in ExecId, NEW q \in PlanId,
         PlanTypeOK, Conserved(q), Release(p, owner) \/ Consume(p, owner)
  PROVE  Conserved(q)'
<1>1. plans[p].state = "reserved" /\ plans[p].remaining \in Nat
  BY ReservedRemains DEF Release, Consume, Reserves
<1>2. PICK s \in {"available", "consumed"} :
        plans' = [plans EXCEPT ![p] = Unowned(s, now + plans[p].remaining)]
  BY DEF Release, Consume
<1>3. UNCHANGED <<now, lived>>
  BY DEF Release, Consume
<1>4. CASE q = p
  <2>1. plans'[p] = Unowned(s, now + plans[p].remaining)
    BY <1>2 DEF PlanTypeOK
  <2>. QED BY <1>1, <1>3, <1>4, <2>1, PlanAssumption
           DEF Conserved, Unowned, PlanTypeOK
<1>5. CASE q # p
  BY <1>2, <1>3, <1>5, ConservedOrAbsent DEF PlanTypeOK
<1>. QED BY <1>4, <1>5

\* A tick costs an unreserved plan one tick, and a reserved one none.
LEMMA TickConserves ==
  ASSUME NEW q \in PlanId, PlanTypeOK, Conserved(q), Tick
  PROVE  Conserved(q)'
<1>1. CASE plans[q].state \in {"absent", "reserved"}
  BY <1>1 DEF Tick, Conserved, Evictable, Stored, PlanTypeOK
<1>2. CASE plans[q].state \notin {"absent", "reserved"}
  <2>1. lived'[q] = lived[q] + 1 /\ now' = now + 1 /\ plans' = plans
    BY <1>2 DEF Tick, Evictable, Stored
  <2>2. plans[q].expires_at \in Int
    BY <1>2 DEF PlanTypeOK, Shaped, Absent
  <2>. QED BY <1>2, <2>1, <2>2, PlanAssumption DEF Conserved, PlanTypeOK
<1>. QED BY <1>1, <1>2

\* A new plan starts with the whole lifetime.
LEMMA StoreConserves ==
  ASSUME NEW q \in PlanId, PlanTypeOK, Conserved(q), Store
  PROVE  Conserved(q)'
<1>1. UNCHANGED <<now, lived>>
  BY DEF Store
<1>2. CASE q = issued + 1
  <2>1. lived[q] = 0
    BY <1>2 DEF PlanTypeOK
  <2>2. plans'[q] = Unowned("available", now + TTL)
    BY <1>2, StoreEffect
  <2>. QED BY <1>1, <2>1, <2>2, PlanAssumption
           DEF Conserved, Unowned, PlanTypeOK
<1>3. CASE q # issued + 1
  <2>1. plans'[q] = plans[q] \/ plans'[q] = Absent
    BY <1>3, StoreEffect, LiveKeepsOrDrops
  <2>. QED BY <1>1, <2>1, ConservedOrAbsent
<1>. QED BY <1>2, <1>3

\* Every operation conserves lifetimes.
LEMMA LifetimeStep == Lifetime /\ [PlanNext]_planVars => Lifetime'
<1>. SUFFICES ASSUME PlanTypeOK, LifetimeConserved, [PlanNext]_planVars,
                     NEW q \in PlanId
              PROVE  Conserved(q)'
  BY PlanNextType DEF Lifetime, LifetimeConserved, Conserved, Stored
<1>0. Conserved(q)
  BY ConservedEach
<1>1. CASE Store
  BY <1>0, <1>1, StoreConserves
<1>2. CASE StoreRefused \/ Lookup
  BY <1>0, <1>2, LiveKeepsOrDrops, ConservedOrAbsent DEF StoreRefused, Lookup
<1>3. CASE \E p \in PlanId : Discard(p)
  <2>1. PICK p \in PlanId : Discard(p)
    BY <1>3
  <2>2. plans'[q] = Live[q] \/ plans'[q] = Absent
    BY <2>1, LiveWellFormed DEF Discard, PlanTypeOK, WellFormed
  <2>. QED BY <1>0, <2>1, <2>2, LiveKeepsOrDrops, ConservedOrAbsent DEF Discard
<1>4. CASE \E p \in PlanId, owner \in ExecId : Reserve(p, owner)
  BY <1>0, <1>4, ReserveConserves
<1>5. CASE \E p \in PlanId, owner \in ExecId :
             Release(p, owner) \/ Consume(p, owner)
  BY <1>0, <1>5, ReleaseConserves
<1>6. CASE Tick
  BY <1>0, <1>6, TickConserves
<1>7. CASE UNCHANGED planVars
  BY <1>0, <1>7 DEF planVars, Conserved
<1>. QED BY <1>1, <1>2, <1>3, <1>4, <1>5, <1>6, <1>7 DEF PlanNext

\* Whatever happens between storing a plan and dropping it, what is left of
\* its life is the TTL less the time it spent unreserved (LifetimeConserved).
THEOREM LifetimeIsConserved == PlanSpec => []LifetimeConserved
<1>1. PlanInit => Lifetime
  BY PlanInitType DEF Lifetime, LifetimeConserved, PlanInit, Stored, Absent
<1>. QED BY <1>1, LifetimeStep, PTL DEF PlanSpec, Lifetime

\* Both at once, as TLC checks them (PlanInv).
THEOREM PlanInvariant == PlanSpec => []PlanInv
BY PlanTypeCorrect, LifetimeIsConserved, PTL DEF PlanInv

-----------------------------------------------------------------------------
(* Capacity. *)

\* The stored plans are finitely many.
LEMMA StoredFinite ==
  ASSUME NEW es
  PROVE  IsFiniteSet(Stored(es)) /\ Cardinality(Stored(es)) \in Nat
<1>1. Stored(es) \subseteq 1..MaxIssue
  BY DEF Stored, PlanId
<1>2. IsFiniteSet(1..MaxIssue)
  BY IdentifierAssumption, FS_Interval
<1>. QED BY <1>1, <1>2, FS_Subset, FS_CardinalityType

\* Fewer stored plans, lower count.
LEMMA FewerStored ==
  ASSUME NEW es, NEW fs, Stored(fs) \subseteq Stored(es)
  PROVE  Cardinality(Stored(fs)) <= Cardinality(Stored(es))
BY StoredFinite, FS_Subset

\* Room leaves one slot free, whatever was stored before within capacity.
LEMMA RoomHasRoom ==
  ASSUME PlanTypeOK, CapacityHeld, ~CapacityReserved
  PROVE  Cardinality(Stored(Room(Live))) < MaxPlans
<1>. DEFINE n == Cardinality(Stored(Live))
<1>1. n \in Nat /\ n <= MaxPlans
  <2>1. Stored(Live) \subseteq Stored(plans)
    BY LiveKeepsOrDrops DEF Stored, Absent
  <2>. QED BY <2>1, FewerStored, StoredFinite, PlanAssumption DEF CapacityHeld
<1>2. CASE n < MaxPlans
  BY <1>2, PlanAssumption, <1>1 DEF Room
<1>3. CASE n >= MaxPlans
  <2>1. Victim(Live) \in Stored(Live)
    BY <1>3, VictimIsFirst DEF CapacityReserved, Evictable
  <2>2. Room(Live) = [Live EXCEPT ![Victim(Live)] = Absent]
    BY <1>3 DEF Room
  <2>3. Stored(Room(Live)) = Stored(Live) \ {Victim(Live)}
    BY <2>1, <2>2, LiveWellFormed DEF Stored, Absent, PlanTypeOK, WellFormed
  <2>4. Cardinality(Stored(Room(Live))) = n - 1
    BY <2>1, <2>3, StoredFinite, FS_RemoveElement
  <2>. QED BY <2>4, <1>1, <1>3, PlanAssumption
<1>. QED BY <1>1, <1>2, <1>3, PlanAssumption

\* store never exceeds the capacity.
LEMMA StoreHoldsCapacity ==
  ASSUME PlanTypeOK, CapacityHeld, Store
  PROVE  CapacityHeld'
<1>1. Cardinality(Stored(Room(Live))) < MaxPlans
  BY RoomHasRoom DEF Store
<1>2. Stored(plans') \subseteq Stored(Room(Live)) \cup {issued + 1}
  BY StoreEffect DEF Stored
<1>3. /\ IsFiniteSet(Stored(Room(Live)) \cup {issued + 1})
      /\ Cardinality(Stored(Room(Live)) \cup {issued + 1})
           <= Cardinality(Stored(Room(Live))) + 1
  BY StoredFinite, FS_AddElement
<1>4. Cardinality(Stored(plans'))
        <= Cardinality(Stored(Room(Live)) \cup {issued + 1})
  BY <1>2, <1>3, FS_Subset
<1>5. Cardinality(Stored(plans')) \in Nat
  BY StoredFinite
<1>6. Cardinality(Stored(Room(Live)) \cup {issued + 1}) \in Nat
  BY <1>3, FS_CardinalityType
<1>7. Cardinality(Stored(Room(Live))) \in Nat
  BY StoredFinite
<1>. QED BY <1>1, <1>3, <1>4, <1>5, <1>6, <1>7, PlanAssumption DEF CapacityHeld

\* Every other operation stores nothing that was not there.
LEMMA OthersStoreNothing ==
  ASSUME PlanTypeOK, [PlanNext]_planVars, ~Store
  PROVE  Stored(plans') \subseteq Stored(plans)
<1>0. WellFormed(plans) /\ WellFormed(Live)
  BY LiveWellFormed DEF PlanTypeOK, WellFormed
<1>1. Stored(Live) \subseteq Stored(plans)
  BY LiveKeepsOrDrops DEF Stored, Absent
<1>2. CASE StoreRefused \/ Lookup
  BY <1>1, <1>2 DEF StoreRefused, Lookup
<1>3. CASE \E p \in PlanId : Discard(p)
  BY <1>0, <1>1, <1>3 DEF Discard, Stored, Absent, WellFormed
<1>4. CASE \E p \in PlanId, owner \in ExecId : Reserve(p, owner)
  BY <1>0, <1>1, <1>4 DEF Reserve, Stored, WellFormed
<1>5. CASE \E p \in PlanId, owner \in ExecId :
             Release(p, owner) \/ Consume(p, owner)
  BY <1>0, <1>5 DEF Release, Consume, Reserves, Stored, WellFormed
<1>6. CASE Tick \/ UNCHANGED planVars
  BY <1>6 DEF Tick, planVars
<1>. QED BY <1>2, <1>3, <1>4, <1>5, <1>6 DEF PlanNext

\* No operation exceeds the capacity.
LEMMA CapacityStep ==
  PlanTypeOK /\ CapacityHeld /\ [PlanNext]_planVars => CapacityHeld'
<1>. SUFFICES ASSUME PlanTypeOK, CapacityHeld, [PlanNext]_planVars
              PROVE  CapacityHeld'
  OBVIOUS
<1>1. CASE Store
  BY <1>1, StoreHoldsCapacity
<1>2. CASE ~Store
  <2>1. Cardinality(Stored(plans')) <= Cardinality(Stored(plans))
    BY <1>2, OthersStoreNothing, FewerStored
  <2>2. Cardinality(Stored(plans')) \in Nat /\ Cardinality(Stored(plans)) \in Nat
    BY StoredFinite
  <2>. QED BY <2>1, <2>2, PlanAssumption DEF CapacityHeld
<1>. QED BY <1>1, <1>2

\* The registry never holds more plans than its capacity (CapacityHeld), with
\* reservations that pin any number of them.
THEOREM CapacityIsHeld == PlanSpec => []CapacityHeld
<1>1. PlanInit => CapacityHeld
  <2>. SUFFICES ASSUME PlanInit PROVE CapacityHeld
    OBVIOUS
  <2>1. Stored(plans) = {}
    BY DEF PlanInit, Stored, Absent
  <2>. QED BY <2>1, FS_EmptySet, PlanAssumption DEF CapacityHeld
<1>. QED BY <1>1, CapacityStep, PlanInitType, PlanNextType, PTL DEF PlanSpec

-----------------------------------------------------------------------------
(* What a step may never do. *)

\* A reserved plan stays as it is in Live, and store cannot evict it.
LEMMA ReservedIsLive ==
  ASSUME NEW p \in PlanId, plans[p].state = "reserved"
  PROVE  Live[p] = plans[p] /\ p \notin Evictable(Live)
BY DEF Live, Expired, Evictable

\* No operation but release and consumption touches a reserved entry.
LEMMA PinnedStep ==
  ASSUME PlanTypeOK, [PlanNext]_planVars, NEW p \in PlanId,
         plans[p].state = "reserved", plans'[p] # plans[p]
  PROVE  /\ plans'[p].state \in {"available", "consumed"}
         /\ plans'[p].expires_at = now + plans[p].remaining
<1>0. WellFormed(plans) /\ WellFormed(Live)
  BY LiveWellFormed DEF PlanTypeOK, WellFormed
<1>1. Live[p] = plans[p] /\ p \notin Evictable(Live)
  BY ReservedIsLive
<1>2. CASE Store
  <2>1. p # issued + 1
    BY <1>2, StoreEffect DEF Absent
  <2>. QED BY <1>1, <1>2, <2>1, StoreEffect
<1>3. CASE StoreRefused \/ Lookup \/ Tick \/ UNCHANGED planVars
  BY <1>1, <1>3 DEF StoreRefused, Lookup, Tick, planVars
<1>4. CASE \E q \in PlanId : Discard(q)
  BY <1>0, <1>1, <1>4 DEF Discard, WellFormed
<1>5. CASE \E q \in PlanId, owner \in ExecId : Reserve(q, owner)
  BY <1>0, <1>1, <1>5 DEF Reserve, WellFormed
<1>6. CASE \E q \in PlanId, owner \in ExecId :
             Release(q, owner) \/ Consume(q, owner)
  BY <1>0, <1>6 DEF Release, Consume, Unowned, WellFormed
<1>. QED BY <1>2, <1>3, <1>4, <1>5, <1>6 DEF PlanNext

\* Expiry, eviction, discard and a second reservation leave a reserved plan
\* alone, and its life goes on where it stopped (PinnedWhileReserved).
THEOREM ReservationPins == PlanSpec => PinnedWhileReserved
<1>1. PlanTypeOK /\ [PlanNext]_planVars =>
        [\A p \in PlanId :
           plans[p].state = "reserved" /\ plans'[p] # plans[p]
             => /\ plans'[p].state \in {"available", "consumed"}
                /\ plans'[p].expires_at = now + plans[p].remaining]_planVars
  BY PinnedStep
<1>. QED BY <1>1, PlanTypeCorrect, PTL DEF PlanSpec, PinnedWhileReserved

\* Every reservation granted is of an available plan with life left.
LEMMA GrantStep ==
  ASSUME Lifetime, [PlanNext]_planVars, NEW p \in PlanId,
         plans[p].state # "reserved", plans'[p].state = "reserved"
  PROVE  plans[p].state = "available" /\ lived[p] < TTL
<1>. PlanTypeOK
  BY DEF Lifetime
<1>0. WellFormed(plans) /\ WellFormed(Live)
  BY LiveWellFormed DEF PlanTypeOK, WellFormed
<1>1. Live[p].state # "reserved"
  BY LiveKeepsOrDrops DEF Absent
<1>2. CASE Store
  <2>1. plans'[p].state = "available" \/ plans'[p] = Live[p] \/ plans'[p] = Absent
    BY <1>2, StoreEffect DEF Unowned
  <2>. QED BY <1>1, <2>1 DEF Absent
<1>3. CASE StoreRefused \/ Lookup \/ Tick \/ UNCHANGED planVars
  BY <1>1, <1>3 DEF StoreRefused, Lookup, Tick, planVars
<1>4. CASE \E q \in PlanId : Discard(q)
  BY <1>0, <1>1, <1>4 DEF Discard, WellFormed, Absent
<1>5. CASE \E q \in PlanId, owner \in ExecId : Reserve(q, owner)
  <2>1. PICK q \in PlanId, owner \in ExecId : Reserve(q, owner)
    BY <1>5
  <2>2. q = p
    BY <1>0, <1>1, <2>1 DEF Reserve, WellFormed
  <2>3. /\ Live[p] = plans[p]
        /\ plans[p].state = "available"
        /\ plans[p].expires_at \in Int
    BY <2>1, <2>2, AvailableExpires DEF Reserve
  <2>4. plans[p].expires_at > now
    BY <2>3 DEF Live, Absent, Expired, PlanTypeOK
  <2>5. plans[p].expires_at - now = TTL - lived[p]
    BY <2>3 DEF Lifetime, LifetimeConserved, Stored
  <2>. QED BY <2>3, <2>4, <2>5, PlanAssumption DEF PlanTypeOK
<1>6. CASE \E q \in PlanId, owner \in ExecId :
             Release(q, owner) \/ Consume(q, owner)
  BY <1>0, <1>6 DEF Release, Consume, Unowned, WellFormed
<1>. QED BY <1>2, <1>3, <1>4, <1>5, <1>6 DEF PlanNext

\* Nobody is ever given a consumed plan, or one whose life is over
\* (GrantsAreFresh).
THEOREM ReservationsAreFresh == PlanSpec => GrantsAreFresh
<1>1. Lifetime /\ [PlanNext]_planVars =>
        [\A p \in PlanId :
           plans[p].state # "reserved" /\ plans'[p].state = "reserved"
             => plans[p].state = "available" /\ lived[p] < TTL]_planVars
  BY GrantStep
<1>. QED BY <1>1, PlanTypeCorrect, LifetimeIsConserved, PTL
         DEF PlanSpec, GrantsAreFresh, Lifetime

\* store drops an unexpired plan only at capacity, and the oldest one.
LEMMA EvictionStep ==
  ASSUME PlanTypeOK, CapacityHeld, [PlanNext]_planVars, issued' # issued,
         NEW p \in Stored(Live), plans'[p].state = "absent"
  PROVE  /\ Cardinality(Stored(Live)) = MaxPlans
         /\ \A q \in Stored(Live) : q < p => plans[q].state = "reserved"
<1>1. Store
  BY DEF PlanNext, StoreRefused, Lookup, Discard, Reserve, Release, Consume,
         Tick, planVars
<1>2. p \in PlanId
  BY DEF Stored
<1>3. Room(Live)[p] # Live[p]
  <2>1. Live[p].state # "absent"
    BY DEF Stored
  <2>2. plans'[issued + 1].state = "available"
    BY <1>1, <1>2, StoreEffect DEF Unowned
  <2>3. plans'[p] = Room(Live)[p]
    BY <1>1, <1>2, <2>2, StoreEffect
  <2>. QED BY <2>1, <2>3
<1>4. /\ Cardinality(Stored(Live)) >= MaxPlans
      /\ \A q \in Evictable(Live) : p <= q
  BY <1>1, <1>2, <1>3, StoreEffect
<1>5. Cardinality(Stored(Live)) <= MaxPlans
  <2>1. Stored(Live) \subseteq Stored(plans)
    BY LiveKeepsOrDrops DEF Stored, Absent
  <2>. QED BY <2>1, FewerStored, StoredFinite, PlanAssumption DEF CapacityHeld
<1>6. ASSUME NEW q \in Stored(Live), q < p PROVE plans[q].state = "reserved"
  <2>1. q \in PlanId /\ Live[q] = plans[q]
    BY LiveKeepsOrDrops DEF Stored
  <2>2. q \notin Evictable(Live)
    BY <1>2, <1>4, <1>6, <2>1 DEF PlanId
  <2>. QED BY <2>1, <2>2 DEF Evictable
<1>. QED BY <1>4, <1>5, <1>6, StoredFinite, PlanAssumption

\* Room is made only at capacity, and by the oldest plan nobody has reserved
\* (EvictsTheOldest).
THEOREM EvictionIsFair == PlanSpec => EvictsTheOldest
<1>1. PlanTypeOK /\ CapacityHeld /\ [PlanNext]_planVars =>
        [issued' # issued =>
           \A p \in Stored(Live) :
             plans'[p].state = "absent" =>
               /\ Cardinality(Stored(Live)) = MaxPlans
               /\ \A q \in Stored(Live) : q < p => plans[q].state = "reserved"
        ]_planVars
  BY EvictionStep
<1>. QED BY <1>1, PlanTypeCorrect, CapacityIsHeld, PTL
         DEF PlanSpec, EvictsTheOldest
=============================================================================
