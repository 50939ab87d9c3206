------------------------- MODULE CsoCapacity_proofs -------------------------
(***************************************************************************)
(* Proofs about the connection-limit ledger, for any keys, limits and      *)
(* external counts and for any finite sets of owners and slots.            *)
(***************************************************************************)
EXTENDS CsoCapacity, FiniteSetTheorems, TLAPS

-----------------------------------------------------------------------------
(* What the registry's methods do to the slots held under a key.            *)

\* Only finitely many slots are ever out.
LEMMA HeldIsFinite ==
    ASSUME NEW k \in Keys
    PROVE  IsFiniteSet(Held(k))
  <1>1. IsFiniteSet(Owners \X Slots)
    BY CapacityAssumption, FS_Product
  <1>2. Held(k) \in SUBSET (Owners \X Slots)
    BY DEF Held
  <1> QED  BY <1>1, <1>2, FS_Subset

\* Likewise after a step.
LEMMA HeldIsFiniteNext ==
    ASSUME NEW k \in Keys
    PROVE  IsFiniteSet(Held(k)')
  <1>1. IsFiniteSet(Owners \X Slots)
    BY CapacityAssumption, FS_Product
  <1>2. Held(k)' \in SUBSET (Owners \X Slots)
    BY DEF Held
  <1> QED  BY <1>1, <1>2, FS_Subset

\* A reservation adds one grant under its key and leaves the others alone.
LEMMA ReserveAddsOne ==
    ASSUME CapacityTypeOK, NEW k \in Keys, NEW o \in Owners, NEW s \in Slots,
           allocations' = Reserved(k, o, s), NEW l \in Keys
    PROVE  Held(l)' = IF l = k THEN Held(l) \union {<<o, s>>} ELSE Held(l)
  <1>1. allocations'[l] = IF l = k
                          THEN [allocations[k] EXCEPT
                                  ![o] = allocations[k][o] \union {s}]
                          ELSE allocations[l]
    BY DEF Reserved, CapacityTypeOK
  <1>2. CASE l # k
    BY <1>1, <1>2 DEF Held
  <1>3. CASE l = k
    <2>1. ASSUME NEW g \in Owners \X Slots
          PROVE  g[2] \in allocations'[l][g[1]]
                   <=> g[2] \in allocations[l][g[1]] \/ g = <<o, s>>
      <3>1. PICK p \in Owners, t \in Slots : g = <<p, t>>
        OBVIOUS
      <3>2. allocations'[l][p] = IF p = o THEN allocations[l][p] \union {s}
                                          ELSE allocations[l][p]
        BY <1>1, <1>3 DEF CapacityTypeOK
      <3> QED  BY <3>1, <3>2
    <2> QED  BY <1>3, <2>1 DEF Held
  <1> QED  BY <1>2, <1>3

\* Releasing one slot or all of an owner only ever takes grants away.
LEMMA ReleaseOnlyRemoves ==
    ASSUME CapacityTypeOK, NEW l \in Keys,
           \/ \E k \in Keys, o \in Owners, s \in Slots :
                  allocations' = Released(k, o, s)
           \/ \E o \in Owners : allocations' = ReleasedAll(o)
    PROVE  Held(l)' \subseteq Held(l)
  <1> SUFFICES ASSUME NEW p \in Owners
               PROVE  allocations'[l][p] \subseteq allocations[l][p]
    BY DEF Held
  <1>1. CASE \E k \in Keys, o \in Owners, s \in Slots :
                 allocations' = Released(k, o, s)
    BY <1>1 DEF Released, CapacityTypeOK
  <1>2. CASE \E o \in Owners : allocations' = ReleasedAll(o)
    BY <1>2 DEF ReleasedAll, CapacityTypeOK
  <1> QED  BY <1>1, <1>2

-----------------------------------------------------------------------------
\* No method call spoils the shape of the ledger.
LEMMA CapacityTypeKept ==
    ASSUME CapacityTypeOK, [CapacityNext]_capacityVars
    PROVE  CapacityTypeOK'
  <1> USE DEF CapacityTypeOK
  <1>1. CASE \E k \in Keys, o \in Owners, s \in Slots : TryReserve(k, o, s)
    BY <1>1 DEF TryReserve, Reserved
  <1>2. CASE \E k \in Keys, o \in Owners, s \in Slots : Release(k, o, s)
    BY <1>2 DEF Release, Released
  <1>3. CASE \E o \in Owners : ReleaseAll(o)
    BY <1>3 DEF ReleaseAll, ReleasedAll
  <1>4. CASE SetExternalCounts
    BY <1>4 DEF SetExternalCounts
  <1>5. CASE UNCHANGED capacityVars
    BY <1>5 DEF capacityVars
  <1> QED  BY <1>1, <1>2, <1>3, <1>4, <1>5 DEF CapacityNext

\* The ledger keeps its shape: slots by owner by key, counts within bounds.
THEOREM CapacityTypeCorrect == CapacitySpec => []CapacityTypeOK
  <1>1. CapacityInit => CapacityTypeOK
    BY CapacityAssumption DEF CapacityInit, CapacityTypeOK
  <1>2. CapacityTypeOK /\ [CapacityNext]_capacityVars => CapacityTypeOK'
    BY CapacityTypeKept
  <1> QED  BY <1>1, <1>2, PTL DEF CapacitySpec

\* A reservation that adds a grant leaves the key within its limit, and leaves
\* room for the external connections counted at that moment.
LEMMA ReserveLeavesRoom ==
    ASSUME CapacityTypeOK, ReservationsWithinLimit,
           NEW k \in Keys, NEW o \in Owners, NEW s \in Slots,
           TryReserve(k, o, s), NEW l \in Keys
    PROVE  /\ Cardinality(Held(l)') <= Limit[l]
           /\ (Held(l)' \ Held(l)) # {}
                => Cardinality(Held(l)') + externalCounts[l] <= Limit[l]
  <1>1. /\ Cardinality(Held(l)) \in Nat /\ Limit[l] \in Nat
        /\ externalCounts[l] \in Nat
    BY HeldIsFinite, FS_CardinalityType, CapacityAssumption DEF CapacityTypeOK
  <1>2. Held(l)' = IF l = k THEN Held(l) \union {<<o, s>>} ELSE Held(l)
    BY ReserveAddsOne DEF TryReserve
  <1>3. Cardinality(Held(l)) <= Limit[l]
    BY DEF ReservationsWithinLimit
  <1>4. CASE l # k \/ <<o, s>> \in Held(k)
    <2>1. Held(l)' = Held(l)
      BY <1>2, <1>4
    <2> QED  BY <2>1, <1>1, <1>3
  <1>5. CASE l = k /\ <<o, s>> \notin Held(k)
    <2>1. s \notin allocations[k][o]
      BY <1>5 DEF Held
    <2>2. Cardinality(Held(k)) + externalCounts[k] < Limit[k]
      BY <2>1 DEF TryReserve, CanReserve, HasRoom
    <2>3. Cardinality(Held(l)') = Cardinality(Held(l)) + 1
      <3>1. Held(l)' = Held(l) \union {<<o, s>>}
        BY <1>2, <1>5
      <3>2. Cardinality(Held(l) \union {<<o, s>>}) = Cardinality(Held(l)) + 1
        BY <1>5, HeldIsFinite, FS_AddElement
      <3> QED  BY <3>1, <3>2
    <2> QED  BY <2>2, <2>3, <1>1, <1>5
  <1> QED  BY <1>4, <1>5

-----------------------------------------------------------------------------
(* Users of the registry do several things in one step, a restart hands back *)
(* everything; what the limits need of a step is only this.                  *)
GrantsOne == \E k \in Keys, o \in Owners, s \in Slots : TryReserve(k, o, s)
OnlyHandsBack == \A k \in Keys : Held(k)' \subseteq Held(k)

\* Whoever grants one slot at a time by try_reserve, and else hands back, stays
\* within the limits.
LEMMA WithinLimitKept ==
    ASSUME CapacityTypeOK, ReservationsWithinLimit, GrantsOne \/ OnlyHandsBack
    PROVE  ReservationsWithinLimit'
  <1> SUFFICES ASSUME NEW l \in Keys
               PROVE  Cardinality(Held(l)') <= Limit[l]
    BY DEF ReservationsWithinLimit
  <1>1. CASE GrantsOne
    BY <1>1, ReserveLeavesRoom DEF GrantsOne
  <1>2. CASE OnlyHandsBack
    <2>1. /\ Cardinality(Held(l)') <= Cardinality(Held(l))
          /\ Cardinality(Held(l)) \in Nat /\ Cardinality(Held(l)') \in Nat
      BY <1>2, HeldIsFinite, HeldIsFiniteNext, FS_Subset, FS_CardinalityType DEF OnlyHandsBack
    <2>2. Limit[l] \in Nat /\ Cardinality(Held(l)) <= Limit[l]
      BY CapacityAssumption DEF ReservationsWithinLimit
    <2> QED  BY <2>1, <2>2
  <1> QED  BY <1>1, <1>2

\* The empty ledger is within the limits.
LEMMA WithinLimitInit == CapacityInit => ReservationsWithinLimit
  <1> SUFFICES ASSUME CapacityInit, NEW k \in Keys
               PROVE  Cardinality(Held(k)) <= Limit[k]
    BY DEF ReservationsWithinLimit
  <1>1. Held(k) = {}
    BY DEF CapacityInit, Held
  <1> QED  BY <1>1, FS_EmptySet, CapacityAssumption

\* Such steps are steps of the abstract limiter: a grant within the limit, a
\* hand-back, or nothing that can be seen.
LEMMA LimiterStep ==
    ASSUME CapacityTypeOK, GrantsOne \/ OnlyHandsBack
    PROVE  [Limiter!Next]_([k \in Keys |-> Held(k)])
  <1> DEFINE held == [k \in Keys |-> Held(k)]
  <1>1. ASSUME NEW k \in Keys, NEW o \in Owners, NEW s \in Slots,
               TryReserve(k, o, s)
        PROVE  Limiter!Next \/ held' = held
    <2>1. held' = [held EXCEPT ![k] = @ \union {<<o, s>>}]
      BY <1>1, ReserveAddsOne DEF TryReserve
    <2>2. CASE s \in allocations[k][o]
      <3>1. <<o, s>> \in Held(k)
        BY <2>2 DEF Held
      <3>2. held[k] \union {<<o, s>>} = held[k]
        BY <3>1
      <3> QED  BY <2>1, <3>2
    <2>3. CASE s \notin allocations[k][o]
      <3>1. Cardinality(held[k]) < Limit[k]
        <4>1. Cardinality(Held(k)) + externalCounts[k] < Limit[k]
          BY <1>1, <2>3 DEF TryReserve, CanReserve, HasRoom
        <4>2. /\ Cardinality(Held(k)) \in Nat /\ Limit[k] \in Nat
              /\ externalCounts[k] \in Nat
          BY HeldIsFinite, FS_CardinalityType, CapacityAssumption
          DEF CapacityTypeOK
        <4> QED  BY <4>1, <4>2
      <3>2. Limiter!Grant(k, <<o, s>>)
        BY <2>1, <3>1 DEF Limiter!Grant, Limiter!Cardinality, Cardinality
      <3> QED  BY <3>2 DEF Limiter!Next
    <2> QED  BY <2>2, <2>3
  <1>2. CASE OnlyHandsBack
    <2>1. held' \in [Keys -> SUBSET (Owners \X Slots)]
      BY DEF Held
    <2>2. Limiter!HandBack
      BY <1>2, <2>1 DEF Limiter!HandBack, OnlyHandsBack
    <2> QED  BY <2>2 DEF Limiter!Next
  <1> QED  BY <1>1, <1>2 DEF GrantsOne

\* The empty ledger is a fresh limiter.
LEMMA LimiterInit == CapacityInit => Limiter!Init
  BY DEF CapacityInit, Held, Limiter!Init

\* The registry's methods, and steps that leave it alone, are of these kinds.
LEMMA RegistryStep ==
    ASSUME CapacityTypeOK, [CapacityNext]_capacityVars
    PROVE  GrantsOne \/ OnlyHandsBack
  <1>1. CASE \E k \in Keys, o \in Owners, s \in Slots : TryReserve(k, o, s)
    BY <1>1 DEF GrantsOne
  <1>2. CASE \/ \E k \in Keys, o \in Owners, s \in Slots : Release(k, o, s)
             \/ \E o \in Owners : ReleaseAll(o)
    BY <1>2, ReleaseOnlyRemoves DEF Release, ReleaseAll, OnlyHandsBack
  <1>3. CASE SetExternalCounts \/ UNCHANGED capacityVars
    BY <1>3 DEF SetExternalCounts, capacityVars, Held, OnlyHandsBack
  <1> QED  BY <1>1, <1>2, <1>3 DEF CapacityNext

\* No key is ever over-granted, however many sessions, probes and polls there
\* are and in whatever order they come (try_reserve, release, release_all).
THEOREM LimitNeverExceeded == CapacitySpec => []ReservationsWithinLimit
  <1>1. /\ CapacityTypeOK
        /\ ReservationsWithinLimit
        /\ [CapacityNext]_capacityVars
        => ReservationsWithinLimit'
    BY RegistryStep, WithinLimitKept
  <1> QED  BY <1>1, WithinLimitInit, CapacityTypeCorrect, PTL DEF CapacitySpec

\* A grant is only ever added while local and external connections together
\* leave room for it.
THEOREM GrantsRespectExternal == CapacitySpec => GrantsLeaveRoomForExternal
  <1> DEFINE Room == \A k \in Keys :
                 (Held(k)' \ Held(k)) # {}
                     => Cardinality(Held(k)') + externalCounts[k] <= Limit[k]
  <1>1. /\ CapacityTypeOK
        /\ ReservationsWithinLimit
        /\ [CapacityNext]_capacityVars
        => [Room]_capacityVars
    <2> SUFFICES ASSUME CapacityTypeOK, ReservationsWithinLimit, CapacityNext,
                        NEW l \in Keys, (Held(l)' \ Held(l)) # {}
                 PROVE  Cardinality(Held(l)') + externalCounts[l] <= Limit[l]
      OBVIOUS
    <2>1. ~ \/ \E k \in Keys, o \in Owners, s \in Slots : Release(k, o, s)
            \/ \E o \in Owners : ReleaseAll(o)
      BY ReleaseOnlyRemoves DEF Release, ReleaseAll
    <2>2. ~ SetExternalCounts
      BY DEF SetExternalCounts, Held
    <2>3. \E k \in Keys, o \in Owners, s \in Slots : TryReserve(k, o, s)
      BY <2>1, <2>2 DEF CapacityNext
    <2> QED  BY <2>3, ReserveLeavesRoom
  <1> QED
    BY <1>1, CapacityTypeCorrect, LimitNeverExceeded, PTL
    DEF CapacitySpec, GrantsLeaveRoomForExternal

-----------------------------------------------------------------------------
\* Every method call of the registry is a grant within the limit or a hand-back
\* of the abstract limiter.
THEOREM RegistryIsALimiter == CapacitySpec => ImplementsLimiter
  <1>1. CapacityTypeOK /\ [CapacityNext]_capacityVars
            => [Limiter!Next]_([k \in Keys |-> Held(k)])
    BY RegistryStep, LimiterStep
  <1> QED
    BY <1>1, LimiterInit, CapacityTypeCorrect, PTL
    DEF CapacitySpec, ImplementsLimiter, Limiter!Spec
=============================================================================
