-------------------------- MODULE HealthCheck_proofs -------------------------
(* Proofs about the background health checks and the slots they take, for     *)
(* any sources, keys, limits and other users of the connections.              *)
EXTENDS HealthCheck, CsoCapacity_proofs

\* A check only ever takes the slot of its source, under the key of its source:
\* what one check of a source gives back is all the other could be holding.
OwnSlotOnly ==
  \A k \in Keys, s \in HealthSources :
    allocations[k][s] \subseteq (IF k = HealthKey[s] THEN {s} ELSE {})

HealthInv == CapacityTypeOK /\ HealthTypeOK /\ OwnSlotOnly /\ HealthSlotsHaveRuns
-----------------------------------------------------------------------------
(* What the registry's methods leave of the slots of the sources.             *)

\* Giving back keeps the ledger's shape and takes nothing.
LEMMA HandingBack ==
  ASSUME CapacityTypeOK, UNCHANGED externalCounts,
         \/ \E k \in Keys, o \in Owners, s \in Slots : allocations' = Released(k, o, s)
         \/ \E o \in Owners : allocations' = ReleasedAll(o)
         \/ \E k \in Keys, S \in SUBSET Owners :
              allocations' = [allocations EXCEPT ![k] = [o \in Owners |->
                                IF o \in S THEN @[o] \ {o} ELSE @[o]]]
         \/ UNCHANGED allocations
  PROVE  /\ CapacityTypeOK'
         /\ \A k \in Keys, o \in Owners : allocations'[k][o] \subseteq allocations[k][o]
  <1> USE DEF CapacityTypeOK
  <1>1. CASE \E k \in Keys, o \in Owners, s \in Slots : allocations' = Released(k, o, s)
    BY <1>1 DEF Released
  <1>2. CASE \E o \in Owners : allocations' = ReleasedAll(o)
    BY <1>2 DEF ReleasedAll
  <1>3. CASE \E k \in Keys, S \in SUBSET Owners :
               allocations' = [allocations EXCEPT ![k] = [o \in Owners |->
                                 IF o \in S THEN @[o] \ {o} ELSE @[o]]]
    BY <1>3
  <1>4. CASE UNCHANGED allocations
    BY <1>4
  <1> QED  BY <1>1, <1>2, <1>3, <1>4

\* A grant adds its slot and nothing else.
LEMMA Granting ==
  ASSUME CapacityTypeOK, NEW k \in Keys, NEW o \in Owners, NEW s \in Slots, TryReserve(k, o, s)
  PROVE  /\ CapacityTypeOK'
         /\ \A l \in Keys, p \in Owners :
              allocations'[l][p] = IF l = k /\ p = o THEN allocations[l][p] \union {s}
                                   ELSE allocations[l][p]
  BY DEF TryReserve, Reserved, CapacityTypeOK

\* The sources are owners, each with a key and a slot of its own name.
LEMMA SourcesAreOwners ==
  \A s \in HealthSources : s \in Owners /\ s \in Slots /\ HealthKey[s] \in Keys
  BY HealthAssumption

\* Checks that go on probing, and sources that lose slots at most, leave the
\* invariant alone.
LEMMA SlotsKept ==
  ASSUME OwnSlotOnly, HealthSlotsHaveRuns,
         \A k \in Keys, s \in HealthSources : allocations'[k][s] \subseteq allocations[k][s],
         \A r \in HealthRuns : Probing(r) => Probing(r)'
  PROVE  OwnSlotOnly' /\ HealthSlotsHaveRuns'
  <1>1. OwnSlotOnly'
    BY DEF OwnSlotOnly
  <1>2. HealthSlotsHaveRuns'
    BY DEF HealthSlotsHaveRuns, HealthRuns
  <1> QED  BY <1>1, <1>2
-----------------------------------------------------------------------------
(* The invariant holds at first and is kept by every step.                    *)

LEMMA HealthInvInit == CapacityInit /\ HealthInit => HealthInv
  <1> SUFFICES ASSUME CapacityInit, HealthInit PROVE HealthInv
    OBVIOUS
  <1>1. CapacityTypeOK
    BY CapacityAssumption DEF CapacityInit, CapacityTypeOK
  <1>2. HealthTypeOK
    BY DEF HealthInit, HealthTypeOK
  <1>3. \A k \in Keys, s \in HealthSources : allocations[k][s] = {}
    BY SourcesAreOwners DEF CapacityInit
  <1> QED  BY <1>1, <1>2, <1>3 DEF HealthInv, OwnSlotOnly, HealthSlotsHaveRuns

\* The steps of the checks, and of those who preempt them, that leave the
\* registry alone.
LEMMA QuietStepKeeps ==
  ASSUME HealthInv, UNCHANGED capacityVars,
         \/ Periodic
         \/ \E s \in HealthSources : Requests(s)
         \/ \E r \in HealthRuns : Looks(r) \/ Samples(r) \/ ProbeOver(r)
         \/ \E k \in Keys : Preempts(k)
         \/ UNCHANGED healthVars
  PROVE  HealthInv'
  <1> USE DEF HealthInv, HealthTypeOK, CheckGoes
  <1>1. CapacityTypeOK'
    BY DEF capacityVars, CapacityTypeOK
  <1>2. /\ HealthTypeOK'
        /\ \A r \in HealthRuns : Probing(r) => Probing(r)'
    <2>1. CASE Periodic
      BY <2>1 DEF Periodic, Probing, HealthRuns, CheckKinds
    <2>2. CASE \E s \in HealthSources : Requests(s)
      BY <2>2 DEF Requests, Probing, HealthRuns, CheckKinds
    <2>3. ASSUME NEW r \in HealthRuns, Looks(r)
          PROVE  /\ HealthTypeOK'
                 /\ \A q \in HealthRuns : Probing(q) => Probing(q)'
      <3>1. r[1] \in HealthSources /\ HealthKey[r[1]] \in Keys
        BY SourcesAreOwners DEF HealthRuns
      <3>2. Cardinality(Held(HealthKey[r[1]])) \in Nat
        BY <3>1, HeldIsFinite, FS_CardinalityType
      <3> QED  BY <2>3, <3>2 DEF Looks, Probing
    <2>4. CASE \E r \in HealthRuns : Samples(r) \/ ProbeOver(r)
      BY <2>4 DEF Samples, ProbeOver, Probing
    <2>5. CASE \E k \in Keys : Preempts(k)
      BY <2>5 DEF Preempts, Probing
    <2>6. CASE UNCHANGED healthVars
      BY <2>6 DEF healthVars, Probing
    <2> QED  BY <2>1, <2>2, <2>3, <2>4, <2>5, <2>6
  <1>3. \A k \in Keys, s \in HealthSources : allocations'[k][s] \subseteq allocations[k][s]
    BY DEF capacityVars
  <1> QED  BY <1>1, <1>2, <1>3, SlotsKept

\* A check that begins takes its slot, or gives it back and is not there.
LEMMA BeginKeeps ==
  ASSUME HealthInv, NEW r \in HealthRuns, Begins(r)
  PROVE  HealthInv'
  <1> DEFINE s == r[1]
             k == HealthKey[s]
  <1> USE DEF HealthInv
  <1>0. /\ s \in HealthSources /\ r[2] \in CheckKinds /\ r = <<s, r[2]>>
        /\ s \in Owners /\ s \in Slots /\ k \in Keys
    BY SourcesAreOwners DEF HealthRuns
  <1>1. HealthTypeOK'
    BY <1>0 DEF Begins, HealthTypeOK, CheckGoes
  <1>2. hcRun[r] = "looked" /\ \A q \in HealthRuns : Probing(q) => Probing(q)'
    BY DEF Begins, HealthTypeOK, CheckGoes, Probing
  <1>3. CASE UNCHANGED capacityVars \/ Release(k, s, s)
    <2>1. CapacityTypeOK' /\ \A l \in Keys, o \in Owners : allocations'[l][o] \subseteq allocations[l][o]
      BY <1>0, <1>3, HandingBack DEF Release, capacityVars
    <2>2. \A l \in Keys, t \in HealthSources : allocations'[l][t] \subseteq allocations[l][t]
      BY <2>1, SourcesAreOwners
    <2> QED  BY <1>1, <1>2, <2>1, <2>2, SlotsKept
  <1>4. CASE TryReserve(k, s, s) /\ CheckGoes(r, "connecting")
    <2>1. CapacityTypeOK' /\ \A l \in Keys, p \in Owners :
              allocations'[l][p] = IF l = k /\ p = s THEN allocations[l][p] \union {s}
                                   ELSE allocations[l][p]
      BY <1>0, <1>4, Granting
    <2>2. Probing(<<s, r[2]>>)'
      BY <1>0, <1>4 DEF CheckGoes, Probing, HealthTypeOK
    <2>3. OwnSlotOnly'
      <3> SUFFICES ASSUME NEW l \in Keys, NEW t \in HealthSources
                   PROVE  allocations'[l][t] \subseteq (IF l = HealthKey[t] THEN {t} ELSE {})
        BY DEF OwnSlotOnly
      <3>1. t \in Owners
        BY SourcesAreOwners
      <3>2. allocations[l][t] \subseteq (IF l = HealthKey[t] THEN {t} ELSE {})
        BY DEF OwnSlotOnly
      <3> QED  BY <2>1, <3>1, <3>2
    <2>4. HealthSlotsHaveRuns'
      <3> SUFFICES ASSUME NEW l \in Keys, NEW t \in HealthSources, allocations'[l][t] # {}
                   PROVE  \E kind \in CheckKinds : Probing(<<t, kind>>)'
        BY DEF HealthSlotsHaveRuns
      <3>1. CASE t = s
        BY <1>0, <2>2, <3>1
      <3>2. CASE t # s
        <4>1. allocations[l][t] # {}
          BY <2>1, <3>2, SourcesAreOwners
        <4> QED  BY <1>2, <4>1 DEF HealthSlotsHaveRuns, HealthRuns
      <3> QED  BY <3>1, <3>2
    <2> QED  BY <1>1, <2>1, <2>3, <2>4
  <1> QED  BY <1>3, <1>4 DEF Begins

\* A check that ends gives back the slot, be it also that of the other check of
\* the source.
LEMMA EndKeeps ==
  ASSUME HealthInv, NEW r \in HealthRuns, CheckEnds(r)
  PROVE  HealthInv'
  <1> DEFINE s == r[1]
             k == HealthKey[s]
  <1> USE DEF HealthInv
  <1>0. s \in HealthSources /\ s \in Owners /\ s \in Slots /\ k \in Keys
    BY SourcesAreOwners DEF HealthRuns
  <1>1. HealthTypeOK'
    BY <1>0 DEF CheckEnds, HealthTypeOK, CheckGoes, CheckKinds
  <1>2. CapacityTypeOK' /\ \A l \in Keys, o \in Owners : allocations'[l][o] \subseteq allocations[l][o]
    BY <1>0, HandingBack DEF CheckEnds, Release
  <1>3. \A q \in HealthRuns : q # r => (Probing(q) => Probing(q)')
    BY DEF CheckEnds, HealthTypeOK, CheckGoes, Probing
  <1>4. OwnSlotOnly'
    BY <1>2, SourcesAreOwners DEF OwnSlotOnly
  <1>5. \A l \in Keys : allocations'[l][s] = {}
    <2>1. allocations' = Released(k, s, s)
      BY DEF CheckEnds, Release
    <2>2. allocations'[k][s] = allocations[k][s] \ {s}
      BY <1>0, <2>1 DEF Released, CapacityTypeOK
    <2> QED  BY <1>0, <1>2, <2>2 DEF OwnSlotOnly
  <1>6. HealthSlotsHaveRuns'
    <2> SUFFICES ASSUME NEW l \in Keys, NEW t \in HealthSources, allocations'[l][t] # {}
                 PROVE  \E kind \in CheckKinds : Probing(<<t, kind>>)'
      BY DEF HealthSlotsHaveRuns
    <2>1. t # s /\ allocations[l][t] # {}
      BY <1>2, <1>5, SourcesAreOwners
    <2>2. PICK kind \in CheckKinds : Probing(<<t, kind>>)
      BY <2>1 DEF HealthSlotsHaveRuns
    <2>3. <<t, kind>> \in HealthRuns /\ <<t, kind>> # r
      BY <2>1 DEF HealthRuns
    <2> QED  BY <1>3, <2>2, <2>3
  <1> QED  BY <1>1, <1>2, <1>4, <1>6

\* Whoever waited for room takes back the slots of the checks entered by then;
\* the others on the registry have slots of their own.
LEMMA OthersKeep ==
  ASSUME HealthInv, (\E k \in Keys : Cleared(k)) \/ OthersReserve \/ HealthPolled
  PROVE  HealthInv'
  <1> USE DEF HealthInv
  <1>1. HealthTypeOK'
    BY DEF Cleared, OthersReserve, HealthPolled, healthVars, HealthTypeOK
  <1>2. \A r \in HealthRuns : Probing(r) => Probing(r)'
    BY DEF Cleared, OthersReserve, HealthPolled, healthVars, Probing
  <1>3. /\ CapacityTypeOK'
        /\ \A k \in Keys, s \in HealthSources : allocations'[k][s] \subseteq allocations[k][s]
    <2>1. CASE \E k \in Keys : Cleared(k)
      <3>1. PICK k \in Keys : Cleared(k)
        BY <2>1
      <3>2. \E l \in Keys, S \in SUBSET Owners :
              allocations' = [allocations EXCEPT ![l] = [o \in Owners |->
                                IF o \in S THEN @[o] \ {o} ELSE @[o]]]
        <4>1. Checks(k) \in SUBSET Owners
          BY SourcesAreOwners DEF Checks
        <4> QED  BY <3>1, <4>1 DEF Cleared
      <3>3. UNCHANGED externalCounts
        BY <3>1 DEF Cleared
      <3> QED  BY <3>2, <3>3, HandingBack, SourcesAreOwners
    <2>2. CASE \E o \in Owners \ HealthSources : ReleaseAll(o)
      BY <2>2, HandingBack, SourcesAreOwners DEF ReleaseAll
    <2>3. CASE \E o \in Owners \ HealthSources, k \in Keys, s \in Slots : Release(k, o, s)
      BY <2>3, HandingBack, SourcesAreOwners DEF Release
    <2>4. ASSUME NEW o \in Owners \ HealthSources, NEW k \in Keys, NEW s \in Slots,
                 TryReserve(k, o, s)
          PROVE  /\ CapacityTypeOK'
                 /\ \A l \in Keys, t \in HealthSources : allocations'[l][t] \subseteq allocations[l][t]
      <3>1. o \in Owners /\ TryReserve(k, o, s)
        BY <2>4
      <3>2. CapacityTypeOK' /\ \A l \in Keys, p \in Owners :
                allocations'[l][p] = IF l = k /\ p = o THEN allocations[l][p] \union {s}
                                     ELSE allocations[l][p]
        BY <3>1 DEF TryReserve, Reserved, CapacityTypeOK
      <3>3. \A t \in HealthSources : t \in Owners /\ t # o
        BY SourcesAreOwners
      <3> QED  BY <3>2, <3>3
    <2>5. CASE HealthPolled
      BY <2>5 DEF HealthPolled, SetExternalCounts, CapacityTypeOK
    <2> QED  BY <2>1, <2>2, <2>3, <2>4, <2>5 DEF OthersReserve
  <1> QED  BY <1>1, <1>2, <1>3, SlotsKept

LEMMA HealthInvKept ==
  ASSUME HealthInv, [HealthNext]_<<healthVars, capacityVars>>
  PROVE  HealthInv'
  <1>1. CASE UNCHANGED <<healthVars, capacityVars>>
    BY <1>1, QuietStepKeeps
  <1>2. CASE HealthNext
    <2>1. CASE \E s \in HealthSources : Requests(s)
      BY <2>1, QuietStepKeeps DEF Requests
    <2>2. CASE \E r \in HealthRuns : Looks(r) \/ Samples(r) \/ ProbeOver(r)
      BY <2>2, QuietStepKeeps DEF Looks, Samples, ProbeOver
    <2>3. CASE Periodic
      BY <2>3, QuietStepKeeps DEF Periodic
    <2>4. CASE \E k \in Keys : Preempts(k)
      BY <2>4, QuietStepKeeps DEF Preempts
    <2> QED  BY <1>2, <2>1, <2>2, <2>3, <2>4, BeginKeeps, EndKeeps, OthersKeep DEF HealthNext
  <1> QED  BY <1>1, <1>2

LEMMA HealthInvHolds == HealthSpec => []HealthInv
  BY HealthInvInit, HealthInvKept, PTL DEF HealthSpec
-----------------------------------------------------------------------------
\* The checks and the entries that name them keep their shape.
THEOREM HealthTypeCorrect == HealthSpec => []HealthTypeOK
  <1>1. HealthInv => HealthTypeOK
    BY DEF HealthInv
  <1> QED  BY <1>1, HealthInvHolds, PTL

\* A slot held for a health check belongs to a check that is under way, for any
\* number of sources and keys and however the periodic check, the requested one
\* and those who preempt them interleave (_run_source_health_check,
\* cancel_background_health_checks_for_capacity_key).
THEOREM HealthSlotsAreUsed == HealthSpec => []HealthSlotsHaveRuns
  <1>1. HealthInv => HealthSlotsHaveRuns
    BY DEF HealthInv
  <1> QED  BY <1>1, HealthInvHolds, PTL

\* The checks, those who preempt them and the other users of the connections
\* together use the registry as the abstract limiter allows.
THEOREM HealthImplementsLimiter == HealthSpec => ImplementsLimiter
  <1>1. HealthInv /\ [HealthNext]_<<healthVars, capacityVars>>
            => [Limiter!Next]_([k \in Keys |-> Held(k)])
    <2> SUFFICES ASSUME HealthInv, [HealthNext]_<<healthVars, capacityVars>>
                 PROVE  GrantsOne \/ OnlyHandsBack
      BY LimiterStep DEF HealthInv
    <2> USE DEF HealthInv
    <2>1. ASSUME \A k \in Keys, o \in Owners : allocations'[k][o] \subseteq allocations[k][o]
          PROVE  OnlyHandsBack
      BY <2>1 DEF OnlyHandsBack, Held
    <2>2. CASE UNCHANGED allocations
      BY <2>1, <2>2
    <2>3. ASSUME NEW r \in HealthRuns, Begins(r) \/ CheckEnds(r)
          PROVE  GrantsOne \/ OnlyHandsBack
      <3>1. r[1] \in Owners /\ r[1] \in Slots /\ HealthKey[r[1]] \in Keys
        BY SourcesAreOwners DEF HealthRuns
      <3>2. CASE TryReserve(HealthKey[r[1]], r[1], r[1])
        BY <3>1, <3>2 DEF GrantsOne
      <3>3. CASE Release(HealthKey[r[1]], r[1], r[1])
        BY <2>1, <3>1, <3>3, HandingBack DEF Release
      <3>4. CASE UNCHANGED capacityVars
        BY <2>2, <3>4 DEF capacityVars
      <3> QED  BY <2>3, <3>2, <3>3, <3>4 DEF Begins, CheckEnds
    <2>4. ASSUME NEW k \in Keys, Cleared(k)
          PROVE  OnlyHandsBack
      <3>1. Checks(k) \in SUBSET Owners
        BY SourcesAreOwners DEF Checks
      <3>2. \E l \in Keys, S \in SUBSET Owners :
              allocations' = [allocations EXCEPT ![l] = [o \in Owners |->
                                IF o \in S THEN @[o] \ {o} ELSE @[o]]]
        BY <2>4, <3>1 DEF Cleared
      <3> QED  BY <2>1, <2>4, <3>2, HandingBack DEF Cleared
    <2>5. CASE OthersReserve
      <3>1. CASE \E k \in Keys, o \in Owners, s \in Slots : TryReserve(k, o, s)
        BY <3>1 DEF GrantsOne
      <3>2. CASE \/ \E k \in Keys, o \in Owners, s \in Slots : Release(k, o, s)
                 \/ \E o \in Owners : ReleaseAll(o)
        BY <2>1, <3>2, HandingBack DEF Release, ReleaseAll
      <3> QED  BY <2>5, <3>1, <3>2 DEF OthersReserve
    <2>6. CASE HealthPolled \/ UNCHANGED <<healthVars, capacityVars>>
      BY <2>2, <2>6 DEF HealthPolled, SetExternalCounts, capacityVars
    <2>7. CASE \E s \in HealthSources : Requests(s)
      BY <2>2, <2>7 DEF Requests, capacityVars
    <2>8. CASE \E r \in HealthRuns : Looks(r) \/ Samples(r) \/ ProbeOver(r)
      BY <2>2, <2>8 DEF Looks, Samples, ProbeOver, capacityVars
    <2>9. CASE Periodic \/ \E k \in Keys : Preempts(k)
      BY <2>2, <2>9 DEF Periodic, Preempts, capacityVars
    <2> QED  BY <2>3, <2>4, <2>5, <2>6, <2>7, <2>8, <2>9 DEF HealthNext
  <1> QED
    BY <1>1, LimiterInit, HealthInvHolds, PTL
    DEF HealthSpec, ImplementsLimiter, Limiter!Spec
=============================================================================
