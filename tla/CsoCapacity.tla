----------------------------- MODULE CsoCapacity -----------------------------
(***************************************************************************)
(* The connection-limit ledger of the streaming core: the class            *)
(* CsoCapacityRegistry of backend/cso/capacity.py.  Every method takes the *)
(* registry's lock and awaits nothing while it holds it, so a method is    *)
(* one step.                                                               *)
(*                                                                         *)
(* allocations[k][o] is the set of slots owner o holds under key k.  The   *)
(* dictionary also keeps the empty entries a refused try_reserve leaves    *)
(* behind; they add nothing to any count and are not distinguished here.   *)
(***************************************************************************)
EXTENDS Naturals, FiniteSets

CONSTANTS Keys,         \* capacity keys
          Owners,       \* owner keys: one per ingest, VOD proxy, probe, ...
          Slots,        \* slot ids: the source ids of an ingest session
          Limit,        \* Limit[k]: source_capacity_limit of k's sources
          MaxExternal   \* bound on the polled external count of a key

ASSUME CapacityAssumption ==
    /\ IsFiniteSet(Owners) /\ IsFiniteSet(Slots)
    /\ Limit \in [Keys -> Nat]
    /\ MaxExternal \in Nat

VARIABLES allocations,      \* self._allocations
          externalCounts    \* self._external_counts

capacityVars == <<allocations, externalCounts>>

CapacityTypeOK ==
    /\ allocations \in [Keys -> [Owners -> SUBSET Slots]]
    /\ externalCounts \in [Keys -> 0..MaxExternal]

\* The slots of all owners under k, each with its owner.
Held(k) == {g \in Owners \X Slots : g[2] \in allocations[k][g[1]]}

CapacityInit ==
    /\ allocations = [k \in Keys |-> [o \in Owners |-> {}]]
    /\ externalCounts = [k \in Keys |-> 0]

-----------------------------------------------------------------------------
\* The test of try_reserve.
HasRoom(k) == Cardinality(Held(k)) + externalCounts[k] < Limit[k]

\* Altered: an owner with any slot under the key is let through.
CanReserve_KnownOwner(k, o, s) == allocations[k][o] # {} \/ HasRoom(k)

\* A slot held already is granted again, without counting twice.
CanReserve(k, o, s) == s \in allocations[k][o] \/ HasRoom(k)

Reserved(k, o, s) == [allocations EXCEPT ![k][o] = @ \union {s}]

\* Releasing a slot the owner does not hold changes nothing.
Released(k, o, s) == [allocations EXCEPT ![k][o] = @ \ {s}]

ReleasedAll(o) == [k \in Keys |-> [allocations[k] EXCEPT ![o] = {}]]

-----------------------------------------------------------------------------
TryReserve(k, o, s) ==
    /\ CanReserve(k, o, s)
    /\ allocations' = Reserved(k, o, s)
    /\ UNCHANGED externalCounts

Release(k, o, s) ==
    /\ allocations' = Released(k, o, s)
    /\ UNCHANGED externalCounts

ReleaseAll(o) ==
    /\ allocations' = ReleasedAll(o)
    /\ UNCHANGED externalCounts

\* The poller replaces the whole map with what TVHeadend reports.
SetExternalCounts ==
    /\ externalCounts' \in [Keys -> 0..MaxExternal]
    /\ UNCHANGED allocations

CapacityNext ==
    \/ \E k \in Keys, o \in Owners, s \in Slots :
           TryReserve(k, o, s) \/ Release(k, o, s)
    \/ \E o \in Owners : ReleaseAll(o)
    \/ SetExternalCounts

CapacitySpec == CapacityInit /\ [][CapacityNext]_capacityVars

-----------------------------------------------------------------------------
\* Never more slots out than the key's limit, whoever holds them and whatever
\* the external counts were when each was granted (try_reserve).
ReservationsWithinLimit ==
    \A k \in Keys : Cardinality(Held(k)) <= Limit[k]

\* A slot is only ever added while the slots of all owners and the external
\* connections together leave room for it (try_reserve).
GrantsLeaveRoomForExternal ==
    [][\A k \in Keys :
          (Held(k)' \ Held(k)) # {}
              => Cardinality(Held(k)') + externalCounts[k] <= Limit[k]
      ]_capacityVars

\* The registry is a connection limiter.
Limiter == INSTANCE ConnectionLimit
               WITH Grants <- Owners \X Slots,
                    held <- [k \in Keys |-> Held(k)]

\* Every method call is a grant within the limit or a hand-back.
ImplementsLimiter == Limiter!Spec
=============================================================================
