----------------------------- MODULE HealthCheck -----------------------------
(* Background stream health checks (channel_stream_health.py) with the probes *)
(* they run (stream_diagnostics.py): a check takes a slot of its source's     *)
(* connections, connects several times in a row, and may be cancelled for a   *)
(* viewer at any time.  A source may be checked by the periodic worker and on *)
(* request at once: both reserve the same slot under the same owner.          *)
EXTENDS CsoCapacity

CONSTANTS HealthSources,    \* a source is the owner and the slot of its check
          HealthKey         \* source_capacity_key
ASSUME HealthAssumption ==
  HealthSources \subseteq Owners \intersect Slots /\ HealthKey \in [HealthSources -> Keys]
CheckKinds == {"periodic", "requested"}

VARIABLES
  hcRun,       \* source, kind -> "idle", "due", "looked", "connecting",
               \* "sampling" or "over" (its finally is next)
  hcBusy,      \* source, kind -> connections it counted that no check holds
  hcEntry,     \* source -> the kind of its entry in _active_health_checks, or "none"
  hcCancel,    \* source, kind -> its probe was asked to stop
  hcClearing   \* keys that somebody waits for, having cancelled their checks
healthVars == <<hcRun, hcBusy, hcEntry, hcCancel, hcClearing>>

HealthRuns == HealthSources \X CheckKinds
Probing(r) == hcRun[r] \in {"connecting", "sampling", "over"}
Checks(k) == {s \in HealthSources : hcEntry[s] # "none" /\ HealthKey[s] = k}
CheckGoes(r, phase) == hcRun' = [hcRun EXCEPT ![r] = phase]

HealthInit ==
  /\ hcRun = [r \in HealthRuns |-> "idle"] /\ hcBusy = [r \in HealthRuns |-> 0]
  /\ hcEntry = [s \in HealthSources |-> "none"] /\ hcCancel = [r \in HealthRuns |-> FALSE]
  /\ hcClearing = {}

(******************************** who asks **********************************)
\* schedule_background_health_check_for_source, after a source has failed.
Requests(s) ==
  /\ hcEntry[s] = "none" /\ hcRun[<<s, "requested">>] = "idle"
  /\ CheckGoes(<<s, "requested">>, "due")
  /\ UNCHANGED <<hcBusy, hcEntry, hcCancel, hcClearing, capacityVars>>

\* The periodic worker: one pass at a time, one source of each key in it.
Periodic ==
  /\ \A s \in HealthSources : hcRun[<<s, "periodic">>] = "idle"
  /\ \E S \in SUBSET HealthSources :
       /\ S # {} /\ \A s, t \in S : HealthKey[s] = HealthKey[t] => s = t
       /\ hcRun' = [r \in HealthRuns |-> IF r[1] \in S /\ r[2] = "periodic" THEN "due" ELSE hcRun[r]]
  /\ UNCHANGED <<hcBusy, hcEntry, hcCancel, hcClearing, capacityVars>>

(******************************** one check *********************************)
\* _run_source_health_check up to its first wait: a source that is not to be
\* checked is skipped; the slots under its key are counted.
Looks(r) ==
  /\ hcRun[r] = "due"
  /\ \/ CheckGoes(r, "idle") /\ UNCHANGED hcBusy
     \/ CheckGoes(r, "looked") /\ hcBusy' = [hcBusy EXCEPT ![r] = Cardinality(Held(HealthKey[r[1]]))]
  /\ UNCHANGED <<hcEntry, hcCancel, hcClearing, capacityVars>>

Begins_Unreleased(r) ==              \* Altered: without a URL the slot is kept.
  LET s == r[1]  k == HealthKey[s] IN
  /\ hcRun[r] = "looked"
  /\ hcBusy' = [hcBusy EXCEPT ![r] = 0]
  /\ \/ CheckGoes(r, "idle") /\ UNCHANGED <<capacityVars, hcEntry>>
     \/ /\ hcBusy[r] <= Cardinality(Checks(k)) /\ externalCounts[k] = 0
        /\ TryReserve(k, s, s)
        /\ \/ CheckGoes(r, "idle") /\ UNCHANGED hcEntry
           \/ CheckGoes(r, "connecting") /\ hcEntry' = [hcEntry EXCEPT ![s] = r[2]]
  /\ UNCHANGED <<hcCancel, hcClearing>>
\* The rest of it, once the activity is known: by then the count may be stale.
\* Refused, or without a URL (the slot is given back), or entered and started.
Begins(r) ==
  LET s == r[1]  k == HealthKey[s]
      quiet == hcBusy[r] <= Cardinality(Checks(k)) /\ externalCounts[k] = 0
      granted == quiet /\ CanReserve(k, s, s) IN
  /\ hcRun[r] = "looked"
  /\ hcBusy' = [hcBusy EXCEPT ![r] = 0]
  /\ \/ ~granted /\ CheckGoes(r, "idle") /\ UNCHANGED <<capacityVars, hcEntry>>
     \/ granted /\ CheckGoes(r, "idle") /\ Release(k, s, s) /\ UNCHANGED hcEntry
     \/ quiet /\ TryReserve(k, s, s) /\ CheckGoes(r, "connecting")
          /\ hcEntry' = [hcEntry EXCEPT ![s] = r[2]]
  /\ UNCHANGED <<hcCancel, hcClearing>>

\* StreamProbe.run: the name, a preflight, the media's shape and the route trace
\* are taken first; only ffmpeg's sample after them looks at the request to stop.
Samples(r) ==
  /\ hcRun[r] = "connecting" /\ CheckGoes(r, "sampling")
  /\ UNCHANGED <<hcBusy, hcEntry, hcCancel, hcClearing, capacityVars>>

\* The probe is over: an error, its hard limit, or the end of the trace.
ProbeOver(r) ==
  /\ hcRun[r] \in {"connecting", "sampling"} /\ CheckGoes(r, "over")
  /\ UNCHANGED <<hcBusy, hcEntry, hcCancel, hcClearing, capacityVars>>

\* The finally of _run_source_health_check: whoever's entry it is, it goes.
CheckEnds(r) ==
  LET s == r[1] IN
  /\ hcRun[r] = "over" /\ CheckGoes(r, "idle")
  /\ hcEntry' = [hcEntry EXCEPT ![s] = "none"] /\ hcCancel' = [hcCancel EXCEPT ![r] = FALSE]
  /\ Release(HealthKey[s], s, s)
  /\ UNCHANGED <<hcBusy, hcClearing>>

(******************************* preemption *********************************)
\* cancel_background_health_checks_for_capacity_key asks the entered probes ...
Preempts(k) ==
  /\ Checks(k) # {} /\ k \notin hcClearing
  /\ hcCancel' = [r \in HealthRuns |-> hcCancel[r] \/ (r[1] \in Checks(k) /\ hcEntry[r[1]] = r[2])]
  /\ hcClearing' = hcClearing \union {k}
  /\ UNCHANGED <<hcRun, hcBusy, hcEntry, capacityVars>>

\* ... waits for two seconds, and takes back the slot of whatever is entered then.
Cleared(k) ==
  /\ k \in hcClearing /\ hcClearing' = hcClearing \ {k}
  /\ allocations' = [allocations EXCEPT ![k] = [o \in Owners |->
                       IF o \in Checks(k) THEN @[o] \ {o} ELSE @[o]]]
  /\ UNCHANGED <<hcRun, hcBusy, hcEntry, hcCancel, externalCounts>>

\* Others share the connections.
OthersReserve ==
  /\ \E o \in Owners \ HealthSources :
       \/ \E k \in Keys, s \in Slots : TryReserve(k, o, s) \/ Release(k, o, s)
       \/ ReleaseAll(o)
  /\ UNCHANGED healthVars
HealthPolled == SetExternalCounts /\ UNCHANGED healthVars

HealthNext ==
  \/ \E s \in HealthSources : Requests(s)
  \/ \E r \in HealthRuns : Looks(r) \/ Begins(r) \/ Samples(r) \/ ProbeOver(r)
                       \/ CheckEnds(r)
  \/ \E k \in Keys : Preempts(k) \/ Cleared(k)
  \/ Periodic \/ OthersReserve \/ HealthPolled

HealthSpec == CapacityInit /\ HealthInit /\ [][HealthNext]_<<healthVars, capacityVars>>

HealthTypeOK ==
  /\ hcRun \in [HealthRuns -> {"idle", "due", "looked", "connecting", "sampling", "over"}]
  /\ hcBusy \in [HealthRuns -> Nat]
  /\ hcEntry \in [HealthSources -> CheckKinds \union {"none"}]
  /\ hcCancel \in [HealthRuns -> BOOLEAN] /\ hcClearing \subseteq Keys

(******************************** properties ********************************)
\* A slot held for a health check belongs to a check that is under way: skipped,
\* doubled, preempted or failed, no check leaves its source's connection taken.
HealthSlotsHaveRuns ==
  \A k \in Keys, s \in HealthSources :
    allocations[k][s] # {} => \E kind \in CheckKinds : Probing(<<s, kind>>)
=============================================================================
