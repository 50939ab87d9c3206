------------------------------ MODULE CsoIngest ------------------------------
(***************************************************************************)
(* One shared ingest session: the class CsoIngestSession of                *)
(* backend/cso/live_ingest.py, with the capacity registry it draws on, the *)
(* ffmpeg processes it spawns, the output sessions that share it (clients) *)
(* and the other owners competing for the same connections.                *)
(*                                                                         *)
(* Everything runs on one asyncio loop, so a stretch of code between two   *)
(* awaits is one step.  A task that reaches `async with self.lock` queues  *)
(* in lockq; the head of lockq owns the lock (asyncio.Lock is first in,    *)
(* first out) and does its locked stretch in one step, except for          *)
(* _start_best_source_unlocked, which awaits a spawn with the lock held.   *)
(*                                                                         *)
(* A process is the number of its process_token: the token counts          *)
(* activations, so the n-th process spawned has token n.                   *)
(***************************************************************************)
EXTENDS CsoCapacity, Sequences

CONSTANTS Self,          \* capacity_owner_key of this session
          Sources,       \* the channel's sources: ids, used as slot ids
          KeyOf,         \* KeyOf[s]: source_capacity_key(s)
          HandoffSources,\* sources whose ffmpeg writes segments into a directory
          Clients,       \* output sessions attached to this ingest
          NoSource,      \* current_source = None
          FailoverModes, \* allow_failover: channels TRUE, lone sources FALSE
          MaxProcess,    \* bound: spawns that can succeed
          MaxLives,      \* bound: start() calls that find a source to try
          DbMayFail,     \* may the refresh of the sources raise?
          MayCancel      \* may a request be cancelled inside start()?

Pids == 1..MaxProcess
Reader(p) == <<"reader", p>>      \* _read_loop(token = p)
Health(p) == <<"health", p>>      \* _health_loop(token = p)
Client(c) == <<"client", c>>      \* the output session of a client
Recovery(c) == <<"recovery", c>>  \* its _ingest_recovery_loop
Readers == {Reader(p) : p \in Pids}
Healths == {Health(p) : p \in Pids}
ClientTasks == {Client(c) : c \in Clients}
Recoveries == {Recovery(c) : c \in Clients}
Tasks == ClientTasks \union Recoveries \union Readers \union Healths

ASSUME IngestAssumption ==
    /\ Self \in Owners
    /\ Sources \subseteq Slots /\ NoSource \notin Slots
    /\ KeyOf \in [Sources -> Keys] /\ HandoffSources \subseteq Sources
    /\ FailoverModes \subseteq BOOLEAN /\ DbMayFail \in BOOLEAN
    /\ MayCancel \in BOOLEAN
    /\ MaxProcess \in Nat /\ MaxLives \in Nat

VARIABLES
    running,        \* self.running
    process,        \* self.process: a process, or 0 for None
    current,        \* self.current_source, and with it current_capacity_key
    token,          \* self.process_token
    healthTask,     \* self.health_task: the token it watches, 0 for None
    healthReason,   \* self.health_failover_reason is set
    failoverFailed, \* self.failover_failed_sources
    heldDown,       \* sources whose failed_source_until lies ahead
    hunting,        \* self.failover_in_progress
    eligible,       \* self._eligible_source_ids_unlocked()
    handoff,        \* self.segmented_handoff_session: {} for None, else the
                    \* set of its process, {0} while it has none
    subscribers,    \* keys of self.subscribers: clients with a queue here
    references,     \* self.lifecycle_references: clients reading the segments
    eof,            \* clients whose queue ends in an end-of-stream marker
    lockq,          \* waiters of self.lock, the owner first
    attempt,        \* per task: its _start_best_source_unlocked call
    pc,             \* where each task is
    victim,         \* the process a stop() or health task has captured
    bridge,         \* per reader: the source to restart after a clean end
    allowFailover,  \* self.allow_failover, fixed when the session is made
    proc,           \* state of each ffmpeg process
    lives           \* starts that found a source (bounded by MaxLives)

sessionVars == <<running, process, current, token, healthTask, healthReason,
                 failoverFailed, heldDown, hunting, eligible, handoff>>
clientVars == <<subscribers, references, eof>>
taskVars == <<lockq, attempt, pc, victim, bridge>>
worldVars == <<allowFailover, proc, lives>>
vars == <<capacityVars, sessionVars, clientVars, taskVars, worldVars>>

NoAttempt == [mode |-> "none", todo |-> {}, trying |-> NoSource]
Attempts == [mode : {"none", "start", "restart", "again", "bridge",
                     "failover"},
             todo : SUBSET Sources, trying : Sources \union {NoSource}]

ClientLabels == {"out", "start", "restart", "again", "choose", "spawn",
                 "started", "join", "in", "detached", "refer", "linked",
                 "leave", "stop", "drain", "eof", "closing"}
RecoveryLabels == {"idle", "new", "over", "start", "choose", "spawn",
                   "started", "join", "rejoin"}
ReaderLabels == {"off", "read", "check", "switch", "recover", "refresh",
                 "bridge", "bridging", "loop", "choose", "spawn", "retry",
                 "exhausted", "ending", "stop", "drain", "eof", "done"}
HealthLabels == {"off", "watch", "request", "terminate", "done"}

Labels(t) == CASE t \in ClientTasks -> ClientLabels
               [] t \in Recoveries -> RecoveryLabels
               [] t \in Readers -> ReaderLabels
               [] t \in Healths -> HealthLabels

SessionTypeOK ==
    /\ running \in BOOLEAN /\ hunting \in BOOLEAN /\ healthReason \in BOOLEAN
    /\ process \in 0..MaxProcess /\ token \in 0..MaxProcess
    /\ healthTask \in 0..MaxProcess
    /\ current \in Sources \union {NoSource}
    /\ failoverFailed \subseteq Sources /\ heldDown \subseteq Sources
    /\ eligible \subseteq Sources
    /\ handoff = {} \/ \E p \in 0..MaxProcess : handoff = {p}

TaskTypeOK ==
    /\ lockq \in Seq(Tasks)
    /\ attempt \in [Tasks -> Attempts]
    /\ DOMAIN pc = Tasks /\ \A t \in Tasks : pc[t] \in Labels(t)
    /\ victim \in [Tasks -> 0..MaxProcess]
    /\ bridge \in [Pids -> Sources \union {NoSource}]

WorldTypeOK ==
    /\ allowFailover \in BOOLEAN /\ lives \in 0..MaxLives
    /\ proc \in [Pids -> {"none", "up", "signalled", "dead"}]

TypeOK ==
    /\ CapacityTypeOK /\ SessionTypeOK /\ TaskTypeOK /\ WorldTypeOK
    /\ subscribers \subseteq Clients /\ references \subseteq Clients
    /\ eof \subseteq Clients

Init ==
    /\ CapacityInit
    /\ running = FALSE /\ process = 0 /\ current = NoSource /\ token = 0
    /\ healthTask = 0 /\ healthReason = FALSE
    /\ failoverFailed = {} /\ heldDown = {} /\ hunting = FALSE
    /\ eligible \in SUBSET Sources /\ handoff = {}
    /\ subscribers = {} /\ references = {} /\ eof = {}
    /\ lockq = <<>> /\ attempt = [t \in Tasks |-> NoAttempt]
    /\ pc = [t \in Tasks |-> IF t \in ClientTasks THEN "out"
                             ELSE IF t \in Recoveries THEN "idle" ELSE "off"]
    /\ victim = [t \in Tasks |-> 0]
    /\ bridge = [p \in Pids |-> NoSource]
    /\ proc = [p \in Pids |-> "none"]
    /\ allowFailover \in FailoverModes /\ lives = 0

-----------------------------------------------------------------------------
(* The session's lock.                                                      *)

\* Task t reaches `async with self.lock`; it goes on at label l.
Await(t, l) ==
    /\ lockq' = Append(lockq, t)
    /\ pc' = [pc EXCEPT ![t] = l]

\* Task t owns the lock and is about to do its locked stretch at label l.
Owns(t, l) == pc[t] = l /\ lockq # <<>> /\ Head(lockq) = t

\* Task t leaves the locked stretch and goes on at label l.
Unlock(t, l) ==
    /\ lockq' = Tail(lockq)
    /\ pc' = [pc EXCEPT ![t] = l]

\* Task t leaves the locked stretch and at once queues for the next one.
UnlockAwait(t, l) ==
    /\ lockq' = Append(Tail(lockq), t)
    /\ pc' = [pc EXCEPT ![t] = l]

-----------------------------------------------------------------------------
(* start() and _start_best_source_unlocked.                                 *)

\* Who still reads: outputs with a queue here, or reading the segments.
Readership == subscribers \union references

\* A subscription route starts the ingest before it attaches an output.
ClientStart(c) ==
    /\ pc[Client(c)] = "out"
    /\ Await(Client(c), "start")
    /\ UNCHANGED <<capacityVars, sessionVars, clientVars, worldVars, attempt,
                   victim, bridge>>

\* An output's recovery loop looks at the ingest every second.
RecoveryStart(c) ==
    /\ pc[Recovery(c)] = "idle"
    /\ pc[Client(c)] \in {"in", "detached"}
    /\ ~running /\ ~hunting
    /\ Await(Recovery(c), "start")
    /\ UNCHANGED <<capacityVars, sessionVars, clientVars, worldVars, attempt,
                   victim, bridge>>

\* start() is called as "start" by routes and recovery loops, as "restart" by
\* an output that attaches to a queue and as "again" by one that is to read
\* the segments, whatever comes of it.
Calls == {"start", "restart", "again"}

\* An output wants its queue: refused before the lock while there is a handoff.
Attaches(t, segments) ==
    IF segments = {} THEN UnlockAwait(t, "join") ELSE Unlock(t, "out")

StartAlreadyRunning(t) ==
    /\ \/ Owns(t, "start") /\ Unlock(t, "started")
       \/ Owns(t, "restart") /\ Attaches(t, handoff)
       \/ Owns(t, "again") /\ UnlockAwait(t, "refer")
    /\ running
    /\ UNCHANGED <<capacityVars, sessionVars, clientVars, worldVars, attempt,
                   victim, bridge>>

\* A fresh start forgets the last cycle's failures; sources held down or not
\* eligible are passed over.  Past MaxLives no source is left to try.
StartFresh(t) ==
    /\ \E call \in Calls :
          /\ Owns(t, call)
          /\ attempt' = [attempt EXCEPT ![t] =
                [mode |-> call, trying |-> NoSource,
                 todo |-> IF lives < MaxLives THEN eligible \ heldDown ELSE {}]]
    /\ ~running
    /\ failoverFailed' = {} /\ hunting' = FALSE
    /\ lives' = IF lives < MaxLives THEN lives + 1 ELSE lives
    /\ pc' = [pc EXCEPT ![t] = "choose"]
    /\ UNCHANGED <<capacityVars, running, process, current, token, healthTask,
                   healthReason, heldDown, eligible, handoff, clientVars, lockq,
                   victim, bridge, allowFailover, proc>>

\* The next candidate (the order depends on priorities and health) gets its
\* connection reserved before anything is spawned for it; one that resolves to
\* no URL gives it back at once.  A source with segments replaces the handoff
\* before its ffmpeg is up, whatever becomes of the older one.
ChooseCandidate(t) ==
    /\ Owns(t, "choose")
    /\ \E s \in attempt[t].todo :
          \/ /\ TryReserve(KeyOf[s], Self, s)
             /\ attempt' = [attempt EXCEPT ![t].todo = @ \ {s}, ![t].trying = s]
             /\ handoff' = IF s \in HandoffSources THEN {0} ELSE handoff
             /\ pc' = [pc EXCEPT ![t] = "spawn"]
          \/ /\ \/ ~CanReserve(KeyOf[s], Self, s) /\ UNCHANGED capacityVars
                \/ CanReserve(KeyOf[s], Self, s) /\ Release(KeyOf[s], Self, s)
             /\ attempt' = [attempt EXCEPT ![t].todo = @ \ {s}]
             /\ UNCHANGED <<handoff, pc>>
    /\ UNCHANGED <<running, process, current, token, healthTask, healthReason,
                   failoverFailed, heldDown, hunting, eligible, clientVars,
                   worldVars, lockq, victim, bridge>>

\* No URL answered: the candidate's slot goes back and the next one is tried.
SpawnFails(t) ==
    /\ Owns(t, "spawn")
    /\ running' = FALSE /\ process' = 0 /\ current' = NoSource
    /\ Release(KeyOf[attempt[t].trying], Self, attempt[t].trying)
    /\ attempt' = [attempt EXCEPT ![t].trying = NoSource]
    /\ pc' = [pc EXCEPT ![t] = "choose"]
    /\ UNCHANGED <<token, healthTask, healthReason, failoverFailed, heldDown,
                   hunting, eligible, handoff, clientVars, worldVars, lockq,
                   victim, bridge>>

\* Where a task goes on once its attempt has a process; an output attaches.
AfterSpawn(t) == CASE attempt[t].mode = "start" -> "started"
                   [] attempt[t].mode = "restart" ->
                          IF handoff = {} THEN "join" ELSE "out"
                   [] attempt[t].mode = "again" -> "refer"
                   [] OTHER -> "done"

\* The process is activated: a new token and the slot of the source it replaces,
\* if there is one, goes back.  While a handoff is set, whatever source it was
\* set for, the process gets neither a reader nor a health loop.
SpawnSucceeds(t) ==
    /\ Owns(t, "spawn")
    /\ token < MaxProcess
    /\ LET n == token + 1
           watched == handoff = {}
       IN /\ token' = n /\ process' = n
          /\ healthTask' = IF watched THEN n ELSE 0
          /\ handoff' = IF attempt[t].trying \in HandoffSources THEN {n}
                                                              ELSE handoff
          /\ proc' = [proc EXCEPT ![n] = "up"]
          /\ pc' = [pc EXCEPT
                ![t] = AfterSpawn(t),
                ![Reader(n)] = IF watched THEN "read" ELSE @,
                ![Health(n)] = IF ~watched THEN @
                               ELSE IF allowFailover THEN "watch" ELSE "done"]
    /\ running' = TRUE /\ healthReason' = FALSE
    /\ current' = attempt[t].trying
    /\ IF current # NoSource THEN Release(KeyOf[current], Self, current)
                             ELSE UNCHANGED capacityVars
    /\ hunting' = (hunting /\ attempt[t].mode # "failover")
    /\ attempt' = [attempt EXCEPT ![t] = NoAttempt]
    /\ lockq' = IF AfterSpawn(t) \in {"join", "refer"}
                THEN Append(Tail(lockq), t) ELSE Tail(lockq)
    /\ UNCHANGED <<failoverFailed, heldDown, eligible, clientVars, victim,
                   bridge, allowFailover, lives>>

\* start() found nothing: the session is left not running.
StartFails(t) ==
    /\ Owns(t, "choose")
    /\ attempt[t].todo = {}
    /\ \/ /\ attempt[t].mode = "start"
          /\ Unlock(t, IF t \in Recoveries THEN "idle" ELSE "out")
       \/ /\ attempt[t].mode = "restart"
          /\ Attaches(t, handoff)
       \/ /\ attempt[t].mode = "again"
          /\ UnlockAwait(t, "refer")
    /\ running' = FALSE
    /\ attempt' = [attempt EXCEPT ![t] = NoAttempt]
    /\ UNCHANGED <<capacityVars, process, current, token, healthTask,
                   healthReason, failoverFailed, heldDown, hunting, eligible,
                   handoff, clientVars, worldVars, victim, bridge>>

-----------------------------------------------------------------------------
(* Clients: add_subscriber, remove_subscriber, end of stream.               *)

\* The route answers "unavailable" unless the ingest is running; if it is, the
\* output starts: it sees whether there are segments to read and then starts
\* the ingest once more.
ClientStarted(c) ==
    /\ pc[Client(c)] = "started"
    /\ IF running THEN Await(Client(c), IF handoff = {} THEN "restart" ELSE "again")
                  ELSE /\ pc' = [pc EXCEPT ![Client(c)] = "out"]
                       /\ UNCHANGED lockq
    /\ UNCHANGED <<capacityVars, sessionVars, clientVars, worldVars, attempt,
                   victim, bridge>>

\* _ensure_ingest_queue, called by the recovery loop: only an output that lost
\* its queue asks for another, and not while there is a handoff.
RecoveryStarted(c) ==
    /\ pc[Recovery(c)] = "started"
    /\ IF running /\ pc[Client(c)] = "detached" /\ handoff = {}
       THEN Await(Recovery(c), "join")
       ELSE /\ pc' = [pc EXCEPT ![Recovery(c)] = "idle"]
            /\ UNCHANGED lockq
    /\ UNCHANGED <<capacityVars, sessionVars, clientVars, worldVars, attempt,
                   victim, bridge>>

\* The same, called by the output's writer on its own poll, which goes on when
\* the recovery loop is over.
Reattach(c) ==
    /\ pc[Client(c)] = "detached" /\ running /\ handoff = {}
    /\ pc[Recovery(c)] \in {"idle", "over"}
    /\ Await(Recovery(c), IF pc[Recovery(c)] = "idle" THEN "join" ELSE "rejoin")
    /\ UNCHANGED <<capacityVars, sessionVars, clientVars, worldVars, attempt,
                   victim, bridge>>

\* add_subscriber: a new, empty queue under the client's key.
Subscribe(c) ==
    /\ lockq' = Tail(lockq)
    /\ subscribers' = subscribers \union {c}
    /\ eof' = eof \ {c}
    /\ UNCHANGED <<capacityVars, sessionVars, references, worldVars, attempt,
                   victim, bridge>>

\* The output's own process may fail to start; its queue then stays behind.
ClientJoins(c) ==
    /\ Owns(Client(c), "join")
    /\ Subscribe(c)
    /\ \/ pc' = [pc EXCEPT ![Client(c)] = "in", ![Recovery(c)] = "new"]
       \/ pc' = [pc EXCEPT ![Client(c)] = "out"]

\* The recovery loop ends at once if the ingest hands over segments.
RecoveryBegins(c) ==
    /\ pc[Recovery(c)] = "new"
    /\ pc' = [pc EXCEPT ![Recovery(c)] = IF handoff = {} THEN "idle" ELSE "over"]
    /\ UNCHANGED <<capacityVars, sessionVars, clientVars, worldVars, lockq,
                   attempt, victim, bridge>>

\* add_lifecycle_reference: the output reads the segments and needs no queue.
\* If its process does not start, as when a stop has taken the playlist away,
\* the reference goes again.
ClientRefers(c) ==
    /\ Owns(Client(c), "refer")
    /\ references' = references \union {c}
    /\ \/ handoff # {} /\ Unlock(Client(c), "linked")
       \/ UnlockAwait(Client(c), "leave")
    /\ UNCHANGED <<capacityVars, sessionVars, subscribers, eof, worldVars,
                   attempt, victim, bridge>>

RecoveryJoins(c) ==
    /\ pc[Recovery(c)] \in {"join", "rejoin"}
    /\ Owns(Recovery(c), pc[Recovery(c)])
    /\ Subscribe(c)
    /\ pc' = [pc EXCEPT ![Recovery(c)] = IF @ = "join" THEN "idle" ELSE "over",
                        ![Client(c)] = IF @ = "detached" THEN "in" ELSE @]

\* The output's writer takes the end-of-stream marker; it lets go of the queue
\* only if the ingest is not running by then.
ReadEof(c) ==
    /\ pc[Client(c)] = "in" /\ c \in eof
    /\ eof' = eof \ {c}
    /\ pc' = [pc EXCEPT ![Client(c)] = IF running THEN @ ELSE "detached"]
    /\ UNCHANGED <<capacityVars, sessionVars, subscribers, references, worldVars,
                   lockq, attempt, victim, bridge>>

\* The output stops.  It unsubscribes only if it still has its queue.
ClientLeaves(c) ==
    /\ \/ /\ pc[Client(c)] \in {"in", "linked"}
          /\ Await(Client(c), "leave")
       \/ /\ pc[Client(c)] = "detached"
          /\ pc' = [pc EXCEPT ![Client(c)] = "closing"]
          /\ UNCHANGED lockq
    /\ UNCHANGED <<capacityVars, sessionVars, clientVars, worldVars, attempt,
                   victim, bridge>>

\* remove_subscriber, or remove_lifecycle_reference: the last to go stops it.
RemoveSubscriber(c) ==
    /\ Owns(Client(c), "leave")
    /\ IF c \in references
       THEN /\ references' = references \ {c}
            /\ UNCHANGED <<subscribers, eof>>
       ELSE /\ subscribers' = subscribers \ {c}
            /\ eof' = eof \ {c}
            /\ UNCHANGED references
    /\ IF (subscribers \union references)' = {}
       THEN UnlockAwait(Client(c), "stop")
       ELSE Unlock(Client(c), "closing")
    /\ UNCHANGED <<capacityVars, sessionVars, worldVars, attempt, victim,
                   bridge>>

\* The lock's waiters once t, which waits at most once, has been cancelled.
Place(t) == CHOOSE i \in DOMAIN lockq : lockq[i] = t

Without(t) ==
    IF \E i \in DOMAIN lockq : lockq[i] = t
    THEN [j \in 1..(Len(lockq) - 1) |-> lockq[IF j < Place(t) THEN j ELSE j + 1]]
    ELSE lockq

\* Last, the output cancels its recovery loop, wherever that is: a start()
\* cancelled at its spawn gives up the lock but not the slot it reserved.
CloseOutput(c) ==
    /\ pc[Client(c)] = "closing"
    /\ pc' = [pc EXCEPT ![Client(c)] = "out", ![Recovery(c)] = "idle"]
    /\ lockq' = Without(Recovery(c))
    /\ attempt' = [attempt EXCEPT ![Recovery(c)] = NoAttempt]
    /\ UNCHANGED <<capacityVars, sessionVars, clientVars, worldVars, victim,
                   bridge>>

\* The web server cancels the request task of a client that has gone away.  At
\* a spawn the ffmpeg under way has no number yet and is not looked at here;
\* one that writes segments would stay behind.
RequestCancelled(c) ==
    /\ MayCancel
    /\ pc[Client(c)] \in {"start", "restart", "again", "spawn", "join", "refer"}
    /\ pc' = [pc EXCEPT ![Client(c)] = "out"]
    /\ lockq' = Without(Client(c))
    /\ attempt' = [attempt EXCEPT ![Client(c)] = NoAttempt]
    /\ UNCHANGED <<capacityVars, sessionVars, clientVars, worldVars, victim,
                   bridge>>

-----------------------------------------------------------------------------
(* A process ends, and its reader looks for a replacement.                  *)

ProcessEnds(p) ==
    /\ proc[p] \in {"up", "signalled"}
    /\ proc' = [proc EXCEPT ![p] = "dead"]
    /\ UNCHANGED <<capacityVars, sessionVars, clientVars, taskVars, allowFailover,
                   lives>>

\* Only the reader of the latest process acts on its end; whether that is
\* still the process of the session is not asked.
ReaderEnds(p) ==
    /\ pc[Reader(p)] = "read" /\ proc[p] = "dead"
    /\ IF token = p THEN Await(Reader(p), "check")
                    ELSE /\ pc' = [pc EXCEPT ![Reader(p)] = "done"]
                         /\ UNCHANGED lockq
    /\ UNCHANGED <<capacityVars, sessionVars, clientVars, worldVars, attempt,
                   victim, bridge>>

\* Altered: with nobody left the reader just returns.
CheckSubscribers_Returns(p) ==
    /\ Owns(Reader(p), "check")
    /\ IF Readership = {} THEN Unlock(Reader(p), "done")
                          ELSE UnlockAwait(Reader(p), "switch")
    /\ UNCHANGED <<capacityVars, sessionVars, clientVars, worldVars, attempt,
                   victim, bridge>>

CheckSubscribers(p) ==
    /\ Owns(Reader(p), "check")
    /\ UnlockAwait(Reader(p), IF Readership = {} THEN "stop" ELSE "switch")
    /\ UNCHANGED <<capacityVars, sessionVars, clientVars, worldVars, attempt,
                   victim, bridge>>

\* Nobody is left by the time the lock is held.  The slot is released under
\* no slot id, which releases nothing.
SwitchAbandoned(p) ==
    /\ Owns(Reader(p), "switch")
    /\ Readership = {}
    /\ running' = FALSE /\ process' = 0 /\ current' = NoSource
    /\ UnlockAwait(Reader(p), "stop")
    /\ UNCHANGED <<capacityVars, token, healthTask, healthReason,
                   failoverFailed, heldDown, hunting, eligible, handoff,
                   clientVars, worldVars, attempt, victim, bridge>>

\* How the end of a process is read: health loops ask for a failover over
\* speed and stalls (a hold-down follows) or HTTP errors; else it is a clean
\* end, a crash, or an exit that looks like a connection refused.
EndKinds == IF healthReason THEN {"slow", "errors"}
                            ELSE {"clean", "crash", "connectivity"}

\* Where the reader goes on when the failed source has been let go.
AfterSwitch(kind) ==
    IF ~allowFailover THEN IF kind = "clean" THEN "stop" ELSE "ending"
    ELSE IF kind = "connectivity" /\ Cardinality(Sources) = 1
         THEN "exhausted"
         ELSE "recover"

SwitchSection(p) ==
    /\ Owns(Reader(p), "switch")
    /\ Readership # {}
    /\ \E kind \in EndKinds :
          LET failed == {current} \ {NoSource}
              next == AfterSwitch(kind)
          IN  /\ heldDown' = heldDown \union
                     IF kind \in {"slow", "connectivity"}
                        /\ Cardinality(Sources) > 1 THEN failed ELSE {}
              /\ failoverFailed' = failoverFailed \union failed
              /\ running' = (next = "recover")
              /\ bridge' = [bridge EXCEPT ![p] = IF kind = "clean"
                                                 THEN current ELSE NoSource]
              /\ IF next = "stop" THEN UnlockAwait(Reader(p), "stop")
                                  ELSE Unlock(Reader(p), next)
    /\ process' = 0 /\ current' = NoSource
    /\ IF current # NoSource THEN Release(KeyOf[current], Self, current)
                             ELSE UNCHANGED capacityVars
    /\ UNCHANGED <<token, healthTask, healthReason, hunting, eligible, handoff,
                   clientVars, worldVars, attempt, victim>>

\* A session without failover reports the loss and stops.
SwitchReported(p) ==
    /\ pc[Reader(p)] = "ending"
    /\ Await(Reader(p), "stop")
    /\ UNCHANGED <<capacityVars, sessionVars, clientVars, worldVars, attempt,
                   victim, bridge>>

\* The hunt for a replacement begins by reading the sources anew.
Recover(p) ==
    /\ pc[Reader(p)] = "recover"
    /\ hunting' = TRUE
    /\ \/ Await(Reader(p), "refresh")
       \/ /\ DbMayFail                   \* the reader task dies with the error
          /\ pc' = [pc EXCEPT ![Reader(p)] = "done"]
          /\ UNCHANGED lockq
    /\ UNCHANGED <<capacityVars, running, process, current, token, healthTask,
                   healthReason, failoverFailed, heldDown, eligible, handoff,
                   clientVars, worldVars, attempt, victim, bridge>>

RefreshSection(p) ==
    /\ Owns(Reader(p), "refresh")
    /\ eligible' \in SUBSET Sources
    /\ UnlockAwait(Reader(p), IF bridge[p] = NoSource THEN "loop" ELSE "bridge")
    /\ UNCHANGED <<capacityVars, running, process, current, token, healthTask,
                   healthReason, failoverFailed, heldDown, hunting, handoff,
                   clientVars, worldVars, attempt, victim, bridge>>

\* The only eligible source ended cleanly: it is started again at once, under
\* the lock taken anew.
BridgeChosen(p) ==
    /\ Owns(Reader(p), "bridge")
    /\ UnlockAwait(Reader(p), IF eligible = {bridge[p]} THEN "bridging" ELSE "loop")
    /\ UNCHANGED <<capacityVars, sessionVars, clientVars, worldVars, attempt,
                   victim, bridge>>

BridgeSection(p) ==
    /\ Owns(Reader(p), "bridging")
    /\ failoverFailed' = {}
    /\ attempt' = [attempt EXCEPT ![Reader(p)] =
          [mode |-> "bridge", todo |-> eligible, trying |-> NoSource]]
    /\ pc' = [pc EXCEPT ![Reader(p)] = "choose"]
    /\ UNCHANGED <<capacityVars, running, process, current, token, healthTask,
                   healthReason, heldDown, hunting, eligible, handoff,
                   clientVars, worldVars, lockq, victim, bridge>>

\* Altered: the sources that failed in this cycle are not passed over.
LoopSection_NoExclusion(p) ==
    /\ Owns(Reader(p), "loop")
    /\ attempt' = [attempt EXCEPT ![Reader(p)] =
          [mode |-> "failover", trying |-> NoSource,
           todo |-> eligible \ heldDown]]
    /\ pc' = [pc EXCEPT ![Reader(p)] = "choose"]
    /\ UNCHANGED <<capacityVars, sessionVars, clientVars, worldVars, lockq,
                   victim, bridge>>

\* One round of the hunt: the sources that have not failed in this cycle, or,
\* when all have, all of them again and regardless of hold-downs.
LoopSection(p) ==
    /\ Owns(Reader(p), "loop")
    /\ LET untried == eligible \ failoverFailed
           recycle == eligible # {} /\ untried = {}
       IN  /\ failoverFailed' = IF recycle THEN {} ELSE failoverFailed
           /\ attempt' = [attempt EXCEPT ![Reader(p)] =
                 [mode |-> "failover", trying |-> NoSource,
                  todo |-> IF recycle THEN eligible ELSE untried \ heldDown]]
    /\ pc' = [pc EXCEPT ![Reader(p)] = "choose"]
    /\ UNCHANGED <<capacityVars, running, process, current, token, healthTask,
                   healthReason, heldDown, hunting, eligible, handoff,
                   clientVars, worldVars, lockq, victim, bridge>>

\* Altered: a round that finds nothing ends the hunt.
RoundFails_NoRetry(p) ==
    /\ Owns(Reader(p), "choose")
    /\ attempt[Reader(p)].todo = {}
    /\ attempt' = [attempt EXCEPT ![Reader(p)] = NoAttempt]
    /\ Unlock(Reader(p), "done")
    /\ UNCHANGED <<capacityVars, sessionVars, clientVars, worldVars, victim,
                   bridge>>

\* No source could be started in this round.
RoundFails(p) ==
    /\ Owns(Reader(p), "choose")
    /\ attempt[Reader(p)].todo = {}
    /\ attempt' = [attempt EXCEPT ![Reader(p)] = NoAttempt]
    /\ \/ /\ attempt[Reader(p)].mode = "bridge"
          /\ UnlockAwait(Reader(p), "loop")
       \/ /\ attempt[Reader(p)].mode = "failover" /\ Readership = {}
          /\ UnlockAwait(Reader(p), "stop")
       \/ /\ attempt[Reader(p)].mode = "failover" /\ Readership # {}
          /\ Unlock(Reader(p), "retry")
    /\ UNCHANGED <<capacityVars, sessionVars, clientVars, worldVars, victim,
                   bridge>>

Retry(p) ==
    /\ pc[Reader(p)] = "retry"
    /\ Await(Reader(p), "loop")
    /\ UNCHANGED <<capacityVars, sessionVars, clientVars, worldVars, attempt,
                   victim, bridge>>

\* Altered: the retry window never closes.
GiveUp_Never(p) ==
    /\ pc[Reader(p)] = "exhausted"
    /\ hunting' = FALSE /\ running' = FALSE
    /\ Await(Reader(p), "stop")
    /\ UNCHANGED <<capacityVars, process, current, token, healthTask,
                   healthReason, failoverFailed, heldDown, eligible, handoff,
                   clientVars, worldVars, attempt, victim, bridge>>

\* The retry window is over, or there was nothing to retry.  These writes are
\* made without the lock.
GiveUp(p) ==
    /\ pc[Reader(p)] \in {"retry", "exhausted"}
    /\ hunting' = FALSE /\ running' = FALSE
    /\ Await(Reader(p), "stop")
    /\ UNCHANGED <<capacityVars, process, current, token, healthTask,
                   healthReason, failoverFailed, heldDown, eligible, handoff,
                   clientVars, worldVars, attempt, victim, bridge>>

-----------------------------------------------------------------------------
(* stop(force=True), by a reader or by the client that left last.           *)

StopTasks == Readers \union ClientTasks
AfterStop(t) == IF t \in Readers THEN "done" ELSE "closing"

\* Altered: the early return asks only for the session's own state ...
StopNothing_IgnoresViewers(t) ==
    /\ Owns(t, "stop")
    /\ ~running /\ process = 0
    /\ Unlock(t, AfterStop(t))
    /\ UNCHANGED <<capacityVars, sessionVars, clientVars, worldVars, attempt,
                   victim, bridge>>

\* ... or leaves without giving up the lock.
StopNothing_KeepsLock(t) ==
    /\ Owns(t, "stop")
    /\ ~running /\ process = 0 /\ Readership = {}
    /\ pc' = [pc EXCEPT ![t] = AfterStop(t)]
    /\ UNCHANGED <<capacityVars, sessionVars, clientVars, worldVars, lockq,
                   attempt, victim, bridge>>

StopNothing(t) ==
    /\ Owns(t, "stop")
    /\ ~running /\ process = 0 /\ Readership = {}
    /\ Unlock(t, AfterStop(t))
    /\ UNCHANGED <<capacityVars, sessionVars, clientVars, worldVars, attempt,
                   victim, bridge>>

\* Altered: the process is forgotten but not ended.
StopSection_NoTerminate(t) ==
    /\ Owns(t, "stop")
    /\ running \/ process # 0 \/ Readership # {}
    /\ running' = FALSE /\ process' = 0 /\ current' = NoSource
    /\ failoverFailed' = {} /\ hunting' = FALSE /\ handoff' = {}
    /\ ReleaseAll(Self)
    /\ victim' = [victim EXCEPT ![t] = process]
    /\ Unlock(t, "drain")
    /\ UNCHANGED <<token, healthTask, healthReason, heldDown, eligible,
                   clientVars, attempt, bridge, worldVars>>

\* The session lets go of its process and of every slot at once, so that other
\* channels are not blocked while the process is still exiting.
StopSection(t) ==
    /\ Owns(t, "stop")
    /\ running \/ process # 0 \/ Readership # {}
    /\ running' = FALSE /\ process' = 0 /\ current' = NoSource
    /\ failoverFailed' = {} /\ hunting' = FALSE /\ handoff' = {}
    /\ ReleaseAll(Self)
    /\ victim' = [victim EXCEPT ![t] = process]
    /\ proc' = [p \in Pids |-> IF p \in handoff \union {process} /\ proc[p] = "up"
                                THEN "signalled" ELSE proc[p]]
    /\ Unlock(t, "drain")
    /\ UNCHANGED <<token, healthTask, healthReason, heldDown, eligible,
                   clientVars, attempt, bridge, allowFailover, lives>>

\* The captured process has gone; the health task of that moment, which need
\* not be the one of the captured process, is cancelled.
Drained(t) ==
    /\ pc[t] = "drain"
    /\ victim[t] # 0 => proc[victim[t]] = "dead"
    /\ healthTask' = 0
    /\ pc' = [u \in Tasks |-> CASE u = t -> "eof"
                               [] u = Health(healthTask) -> "done"
                               [] OTHER -> pc[u]]
    /\ lockq' = Append(Without(Health(healthTask)), t)
    /\ victim' = [victim EXCEPT ![t] = 0]
    /\ UNCHANGED <<capacityVars, running, process, current, token,
                   healthReason, failoverFailed, heldDown, hunting, eligible,
                   handoff, clientVars, worldVars, attempt, bridge>>

\* Readers of the segments are told nothing: their input just ends.
EofSection(t) ==
    /\ Owns(t, "eof")
    /\ eof' = eof \union subscribers
    /\ Unlock(t, AfterStop(t))
    /\ UNCHANGED <<capacityVars, sessionVars, subscribers, references, worldVars,
                   attempt, victim, bridge>>

-----------------------------------------------------------------------------
(* The health loop and its request for a failover.                          *)

HealthTrips(p) ==
    /\ pc[Health(p)] = "watch"
    /\ running /\ token = p
    /\ Await(Health(p), "request")
    /\ UNCHANGED <<capacityVars, sessionVars, clientVars, worldVars, attempt,
                   victim, bridge>>

\* The loop ends with its session or its process.
HealthEnds(p) ==
    /\ pc[Health(p)] = "watch"
    /\ ~running \/ token # p
    /\ pc' = [pc EXCEPT ![Health(p)] = "done"]
    /\ UNCHANGED <<capacityVars, sessionVars, clientVars, worldVars, lockq,
                   attempt, victim, bridge>>

\* The process the request ends is the session's process by the time the lock
\* is held, not the one that was watched.
HealthRequest(p) ==
    /\ Owns(Health(p), "request")
    /\ IF ~running \/ process = 0 \/ healthReason
       THEN /\ Unlock(Health(p), "done")
            /\ UNCHANGED <<healthReason, victim>>
       ELSE /\ healthReason' = TRUE
            /\ victim' = [victim EXCEPT ![Health(p)] = process]
            /\ Unlock(Health(p), "terminate")
    /\ UNCHANGED <<capacityVars, running, process, current, token, healthTask,
                   failoverFailed, heldDown, hunting, eligible, handoff,
                   clientVars, worldVars, attempt, bridge>>

HealthTerminate(p) ==
    /\ pc[Health(p)] = "terminate"
    /\ proc' = [q \in Pids |-> IF q = victim[Health(p)] /\ proc[q] = "up"
                                THEN "signalled" ELSE proc[q]]
    /\ pc' = [pc EXCEPT ![Health(p)] = "done"]
    /\ victim' = [victim EXCEPT ![Health(p)] = 0]
    /\ UNCHANGED <<capacityVars, sessionVars, clientVars, lockq, attempt,
                   bridge, allowFailover, lives>>

-----------------------------------------------------------------------------
(* The world around the session.                                            *)

HoldDownExpires ==
    /\ \E s \in heldDown : heldDown' = heldDown \ {s}
    /\ UNCHANGED <<capacityVars, running, process, current, token, healthTask,
                   healthReason, failoverFailed, hunting, eligible, handoff,
                   clientVars, taskVars, worldVars>>

\* Other ingests, VOD proxies and probes of the same accounts come and go, with
\* slots of their own; TVHeadend is polled.
OthersMove ==
    /\ \/ \E o \in Owners \ {Self}, k \in Keys, s \in Slots \ Sources :
              TryReserve(k, o, s) \/ Release(k, o, s)
       \/ \E o \in Owners \ {Self} : ReleaseAll(o)
       \/ SetExternalCounts
    /\ UNCHANGED <<sessionVars, clientVars, taskVars, worldVars>>

-----------------------------------------------------------------------------
StartStep(t) ==
    \/ StartAlreadyRunning(t) \/ StartFresh(t) \/ StartFails(t)
    \/ ChooseCandidate(t) \/ SpawnFails(t) \/ SpawnSucceeds(t)

StopStep(t) ==
    StopNothing(t) \/ StopSection(t) \/ Drained(t) \/ EofSection(t)

\* What a client's tasks do once they are under way ...
ClientStep(c) ==
    \/ StartStep(Client(c)) \/ StopStep(Client(c))
    \/ ClientStarted(c) \/ ClientJoins(c) \/ ClientRefers(c)
    \/ RemoveSubscriber(c) \/ ReadEof(c) \/ CloseOutput(c)

RecoveryStep(c) ==
    \/ StartStep(Recovery(c)) \/ RecoveryStart(c) \/ Reattach(c)
    \/ RecoveryBegins(c) \/ RecoveryStarted(c) \/ RecoveryJoins(c)

\* ... and what nobody promises.
ClientMoves(c) == ClientStart(c) \/ ClientLeaves(c) \/ RequestCancelled(c)

ReaderStep(p) ==
    \/ ReaderEnds(p) \/ CheckSubscribers(p) \/ SwitchAbandoned(p)
    \/ SwitchSection(p) \/ SwitchReported(p) \/ Recover(p)
    \/ RefreshSection(p) \/ BridgeChosen(p) \/ BridgeSection(p)
    \/ LoopSection(p)
    \/ RoundFails(p) \/ Retry(p) \/ GiveUp(p)
    \/ ChooseCandidate(Reader(p)) \/ SpawnFails(Reader(p))
    \/ SpawnSucceeds(Reader(p)) \/ StopStep(Reader(p))

HealthStep(p) == HealthEnds(p) \/ HealthRequest(p) \/ HealthTerminate(p)

Next ==
    \/ \E c \in Clients : ClientStep(c) \/ RecoveryStep(c) \/ ClientMoves(c)
    \/ \E p \in Pids : ReaderStep(p) \/ HealthStep(p)
    \/ \E p \in Pids : HealthTrips(p) \/ ProcessEnds(p)
    \/ HoldDownExpires \/ OthersMove

Spec == Init /\ [][Next]_vars

\* The event loop runs every task that can run, a signalled process exits, and
\* the retry window of a hunt closes (12 seconds, however many rounds).
Fairness ==
    /\ \A c \in Clients : /\ WF_vars(ClientStep(c))
                          /\ WF_vars(RecoveryStep(c))
    /\ \A p \in Pids : /\ WF_vars(ReaderStep(p))
                       /\ WF_vars(HealthStep(p))
                       /\ WF_vars(proc[p] = "signalled" /\ ProcessEnds(p))
                       /\ SF_vars(GiveUp(p))

FairSpec == Spec /\ Fairness

-----------------------------------------------------------------------------
(* What the session promises.                                               *)

\* The source being played always has its connection reserved for this
\* session: from the reservation in _start_best_source_unlocked to the release
\* at a switch or a stop, nothing else gives the slot away.
CurrentIsReserved ==
    current # NoSource => current \in allocations[KeyOf[current]][Self]

\* No ffmpeg process is left running once the session has let go of it: what is
\* alive and not told to end is self.process.
NoOrphan == \A p \in Pids : proc[p] = "up" => p = process

\* Both hold until a session is started a second time.
FirstLifeIsClean == lives <= 1 => CurrentIsReserved /\ NoOrphan

\* The end of the process in use will be noticed: its reader still reads it, or
\* is on its way to replace it or to stop the session.  The one process without
\* a reader is one started while a handoff is set, and it never had one: its
\* end is left to the outputs that read the segments.
Watching == {"read", "check", "switch", "stop"}

ReaderWatches ==
    process # 0 => \/ pc[Reader(process)] \in Watching
                   \/ handoff # {} /\ pc[Reader(process)] = "off"

HuntLabels == {"recover", "refresh", "bridge", "bridging", "loop", "choose",
               "spawn", "retry", "exhausted"}
Hunting(p) == pc[Reader(p)] \in HuntLabels

\* A session that says it runs and has no process is being looked after: some
\* reader hunts for a replacement or some task is about to stop it.
RunningIsServed ==
    running /\ process = 0 =>
        \/ \E p \in Pids : Hunting(p) \/ pc[Reader(p)] = "ending"
        \/ \E t \in Tasks : pc[t] = "stop"

\* A replacement is never a source that already failed in this cycle, and a
\* source held down is only used again when a cycle starts over: the exclusion
\* and recycling rules of the failover loop, across however many rounds, stops
\* and starts lie between the failure and the replacement.
FailoverTriesOthersFirst ==
    [][\A p \in Pids :
          pc[Reader(p)] = "spawn" /\ attempt[Reader(p)].mode = "failover"
          /\ process' = token + 1
             => /\ current' \notin failoverFailed
                /\ current' \in heldDown => failoverFailed = {}
      ]_vars

\* Every hunt comes to an end: it starts a process, gives up or dies.
HuntEnds == \A p \in Pids : Hunting(p) ~> ~Hunting(p)

\* Nobody waits for the session's lock forever.
WaitersGetTheLock ==
    \A t \in Tasks :
        (\E i \in DOMAIN lockq : lockq[i] = t)
            ~> \/ \A i \in DOMAIN lockq : lockq[i] # t
               \/ Head(lockq) = t

\* An output attached while a hunt is looking for a replacement gets a new
\* process to read from or an end-of-stream marker, unless it leaves first:
\* whatever the hunt, other starts and other stops do meanwhile.  Not so when
\* the replacement hands over segments, which reach no queue.
ViewersAreTold ==
    \A c \in Clients, p \in Pids :
        (pc[Reader(p)] \in HuntLabels \ {"recover", "refresh"}
         /\ pc[Client(c)] = "in")
            ~> process # 0 \/ c \in eof \/ pc[Client(c)] # "in" \/ handoff # {}

\* No task has anything left to do by itself.
AtRest ==
    \A t \in Tasks : pc[t] \in {"out", "idle", "over", "in", "linked",
                               "detached", "off", "read", "watch", "done"}

\* "CSO tears down client/output/ingest state as needed": a session that is at
\* rest and down has given back every slot.
SlotsReturned ==
    AtRest /\ ~running => \A k \in Keys : allocations[k][Self] = {}
=============================================================================
