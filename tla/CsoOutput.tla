------------------------------ MODULE CsoOutput ------------------------------
(* The live output sessions of one output key (cso/output.py, and the session *)
(* map of cso/common.py): viewers share one encoder, which is started by the  *)
(* first, fed from an ingest session, and stopped by the last, by its own     *)
(* reader when its output ends, or by the periodic cleanup.  Two locks guard  *)
(* a session: start() holds both to its end, stop() holds lifecycle_lock to   *)
(* its end and `lock` for a moment at both ends.  The ingest is always up     *)
(* here; CsoIngest has its failures.                                          *)
EXTENDS Naturals, FiniteSets, TLC

CONSTANTS Viewers,        \* connections
          Outputs,        \* session objects for the one key
          Cleanup,        \* the periodic cleanup
          Nobody,
          Need            \* chunks the encoder reads before its first output

ASSUME OutputAssumption ==
  /\ Viewers # {} /\ Outputs # {} /\ Nobody \notin Viewers \union Outputs
  /\ Cleanup \notin Viewers \union {Nobody}
  /\ (Viewers \union {Cleanup, Nobody}) \intersect (Outputs \X {"reader", "late"}) = {}
  /\ Need \in Nat \ {0}

Reader(o) == <<o, "reader">>       \* the read loop of the running attempt
Late(o)   == <<o, "late">>         \* the read loop of an attempt that was given up
Actors == Viewers \union {Cleanup} \union (Outputs \X {"reader", "late"})

VARIABLES
  mapped,      \* the session in cso_session_manager.output, or Nobody
  running,     \* o -> running
  process,     \* o -> the encoder: "none", "up", or "dead" and not yet noticed
  queue,       \* o -> ingest_queue is set
  feed,        \* whose queue the ingest holds under the key
  owned,       \* o -> read_task is set: stop() cancels and awaits it
  clients,     \* o -> clients
  told,        \* viewers whose queue holds an end marker
  holder,      \* o -> the actor that holds lifecycle_lock
  attempt,     \* o -> 1: hardware decoding, 2: without
  fed,         \* o -> chunks written to this attempt's encoder, up to Need
  picture,     \* o -> the first output was seen
  at,          \* actor -> where it is
  on           \* actor -> the session it is about
vars == <<mapped, running, process, queue, feed, owned, clients, told, holder,
          attempt, fed, picture, at, on>>

\* start() also holds `lock`, from its first line to its last.
LockHeld(o) == holder[o] \in Viewers /\ at[holder[o]] \in {"input", "wait"}
Adding(o) == \E v \in Viewers : at[v] = "add" /\ on[v] = o
Garbage(o) == /\ mapped # o /\ ~running[o] /\ process[o] = "none" /\ holder[o] = Nobody
              /\ clients[o] = {} /\ at[Reader(o)] = "none"
              /\ at[Late(o)] = "none"
              /\ \A a \in Viewers \union {Cleanup} : on[a] # o

OutInit ==
  /\ mapped = Nobody /\ feed = Nobody /\ told = {}
  /\ running = [o \in Outputs |-> FALSE] /\ process = [o \in Outputs |-> "none"]
  /\ queue = [o \in Outputs |-> FALSE] /\ owned = [o \in Outputs |-> FALSE]
  /\ clients = [o \in Outputs |-> {}] /\ holder = [o \in Outputs |-> Nobody]
  /\ attempt = [o \in Outputs |-> 1] /\ fed = [o \in Outputs |-> 0]
  /\ picture = [o \in Outputs |-> FALSE]
  /\ at = [a \in Actors |-> IF a \in Viewers \union {Cleanup} THEN "idle" ELSE "none"]
  /\ on = [a \in Actors |-> IF a \in Outputs \X {"reader", "late"} THEN a[1] ELSE Nobody]

Goes(a, where) == at' = [at EXCEPT ![a] = where]

(***************************** a viewer connects ****************************)
\* get_or_create: no await inside, so the map's lock is never waited for.  A new
\* session may find the queue of a failed one under its key: not its own.
GetOrCreate(v) ==
  /\ at[v] = "idle"
  /\ \E o \in Outputs :
       /\ IF mapped # Nobody THEN o = mapped ELSE Garbage(o)
       /\ mapped' = o
       /\ on' = [on EXCEPT ![v] = o]
       /\ IF mapped # Nobody THEN UNCHANGED <<queue, feed>>
            ELSE /\ queue' = [queue EXCEPT ![o] = FALSE]
                 /\ feed' = IF feed = o THEN Nobody ELSE feed
  /\ Goes(v, "start")
  /\ UNCHANGED <<running, process, owned, clients, told, holder, attempt, fed,
                 picture>>

\* start() of a running session returns at once.  asyncio's locks are first
\* come, first served, and the viewer asks for the next one without a pause:
\* no stop() gets in between (StopBegins waits for who is adding itself).
StartRunning(v) ==
  LET o == on[v] IN
  /\ at[v] = "start" /\ holder[o] = Nobody /\ running[o]
  /\ Goes(v, "add")
  /\ UNCHANGED <<mapped, running, process, queue, feed, owned, clients, told, holder,
                 attempt, fed, picture, on>>

StartBegins(v) ==
  LET o == on[v] IN
  /\ at[v] = "start" /\ holder[o] = Nobody /\ ~running[o]
  /\ holder' = [holder EXCEPT ![o] = v]
  /\ Goes(v, "input")
  /\ UNCHANGED <<mapped, running, process, queue, feed, owned, clients, told, attempt,
                 fed, picture, on>>

\* A new encoder with its read and write loops.
Spawns(o) ==
  /\ process' = [process EXCEPT ![o] = "up"]
  /\ fed' = [fed EXCEPT ![o] = 0]

\* A reader nobody awaits any more: cancelled in its read, or at the end of
\* the output, it goes on to its finally block and waits for `lock` there.
Retired(o) == CASE at[Reader(o)] = "reading" -> "lock"
                [] at[Reader(o)] = "none"    -> at[Late(o)]
                [] OTHER                     -> at[Reader(o)]

\* The ingest is started and subscribed to, under the key of the session.
Subscribes(v) ==
  LET o == on[v] IN
  /\ at[v] = "input"
  /\ feed' = o
  /\ queue' = [queue EXCEPT ![o] = TRUE]
  /\ running' = [running EXCEPT ![o] = TRUE]
  /\ picture' = [picture EXCEPT ![o] = FALSE]
  /\ \E n \in {1, 2} : attempt' = [attempt EXCEPT ![o] = n]
  /\ Spawns(o)
  /\ at' = [at EXCEPT ![v] = "wait", ![Late(o)] = Retired(o), ![Reader(o)] = "reading"]
  /\ UNCHANGED <<mapped, owned, clients, told, holder, on>>

\* The encoder cannot be spawned: the request fails.
SpawnFails(v) ==
  LET o == on[v] IN
  /\ at[v] = "input"
  /\ feed' = o
  /\ queue' = [queue EXCEPT ![o] = TRUE]
  /\ holder' = [holder EXCEPT ![o] = Nobody]
  /\ Goes(v, "idle") /\ on' = [on EXCEPT ![v] = Nobody]
  /\ UNCHANGED <<mapped, running, process, owned, clients, told, attempt, fed, picture>>

\* The first output, or the timeout while the ingest's data is flowing in.
StartSucceeds(v) ==
  LET o == on[v] IN
  /\ at[v] = "wait"
  /\ \/ picture[o]
     \/ process[o] = "up" /\ fed[o] > 0
  /\ owned' = [owned EXCEPT ![o] = TRUE]
  /\ holder' = [holder EXCEPT ![o] = Nobody]
  /\ Goes(v, "add")
  /\ UNCHANGED <<mapped, running, process, queue, feed, clients, told, attempt, fed,
                 picture, on>>

\* The reader of a failed attempt is cancelled: in its read, that takes it to
\* its finally block; waiting for `lock` there, it is ended.
GiveUpReader(o) ==
  IF at[Reader(o)] = "reading" THEN "lock" ELSE at[Late(o)]

\* The attempt with hardware decoding failed: the second one, under the same
\* locks, without it.
StartFallsBack(v) ==
  LET o == on[v] IN
  /\ at[v] = "wait" /\ ~picture[o] /\ attempt[o] = 1
  /\ attempt' = [attempt EXCEPT ![o] = 2]
  /\ Spawns(o)
  /\ at' = [at EXCEPT ![Late(o)] = GiveUpReader(o), ![Reader(o)] = "reading"]
  /\ UNCHANGED <<mapped, running, queue, feed, owned, clients, told, holder, picture, on>>

\* No attempt is left.  ingest_queue stays set, and subscribed.
StartFails(v) ==
  LET o == on[v] IN
  /\ at[v] = "wait" /\ ~picture[o] /\ attempt[o] = 2
  /\ running' = [running EXCEPT ![o] = FALSE]
  /\ process' = [process EXCEPT ![o] = "none"]
  /\ holder' = [holder EXCEPT ![o] = Nobody]
  /\ at' = [at EXCEPT ![v] = "idle", ![Late(o)] = GiveUpReader(o), ![Reader(o)] = "none"]
  /\ on' = [on EXCEPT ![v] = Nobody]
  /\ UNCHANGED <<mapped, queue, feed, owned, clients, told, attempt, fed, picture>>

\* The request is cancelled while it waits; the encoder of a start that was
\* waiting for its first output stays, and so does `running`.
StartCancelled(v) ==
  LET o == on[v] IN
  /\ at[v] \in {"start", "input", "wait"}
  /\ holder' = IF holder[o] = v THEN [holder EXCEPT ![o] = Nobody] ELSE holder
  /\ owned' = IF at[v] = "wait" THEN [owned EXCEPT ![o] = FALSE] ELSE owned
  /\ Goes(v, "idle") /\ on' = [on EXCEPT ![v] = Nobody]
  /\ UNCHANGED <<mapped, running, process, queue, feed, clients, told, attempt, fed,
                 picture>>

AddClient(v) ==
  LET o == on[v] IN
  /\ at[v] = "add" /\ ~LockHeld(o)
  /\ clients' = [clients EXCEPT ![o] = @ \union {v}]
  /\ told' = told \ {v}                                   \* a new queue
  /\ Goes(v, "watch")
  /\ UNCHANGED <<mapped, running, process, queue, feed, owned, holder, attempt, fed,
                 picture, on>>

(*************************** the encoder's two loops ************************)
\* One chunk in.  touch_all_clients, after it, waits for `lock`: while start()
\* waits for the first output, the encoder is given one chunk and no more.
WriteLoop_Once(o) ==                \* Altered: the loop ends after a chunk.
  /\ running[o] /\ process[o] = "up" /\ queue[o] /\ feed = o /\ fed[o] = 0
  /\ fed' = [fed EXCEPT ![o] = @ + 1]
  /\ UNCHANGED <<mapped, running, process, queue, feed, owned, clients, told, holder,
                 attempt, picture, at, on>>
WriteLoop(o) ==
  /\ running[o] /\ process[o] = "up" /\ queue[o] /\ feed = o /\ fed[o] < Need
  /\ LockHeld(o) => fed[o] = 0
  /\ fed' = [fed EXCEPT ![o] = @ + 1]
  /\ UNCHANGED <<mapped, running, process, queue, feed, owned, clients, told, holder,
                 attempt, picture, at, on>>

\* The first chunk out; broadcasting it waits for `lock`, the event does not.
FirstOutput(o) ==
  /\ at[Reader(o)] = "reading" /\ running[o] /\ process[o] = "up" /\ fed[o] = Need
  /\ ~picture[o]
  /\ picture' = [picture EXCEPT ![o] = TRUE]
  /\ UNCHANGED <<mapped, running, process, queue, feed, owned, clients, told, holder,
                 attempt, fed, at, on>>

EncoderDies(o) ==
  /\ process[o] = "up"
  /\ process' = [process EXCEPT ![o] = "dead"]
  /\ UNCHANGED <<mapped, running, queue, feed, owned, clients, told, holder, attempt,
                 fed, picture, at, on>>

\* The read loop sees the end of the output, or that running was cleared.
OutputEnds(o) ==
  /\ at[Reader(o)] = "reading" /\ process[o] # "up"
  /\ Goes(Reader(o), "lock")
  /\ UNCHANGED <<mapped, running, process, queue, feed, owned, clients, told, holder,
                 attempt, fed, picture, on>>

\* Its finally block: `lock` once, to look, and then stop(force=True).
ReaderLooks(a) ==
  LET o == on[a] IN
  /\ a \in Outputs \X {"reader", "late"} /\ at[a] = "lock" /\ ~LockHeld(o)
  /\ Goes(a, "stop")
  /\ UNCHANGED <<mapped, running, process, queue, feed, owned, clients, told, holder,
                 attempt, fed, picture, on>>

(***************************** a viewer leaves ******************************)
\* remove_client: the client's queue is ended, and the last one stops the session; whether somebody came since
\* is not asked again.
RemoveClient(o, v) ==
  /\ ~LockHeld(o)
  /\ clients' = [clients EXCEPT ![o] = @ \ {v}]
  /\ told' = told \union {v}

Leave(v) ==
  LET o == on[v] IN
  /\ at[v] = "watch" /\ ~LockHeld(o)
  /\ clients' = [clients EXCEPT ![o] = @ \ {v}]
  /\ told' = told \ {v}
  /\ IF clients'[o] = {} THEN Goes(v, "stop") /\ on' = on
                         ELSE Goes(v, "idle") /\ on' = [on EXCEPT ![v] = Nobody]
  /\ UNCHANGED <<mapped, running, process, queue, feed, owned, holder, attempt, fed,
                 picture>>

\* The end marker is read: the generator ends, and removes its client.
Hears(v) == v \in told /\ Leave(v)

\* A client is stale when nothing was written to the encoder for long.
Stale(o, v) == v \in clients[o] /\ (~running[o] \/ feed # o \/ process[o] # "up")

\* The reader meets one while it hands out what was left in the encoder.
ReaderDropsStale(o) ==
  /\ at[Reader(o)] = "reading" /\ running[o]
  /\ \E v \in clients[o] :
       /\ Stale(o, v) /\ RemoveClient(o, v)
       /\ IF clients'[o] = {} THEN Goes(Reader(o), "stop") ELSE at' = at
  /\ UNCHANGED <<mapped, running, process, queue, feed, owned, holder, attempt, fed,
                 picture, on>>

(********************************** stop() **********************************)
\* Where the caller of stop() goes on.
Back(a) == CASE a \in Viewers -> "idle"
             [] a = Cleanup   -> IF at[a] \in {"stop", "closing"} THEN "idle" ELSE "pruned"
             [] OTHER         -> "none"
StopLeaves(a) == on' = IF Back(a) = "idle" THEN [on EXCEPT ![a] = Nobody] ELSE on
\* The cleanup takes the session off the map, with no pause after its stop().
Unmaps(a, o) ==
  mapped' = IF a = Cleanup /\ Back(a) = "idle" /\ mapped = o THEN Nobody ELSE mapped

\* Nothing to stop.
StopNothing(a) ==
  LET o == on[a] IN
  /\ at[a] \in {"stop", "prunestop"} /\ holder[o] = Nobody /\ ~Adding(o)
  /\ ~running[o] /\ process[o] = "none" /\ clients[o] = {}
  /\ Goes(a, Back(a)) /\ StopLeaves(a) /\ Unmaps(a, o)
  /\ UNCHANGED <<running, process, queue, feed, owned, clients, told, holder, attempt,
                 fed, picture>>

\* The first section: everything is taken out of the session.
StopBegins(a) ==
  LET o == on[a] IN
  /\ at[a] \in {"stop", "prunestop"} /\ holder[o] = Nobody /\ ~Adding(o)
  /\ running[o] \/ process[o] # "none" \/ clients[o] # {}
  /\ holder' = [holder EXCEPT ![o] = a]
  /\ running' = [running EXCEPT ![o] = FALSE]
  /\ process' = [process EXCEPT ![o] = "none"]
  /\ Goes(a, IF at[a] = "stop" THEN "closing" ELSE "pruneclosing")
  /\ UNCHANGED <<mapped, queue, feed, owned, clients, told, attempt, fed, picture, on>>

\* The reader that stop() cancels is past its read, unless the exit of the
\* encoder was seen before the end of its output.
ReaderEnded_Awaited(a, o) ==        \* Altered: awaited without being cancelled.
  ~owned[o] \/ a = Reader(o) \/ at[Reader(o)] = "none"
ReaderEnded(a, o) ==
  \/ ~owned[o] \/ a = Reader(o) \/ at[Reader(o)] # "reading"

\* The encoder is gone, the subscription is returned, the loops are cancelled
\* (a reader that waits for lifecycle_lock is ended by that), and every client
\* that is still there is told.
StopEnds_Quietly(a) ==              \* Altered: the clients are not told.
  LET o == on[a] IN
  /\ at[a] \in {"closing", "pruneclosing"} /\ ReaderEnded(a, o)
  /\ feed' = IF queue[o] THEN Nobody ELSE feed
  /\ queue' = [queue EXCEPT ![o] = FALSE]
  /\ holder' = [holder EXCEPT ![o] = Nobody]
  /\ owned' = [owned EXCEPT ![o] = FALSE]
  /\ at' = [at EXCEPT ![Reader(o)] = IF owned[o] THEN "none" ELSE @, ![a] = Back(a)]
  /\ StopLeaves(a) /\ Unmaps(a, o)
  /\ UNCHANGED <<running, process, clients, told, attempt, fed, picture>>
StopEnds(a) ==
  LET o == on[a] IN
  /\ at[a] \in {"closing", "pruneclosing"} /\ ReaderEnded(a, o)
  /\ feed' = IF queue[o] THEN Nobody ELSE feed
  /\ queue' = [queue EXCEPT ![o] = FALSE]
  /\ told' = told \union clients[o]
  /\ holder' = [holder EXCEPT ![o] = Nobody]
  /\ owned' = [owned EXCEPT ![o] = FALSE]
  /\ at' = [at EXCEPT ![Reader(o)] = IF owned[o] THEN "none" ELSE @, ![a] = Back(a)]
  /\ StopLeaves(a) /\ Unmaps(a, o)
  /\ UNCHANGED <<running, process, clients, attempt, fed, picture>>

\* The reader is cancelled in its read: it goes to its own stop(), which waits
\* for the lock that is held by the stop() that waits for it.
StopMeetsReader(a) ==
  LET o == on[a] IN
  /\ at[a] \in {"closing", "pruneclosing"}
  /\ owned[o] /\ a # Reader(o) /\ at[Reader(o)] = "reading"
  /\ at' = [at EXCEPT ![a] = "stuck", ![Reader(o)] = "stop"]
  /\ UNCHANGED <<mapped, running, process, queue, feed, owned, clients, told, holder,
                 attempt, fed, picture, on>>

(******************************* the cleanup ********************************)
CleanupLooks ==
  /\ at[Cleanup] = "idle" /\ mapped # Nobody
  /\ on' = [on EXCEPT ![Cleanup] = mapped]
  /\ Goes(Cleanup, "prune")
  /\ UNCHANGED <<mapped, running, process, queue, feed, owned, clients, told, holder,
                 attempt, fed, picture>>

CleanupPrunes ==
  LET o == on[Cleanup] IN
  /\ at[Cleanup] = "prune"
  /\ \E v \in clients[o] :
       /\ Stale(o, v) /\ RemoveClient(o, v)
       /\ IF clients'[o] = {} THEN Goes(Cleanup, "prunestop") ELSE at' = at
  /\ UNCHANGED <<mapped, running, process, queue, feed, owned, holder, attempt, fed,
                 picture, on>>

\* A running session with recent activity is left alone: its reader refreshes
\* that with every chunk, viewers or not.
CleanupPruned ==
  LET o == on[Cleanup]
      recent == running[o] /\ process[o] = "up" /\ feed = o
  IN
  /\ \/ at[Cleanup] = "prune" /\ \A v \in clients[o] : ~Stale(o, v)
     \/ at[Cleanup] = "pruned"
  /\ IF recent THEN Goes(Cleanup, "idle") /\ on' = [on EXCEPT ![Cleanup] = Nobody]
               ELSE Goes(Cleanup, "check") /\ on' = on
  /\ UNCHANGED <<mapped, running, process, queue, feed, owned, clients, told, holder,
                 attempt, fed, picture>>

\* Under `lock`: a start() that was under way has ended by now, and its viewer
\* is not among the clients yet.
CleanupChecks ==
  LET o == on[Cleanup] IN
  /\ at[Cleanup] = "check" /\ ~LockHeld(o)
  /\ IF running[o] /\ clients[o] # {}
       THEN Goes(Cleanup, "idle") /\ on' = [on EXCEPT ![Cleanup] = Nobody]
       ELSE Goes(Cleanup, "stop") /\ on' = on
  /\ UNCHANGED <<mapped, running, process, queue, feed, owned, clients, told, holder,
                 attempt, fed, picture>>

(******************************** the system ********************************)
StopStep(a) == StopNothing(a) \/ StopBegins(a) \/ StopEnds(a)
CleanupStep == CleanupLooks \/ CleanupPrunes \/ CleanupPruned \/ CleanupChecks
EncoderStep(o) == WriteLoop(o) \/ FirstOutput(o) \/ OutputEnds(o)
ViewerStep(v) == \/ Subscribes(v) \/ SpawnFails(v) \/ StartSucceeds(v)
                 \/ StartFallsBack(v) \/ StartFails(v) \/ AddClient(v) \/ Hears(v)
OutNext ==
  \/ \E v \in Viewers :
       \/ GetOrCreate(v) \/ StartRunning(v) \/ StartBegins(v) \/ ViewerStep(v)
       \/ StartCancelled(v) \/ Leave(v)
  \/ \E o \in Outputs : EncoderStep(o) \/ EncoderDies(o) \/ ReaderDropsStale(o)
  \/ \E a \in Actors : ReaderLooks(a) \/ StopStep(a) \/ StopMeetsReader(a)
  \/ CleanupStep

OutSpec == OutInit /\ [][OutNext]_vars

\* Every await ends by itself: a startup by its timeout, an exit by the kill,
\* a lock that is free goes to a waiter, data flows while an encoder runs, and
\* the cleanup is scheduled.  Viewers owe nothing but reading what they are sent.
OutFairness ==
  /\ \A v \in Viewers : SF_vars(ViewerStep(v) \/ StopStep(v))
  /\ \A o \in Outputs : WF_vars(EncoderStep(o))
  /\ \A a \in Outputs \X {"reader", "late"} : SF_vars(ReaderLooks(a) \/ StopStep(a))
  /\ SF_vars(CleanupStep \/ StopStep(Cleanup))
OutFairSpec == OutSpec /\ OutFairness

(******************************** properties ********************************)

\* stop() has cancelled the reader in its read, whose own stop() now waits for
\* the lock that the first one holds while it waits for the reader.  Nothing ends
\* that: the session keeps its lock, and its viewers hear nothing.
Stuck(o) == \E a \in Actors : at[a] = "stuck" /\ on[a] = o /\ at[Reader(o)] = "stop"

\* A viewer that was not told of the end is a client of a session that runs or
\* whose stop() has still to tell it, unless that is stuck: whoever comes while
\* the session is being stopped, restarted or cleaned up does not end on one that
\* nobody feeds.
ClientsHaveEncoder ==
  \A v \in Viewers : (at[v] = "watch" /\ v \notin told) =>
    LET o == on[v] IN
    /\ v \in clients[o]
    /\ \/ running[o]
       \/ holder[o] # Nobody /\ at[holder[o]] \in {"closing", "pruneclosing", "stuck"}

\* Every holder of lifecycle_lock gives it back: start(), stop(), the readers
\* and the cleanup never wait for each other in a circle, but for the one circle
\* that the code has, a reader cancelled in its read.
LocksAreReleased == \A o \in Outputs : []<>(holder[o] = Nobody \/ Stuck(o))

\* A viewer of the session the map holds comes to see something or is sent
\* away, whatever the startup had to wait for, or its session is stuck.
PictureComes == \A v \in Viewers : \A o \in Outputs :
  (at[v] = "watch" /\ on[v] = o /\ mapped = o)
    ~> (picture[o] \/ at[v] # "watch" \/ mapped # o \/ Stuck(o))
=============================================================================
