-------------------------- MODULE CsoIngest_proofs --------------------------
(***************************************************************************)
(* Proofs about the ingest session, for any sources, clients, competing    *)
(* owners and limits, any number of processes and lives, with and without  *)
(* failover, cancelled requests and database errors.                       *)
(***************************************************************************)
EXTENDS CsoIngest, CsoCapacity_proofs

-----------------------------------------------------------------------------
(* The inductive invariant.  The type invariant is not inductive: what an   *)
(* attempt leaves in attempt[t] decides the label and the source its task   *)
(* goes on with, and a new process must find its reader unused.             *)

\* How the tasks of each kind come to _start_best_source_unlocked.
Modes(t) == CASE t \in ClientTasks -> Calls
              [] t \in Recoveries -> {"start"}
              [] OTHER -> {"bridge", "failover"}

AttemptsMatch ==
    \A t \in Tasks :
        /\ pc[t] \in {"choose", "spawn"} => attempt[t].mode \in Modes(t)
        /\ pc[t] = "spawn" => attempt[t].trying \in Sources

\* The process in use is the latest one, and later ones have no reader yet.
LatestProcess ==
    /\ process \in {0, token}
    /\ \A p \in Pids : p > token => pc[Reader(p)] = "off"

StateInv == /\ SessionTypeOK /\ WorldTypeOK
            /\ subscribers \subseteq Clients /\ references \subseteq Clients
            /\ eof \subseteq Clients

TaskInv == TaskTypeOK /\ AttemptsMatch /\ LatestProcess /\ ReaderWatches

IInv == CapacityTypeOK /\ StateInv /\ TaskInv

-----------------------------------------------------------------------------
(* Tasks and their labels.                                                  *)

\* The kinds of tasks are disjoint, and what labels and modes each has.
LEMMA TaskKinds ==
    /\ \A c \in Clients : Client(c) \in ClientTasks /\ Recovery(c) \in Recoveries
    /\ \A p \in Pids : Reader(p) \in Readers /\ Health(p) \in Healths
    /\ \A t \in ClientTasks : /\ t \in Tasks /\ Labels(t) = ClientLabels
                              /\ Modes(t) = Calls
                              /\ t \notin Recoveries
                              /\ \A p : t # Reader(p) /\ t # Health(p)
    /\ \A t \in Recoveries : /\ t \in Tasks /\ Labels(t) = RecoveryLabels
                             /\ Modes(t) = {"start"}
                             /\ \A p : t # Reader(p) /\ t # Health(p)
    /\ \A t \in Readers : /\ t \in Tasks /\ Labels(t) = ReaderLabels
                          /\ Modes(t) = {"bridge", "failover"}
                          /\ t \notin Recoveries
                          /\ \A p : t # Health(p)
    /\ \A t \in Healths : /\ t \in Tasks /\ Labels(t) = HealthLabels
                          /\ \A p : t # Reader(p)
    /\ \A p, q : Reader(p) # Health(q) /\ (Reader(p) = Reader(q) => p = q)
  BY DEF Tasks, ClientTasks, Recoveries, Readers, Healths, Labels, Modes,
         Client, Recovery, Reader, Health

\* Cancelling a waiter leaves a queue of tasks.
LEMMA WithoutType ==
    ASSUME lockq \in Seq(Tasks), NEW t
    PROVE  Without(t) \in Seq(Tasks)
  <1>1. CASE \E i \in DOMAIN lockq : lockq[i] = t
    <2> DEFINE n == Len(lockq) - 1
               q == [j \in 1..n |-> lockq[IF j < Place(t) THEN j ELSE j + 1]]
    <2>1. DOMAIN lockq = 1..Len(lockq) /\ Len(lockq) \in Nat
      OBVIOUS
    <2>2. Place(t) \in 1..Len(lockq)
      BY <1>1, <2>1 DEF Place
    <2>3. n \in Nat
      BY <2>1, <2>2
    <2>4. \A j \in 1..n : (IF j < Place(t) THEN j ELSE j + 1) \in 1..Len(lockq)
      BY <2>1, <2>2, <2>3
    <2>5. \A i \in 1..Len(lockq) : lockq[i] \in Tasks
      OBVIOUS
    <2>6. q \in [1..n -> Tasks]
      BY <2>4, <2>5
    <2>7. q \in Seq(Tasks)
      BY <2>3, <2>6
    <2> QED  BY <2>7, <1>1 DEF Without
  <1>2. CASE ~ \E i \in DOMAIN lockq : lockq[i] = t
    BY <1>2 DEF Without
  <1> QED  BY <1>1, <1>2

\* Task t goes to label l, and does with the lock what it may.
Move(t, l) ==
    /\ pc' = [pc EXCEPT ![t] = l]
    /\ \/ lockq' \in {lockq, Append(lockq, t), Without(t)}
       \/ lockq # <<>> /\ lockq' \in {Tail(lockq), Append(Tail(lockq), t)}
    /\ attempt' \in {attempt, [attempt EXCEPT ![t] = NoAttempt]}
    /\ UNCHANGED <<process, token, handoff, victim, bridge>>

\* A move to a label outside an attempt keeps the invariant, provided the
\* reader of the process in use keeps watching it and no reader is revived.
LEMMA MoveKeeps ==
    ASSUME IInv, NEW t \in Tasks, NEW l \in Labels(t) \ {"choose", "spawn"},
           Move(t, l),
           \A p \in Pids : t = Reader(p) => /\ pc[t] # "off"
                                            /\ p = process => l \in Watching
    PROVE  TaskInv'
  <1> USE DEF IInv, TaskInv
  <1>1. TaskTypeOK'
    <2>1. lockq' \in Seq(Tasks)
      <3>1. lockq \in Seq(Tasks) /\ Without(t) \in Seq(Tasks)
        BY WithoutType DEF TaskTypeOK
      <3>2. lockq # <<>> => Tail(lockq) \in Seq(Tasks)
        BY <3>1
      <3>3. \A q \in Seq(Tasks) : Append(q, t) \in Seq(Tasks)
        OBVIOUS
      <3> QED  BY <3>1, <3>2, <3>3 DEF Move
    <2>2. NoAttempt \in Attempts
      BY DEF NoAttempt, Attempts
    <2>3. attempt' \in [Tasks -> Attempts]
      BY <2>2 DEF TaskTypeOK, Move
    <2> QED  BY <2>1, <2>3 DEF TaskTypeOK, Move
  <1>2. AttemptsMatch'
    BY DEF AttemptsMatch, TaskTypeOK, Move
  <1>3. LatestProcess'
    BY DEF LatestProcess, TaskTypeOK, Move
  <1>4. ReaderWatches'
    <2> SUFFICES ASSUME process # 0
                 PROVE  \/ pc'[Reader(process)] \in Watching
                        \/ handoff # {} /\ pc'[Reader(process)] = "off"
      BY DEF ReaderWatches, Move
    <2>1. process \in Pids /\ Reader(process) \in Tasks
      BY TaskKinds DEF StateInv, SessionTypeOK, Pids
    <2> QED  BY <2>1 DEF ReaderWatches, TaskTypeOK, Move
  <1> QED  BY <1>1, <1>2, <1>3, <1>4

-----------------------------------------------------------------------------
(* The steps, by what takes them.                                           *)

Attempting(t) == ChooseCandidate(t) \/ SpawnFails(t) \/ SpawnSucceeds(t)

Calling(t) == StartAlreadyRunning(t) \/ StartFresh(t) \/ StartFails(t)

OutputActs(c) ==
    \/ ClientStart(c) \/ ClientStarted(c) \/ ClientJoins(c) \/ ClientRefers(c)
    \/ ReadEof(c) \/ RecoveryBegins(c) \/ ClientLeaves(c) \/ RemoveSubscriber(c) \/ RequestCancelled(c)
    \/ RecoveryStart(c) \/ RecoveryStarted(c) \/ Reattach(c)
    \/ RecoveryJoins(c) \/ CloseOutput(c)

ReaderActs(p) ==
    \/ ReaderEnds(p) \/ CheckSubscribers(p) \/ SwitchAbandoned(p)
    \/ SwitchSection(p) \/ SwitchReported(p) \/ Recover(p)
    \/ RefreshSection(p) \/ BridgeChosen(p) \/ BridgeSection(p)
    \/ LoopSection(p) \/ RoundFails(p) \/ Retry(p) \/ GiveUp(p)

HealthActs(p) ==
    HealthTrips(p) \/ HealthEnds(p) \/ HealthRequest(p) \/ HealthTerminate(p)

Callers == ClientTasks \union Recoveries
Starters == Callers \union Readers

\* Every step is one of these.
LEMMA StepKinds ==
    ASSUME Next
    PROVE  \/ \E t \in Starters : Attempting(t)
           \/ \E t \in Callers : Calling(t)
           \/ \E t \in StopTasks : StopStep(t)
           \/ \E c \in Clients : OutputActs(c)
           \/ \E p \in Pids : ReaderActs(p) \/ HealthActs(p) \/ ProcessEnds(p)
           \/ HoldDownExpires \/ OthersMove
  <1>1. /\ \A c \in Clients : /\ Client(c) \in Callers
                              /\ Client(c) \in Starters
                              /\ Client(c) \in StopTasks
                              /\ Recovery(c) \in Callers
                              /\ Recovery(c) \in Starters
        /\ \A p \in Pids : Reader(p) \in Starters /\ Reader(p) \in StopTasks
    BY TaskKinds DEF Callers, Starters, StopTasks
  <1>2. ASSUME NEW c \in Clients,
               ClientStep(c) \/ RecoveryStep(c) \/ ClientMoves(c)
        PROVE  \/ \E t \in Starters : Attempting(t)
               \/ \E t \in Callers : Calling(t)
               \/ \E t \in StopTasks : StopStep(t)
               \/ OutputActs(c)
    BY <1>1, <1>2
    DEF ClientStep, RecoveryStep, ClientMoves, StartStep, Attempting, Calling,
        OutputActs
  <1>3. ASSUME NEW p \in Pids,
               ReaderStep(p) \/ HealthStep(p) \/ HealthTrips(p)
        PROVE  \/ \E t \in Starters : Attempting(t)
               \/ \E t \in StopTasks : StopStep(t)
               \/ ReaderActs(p) \/ HealthActs(p)
    BY <1>1, <1>3
    DEF ReaderStep, HealthStep, Attempting, ReaderActs, HealthActs
  <1> QED  BY <1>2, <1>3 DEF Next

\* Whatever the session and its competitors do to the ledger is a method call
\* of the registry.
LEMMA LedgerStep ==
    ASSUME IInv, [Next]_vars
    PROVE  [CapacityNext]_capacityVars
  <1> USE DEF IInv, StateInv, TaskInv
  <1>1. Self \in Owners /\ Sources \subseteq Slots /\ KeyOf \in [Sources -> Keys]
    BY IngestAssumption
  <1>2. ASSUME NEW s \in Sources, Release(KeyOf[s], Self, s)
        PROVE  CapacityNext
    BY <1>1, <1>2 DEF CapacityNext
  <1>3. ASSUME NEW t \in Starters, Attempting(t)
        PROVE  [CapacityNext]_capacityVars
    <2>1. t \in Tasks
      BY TaskKinds DEF Starters, Callers
    <2>2. CASE ChooseCandidate(t)
      <3>1. attempt[t].todo \subseteq Sources
        BY <2>1 DEF TaskTypeOK, Attempts
      <3>2. PICK s \in Sources : \/ TryReserve(KeyOf[s], Self, s)
                                \/ UNCHANGED capacityVars
                                \/ Release(KeyOf[s], Self, s)
        BY <2>2, <3>1 DEF ChooseCandidate
      <3> QED  BY <1>1, <1>2, <3>2 DEF CapacityNext
    <2>3. CASE SpawnFails(t)
      <3>1. attempt[t].trying \in Sources
        BY <2>1, <2>3 DEF SpawnFails, Owns, AttemptsMatch
      <3> QED  BY <1>2, <2>3, <3>1 DEF SpawnFails
    <2>4. CASE SpawnSucceeds(t)
      BY <1>2, <2>4 DEF SpawnSucceeds, SessionTypeOK
    <2> QED  BY <1>3, <2>2, <2>3, <2>4 DEF Attempting
  <1>4. ASSUME NEW t \in Callers, Calling(t)
        PROVE  UNCHANGED capacityVars
    BY <1>4 DEF Calling, StartAlreadyRunning, StartFresh, StartFails, Attaches
  <1>5. ASSUME NEW t \in StopTasks, StopStep(t)
        PROVE  [CapacityNext]_capacityVars
    <2>1. CASE StopSection(t)
      BY <1>1, <2>1 DEF StopSection, CapacityNext
    <2> QED  BY <1>5, <2>1 DEF StopStep, StopNothing, Drained, EofSection
  <1>6. ASSUME NEW c \in Clients, OutputActs(c)
        PROVE  UNCHANGED capacityVars
    BY <1>6
    DEF OutputActs, ClientStart, ClientStarted, ClientJoins, ClientRefers, RecoveryBegins, ReadEof,
        ClientLeaves, RemoveSubscriber, RequestCancelled, RecoveryStart,
        RecoveryStarted, Reattach, RecoveryJoins, CloseOutput, Subscribe
  <1>7. ASSUME NEW p \in Pids, ReaderActs(p)
        PROVE  [CapacityNext]_capacityVars
    <2>1. CASE SwitchSection(p)
      BY <1>2, <2>1 DEF SwitchSection, SessionTypeOK
    <2> QED
      BY <1>7, <2>1
      DEF ReaderActs, ReaderEnds, CheckSubscribers, SwitchAbandoned,
          SwitchReported, Recover, RefreshSection, BridgeChosen, BridgeSection, LoopSection,
          RoundFails, Retry, GiveUp
  <1>8. ASSUME NEW p \in Pids, HealthActs(p) \/ ProcessEnds(p)
        PROVE  UNCHANGED capacityVars
    BY <1>8
    DEF HealthActs, HealthTrips, HealthEnds, HealthRequest, HealthTerminate,
        ProcessEnds
  <1>9. CASE HoldDownExpires \/ OthersMove
    BY <1>9 DEF HoldDownExpires, OthersMove, CapacityNext
  <1>10. CASE UNCHANGED vars
    BY <1>10 DEF vars
  <1>11. CASE Next
    BY <1>11, StepKinds, <1>3, <1>4, <1>5, <1>6, <1>7, <1>8, <1>9
  <1> QED  BY <1>10, <1>11

\* The session's fields, the clients' queues and the processes keep their types.
LEMMA StateStep ==
    ASSUME IInv, [Next]_vars
    PROVE  StateInv'
  <1> USE DEF IInv, StateInv, TaskInv
  <1>1. ASSUME UNCHANGED <<sessionVars, clientVars, worldVars>>
        PROVE  StateInv'
    BY <1>1
    DEF SessionTypeOK, WorldTypeOK, sessionVars, clientVars, worldVars
  <1>2. 0 \in 0..MaxProcess /\ NoSource \in Sources \union {NoSource}
    BY IngestAssumption
  <1>3. ASSUME NEW t \in Starters, Attempting(t)
        PROVE  StateInv'
    <2>1. t \in Tasks
      BY TaskKinds DEF Starters, Callers
    <2>2. CASE ChooseCandidate(t)
      <3>1. handoff' \in {handoff, {0}}
        BY <2>2 DEF ChooseCandidate
      <3> QED
        BY <1>2, <2>2, <3>1
        DEF ChooseCandidate, SessionTypeOK, WorldTypeOK, clientVars, worldVars
    <2>3. CASE SpawnFails(t)
      BY <1>2, <2>3
      DEF SpawnFails, SessionTypeOK, WorldTypeOK, clientVars, worldVars
    <2>4. CASE SpawnSucceeds(t)
      <3>1. attempt[t].trying \in Sources
        BY <2>1, <2>4 DEF SpawnSucceeds, Owns, AttemptsMatch
      <3>2. token + 1 \in 0..MaxProcess /\ token + 1 \in Pids
        BY <2>4, IngestAssumption DEF SpawnSucceeds, SessionTypeOK, Pids
      <3>3. healthTask' \in {0, token + 1} /\ handoff' \in {handoff, {token + 1}}
        BY <2>4 DEF SpawnSucceeds
      <3> QED
        BY <1>2, <2>4, <3>1, <3>2, <3>3
        DEF SpawnSucceeds, SessionTypeOK, WorldTypeOK, clientVars
    <2> QED  BY <1>3, <2>2, <2>3, <2>4 DEF Attempting
  <1>4. ASSUME NEW t \in Callers, Calling(t)
        PROVE  StateInv'
    <2>1. CASE StartAlreadyRunning(t)
      BY <1>1, <2>1 DEF StartAlreadyRunning
    <2>2. CASE StartFresh(t)
      <3>1. lives' \in 0..MaxLives
        BY <2>2, IngestAssumption DEF StartFresh, WorldTypeOK
      <3>2. WorldTypeOK'
        BY <2>2, <3>1 DEF StartFresh, WorldTypeOK
      <3> QED  BY <2>2, <3>2 DEF StartFresh, SessionTypeOK, clientVars
    <2>3. CASE StartFails(t)
      BY <2>3
      DEF StartFails, SessionTypeOK, WorldTypeOK, clientVars, worldVars
    <2> QED  BY <1>4, <2>1, <2>2, <2>3 DEF Calling
  <1>5. ASSUME NEW t \in StopTasks, StopStep(t)
        PROVE  StateInv'
    <2>1. CASE StopNothing(t)
      BY <1>1, <2>1 DEF StopNothing
    <2>2. CASE StopSection(t)
      BY <1>2, <2>2 DEF StopSection, SessionTypeOK, WorldTypeOK, clientVars
    <2>3. CASE Drained(t)
      BY <1>2, <2>3
      DEF Drained, SessionTypeOK, WorldTypeOK, clientVars, worldVars
    <2>4. CASE EofSection(t)
      BY <2>4
      DEF EofSection, SessionTypeOK, WorldTypeOK, sessionVars, worldVars
    <2> QED  BY <1>5, <2>1, <2>2, <2>3, <2>4 DEF StopStep
  <1>6. ASSUME NEW c \in Clients, OutputActs(c)
        PROVE  StateInv'
    <2>1. CASE ClientJoins(c) \/ RecoveryJoins(c)
      BY <2>1
      DEF ClientJoins, RecoveryJoins, Subscribe, SessionTypeOK, WorldTypeOK,
          sessionVars, worldVars
    <2>2. CASE ReadEof(c) \/ RemoveSubscriber(c) \/ ClientRefers(c)
      BY <2>2
      DEF ReadEof, RemoveSubscriber, ClientRefers, SessionTypeOK, WorldTypeOK, sessionVars,
          worldVars
    <2> QED
      BY <1>1, <1>6, <2>1, <2>2
      DEF OutputActs, ClientStart, ClientStarted, ClientLeaves,
          RequestCancelled, RecoveryBegins, RecoveryStart, RecoveryStarted,
          Reattach, CloseOutput
  <1>7. ASSUME NEW p \in Pids, ReaderActs(p)
        PROVE  StateInv'
    <2> USE DEF SessionTypeOK, WorldTypeOK, clientVars, worldVars
    <2>1. CASE SwitchAbandoned(p)
      BY <1>2, <2>1 DEF SwitchAbandoned
    <2>2. CASE SwitchSection(p)
      BY <1>2, <2>2 DEF SwitchSection
    <2>3. CASE Recover(p)
      BY <2>3 DEF Recover
    <2>4. CASE RefreshSection(p)
      BY <2>4 DEF RefreshSection
    <2>5. CASE BridgeSection(p)
      BY <2>5 DEF BridgeSection
    <2>6. CASE LoopSection(p)
      BY <2>6 DEF LoopSection
    <2>7. CASE GiveUp(p)
      BY <2>7 DEF GiveUp
    <2>8. CASE ReaderEnds(p) \/ CheckSubscribers(p) \/ SwitchReported(p)
               \/ BridgeChosen(p) \/ RoundFails(p) \/ Retry(p)
      BY <1>1, <2>8
      DEF ReaderEnds, CheckSubscribers, SwitchReported, BridgeChosen, RoundFails,
          Retry
    <2> QED
      BY <1>7, <2>1, <2>2, <2>3, <2>4, <2>5, <2>6, <2>7, <2>8 DEF ReaderActs
  <1>8. ASSUME NEW p \in Pids, HealthActs(p) \/ ProcessEnds(p)
        PROVE  StateInv'
    <2>1. CASE HealthTrips(p) \/ HealthEnds(p)
      BY <1>1, <2>1 DEF HealthTrips, HealthEnds
    <2>2. CASE HealthRequest(p)
      BY <2>2
      DEF HealthRequest, SessionTypeOK, WorldTypeOK, clientVars, worldVars
    <2>3. CASE HealthTerminate(p) \/ ProcessEnds(p)
      BY <2>3
      DEF HealthTerminate, ProcessEnds, SessionTypeOK, WorldTypeOK,
          sessionVars, clientVars
    <2> QED  BY <1>8, <2>1, <2>2, <2>3 DEF HealthActs
  <1>9. CASE HoldDownExpires
    BY <1>9
    DEF HoldDownExpires, SessionTypeOK, WorldTypeOK, clientVars, worldVars
  <1>10. CASE OthersMove
    BY <1>1, <1>10 DEF OthersMove
  <1>11. CASE UNCHANGED vars
    BY <1>1, <1>11 DEF vars
  <1>12. CASE Next
    BY <1>12, StepKinds, <1>3, <1>4, <1>5, <1>6, <1>7, <1>8, <1>9, <1>10
  <1> QED  BY <1>11, <1>12

\* A client's task, or its recovery loop, may make any move.
LEMMA CallerMoves ==
    ASSUME IInv, NEW t \in Callers, NEW l \in Labels(t) \ {"choose", "spawn"},
           Move(t, l)
    PROVE  TaskInv'
  BY MoveKeeps, TaskKinds DEF Callers

\* Nor does it matter how many of them move at once.
LEMMA CallersMove ==
    ASSUME IInv, TaskTypeOK', AttemptsMatch', UNCHANGED <<process, token, handoff>>,
           \A u \in Tasks \ Callers : pc'[u] = pc[u]
    PROVE  TaskInv'
  <1> USE DEF IInv, TaskInv
  <1>1. \A p \in Pids : pc'[Reader(p)] = pc[Reader(p)]
    BY TaskKinds DEF Callers, ClientTasks, Recoveries
  <1>2. LatestProcess'
    BY <1>1 DEF LatestProcess
  <1>3. ReaderWatches'
    <2>1. process # 0 => process \in Pids
      BY DEF StateInv, SessionTypeOK, Pids
    <2> QED  BY <1>1, <2>1 DEF ReaderWatches
  <1> QED  BY <1>2, <1>3

\* What the outputs do.
LEMMA OutputStep ==
    ASSUME IInv, NEW c \in Clients, OutputActs(c)
    PROVE  TaskInv'
  <1>1. /\ Client(c) \in Callers /\ Recovery(c) \in Callers
        /\ Client(c) \in Tasks /\ Recovery(c) \in Tasks
        /\ Labels(Client(c)) = ClientLabels
        /\ Labels(Recovery(c)) = RecoveryLabels
    BY TaskKinds DEF Callers
  <1> USE DEF Await, Unlock, UnlockAwait, Owns, sessionVars, ClientLabels,
              RecoveryLabels
  <1>2. CASE ClientStart(c)
    <2>1. Move(Client(c), "start")
      BY <1>2 DEF ClientStart, Move
    <2> QED  BY <1>1, <2>1, CallerMoves
  <1>3. CASE ClientStarted(c)
    <2>1. \E l \in {"restart", "again", "out"} : Move(Client(c), l)
      BY <1>3 DEF ClientStarted, Move
    <2> QED  BY <1>1, <2>1, CallerMoves
  <1>4. CASE ClientJoins(c)
    <2>1. CASE pc' = [pc EXCEPT ![Client(c)] = "out"]
      <3>1. Move(Client(c), "out")
        BY <1>4, <2>1 DEF ClientJoins, Subscribe, Move
      <3> QED  BY <1>1, <3>1, CallerMoves
    <2>2. CASE pc' = [pc EXCEPT ![Client(c)] = "in", ![Recovery(c)] = "new"]
      <3>1. /\ lockq # <<>> /\ lockq' = Tail(lockq)
            /\ UNCHANGED <<process, token, handoff, attempt, victim, bridge>>
        BY <1>4 DEF ClientJoins, Subscribe
      <3>2. TaskTypeOK
        BY DEF IInv, TaskInv
      <3>3. lockq' \in Seq(Tasks)
        BY <3>1, <3>2 DEF TaskTypeOK
      <3>4. TaskTypeOK'
        BY <1>1, <2>2, <3>1, <3>2, <3>3 DEF TaskTypeOK
      <3>5. AttemptsMatch'
        BY <1>1, <2>2, <3>1, <3>2 DEF IInv, TaskInv, AttemptsMatch, TaskTypeOK
      <3> QED  BY <1>1, <2>2, <3>1, <3>2, <3>4, <3>5, CallersMove DEF TaskTypeOK
    <2> QED  BY <1>4, <2>1, <2>2 DEF ClientJoins
  <1>14. CASE ClientRefers(c)
    <2>1. \E l \in {"linked", "leave"} : Move(Client(c), l)
      BY <1>14 DEF ClientRefers, Move
    <2> QED  BY <1>1, <2>1, CallerMoves
  <1>15. CASE RecoveryBegins(c)
    <2>1. \E l \in {"idle", "over"} : Move(Recovery(c), l)
      BY <1>15 DEF RecoveryBegins, Move
    <2> QED  BY <1>1, <2>1, CallerMoves
  <1>5. CASE ReadEof(c)
    <2>1. \E l \in {"in", "detached"} : Move(Client(c), l)
      BY <1>5 DEF ReadEof, Move
    <2> QED  BY <1>1, <2>1, CallerMoves
  <1>6. CASE ClientLeaves(c)
    <2>1. \E l \in {"leave", "closing"} : Move(Client(c), l)
      BY <1>6 DEF ClientLeaves, Move
    <2> QED  BY <1>1, <2>1, CallerMoves
  <1>7. CASE RemoveSubscriber(c)
    <2>1. \E l \in {"stop", "closing"} : Move(Client(c), l)
      BY <1>7 DEF RemoveSubscriber, Move
    <2> QED  BY <1>1, <2>1, CallerMoves
  <1>8. CASE RequestCancelled(c)
    <2>1. Move(Client(c), "out")
      BY <1>8 DEF RequestCancelled, Move
    <2> QED  BY <1>1, <2>1, CallerMoves
  <1>9. CASE RecoveryStart(c)
    <2>1. Move(Recovery(c), "start")
      BY <1>9 DEF RecoveryStart, Move
    <2> QED  BY <1>1, <2>1, CallerMoves
  <1>10. CASE RecoveryStarted(c)
    <2>1. \E l \in {"join", "idle"} : Move(Recovery(c), l)
      BY <1>10 DEF RecoveryStarted, Move
    <2> QED  BY <1>1, <2>1, CallerMoves
  <1>11. CASE Reattach(c)
    <2>1. \E l \in {"join", "rejoin"} : Move(Recovery(c), l)
      BY <1>11 DEF Reattach, Move
    <2> QED  BY <1>1, <2>1, CallerMoves
  <1>12. CASE RecoveryJoins(c)
    <2> DEFINE next == IF pc[Client(c)] = "detached" THEN "in"
                                                      ELSE pc[Client(c)]
               after == IF pc[Recovery(c)] = "join" THEN "idle" ELSE "over"
    <2>1. /\ pc' = [pc EXCEPT ![Recovery(c)] = after, ![Client(c)] = next]
          /\ lockq # <<>> /\ lockq' = Tail(lockq)
          /\ UNCHANGED <<process, token, handoff, attempt, victim, bridge>>
      BY <1>1, <1>12, TaskKinds DEF RecoveryJoins, Subscribe
    <2>2. TaskTypeOK
      BY DEF IInv, TaskInv
    <2>3. next \in ClientLabels /\ after \in RecoveryLabels \ {"choose", "spawn"}
      BY <1>1, <2>2 DEF TaskTypeOK
    <2> HIDE DEF after
    <2>4. lockq' \in Seq(Tasks)
      BY <2>1, <2>2 DEF TaskTypeOK
    <2>5. TaskTypeOK'
      BY <1>1, <2>1, <2>2, <2>3, <2>4 DEF TaskTypeOK
    <2>6. AttemptsMatch'
      BY <1>1, <2>1, <2>2, <2>3 DEF IInv, TaskInv, AttemptsMatch, TaskTypeOK
    <2> QED  BY <1>1, <2>1, <2>2, <2>5, <2>6, CallersMove DEF TaskTypeOK
  <1>13. CASE CloseOutput(c)
    <2>1. /\ pc' = [pc EXCEPT ![Client(c)] = "out", ![Recovery(c)] = "idle"]
          /\ lockq' = Without(Recovery(c))
          /\ attempt' = [attempt EXCEPT ![Recovery(c)] = NoAttempt]
          /\ UNCHANGED <<process, token, handoff, victim, bridge>>
      BY <1>13 DEF CloseOutput
    <2>2. TaskTypeOK
      BY DEF IInv, TaskInv
    <2>3. NoAttempt \in Attempts /\ lockq' \in Seq(Tasks)
      BY <2>1, <2>2, WithoutType DEF NoAttempt, Attempts, TaskTypeOK
    <2>4. TaskTypeOK'
      BY <1>1, <2>1, <2>2, <2>3 DEF TaskTypeOK
    <2>5. AttemptsMatch'
      BY <1>1, <2>1, <2>2 DEF IInv, TaskInv, AttemptsMatch, TaskTypeOK
    <2> QED  BY <1>1, <2>1, <2>2, <2>4, <2>5, CallersMove DEF TaskTypeOK
  <1> QED
    BY <1>2, <1>3, <1>4, <1>5, <1>6, <1>7, <1>8, <1>9, <1>10, <1>11, <1>12,
       <1>13, <1>14, <1>15
    DEF OutputActs

\* Starting a session and trying one source after another.
LEMMA StartStepKeeps ==
    ASSUME IInv, NEW t \in Callers, Calling(t)
    PROVE  TaskInv'
  <1> USE DEF Unlock, UnlockAwait, Attaches, Owns
  <1>1. /\ t \in Tasks /\ \A p \in Pids : t # Reader(p)
        /\ \/ t \in ClientTasks /\ Labels(t) = ClientLabels /\ Modes(t) = Calls
           \/ t \in Recoveries /\ Labels(t) = RecoveryLabels
              /\ Modes(t) = {"start"}
        /\ {"started", "join", "choose"} \subseteq Labels(t)
    BY TaskKinds DEF Callers, ClientLabels, RecoveryLabels
  <1>2. TaskTypeOK
    BY DEF IInv, TaskInv
  <1>3. CASE StartAlreadyRunning(t)
    <2>1. \E l \in {"started", "join", "out", "refer"} :
             Move(t, l) /\ (l \in {"out", "refer"} => pc[t] \in {"restart", "again"})
      BY <1>3 DEF StartAlreadyRunning, Move, sessionVars
    <2>2. t \in Recoveries => pc[t] \notin {"restart", "again"}
      BY <1>1, <1>2, TaskKinds DEF TaskTypeOK, RecoveryLabels
    <2> QED  BY <1>1, <2>1, <2>2, CallerMoves DEF ClientLabels
  <1>4. CASE StartFresh(t)
    <2>1. PICK call \in Calls, todo \in SUBSET Sources :
             /\ pc[t] = call
             /\ attempt' = [attempt EXCEPT ![t] =
                   [mode |-> call, trying |-> NoSource, todo |-> todo]]
      BY <1>4 DEF StartFresh, IInv, StateInv, SessionTypeOK
    <2>2. /\ pc' = [pc EXCEPT ![t] = "choose"]
          /\ UNCHANGED <<process, token, handoff, lockq, victim, bridge>>
      BY <1>4 DEF StartFresh
    <2>3. /\ call \in Modes(t)
          /\ [mode |-> call, trying |-> NoSource, todo |-> todo] \in Attempts
      BY <1>1, <1>2, <2>1
      DEF TaskTypeOK, Calls, RecoveryLabels, Attempts
    <2>4. TaskTypeOK'
      BY <1>1, <1>2, <2>1, <2>2, <2>3 DEF TaskTypeOK
    <2>5. AttemptsMatch'
      BY <1>1, <1>2, <2>1, <2>2, <2>3
      DEF IInv, TaskInv, AttemptsMatch, TaskTypeOK
    <2> QED  BY <1>1, <1>2, <2>2, <2>4, <2>5, CallersMove DEF TaskTypeOK
  <1>5. CASE StartFails(t)
    <2>1. attempt[t].mode \in Modes(t)
      BY <1>1, <1>5 DEF StartFails, IInv, TaskInv, AttemptsMatch
    <2>2. t \in Recoveries => attempt[t].mode = "start"
      BY <1>1, <2>1, TaskKinds
    <2>3. \E l \in {"idle", "out", "join", "refer"} :
             Move(t, l) /\ (l = "join" \/ (l = "idle" <=> t \in Recoveries))
      BY <1>5, <2>2 DEF StartFails, Move
    <2> QED
      BY <1>1, <2>3, CallerMoves, TaskKinds DEF ClientLabels, RecoveryLabels
  <1> QED  BY <1>3, <1>4, <1>5 DEF Calling

\* The two steps of an attempt that leave the session without a new process.
LEMMA TryStepKeeps ==
    ASSUME IInv, NEW t \in Starters, ChooseCandidate(t) \/ SpawnFails(t)
    PROVE  TaskInv'
  <1>1. /\ t \in Tasks /\ {"choose", "spawn"} \subseteq Labels(t)
        /\ pc[t] \in {"choose", "spawn"}
        /\ attempt[t].mode \in Modes(t) /\ attempt[t] \in Attempts
    BY TaskKinds
    DEF Starters, Callers, ClientLabels, RecoveryLabels, ReaderLabels,
        ChooseCandidate, SpawnFails, Owns, IInv, TaskInv, AttemptsMatch,
        TaskTypeOK
  <1>2. TaskTypeOK /\ AttemptsMatch /\ LatestProcess /\ ReaderWatches
    BY DEF IInv, TaskInv
  <1>3. PICK next \in {"choose", "spawn"}, a \in Attempts :
           /\ DOMAIN pc' = Tasks /\ pc'[t] = next
           /\ \A u \in Tasks \ {t} : pc'[u] = pc[u]
           /\ attempt' = [attempt EXCEPT ![t] = a]
           /\ a.mode = attempt[t].mode
           /\ next = "spawn" => a.trying \in Sources
    <2>1. CASE ChooseCandidate(t)
      <3>1. PICK s \in Sources :
               \/ /\ attempt' = [attempt EXCEPT ![t].todo = @ \ {s},
                                                ![t].trying = s]
                  /\ pc' = [pc EXCEPT ![t] = "spawn"]
               \/ /\ attempt' = [attempt EXCEPT ![t].todo = @ \ {s}]
                  /\ pc' = pc
        BY <1>1, <2>1 DEF ChooseCandidate, Attempts
      <3>2. CASE pc' = pc /\ attempt' = [attempt EXCEPT ![t].todo = @ \ {s}]
        <4>1. [attempt[t] EXCEPT !.todo = @ \ {s}] \in Attempts
          BY <1>1 DEF Attempts
        <4>2. attempt' = [attempt EXCEPT ![t] =
                             [attempt[t] EXCEPT !.todo = @ \ {s}]]
          BY <3>2
        <4>3. pc[t] = "choose"
          BY <2>1 DEF ChooseCandidate, Owns
        <4> QED  BY <4>1, <4>2, <4>3, <3>2, <1>1, <1>2 DEF Attempts, TaskTypeOK
      <3>3. CASE /\ attempt' = [attempt EXCEPT ![t].todo = @ \ {s},
                                               ![t].trying = s]
                 /\ pc' = [pc EXCEPT ![t] = "spawn"]
        <4> DEFINE a == [attempt[t] EXCEPT !.todo = @ \ {s}, !.trying = s]
        <4>1. a \in Attempts /\ a.mode = attempt[t].mode /\ a.trying = s
          BY <1>1 DEF Attempts
        <4>2. attempt' = [attempt EXCEPT ![t] = a]
          BY <3>3, <1>1, <1>2 DEF TaskTypeOK
        <4> QED  BY <4>1, <4>2, <3>3, <1>1, <1>2, ZenonT(30) DEF TaskTypeOK
      <3> QED  BY <3>1, <3>2, <3>3
    <2>2. CASE SpawnFails(t)
      <3> DEFINE a == [attempt[t] EXCEPT !.trying = NoSource]
      <3>1. a \in Attempts /\ a.mode = attempt[t].mode
        BY <1>1 DEF Attempts
      <3>2. attempt' = [attempt EXCEPT ![t] = a]
        BY <2>2 DEF SpawnFails
      <3> QED  BY <2>2, <3>1, <3>2, <1>1, <1>2 DEF SpawnFails, TaskTypeOK
    <2> QED  BY <2>1, <2>2
  <1>4. /\ UNCHANGED <<token, lockq, victim, bridge>>
        /\ process' \in {0, process} /\ (handoff # {} => handoff' # {})
    BY DEF ChooseCandidate, SpawnFails, sessionVars
  <1>5. TaskTypeOK'
    BY <1>1, <1>2, <1>3, <1>4 DEF TaskTypeOK
  <1>6. AttemptsMatch'
    BY <1>1, <1>2, <1>3 DEF AttemptsMatch, TaskTypeOK
  <1>7. /\ \A p \in Pids : Reader(p) \in Tasks
        /\ process # 0 => process \in Pids
    BY TaskKinds DEF IInv, StateInv, SessionTypeOK, Pids
  <1>8. LatestProcess'
    BY <1>1, <1>2, <1>3, <1>4, <1>7 DEF LatestProcess
  <1>9. ReaderWatches'
    BY <1>1, <1>2, <1>3, <1>4, <1>7 DEF ReaderWatches, Watching
  <1> QED  BY <1>5, <1>6, <1>8, <1>9 DEF TaskInv

\* A new process comes with a reader that has not been used before.
LEMMA SpawnStepKeeps ==
    ASSUME IInv, NEW t \in Starters, SpawnSucceeds(t)
    PROVE  TaskInv'
  <1> DEFINE n == token + 1
             reads == IF handoff = {} THEN "read" ELSE "off"
             health == IF handoff # {} THEN pc[Health(n)]
                       ELSE IF allowFailover THEN "watch" ELSE "done"
             labels == [pc EXCEPT ![t] = AfterSpawn(t), ![Reader(n)] = reads,
                                  ![Health(n)] = health]
  <1>1. TaskTypeOK /\ AttemptsMatch /\ LatestProcess /\ SessionTypeOK
    BY DEF IInv, TaskInv, StateInv
  <1>2. /\ n \in Pids /\ token # n /\ t \in Tasks
        /\ Reader(n) \in Readers /\ Health(n) \in Healths
    BY <1>1, TaskKinds, IngestAssumption
    DEF SpawnSucceeds, SessionTypeOK, Pids, Starters, Callers
  <1>3. /\ t # Reader(n) /\ t # Health(n) /\ Reader(n) # Health(n)
        /\ Reader(n) \in Tasks /\ Health(n) \in Tasks
    BY <1>1, <1>2, TaskKinds
    DEF LatestProcess, SpawnSucceeds, Owns, SessionTypeOK, Pids, Starters,
        Callers
  <1>4. attempt[t].mode \in Modes(t) /\ lockq # <<>>
    BY <1>1, <1>2 DEF AttemptsMatch, SpawnSucceeds, Owns
  <1>a. pc[Reader(n)] = "off"
    BY <1>1, <1>2 DEF LatestProcess, SessionTypeOK, Pids
  <1>5. /\ pc' = labels /\ process' = n /\ token' = n
        /\ attempt' = [attempt EXCEPT ![t] = NoAttempt]
        /\ lockq' \in {Tail(lockq), Append(Tail(lockq), t)}
        /\ handoff # {} => handoff' # {}
        /\ UNCHANGED <<victim, bridge>>
    <2>1. pc' = labels
      BY <1>1, <1>3, <1>a DEF SpawnSucceeds, TaskTypeOK
    <2> QED  BY <2>1 DEF SpawnSucceeds
  <1>6. AfterSpawn(t) \in Labels(t) \ {"choose", "spawn"}
    BY <1>4, TaskKinds
    DEF AfterSpawn, Calls, ClientLabels, RecoveryLabels, ReaderLabels, Starters,
        Callers
  <1>b. reads \in ReaderLabels \ {"choose", "spawn"}
        /\ health \in HealthLabels /\ health \notin {"choose", "spawn"}
    BY <1>1, <1>2, <1>3, TaskKinds DEF TaskTypeOK, ReaderLabels, HealthLabels
  <1>7. TaskTypeOK'
    <2>1. /\ Labels(Reader(n)) = ReaderLabels
          /\ Labels(Health(n)) = HealthLabels
      BY <1>2, TaskKinds
    <2>2. \A u \in Tasks : labels[u] \in Labels(u)
      BY <1>1, <1>2, <1>3, <1>6, <1>b, <2>1 DEF TaskTypeOK
    <2>3. lockq' \in Seq(Tasks)
      <3>1. Tail(lockq) \in Seq(Tasks)
        BY <1>1, <1>4 DEF TaskTypeOK
      <3>2. Append(Tail(lockq), t) \in Seq(Tasks)
        BY <1>2, <3>1
      <3> QED  BY <1>5, <3>1, <3>2
    <2>4. NoAttempt \in Attempts
      BY DEF NoAttempt, Attempts
    <2> QED  BY <1>1, <1>5, <2>2, <2>3, <2>4 DEF TaskTypeOK
  <1>8. AttemptsMatch'
    <2> HIDE DEF reads, health
    <2> QED  BY <1>1, <1>2, <1>3, <1>5, <1>6, <1>b DEF AttemptsMatch, TaskTypeOK
  <1>9. LatestProcess'
    <2> SUFFICES ASSUME NEW p \in Pids, p > n
                 PROVE  pc'[Reader(p)] = "off"
      BY <1>5 DEF LatestProcess
    <2>1. /\ pc[Reader(p)] = "off" /\ Reader(p) \in Tasks
          /\ Reader(p) # Reader(n) /\ Reader(p) # Health(n)
      BY <1>1, <1>2, TaskKinds DEF LatestProcess, SessionTypeOK, Pids
    <2>2. Reader(p) # t
      BY <2>1 DEF SpawnSucceeds, Owns
    <2> QED  BY <1>1, <1>5, <2>1, <2>2 DEF TaskTypeOK
  <1>10. ReaderWatches'
    BY <1>1, <1>3, <1>5 DEF ReaderWatches, Watching, TaskTypeOK
  <1> QED  BY <1>7, <1>8, <1>9, <1>10 DEF TaskInv

\* Stopping.
LEMMA StopStepKeeps ==
    ASSUME IInv, NEW t \in StopTasks, StopStep(t)
    PROVE  TaskInv'
  <1>1. /\ t \in Tasks /\ {"done", "closing"} \cap Labels(t) = {AfterStop(t)}
        /\ AfterStop(t) \in Labels(t) \ {"choose", "spawn"}
        /\ {"drain", "eof"} \subseteq Labels(t)
        /\ t \notin Healths
    BY TaskKinds
    DEF StopTasks, AfterStop, ClientLabels, ReaderLabels, ClientTasks, Readers,
        Healths, Client, Reader, Health
  <1>2. TaskTypeOK /\ AttemptsMatch /\ LatestProcess /\ ReaderWatches
    BY DEF IInv, TaskInv
  <1>3. /\ \A p \in Pids : Reader(p) \in Tasks
        /\ process # 0 => process \in Pids
    BY TaskKinds DEF IInv, StateInv, SessionTypeOK, Pids
  <1> USE DEF Unlock, Owns
  <1>4. CASE StopNothing(t)
    <2>1. Move(t, AfterStop(t)) /\ pc[t] = "stop" /\ process = 0
      BY <1>4 DEF StopNothing, Move, sessionVars
    <2>2. \A p \in Pids : p # process
      BY <2>1 DEF Pids
    <2> QED  BY <1>1, <2>1, <2>2, MoveKeeps
  <1>5. CASE StopSection(t)
    <2>1. /\ pc' = [pc EXCEPT ![t] = "drain"] /\ pc[t] = "stop"
          /\ lockq # <<>> /\ lockq' = Tail(lockq)
          /\ process' = 0 /\ victim' = [victim EXCEPT ![t] = process]
          /\ UNCHANGED <<token, attempt, bridge>>
      BY <1>5 DEF StopSection
    <2>2. process \in 0..MaxProcess
      BY DEF IInv, StateInv, SessionTypeOK
    <2>3. TaskTypeOK'
      BY <1>1, <1>2, <2>1, <2>2 DEF TaskTypeOK
    <2>4. AttemptsMatch'
      BY <1>1, <1>2, <2>1 DEF AttemptsMatch, TaskTypeOK
    <2>5. LatestProcess' /\ ReaderWatches'
      BY <1>2, <1>3, <2>1 DEF LatestProcess, ReaderWatches, TaskTypeOK
    <2> QED  BY <2>3, <2>4, <2>5 DEF TaskInv
  <1>6. CASE Drained(t)
    <2>1. /\ pc' = [u \in Tasks |-> CASE u = t -> "eof"
                                      [] u = Health(healthTask) -> "done"
                                      [] OTHER -> pc[u]]
          /\ lockq' = Append(Without(Health(healthTask)), t)
          /\ victim' = [victim EXCEPT ![t] = 0] /\ pc[t] = "drain"
          /\ UNCHANGED <<process, token, handoff, attempt, bridge>>
      BY <1>6 DEF Drained
    <2>2. \A u \in Tasks : pc'[u] = pc[u] \/ (u = t /\ pc'[u] = "eof")
                           \/ (u = Health(healthTask) /\ pc'[u] = "done")
      BY <2>1
    <2>3. TaskTypeOK'
      <3>1. Without(Health(healthTask)) \in Seq(Tasks)
        BY <1>2, WithoutType DEF TaskTypeOK
      <3>2. lockq' \in Seq(Tasks) /\ DOMAIN pc' = Tasks
        BY <1>1, <2>1, <3>1
      <3>3. 0 \in 0..MaxProcess
        BY IngestAssumption
      <3>4. Health(healthTask) \in Tasks => "done" \in Labels(Health(healthTask))
        BY TaskKinds
        DEF HealthLabels, Tasks, ClientTasks, Recoveries, Readers, Healths,
            Client, Recovery, Reader, Health
      <3> QED  BY <1>1, <1>2, <2>1, <2>2, <3>2, <3>3, <3>4 DEF TaskTypeOK
    <2>4. AttemptsMatch'
      BY <1>2, <2>1, <2>2 DEF AttemptsMatch
    <2>5. \A p \in Pids : pc[Reader(p)] = pc'[Reader(p)] \/ Reader(p) = t
      BY <1>3, <2>2, TaskKinds
    <2>6. LatestProcess' /\ ReaderWatches'
      BY <1>2, <1>3, <2>1, <2>5 DEF LatestProcess, ReaderWatches, Watching
    <2> QED  BY <2>3, <2>4, <2>6 DEF TaskInv
  <1>7. CASE EofSection(t)
    <2>1. Move(t, AfterStop(t)) /\ pc[t] = "eof"
      BY <1>7 DEF EofSection, Move, sessionVars
    <2>2. \A p \in Pids : t = Reader(p) => p # process
      BY <1>2, <2>1 DEF ReaderWatches, Watching, Pids
    <2> QED  BY <1>1, <2>1, <2>2, MoveKeeps
  <1> QED  BY <1>4, <1>5, <1>6, <1>7 DEF StopStep

\* The reader of an ended process.
LEMMA ReaderStepKeeps ==
    ASSUME IInv, NEW p \in Pids, ReaderActs(p)
    PROVE  TaskInv'
  <1>1. /\ Reader(p) \in Tasks /\ Reader(p) \in Readers
        /\ Labels(Reader(p)) = ReaderLabels
        /\ Modes(Reader(p)) = {"bridge", "failover"}
        /\ \A q \in Pids : Reader(p) = Reader(q) => p = q
        /\ \A q \in Pids : Reader(q) \in Tasks
        /\ process # 0 => process \in Pids
    BY TaskKinds DEF IInv, StateInv, SessionTypeOK, Pids
  <1>2. TaskTypeOK /\ AttemptsMatch /\ LatestProcess /\ ReaderWatches
    BY DEF IInv, TaskInv
  <1>3. ASSUME NEW l \in ReaderLabels \ {"choose", "spawn"}, Move(Reader(p), l),
               pc[Reader(p)] # "off",
               \/ l \in Watching
               \/ pc[Reader(p)] \notin Watching
               \/ p # token
        PROVE  TaskInv'
    <2>1. p = process => l \in Watching
      BY <1>1, <1>2, <1>3 DEF ReaderWatches, LatestProcess, Watching, Pids
    <2> QED  BY <1>1, <1>3, <2>1, MoveKeeps
  <1> USE DEF Await, Unlock, UnlockAwait, Owns, sessionVars, ReaderLabels,
              Watching
  <1>4. CASE ReaderEnds(p)
    <2>1. \E l \in {"check", "done"} :
             Move(Reader(p), l) /\ (l = "check" \/ p # token)
      BY <1>4 DEF ReaderEnds, Move
    <2> QED  BY <1>3, <1>4, <2>1 DEF ReaderEnds
  <1>5. CASE CheckSubscribers(p)
    <2>1. \E l \in {"stop", "switch"} : Move(Reader(p), l)
      BY <1>5 DEF CheckSubscribers, Move
    <2> QED  BY <1>3, <1>5, <2>1 DEF CheckSubscribers
  <1>6. CASE SwitchReported(p)
    <2>1. Move(Reader(p), "stop")
      BY <1>6 DEF SwitchReported, Move
    <2> QED  BY <1>3, <1>6, <2>1 DEF SwitchReported
  <1>7. CASE Recover(p)
    <2>1. \E l \in {"refresh", "done"} : Move(Reader(p), l)
      BY <1>7 DEF Recover, Move
    <2> QED  BY <1>3, <1>7, <2>1 DEF Recover
  <1>8. CASE RefreshSection(p)
    <2>1. \E l \in {"loop", "bridge"} : Move(Reader(p), l)
      BY <1>8 DEF RefreshSection, Move
    <2> QED  BY <1>3, <1>8, <2>1 DEF RefreshSection
  <1>9. CASE RoundFails(p)
    <2>1. \E l \in {"loop", "stop", "retry"} : Move(Reader(p), l)
      BY <1>9 DEF RoundFails, Move
    <2> QED  BY <1>3, <1>9, <2>1 DEF RoundFails
  <1>13. CASE BridgeChosen(p)
    <2>1. \E l \in {"bridging", "loop"} : Move(Reader(p), l)
      BY <1>13 DEF BridgeChosen, Move
    <2> QED  BY <1>3, <1>13, <2>1 DEF BridgeChosen
  <1>10. CASE Retry(p) \/ GiveUp(p)
    <2>1. \E l \in {"loop", "stop"} : Move(Reader(p), l)
      BY <1>10 DEF Retry, GiveUp, Move
    <2> QED  BY <1>3, <1>10, <2>1 DEF Retry, GiveUp
  <1>11. CASE SwitchAbandoned(p) \/ SwitchSection(p)
    <2>1. PICK l \in ReaderLabels \ {"choose", "spawn"} :
             /\ pc' = [pc EXCEPT ![Reader(p)] = l] /\ pc[Reader(p)] = "switch"
             /\ lockq # <<>>
             /\ lockq' \in {Tail(lockq), Append(Tail(lockq), Reader(p))}
      <3>1. CASE SwitchAbandoned(p)
        BY <3>1 DEF SwitchAbandoned
      <3>2. CASE SwitchSection(p)
        BY <3>2 DEF SwitchSection, AfterSwitch
      <3> QED  BY <1>11, <3>1, <3>2
    <2>2. /\ process' = 0 /\ UNCHANGED <<token, attempt, victim>>
          /\ bridge' \in [Pids -> Sources \union {NoSource}]
      BY <1>2, <1>11
      DEF SwitchAbandoned, SwitchSection, TaskTypeOK, IInv, StateInv,
          SessionTypeOK
    <2>3. lockq' \in Seq(Tasks)
      <3>1. Tail(lockq) \in Seq(Tasks)
        BY <1>2, <2>1 DEF TaskTypeOK
      <3>2. Append(Tail(lockq), Reader(p)) \in Seq(Tasks)
        BY <1>1, <3>1
      <3> QED  BY <2>1, <3>1, <3>2
    <2>4. TaskTypeOK'
      BY <1>1, <1>2, <2>1, <2>2, <2>3 DEF TaskTypeOK
    <2>5. AttemptsMatch'
      BY <1>1, <1>2, <2>1, <2>2 DEF AttemptsMatch, TaskTypeOK
    <2>6. LatestProcess' /\ ReaderWatches'
      BY <1>1, <1>2, <2>1, <2>2 DEF LatestProcess, ReaderWatches, TaskTypeOK
    <2> QED  BY <2>4, <2>5, <2>6 DEF TaskInv
  <1>12. CASE BridgeSection(p) \/ LoopSection(p)
    <2>2. CASE pc' = [pc EXCEPT ![Reader(p)] = "choose"]
      <3>1. PICK m \in {"bridge", "failover"}, todo \in SUBSET Sources :
               attempt' = [attempt EXCEPT ![Reader(p)] =
                  [mode |-> m, todo |-> todo, trying |-> NoSource]]
        BY <1>1, <1>2, <1>12, <2>2
        DEF BridgeSection, LoopSection, IInv, StateInv, SessionTypeOK,
            TaskTypeOK
      <3>2. /\ pc[Reader(p)] \in {"bridging", "loop"}
            /\ UNCHANGED <<process, token, handoff, lockq, victim, bridge>>
        BY <1>1, <1>2, <1>12, <2>2 DEF BridgeSection, LoopSection, TaskTypeOK
      <3>3. [mode |-> m, todo |-> todo, trying |-> NoSource] \in Attempts
        BY DEF Attempts
      <3>4. TaskTypeOK'
        BY <1>1, <1>2, <2>2, <3>1, <3>2, <3>3 DEF TaskTypeOK
      <3>5. AttemptsMatch'
        BY <1>1, <1>2, <2>2, <3>1 DEF AttemptsMatch, TaskTypeOK
      <3>6. LatestProcess' /\ ReaderWatches'
        BY <1>1, <1>2, <2>2, <3>2
        DEF LatestProcess, ReaderWatches, TaskTypeOK
      <3> QED  BY <3>4, <3>5, <3>6 DEF TaskInv
    <2> QED  BY <1>12, <2>2 DEF BridgeSection, LoopSection
  <1> QED
    BY <1>4, <1>5, <1>6, <1>7, <1>8, <1>9, <1>10, <1>11, <1>12, <1>13
    DEF ReaderActs

\* Health loops.
LEMMA HealthStepKeeps ==
    ASSUME IInv, NEW p \in Pids, HealthActs(p)
    PROVE  TaskInv'
  <1>1. /\ Health(p) \in Tasks /\ Labels(Health(p)) = HealthLabels
        /\ \A q \in Pids : Health(p) # Reader(q) /\ Reader(q) \in Tasks
        /\ process # 0 => process \in Pids
    BY TaskKinds DEF IInv, StateInv, SessionTypeOK, Pids
  <1>2. TaskTypeOK /\ AttemptsMatch /\ LatestProcess /\ ReaderWatches
    BY DEF IInv, TaskInv
  <1> USE DEF Await, Unlock, Owns, HealthLabels
  <1>3. CASE HealthTrips(p) \/ HealthEnds(p)
    <2>1. \E l \in {"request", "done"} : Move(Health(p), l)
      BY <1>3 DEF HealthTrips, HealthEnds, Move, sessionVars
    <2> QED  BY <1>1, <2>1, MoveKeeps
  <1>4. CASE HealthRequest(p) \/ HealthTerminate(p)
    <2>1. PICK l \in {"terminate", "done"} : pc' = [pc EXCEPT ![Health(p)] = l]
      BY <1>4 DEF HealthRequest, HealthTerminate
    <2>2. /\ victim' \in [Tasks -> 0..MaxProcess]
          /\ UNCHANGED <<process, token, handoff, attempt, bridge>>
      <3>1. 0 \in 0..MaxProcess /\ process \in 0..MaxProcess
        BY IngestAssumption DEF IInv, StateInv, SessionTypeOK
      <3>2. CASE HealthRequest(p)
        BY <1>2, <3>1, <3>2 DEF HealthRequest, TaskTypeOK
      <3>3. CASE HealthTerminate(p)
        BY <1>2, <3>1, <3>3 DEF HealthTerminate, TaskTypeOK, sessionVars
      <3> QED  BY <1>4, <3>2, <3>3
    <2>3. lockq' \in Seq(Tasks)
      <3>1. lockq # <<>> => Tail(lockq) \in Seq(Tasks)
        BY <1>2 DEF TaskTypeOK
      <3> QED  BY <1>2, <1>4, <3>1 DEF HealthRequest, HealthTerminate, TaskTypeOK
    <2>4. TaskTypeOK'
      BY <1>1, <1>2, <2>1, <2>2, <2>3 DEF TaskTypeOK
    <2>5. AttemptsMatch'
      BY <1>1, <1>2, <2>1, <2>2 DEF AttemptsMatch, TaskTypeOK
    <2>6. LatestProcess' /\ ReaderWatches'
      BY <1>1, <1>2, <2>1, <2>2 DEF LatestProcess, ReaderWatches, TaskTypeOK
    <2> QED  BY <2>4, <2>5, <2>6 DEF TaskInv
  <1> QED  BY <1>3, <1>4 DEF HealthActs

\* What moves no task keeps what is said of them.
LEMMA StillTasksKeep ==
    ASSUME IInv,
           UNCHANGED <<lockq, attempt, pc, victim, bridge, process, token, handoff>>
    PROVE  TaskInv'
  BY DEF IInv, TaskInv, TaskTypeOK, AttemptsMatch, LatestProcess, ReaderWatches

-----------------------------------------------------------------------------
\* The invariant is inductive.
LEMMA InvariantKept ==
    ASSUME IInv, [Next]_vars
    PROVE  IInv'
  <1>1. CapacityTypeOK'
    BY LedgerStep, CapacityTypeKept DEF IInv
  <1>2. ASSUME NEW t \in Starters, Attempting(t)
        PROVE  TaskInv'
    BY <1>2, TryStepKeeps, SpawnStepKeeps DEF Attempting
  <1>3. ASSUME NEW p \in Pids, ProcessEnds(p)
        PROVE  TaskInv'
    BY <1>3, StillTasksKeep DEF ProcessEnds, sessionVars, taskVars
  <1>4. ASSUME HoldDownExpires \/ OthersMove \/ UNCHANGED vars
        PROVE  TaskInv'
    <2>1. UNCHANGED <<lockq, attempt, pc, victim, bridge, process, token, handoff>>
      BY <1>4 DEF HoldDownExpires, OthersMove, sessionVars, taskVars, vars
    <2> QED  BY <2>1, StillTasksKeep
  <1>5. ASSUME NEW t \in StopTasks, StopStep(t)
        PROVE  TaskInv'
    BY <1>5, StopStepKeeps
  <1>6. ASSUME NEW t \in Callers, Calling(t)
        PROVE  TaskInv'
    BY <1>6, StartStepKeeps
  <1>7. ASSUME NEW c \in Clients, OutputActs(c)
        PROVE  TaskInv'
    BY <1>7, OutputStep
  <1>8. ASSUME NEW p \in Pids, ReaderActs(p) \/ HealthActs(p)
        PROVE  TaskInv'
    BY <1>8, ReaderStepKeeps, HealthStepKeeps
  <1>9. TaskInv'
    BY <1>2, <1>3, <1>4, <1>5, <1>6, <1>7, <1>8, StepKinds
  <1> QED  BY <1>1, <1>9, StateStep DEF IInv

LEMMA InvariantHolds == Spec => []IInv
  <1>1. Init => IInv
    <2> SUFFICES ASSUME Init PROVE IInv
      OBVIOUS
    <2>1. CapacityTypeOK
      BY CapacityAssumption DEF Init, CapacityInit, CapacityTypeOK
    <2>2. 0 \in 0..MaxProcess /\ 0 \in 0..MaxLives
      BY IngestAssumption
    <2>3. StateInv
      BY <2>2, IngestAssumption DEF Init, StateInv, SessionTypeOK, WorldTypeOK
    <2> DEFINE Rests(t) == /\ pc[t] \in Labels(t) \ {"choose", "spawn"}
                           /\ t \in Readers => pc[t] = "off"
    <2>a. pc = [t \in Tasks |-> IF t \in ClientTasks THEN "out"
                                ELSE IF t \in Recoveries THEN "idle" ELSE "off"]
      BY DEF Init
    <2>b. \A t \in ClientTasks : Rests(t)
      BY <2>a, TaskKinds DEF Readers, ClientLabels
    <2>c. \A t \in Recoveries : Rests(t)
      BY <2>a, TaskKinds DEF Readers, RecoveryLabels
    <2>d. \A t \in Readers : Rests(t)
      BY <2>a, TaskKinds DEF Readers, ReaderLabels
    <2>e. \A t \in Healths : Rests(t)
      BY <2>a, TaskKinds DEF Readers, Healths, HealthLabels
    <2>4. \A t \in Tasks : /\ pc[t] \in Labels(t) \ {"choose", "spawn"}
                           /\ t \in Readers => pc[t] = "off"
      BY <2>b, <2>c, <2>d, <2>e DEF Tasks
    <2>5. TaskTypeOK
      BY <2>2, <2>4 DEF Init, TaskTypeOK, NoAttempt, Attempts
    <2>6. AttemptsMatch /\ LatestProcess /\ ReaderWatches
      BY <2>4, TaskKinds DEF Init, AttemptsMatch, LatestProcess, ReaderWatches
    <2> QED  BY <2>1, <2>3, <2>5, <2>6 DEF IInv, TaskInv
  <1>2. IInv /\ [Next]_vars => IInv'
    BY InvariantKept
  <1> QED  BY <1>1, <1>2, PTL DEF Spec

\* The state of the session keeps its shape: every task is where its kind of
\* task can be, the lock's queue holds tasks, and a hunt is over known sources.
THEOREM IngestTypeCorrect == Spec => []TypeOK
  <1>1. IInv => TypeOK
    BY DEF IInv, StateInv, TaskInv, TypeOK
  <1> QED  BY <1>1, InvariantHolds, PTL

\* However often the session is stopped and started again, the process in use
\* has a reader that will notice its end, or was started while a handoff was set
\* and never had one (_activate_process_unlocked, _read_loop).
THEOREM ProcessAlwaysWatched == Spec => []ReaderWatches
  <1>1. IInv => ReaderWatches
    BY DEF IInv, TaskInv
  <1> QED  BY <1>1, InvariantHolds, PTL

\* A session's reservations, releases and everything its competitors do never
\* take a playlist or an account past its limit, at any point of its starts,
\* failovers and stops (_start_best_source_unlocked, stop).
THEOREM SessionWithinLimit == Spec => []ReservationsWithinLimit
  <1>1. Init => CapacityInit
    BY DEF Init
  <1>2. IInv /\ [Next]_vars => [CapacityNext]_capacityVars
    BY LedgerStep
  <1>3. Spec => CapacitySpec
    BY <1>1, <1>2, InvariantHolds, PTL DEF Spec, CapacitySpec
  <1> QED  BY <1>3, LimitNeverExceeded, PTL

-----------------------------------------------------------------------------
(* A session that says it runs is looked after.                             *)

\* The step-by-step fact: only a failover takes the process away and goes on
\* running, and its reader hunts until it has another or stops the session.
LEMMA ServedKept ==
    ASSUME IInv, ~DbMayFail, RunningIsServed, [Next]_vars
    PROVE  RunningIsServed'
  <1> USE DEF RunningIsServed, Hunting, HuntLabels, Owns, Await, Unlock, UnlockAwait,
             Attaches, sessionVars
  <1>0. TaskTypeOK
    BY DEF IInv, TaskInv
  <1>1. ASSUME NEW t \in Starters, Attempting(t)
        PROVE  RunningIsServed'
    <2>1. t \in Tasks
      BY TaskKinds DEF Starters, Callers
    <2>2. CASE ChooseCandidate(t)
      <3>1. pc[t] = "choose" /\ (pc' = pc \/ pc' = [pc EXCEPT ![t] = "spawn"])
        BY <1>0, <2>1, <2>2 DEF ChooseCandidate, TaskTypeOK
      <3>2. \A u \in Tasks : pc[u] # pc'[u] => {pc[u], pc'[u]} \subseteq {"choose", "spawn"}
        BY <1>0, <2>1, <2>2, <3>1 DEF ChooseCandidate, TaskTypeOK
      <3> QED  BY <1>0, <2>2, <3>2, TaskKinds DEF ChooseCandidate
    <2>3. CASE SpawnFails(t)
      BY <2>3 DEF SpawnFails
    <2>4. CASE SpawnSucceeds(t)
      BY <2>4 DEF SpawnSucceeds, IInv, StateInv, SessionTypeOK
    <2> QED  BY <1>1, <2>2, <2>3, <2>4 DEF Attempting
  <1>2. ASSUME NEW t \in Callers, Calling(t)
        PROVE  RunningIsServed'
    <2>1. t \in Tasks /\ \A p \in Pids : t # Reader(p)
      BY TaskKinds DEF Callers
    <2>2. CASE StartAlreadyRunning(t)
      BY <1>0, <2>1, <2>2, TaskKinds DEF StartAlreadyRunning, TaskTypeOK
    <2>3. CASE StartFresh(t) \/ StartFails(t)
      BY <2>3 DEF StartFresh, StartFails
    <2> QED  BY <1>2, <2>2, <2>3 DEF Calling
  <1>3. ASSUME NEW t \in StopTasks, StopStep(t)
        PROVE  RunningIsServed'
    <2>1. CASE StopNothing(t) \/ StopSection(t)
      BY <2>1 DEF StopNothing, StopSection
    <2>2. CASE Drained(t)
      <3>1. \A u \in Tasks : pc[u] \in {"stop", "ending"} \union HuntLabels =>
               u # t /\ u # Health(healthTask)
        <4>1. \A u \in Healths : pc[u] \in HealthLabels
          BY <1>0, TaskKinds DEF TaskTypeOK
        <4> QED  BY <2>2, <4>1, TaskKinds DEF Drained, HealthLabels, Tasks
      <3>2. \A u \in Tasks : pc[u] \in {"stop", "ending"} \union HuntLabels => pc'[u] = pc[u]
        BY <2>2, <3>1 DEF Drained
      <3>3. UNCHANGED <<running, process>>
        BY <2>2 DEF Drained
      <3> QED  BY <3>2, <3>3, TaskKinds
    <2>3. CASE EofSection(t)
      BY <1>0, <2>3, TaskKinds DEF EofSection, TaskTypeOK
    <2> QED  BY <1>3, <2>1, <2>2, <2>3 DEF StopStep
  <1>4. ASSUME NEW c \in Clients, OutputActs(c)
        PROVE  RunningIsServed'
    <2>1. UNCHANGED <<running, process>>
      BY <1>4 DEF OutputActs, ClientStart, ClientStarted, ClientJoins, ClientRefers, RecoveryBegins, ReadEof, ClientLeaves,
                  RemoveSubscriber, RequestCancelled, RecoveryStart, RecoveryStarted, Reattach,
                  RecoveryJoins, CloseOutput, Subscribe
    <2>2. \A u \in Tasks \ {Client(c), Recovery(c)} : pc'[u] = pc[u]
      BY <1>0, <1>4 DEF OutputActs, ClientStart, ClientStarted, ClientJoins, ClientRefers, RecoveryBegins, ReadEof, ClientLeaves,
                  RemoveSubscriber, RequestCancelled, RecoveryStart, RecoveryStarted, Reattach,
                  RecoveryJoins, CloseOutput, Subscribe, TaskTypeOK
    <2>3. pc[Client(c)] = "stop" => pc'[Client(c)] = "stop"
      BY <1>0, <1>4, TaskKinds DEF OutputActs, ClientStart, ClientStarted, ClientJoins, ClientRefers, RecoveryBegins, ReadEof, ClientLeaves,
                  RemoveSubscriber, RequestCancelled, RecoveryStart, RecoveryStarted, Reattach,
                  RecoveryJoins, CloseOutput, Subscribe, TaskTypeOK
    <2>4. pc[Recovery(c)] # "stop"
      BY <1>0, TaskKinds DEF TaskTypeOK, RecoveryLabels
    <2> QED  BY <2>1, <2>2, <2>3, <2>4, TaskKinds DEF Tasks
  <1>5. ASSUME NEW p \in Pids, ReaderActs(p)
        PROVE  RunningIsServed'
    <2>1. Reader(p) \in Tasks /\ \A q \in Pids \ {p} : Reader(q) # Reader(p)
      BY TaskKinds
    <2>2. CASE ReaderEnds(p) \/ CheckSubscribers(p)
      BY <1>0, <2>1, <2>2, TaskKinds DEF ReaderEnds, CheckSubscribers, TaskTypeOK
    <2>3. CASE SwitchAbandoned(p) \/ GiveUp(p)
      BY <2>3 DEF SwitchAbandoned, GiveUp
    <2>4. CASE SwitchSection(p)
      BY <1>0, <2>1, <2>4, ZenonT(30) DEF SwitchSection, TaskTypeOK
    <2>5. CASE SwitchReported(p) \/ Recover(p) \/ Retry(p)
      BY <1>0, <2>1, <2>5 DEF SwitchReported, Recover, Retry, TaskTypeOK
    <2>6. CASE RefreshSection(p) \/ BridgeChosen(p) \/ BridgeSection(p) \/ LoopSection(p) \/ RoundFails(p)
      BY <1>0, <2>1, <2>6 DEF RefreshSection, BridgeChosen, BridgeSection, LoopSection, RoundFails, TaskTypeOK
    <2> QED  BY <1>5, <2>2, <2>3, <2>4, <2>5, <2>6 DEF ReaderActs
  <1>6. ASSUME NEW p \in Pids, HealthActs(p)
        PROVE  RunningIsServed'
    <2>1. UNCHANGED <<running, process>> /\ \A u \in Tasks \ {Health(p)} : pc'[u] = pc[u]
      BY <1>0, <1>6 DEF HealthActs, HealthTrips, HealthEnds, HealthRequest, HealthTerminate, TaskTypeOK
    <2>2. pc[Health(p)] # "stop"
      BY <1>0, TaskKinds DEF TaskTypeOK, HealthLabels
    <2> QED  BY <2>1, <2>2, TaskKinds
  <1>7. ASSUME \/ \E p \in Pids : ProcessEnds(p)
               \/ HoldDownExpires \/ OthersMove \/ UNCHANGED vars
        PROVE  RunningIsServed'
    BY <1>7 DEF ProcessEnds, HoldDownExpires, OthersMove, taskVars, vars
  <1> QED
    BY <1>1, <1>2, <1>3, <1>4, <1>5, <1>6, <1>7, StepKinds

\* Where reading the sources never fails, a session that says it runs without a
\* process has a reader that hunts or a task that will stop it (_read_loop).
THEOREM SessionIsServed ==
    ASSUME ~DbMayFail
    PROVE  Spec => []RunningIsServed
  <1>1. Init => RunningIsServed
    BY DEF Init, RunningIsServed
  <1>2. IInv /\ RunningIsServed /\ [Next]_vars => RunningIsServed'
    BY ServedKept
  <1> QED  BY <1>1, <1>2, InvariantHolds, PTL DEF Spec

-----------------------------------------------------------------------------
(* The first life is clean.  While the session was started once, its tasks   *)
(* pass the work on: from the caller that starts it to the reader of the      *)
(* first process, and from each reader to that of the process it starts.      *)

Trying == {"choose", "spawn"}

\* An attempt holds the lock from its start to its end.
AttemptHasLock ==
    \A t \in Tasks : pc[t] \in Trying => lockq # <<>> /\ Head(lockq) = t

\* What is being spawned has its slot.
TriedIsReserved ==
    \A t \in Tasks : pc[t] = "spawn" =>
        attempt[t].trying \in allocations[KeyOf[attempt[t].trying]][Self]

\* A caller with something to try; a reader between two processes.
Opens(t) == pc[t] = "spawn" \/ (pc[t] = "choose" /\ attempt[t].todo # {})
Looking(p) == pc[Reader(p)] \in HuntLabels \union {"ending"}

\* The reader of a live process waits for its end, if it has one.
Unended == {"read", "off"}

FirstLife ==
    /\ lives = 0 => token = 0
    /\ token = 0 => current = NoSource
    /\ \A p \in Pids : p < token => pc[Reader(p)] = "done"
    /\ \A t \in Callers : Opens(t) => token = 0 /\ lives = 1
    /\ \A p \in Pids : proc[p] \in {"up", "signalled"} => p = token /\ pc[Reader(p)] \in Unended
    /\ \A p \in Pids : proc[p] = "up" => p = process
    /\ \A p \in Pids : Looking(p) => current = NoSource
    /\ CurrentIsReserved

LifeInv == AttemptHasLock /\ TriedIsReserved /\ (lives <= 1 => FirstLife)

\* One turn of task t: nobody else begins an attempt, and t only if it has the
\* lock and keeps it.
Turn(t) ==
    /\ \A u \in Tasks \ {t} : pc'[u] \in Trying => pc'[u] = pc[u] /\ attempt'[u] = attempt[u]
    /\ \/ lockq' = lockq /\ (pc'[t] \in Trying => lockq # <<>> /\ Head(lockq) = t)
       \/ pc'[t] \notin Trying /\ lockq' \in {Append(lockq, t), Without(t)}
       \/ /\ pc'[t] \notin Trying /\ lockq # <<>> /\ Head(lockq) = t
          /\ lockq' \in {Tail(lockq), Append(Tail(lockq), t)}

\* ... and the session's slots grow, or t is the one with the lock.
Pays(t) ==
    \/ /\ \A k \in Keys : allocations[k][Self] \subseteq allocations'[k][Self]
       /\ pc'[t] = "spawn" => pc[t] = "spawn" /\ attempt'[t] = attempt[t]
    \/ lockq # <<>> /\ Head(lockq) = t /\ pc'[t] # "spawn"

\* The steps that neither start a life nor a process.
Calm ==
    /\ UNCHANGED <<lives, token>>
    /\ \A p \in Pids : pc[Reader(p)] = "done" => pc'[Reader(p)] = "done"
    /\ \A p \in Pids : proc'[p] \in {"up", "signalled"} =>
          proc[p] \in {"up", "signalled"}
          /\ (pc[Reader(p)] \in Unended => pc'[Reader(p)] = pc[Reader(p)])
    /\ \A p \in Pids : proc'[p] = "up" => proc[p] = "up" /\ process' = process
    /\ \A t \in Callers : Opens(t)' => Opens(t)
    /\ current' \in {current, NoSource}
    /\ current' # NoSource =>
          /\ \A p \in Pids : Looking(p)' => Looking(p)
          /\ \A k \in Keys : allocations[k][Self] \subseteq allocations'[k][Self]

\* Cancelling another waiter does not move the head of the queue.
LEMMA HeadStays ==
    ASSUME lockq \in Seq(Tasks), lockq # <<>>, NEW t, t # Head(lockq)
    PROVE  Without(t) # <<>> /\ Head(Without(t)) = Head(lockq)
  <1>1. CASE \E i \in DOMAIN lockq : lockq[i] = t
    <2>1. Place(t) \in DOMAIN lockq /\ lockq[Place(t)] = t
      BY <1>1 DEF Place
    <2>2. DOMAIN lockq = 1..Len(lockq) /\ Len(lockq) \in Nat /\ Head(lockq) = lockq[1]
      OBVIOUS
    <2>3. Place(t) \in 2..Len(lockq)
      BY <2>1, <2>2
    <2> DEFINE n == Len(lockq) - 1
               q == [j \in 1..n |-> lockq[IF j < Place(t) THEN j ELSE j + 1]]
    <2>4. n \in Nat /\ n >= 1 /\ 1 \in 1..n
      BY <2>2, <2>3
    <2>5. q \in Seq(Tasks)
      BY <1>1, WithoutType DEF Without
    <2>6. q[1] = lockq[1]
      BY <2>3, <2>4
    <2>7. Without(t) = q
      BY <1>1 DEF Without
    <2>8. DOMAIN q = 1..n
      OBVIOUS
    <2> HIDE DEF q
    <2>9. Len(q) = n
      BY <2>4, <2>5, <2>8
    <2> QED  BY <2>2, <2>4, <2>5, <2>6, <2>7, <2>9
  <1>2. CASE ~ \E i \in DOMAIN lockq : lockq[i] = t
    BY <1>2 DEF Without
  <1> QED  BY <1>1, <1>2

\* Appending does not move it either.
LEMMA HeadOfAppend ==
    ASSUME NEW q \in Seq(Tasks), q # <<>>, NEW t \in Tasks
    PROVE  Append(q, t) # <<>> /\ Head(Append(q, t)) = Head(q)
  OBVIOUS

LEMMA TurnKeeps ==
    ASSUME IInv, AttemptHasLock, NEW t \in Tasks, Turn(t)
    PROVE  AttemptHasLock'
  <1>1. lockq \in Seq(Tasks)
    BY DEF IInv, TaskInv, TaskTypeOK
  <1>2. SUFFICES ASSUME NEW u \in Tasks, pc'[u] \in Trying
                 PROVE  lockq' # <<>> /\ Head(lockq') = u
    BY DEF AttemptHasLock
  <1>3. CASE u = t
    BY <1>2, <1>3 DEF Turn
  <1>4. CASE u # t
    <2>1. lockq # <<>> /\ Head(lockq) = u
      BY <1>2, <1>4 DEF Turn, AttemptHasLock
    <2>2. lockq' \in {lockq, Append(lockq, t), Without(t)}
      BY <1>4, <2>1 DEF Turn
    <2> QED  BY <1>1, <1>4, <2>1, <2>2, HeadStays, HeadOfAppend
  <1> QED  BY <1>3, <1>4

LEMMA PaidKeeps ==
    ASSUME IInv, AttemptHasLock, TriedIsReserved, NEW t \in Tasks, Turn(t), Pays(t)
    PROVE  TriedIsReserved'
  <1>1. SUFFICES ASSUME NEW u \in Tasks, pc'[u] = "spawn"
                 PROVE  attempt'[u].trying \in allocations'[KeyOf[attempt'[u].trying]][Self]
    BY DEF TriedIsReserved
  <1>2. CASE u = t
    <2>1. pc[u] = "spawn" /\ attempt'[u] = attempt[u]
      BY <1>1, <1>2 DEF Pays
    <2>2. KeyOf[attempt[u].trying] \in Keys
      BY <2>1, IngestAssumption DEF IInv, TaskInv, AttemptsMatch
    <2> QED  BY <1>1, <1>2, <2>1, <2>2 DEF Pays, TriedIsReserved
  <1>3. CASE u # t
    <2>1. pc[u] = "spawn" /\ attempt'[u] = attempt[u]
      BY <1>1, <1>3 DEF Turn, Trying
    <2>2. lockq # <<>> /\ Head(lockq) # t
      BY <1>3, <2>1 DEF AttemptHasLock, Trying
    <2>3. KeyOf[attempt[u].trying] \in Keys
      BY <2>1, IngestAssumption DEF IInv, TaskInv, AttemptsMatch
    <2> QED  BY <2>1, <2>2, <2>3 DEF Pays, TriedIsReserved
  <1> QED  BY <1>2, <1>3

LEMMA CalmKeeps ==
    ASSUME IInv, FirstLife, Calm
    PROVE  FirstLife'
  <1>1. \A p \in Pids : Looking(p) => current = NoSource
    BY DEF FirstLife
  <1>2. CurrentIsReserved'
    <2>1. current # NoSource => KeyOf[current] \in Keys
      BY IngestAssumption DEF IInv, StateInv, SessionTypeOK
    <2> QED  BY <2>1 DEF FirstLife, Calm, CurrentIsReserved
  <1>3. \A p \in Pids : Looking(p)' => current' = NoSource
    BY <1>1 DEF Calm
  <1>4. \A t \in Callers : Opens(t)' => token' = 0 /\ lives' = 1
    BY DEF FirstLife, Calm
  <1>5. /\ lives' = 0 => token' = 0
        /\ token' = 0 => current' = NoSource
        /\ \A p \in Pids : p < token' => pc'[Reader(p)] = "done"
        /\ \A p \in Pids : proc'[p] \in {"up", "signalled"} => p = token' /\ pc'[Reader(p)] \in Unended
        /\ \A p \in Pids : proc'[p] = "up" => p = process'
    BY DEF FirstLife, Calm
  <1> QED  BY <1>2, <1>3, <1>4, <1>5 DEF FirstLife

\* A turn of t that neither starts a life nor a process.
Mild(t) == Turn(t) /\ Pays(t) /\ lives' = lives /\ (FirstLife => Calm)

\* Of a step that leaves the session and the ledger alone only the tasks matter.
LEMMA StillIsMild ==
    ASSUME IInv, NEW t \in Tasks, Turn(t),
           pc'[t] \in Trying => pc'[t] = pc[t] /\ attempt'[t] = attempt[t],
           UNCHANGED <<capacityVars, token, current, lives>>,
           \A p \in Pids : proc'[p] = "up" => proc[p] = "up" /\ process' = process,
           \A p \in Pids : proc'[p] \in {"up", "signalled"} => proc[p] \in {"up", "signalled"},
           \A p \in Pids : /\ pc[Reader(p)] = "done" => pc'[Reader(p)] = "done"
                           /\ proc'[p] \in {"up", "signalled"} /\ pc[Reader(p)] \in Unended
                                 => pc'[Reader(p)] = pc[Reader(p)]
                           /\ Looking(p)' => Looking(p)
    PROVE  Mild(t)
  <1>1. allocations' = allocations
    BY DEF capacityVars
  <1>2. Pays(t)
    BY <1>1 DEF Pays, Trying
  <1>3. \A u \in Callers : Opens(u)' => Opens(u)
    <2>1. \A u \in Callers : u \in Tasks
      BY TaskKinds DEF Callers
    <2>2. \A u \in Tasks : pc'[u] \in Trying => pc'[u] = pc[u] /\ attempt'[u] = attempt[u]
      BY DEF Turn
    <2> QED  BY <2>1, <2>2 DEF Opens, Trying
  <1>4. Calm
    BY <1>1, <1>3 DEF Calm
  <1> QED  BY <1>2, <1>4 DEF Mild

\* What the outputs do.
LEMMA OutputIsMild ==
    ASSUME IInv, NEW c \in Clients, OutputActs(c)
    PROVE  \E t \in Tasks : Mild(t)
  <1> USE DEF Await, Unlock, UnlockAwait, Owns, sessionVars, worldVars
  <1>1. /\ Client(c) \in Tasks /\ Recovery(c) \in Tasks /\ Client(c) # Recovery(c)
        /\ \A p \in Pids : Reader(p) # Client(c) /\ Reader(p) # Recovery(c)
    BY TaskKinds
  <1>2. TaskTypeOK
    BY DEF IInv, TaskInv
  <1>3. ASSUME NEW t \in {Client(c), Recovery(c)}, Turn(t), pc'[t] \notin Trying,
               UNCHANGED <<capacityVars, sessionVars, worldVars>>,
               \A u \in Tasks \ {Client(c), Recovery(c)} : pc'[u] = pc[u]
        PROVE  Mild(t)
    <2>1. \A p \in Pids : pc'[Reader(p)] = pc[Reader(p)]
      BY <1>1, <1>3, TaskKinds
    <2> QED  BY <1>1, <1>3, <2>1, StillIsMild DEF Looking
  <1>4. CASE ClientStart(c) \/ ClientStarted(c) \/ ClientRefers(c) \/ ReadEof(c) \/ ClientLeaves(c)
             \/ RemoveSubscriber(c) \/ RequestCancelled(c)
    <2>1. UNCHANGED <<capacityVars, sessionVars, worldVars>>
      BY <1>4 DEF ClientStart, ClientStarted, ClientRefers, ReadEof, ClientLeaves, RemoveSubscriber,
                  RequestCancelled, Subscribe
    <2>2. /\ pc'[Client(c)] \notin Trying
          /\ \A u \in Tasks \ {Client(c)} : pc'[u] = pc[u] /\ attempt'[u] = attempt[u]
      BY <1>1, <1>2, <1>4
      DEF ClientStart, ClientStarted, ClientRefers, ReadEof, ClientLeaves, RemoveSubscriber,
          RequestCancelled, Subscribe, TaskTypeOK, Trying
    <2>3. \/ lockq' \in {lockq, Append(lockq, Client(c)), Without(Client(c))}
          \/ /\ lockq # <<>> /\ Head(lockq) = Client(c)
             /\ lockq' \in {Tail(lockq), Append(Tail(lockq), Client(c))}
      BY <1>4
      DEF ClientStart, ClientStarted, ClientRefers, ReadEof, ClientLeaves, RemoveSubscriber,
          RequestCancelled, Subscribe
    <2>4. Turn(Client(c))
      BY <2>2, <2>3 DEF Turn
    <2> QED  BY <1>1, <1>3, <2>1, <2>2, <2>4
  <1>5. CASE RecoveryBegins(c) \/ RecoveryStart(c) \/ RecoveryStarted(c) \/ Reattach(c)
    <2>1. UNCHANGED <<capacityVars, sessionVars, worldVars>>
      BY <1>5 DEF RecoveryBegins, RecoveryStart, RecoveryStarted, Reattach
    <2>2. /\ pc'[Recovery(c)] \notin Trying
          /\ \A u \in Tasks \ {Recovery(c)} : pc'[u] = pc[u] /\ attempt'[u] = attempt[u]
      BY <1>1, <1>2, <1>5 DEF RecoveryBegins, RecoveryStart, RecoveryStarted, Reattach, TaskTypeOK, Trying
    <2>3. lockq' \in {lockq, Append(lockq, Recovery(c))}
      BY <1>5 DEF RecoveryBegins, RecoveryStart, RecoveryStarted, Reattach
    <2>4. Turn(Recovery(c))
      BY <2>2, <2>3 DEF Turn
    <2> QED  BY <1>1, <1>3, <2>1, <2>2, <2>4
  <1>7. CASE ClientJoins(c)
    <2>1. UNCHANGED <<capacityVars, sessionVars, worldVars, attempt>>
      BY <1>7 DEF ClientJoins, Subscribe
    <2>2. /\ pc'[Client(c)] \in {"in", "out"} /\ pc'[Recovery(c)] \in {pc[Recovery(c)], "new"}
          /\ \A u \in Tasks \ {Client(c), Recovery(c)} : pc'[u] = pc[u]
      BY <1>1, <1>2, <1>7 DEF ClientJoins, TaskTypeOK
    <2>3. lockq # <<>> /\ Head(lockq) = Client(c) /\ lockq' = Tail(lockq)
      BY <1>7 DEF ClientJoins, Subscribe
    <2>4. Turn(Client(c))
      BY <1>1, <2>1, <2>2, <2>3 DEF Turn, Trying
    <2> QED  BY <1>1, <1>3, <2>1, <2>2, <2>4 DEF Trying
  <1>6. CASE RecoveryJoins(c) \/ CloseOutput(c)
    <2>1. UNCHANGED <<capacityVars, sessionVars, worldVars>>
      BY <1>6 DEF RecoveryJoins, CloseOutput, Subscribe
    <2>2. /\ pc'[Recovery(c)] \in {"idle", "over"}
          /\ pc'[Client(c)] \in {pc[Client(c)], "in", "out"} /\ attempt'[Client(c)] = attempt[Client(c)]
          /\ \A u \in Tasks \ {Client(c), Recovery(c)} : pc'[u] = pc[u] /\ attempt'[u] = attempt[u]
      BY <1>1, <1>2, <1>6 DEF RecoveryJoins, CloseOutput, Subscribe, TaskTypeOK
    <2>3. \/ lockq' = Without(Recovery(c))
          \/ lockq # <<>> /\ Head(lockq) = Recovery(c) /\ lockq' = Tail(lockq)
      BY <1>6 DEF RecoveryJoins, CloseOutput, Subscribe
    <2>4. Turn(Recovery(c))
      BY <1>1, <2>2, <2>3 DEF Turn, Trying
    <2> QED  BY <1>1, <1>3, <2>1, <2>2, <2>4 DEF Trying
  <1> QED  BY <1>4, <1>5, <1>6, <1>7 DEF OutputActs

\* The calls of start() that find the session running, or nothing to try.
LEMMA CallIsMild ==
    ASSUME IInv, NEW t \in Callers, StartAlreadyRunning(t) \/ StartFails(t)
    PROVE  Mild(t)
  <1> USE DEF Unlock, UnlockAwait, Attaches, Owns, sessionVars, worldVars
  <1>1. t \in Tasks /\ \A p \in Pids : Reader(p) # t
    BY TaskKinds DEF Callers
  <1>2. /\ pc'[t] \notin Trying /\ lockq # <<>> /\ Head(lockq) = t
        /\ lockq' \in {Tail(lockq), Append(Tail(lockq), t)}
        /\ \A u \in Tasks \ {t} : pc'[u] = pc[u] /\ attempt'[u] = attempt[u]
    BY <1>1 DEF StartAlreadyRunning, StartFails, IInv, TaskInv, TaskTypeOK, Trying
  <1>3. UNCHANGED <<capacityVars, token, current, process, lives, proc>>
    BY DEF StartAlreadyRunning, StartFails
  <1>4. \A p \in Pids : pc'[Reader(p)] = pc[Reader(p)]
    BY <1>1, <1>2, TaskKinds
  <1>5. Turn(t)
    BY <1>2 DEF Turn
  <1> QED  BY <1>1, <1>2, <1>3, <1>4, <1>5, StillIsMild DEF Looking

\* The health loops.
LEMMA HealthIsMild ==
    ASSUME IInv, NEW p \in Pids, HealthActs(p)
    PROVE  Mild(Health(p))
  <1> USE DEF Await, Unlock, Owns, sessionVars, worldVars
  <1>1. Health(p) \in Tasks /\ \A q \in Pids : Reader(q) # Health(p)
    BY TaskKinds
  <1>2. /\ pc'[Health(p)] \notin Trying
        /\ \A u \in Tasks \ {Health(p)} : pc'[u] = pc[u] /\ attempt'[u] = attempt[u]
        /\ \/ lockq' \in {lockq, Append(lockq, Health(p))}
           \/ lockq # <<>> /\ Head(lockq) = Health(p) /\ lockq' = Tail(lockq)
    BY <1>1
    DEF HealthActs, HealthTrips, HealthEnds, HealthRequest, HealthTerminate, IInv, TaskInv, TaskTypeOK,
        Trying
  <1>3. /\ UNCHANGED <<capacityVars, token, current, process, lives>>
        /\ \A q \in Pids : proc'[q] = proc[q] \/ (proc[q] = "up" /\ proc'[q] = "signalled")
    <2>1. CASE HealthTerminate(p)
      BY <2>1 DEF HealthTerminate
    <2>2. CASE HealthTrips(p) \/ HealthEnds(p) \/ HealthRequest(p)
      BY <2>2 DEF HealthTrips, HealthEnds, HealthRequest
    <2> QED  BY <2>1, <2>2 DEF HealthActs
  <1>4. \A q \in Pids : pc'[Reader(q)] = pc[Reader(q)]
    BY <1>1, <1>2, TaskKinds
  <1>5. Turn(Health(p))
    BY <1>2 DEF Turn
  <1> QED  BY <1>1, <1>2, <1>3, <1>4, <1>5, StillIsMild DEF Looking

\* What holds of the readers in the first life: only the last one works.
LEMMA LastReaderWorks ==
    ASSUME IInv, FirstLife, NEW p \in Pids, pc[Reader(p)] \notin {"off", "done"}
    PROVE  p = token /\ \A q \in Pids : proc[q] \in {"up", "signalled"} => q = p /\ pc[Reader(p)] = "read"
  <1>1. p \in Nat /\ token \in Nat
    BY DEF Pids, IInv, StateInv, SessionTypeOK
  <1>2. ~(p < token) /\ ~(p > token)
    BY DEF FirstLife, IInv, TaskInv, LatestProcess
  <1> QED  BY <1>1, <1>2 DEF FirstLife, Unended

\* A reader's step under its own name, with the lock or without.
ReaderTurn(p) ==
    /\ \A u \in Tasks \ {Reader(p)} : pc'[u] = pc[u] /\ attempt'[u] = attempt[u]
    /\ \/ lockq' = lockq /\ pc'[Reader(p)] \notin Trying
       \/ lockq' = Append(lockq, Reader(p)) /\ pc'[Reader(p)] \notin Trying
       \/ lockq # <<>> /\ Head(lockq) = Reader(p) /\ lockq' = lockq
       \/ /\ lockq # <<>> /\ Head(lockq) = Reader(p) /\ pc'[Reader(p)] \notin Trying
          /\ lockq' \in {Tail(lockq), Append(Tail(lockq), Reader(p))}

\* What the readers do between two processes.
LEMMA ReaderIsMild ==
    ASSUME IInv, NEW p \in Pids, ReaderActs(p)
    PROVE  Mild(Reader(p))
  <1> USE DEF Await, Unlock, UnlockAwait, Owns, sessionVars, worldVars
  <1>1. Reader(p) \in Tasks /\ Reader(p) \notin Callers /\ \A q \in Pids \ {p} : Reader(q) # Reader(p)
    BY TaskKinds DEF Callers
  <1>2. TaskTypeOK
    BY DEF IInv, TaskInv
  <1>3. ASSUME ReaderTurn(p)
        PROVE  /\ Turn(Reader(p))
               /\ \A q \in Pids \ {p} : pc'[Reader(q)] = pc[Reader(q)]
               /\ \A u \in Callers : Opens(u)' => Opens(u)
    <2>1. \A u \in Callers : u \in Tasks /\ u # Reader(p)
      BY TaskKinds DEF Callers
    <2>2. \A q \in Pids : Reader(q) \in Tasks
      BY TaskKinds
    <2> QED  BY <1>1, <1>3, <2>1, <2>2 DEF ReaderTurn, Turn, Opens
  <1>4. CASE ReaderEnds(p) \/ CheckSubscribers(p) \/ SwitchReported(p) \/ Recover(p) \/ RefreshSection(p)
             \/ BridgeChosen(p) \/ BridgeSection(p) \/ LoopSection(p) \/ RoundFails(p) \/ Retry(p) \/ GiveUp(p)
    <2> DEFINE before == pc[Reader(p)]
               after == pc'[Reader(p)]
    <2>1. UNCHANGED <<capacityVars, token, current, process, lives, proc>>
      BY <1>4
      DEF ReaderEnds, CheckSubscribers, SwitchReported, Recover, RefreshSection, BridgeChosen, BridgeSection,
          LoopSection, RoundFails, Retry, GiveUp
    <2>2. ReaderTurn(p)
      BY <1>1, <1>2, <1>4
      DEF ReaderTurn, ReaderEnds, CheckSubscribers, SwitchReported, Recover, RefreshSection, BridgeChosen, BridgeSection,
          LoopSection, RoundFails, Retry, GiveUp, TaskTypeOK, Trying
    <2>3. /\ before \notin {"done", "off"} /\ after # "spawn"
          /\ before = "read" => proc[p] = "dead"
          /\ after \in HuntLabels \union {"ending"} => before \in HuntLabels \union {"ending"}
      BY <1>1, <1>2, <1>4
      DEF ReaderEnds, CheckSubscribers, SwitchReported, Recover, RefreshSection, BridgeChosen, BridgeSection,
          LoopSection, RoundFails, Retry, GiveUp, TaskTypeOK, HuntLabels
    <2>4. \A q \in Pids : Looking(q)' => Looking(q)
      BY <1>3, <2>2, <2>3 DEF Looking
    <2>5. Pays(Reader(p))
      BY <2>1, <2>3 DEF Pays, capacityVars
    <2>6. \A q \in Pids : /\ pc[Reader(q)] = "done" => pc'[Reader(q)] = "done"
                          /\ proc[q] \in {"up", "signalled"} /\ pc[Reader(q)] \in Unended
                                => pc'[Reader(q)] = pc[Reader(q)]
      BY <1>3, <2>2, <2>3 DEF Unended
    <2>7. Calm
      BY <1>3, <2>1, <2>2, <2>4, <2>6 DEF Calm, capacityVars
    <2> QED  BY <1>3, <2>1, <2>2, <2>5, <2>7 DEF Mild
  <1>5. CASE SwitchAbandoned(p) \/ SwitchSection(p)
    <2>1. /\ UNCHANGED <<token, lives, proc>> /\ current' = NoSource
          /\ pc[Reader(p)] = "switch" /\ pc'[Reader(p)] \in {"stop", "ending", "exhausted", "recover"}
      BY <1>1, <1>2, <1>5 DEF SwitchAbandoned, SwitchSection, AfterSwitch, TaskTypeOK
    <2>2. ReaderTurn(p) /\ lockq # <<>> /\ Head(lockq) = Reader(p)
      BY <1>1, <1>2, <1>5, <2>1 DEF ReaderTurn, SwitchAbandoned, SwitchSection, TaskTypeOK, Trying
    <2>3. Pays(Reader(p))
      BY <2>1, <2>2 DEF Pays
    <2>4. ASSUME FirstLife
          PROVE  Calm
      <3>1. \A q \in Pids : proc[q] \notin {"up", "signalled"}
        BY <2>1, <2>4, LastReaderWorks
      <3>2. \A q \in Pids : pc[Reader(q)] = "done" => pc'[Reader(q)] = "done"
        BY <1>3, <2>1, <2>2
      <3> QED  BY <1>3, <2>1, <2>2, <3>1, <3>2 DEF Calm
    <2> QED  BY <1>3, <2>1, <2>2, <2>3, <2>4 DEF Mild
  <1> QED  BY <1>4, <1>5 DEF ReaderActs

\* The steps of stop(), except the cancelling of the health task.
LEMMA StopIsMild ==
    ASSUME IInv, NEW t \in StopTasks, StopNothing(t) \/ StopSection(t) \/ EofSection(t)
    PROVE  Mild(t)
  <1> USE DEF Unlock, Owns, sessionVars, worldVars
  <1>1. t \in Tasks
    BY TaskKinds DEF StopTasks
  <1>2. /\ pc[t] \in {"stop", "eof"} /\ pc'[t] \in {"done", "closing", "drain"}
        /\ (t \in Readers /\ pc'[t] # "drain" => pc'[t] = "done")
        /\ lockq # <<>> /\ Head(lockq) = t /\ lockq' = Tail(lockq)
        /\ \A u \in Tasks \ {t} : pc'[u] = pc[u] /\ attempt'[u] = attempt[u]
    BY <1>1 DEF StopNothing, StopSection, EofSection, AfterStop, IInv, TaskInv, TaskTypeOK
  <1>3. /\ UNCHANGED <<token, lives>> /\ current' \in {current, NoSource}
        /\ current' # NoSource => UNCHANGED capacityVars
    BY DEF StopNothing, StopSection, EofSection
  <1>4. /\ \A q \in Pids : proc'[q] \in {"up", "signalled"} => proc[q] \in {"up", "signalled"}
        /\ FirstLife => \A q \in Pids : proc'[q] = "up" => proc[q] = "up" /\ process' = process
    <2>1. CASE StopNothing(t) \/ EofSection(t)
      BY <2>1 DEF StopNothing, EofSection
    <2>2. CASE StopSection(t)
      BY <2>2 DEF StopSection, FirstLife, IInv, StateInv, WorldTypeOK
    <2> QED  BY <2>1, <2>2
  <1>5. Turn(t) /\ Pays(t)
    BY <1>2 DEF Turn, Pays, Trying
  <1>6. \A q \in Pids : /\ pc[Reader(q)] \in {"done"} \union Unended => pc'[Reader(q)] = pc[Reader(q)]
                        /\ Looking(q)' => Looking(q)
    BY <1>2, TaskKinds DEF Looking, HuntLabels, Unended
  <1>7. \A u \in Callers : Opens(u)' => Opens(u)
    BY <1>1, <1>2, TaskKinds DEF Opens, Callers
  <1>8. FirstLife => Calm
    BY <1>3, <1>4, <1>6, <1>7 DEF Calm, capacityVars
  <1> QED  BY <1>3, <1>5, <1>8 DEF Mild

\* The health task is cancelled, and stop() queues for its last stretch.
LEMMA DrainKeeps ==
    ASSUME IInv, LifeInv, NEW t \in StopTasks, Drained(t)
    PROVE  LifeInv'
  <1> USE DEF sessionVars, worldVars
  <1>1. t \in Tasks /\ t # Health(healthTask)
    BY TaskKinds DEF StopTasks
  <1>2. /\ pc[t] = "drain"
        /\ \A u \in Tasks : pc'[u] = IF u = t THEN "eof"
                                     ELSE IF u = Health(healthTask) THEN "done" ELSE pc[u]
    BY <1>1 DEF Drained
  <1>3. UNCHANGED <<capacityVars, attempt, process, current, token, lives, proc>>
    BY DEF Drained
  <1>4. \A u \in Tasks : pc'[u] \in Trying => pc'[u] = pc[u]
    BY <1>2 DEF Trying
  <1>5. AttemptHasLock'
    <2> SUFFICES ASSUME NEW u \in Tasks, pc'[u] \in Trying
                 PROVE  lockq' # <<>> /\ Head(lockq') = u
      BY DEF AttemptHasLock
    <2>1. lockq \in Seq(Tasks) /\ Without(Health(healthTask)) \in Seq(Tasks)
      BY WithoutType DEF IInv, TaskInv, TaskTypeOK
    <2>2. lockq # <<>> /\ Head(lockq) = u
      BY <1>4 DEF LifeInv, AttemptHasLock
    <2>3. u # Health(healthTask)
      BY <1>2 DEF Trying
    <2>4. Without(Health(healthTask)) # <<>> /\ Head(Without(Health(healthTask))) = u
      BY <2>1, <2>2, <2>3, HeadStays
    <2>5. lockq' = Append(Without(Health(healthTask)), t)
      BY DEF Drained
    <2> QED  BY <1>1, <2>1, <2>4, <2>5, HeadOfAppend
  <1>6. TriedIsReserved'
    BY <1>3, <1>4 DEF LifeInv, TriedIsReserved, Trying, capacityVars
  <1>7. Calm
    <2>1. \A q \in Pids : Reader(q) \in Tasks /\ Reader(q) # Health(healthTask)
      BY TaskKinds
    <2>2. \A q \in Pids : /\ pc[Reader(q)] \in {"done"} \union Unended => pc'[Reader(q)] = pc[Reader(q)]
                          /\ Looking(q)' => Looking(q)
      BY <1>2, <2>1 DEF Looking, HuntLabels, Unended
    <2>3. \A u \in Callers : Opens(u)' => Opens(u)
      BY <1>3, <1>4, TaskKinds DEF Opens, Callers, Trying
    <2> QED  BY <1>3, <2>2, <2>3 DEF Calm, capacityVars
  <1> QED  BY <1>3, <1>5, <1>6, <1>7, CalmKeeps DEF LifeInv

\* A candidate gets its slot, or is passed over.
LEMMA ChoiceKeeps ==
    ASSUME IInv, LifeInv, NEW t \in Starters, ChooseCandidate(t)
    PROVE  LifeInv'
  <1> USE DEF Owns, sessionVars, worldVars
  <1>1. t \in Tasks
    BY TaskKinds DEF Starters, Callers
  <1>2. /\ pc[t] = "choose" /\ pc'[t] \in Trying /\ lockq # <<>> /\ Head(lockq) = t
        /\ attempt[t].todo # {}
        /\ UNCHANGED <<lockq, process, current, token, lives, proc>>
        /\ \A u \in Tasks \ {t} : pc'[u] = pc[u] /\ attempt'[u] = attempt[u]
    BY <1>1 DEF ChooseCandidate, IInv, TaskInv, TaskTypeOK, Trying
  <1>3. Turn(t)
    BY <1>2 DEF Turn
  <1>4. pc'[t] = "spawn" => attempt'[t].trying \in allocations'[KeyOf[attempt'[t].trying]][Self]
    <2>1. PICK s \in attempt[t].todo :
             \/ /\ TryReserve(KeyOf[s], Self, s) /\ pc' = [pc EXCEPT ![t] = "spawn"]
                /\ attempt' = [attempt EXCEPT ![t].todo = @ \ {s}, ![t].trying = s]
             \/ pc' = pc
      BY DEF ChooseCandidate
    <2>2. s \in Sources /\ KeyOf[s] \in Keys /\ Self \in Owners
      BY <1>1, <2>1, IngestAssumption DEF IInv, TaskInv, TaskTypeOK, Attempts
    <2>3. CASE pc' = pc
      BY <1>2, <2>3
    <2>4. CASE TryReserve(KeyOf[s], Self, s) /\ attempt' = [attempt EXCEPT ![t].todo = @ \ {s}, ![t].trying = s]
      <3>1. allocations' = Reserved(KeyOf[s], Self, s)
        BY <2>4 DEF TryReserve
      <3>2. allocations'[KeyOf[s]][Self] = allocations[KeyOf[s]][Self] \union {s}
            /\ \A k \in Keys : allocations[k][Self] \subseteq allocations'[k][Self]
        BY <2>2, <3>1 DEF Reserved, IInv, CapacityTypeOK
      <3>3. attempt'[t].trying = s
        BY <1>1, <2>4 DEF IInv, TaskInv, TaskTypeOK, Attempts
      <3> QED  BY <3>2, <3>3
    <2> QED  BY <2>1, <2>3, <2>4
  <1>5. TriedIsReserved'
    <2> SUFFICES ASSUME NEW u \in Tasks, pc'[u] = "spawn"
                 PROVE  attempt'[u].trying \in allocations'[KeyOf[attempt'[u].trying]][Self]
      BY DEF TriedIsReserved
    <2>1. CASE u # t
      BY <1>2, <2>1 DEF LifeInv, AttemptHasLock, Trying
    <2> QED  BY <1>4, <2>1
  <1>6. ASSUME FirstLife
        PROVE  Calm
    <2>1. \A q \in Pids : pc[Reader(q)] \in {"done"} \union Unended => pc'[Reader(q)] = pc[Reader(q)]
      BY <1>2, TaskKinds DEF Unended
    <2>2. \A u \in Callers : Opens(u)' => Opens(u)
      BY <1>1, <1>2, TaskKinds DEF Opens, Callers
    <2>3. current = NoSource
      <3>1. CASE t \in Callers
        BY <1>2, <1>6, <3>1 DEF FirstLife, Opens
      <3>2. CASE \E p \in Pids : t = Reader(p)
        BY <1>2, <1>6, <3>2 DEF FirstLife, Looking, HuntLabels
      <3> QED  BY <3>1, <3>2 DEF Starters, Readers
    <2> QED  BY <1>2, <2>1, <2>2, <2>3 DEF Calm
  <1> QED  BY <1>1, <1>2, <1>3, <1>5, <1>6, TurnKeeps, CalmKeeps DEF LifeInv

\* No URL answered.
LEMMA SpawnFailureIsMild ==
    ASSUME IInv, NEW t \in Starters, SpawnFails(t)
    PROVE  Mild(t)
  <1> USE DEF Owns, sessionVars, worldVars
  <1>1. t \in Tasks
    BY TaskKinds DEF Starters, Callers
  <1>2. /\ pc[t] = "spawn" /\ pc'[t] = "choose" /\ lockq # <<>> /\ Head(lockq) = t
        /\ UNCHANGED <<lockq, token, lives, proc>> /\ current' = NoSource
        /\ \A u \in Tasks \ {t} : pc'[u] = pc[u] /\ attempt'[u] = attempt[u]
    BY <1>1 DEF SpawnFails, IInv, TaskInv, TaskTypeOK
  <1>3. Turn(t) /\ Pays(t)
    BY <1>2 DEF Turn, Pays, Trying
  <1>4. ASSUME FirstLife
        PROVE  Calm
    <2>1. \A q \in Pids : proc[q] \notin {"up", "signalled"}
      <3>1. CASE t \in Callers
        BY <1>2, <1>4, <3>1 DEF FirstLife, Opens, Pids
      <3>2. CASE \E p \in Pids : t = Reader(p)
        BY <1>2, <1>4, <3>2, LastReaderWorks
      <3> QED  BY <3>1, <3>2 DEF Starters, Readers
    <2>2. \A q \in Pids : pc[Reader(q)] \in {"done"} \union Unended => pc'[Reader(q)] = pc[Reader(q)]
      BY <1>2, TaskKinds DEF Unended
    <2>3. \A u \in Callers : Opens(u)' => Opens(u)
      BY <1>2, TaskKinds DEF Opens, Callers
    <2> QED  BY <1>2, <2>1, <2>2, <2>3 DEF Calm
  <1> QED  BY <1>2, <1>3, <1>4 DEF Mild

\* A life begins: with no process yet, or with nothing to try.
LEMMA BeginningKeeps ==
    ASSUME IInv, LifeInv, NEW t \in Callers, StartFresh(t)
    PROVE  LifeInv'
  <1> USE DEF Owns, sessionVars, worldVars
  <1>1. t \in Tasks /\ \A p \in Pids : Reader(p) # t
    BY TaskKinds DEF Callers
  <1>2. /\ pc[t] \notin Trying /\ pc'[t] = "choose" /\ lockq # <<>> /\ Head(lockq) = t
        /\ UNCHANGED <<capacityVars, lockq, process, current, token, proc>>
        /\ \A u \in Tasks \ {t} : pc'[u] = pc[u] /\ attempt'[u] = attempt[u]
    BY <1>1 DEF StartFresh, Calls, IInv, TaskInv, TaskTypeOK, Trying
  <1>3. /\ lives' = IF lives < MaxLives THEN lives + 1 ELSE lives
        /\ lives >= MaxLives => attempt'[t].todo = {}
    <2>1. lives \in Nat /\ MaxLives \in Nat
      BY IngestAssumption DEF IInv, StateInv, WorldTypeOK
    <2>2. PICK call \in Calls :
             attempt' = [attempt EXCEPT ![t] = [mode |-> call, trying |-> NoSource,
                           todo |-> IF lives < MaxLives THEN eligible \ heldDown ELSE {}]]
      BY DEF StartFresh
    <2>3. attempt'[t].todo = IF lives < MaxLives THEN eligible \ heldDown ELSE {}
      BY <1>1, <2>2 DEF IInv, TaskInv, TaskTypeOK
    <2> QED  BY <2>1, <2>3 DEF StartFresh
  <1>4. AttemptHasLock' /\ TriedIsReserved'
    <2>1. Turn(t) /\ Pays(t)
      BY <1>2 DEF Turn, Pays, Trying
    <2> QED  BY <1>1, <2>1, TurnKeeps, PaidKeeps DEF LifeInv
  <1>5. ASSUME lives' <= 1
        PROVE  FirstLife'
    <2>1. lives \in Nat /\ lives <= 1 /\ FirstLife
      BY <1>3, <1>5 DEF LifeInv, IInv, StateInv, WorldTypeOK
    <2>2. lives < MaxLives => lives = 0 /\ lives' = 1 /\ token = 0
      BY <1>3, <1>5, <2>1 DEF FirstLife
    <2>3. \A p \in Pids : pc'[Reader(p)] = pc[Reader(p)]
      BY <1>1, <1>2, TaskKinds
    <2>4. \A u \in Callers : Opens(u)' => token' = 0 /\ lives' = 1
      <3> SUFFICES ASSUME NEW u \in Callers, Opens(u)'
                   PROVE  token' = 0 /\ lives' = 1
        OBVIOUS
      <3>1. CASE u = t
        <4>1. lives < MaxLives
          BY <1>2, <1>3, <2>1, <3>1, IngestAssumption DEF Opens
        <4> QED  BY <1>2, <2>2, <4>1
      <3>2. CASE u # t
        <4>1. u \in Tasks
          BY TaskKinds DEF Callers
        <4>2. pc[u] \in Trying
          BY <1>2, <3>2, <4>1 DEF Opens, Trying
        <4> QED  BY <1>2, <3>2, <4>1, <4>2 DEF LifeInv, AttemptHasLock
      <3> QED  BY <3>1, <3>2
    <2>5. lives' = 0 => lives = 0
      BY <1>3, <2>1
    <2> QED  BY <1>2, <2>1, <2>3, <2>4, <2>5 DEF FirstLife, Looking, CurrentIsReserved, capacityVars
  <1> QED  BY <1>4, <1>5 DEF LifeInv

\* A process takes over: the first one from the caller that starts the session,
\* a later one from the reader of the one before.
LEMMA TakeoverKeeps ==
    ASSUME IInv, LifeInv, NEW t \in Starters, SpawnSucceeds(t)
    PROVE  LifeInv'
  <1> USE DEF Owns, sessionVars, worldVars
  <1> DEFINE n == token + 1
  <1>1. t \in Tasks /\ n \in Pids /\ n > token /\ token \in Nat /\ Reader(n) \in Tasks /\ Health(n) \in Tasks
        /\ Reader(n) # Health(n)
    <2>1. token \in Nat /\ n \in Pids
      BY IngestAssumption DEF SpawnSucceeds, IInv, StateInv, SessionTypeOK, Pids
    <2> QED  BY <2>1, TaskKinds DEF Starters, Callers
  <1>2. /\ pc[t] = "spawn" /\ lockq # <<>> /\ Head(lockq) = t
        /\ lockq' \in {Tail(lockq), Append(Tail(lockq), t)}
        /\ token' = n /\ process' = n /\ proc' = [proc EXCEPT ![n] = "up"]
        /\ current' = attempt[t].trying /\ UNCHANGED lives
        /\ attempt' = [attempt EXCEPT ![t] = NoAttempt]
    BY DEF SpawnSucceeds
  <1>3. pc[Reader(n)] = "off" /\ t # Reader(n) /\ t # Health(n)
    BY <1>1, <1>2, TaskKinds DEF IInv, TaskInv, TaskTypeOK, LatestProcess, HealthLabels
  <1>4. /\ pc'[t] \in {"started", "join", "out", "refer", "done"} /\ (t \in Readers => pc'[t] = "done")
        /\ pc'[Reader(n)] \in Unended /\ pc'[Health(n)] \in HealthLabels
        /\ \A u \in Tasks \ {t, Reader(n), Health(n)} : pc'[u] = pc[u] /\ attempt'[u] = attempt[u]
    <2> DEFINE health == IF handoff # {} THEN pc[Health(n)]
                         ELSE IF allowFailover THEN "watch" ELSE "done"
               reads == IF handoff = {} THEN "read" ELSE "off"
    <2>0. TaskTypeOK
      BY DEF IInv, TaskInv
    <2>1. pc' = [pc EXCEPT ![t] = AfterSpawn(t), ![Reader(n)] = reads, ![Health(n)] = health]
      BY <1>1, <1>3, <2>0 DEF SpawnSucceeds, TaskTypeOK
    <2>2. /\ AfterSpawn(t) \in {"started", "join", "out", "refer", "done"}
          /\ t \in Readers => AfterSpawn(t) = "done"
      BY <1>1, <1>2, TaskKinds DEF AfterSpawn, IInv, TaskInv, AttemptsMatch
    <2>3. health \in HealthLabels
      BY <1>1, <2>0, TaskKinds DEF TaskTypeOK, HealthLabels
    <2>4. reads \in Unended
      BY DEF Unended
    <2> HIDE DEF health, reads
    <2> QED  BY <1>1, <1>2, <1>3, <2>0, <2>1, <2>2, <2>3, <2>4 DEF TaskTypeOK
  <1>5. Turn(t) /\ Pays(t)
    BY <1>1, <1>2, <1>4 DEF Turn, Pays, Trying, Unended, HealthLabels
  <1>6. AttemptHasLock' /\ TriedIsReserved'
    BY <1>1, <1>5, TurnKeeps, PaidKeeps DEF LifeInv
  <1>7. ASSUME lives' <= 1
        PROVE  FirstLife'
    <2>1. FirstLife
      BY <1>2, <1>7 DEF LifeInv
    <2>2. /\ current = NoSource
          /\ \A q \in Pids : proc[q] \notin {"up", "signalled"}
          /\ \A q \in Pids : q <= token => pc'[Reader(q)] = "done"
          /\ lives # 0
      <3>1. \A q \in Pids : q <= token => Reader(q) \in Tasks /\ Reader(q) # Reader(n) /\ Reader(q) # Health(n)
        BY <1>1, TaskKinds DEF Pids
      <3>2. CASE t \in Callers
        <4>1. token = 0 /\ lives = 1
          BY <1>2, <2>1, <3>2 DEF FirstLife, Opens
        <4>2. \A q \in Pids : ~(q <= token)
          BY <4>1 DEF Pids
        <4> QED  BY <2>1, <4>1, <4>2 DEF FirstLife, Pids
      <3>3. CASE \E p \in Pids : t = Reader(p)
        <4>1. PICK p \in Pids : t = Reader(p)
          BY <3>3
        <4>2. p = token /\ \A q \in Pids : proc[q] \notin {"up", "signalled"}
          BY <1>2, <2>1, <4>1, LastReaderWorks
        <4>3. current = NoSource
          BY <1>2, <2>1, <4>1 DEF FirstLife, Looking, HuntLabels
        <4>4. lives # 0
          BY <2>1, <4>2 DEF FirstLife, Pids
        <4>5. \A q \in Pids : q < token => pc[Reader(q)] = "done" /\ Reader(q) # t
          BY <2>1, <4>1, <4>2, TaskKinds DEF FirstLife, Pids
        <4>6. \A q \in Pids : q <= token => q < token \/ q = p
          BY <4>2 DEF Pids
        <4>7. pc'[Reader(p)] = "done"
          BY <1>4, <4>1 DEF Readers
        <4> QED  BY <1>4, <3>1, <4>2, <4>3, <4>4, <4>5, <4>6, <4>7
      <3> QED  BY <3>2, <3>3 DEF Starters, Readers
    <2>3. \A q \in Pids : q = n \/ q <= token \/ (q > n /\ pc'[Reader(q)] = "off")
      <3>1. \A q \in Pids : q > n => Reader(q) # t /\ Reader(q) # Reader(n) /\ Reader(q) # Health(n)
                                     /\ Reader(q) \in Tasks /\ pc[Reader(q)] = "off"
        BY <1>1, <1>2, TaskKinds DEF IInv, TaskInv, LatestProcess, Pids
      <3> QED  BY <1>1, <1>4, <3>1 DEF Pids
    <2>4. \A q \in Pids : ~Looking(q)'
      BY <1>4, <2>2, <2>3 DEF Looking, HuntLabels, Unended
    <2>5. \A u \in Callers : ~Opens(u)'
      <3> SUFFICES ASSUME NEW u \in Callers, Opens(u)'
                   PROVE  FALSE
        OBVIOUS
      <3>1. u \in Tasks /\ u # Reader(n) /\ u # Health(n) /\ u # t
        BY <1>4, TaskKinds DEF Callers, Opens
      <3>2. pc[u] \in Trying
        BY <1>4, <3>1 DEF Opens, Trying
      <3> QED  BY <1>2, <3>1, <3>2 DEF LifeInv, AttemptHasLock
    <2>6. CurrentIsReserved'
      <3>1. UNCHANGED capacityVars
        BY <2>2 DEF SpawnSucceeds
      <3> QED  BY <1>1, <1>2, <3>1 DEF CurrentIsReserved, LifeInv, TriedIsReserved, capacityVars
    <2>7. \A q \in Pids : proc'[q] \in {"up", "signalled"} => q = n
      BY <1>1, <1>2, <2>2 DEF IInv, StateInv, WorldTypeOK
    <2>8. \A q \in Pids : q < token' => q <= token
      BY <1>1, <1>2 DEF Pids
    <2>9. token' # 0 /\ lives' # 0
      BY <1>1, <1>2, <2>2
    <2> QED  BY <1>2, <1>4, <2>2, <2>4, <2>5, <2>6, <2>7, <2>8, <2>9 DEF FirstLife
  <1> QED  BY <1>6, <1>7 DEF LifeInv

\* Steps of the world around: a process ends, a hold-down expires, others move.
LEMMA WorldKeeps ==
    ASSUME IInv, LifeInv,
           \/ \E p \in Pids : ProcessEnds(p)
           \/ HoldDownExpires \/ OthersMove \/ UNCHANGED vars
    PROVE  LifeInv'
  <1> USE DEF sessionVars, taskVars, worldVars, clientVars
  <1>1. UNCHANGED <<lockq, attempt, pc, process, current, token, lives>>
    BY DEF ProcessEnds, HoldDownExpires, OthersMove, vars
  <1>2. \A q \in Pids : proc'[q] = proc[q] \/ proc'[q] = "dead"
    BY DEF ProcessEnds, HoldDownExpires, OthersMove, vars, IInv, StateInv, WorldTypeOK
  <1>3. \A k \in Keys : allocations'[k][Self] = allocations[k][Self]
    <2>1. CASE OthersMove
      BY <2>1, IngestAssumption
      DEF OthersMove, TryReserve, Reserved, Release, Released, ReleaseAll, ReleasedAll, SetExternalCounts,
          IInv, CapacityTypeOK
    <2>2. CASE ~OthersMove
      BY <2>2 DEF ProcessEnds, HoldDownExpires, vars, capacityVars
    <2> QED  BY <2>1, <2>2
  <1>4. AttemptHasLock'
    BY <1>1 DEF LifeInv, AttemptHasLock
  <1>5. TriedIsReserved'
    <2>1. \A t \in Tasks : pc[t] = "spawn" => KeyOf[attempt[t].trying] \in Keys
      BY IngestAssumption DEF IInv, TaskInv, AttemptsMatch
    <2> QED  BY <1>1, <1>3, <2>1 DEF LifeInv, TriedIsReserved
  <1>6. Calm
    BY <1>1, <1>2, <1>3 DEF Calm, Opens, Looking
  <1> QED  BY <1>1, <1>4, <1>5, <1>6, CalmKeeps DEF LifeInv

LEMMA LifeKept ==
    ASSUME IInv, LifeInv, [Next]_vars
    PROVE  LifeInv'
  <1>1. ASSUME NEW t \in Tasks, Mild(t)
        PROVE  LifeInv'
    BY <1>1, TurnKeeps, PaidKeeps, CalmKeeps DEF Mild, LifeInv
  <1>2. \A t \in Starters : t \in Tasks
    BY TaskKinds DEF Starters, Callers
  <1>3. ASSUME NEW t \in Starters, Attempting(t)
        PROVE  LifeInv'
    BY <1>1, <1>2, <1>3, ChoiceKeeps, SpawnFailureIsMild, TakeoverKeeps DEF Attempting
  <1>4. ASSUME NEW t \in Callers, Calling(t)
        PROVE  LifeInv'
    BY <1>1, <1>2, <1>4, CallIsMild, BeginningKeeps DEF Calling, Starters
  <1>5. ASSUME NEW t \in StopTasks, StopStep(t)
        PROVE  LifeInv'
    <2>1. t \in Tasks
      BY TaskKinds DEF StopTasks
    <2> QED  BY <1>1, <1>5, <2>1, StopIsMild, DrainKeeps DEF StopStep
  <1>6. ASSUME NEW c \in Clients, OutputActs(c)
        PROVE  LifeInv'
    BY <1>1, <1>6, OutputIsMild
  <1>7. ASSUME NEW p \in Pids, ReaderActs(p) \/ HealthActs(p)
        PROVE  LifeInv'
    BY <1>1, <1>7, ReaderIsMild, HealthIsMild, TaskKinds
  <1> QED  BY <1>3, <1>4, <1>5, <1>6, <1>7, StepKinds, WorldKeeps

LEMMA LifeInvHolds == Spec => []LifeInv
  <1>1. Init => LifeInv
    <2> SUFFICES ASSUME Init PROVE LifeInv
      OBVIOUS
    <2>1. \A t \in Tasks : pc[t] \in {"out", "idle", "off"}
      BY DEF Init
    <2>2. AttemptHasLock /\ TriedIsReserved
      BY <2>1 DEF AttemptHasLock, TriedIsReserved, Trying
    <2>3. FirstLife
      <3>1. \A p \in Pids : Reader(p) \in Tasks /\ ~(p < 0)
        BY TaskKinds DEF Pids
      <3>2. \A t \in Callers : t \in Tasks
        BY TaskKinds DEF Callers
      <3> QED  BY <2>1, <3>1, <3>2 DEF Init, FirstLife, Opens, Looking, HuntLabels, CurrentIsReserved
    <2> QED  BY <2>2, <2>3 DEF LifeInv
  <1>2. IInv /\ LifeInv /\ [Next]_vars => LifeInv'
    BY LifeKept
  <1> QED  BY <1>1, <1>2, InvariantHolds, PTL DEF Spec

\* Until it is started a second time, the session's source has its slot and none
\* of its processes runs on unseen, through every failover, hunt and stop
\* (CsoIngestSession.start, stop, _read_loop, _start_best_source_unlocked).
THEOREM FirstLifeClean == Spec => []FirstLifeIsClean
  <1>1. LifeInv => FirstLifeIsClean
    BY DEF LifeInv, FirstLife, FirstLifeIsClean, NoOrphan
  <1> QED  BY <1>1, LifeInvHolds, PTL

-----------------------------------------------------------------------------
(* Failovers try the others first.                                          *)

\* What a reader's attempt may still come to play.
Candidates(p) ==
    attempt[Reader(p)].todo
        \union IF pc[Reader(p)] = "spawn" THEN {attempt[Reader(p)].trying} ELSE {}

\* What a failover may come to play has not failed, and is held down only at the
\* start of a new cycle.
FailuresPassedOver ==
    \A p \in Pids : pc[Reader(p)] \in Trying /\ attempt[Reader(p)].mode = "failover" =>
        /\ Candidates(p) \intersect failoverFailed = {}
        /\ failoverFailed = {} \/ Candidates(p) \intersect heldDown = {}

\* A reader begins an attempt or goes on with it by these steps only.
LEMMA ReaderAttempts ==
    ASSUME IInv, [Next]_vars, NEW p \in Pids, pc'[Reader(p)] \in Trying
    PROVE  \/ pc'[Reader(p)] = pc[Reader(p)] /\ attempt'[Reader(p)] = attempt[Reader(p)]
           \/ LoopSection(p) \/ BridgeSection(p)
           \/ ChooseCandidate(Reader(p)) \/ SpawnFails(Reader(p))
  <1> DEFINE Goal == \/ pc'[Reader(p)] = pc[Reader(p)] /\ attempt'[Reader(p)] = attempt[Reader(p)]
                     \/ LoopSection(p) \/ BridgeSection(p)
                     \/ ChooseCandidate(Reader(p)) \/ SpawnFails(Reader(p))
  <1> USE DEF Await, Unlock, UnlockAwait, Attaches, Owns
  <1>1. /\ Reader(p) \in Tasks /\ Reader(p) \notin Callers
        /\ \A q \in Pids : Reader(p) # Health(q) /\ (q # p => Reader(p) # Reader(q))
        /\ \A c \in Clients : Reader(p) # Client(c) /\ Reader(p) # Recovery(c)
    BY TaskKinds DEF Callers
  <1>2. TaskTypeOK
    BY DEF IInv, TaskInv
  <1>3. ASSUME NEW t \in Starters, Attempting(t)
        PROVE  Goal
    <2>1. t \in Tasks
      BY TaskKinds DEF Starters, Callers
    <2>2. CASE t = Reader(p)
      <3>1. ~SpawnSucceeds(t)
        <4>1. SpawnSucceeds(t) => attempt[t].mode \in {"bridge", "failover"}
          BY <1>1, <2>2, TaskKinds DEF SpawnSucceeds, IInv, TaskInv, AttemptsMatch
        <4> QED
          BY <1>1, <1>2, <2>2, <4>1, TaskKinds DEF SpawnSucceeds, AfterSpawn, TaskTypeOK, Trying
      <3> QED  BY <1>3, <2>2, <3>1 DEF Attempting
    <2>3. CASE t # Reader(p)
      <3>1. CASE ChooseCandidate(t) \/ SpawnFails(t)
        BY <1>1, <1>2, <2>1, <2>3, <3>1 DEF ChooseCandidate, SpawnFails, TaskTypeOK
      <3>2. CASE SpawnSucceeds(t)
        BY <1>1, <1>2, <2>1, <2>3, <3>2, TaskKinds DEF SpawnSucceeds, TaskTypeOK, Trying
      <3> QED  BY <1>3, <3>1, <3>2 DEF Attempting
    <2> QED  BY <2>2, <2>3
  <1>4. ASSUME NEW t \in Callers, Calling(t)
        PROVE  Goal
    BY <1>1, <1>2, <1>4 DEF Calling, StartAlreadyRunning, StartFresh, StartFails, Attaches, TaskTypeOK
  <1>5. ASSUME NEW t \in StopTasks, StopStep(t)
        PROVE  Goal
    <2>1. t \in Tasks
      BY TaskKinds DEF StopTasks
    <2>2. CASE Drained(t)
      BY <1>1, <2>2, TaskKinds DEF Drained, Trying
    <2>3. CASE StopNothing(t) \/ StopSection(t) \/ EofSection(t)
      BY <1>1, <1>2, <2>1, <2>3 DEF StopNothing, StopSection, EofSection, AfterStop, TaskTypeOK, Trying
    <2> QED  BY <1>5, <2>2, <2>3 DEF StopStep
  <1>6. ASSUME NEW c \in Clients, OutputActs(c)
        PROVE  Goal
    BY <1>1, <1>2, <1>6
    DEF OutputActs, ClientStart, ClientStarted, ClientJoins, ClientRefers, RecoveryBegins, ReadEof, ClientLeaves, RemoveSubscriber,
        RequestCancelled, RecoveryStart, RecoveryStarted, Reattach, RecoveryJoins, CloseOutput, Subscribe,
        TaskTypeOK
  <1>7. ASSUME NEW q \in Pids, ReaderActs(q)
        PROVE  Goal
    <2>1. CASE q = p
      BY <1>1, <1>2, <1>7, <2>1
      DEF ReaderActs, ReaderEnds, CheckSubscribers, SwitchAbandoned, SwitchSection, AfterSwitch,
          SwitchReported, Recover, RefreshSection, BridgeChosen, RoundFails, Retry, GiveUp, TaskTypeOK,
          Trying
    <2>2. CASE q # p
      <3>1. Reader(q) # Reader(p) /\ Reader(q) \in Tasks
        BY <1>1, <2>2, TaskKinds
      <3> QED
        BY <1>1, <1>2, <1>7, <3>1
        DEF ReaderActs, ReaderEnds, CheckSubscribers, SwitchAbandoned, SwitchSection, SwitchReported,
            Recover, RefreshSection, BridgeChosen, BridgeSection, LoopSection, RoundFails, Retry, GiveUp, TaskTypeOK
    <2> QED  BY <2>1, <2>2
  <1>8. ASSUME NEW q \in Pids, HealthActs(q)
        PROVE  Goal
    BY <1>1, <1>2, <1>8
    DEF HealthActs, HealthTrips, HealthEnds, HealthRequest, HealthTerminate, TaskTypeOK
  <1>9. ASSUME \/ \E q \in Pids : ProcessEnds(q)
               \/ HoldDownExpires \/ OthersMove \/ UNCHANGED vars
        PROVE  Goal
    BY <1>9 DEF ProcessEnds, HoldDownExpires, OthersMove, taskVars, vars
  <1> QED  BY <1>3, <1>4, <1>5, <1>6, <1>7, <1>8, <1>9, StepKinds

\* The record of failures changes in the lock's hands only.
LEMMA FailuresChange ==
    ASSUME IInv, [Next]_vars
    PROVE  \/ failoverFailed' = failoverFailed /\ heldDown' \subseteq heldDown
           \/ \E t \in Tasks : /\ lockq # <<>> /\ Head(lockq) = t /\ pc[t] \notin Trying
                               /\ \A p \in Pids : t = Reader(p) /\ pc'[t] \in Trying =>
                                     LoopSection(p) \/ BridgeSection(p)
  <1> DEFINE Goal ==
           \/ failoverFailed' = failoverFailed /\ heldDown' \subseteq heldDown
           \/ \E t \in Tasks : /\ lockq # <<>> /\ Head(lockq) = t /\ pc[t] \notin Trying
                               /\ \A p \in Pids : t = Reader(p) /\ pc'[t] \in Trying =>
                                     LoopSection(p) \/ BridgeSection(p)
  <1> USE DEF sessionVars, Owns
  <1>1. \A t \in Callers \union StopTasks : t \in Tasks
    BY TaskKinds DEF Callers, StopTasks
  <1>2. ASSUME NEW t \in Starters, Attempting(t)
        PROVE  Goal
    BY <1>2 DEF Attempting, ChooseCandidate, SpawnFails, SpawnSucceeds
  <1>3. ASSUME NEW t \in Callers, Calling(t)
        PROVE  Goal
    BY <1>1, <1>3, TaskKinds DEF Calling, StartAlreadyRunning, StartFresh, StartFails, Calls, Attaches, Trying, Callers
  <1>4. ASSUME NEW t \in StopTasks, StopStep(t)
        PROVE  Goal
    <2>1. CASE StopSection(t)
      BY <1>1, <2>1 DEF StopSection, Unlock, Trying, IInv, TaskInv, TaskTypeOK
    <2>2. CASE StopNothing(t) \/ Drained(t) \/ EofSection(t)
      BY <2>2 DEF StopNothing, Drained, EofSection
    <2> QED  BY <1>4, <2>1, <2>2 DEF StopStep
  <1>5. ASSUME NEW c \in Clients, OutputActs(c)
        PROVE  Goal
    BY <1>5
    DEF OutputActs, ClientStart, ClientStarted, ClientJoins, ClientRefers, RecoveryBegins, ReadEof, ClientLeaves, RemoveSubscriber,
        RequestCancelled, RecoveryStart, RecoveryStarted, Reattach, RecoveryJoins, CloseOutput, Subscribe
  <1>6. ASSUME NEW p \in Pids, ReaderActs(p)
        PROVE  Goal
    <2>1. Reader(p) \in Tasks /\ \A q \in Pids : Reader(p) = Reader(q) => p = q
      BY TaskKinds
    <2>2. CASE SwitchSection(p) \/ BridgeSection(p) \/ LoopSection(p)
      <3>1. lockq # <<>> /\ Head(lockq) = Reader(p) /\ pc[Reader(p)] \notin Trying
        BY <2>2 DEF SwitchSection, BridgeSection, LoopSection, Trying
      <3>2. SwitchSection(p) => pc'[Reader(p)] \notin Trying
        BY <2>1 DEF SwitchSection, AfterSwitch, Unlock, UnlockAwait, Trying, IInv, TaskInv, TaskTypeOK
      <3> QED  BY <2>1, <2>2, <3>1, <3>2
    <2>3. CASE \/ ReaderEnds(p) \/ CheckSubscribers(p) \/ SwitchAbandoned(p) \/ SwitchReported(p)
               \/ Recover(p) \/ RefreshSection(p) \/ BridgeChosen(p) \/ RoundFails(p) \/ Retry(p)
               \/ GiveUp(p)
      BY <2>3
      DEF ReaderEnds, CheckSubscribers, SwitchAbandoned, SwitchReported, Recover, RefreshSection,
          BridgeChosen, RoundFails, Retry, GiveUp
    <2> QED  BY <1>6, <2>2, <2>3 DEF ReaderActs
  <1>7. ASSUME NEW p \in Pids, HealthActs(p)
        PROVE  Goal
    BY <1>7 DEF HealthActs, HealthTrips, HealthEnds, HealthRequest, HealthTerminate
  <1>8. ASSUME \/ \E p \in Pids : ProcessEnds(p)
               \/ HoldDownExpires \/ OthersMove \/ UNCHANGED vars
        PROVE  Goal
    BY <1>8 DEF ProcessEnds, HoldDownExpires, OthersMove, vars
  <1> QED  BY <1>2, <1>3, <1>4, <1>5, <1>6, <1>7, <1>8, StepKinds

LEMMA PassedOverKept ==
    ASSUME IInv, LifeInv, FailuresPassedOver, [Next]_vars
    PROVE  FailuresPassedOver'
  <1> SUFFICES ASSUME NEW p \in Pids, pc'[Reader(p)] \in Trying, attempt'[Reader(p)].mode = "failover"
               PROVE  /\ Candidates(p)' \intersect failoverFailed' = {}
                      /\ failoverFailed' = {} \/ Candidates(p)' \intersect heldDown' = {}
    BY DEF FailuresPassedOver
  <1> DEFINE r == Reader(p)
  <1>1. r \in Tasks /\ attempt[r] \in Attempts /\ DOMAIN attempt = Tasks /\ DOMAIN pc = Tasks
    BY TaskKinds DEF IInv, TaskInv, TaskTypeOK
  <1>2. CASE LoopSection(p)
    <2>1. /\ attempt'[r].todo = IF eligible # {} /\ eligible \ failoverFailed = {} THEN eligible
                                ELSE (eligible \ failoverFailed) \ heldDown
          /\ failoverFailed' = IF eligible # {} /\ eligible \ failoverFailed = {} THEN {}
                               ELSE failoverFailed
          /\ heldDown' = heldDown /\ pc'[r] = "choose"
      BY <1>1, <1>2 DEF LoopSection
    <2> QED  BY <2>1 DEF Candidates
  <1>3. CASE BridgeSection(p) /\ ~LoopSection(p)
    <2>1. attempt'[r].mode # "failover"
      BY <1>1, <1>3 DEF BridgeSection
    <2> QED  BY <2>1
  <1>4. CASE ~LoopSection(p) /\ ~BridgeSection(p)
    <2>1. pc[r] \in Trying
      BY <1>4, ReaderAttempts DEF ChooseCandidate, SpawnFails, Owns, Trying
    <2>2. lockq # <<>> /\ Head(lockq) = r
      BY <1>1, <2>1 DEF LifeInv, AttemptHasLock
    <2>3. failoverFailed' = failoverFailed /\ heldDown' \subseteq heldDown
      BY <2>1, <2>2, FailuresChange
    <2>4. attempt[r].mode = "failover" /\ Candidates(p)' \subseteq Candidates(p)
      <3>1. CASE pc'[r] = pc[r] /\ attempt'[r] = attempt[r]
        BY <3>1 DEF Candidates
      <3>2. CASE ChooseCandidate(r)
        <4>1. PICK s \in attempt[r].todo :
                 \/ attempt' = [attempt EXCEPT ![r].todo = @ \ {s}, ![r].trying = s]
                 \/ attempt' = [attempt EXCEPT ![r].todo = @ \ {s}] /\ pc'[r] = "choose"
          BY <1>1, <3>2 DEF ChooseCandidate, Owns
        <4>2. /\ attempt'[r].mode = attempt[r].mode /\ attempt'[r].todo \subseteq attempt[r].todo
              /\ pc'[r] = "spawn" => attempt'[r].trying = s
          BY <1>1, <4>1 DEF Attempts
        <4> QED  BY <4>1, <4>2 DEF Candidates
      <3>3. CASE SpawnFails(r)
        <4>1. attempt' = [attempt EXCEPT ![r].trying = NoSource] /\ pc'[r] = "choose"
          BY <1>1, <3>3 DEF SpawnFails
        <4>2. attempt'[r].mode = attempt[r].mode /\ attempt'[r].todo = attempt[r].todo
          BY <1>1, <4>1 DEF Attempts
        <4> QED  BY <4>1, <4>2 DEF Candidates
      <3> QED  BY <1>4, <3>1, <3>2, <3>3, ReaderAttempts
    <2> QED  BY <2>1, <2>3, <2>4 DEF FailuresPassedOver
  <1> QED  BY <1>2, <1>3, <1>4

\* A replacement never failed in this cycle of the hunt, and a source held down
\* is used again only when a cycle starts over, across the rounds, stops and
\* starts in between (_failover, _start_best_source_unlocked).
THEOREM FailoversTryOthersFirst == Spec => FailoverTriesOthersFirst
  <1>1. Init => FailuresPassedOver
    <2> SUFFICES ASSUME Init, NEW p \in Pids
                 PROVE  pc[Reader(p)] \notin Trying
      BY DEF FailuresPassedOver
    <2> QED  BY TaskKinds DEF Init, Trying
  <1>2. IInv /\ LifeInv /\ FailuresPassedOver /\ [Next]_vars => FailuresPassedOver'
    BY PassedOverKept
  <1>3. ASSUME IInv, LifeInv, FailuresPassedOver, [Next]_vars
        PROVE  [\A p \in Pids :
                  pc[Reader(p)] = "spawn" /\ attempt[Reader(p)].mode = "failover"
                  /\ process' = token + 1
                     => /\ current' \notin failoverFailed
                        /\ current' \in heldDown => failoverFailed = {}]_vars
    <2> SUFFICES ASSUME NEW p \in Pids, Next,
                        pc[Reader(p)] = "spawn", attempt[Reader(p)].mode = "failover",
                        process' = token + 1
                 PROVE  /\ current' \notin failoverFailed
                        /\ current' \in heldDown => failoverFailed = {}
      BY <1>3 DEF vars, sessionVars, IInv, TaskInv, LatestProcess, StateInv, SessionTypeOK
    <2>1. lockq # <<>> /\ Head(lockq) = Reader(p) /\ Reader(p) \in Tasks
      BY <1>3, TaskKinds DEF LifeInv, AttemptHasLock, Trying
    <2>2. process \in {0, token} /\ token \in Nat /\ token + 1 # token /\ token + 1 # 0
      BY <1>3 DEF IInv, TaskInv, LatestProcess, StateInv, SessionTypeOK
    <2>3. \E t \in Starters : SpawnSucceeds(t)
      <3> USE DEF sessionVars
      <3>1. ASSUME NEW t \in Starters, Attempting(t)
            PROVE  SpawnSucceeds(t)
        BY <2>2, <3>1 DEF Attempting, ChooseCandidate, SpawnFails
      <3>2. ASSUME NEW t \in Callers, Calling(t)
            PROVE  FALSE
        BY <2>2, <3>2 DEF Calling, StartAlreadyRunning, StartFresh, StartFails, Attaches
      <3>3. ASSUME NEW t \in StopTasks, StopStep(t)
            PROVE  FALSE
        BY <2>2, <3>3 DEF StopStep, StopNothing, StopSection, Drained, EofSection
      <3>4. ASSUME NEW c \in Clients, OutputActs(c)
            PROVE  FALSE
        BY <2>2, <3>4
        DEF OutputActs, ClientStart, ClientStarted, ClientJoins, ClientRefers, RecoveryBegins, ReadEof, ClientLeaves, RemoveSubscriber,
            RequestCancelled, RecoveryStart, RecoveryStarted, Reattach, RecoveryJoins, CloseOutput, Subscribe
      <3>5. ASSUME NEW q \in Pids, ReaderActs(q)
            PROVE  FALSE
        BY <2>2, <3>5
        DEF ReaderActs, ReaderEnds, CheckSubscribers, SwitchAbandoned, SwitchSection, SwitchReported,
            Recover, RefreshSection, BridgeChosen, BridgeSection, LoopSection, RoundFails, Retry, GiveUp
      <3>6. ASSUME NEW q \in Pids, HealthActs(q) \/ ProcessEnds(q)
            PROVE  FALSE
        BY <2>2, <3>6
        DEF HealthActs, HealthTrips, HealthEnds, HealthRequest, HealthTerminate, ProcessEnds
      <3>7. ASSUME HoldDownExpires \/ OthersMove
            PROVE  FALSE
        BY <2>2, <3>7 DEF HoldDownExpires, OthersMove
      <3> QED  BY <3>1, <3>2, <3>3, <3>4, <3>5, <3>6, <3>7, StepKinds
    <2>4. SpawnSucceeds(Reader(p))
      BY <2>1, <2>3 DEF SpawnSucceeds, Owns
    <2>5. current' \in Candidates(p)
      BY <2>4 DEF SpawnSucceeds, Candidates
    <2> QED  BY <1>3, <2>5 DEF FailuresPassedOver, Trying
  <1> QED  BY <1>1, <1>2, <1>3, InvariantHolds, LifeInvHolds, PTL DEF Spec, FailoverTriesOthersFirst
=============================================================================
