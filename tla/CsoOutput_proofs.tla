-------------------------- MODULE CsoOutput_proofs ---------------------------
(* Proofs about the live output sessions of one key, for any viewers and      *)
(* session objects: whoever watches is a client of a session that is fed, or  *)
(* of one whose stop() has still to tell it.                                  *)
EXTENDS CsoOutput, TLAPS

Readers == Outputs \X {"reader", "late"}

\* Where start() and stop() hold lifecycle_lock.
Starting == {"input", "wait"}
Stopping == {"closing", "pruneclosing", "stuck"}

OutTypeOK ==
  /\ mapped \in Outputs \union {Nobody} /\ feed \in Outputs \union {Nobody}
  /\ told \subseteq Viewers
  /\ running \in [Outputs -> BOOLEAN] /\ process \in [Outputs -> {"none", "up", "dead"}]
  /\ queue \in [Outputs -> BOOLEAN] /\ owned \in [Outputs -> BOOLEAN]
  /\ clients \in [Outputs -> SUBSET Viewers]
  /\ holder \in [Outputs -> Actors \union {Nobody}]
  /\ attempt \in [Outputs -> {1, 2}] /\ fed \in [Outputs -> 0 .. Need]
  /\ picture \in [Outputs -> BOOLEAN]
  /\ DOMAIN at = Actors /\ on \in [Actors -> Outputs \union {Nobody}]

\* Each actor is where its kind may be, and about a session unless it is idle.
ActorsInPlace ==
  /\ \A v \in Viewers :
       at[v] \in {"idle", "start", "add", "watch", "stop", "closing", "stuck"} \union Starting
  /\ at[Cleanup] \in {"idle", "prune", "prunestop", "pruned", "check", "stop"} \union Stopping
  /\ \A a \in Readers : at[a] \in {"none", "reading", "lock", "stop", "closing", "stuck"}
  /\ \A o \in Outputs : on[Reader(o)] = o /\ on[Late(o)] = o
  /\ \A a \in Actors : at[a] # "idle" => on[a] \in Outputs

\* lifecycle_lock is held by the one who is between its two ends.
LockIsHeld ==
  /\ \A o \in Outputs : holder[o] # Nobody => on[holder[o]] = o /\ at[holder[o]] \in Starting \union Stopping
  /\ \A a \in Actors : at[a] \in Starting \union Stopping => holder[on[a]] = a

\* Nobody is about to join the session, and all who watch it were told.
Quiet(o) == \A w \in Viewers : on[w] = o => at[w] # "add" /\ (at[w] = "watch" => w \in told)

\* A start finds a quiet session; who joins finds a running one.
StartsAlone ==
  /\ \A v \in Viewers : at[v] \in Starting => Quiet(on[v])
  /\ \A v \in Viewers : at[v] \in {"wait", "add"} => running[on[v]]

OutInv == OutTypeOK /\ ActorsInPlace /\ LockIsHeld /\ StartsAlone /\ ClientsHaveEncoder
-----------------------------------------------------------------------------
LEMMA ReadersAre ==
  /\ Actors = Viewers \union {Cleanup} \union Readers
  /\ Cleanup \notin Viewers /\ Nobody \notin Actors
  /\ \A a \in Readers : a \notin Viewers /\ a # Cleanup /\ \E o \in Outputs : a = Reader(o) \/ a = Late(o)
  /\ \A o \in Outputs : Reader(o) \in Readers /\ Late(o) \in Readers
  /\ \A o, p \in Outputs : Reader(o) # Late(p) /\ (o # p => Reader(o) # Reader(p) /\ Late(o) # Late(p))
  BY OutputAssumption DEF Actors, Readers, Reader, Late

\* What is needed to know of the types to follow the lock.
ShapeOK ==
  /\ DOMAIN at = Actors /\ DOMAIN on = Actors /\ DOMAIN holder = Outputs
  /\ DOMAIN running = Outputs /\ DOMAIN clients = Outputs
  /\ \A b \in Actors : on[b] \in Outputs \union {Nobody}
  /\ \A p \in Outputs : holder[p] \in Actors \union {Nobody}

LEMMA ShapeIsOK == OutTypeOK => ShapeOK
  BY DEF OutTypeOK, ShapeOK

\* Who is not idle is about a session.
LEMMA AboutSession == ActorsInPlace => \A a \in Actors : at[a] # "idle" => on[a] \in Outputs
  BY DEF ActorsInPlace

\* One of the system's steps, by a viewer, a session's loops, or whoever stops one.
AnyStep(v, o, a) ==
  \/ GetOrCreate(v) \/ StartRunning(v) \/ StartBegins(v) \/ Subscribes(v) \/ SpawnFails(v)
  \/ StartSucceeds(v) \/ StartFallsBack(v) \/ StartFails(v) \/ StartCancelled(v)
  \/ AddClient(v) \/ Leave(v)
  \/ WriteLoop(o) \/ FirstOutput(o) \/ OutputEnds(o) \/ EncoderDies(o) \/ ReaderDropsStale(o) \/ ReaderLooks(a)
  \/ StopNothing(a) \/ StopBegins(a) \/ StopEnds(a) \/ StopMeetsReader(a)
  \/ CleanupLooks \/ CleanupPrunes \/ CleanupPruned \/ CleanupChecks

\* The variables keep their types.
LEMMA TypesKeep ==
  ASSUME OutTypeOK, ActorsInPlace,
         NEW v \in Viewers, NEW o \in Outputs, NEW a \in Actors, AnyStep(v, o, a)
  PROVE  OutTypeOK'
  <1> USE ReadersAre, OutputAssumption, AboutSession DEF Goes, OutTypeOK
  <1>1. CASE GetOrCreate(v)
    <2>1. PICK p \in Outputs :
             /\ on' = [on EXCEPT ![v] = p] /\ mapped' = p
             /\ feed' \in {feed, Nobody} /\ (queue' = queue \/ queue' = [queue EXCEPT ![p] = FALSE])
      BY <1>1 DEF GetOrCreate
    <2>2. queue' \in [Outputs -> BOOLEAN] /\ feed' \in Outputs \union {Nobody}
      BY <2>1, ZenonT(30)
    <2>3. on' \in [Actors -> Outputs \union {Nobody}] /\ mapped' \in Outputs
      BY <2>1
    <2> QED  BY <1>1, <2>2, <2>3 DEF GetOrCreate
  <1>2. CASE StartRunning(v)
    BY <1>2 DEF StartRunning
  <1>3. CASE StartBegins(v)
    BY <1>3 DEF StartBegins
  <1>4. CASE Subscribes(v)
    BY <1>4 DEF Subscribes, Spawns, Retired
  <1>5. CASE SpawnFails(v)
    BY <1>5 DEF SpawnFails
  <1>6. CASE StartSucceeds(v)
    BY <1>6 DEF StartSucceeds
  <1>7. CASE StartFallsBack(v)
    BY <1>7 DEF StartFallsBack, Spawns, GiveUpReader
  <1>8. CASE StartFails(v)
    BY <1>8 DEF StartFails, GiveUpReader
  <1>9. CASE StartCancelled(v)
    BY <1>9 DEF StartCancelled
  <1>10. CASE AddClient(v)
    BY <1>10 DEF AddClient, LockHeld
  <1>11. CASE Leave(v)
    BY <1>11, SMTT(20) DEF Leave
  <1>12. CASE WriteLoop(o)
    BY <1>12 DEF WriteLoop
  <1>13. CASE FirstOutput(o)
    BY <1>13 DEF FirstOutput
  <1>14. CASE OutputEnds(o)
    BY <1>14 DEF OutputEnds
  <1>15. CASE EncoderDies(o)
    BY <1>15 DEF EncoderDies
  <1>16. CASE ReaderDropsStale(o)
    BY <1>16 DEF ReaderDropsStale, RemoveClient, LockHeld
  <1>17. CASE ReaderLooks(a)
    BY <1>17 DEF ReaderLooks
  <1>18. CASE StopNothing(a)
    BY <1>18 DEF StopNothing, Back, StopLeaves, Unmaps
  <1>19. CASE StopBegins(a)
    BY <1>19 DEF StopBegins, Adding
  <1>20. CASE StopEnds(a)
    BY <1>20 DEF StopEnds, Back, StopLeaves, Unmaps
  <1>21. CASE StopMeetsReader(a)
    BY <1>21 DEF StopMeetsReader
  <1>22. CASE CleanupLooks
    BY <1>22 DEF CleanupLooks
  <1>23. CASE CleanupPrunes
    BY <1>23 DEF CleanupPrunes, RemoveClient, LockHeld
  <1>24. CASE CleanupPruned
    BY <1>24 DEF CleanupPruned
  <1>25. CASE CleanupChecks
    BY <1>25 DEF CleanupChecks
  <1> QED
    BY <1>1, <1>2, <1>3, <1>4, <1>5, <1>6, <1>7, <1>8, <1>9, <1>10, <1>11, <1>12,
       <1>13, <1>14, <1>15, <1>16, <1>17, <1>18, <1>19, <1>20, <1>21, <1>22, <1>23,
       <1>24, <1>25 DEF AnyStep

\* Everybody stays in place.
LEMMA PlacesKeep ==
  ASSUME OutTypeOK, ActorsInPlace,
         NEW v \in Viewers, NEW o \in Outputs, NEW a \in Actors, AnyStep(v, o, a)
  PROVE  ActorsInPlace'
  <1> USE ReadersAre, ShapeIsOK DEF Goes, ShapeOK, ActorsInPlace, Starting, Stopping
  <1>1. CASE GetOrCreate(v)
    BY <1>1 DEF GetOrCreate
  <1>2. CASE StartRunning(v)
    BY <1>2 DEF StartRunning
  <1>3. CASE StartBegins(v)
    BY <1>3 DEF StartBegins
  <1>4. CASE Subscribes(v)
    BY <1>4, SMTT(20) DEF Subscribes, Spawns, Retired
  <1>5. CASE SpawnFails(v)
    BY <1>5 DEF SpawnFails
  <1>6. CASE StartSucceeds(v)
    BY <1>6 DEF StartSucceeds
  <1>7. CASE StartFallsBack(v)
    BY <1>7 DEF StartFallsBack, Spawns, GiveUpReader
  <1>8. CASE StartFails(v)
    BY <1>8 DEF StartFails, GiveUpReader
  <1>9. CASE StartCancelled(v)
    BY <1>9 DEF StartCancelled
  <1>10. CASE AddClient(v)
    BY <1>10 DEF AddClient, LockHeld
  <1>11. CASE Leave(v)
    BY <1>11 DEF Leave
  <1>12. CASE WriteLoop(o)
    BY <1>12 DEF WriteLoop
  <1>13. CASE FirstOutput(o)
    BY <1>13 DEF FirstOutput
  <1>14. CASE OutputEnds(o)
    BY <1>14 DEF OutputEnds
  <1>15. CASE EncoderDies(o)
    BY <1>15 DEF EncoderDies
  <1>16. CASE ReaderDropsStale(o)
    BY <1>16 DEF ReaderDropsStale, RemoveClient, LockHeld
  <1>17. CASE ReaderLooks(a)
    BY <1>17 DEF ReaderLooks
  <1>18. CASE StopNothing(a)
    BY <1>18 DEF StopNothing, Back, StopLeaves, Unmaps
  <1>19. CASE StopBegins(a)
    BY <1>19 DEF StopBegins, Adding
  <1>20. CASE StopEnds(a)
    BY <1>20 DEF StopEnds, Back, StopLeaves, Unmaps
  <1>21. CASE StopMeetsReader(a)
    BY <1>21 DEF StopMeetsReader
  <1>22. CASE CleanupLooks
    BY <1>22 DEF CleanupLooks, OutTypeOK
  <1>23. CASE CleanupPrunes
    BY <1>23 DEF CleanupPrunes, RemoveClient, LockHeld
  <1>24. CASE CleanupPruned
    BY <1>24 DEF CleanupPruned
  <1>25. CASE CleanupChecks
    BY <1>25 DEF CleanupChecks
  <1> QED
    BY <1>1, <1>2, <1>3, <1>4, <1>5, <1>6, <1>7, <1>8, <1>9, <1>10, <1>11, <1>12,
       <1>13, <1>14, <1>15, <1>16, <1>17, <1>18, <1>19, <1>20, <1>21, <1>22, <1>23,
       <1>24, <1>25 DEF AnyStep

\* The lock stays with the one who is in it.
LEMMA LockKeeps ==
  ASSUME OutTypeOK, ActorsInPlace, LockIsHeld,
         NEW v \in Viewers, NEW o \in Outputs, NEW a \in Actors, AnyStep(v, o, a)
  PROVE  LockIsHeld'
  <1> USE ReadersAre, ShapeIsOK DEF Goes, ShapeOK, ActorsInPlace, LockIsHeld,
          Starting, Stopping
  <1>1. CASE GetOrCreate(v)
    BY <1>1 DEF GetOrCreate
  <1>2. CASE StartRunning(v)
    BY <1>2 DEF StartRunning
  <1>3. CASE StartBegins(v)
    BY <1>3 DEF StartBegins
  <1>4. CASE Subscribes(v)
    BY <1>4, SMTT(20) DEF Subscribes, Spawns, Retired
  <1>5. CASE SpawnFails(v)
    BY <1>5 DEF SpawnFails
  <1>6. CASE StartSucceeds(v)
    BY <1>6 DEF StartSucceeds
  <1>7. CASE StartFallsBack(v)
    BY <1>7 DEF StartFallsBack, Spawns, GiveUpReader
  <1>8. CASE StartFails(v)
    BY <1>8 DEF StartFails, GiveUpReader
  <1>9. CASE StartCancelled(v)
    BY <1>9 DEF StartCancelled
  <1>10. CASE AddClient(v)
    BY <1>10 DEF AddClient, LockHeld
  <1>11. CASE Leave(v)
    BY <1>11 DEF Leave
  <1>12. CASE WriteLoop(o)
    BY <1>12 DEF WriteLoop
  <1>13. CASE FirstOutput(o)
    BY <1>13 DEF FirstOutput
  <1>14. CASE OutputEnds(o)
    BY <1>14 DEF OutputEnds
  <1>15. CASE EncoderDies(o)
    BY <1>15 DEF EncoderDies
  <1>16. CASE ReaderDropsStale(o)
    BY <1>16 DEF ReaderDropsStale, RemoveClient, LockHeld
  <1>17. CASE ReaderLooks(a)
    BY <1>17 DEF ReaderLooks
  <1>18. CASE StopNothing(a)
    BY <1>18 DEF StopNothing, Back, StopLeaves, Unmaps
  <1>19. CASE StopBegins(a)
    BY <1>19 DEF StopBegins, Adding
  <1>20. CASE StopEnds(a)
    BY <1>20 DEF StopEnds, Back, StopLeaves, Unmaps
  <1>21. CASE StopMeetsReader(a)
    BY <1>21 DEF StopMeetsReader
  <1>22. CASE CleanupLooks
    BY <1>22 DEF CleanupLooks
  <1>23. CASE CleanupPrunes
    BY <1>23 DEF CleanupPrunes, RemoveClient, LockHeld
  <1>24. CASE CleanupPruned
    BY <1>24 DEF CleanupPruned
  <1>25. CASE CleanupChecks
    BY <1>25 DEF CleanupChecks
  <1> QED
    BY <1>1, <1>2, <1>3, <1>4, <1>5, <1>6, <1>7, <1>8, <1>9, <1>10, <1>11, <1>12,
       <1>13, <1>14, <1>15, <1>16, <1>17, <1>18, <1>19, <1>20, <1>21, <1>22, <1>23,
       <1>24, <1>25 DEF AnyStep

\* A start goes on alone.
LEMMA StartsKeep ==
  ASSUME OutTypeOK, ActorsInPlace, LockIsHeld, StartsAlone, ClientsHaveEncoder,
         NEW v \in Viewers, NEW o \in Outputs, NEW a \in Actors, AnyStep(v, o, a)
  PROVE  StartsAlone'
  <1> USE ReadersAre, ShapeIsOK DEF Goes, ShapeOK, ActorsInPlace, LockIsHeld,
          StartsAlone, ClientsHaveEncoder, Quiet, Starting, Stopping
  <1>1. CASE GetOrCreate(v)
    BY <1>1 DEF GetOrCreate
  <1>2. CASE StartRunning(v)
    BY <1>2 DEF StartRunning
  <1>3. CASE StartBegins(v)
    BY <1>3 DEF StartBegins
  <1>4. CASE Subscribes(v)
    BY <1>4, SMTT(20) DEF Subscribes, Spawns, Retired
  <1>5. CASE SpawnFails(v)
    BY <1>5 DEF SpawnFails
  <1>6. CASE StartSucceeds(v)
    BY <1>6 DEF StartSucceeds
  <1>7. CASE StartFallsBack(v)
    BY <1>7 DEF StartFallsBack, Spawns, GiveUpReader
  <1>8. CASE StartFails(v)
    BY <1>8 DEF StartFails, GiveUpReader
  <1>9. CASE StartCancelled(v)
    BY <1>9 DEF StartCancelled
  <1>10. CASE AddClient(v)
    BY <1>10 DEF AddClient, LockHeld
  <1>11. CASE Leave(v)
    BY <1>11 DEF Leave
  <1>12. CASE WriteLoop(o)
    BY <1>12 DEF WriteLoop
  <1>13. CASE FirstOutput(o)
    BY <1>13 DEF FirstOutput
  <1>14. CASE OutputEnds(o)
    BY <1>14 DEF OutputEnds
  <1>15. CASE EncoderDies(o)
    BY <1>15 DEF EncoderDies
  <1>16. CASE ReaderDropsStale(o)
    BY <1>16 DEF ReaderDropsStale, RemoveClient, LockHeld
  <1>17. CASE ReaderLooks(a)
    BY <1>17 DEF ReaderLooks
  <1>18. CASE StopNothing(a)
    BY <1>18 DEF StopNothing, Back, StopLeaves, Unmaps
  <1>19. CASE StopBegins(a)
    BY <1>19 DEF StopBegins, Adding
  <1>20. CASE StopEnds(a)
    BY <1>20 DEF StopEnds, Back, StopLeaves, Unmaps
  <1>21. CASE StopMeetsReader(a)
    BY <1>21 DEF StopMeetsReader
  <1>22. CASE CleanupLooks
    BY <1>22 DEF CleanupLooks
  <1>23. CASE CleanupPrunes
    BY <1>23 DEF CleanupPrunes, RemoveClient, LockHeld
  <1>24. CASE CleanupPruned
    BY <1>24 DEF CleanupPruned
  <1>25. CASE CleanupChecks
    BY <1>25 DEF CleanupChecks
  <1> QED
    BY <1>1, <1>2, <1>3, <1>4, <1>5, <1>6, <1>7, <1>8, <1>9, <1>10, <1>11, <1>12,
       <1>13, <1>14, <1>15, <1>16, <1>17, <1>18, <1>19, <1>20, <1>21, <1>22, <1>23,
       <1>24, <1>25 DEF AnyStep

\* Whoever watches is served, or will be told.
LEMMA ClientsKeep ==
  ASSUME OutTypeOK, ActorsInPlace, LockIsHeld, StartsAlone, ClientsHaveEncoder,
         NEW v \in Viewers, NEW o \in Outputs, NEW a \in Actors, AnyStep(v, o, a)
  PROVE  ClientsHaveEncoder'
  <1> USE ReadersAre, ShapeIsOK DEF Goes, ShapeOK, ActorsInPlace, LockIsHeld,
          StartsAlone, ClientsHaveEncoder, Quiet, Starting, Stopping
  <1>1. CASE GetOrCreate(v)
    BY <1>1 DEF GetOrCreate
  <1>2. CASE StartRunning(v)
    BY <1>2 DEF StartRunning
  <1>3. CASE StartBegins(v)
    BY <1>3 DEF StartBegins
  <1>4. CASE Subscribes(v)
    BY <1>4 DEF Subscribes, Spawns, Retired
  <1>5. CASE SpawnFails(v)
    BY <1>5 DEF SpawnFails
  <1>6. CASE StartSucceeds(v)
    BY <1>6 DEF StartSucceeds
  <1>7. CASE StartFallsBack(v)
    BY <1>7 DEF StartFallsBack, Spawns, GiveUpReader
  <1>8. CASE StartFails(v)
    BY <1>8 DEF StartFails, GiveUpReader
  <1>9. CASE StartCancelled(v)
    BY <1>9 DEF StartCancelled
  <1>10. CASE AddClient(v)
    BY <1>10 DEF AddClient, LockHeld
  <1>11. CASE Leave(v)
    BY <1>11 DEF Leave
  <1>12. CASE WriteLoop(o)
    BY <1>12 DEF WriteLoop
  <1>13. CASE FirstOutput(o)
    BY <1>13 DEF FirstOutput
  <1>14. CASE OutputEnds(o)
    BY <1>14 DEF OutputEnds
  <1>15. CASE EncoderDies(o)
    BY <1>15 DEF EncoderDies
  <1>16. CASE ReaderDropsStale(o)
    BY <1>16 DEF ReaderDropsStale, RemoveClient, LockHeld
  <1>17. CASE ReaderLooks(a)
    BY <1>17 DEF ReaderLooks
  <1>18. CASE StopNothing(a)
    BY <1>18 DEF StopNothing, Back, StopLeaves, Unmaps
  <1>19. CASE StopBegins(a)
    BY <1>19 DEF StopBegins, Adding
  <1>20. CASE StopEnds(a)
    BY <1>20 DEF StopEnds, Back, StopLeaves, Unmaps
  <1>21. CASE StopMeetsReader(a)
    BY <1>21 DEF StopMeetsReader
  <1>22. CASE CleanupLooks
    BY <1>22 DEF CleanupLooks
  <1>23. CASE CleanupPrunes
    BY <1>23 DEF CleanupPrunes, RemoveClient, LockHeld
  <1>24. CASE CleanupPruned
    BY <1>24 DEF CleanupPruned
  <1>25. CASE CleanupChecks
    BY <1>25 DEF CleanupChecks
  <1> QED
    BY <1>1, <1>2, <1>3, <1>4, <1>5, <1>6, <1>7, <1>8, <1>9, <1>10, <1>11, <1>12,
       <1>13, <1>14, <1>15, <1>16, <1>17, <1>18, <1>19, <1>20, <1>21, <1>22, <1>23,
       <1>24, <1>25 DEF AnyStep

LEMMA OutInvHolds == OutSpec => []OutInv
  <1>1. OutInit => OutInv
    <2> SUFFICES ASSUME OutInit PROVE OutInv
      OBVIOUS
    <2>1. OutTypeOK
      BY ReadersAre, OutputAssumption DEF OutInit, OutTypeOK, Readers
    <2>2. ActorsInPlace
      BY ReadersAre DEF OutInit, ActorsInPlace, Readers, Reader, Late
    <2>3. LockIsHeld /\ StartsAlone /\ ClientsHaveEncoder
      BY ReadersAre DEF OutInit, LockIsHeld, StartsAlone, ClientsHaveEncoder, Starting, Stopping
    <2> QED  BY <2>1, <2>2, <2>3 DEF OutInv
  <1>2. OutInv /\ [OutNext]_vars => OutInv'
    <2> SUFFICES ASSUME OutInv, [OutNext]_vars PROVE OutInv'
      OBVIOUS
    <2>1. CASE UNCHANGED vars
      BY <2>1 DEF vars, OutInv, OutTypeOK, ActorsInPlace, LockIsHeld, StartsAlone, Quiet, ClientsHaveEncoder
    <2>2. CASE OutNext
      <3>1. PICK v \in Viewers, o \in Outputs, a \in Actors : AnyStep(v, o, a)
        BY <2>2, ReadersAre, OutputAssumption
           DEF OutNext, AnyStep, ViewerStep, Hears, EncoderStep, StopStep, CleanupStep
      <3> QED  BY <3>1, TypesKeep, PlacesKeep, LockKeeps, StartsKeep, ClientsKeep DEF OutInv
    <2> QED  BY <2>1, <2>2
  <1> QED  BY <1>1, <1>2, PTL DEF OutSpec
-----------------------------------------------------------------------------
\* The sessions, their locks and their actors keep their types.
THEOREM OutputTypeCorrect == OutSpec => []OutTypeOK
  <1>1. OutInv => OutTypeOK
    BY DEF OutInv
  <1> QED  BY <1>1, OutInvHolds, PTL

\* Whoever watches is a client of a session that runs, or whose stop() has still
\* to tell it, however viewers, the encoder's end and the cleanup come together
\* (CsoOutputSession.start, stop, add_client, remove_client).
THEOREM ViewersAreServed == OutSpec => []ClientsHaveEncoder
  <1>1. OutInv => ClientsHaveEncoder
    BY DEF OutInv
  <1> QED  BY <1>1, OutInvHolds, PTL
=============================================================================
