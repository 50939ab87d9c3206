------------------------------ MODULE VodChannel ------------------------------
(* A 24/7 channel made of library items (backend/cso/vod_ingest.py,           *)
(* Vod247ChannelManager).  Each life has a loop that plays one programme after *)
(* another, each by an ffmpeg that cuts it into segments                       *)
(* (backend/cso/segmented_handoff.py); the next is started shortly before the  *)
(* boundary by a task of its own.  Viewers start the channel and hold it by a  *)
(* reference; whoever takes the last one away stops it, as does the cleanup.   *)
EXTENDS Integers, FiniteSets, Sequences

CONSTANTS
    Watchers,
    ChannelCleanup,
    NoWatcher,
    MaxLives,       \* bound: loops ever started
    MaxFfmpegs      \* bound: ffmpegs at one time

ASSUME ChannelAssumption == NoWatcher \notin Watchers \union {ChannelCleanup}

VARIABLES
    chOn,           \* running
    chTask,         \* segment_task: a life, or 0
    chLock,         \* who holds lifecycle_lock
    chRefs,         \* lifecycle_references
    chActive,       \* _active_ingest: an ffmpeg, or 0
    chTold,         \* the lives whose startup_event is set
    loops,          \* the loops, in the order of their lives
    ffmpegs,        \* the ffmpegs that run
    watchers        \* what each viewer, and the cleanup, does

chVars == <<chOn, chTask, chLock, chRefs, chActive, chTold, loops, ffmpegs, watchers>>

Away == [at |-> "away", life |-> 0]
Stoppers == Watchers \union {ChannelCleanup}
\* A loop: where it is, the runtime in its hand, and its preparing task and the
\* runtime that one has.
NewLoop == [at |-> "resolve", hand |-> 0, prep |-> "none", made |-> 0]

ChannelInit ==
    /\ chOn = FALSE /\ chTask = 0 /\ chLock = NoWatcher
    /\ chRefs = {} /\ chActive = 0 /\ chTold = {}
    /\ loops = <<>>
    /\ ffmpegs = {}
    /\ watchers = [w \in Stoppers |-> Away]

\* An ffmpeg is a number nobody has.
InHand == {chActive} \union UNION {{loops[n].hand, loops[n].made} : n \in DOMAIN loops}
Spare == (1..MaxFfmpegs) \ (ffmpegs \union InHand)
NewFfmpeg == CHOOSE f \in Spare : TRUE

Alive(n) == n \in DOMAIN loops /\ loops[n].at # "over"
Turns(w, place) == watchers' = [watchers EXCEPT ![w].at = place]
-----------------------------------------------------------------------------
(* Viewers *)

\* start(): a life that runs is joined without waiting for its segments.
WatcherStarts(w) ==
    /\ watchers[w].at = "away" /\ chLock = NoWatcher
    /\ IF chOn /\ Alive(chTask)
       THEN Turns(w, "started") /\ UNCHANGED <<chOn, chTask, loops>>
       ELSE /\ Len(loops) < MaxLives
            /\ chOn' = TRUE /\ loops' = Append(loops, NewLoop) /\ chTask' = Len(loops')
            /\ watchers' = [watchers EXCEPT ![w] = [at |-> "waits", life |-> chTask']]
    /\ UNCHANGED <<chLock, chRefs, chActive, chTold, ffmpegs>>

\* The wait ends with the startup event, or with the request.
WatcherGoesOn(w) ==
    /\ watchers[w].at = "waits"
    /\ \/ watchers[w].life \in chTold /\ Turns(w, "started")
       \/ Turns(w, "stopping")
    /\ UNCHANGED <<chOn, chTask, chLock, chRefs, chActive, chTold, loops, ffmpegs>>

\* The viewer's output refers to the channel if that runs now.
WatcherRefers(w) ==
    /\ watchers[w].at = "started"
    /\ IF chOn THEN Turns(w, "watching") /\ chRefs' = chRefs \union {w}
               ELSE watchers' = [watchers EXCEPT ![w] = Away] /\ UNCHANGED chRefs
    /\ UNCHANGED <<chOn, chTask, chLock, chActive, chTold, loops, ffmpegs>>

WatcherLeaves(w) ==
    /\ watchers[w].at = "watching"
    /\ chRefs' = chRefs \ {w}
    /\ IF chRefs' = {} THEN Turns(w, "stopping") ELSE watchers' = [watchers EXCEPT ![w] = Away]
    /\ UNCHANGED <<chOn, chTask, chLock, chActive, chTold, loops, ffmpegs>>

ChannelCleanupLooks ==
    /\ watchers[ChannelCleanup].at = "away"
    /\ chOn => chRefs = {}
    /\ chOn \/ chTask # 0
    /\ Turns(ChannelCleanup, "stopping")
    /\ UNCHANGED <<chOn, chTask, chLock, chRefs, chActive, chTold, loops, ffmpegs>>
-----------------------------------------------------------------------------
(* stop(force=True): under lifecycle_lock the active ffmpeg is closed, and the *)
(* loop cancelled and awaited.                                                *)

StopTakes(w) ==
    /\ watchers[w].at = "stopping" /\ chLock = NoWatcher
    /\ IF ~chOn /\ chTask = 0
       THEN watchers' = [watchers EXCEPT ![w] = Away] /\ UNCHANGED <<chOn, chTask, chLock, chActive, ffmpegs>>
       ELSE /\ chOn' = FALSE /\ chTask' = 0 /\ chLock' = w
            /\ chActive' = 0 /\ ffmpegs' = ffmpegs \ {chActive}
            /\ watchers' = [watchers EXCEPT ![w] = [at |-> "cancels", life |-> chTask]]
    /\ UNCHANGED <<chRefs, chTold, loops>>

Over == [NewLoop EXCEPT !.at = "over"]
Closing == [NewLoop EXCEPT !.at = "final"]

\* Where the cancellation meets the loop.  One that waits for its preparing
\* task swallows it and goes on without the prepared runtime; one that is
\* ending leaves the rest of its ending undone.  A preparing task that is not
\* done is cancelled too; an ffmpeg that the loop or the task was starting, or
\* that a done task has made, runs on with nobody to close it.
CancelsLoop(n) ==
    \/ /\ loops[n].at \in {"resolve", "final", "clears"}
       /\ loops' = [loops EXCEPT ![n] = Over]
    \/ /\ loops[n].at \in {"build", "starts", "ready", "play", "next", "swap"}
       /\ loops' = [loops EXCEPT ![n] = Closing]
    \/ /\ loops[n].at = "take"
       /\ loops' = [loops EXCEPT ![n] = [NewLoop EXCEPT !.at = "next"]]

StopCancels(w) ==
    /\ watchers[w].at = "cancels"
    /\ IF Alive(watchers[w].life) THEN CancelsLoop(watchers[w].life) ELSE UNCHANGED loops
    /\ Turns(w, "joins")
    /\ UNCHANGED <<chOn, chTask, chLock, chRefs, chActive, chTold, ffmpegs>>

\* Altered: the cancelled loop is not awaited.
StopJoins_AtOnce(w) ==
    /\ watchers[w].at = "joins"
    /\ chLock' = NoWatcher /\ watchers' = [watchers EXCEPT ![w] = Away]
    /\ UNCHANGED <<chOn, chTask, chRefs, chActive, chTold, loops, ffmpegs>>
StopJoins(w) ==
    /\ watchers[w].at = "joins" /\ ~Alive(watchers[w].life)
    /\ chLock' = NoWatcher /\ watchers' = [watchers EXCEPT ![w] = Away]
    /\ UNCHANGED <<chOn, chTask, chRefs, chActive, chTold, loops, ffmpegs>>
-----------------------------------------------------------------------------
(* The loop of life n *)

LoopMoves(n, to) == loops' = [loops EXCEPT ![n] = to]
loopOnly == <<chTask, chLock, chRefs, watchers>>

\* No programme is scheduled: the life ends, its waiters told.
LoopResolves(n) ==
    /\ loops[n].at = "resolve"
    /\ \/ LoopMoves(n, [loops[n] EXCEPT !.at = "build"]) /\ UNCHANGED <<chOn, chTold>>
       \/ LoopMoves(n, Closing) /\ chOn' = FALSE /\ chTold' = chTold \union {n}
    /\ UNCHANGED <<loopOnly, chActive, ffmpegs>>

\* The head of the loop: a prepared runtime becomes the active one, else an
\* ffmpeg is started.  A life that was stopped ends here, whatever it holds.
LoopBuilds(n) ==
    /\ loops[n].at = "build"
    /\ \/ /\ ~chOn
          /\ LoopMoves(n, Closing) /\ chTold' = chTold \union {n}
          /\ UNCHANGED <<chActive, ffmpegs>>
       \/ /\ chOn /\ loops[n].hand # 0
          /\ chActive' = loops[n].hand
          /\ LoopMoves(n, [NewLoop EXCEPT !.at = "play", !.prep = "waits"])
          /\ UNCHANGED <<chTold, ffmpegs>>
       \/ /\ chOn /\ loops[n].hand = 0 /\ Spare # {}
          /\ ffmpegs' = ffmpegs \union {NewFfmpeg}
          /\ LoopMoves(n, [loops[n] EXCEPT !.at = "starts", !.hand = NewFfmpeg])
          /\ UNCHANGED <<chActive, chTold>>
    /\ UNCHANGED <<loopOnly, chOn>>

\* The runtime is built, over an active one of another life if there is one; or
\* not: a failed start and a programme of another shape stop their ffmpeg, an
\* exception from the look at its first segment leaves it running.
LoopStarted(n) ==
    /\ loops[n].at = "starts"
    /\ \/ /\ chActive' = loops[n].hand
          /\ LoopMoves(n, IF n \in chTold THEN [NewLoop EXCEPT !.at = "play", !.prep = "waits"]
                                          ELSE [NewLoop EXCEPT !.at = "ready"])
          /\ UNCHANGED <<chOn, chTold, ffmpegs>>
       \/ /\ ffmpegs' \in {ffmpegs, ffmpegs \ {loops[n].hand}}
          /\ chOn' = FALSE /\ chTold' = chTold \union {n}
          /\ LoopMoves(n, Closing)
          /\ UNCHANGED chActive
    /\ UNCHANGED <<loopOnly>>

\* The first programme has 12 seconds for its first segment.
LoopIsReady(n) ==
    /\ loops[n].at = "ready"
    /\ chTold' = chTold \union {n}
    /\ \/ UNCHANGED chOn
       \/ chOn' = FALSE
    /\ LoopMoves(n, IF chOn' THEN [loops[n] EXCEPT !.at = "play", !.prep = "waits"] ELSE Closing)
    /\ UNCHANGED <<loopOnly, chActive, ffmpegs>>

\* The boundary has passed and the segments were published, or the life was
\* stopped: what was prepared is then closed, or its making cancelled.
LoopPlayed(n) ==
    /\ loops[n].at = "play"
    /\ IF chOn THEN LoopMoves(n, [loops[n] EXCEPT !.at = "take"]) /\ UNCHANGED ffmpegs
       ELSE /\ LoopMoves(n, Closing)
            /\ ffmpegs' = IF loops[n].prep = "done" THEN ffmpegs \ {loops[n].made} ELSE ffmpegs
    /\ UNCHANGED <<loopOnly, chOn, chActive, chTold>>

\* The prepared runtime has eight seconds more, or its making is cancelled.
LoopTakes(n) ==
    /\ loops[n].at = "take"
    /\ \/ /\ loops[n].prep = "done" /\ loops[n].made # 0
          /\ LoopMoves(n, [NewLoop EXCEPT !.at = "swap", !.hand = loops[n].made])
       \/ /\ loops[n].prep # "done" \/ loops[n].made = 0
          /\ LoopMoves(n, [NewLoop EXCEPT !.at = "next"])
    /\ UNCHANGED <<loopOnly, chOn, chActive, chTold, ffmpegs>>

\* The old runtime is closed: for the prepared one, or for the programme that
\* is scheduled now, if any.
LoopCloses(n) ==
    /\ loops[n].at \in {"swap", "next"}
    /\ chActive' = 0 /\ ffmpegs' = ffmpegs \ {chActive}
    /\ \/ LoopMoves(n, [loops[n] EXCEPT !.at = "build"]) /\ UNCHANGED chOn
       \/ loops[n].at = "next" /\ LoopMoves(n, Closing) /\ chOn' = FALSE
    /\ UNCHANGED <<loopOnly, chTold>>

\* The end: the active runtime is closed and then the references are cleared,
\* this life's or the next one's.
LoopEnds(n) ==
    /\ loops[n].at = "final"
    /\ chActive' = 0 /\ ffmpegs' = ffmpegs \ {chActive}
    /\ LoopMoves(n, [loops[n] EXCEPT !.at = "clears"])
    /\ UNCHANGED <<loopOnly, chOn, chTold>>
\* Altered: the end of the loop is made under lifecycle_lock.
LoopClears_Locked(n) ==
    /\ loops[n].at = "clears" /\ chLock = NoWatcher
    /\ chRefs' = {}
    /\ LoopMoves(n, Over)
    /\ UNCHANGED <<chOn, chTask, chLock, chActive, chTold, ffmpegs, watchers>>
LoopClears(n) ==
    /\ loops[n].at = "clears"
    /\ chRefs' = {}
    /\ LoopMoves(n, Over)
    /\ UNCHANGED <<chOn, chTask, chLock, chActive, chTold, ffmpegs, watchers>>
-----------------------------------------------------------------------------
(* The preparing task, and ffmpeg *)

Preparing(n) == n \in DOMAIN loops /\ loops[n].at \in {"play", "take"}

\* Due before the boundary, if the schedule still says so.
PrepStarts(n) ==
    /\ Preparing(n) /\ loops[n].prep = "waits"
    /\ \/ /\ chOn /\ Spare # {}
          /\ ffmpegs' = ffmpegs \union {NewFfmpeg}
          /\ LoopMoves(n, [loops[n] EXCEPT !.prep = "builds", !.made = NewFfmpeg])
       \/ LoopMoves(n, [loops[n] EXCEPT !.prep = "done"]) /\ UNCHANGED ffmpegs
    /\ UNCHANGED <<loopOnly, chOn, chActive, chTold>>

PrepEnds(n) ==
    /\ Preparing(n) /\ loops[n].prep = "builds"
    /\ \/ LoopMoves(n, [loops[n] EXCEPT !.prep = "done"]) /\ UNCHANGED ffmpegs
       \/ /\ LoopMoves(n, [loops[n] EXCEPT !.prep = "done", !.made = 0])
          /\ ffmpegs' \in {ffmpegs, ffmpegs \ {loops[n].made}}
    /\ UNCHANGED <<loopOnly, chOn, chActive, chTold>>

\* An ffmpeg ends with its programme, or by itself.
FfmpegEnds(f) ==
    /\ f \in ffmpegs /\ ffmpegs' = ffmpegs \ {f}
    /\ UNCHANGED <<loopOnly, chOn, chActive, chTold, loops>>

LoopStep(n) ==
    \/ LoopResolves(n) \/ LoopBuilds(n) \/ LoopStarted(n) \/ LoopIsReady(n) \/ LoopPlayed(n)
    \/ LoopTakes(n) \/ LoopCloses(n) \/ LoopEnds(n) \/ LoopClears(n)

ChannelNext ==
    \/ \E w \in Watchers : WatcherStarts(w) \/ WatcherGoesOn(w) \/ WatcherRefers(w) \/ WatcherLeaves(w)
    \/ ChannelCleanupLooks
    \/ \E w \in Stoppers : StopTakes(w) \/ StopCancels(w) \/ StopJoins(w)
    \/ \E n \in DOMAIN loops : LoopStep(n) \/ PrepStarts(n) \/ PrepEnds(n)
    \/ \E f \in ffmpegs : FfmpegEnds(f)

\* The event loop runs what is ready; timeouts and boundaries come.
ChannelFairness ==
    /\ \A w \in Stoppers : WF_chVars(StopTakes(w)) /\ WF_chVars(StopCancels(w)) /\ WF_chVars(StopJoins(w))
    /\ \A n \in 1..MaxLives : WF_chVars(n \in DOMAIN loops /\ LoopStep(n))
-----------------------------------------------------------------------------
(* Properties *)

\* Two lives never publish into the one playlist: a new life begins only when the
\* last one has come to its end, though the last one may swallow its cancellation
\* and go on.  And a programme never begins over one that is on air: from its
\* second programme on, a life has closed what it played before it starts or puts
\* on air the next (start, stop, _run_loop).
Going(n) == loops[n].at \notin {"final", "clears", "over"}
LivesTakeTurns ==
    /\ \A m, n \in DOMAIN loops : Going(m) /\ Going(n) => m = n
    /\ \A n \in chTold : loops[n].at \in {"build", "starts"} => chActive = 0

\* A stop() waits, with lifecycle_lock held, for a loop that may be waiting for
\* its preparing task or be ending itself: it always comes back, and viewers can
\* start the channel again.
StopsFinish == (chLock # NoWatcher) ~> (chLock = NoWatcher)
=============================================================================
