-------------------------------- MODULE CsoHls -------------------------------
(* One HLS output session (CsoHlsOutputSession of cso/output.py): an encoder  *)
(* writes segments that clients fetch one request at a time, so a client is   *)
(* one that asked lately.  start() holds `lock` to its end; stop() takes it   *)
(* only to empty the session, and gives the rest back afterwards, when the    *)
(* session may have been started again.                                       *)
EXTENDS Naturals, FiniteSets

CONSTANTS HlsClients, HlsNobody, MaxStops   \* stops under way at a time
ASSUME HlsAssumption == HlsNobody \notin HlsClients /\ MaxStops \in Nat \ {0}
Restarter == "restarter"                    \* the task the wait loop creates

VARIABLES
  hRunning,     \* running
  hProcess,     \* "none", "up", or "exited" and not yet seen by its wait loop
  hQueue,       \* ingest_queue is set
  hSub,         \* the ingest feeds that queue
  hStarter,     \* who is in start(), holding `lock`
  hEntry,       \* client -> "none", "hook" or, made by a touch, "plain"
  hHooks,       \* client -> disconnect hooks taken out and not called yet
  hDue,         \* stops that remove_client, the wait loop or the cleanup will call
  hTails,       \* stops past their first section, each with or without a queue
  hWait,        \* the wait loop: "watch", or "restart" between its two sections
  hRestart      \* its create_task(start()) has not run yet
hlsVars == <<hRunning, hProcess, hQueue, hSub, hStarter, hEntry, hHooks, hDue,
             hTails, hWait, hRestart>>

Present == {c \in HlsClients : hEntry[c] # "none"}
HlsFree == hStarter = HlsNobody

HlsInit ==
  /\ hRunning = FALSE /\ hProcess = "none" /\ hQueue = FALSE /\ hSub = FALSE
  /\ hStarter = HlsNobody /\ hWait = "watch" /\ hRestart = FALSE
  /\ hEntry = [c \in HlsClients |-> "none"] /\ hHooks = [c \in HlsClients |-> 0]
  /\ hDue = 0
  /\ hTails = [queue |-> 0, plain |-> 0]

(********************************** start() *********************************)
\* A subscription, or the restart; a running session is left as it is, and so
\* is the ingest that does not come up (`running` stays FALSE).  An encoder that
\* is up when `running` is not (HlsWaitRestarts) is forgotten and runs on.
HlsStart(a) ==
  /\ HlsFree /\ (a = Restarter => hRestart)
  /\ hRestart' = (hRestart /\ a # Restarter)
  /\ \/ hRunning /\ UNCHANGED <<hStarter, hQueue, hSub, hRunning, hProcess>>
     \/ ~hRunning /\ UNCHANGED <<hStarter, hQueue, hSub, hRunning, hProcess>>
     \/ /\ ~hRunning
        /\ hStarter' = a
        /\ hQueue' = TRUE /\ hSub' = TRUE
        /\ hRunning' = TRUE /\ hProcess' = "up"
  /\ UNCHANGED <<hEntry, hHooks, hDue, hTails, hWait>>

\* The first playlist is there, or no attempt is left: then the queue stays.
HlsStarted ==
  /\ ~HlsFree
  /\ hStarter' = HlsNobody
  /\ \/ UNCHANGED <<hRunning, hProcess>>
     \/ hRunning' = FALSE /\ hProcess' = "none"
  /\ UNCHANGED <<hQueue, hSub, hEntry, hHooks, hDue, hTails, hWait, hRestart>>

(********************************** clients *********************************)
\* add_client: one that is there keeps its place, and gets a hook if it had none.
HlsAdd(c) ==
  /\ HlsFree /\ hRunning /\ hHooks[c] < MaxStops
  /\ hEntry' = [hEntry EXCEPT ![c] = "hook"]
  /\ UNCHANGED <<hRunning, hProcess, hQueue, hSub, hStarter, hHooks, hDue, hTails, hWait,
                 hRestart>>

\* touch_client enters a client that was dropped again, without a hook.
HlsTouch(c) ==
  /\ HlsFree /\ hEntry[c] = "none"
  /\ hEntry' = [hEntry EXCEPT ![c] = "plain"]
  /\ UNCHANGED <<hRunning, hProcess, hQueue, hSub, hStarter, hHooks, hDue,
                 hTails, hWait, hRestart>>

\* Emptying the session; a stop()'s first section.
Taken(C) == [c \in HlsClients |-> hHooks[c] + IF c \in C /\ hEntry[c] = "hook" THEN 1 ELSE 0]
HlsEmpties ==
  /\ hTails.queue + hTails.plain < MaxStops
  /\ hRunning' = FALSE /\ hProcess' = "none" /\ hQueue' = FALSE
  /\ hTails' = IF hQueue THEN [hTails EXCEPT !.queue = @ + 1] ELSE [hTails EXCEPT !.plain = @ + 1]
  /\ hEntry' = [c \in HlsClients |-> "none"]
  /\ hHooks' = Taken(HlsClients)

\* remove_client, asked for, or for a client that was idle too long.  If it was
\* the last, stop(force) follows its hook, whoever came in between.
HlsRemove(c) ==
  /\ HlsFree /\ hEntry[c] # "none" /\ hDue < MaxStops
  /\ hEntry' = [hEntry EXCEPT ![c] = "none"]
  /\ hHooks' = Taken({c})
  /\ hDue' = IF Present = {c} THEN hDue + 1 ELSE hDue
  /\ UNCHANGED <<hRunning, hProcess, hQueue, hTails, hSub, hStarter, hWait, hRestart>>

HlsStopDue ==
  /\ HlsFree /\ hDue > 0
  /\ hDue' = hDue - 1
  /\ IF hRunning \/ hProcess # "none" \/ Present # {} THEN HlsEmpties
       ELSE UNCHANGED <<hRunning, hProcess, hQueue, hTails, hEntry, hHooks>>
  /\ UNCHANGED <<hSub, hStarter, hWait, hRestart>>

HlsHook(c) ==
  /\ hHooks[c] > 0
  /\ hHooks' = [hHooks EXCEPT ![c] = @ - 1]
  /\ UNCHANGED <<hRunning, hProcess, hQueue, hSub, hStarter, hEntry, hDue, hTails, hWait,
                 hRestart>>

(************************** the encoder and its end *************************)
\* It dies, or its input has ended.  A subscription that is taken away does not
\* end it: the writer then waits for ever for the queue that nobody feeds.
HlsEncoderExits ==
  /\ hProcess = "up"
  /\ hProcess' = "exited"
  /\ UNCHANGED <<hRunning, hQueue, hSub, hStarter, hEntry, hHooks, hDue, hTails,
                 hWait, hRestart>>

\* _wait_loop: after a clean end with clients the session is started again, after
\* any other it is stopped, whoever has come by then.
HlsWaitSeesExit(clean) ==
  /\ HlsFree /\ hProcess = "exited" /\ hWait = "watch"
  /\ \/ /\ clean /\ hRunning /\ Present # {}
        /\ hProcess' = "none" /\ hWait' = "restart"
        /\ UNCHANGED hDue
     \/ /\ ~(clean /\ hRunning /\ Present # {})
        /\ hProcess' = "none" /\ hDue < MaxStops /\ hDue' = hDue + 1
        /\ UNCHANGED hWait
  /\ UNCHANGED <<hRunning, hQueue, hTails, hEntry, hHooks, hSub, hStarter, hRestart>>

HlsWaitRestarts ==
  /\ HlsFree /\ hWait = "restart"
  /\ hWait' = "watch"
  /\ hRunning' = FALSE /\ hRestart' = TRUE
  /\ UNCHANGED <<hProcess, hQueue, hSub, hStarter, hEntry, hHooks, hDue, hTails>>

(*************************** stop() and the cleanup *************************)
HlsCleanup_KeepsClients ==     \* Altered: a session with clients is kept, running or not.
  /\ HlsFree /\ Present = {}
  /\ hRunning \/ hProcess # "none"
  /\ hDue < MaxStops /\ hDue' = hDue + 1
  /\ UNCHANGED <<hRunning, hProcess, hQueue, hSub, hStarter, hEntry, hHooks, hTails, hWait,
                 hRestart>>
\* cleanup_idle_streams: nobody there, or not running; the stop comes later.
HlsCleanup ==
  /\ HlsFree /\ ~(hRunning /\ Present # {})
  /\ hRunning \/ hProcess # "none" \/ Present # {}
  /\ hDue < MaxStops /\ hDue' = hDue + 1
  /\ UNCHANGED <<hRunning, hProcess, hQueue, hSub, hStarter, hEntry, hHooks, hTails, hWait,
                 hRestart>>

\* The rest of a stop(): what is removed is whatever subscription the ingest
\* holds under the key by now.
HlsTail(kind) ==
  /\ hTails[kind] > 0
  /\ hTails' = [hTails EXCEPT ![kind] = @ - 1]
  /\ hSub' = (hSub /\ kind = "plain")
  /\ UNCHANGED <<hRunning, hProcess, hQueue, hStarter, hEntry, hHooks, hDue, hWait,
                 hRestart>>

HlsNext ==
  \/ \E a \in HlsClients \union {Restarter} : HlsStart(a)
  \/ HlsStarted \/ HlsEncoderExits \/ HlsWaitRestarts \/ HlsCleanup \/ HlsStopDue
  \/ \E c \in HlsClients : HlsAdd(c) \/ HlsTouch(c) \/ HlsRemove(c) \/ HlsHook(c)
  \/ \E clean \in BOOLEAN : HlsWaitSeesExit(clean)
  \/ \E kind \in {"queue", "plain"} : HlsTail(kind)

\* Timeouts end a start, tasks that were created run, the cleanup comes round, and
\* the lock is handed on in the order of asking, so none of them waits for ever.
HlsFairness ==
  /\ WF_hlsVars(HlsStarted) /\ SF_hlsVars(HlsWaitRestarts)
  /\ SF_hlsVars(\E clean \in BOOLEAN : HlsWaitSeesExit(clean))
  /\ SF_hlsVars(HlsStopDue) /\ SF_hlsVars(HlsCleanup)
  /\ \A kind \in {"queue", "plain"} : WF_hlsVars(HlsTail(kind))
HlsSpec == HlsInit /\ [][HlsNext]_hlsVars /\ HlsFairness

(******************************** properties ********************************)
\* Clients whose encoder has ended, or whose start came to nothing, are not left
\* with a session that only looks alive: it plays again or they are let go,
\* whatever stops and starts fall between the wait loop's two looks (_wait_loop,
\* start, stop, cleanup_idle_streams).
ViewersGoOn ==
  (Present # {} /\ ~(hRunning /\ hProcess = "up"))
      ~> (Present = {} \/ (hRunning /\ hProcess = "up"))
=============================================================================
