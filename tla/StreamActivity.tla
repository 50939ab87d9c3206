---------------------------- MODULE StreamActivity ----------------------------
(* Who is watching (backend/stream_activity.py): the sessions behind the      *)
(* dashboard and the audit log, kept by connection id.  The playback routes   *)
(* mark, touch and stop them, the web player sends heartbeats, a poller does  *)
(* it for TVHeadend's subscriptions, a cleanup expires those nobody touches,  *)
(* and a file brings them back after a restart.                               *)
EXTENDS Integers, FiniteSets

CONSTANTS
    Conns,          \* connection ids
    MaxOpens,       \* bound: requests that open a playback
    MaxAudits,       \* bound: stops of a session waiting to be audited
    MaxRestarts     \* bound: the process dies

VARIABLES
    kind,       \* what a connection plays: "stream", "hls", "vod" or "tvh"
    client,     \* how far its playback is
    ingests,    \* the connections whose channel is being ingested
    vacant,     \* whether the account has a connection left for another channel
    session,    \* its session: "none", "active", "stale" or "history"
    beats,      \* heartbeats under way
    stopping,   \* stops that are still to be written to the audit log
    open,       \* connections whose last event in the log is a start
    lost,       \* of these, the ones a restart knew nothing of
    file,       \* the sessions as they were saved
    previous,   \* the subscriptions the last poll saw
    pollFile,   \* as they were saved
    poll,       \* the poll under way
    opens, restarts
activityVars == <<kind, client, ingests, vacant, session, beats, stopping, open, lost, file,
                  previous, pollFile, poll, opens, restarts>>
logVars == <<session, stopping, open, lost>>
ingested == <<ingests, vacant>>
pollVars == <<previous, pollFile, poll>>
fixedVars == <<kind, file, restarts>>

NoPoll == [step |-> "idle", seen |-> {}, marks |-> {}, stops |-> {}]
Live(c) == session[c] \in {"active", "stale"}

ActivityInit ==
    /\ kind \in [Conns -> {"stream", "hls", "vod", "tvh"}]
    /\ client = [c \in Conns |-> "away"] /\ ingests = {} /\ vacant = TRUE
    /\ session = [c \in Conns |-> "none"] /\ file = session
    /\ beats = {} /\ stopping = [c \in Conns |-> 0]
    /\ open = {} /\ lost = {}
    /\ previous = {} /\ pollFile = {} /\ poll = NoPoll
    /\ opens = 0 /\ restarts = 0
-----------------------------------------------------------------------------
(* The tracker *)

\* Altered: a session found in the history is marked there.
Marked_InHistory(c, audited) ==
    /\ session' = [session EXCEPT ![c] = IF @ = "history" THEN @ ELSE "active"]
    /\ IF audited /\ ~Live(c) THEN open' = open \union {c} /\ lost' = lost \ {c}
       ELSE UNCHANGED <<open, lost>>
    /\ UNCHANGED stopping
\* A live session is touched; one of the history is brought back, or a new one
\* made, and its start is audited before the lock is given up.
Marked(c, audited) ==
    /\ session' = [session EXCEPT ![c] = "active"]
    /\ IF audited /\ ~Live(c) THEN open' = open \union {c} /\ lost' = lost \ {c}
       ELSE UNCHANGED <<open, lost>>
    /\ UNCHANGED stopping

\* A touch revives nothing.
Touched(c) ==
    /\ session' = [session EXCEPT ![c] = IF Live(c) THEN "active" ELSE @]
    /\ UNCHANGED <<stopping, open, lost>>

\* The session goes to the history; the stop is audited after the lock.
Stopped(c) ==
    /\ stopping[c] < MaxAudits
    /\ session' = [session EXCEPT ![c] = IF Live(c) THEN "history" ELSE @]
    /\ stopping' = [stopping EXCEPT ![c] = IF Live(c) THEN @ + 1 ELSE @]
    /\ UNCHANGED <<open, lost>>

AuditsStop(c) ==
    /\ stopping[c] > 0 /\ stopping' = [stopping EXCEPT ![c] = @ - 1]
    /\ open' = open \ {c} /\ lost' = lost \ {c}
    /\ UNCHANGED <<fixedVars, client, ingested, session, beats, pollVars, opens>>

\* activity_ttl passes.
GoesStale(c) ==
    /\ session[c] = "active" /\ session' = [session EXCEPT ![c] = "stale"]
    /\ UNCHANGED <<fixedVars, client, ingested, stopping, open, lost, beats, pollVars, opens>>

\* Every stale session goes to the history, from which old ones are dropped; the
\* stop of a TVHeadend subscription is left to the poller.
CleanupActivity ==
    /\ \E old \in SUBSET {c \in Conns : session[c] = "history"} :
       LET stale == {c \in Conns : session[c] = "stale"}
       IN  /\ stale \union old # {} /\ \A c \in stale : stopping[c] < MaxAudits
           /\ session' = [c \in Conns |-> IF c \in stale THEN "history"
                                          ELSE IF c \in old THEN "none" ELSE session[c]]
           /\ stopping' = [c \in Conns |-> IF c \in stale /\ kind[c] # "tvh"
                                           THEN stopping[c] + 1 ELSE stopping[c]]
    /\ UNCHANGED <<fixedVars, client, ingested, open, lost, beats, pollVars, opens>>

SaveState ==
    /\ file # session /\ file' = session
    /\ UNCHANGED <<kind, client, ingested, logVars, beats, pollVars, opens, restarts>>

\* The process dies; what it loads when it is back is what it saved last.
Restarts ==
    /\ restarts < MaxRestarts /\ restarts' = restarts + 1
    /\ session' = [c \in Conns |-> IF file[c] = "stale" THEN "active" ELSE file[c]]
    /\ stopping' = [c \in Conns |-> 0] /\ beats' = {} /\ ingests' = {} /\ vacant' = TRUE
    /\ lost' = {c \in open : file[c] \notin {"active", "stale"}}
    /\ client' = [c \in Conns |-> IF kind[c] = "tvh" THEN client[c] ELSE "away"]
    /\ previous' = {} /\ poll' = NoPoll
    /\ UNCHANGED <<kind, open, file, pollFile, opens>>
-----------------------------------------------------------------------------
(* A continuous stream: stream_channel, stream_from_source_gate *)

playing == <<ingested, beats, pollVars>>

Opens(c, k, step) ==
    /\ kind[c] = k /\ opens < MaxOpens /\ opens' = opens + 1
    /\ client[c] = "away" /\ client' = [client EXCEPT ![c] = step]

OpensStream(c) == Opens(c, "stream", "opening") /\ UNCHANGED <<fixedVars, logVars, playing>>

\* There is no plan, and no session is marked.
StreamRefused(c) ==
    /\ client[c] = "opening" /\ client' = [client EXCEPT ![c] = "away"]
    /\ UNCHANGED <<fixedVars, logVars, playing, opens>>

StreamMarked(c) ==
    /\ client[c] = "opening" /\ client' = [client EXCEPT ![c] = "ready"]
    /\ Marked(c, TRUE)
    /\ UNCHANGED <<fixedVars, playing, opens>>

\* The response is iterated, or was dropped before: its finally never runs.
StreamBegins(c) ==
    /\ client[c] = "ready"
    /\ client' = [client EXCEPT ![c] = "playing"] \/ client' = [client EXCEPT ![c] = "away"]
    /\ UNCHANGED <<fixedVars, logVars, playing, opens>>

\* A chunk passes, at least five seconds after the last touch.
StreamFlows(c) ==
    /\ kind[c] \in {"stream", "vod"} /\ client[c] = "playing"
    /\ Touched(c)
    /\ UNCHANGED <<fixedVars, client, playing, opens>>

\* The client leaves, or the plan ends or is cut off; its generator is closed,
\* and then the session stopped.
StreamEnds(c) ==
    /\ kind[c] \in {"stream", "vod"} /\ client[c] = "playing"
    /\ client' = [client EXCEPT ![c] = "closing"]
    /\ UNCHANGED <<fixedVars, logVars, playing, opens>>

StreamStopped(c) ==
    /\ client[c] = "closing" /\ client' = [client EXCEPT ![c] = "away"]
    /\ Stopped(c)
    /\ UNCHANGED <<fixedVars, playing, opens>>

\* A VOD stream is marked first, without an audit, and stays marked when it then
\* cannot be played.
OpensVod(c) == Opens(c, "vod", "starting") /\ Marked(c, FALSE) /\ UNCHANGED <<fixedVars, playing>>

VodBegins(c) ==
    /\ client[c] = "starting"
    /\ client' = [client EXCEPT ![c] = "playing"] \/ client' = [client EXCEPT ![c] = "away"]
    /\ UNCHANGED <<fixedVars, logVars, playing, opens>>
-----------------------------------------------------------------------------
(* HLS: a playlist request, again and again, and requests for segments *)

Attached(c) == client[c] \in {"waiting", "playing"}
Full(c) == c \notin ingests /\ ~vacant

\* Other channels of the account begin and end.
OthersPlay ==
    /\ vacant' = ~vacant
    /\ UNCHANGED <<fixedVars, client, ingests, logVars, beats, pollVars, opens>>

\* A client that is in the output, or whose channel is ingested, goes on.
RequestsPlaylist(c) ==
    /\ kind[c] = "hls" /\ client[c] \in {"away", "playing", "slate"}
    /\ client[c] = "playing" \/ opens < MaxOpens
    /\ opens' = IF client[c] = "playing" THEN opens ELSE opens + 1
    /\ client' = [client EXCEPT ![c] =
            IF @ = "playing" \/ c \in ingests THEN "subscribing" ELSE "gate"]
    /\ UNCHANGED <<fixedVars, logVars, playing>>

\* While the account is full it waits up to 12 seconds, as long as a session of
\* the same client holds the account.
GatePasses(c) ==
    /\ client[c] = "gate" /\ ~Full(c) /\ client' = [client EXCEPT ![c] = "subscribing"]
    /\ UNCHANGED <<fixedVars, logVars, playing, opens>>

\* It gets a slate instead, here or by the subscription.
ShowsSlate(c) ==
    /\ client[c] \in {"gate", "subscribing"} /\ Full(c)
    /\ client' = [client EXCEPT ![c] = "slate"]
    /\ UNCHANGED <<fixedVars, logVars, playing, opens>>

Subscribes(c) ==
    /\ client[c] = "subscribing" /\ ~Full(c)
    /\ client' = [client EXCEPT ![c] = "waiting"] /\ ingests' = ingests \union {c}
    /\ UNCHANGED <<fixedVars, vacant, logVars, beats, pollVars, opens>>

\* The playlist is there and the session is marked, or it is not within 15
\* seconds and the client stays in the output unmarked.
PlaylistReady(c) ==
    /\ client[c] = "waiting" /\ client' = [client EXCEPT ![c] = "playing"]
    /\ Marked(c, TRUE) \/ UNCHANGED logVars
    /\ UNCHANGED <<fixedVars, playing, opens>>

\* A segment request subscribes a client that is no longer there again.
RequestsSegment(c) ==
    /\ kind[c] = "hls" /\ client[c] \in {"playing", "gone"} /\ ~Full(c)
    /\ client' = [client EXCEPT ![c] = "playing"] /\ ingests' = ingests \union {c}
    /\ Touched(c)
    /\ UNCHANGED <<fixedVars, vacant, beats, pollVars, opens>>

\* An idle client is pruned, whose hook stops its session (a slate may have been
\* given none); it may come back for a segment.
PrunesClient(c) ==
    /\ kind[c] = "hls" /\ client[c] \in {"waiting", "playing", "slate"}
    /\ client' = [client EXCEPT ![c] = "gone"]
    /\ Stopped(c) \/ (client[c] = "slate" /\ UNCHANGED logVars)
    /\ UNCHANGED <<fixedVars, playing, opens>>

GivesUp(c) ==
    /\ client[c] = "gone" /\ client' = [client EXCEPT ![c] = "away"]
    /\ UNCHANGED <<fixedVars, logVars, playing, opens>>

IngestStops(c) ==
    /\ c \in ingests /\ ~Attached(c) /\ ingests' = ingests \ {c}
    /\ UNCHANGED <<fixedVars, client, vacant, logVars, beats, pollVars, opens>>
-----------------------------------------------------------------------------
(* The web player and the dashboard *)

SendsHeartbeat(c) ==
    /\ client[c] = "playing" /\ kind[c] # "tvh" /\ c \notin beats
    /\ beats' = beats \union {c}
    /\ UNCHANGED <<fixedVars, client, ingested, logVars, pollVars, opens>>

\* It may arrive after the stop that was sent after it.
Heartbeat(c) ==
    /\ c \in beats /\ beats' = beats \ {c}
    /\ Marked(c, TRUE)
    /\ UNCHANGED <<fixedVars, client, ingested, pollVars, opens>>

PlaybackStop(c) ==
    /\ client[c] = "playing" /\ kind[c] # "tvh" /\ Stopped(c)
    /\ UNCHANGED <<fixedVars, client, playing, opens>>

\* The output is told to drop the client, and the session is stopped.
Disconnects(c) ==
    /\ client[c] = "playing" /\ kind[c] # "tvh"
    /\ client' = [client EXCEPT ![c] = IF kind[c] = "hls" THEN "gone" ELSE "closing"]
    /\ Stopped(c)
    /\ UNCHANGED <<fixedVars, playing, opens>>
-----------------------------------------------------------------------------
(* TVHeadend's subscriptions, polled by one task at a time *)

TvhSubscribes(c) == Opens(c, "tvh", "playing") /\ UNCHANGED <<fixedVars, logVars, playing>>

TvhUnsubscribes(c) ==
    /\ kind[c] = "tvh" /\ client[c] = "playing" /\ client' = [client EXCEPT ![c] = "away"]
    /\ UNCHANGED <<fixedVars, logVars, playing, opens>>

\* What was seen before is read from the file when there is nothing in memory.
PollBegins ==
    /\ poll.step = "idle" /\ \E c \in Conns : kind[c] = "tvh"
    /\ LET seen == {c \in Conns : kind[c] = "tvh" /\ client[c] = "playing"}
           before == IF previous = {} THEN pollFile ELSE previous
       IN  /\ previous' = before
           /\ poll' = [step |-> "update", seen |-> seen, marks |-> seen, stops |-> before \ seen]
    /\ UNCHANGED <<fixedVars, client, ingested, logVars, beats, pollFile, opens>>

PollMarks(c) ==
    /\ c \in poll.marks /\ poll' = [poll EXCEPT !.marks = @ \ {c}]
    /\ Marked(c, c \notin previous)
    /\ UNCHANGED <<fixedVars, client, ingested, beats, previous, pollFile, opens>>

PollStops(c) ==
    /\ poll.marks = {} /\ c \in poll.stops /\ poll' = [poll EXCEPT !.stops = @ \ {c}]
    /\ Stopped(c)
    /\ UNCHANGED <<fixedVars, client, ingested, beats, previous, pollFile, opens>>

PollEnds ==
    /\ poll.step = "update" /\ poll.marks = {} /\ poll.stops = {}
    /\ previous' = poll.seen /\ pollFile' = poll.seen /\ poll' = NoPoll
    /\ UNCHANGED <<fixedVars, client, ingested, logVars, beats, opens>>

ActivityNext ==
    \/ OthersPlay \/ CleanupActivity \/ SaveState \/ Restarts \/ PollBegins \/ PollEnds
    \/ \E c \in Conns :
         \/ AuditsStop(c) \/ GoesStale(c)
         \/ OpensStream(c) \/ StreamRefused(c) \/ StreamMarked(c) \/ StreamBegins(c)
         \/ StreamFlows(c) \/ StreamEnds(c) \/ StreamStopped(c) \/ OpensVod(c) \/ VodBegins(c)
         \/ RequestsPlaylist(c) \/ GatePasses(c) \/ ShowsSlate(c) \/ Subscribes(c)
         \/ PlaylistReady(c) \/ RequestsSegment(c) \/ PrunesClient(c) \/ GivesUp(c)
         \/ IngestStops(c) \/ SendsHeartbeat(c) \/ Heartbeat(c) \/ PlaybackStop(c)
         \/ Disconnects(c) \/ TvhSubscribes(c) \/ TvhUnsubscribes(c)
         \/ PollMarks(c) \/ PollStops(c)

ActivitySpec == ActivityInit /\ [][ActivityNext]_activityVars
-----------------------------------------------------------------------------
(* Properties *)

\* A start in the audit log is not forgotten: as long as no stop follows it, the
\* session lives or its stop is being written, unless a restart knew nothing of
\* it or TVHeadend's poller is to tell.
OpenIsTracked ==
    \A c \in open : kind[c] = "tvh" \/ c \in lost \/ Live(c) \/ stopping[c] > 0
=============================================================================
