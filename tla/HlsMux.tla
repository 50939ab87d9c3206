-------------------------------- MODULE HlsMux -------------------------------
(* The shared upstream streams of hls_multiplexer.py, for one key of          *)
(* active_streams: objects that are created by a request, stop when their     *)
(* upstream ends or nobody listens, and take their entry out as the last      *)
(* thing they do.  A stream's stop() holds its lock throughout; get_stream    *)
(* holds the manager's.  And the segment cache of the same module.            *)
EXTENDS Naturals, FiniteSets

CONSTANTS MuxStreams,        \* stream objects that may exist at a time
          MuxClients, MuxNone,
          Segments, MaxSegments     \* max_size
ASSUME MuxAssumption == MuxNone \notin MuxStreams /\ MaxSegments \in Nat \ {0}

VARIABLES
  mState,      \* stream -> "free" (no such object), "up", "stopping" or "dead"
  mEntry,      \* active_streams[key]
  mQueues,     \* stream -> the clients whose queues it feeds
  mAt,         \* client -> the stream it was given, or MuxNone
  mWaits,      \* clients that read a queue
  mTold,       \* clients whose queue holds the end
  mDue,        \* streams with a _stop_if_unsubscribed to run
  segFresh, segStale     \* cached keys: within, and past, their time
muxVars == <<mState, mEntry, mQueues, mAt, mWaits, mTold, mDue, segFresh, segStale>>
segVars == <<segFresh, segStale>>

MuxInit ==
  /\ mState = [g \in MuxStreams |-> "free"] /\ mEntry = MuxNone
  /\ mQueues = [g \in MuxStreams |-> {}]
  /\ mAt = [c \in MuxClients |-> MuxNone]
  /\ mWaits = {} /\ mTold = {} /\ mDue = {}
  /\ segFresh = {} /\ segStale = {}

\* No variable of the program names the object any more.
Forgotten(g) == mEntry # g /\ \A c \in MuxClients : mAt[c] # g
Unlocked(g) == mState[g] # "stopping"

(****************************** MultiplexerManager **************************)
GetStream_Fresh(c) ==                \* Altered: a stopping stream is replaced at once.
  /\ mAt[c] = MuxNone
  /\ IF mEntry # MuxNone /\ mState[mEntry] = "up"
       THEN mAt' = [mAt EXCEPT ![c] = mEntry] /\ UNCHANGED <<mState, mEntry>>
       ELSE \E g \in MuxStreams :
              /\ mState[g] = "free" /\ mEntry' = g
              /\ mAt' = [mAt EXCEPT ![c] = g] /\ mState' = [mState EXCEPT ![g] = "up"]
  /\ UNCHANGED <<mQueues, mWaits, mTold, mDue, segVars>>
\* get_stream: the entry, whatever its state, or a new stream; a process that
\* could not be spawned leaves a stream that never ran, under its key for good.
GetStream(c) ==
  /\ mAt[c] = MuxNone
  /\ IF mEntry # MuxNone
       THEN mAt' = [mAt EXCEPT ![c] = mEntry] /\ UNCHANGED <<mState, mEntry>>
       ELSE \E g \in MuxStreams :
              /\ mState[g] = "free"
              /\ mEntry' = g
              /\ mAt' = [mAt EXCEPT ![c] = g]
              /\ \E spawned \in BOOLEAN :
                   mState' = [mState EXCEPT ![g] = IF spawned THEN "up" ELSE "dead"]
  /\ UNCHANGED <<mQueues, mWaits, mTold, mDue, segVars>>

\* add_queue: a client may be late, and its stream dead by now.
AddQueue(c) ==
  /\ mAt[c] # MuxNone /\ Unlocked(mAt[c]) /\ c \notin mWaits
  /\ mQueues' = [mQueues EXCEPT ![mAt[c]] = @ \union {c}]
  /\ mWaits' = mWaits \union {c} /\ mTold' = mTold \ {c}
  /\ UNCHANGED <<mState, mEntry, mAt, mDue, segVars>>

\* remove_queue, at the end of the stream or of the client.
RemoveQueue(c) ==
  /\ c \in mWaits /\ Unlocked(mAt[c])
  /\ mQueues' = [mQueues EXCEPT ![mAt[c]] = @ \ {c}]
  /\ mDue' = IF mQueues[mAt[c]] \subseteq {c} THEN mDue \union {mAt[c]} ELSE mDue
  /\ mAt' = [mAt EXCEPT ![c] = MuxNone]
  /\ mWaits' = mWaits \ {c} /\ mTold' = mTold \ {c}
  /\ UNCHANGED <<mState, mEntry, segVars>>

(****************************** a stream's life *****************************)
\* stop(force) of a running stream begins: from here to StopPops it holds its lock.
StopsWith(g, force) ==
  /\ mState[g] = "up" /\ (force \/ mQueues[g] = {})
  /\ mState' = [mState EXCEPT ![g] = "stopping"]
  /\ UNCHANGED <<mEntry, mQueues, mAt, mWaits, mTold, segVars>>

UpstreamEnds(g) == StopsWith(g, TRUE) /\ UNCHANGED mDue
CleanupStops(g) == mEntry = g /\ StopsWith(g, TRUE) /\ UNCHANGED mDue

\* _stop_if_unsubscribed looks and then stop() looks again.
StopIfUnsubscribed(g) ==
  /\ g \in mDue /\ Unlocked(g)
  /\ mDue' = mDue \ {g}
  /\ \/ StopsWith(g, FALSE)
     \/ /\ ~(mState[g] = "up" /\ mQueues[g] = {})
        /\ UNCHANGED <<mState, mEntry, mQueues, mAt, mWaits, mTold, segVars>>

\* The rest of stop(): the end goes to every queue that has room, and the entry
\* under the key is taken out.
StopPops(g) ==
  /\ mState[g] = "stopping"
  /\ \E full \in SUBSET mQueues[g] : mTold' = mTold \union (mQueues[g] \ full)
  /\ mQueues' = [mQueues EXCEPT ![g] = {}]
  /\ mEntry' = MuxNone
  /\ mState' = [mState EXCEPT ![g] = "dead"]
  /\ UNCHANGED <<mAt, mWaits, mDue, segVars>>

Collected(g) ==
  /\ mState[g] = "dead" /\ Forgotten(g) /\ g \notin mDue
  /\ mState' = [mState EXCEPT ![g] = "free"] /\ mQueues' = [mQueues EXCEPT ![g] = {}]
  /\ UNCHANGED <<mEntry, mAt, mWaits, mTold, mDue, segVars>>

(******************************** SegmentCache ******************************)
mainVars == <<mState, mEntry, mQueues, mAt, mWaits, mTold, mDue>>

SegmentExpires(s) ==
  /\ s \in segFresh
  /\ segFresh' = segFresh \ {s} /\ segStale' = segStale \union {s}
  /\ UNCHANGED mainVars

\* A fetched segment goes in: the expired go, then, at the limit, the one that
\* would expire first, be it the very one that is set.
SegmentSet(s) ==
  /\ \E out \in SUBSET segFresh :
       /\ Cardinality(out) = (IF Cardinality(segFresh) >= MaxSegments THEN 1 ELSE 0)
       /\ segFresh' = (segFresh \ out) \union {s}
  /\ segStale' = {}
  /\ UNCHANGED mainVars

SegmentsEvicted == segStale # {} /\ segStale' = {} /\ UNCHANGED <<segFresh, mainVars>>

MuxNext ==
  \/ \E c \in MuxClients : GetStream(c) \/ AddQueue(c) \/ RemoveQueue(c)
  \/ \E g \in MuxStreams : UpstreamEnds(g) \/ CleanupStops(g) \/ StopIfUnsubscribed(g)
                             \/ StopPops(g) \/ Collected(g)
  \/ \E s \in Segments : SegmentExpires(s) \/ SegmentSet(s)
  \/ SegmentsEvicted
MuxSpec == MuxInit /\ [][MuxNext]_muxVars

(******************************** properties ********************************)
\* "Only one upstream request is made regardless of the number of TIC clients"
\* (hls_multiplexer.py:349): whatever runs, or is still stopping, is the stream
\* under the key, though entries are taken out by key and not by stream.
RunningIsRegistered == \A g \in MuxStreams : mState[g] \in {"up", "stopping"} => mEntry = g

=============================================================================
