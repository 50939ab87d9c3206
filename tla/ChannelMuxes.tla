----------------------------- MODULE ChannelMuxes ----------------------------
(* The muxes TVHeadend plays channels from (backend/channels.py,             *)
(* publish_channel_muxes): one per source, or one per channel whose sources   *)
(* the stream organiser picks from.  A publish treats them all at once, works *)
(* from a list of muxes that may be 30 seconds old, and ends by deleting what *)
(* it did not write itself.                                                   *)
EXTENDS Integers, FiniteSets

CONSTANTS
    MuxedChannels,
    Feeds,              \* the rows of channel_sources
    FeedOf,             \* the channel of each
    Placeholder,        \* the name of a mux that was created but not written
    MaxMuxes,           \* bound: muxes ever created
    MaxMuxEdits,        \* bound: edits of channels and playlists
    MaxMuxFails         \* bound: calls to TVHeadend that fail

ASSUME FeedsAssumption ==
    /\ FeedOf \in [Feeds -> MuxedChannels]
    /\ Feeds \intersect MuxedChannels = {}
    /\ Placeholder \notin Feeds \union MuxedChannels

VARIABLES
    modes,      \* how a channel is played: "off", "direct" or "cso"
    feedOn,     \* the sources whose playlist is enabled
    feedMux,    \* the uuid stored with each source
    muxes,      \* TVHeadend's muxes: a uuid to its name
    nextMux,
    muxCache,   \* the list of muxes kept for 30 seconds, or NoList
    muxJob,     \* the publish under way
    muxEdits, muxFails
tvhMuxVars == <<modes, feedOn, feedMux, muxes, nextMux, muxCache, muxJob, muxEdits, muxFails>>
configVars == <<modes, feedOn, feedMux, muxEdits>>

NoMux == 0
NoList == [fresh |-> FALSE, list |-> <<>>]
NoMuxJob == [step |-> "idle"]

MuxesInit ==
    /\ modes \in [MuxedChannels -> {"direct", "cso"}]
    /\ feedOn = Feeds
    /\ feedMux = [f \in Feeds |-> NoMux]
    /\ muxes = <<>> /\ nextMux = 1
    /\ muxCache = NoList /\ muxJob = NoMuxJob
    /\ muxEdits = 0 /\ muxFails = 0
-----------------------------------------------------------------------------
(* Edits, and the clock *)

MuxEdit ==
    /\ muxEdits < MaxMuxEdits /\ muxEdits' = muxEdits + 1
    /\ UNCHANGED <<muxes, nextMux, muxCache, muxJob, muxFails>>

SetMode(c, mode) ==
    MuxEdit /\ modes' = [modes EXCEPT ![c] = mode] /\ UNCHANGED <<feedOn, feedMux>>

TogglePlaylist(f) ==
    /\ MuxEdit
    /\ feedOn' = IF f \in feedOn THEN feedOn \ {f} ELSE feedOn \union {f}
    /\ UNCHANGED <<modes, feedMux>>

\* A source is taken out of its channel and put in again: a new row.
ReplaceFeed(f) == MuxEdit /\ feedMux' = [feedMux EXCEPT ![f] = NoMux] /\ UNCHANGED <<modes, feedOn>>

CacheExpires ==
    /\ muxCache.fresh /\ muxCache' = NoList
    /\ UNCHANGED <<configVars, muxes, nextMux, muxJob, muxFails>>
-----------------------------------------------------------------------------
(* The publish *)

Direct(rows) == {f \in Feeds : rows[FeedOf[f]] = "direct"}
Organised(rows) == {c \in MuxedChannels : rows[c] = "cso"}

StartsMuxes ==
    /\ muxJob.step = "idle"
    /\ LET list == IF muxCache.fresh THEN muxCache.list ELSE muxes
       IN  /\ muxCache' = [fresh |-> TRUE, list |-> list]
           /\ muxJob' = [step |-> "write", rows |-> modes, on |-> feedOn, uuids |-> feedMux,
                         list |-> list, current |-> list = muxes, failed |-> FALSE, managed |-> {},
                         made |-> [x \in Direct(modes) \union Organised(modes) |-> NoMux],
                         todo |-> Direct(modes) \union Organised(modes)]
    /\ UNCHANGED <<configVars, muxes, nextMux, muxFails>>

\* Altered: a stored uuid is trusted.
Known_Stored(x) ==
    IF x \in Feeds THEN {muxJob.uuids[x]} \ {NoMux}
    ELSE {u \in DOMAIN muxJob.list : muxJob.list[u] = x}
\* The mux a source or channel has by the list: that of the stored uuid, or
\* that of the channel's name.
Known(x) ==
    IF x \in Feeds THEN {muxJob.uuids[x]} \intersect DOMAIN muxJob.list
    ELSE {u \in DOMAIN muxJob.list : muxJob.list[u] = x}

\* Nothing to do: the playlist is disabled, or no source of the channel is
\* left.  A source then forgets its mux.
Idle(x) == IF x \in Feeds THEN x \notin muxJob.on ELSE \A f \in muxJob.on : FeedOf[f] # x

PassesOver(x) ==
    /\ muxJob.step = "write" /\ x \in muxJob.todo /\ Idle(x)
    /\ muxJob' = [muxJob EXCEPT !.todo = @ \ {x}, !.uuids =
                    [f \in Feeds |-> IF f = x THEN NoMux ELSE @[f]]]
    /\ UNCHANGED <<configVars, muxes, nextMux, muxCache, muxFails>>

CreatesMux(x) ==
    /\ muxJob.step = "write" /\ x \in muxJob.todo /\ ~Idle(x)
    /\ Known(x) = {} /\ muxJob.made[x] = NoMux /\ nextMux <= MaxMuxes
    /\ muxes' = [u \in DOMAIN muxes \union {nextMux} |->
                    IF u = nextMux THEN Placeholder ELSE muxes[u]]
    /\ nextMux' = nextMux + 1
    /\ muxJob' = [muxJob EXCEPT !.made[x] = nextMux]
    /\ UNCHANGED <<configVars, muxCache, muxFails>>

\* The mux is written: it stays and, for a source, its uuid is kept.
WritesMux(x) ==
    /\ muxJob.step = "write" /\ x \in muxJob.todo /\ ~Idle(x)
    /\ \E u \in IF muxJob.made[x] # NoMux THEN {muxJob.made[x]} ELSE Known(x) :
         /\ muxes' = [v \in DOMAIN muxes |-> IF v = u THEN x ELSE muxes[v]]
         /\ muxJob' = [muxJob EXCEPT !.todo = @ \ {x}, !.managed = @ \union {u}, !.uuids =
                         [f \in Feeds |-> IF f = x THEN u ELSE @[f]]]
    /\ UNCHANGED <<configVars, nextMux, muxCache, muxFails>>

\* A call for it fails: it is logged and the others go on.
MuxCallFails(x) ==
    /\ muxJob.step = "write" /\ x \in muxJob.todo /\ ~Idle(x)
    /\ muxFails < MaxMuxFails /\ muxFails' = muxFails + 1
    /\ muxJob' = [muxJob EXCEPT !.todo = @ \ {x}, !.failed = TRUE]
    /\ UNCHANGED <<configVars, muxes, nextMux, muxCache>>

\* The rows get the uuids as they are in memory, whatever was stored since;
\* those of an organised channel get none.
CommitsMuxes ==
    /\ muxJob.step = "write" /\ muxJob.todo = {}
    /\ feedMux' = [f \in Feeds |->
          IF DOMAIN muxJob.made = {} THEN feedMux[f]
          ELSE IF muxJob.rows[FeedOf[f]] = "cso" THEN NoMux ELSE muxJob.uuids[f]]
    /\ muxJob' = [muxJob EXCEPT !.step = "clean"]
    /\ UNCHANGED <<modes, feedOn, muxEdits, muxes, nextMux, muxCache, muxFails>>

\* Every mux of ours that this publish did not write is deleted, by a list read
\* now; a deletion that fails is left.
CleansMuxes ==
    /\ muxJob.step = "clean"
    /\ \E left \in SUBSET (DOMAIN muxes \ muxJob.managed) :
         /\ Cardinality(left) <= MaxMuxFails - muxFails
         /\ muxFails' = muxFails + Cardinality(left)
         /\ muxes' = [u \in DOMAIN muxes \intersect (muxJob.managed \union left) |-> muxes[u]]
    /\ muxJob' = NoMuxJob
    /\ UNCHANGED <<configVars, nextMux, muxCache>>

MuxesNext ==
    \/ \E c \in MuxedChannels, mode \in {"off", "direct", "cso"} : SetMode(c, mode)
    \/ \E f \in Feeds : TogglePlaylist(f) \/ ReplaceFeed(f)
    \/ CacheExpires \/ StartsMuxes \/ CommitsMuxes \/ CleansMuxes
    \/ \E x \in Feeds \union MuxedChannels :
         PassesOver(x) \/ CreatesMux(x) \/ WritesMux(x) \/ MuxCallFails(x)
-----------------------------------------------------------------------------
(* Properties *)

\* A publish whose calls all succeeded, that worked from the current list and
\* met no edit leaves exactly the muxes of the channels as they are, each known
\* by its row, whatever failed publishes and deleted rows left behind before.
Undisturbed ==
    /\ ~muxJob.failed /\ muxFails' = muxFails /\ muxJob.current
    /\ muxJob.rows = modes /\ muxJob.on = feedOn
    /\ \A f \in Direct(modes) : feedMux[f] = muxJob.uuids[f]
MuxesMatch ==
    [][CleansMuxes /\ Undisturbed =>
        /\ \A f \in Direct(modes) \intersect feedOn :
              feedMux[f] \in DOMAIN muxes' /\ muxes'[feedMux[f]] = f
        /\ \A c \in Organised(modes) : (\E f \in feedOn : FeedOf[f] = c) =>
              \E u \in DOMAIN muxes' : muxes'[u] = c
        /\ \A u, v \in DOMAIN muxes' : muxes'[u] = muxes'[v] => u = v
        /\ \A u \in DOMAIN muxes' : muxes'[u] \in Direct(modes) \union Organised(modes)]_tvhMuxVars
=============================================================================
