# Headendarr: TLA+ models, checks and proofs

Headendarr is one Python process (Quart on a single asyncio loop) that turns IPTV playlists, XC accounts and a
TVHeadend server into channels, a programme guide, recordings and a library of films and series. Its own streaming core
("CSO", the channel stream organiser, `backend/cso/`) shares one upstream connection among the viewers of a channel,
fails over between sources and keeps every account within its connection limit. This directory models the parts of it
where the order of things matters: tasks that interleave at their awaits, calls to other services that fail or lose their
answer, rows read before and written after somebody else's change, restarts.

Run a model with `tlc -config <cfg> <module>` and check a proof with `tlapm <module>.tla`. `PROJECT.json` lists every
component with its status, every run, every theorem, the source lines behind every definition, and every hazard with its
line. Paths below are relative to the repository; where only a file is named it is under `backend/`.

## 1. Inventory

| Component | State | Talks to | Hard behaviour | What makes it correct |
|---|---|---|---|---|
| capacity registry `cso/capacity.py` | slots per key and owner, polled external counts | every ingest, proxy, download and probe | owners compete; external connections appear after a grant | never more slots than the limit; no grant without room |
| live ingest `cso/live_ingest.py` | process, token, current source, failed and held-down sources, subscribers, lock | registry, ffmpeg, outputs, database | nine kinds of task over one lock, cancellation, a spawn awaited with the lock held, stops that wait outside it | the played source is reserved; a lost process is noticed; hunts end; viewers are told |
| live output, HLS output `cso/output.py`, `common.py`, `subscriptions_live.py` | encoder, clients, two locks, session map | ingest | starts, stops, pruning and cleanup overlap; the reader stops the session it belongs to; an HLS encoder restarts by itself | who watches has an encoder; locks come back |
| VOD cache and proxy `cso/vod_cache.py`, `vod_proxy.py` | entries, part files, one download per title | registry, provider | interrupted, short and restarted downloads, clients of other accounts, eviction while reading | a complete file is whole; a connection has a slot; readers wake |
| 24/7 channels' streams `cso/vod_ingest.py`, `segmented_handoff.py` | watchers, loop, prepared programme, lock | ffmpeg | stop() waits for a loop that may be waiting for its preparing task, or swallow its cancellation | stops finish; two lives never write one playlist |
| 24/7 channels' programmes `vod_channels.py` | rules, cached window | guide, players | rebuilt by several at once, from items that change | what was on at an instant stays on |
| from profile to ffmpeg `cso/policy.py`, `cso/ffmpeg.py`, `stream_profiles.py` | attempts with and without the GPU | host | retries in software | who starts a pipeline gets what was asked for |
| task queue `api/tasks.py`, `run.py` | priority queue, names, concurrent tasks, pause | every route and job | de-duplication while running | nothing asked for is lost; urgent first |
| recordings `dvr.py`, `api/routes_dvr.py` | the recordings table, TVHeadend's entries | TVHeadend, queue | two reconciliations at once, stale rows, lost answers | the sides converge; nothing unsynced is dropped |
| users `users.py`, `api/routes_users.py`, `tvheadend/tvh_requests.py` | rows, TVHeadend's access and password entries | TVHeadend, queue, OIDC logins | a request is several transactions; an entry is deleted and made anew by calls that fail; a login changes rights and asks for no sync | "synced" means synced |
| channels `channels.py`, `playlists.py` | sources, numbers, muxes, the publish signature | TVHeadend, queue | dialogs save what they opened with; publishes work from lists that are old | published and unpublished copies agree |
| guide `epgs.py` | programmes, lookup cache, the XMLTV file | metadata provider | import, enrichment and build are separate tasks and transactions | the file is that of the tables |
| VOD library `vod.py`, `scripts/sync_vod_library.py` | catalogue, curated categories, ids, folders | provider, a subprocess | a category is rebuilt from a catalogue that is replaced meanwhile; two clients list one series | outputs match; an id keeps its meaning |
| Plex `plex/` | tuners and DVRs in Plex | Plex | a periodic pass and one after a save overlap | the wanted tuners are there, and only they |
| HLS multiplexer `hls_multiplexer.py` | upstream streams by key, segment cache | viewers | lock order, a stop between get and join | what runs is registered |
| health checks `channel_stream_health.py`, `stream_diagnostics.py` | active checks | registry | check-then-reserve; two checks share an owner | a slot has a run that hands it in |
| stream activity `stream_activity.py` | sessions with expiry, file, audit log | routes, poller | starts, touches, stops and expiries in any order, restarts | a start is followed by a stop |
| rate limits, authentication, slate, recording profiles, settings, HTTP routes, interface | rows, windows of timestamps | | local to one request | not modelled (section 6) |

## 2. What is modelled

A task of the event loop runs from one await to the next; that is one step, and its program counter is named for the
await it stands at. `asyncio.Lock` is first in, first out. What a thread does is a step apart. A call to another service
may fail, or be carried out though its answer is lost. Data no property tells apart - a health verdict, which of several
equal candidates is tried - is a free choice.

**Connections and live streams**

* `ConnectionLimit` (abstract): grants per key, at most `Limit[k]`, handed out one at a time and returned in any number.
  `CsoCapacity` is the registry, one action per method, since a method holds its lock without awaiting. It implements
  `ConnectionLimit` with `held[k] <- Held(k)`; so do `VodCache` and `HealthCheck`, which extend it.
* `CsoIngest` (extends `CsoCapacity`): one ingest session, the outputs attached to it and the other owners of its accounts.
  `_start_best_source_unlocked` spawns with the lock held and therefore has steps of its own (`ChooseCandidate`,
  `SpawnFails`, `SpawnSucceeds`). A process is the number of its `process_token`; `attempt[t]` holds the locals of a start
  in task `t`; the reader's labels `read … check … switch … recover … choose … spawn … stop … eof` are the awaits of
  `_read_loop`, `_switch_source_after_failure` and `stop`. A source of `HandoffSources` (an HLS playlist, `policy.py` 147)
  is not read by the session: its ffmpeg writes segments into a directory, `handoff` names its process, no reader and no
  health loop is made for it, and outputs hold a reference instead of a queue (`references`).
* `CsoOutput`: the output sessions of one key with `lock` and `lifecycle_lock`, the session map and its cleanup. The ingest
  is always up there; `CsoIngest` has its failures. The one circle of waiting the code has - a stop() that waits, with
  `lifecycle_lock`, for a reader which it cancelled in its read and which calls stop() itself - is a state of the model, named
  `Stuck`. `CsoHls`: the HLS output, whose clients are those that asked lately, with its restarts and overlapping stops. Its
  encoder may end at any time; one whose ingest queue was taken away does not end on that account, since nobody sends the
  queue an end. Of overlapping wait loops the model has one: a wait loop that finds a restarted session counts as the new one's.
* `StreamStart`: which profile is granted, the policy it stands for, the commands of each stage and the attempts with
  and without the GPU.

**On demand**

* `VodCache` (extends `CsoCapacity`): one title that several accounts offer, each in a file of its own size. Entries, files
  as inodes with their chunks, the download with its retries, sessions that read the file, tail it, go upstream and switch,
  eviction, a restart of the program. `get_or_create` gives the entry the account of whoever comes last, a running download
  goes on under it, and its slot is looked for there; a download that cannot make its directory keeps its slot. The history
  variable `raced` names these when they happen: `"account"`, `"directory"`, and `"eviction"` for a client that comes while the
  title is evicted.
* `VodPlayback`: from a request for a title to its first byte: providers in order, accounts, the cached copy, capacity. The
  candidates are a set, of which the one that leads in the order of the rows is next.
* `VodLibrary`: import, curated categories and the export subprocess; `lost` is what a run could not get the episodes of and
  left out. `VodEpisodes`: the episodes of one series, rebuilt
  for every client that lists it, and the ids they were told.
* `VodChannel`: `Vod247ChannelManager`, its watchers, loop and preparing task, and the ffmpegs that a failure or a cancelled
  preparation leaves running. `VodSchedule`: the programme of such a
  channel, instant by instant.

**Television**

* `ChannelSources`: sources, imports, the automatic refresh, an edit dialog. The rows an update makes are a function of the
  places in its payload (`RowPlaces`), so that what it keeps, creates and drops is said of sets. `ChannelLineup`: numbers, the publish task,
  the bulk addition that publishes from its request. `ChannelMuxes`: `publish_channel_muxes` with its cached list.
* `Guide`: imports by batch, enrichment, build. `GuideLookup`: the scan of the metadata provider, one lookup for all programmes
  of a hash, decided by one of them, with TMDB, Google's pictures or both switched on (`sources`).
* `PlexTuners`: a pass over one Plex server, step by step, two of which may overlap; addresses carry a streaming key, which
  users rotate (`KeyOf`).

**Services**

* `TaskQueue`: `TaskQueueBroker`. The queue is the sequence in which it will be drained; tasks may share a name, by which they
  are told apart; the history variable `owed` holds the serial tasks asked for since one of their name last began. `DvrSync` (extends `TaskQueue`): the recordings table, TVHeadend's entries
  and two instances of `reconcile_tvh_recordings`. A commit writes the attributes that differ from what was loaded and
  fails as a whole on a row that has gone, as a SQLAlchemy session with `expire_on_commit=False` does (`models.py:28`).
* `TvhUsers`: the administration's requests by transaction, logins through OIDC as far as they write a user's row, the sync
  task call by call, TVHeadend's entries.
* `HealthCheck` (extends `CsoCapacity`), `HlsMux`, `StreamActivity`.

Operators named `X_<What>` are not part of a specification: each is a plausible mistake in `X`, defined before it, that
the property it belongs to notices.

## 3. What the runs show

Components that share nothing are explored side by side in one run: a variable (`part`, `service`, `study`) fixed by the
initial state says which one moves. This is a union, not a product, of their state spaces.

| Run | Module | Checks | Bounds |
|---|---|---|---|
| `ingest` | `MCIngestStudies` | `FirstLifeIsClean`, `ReaderWatches`, `RunningIsServed`, `FailoverTriesOthersFirst` | one account with one connection; a life with 2 sources, one of them handed over in segments, and a competitor, or 2 lives with 1 source and cancelled requests; 2 processes |
| `ingest_live` | `MCIngestStudies` | `HuntEnds`, `WaitersGetTheLock`, `ViewersAreTold` | 1 source, 1 life, both failover modes, cancellation, database errors |
| `output` | `MCOutput` | `ClientsHaveEncoder`, `LocksAreReleased`, `PictureComes` | 2 viewers, 1 session object that may be mapped again, encoder that needs 2 chunks |
| `vod` | `MCVod` | `CompleteIsWhole`, `ConnectionsAreHeld`, `NobodySpins`, `WaitersWake` | a title of 2 chunks at one account and 1 at the other; 2 clients of one or 1 of each; 2 entries, 2 attempts, 1 restart, another owner; 2 connections and 1 |
| `services` | `MCServices` | `LivesTakeTurns`, `OwedIsQueued`, `ViewersGoOn`, `StopsFinish`, `UrgentIsServed` | 2 HLS clients and 2 stops; a 24/7 channel of 2 viewers, 2 lives (`ChannelBudget`); 3 serial kinds of 2 priorities, 2 of them of one name, 2 concurrent ones with one key |
| `channels` | `MCChannels` | `RefreshedIsCurrent`, `SkipIsSafe`, `MovesKeepNumbers`, `MuxesMatch`, `GuideMatches`, `TunersMatch`, `ScheduleIsStable` | 2 playlists, one of which drops its stream in the end; 2 channels, 2 edits, 1 failure; 2 channels with a feed each; 1 guide, 2 edits, 1 failure; 2 tuners at 2 addresses (`PlexBudget`); a film and a series over two days |
| `library` | `MCLibrary` | `RunningIsRegistered`, `HealthSlotsHaveRuns`, `OpenIsTracked`, `SyncedUsersMatch`, `NoMatchIsEarned`, `SoftwareIsTried`, `AskedIsPlayed`, `EpisodeIdsHold`, `NoNeedlessRefusal`, `ImplementsLimiter`, `LibraryMatches` | 2 checks and a competitor; 3 streams and 2 clients; 3 items in 2 categories; 2 clients of a series; 2 requests for a title with 3 accounts; 1 connection over 1 restart; 1 user with 2 requests and logins; 4 programmes of 3 titles, 2 of which share a hash; 8 wishes on 4 hosts |
| `dvr` | `MCDvr` | `UnsyncedRowsSurvive`, `Converges` | 1 recording at the start, 2 events, 2 reconciliations |

The remaining runs each violate what a document or comment of the repository says; `PROJECT.json` quotes it.

| Run | Violated | What happens |
|---|---|---|
| `ingest_orphan` | `CurrentIsReserved` | a hunt that survives a stop and a start replaces the new life's process and gives its slot away while playing |
| `ingest_leak` | `SlotsReturned` | the last viewer leaves between the reader's two locked stretches: the session is down with its connection reserved |
| `dvr_deleted` | `DeletedStaysDeleted` | a run's commit writes TVHeadend's state over a deletion made after it loaded the row |
| `plex_dvr_lost` | `DvrIsKept` | two passes with different settings remove each other's tuner, and with the last the DVR |

*Bounds.* `MaxProcess` bounds spawns that succeed: two suffice for a failover with its predecessor still alive.
`FirstLifeIsClean` speaks of the first life, because a second breaks what it says (`ingest_orphan`). Edits, failures and
restarts are bounded one by one; the `...Budget` operators of the MC modules bound them together where two of a kind and a
failure at once pass the time kept for a run: two Plex passes overlap only where at most two things
change or fail (one where the owner has a tuner of his own there), viewers of a 24/7 channel
do not watch together in its last life, muxes and users see two events. Everything proved in section 4 holds without these
bounds. `NotBeyondRaced` looks at the states in which a client came while its title was evicted and does not go on from
them: the code makes no promise there that could be kept. Everything else that a property excepts is in the states explored, and the
exception is in the property, by name. `SYMMETRY` is used in two runs that check no liveness, over values no `CHOOSE` depends on.

*Fairness.* What can run on the event loop does run; a lock that is released again and again is got in the end (locks are
first in, first out, hence strong fairness of steps that need one); a process that was signalled exits (`terminate` is
followed by `kill`); the idle cleanup comes round; a start of an HLS encoder ends in time; the retry window of a hunt closes (a deadline in wall-clock time). Of the network only this is
assumed: a chunk that can arrive again and again does arrive, until attempts are used up; probes and encoders answer or
fail. Nobody promises that viewers come or leave, that processes end on their own, or that competitors release anything.
`TaskQueue` and `DvrSync`: the scheduler ticks for ever and tasks end; the latter is an assumption, nothing in the code
bounds a task. `UrgentIsServed` and `Converges` carry their own conditions, or rest on the bound of events, i.e. on users
and network leaving the system alone from some moment on; without that they are false, and should be.

## 4. What is proved

Each theorem holds for every value of the constants that the named assumptions allow: finite sets of owners and slots and
limits in `Nat` (`CapacityAssumption`), special values that are no members of the sets they stand beside
(`UnnamedAssumption`, `GuidesAssumption`, `FeedsAssumption`, `ChannelAssumption`, ...), finite catalogues
(`ItemsAssumption`), tables with the domain they are
indexed by; the `Manual` source is no playlist and accounts are a list (`PlaylistsAreNamed`, `AccountsAreListed`), upstream
rows belong to playlists (`RowsArePlayed`), `""` is no account (`AccountsAreNamed`), and lengths and instants are whole
seconds (`LengthsAreDigits`, `InstantsAreSeconds`). None restricts what the code may be configured to. The bounds on counters are arbitrary numbers in the proofs.

| Module | Theorem | Property | Inductive invariant and argument |
|---|---|---|---|
| `CsoCapacity_proofs` | `CapacityTypeCorrect`, `LimitNeverExceeded`, `GrantsRespectExternal`, `RegistryIsALimiter` | `ReservationsWithinLimit`, `GrantsLeaveRoomForExternal`, `ImplementsLimiter` | the limit with the ledger's type; the work is the cardinality of `Held(k)` with a slot added or taken |
| `CsoIngest_proofs` | `IngestTypeCorrect`, `ProcessAlwaysWatched`, `SessionWithinLimit` | `ReaderWatches` | `IInv`: no reader of a process not yet spawned, no process above the token, what a task holds at its label; a process without a reader is one that hands over segments. The limit holds because every step is one of the registry's (`LedgerStep`) |
| | `SessionIsServed` | `RunningIsServed` | under `~DbMayFail`: a reader that dies with a database error leaves `running` set, which TLC shows |
| | `FirstLifeClean` | `FirstLifeIsClean` | `LifeInv`: who has an attempt has the lock and what it tried is reserved; in the first life the duty to stop a session nobody serves passes from a start to its reader, and from a reader to the next, and is never dropped |
| | `FailoversTryOthersFirst` | action property | what a hunt has tried and passed over is in the failed set it reads |
| `CsoOutput_proofs` | `OutputTypeCorrect`, `ViewersAreServed` | `ClientsHaveEncoder` | `OutInv`: the lock is held by who stands between taking it and giving it back; a start finds a quiet session, who joins a running one, and both still do when they come to write; a session with clients has an encoder or a stop that will tell them |
| `VodCache_proofs` | `VodTypeCorrect`, `ConnectionsHeld`, `TitleWithinLimit`, `TitleImplementsLimiter` | `ConnectionsAreHeld`, `ImplementsLimiter` | `LedgerInv`: a session has the slot of the connection it reads or is about to open, and that of the one download it started, while it runs (`CacheSlots`); the entry's account is the download's (`SourceHolds`) until a client of another comes |
| | `CompleteFilesAreWhole`, `NoReaderSpins` | `CompleteIsWhole`, `NobodySpins` | `TitleInv`: there is one entry per title; a part file is in order and a final file as long as was promised; what the entry says is there, is; until a client comes during an eviction. `AccountInv`: and all of a file is one account's, until a client of another comes before it is complete |
| | `LivesAlternate` | `LivesTakeTurns` | `TurnsInv` (of `VodChannel`): a loop not at its end is that of the life that is on, or the one stop() waits for (`OneGoes`); who stops holds the lock and the channel is off (`StopHolds`); a life that has told its viewers closed what it played before it builds (`ToldAfterClose`) |
| `HealthCheck_proofs` | `HealthTypeCorrect`, `HealthSlotsAreUsed`, `HealthImplementsLimiter` | `HealthSlotsHaveRuns`, `ImplementsLimiter` | `HealthInv`: checks only ever hold their source's own slot |
| `DvrSync_proofs` | `QueueTypeCorrect`, `NamesAgree`, `RequestsKept`, `PauseIsKept` | `OwedIsQueued` | `QInv`; `RequestsKept` says that one of the name is queued, for names are what the broker tells tasks apart by, and two guides may be named alike |
| | `DvrTypeCorrect`, `UnsyncedSurvive` | `UnsyncedRowsSurvive` | `RInv` relates what each run loaded to the table now: an entry once written to a row is never lost from it, a run drops only rows asked for or with an entry when loaded; `RunKept` carries this past whatever others do |
| `Library_proofs` | `OneUpstream` | `RunningIsRegistered` | `MuxInv` |
| | `EpisodeIdsStay`, `IdsAreNeverReused` | `EpisodeIdsHold` | `EpisodesInv`: what a request was answered is cached until it is over, and the cache names nothing a source dropped, unless in doubt; `IdsInv`: an id said for one key was never said for another |
| | `NoMatchIsTheProviders` | `NoMatchIsEarned` | `ScanInv`: what a lookup has heard is what the provider knows of the queries its programme, the first of its hash, may make, once none was given up and the key not refused |
| | `StartsAreTracked` | `OpenIsTracked` | `ActivityInv` |
| | `SoftwareComesBeforeFailure`, `StartersGetTheirs` | `SoftwareIsTried`, `AskedIsPlayed` | `StartInv`: the command in hand is one that the policy and the retry so far give |
| | `UsersAreSynced` | `SyncedUsersMatch` | `UsersInv`, below |
| | `LibraryIsCurrent` | `LibraryMatches` | `LibInv`: an id names one title of one category; while a run is undisturbed, the tables of the categories it is done with are what their upstream categories give, its outputs have these but for what it lost, and its clean-up is for these |
| | `NobodyIsTurnedAway` | `NoNeedlessRefusal` | `PlaybackInv`: a row that could serve all along is still to be considered or among the candidates with an account of its own (`NotPassedOver`); a request that could be played a copy all along has a candidate to play it under and does not go on to choose a provider (`CopyNotMissed`) |
| `Channels_proofs` | `SkipsAreSafe` | `SkipIsSafe` | `LineupInv`: the copies a publish has made, those a bulk addition has named, and the signature all mean channels that are in TVHeadend |
| | `MuxesAreTheirs` | `MuxesMatch` | `MuxInv`: a mux once bound to a channel or feed stays bound; what the list in hand misses, the publish itself made |
| | `GuideIsBuilt` | `GuideMatches` | `GuideInv`: whatever the file misses, a task that will bring it is queued or under way |
| | `TunersAreReconciled` | `TunersMatch` | `TunersInv`: a key is one tuner's; a calm pass is the only one; the tuners it is done with are served, the one in hand is in Plex as the pass read it or has put it since, and it sweeps unwanted managed tuners of its key only |
| | `NumbersStayApart` | action property `MovesKeepNumbers` | `NumbersOK` with `LineupInv`: numbers are integers and every row has its fields; then what lies between is shifted one to one, what is put in gets the number made free, and a page that orders all channels hands out its own numbers. The page that orders a part of them is the exception the property names |
| | `RebuildsMoveNothing` | `ScheduleIsStable` | `ScheduleInv`: a schedule, and the copy a reader has of it, was made from an order for some instant (`Made`); each programme of such a one lies at a whole number of cycles plus the offset of its entry (`Airs`), whichever window it was made for, and two that overlap have then the same cycle and entry |
| | `SourcesFollowImports` | action property `RefreshedIsCurrent` | `SourcesInv`: an id stands for one stream of one playlist wherever it is remembered - in the table, in the payload of a refresh, in an open dialog - and a refresh under way has something to refresh; what a dialog saves between the halves of a refresh may then cost or add rows but not pass one row's address to another |

*`UsersInv`*, as an example of why the strengthening is needed. `SyncedUsersMatch` speaks of users at rest; a step that
brings one to rest must already know what TVHeadend has. So the invariant calls a row *pending* while a request that
changed it, a queued sync or one that has not read it is on its way, or the request was dropped (`behind`), and says:
what the sync under way has read is the row, unless the row is pending, or the row but for its rights if a login came since (`SeenIsRow`); how much of that TVHeadend has got is a
function of the call the sync is at (`Progress`); nobody is called synced while his sync is running (`NoneTooEarly`); and
who is called synced and is not pending has what his row says (`SyncedHold`). `RequestKept` then carries all of it past any
step of a request, `BusyKept` past any call of the sync, `TaskKept` past the task's own steps; an action has only to say
what it changes.

*Weaknesses of the code, stated and not hidden.* Each of these is in the model, happens in its runs, and is excepted by name in the
property it touches:

* `SkipIsSafe` excepts what follows a publish that failed while it deleted, or a bulk addition that stored the uuid of a copy
  deleted meanwhile (`shaken`): a forced publish queued behind an unforced one is dropped as its duplicate, and later unforced
  ones may then skip while a channel is missing.
* `CompleteIsWhole` and `ConnectionsAreHeld` except what `raced` names: a file put together of two accounts' chunks, a slot
  looked for under the wrong account or kept after a directory could not be made, a client during an eviction.
* `LocksAreReleased` and `PictureComes` except the sessions that are `Stuck`.
* `ReaderWatches` and `ViewersAreTold` except a process that hands over segments: its end is left to the outputs.
* `SyncedUsersMatch` excepts the rights, not the key, of users whom a login changed since their sync (`relogged`).
* `LibraryMatches` excepts series whose episodes the run could not get, and `TunersMatch` tuners made with an older streaming key.
* `NoMatchIsEarned` asks nothing of scans with TMDB switched off, and lets a picture stand for an answer after the key was refused.

No property speaks of: ffmpegs left running by a cancelled or failed preparation of a 24/7 channel; the slot of a request
cancelled while it spawned, which the session's next stop() returns; a starved HLS encoder, which stays until its clients leave.

*Sums, orders, selections.* Several properties rest on what the code computes with loops. Where the loop only selects or
orders, the model says which elements are taken and which comes before which (`Ahead`, `Leading`, `Precedes`). Where it
adds up (the offsets of a schedule), what holds of every place is proved of the least place that would fail
(`LeastOfNaturals`).

*Only model-checked, and why.* Every invariant and every action property of the passing runs is stated by a theorem. Left are

* Liveness - `HuntEnds`, `WaitersGetTheLock`, `ViewersAreTold`, `WaitersWake`, `LocksAreReleased`, `PictureComes`,
  `ViewersGoOn`, `StopsFinish`, `UrgentIsServed`, `Converges`: the prover has no rules for fairness or `ENABLED`.
* The violated properties, of course.

## 5. Assumptions about what is not in the repository

`external` entries of `PROJECT.json`: what providers, users, TVHeadend and Plex do. TVHeadend keeps what it was told,
answers with what it has, may lose calls and answers, and makes channels of services by itself; Plex drops a DVR with its
last tuner; a provider's account refuses connections over its limit; ffmpeg exits when signalled and may exit at any time.

## 6. What is not modelled

Text: playlists, XMLTV, ffmpeg options no codec or container depends on, HLS manifests, `.strm` and `.nfo` files, logos, tags. Wall-clock
time, but for the schedule: a timeout is a step that may happen. Bytes, and with them the drop-oldest byte queue, the join
history and prebuffers. The slate (it feeds a placeholder and decides nothing). Authentication (but for what an OIDC login writes to a user), and the two rate
limiters, which are sliding windows inside one method each. Recording profiles and recurring rules (`dvr.py` 183-315).
Settings, schema, most HTTP handlers (thin; those that decide something are mapped in the module of their component), the
interface, packaging. In `api/tasks.py`: `get_next_task` and anonymous concurrent tasks, which nobody calls.

## 7. Plan

The order was: the registry and the sessions that hold its slots, then what persists (recordings, users, channels, guide,
library), then the rest. What is left: recurring recording rules that create rows while users delete them; the rate
limiters at the edge of their windows.
