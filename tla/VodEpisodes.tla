------------------------------ MODULE VodEpisodes ------------------------------
(* The episodes of one curated series (backend/vod.py).  A client that asks    *)
(* for the series has it listed anew from every provider that has it, by way of *)
(* the metadata cache, and the table of episodes is brought into line with the *)
(* answers.  The ids a client was given are what it plays by ever after.       *)
EXTENDS Integers, FiniteSets, Sequences, SequencesExt

CONSTANTS
    EpClients,
    LinkOrder,      \* the providers' entries of the series, in the order of their links
    EpisodeKeys,    \* _episode_dedupe_key: what makes two entries one episode
    Uncached,
    MaxEpTurns      \* bound: changes upstream, failures and expiries

EpSources == Range(LinkOrder)

ASSUME EpisodesAssumption ==
    /\ LinkOrder \in Seq(EpSources)
    /\ IsFiniteSet(EpisodeKeys) /\ \A K \in SUBSET EpisodeKeys : K # Uncached

VARIABLES
    catalogue,      \* upstream: the episodes each source names
    metadata,       \* xc_vod_metadata_cache: what a source named, or Uncached
    epRows,         \* vod_category_episodes: the id of each key there is a row for
    epIds,          \* the last id the table gave
    askers,         \* what each client's request does
    listings,       \* the ids each client was last given
    doubtful,       \* history: what a source dropped, withheld, or changed during a request
    epTurns

episodeVars == <<catalogue, metadata, epRows, epIds, askers, listings, doubtful, epTurns>>

NoEpisodes == [k \in {} |-> 0]
NoRequest == [at |-> "rest", left |-> <<>>, got |-> NoEpisodes, found |-> NoEpisodes]

EpisodesInit ==
    /\ catalogue \in [EpSources -> SUBSET EpisodeKeys]
    /\ metadata = [s \in EpSources |-> Uncached]
    /\ epRows = NoEpisodes /\ epIds = 0
    /\ askers = [c \in EpClients |-> NoRequest]
    /\ listings = [c \in EpClients |-> NoEpisodes]
    /\ doubtful = {} /\ epTurns = 0

EpTurn == epTurns < MaxEpTurns /\ epTurns' = epTurns + 1
Asking == {c \in EpClients : askers[c].at # "rest"}
-----------------------------------------------------------------------------
(* The request: the sources are asked one after another *)

SeriesAsked(c) ==
    /\ askers[c].at = "rest"
    /\ askers' = [askers EXCEPT ![c] = [NoRequest EXCEPT !.at = "fetch", !.left = LinkOrder]]
    /\ UNCHANGED <<catalogue, metadata, epRows, epIds, listings, doubtful, epTurns>>

Joined(f, g) == [x \in DOMAIN f \union DOMAIN g |-> IF x \in DOMAIN f THEN f[x] ELSE g[x]]
WithAnswer(got, s, keys) == Joined(got, [x \in {s} |-> keys])

Fetching(c, s) == askers[c].at = "fetch" /\ askers[c].left # <<>> /\ s = Head(askers[c].left)
SourceAnswers(c, s, keys) == askers' = [askers EXCEPT ![c].left = Tail(@), ![c].got = WithAnswer(@, s, keys)]

\* What is cached is not asked for again.
MetadataServes(c, s) ==
    /\ Fetching(c, s) /\ metadata[s] # Uncached
    /\ SourceAnswers(c, s, metadata[s])
    /\ UNCHANGED <<catalogue, metadata, epRows, epIds, listings, doubtful, epTurns>>

ProviderServes(c, s) ==
    /\ Fetching(c, s) /\ metadata[s] = Uncached
    /\ SourceAnswers(c, s, catalogue[s])
    /\ metadata' = [metadata EXCEPT ![s] = catalogue[s]]
    /\ UNCHANGED <<catalogue, epRows, epIds, listings, doubtful, epTurns>>

\* After its retries a source is passed over.
ProviderFails(c, s) ==
    /\ Fetching(c, s) /\ metadata[s] = Uncached /\ EpTurn
    /\ askers' = [askers EXCEPT ![c].left = Tail(@)]
    /\ doubtful' = doubtful \union catalogue[s]
    /\ UNCHANGED <<catalogue, metadata, epRows, epIds, listings>>
-----------------------------------------------------------------------------
(* The transaction: it reads the rows there are, and brings them into line *)

\* Without any answer there is none, and the client is told of no series.
RebuildBegins(c) ==
    /\ askers[c].at = "fetch" /\ askers[c].left = <<>>
    /\ askers' = [askers EXCEPT ![c] =
           IF DOMAIN @.got = {} THEN NoRequest ELSE [@ EXCEPT !.at = "write", !.found = epRows]]
    /\ UNCHANGED <<catalogue, metadata, epRows, epIds, listings, doubtful, epTurns>>

NamedNow(c) == UNION Range(askers[c].got)
Added(c) == SetToSeq(NamedNow(c) \ DOMAIN askers[c].found)

\* A key that has a row keeps it; the others get the next ids.
Ids_Anew(c) ==   \* Altered: the rows are written anew
    LET all == SetToSeq(NamedNow(c)) IN [k \in NamedNow(c) |-> epIds + SelectInSeq(all, LAMBDA j : j = k)]
Ids(c) ==
    [k \in NamedNow(c) |-> IF k \in DOMAIN askers[c].found THEN askers[c].found[k]
                        ELSE epIds + SelectInSeq(Added(c), LAMBDA j : j = k)]

\* The rows it found and no source names now are removed; a row written since it
\* looked is not among them.
Pruned(c) == DOMAIN askers[c].found \ NamedNow(c)

\* A row inserted, or gone, since it looked breaks a constraint.
IdIn(rows, k) == IF k \in DOMAIN rows THEN rows[k] ELSE 0
Clash(c) == \E k \in NamedNow(c) : IdIn(epRows, k) # IdIn(askers[c].found, k)

RebuildCommits(c) ==
    /\ askers[c].at = "write" /\ ~Clash(c)
    /\ LET kept == {k \in DOMAIN epRows : ~(k \in Pruned(c) /\ epRows[k] = askers[c].found[k])}
       IN epRows' = Joined(Ids(c), [k \in kept |-> epRows[k]])
    /\ epIds' = epIds + Len(Added(c))
    /\ listings' = [listings EXCEPT ![c] = Ids(c)]
    /\ askers' = [askers EXCEPT ![c] = NoRequest]
    /\ UNCHANGED <<catalogue, metadata, doubtful, epTurns>>

\* It is rolled back, and the request fails.
RebuildFails(c) ==
    /\ askers[c].at = "write"
    /\ askers' = [askers EXCEPT ![c] = NoRequest]
    /\ UNCHANGED <<catalogue, metadata, epRows, epIds, listings, doubtful, epTurns>>
-----------------------------------------------------------------------------
(* Upstream and the cache *)

\* Seven days after it was last read, so never between two reads of one rebuild.
MetadataExpires(s) ==
    /\ metadata[s] # Uncached /\ EpTurn
    /\ \A c \in Asking : s \notin DOMAIN askers[c].got
    /\ metadata' = [metadata EXCEPT ![s] = Uncached]
    /\ UNCHANGED <<catalogue, epRows, epIds, askers, listings, doubtful>>

EpisodeReleased(s, k) ==
    /\ k \notin catalogue[s] /\ EpTurn
    /\ catalogue' = [catalogue EXCEPT ![s] = @ \union {k}]
    /\ doubtful' = IF Asking = {} THEN doubtful ELSE doubtful \union {k}
    /\ UNCHANGED <<metadata, epRows, epIds, askers, listings>>

EpisodeDropped(s, k) ==
    /\ k \in catalogue[s] /\ EpTurn
    /\ catalogue' = [catalogue EXCEPT ![s] = @ \ {k}]
    /\ doubtful' = doubtful \union {k}
    /\ UNCHANGED <<metadata, epRows, epIds, askers, listings>>

EpisodesNext ==
    \/ \E c \in EpClients :
           \/ SeriesAsked(c) \/ RebuildBegins(c) \/ RebuildCommits(c) \/ RebuildFails(c)
           \/ \E s \in EpSources : MetadataServes(c, s) \/ ProviderServes(c, s) \/ ProviderFails(c, s)
    \/ \E s \in EpSources : MetadataExpires(s) \/ (\E k \in EpisodeKeys : EpisodeReleased(s, k) \/ EpisodeDropped(s, k))

EpisodesSpec == EpisodesInit /\ [][EpisodesNext]_episodeVars
-----------------------------------------------------------------------------
RowMaps == UNION {[K -> Nat \ {0}] : K \in SUBSET EpisodeKeys}
AnswerMaps == UNION {[S -> SUBSET EpisodeKeys] : S \in SUBSET EpSources}
EpisodeRequests == [at : {"rest", "fetch", "write"}, left : Seq(EpSources), got : AnswerMaps, found : RowMaps]

EpisodesTypeOK ==
    /\ catalogue \in [EpSources -> SUBSET EpisodeKeys]
    /\ metadata \in [EpSources -> (SUBSET EpisodeKeys) \union {Uncached}]
    /\ epRows \in RowMaps /\ epIds \in Nat
    /\ askers \in [EpClients -> EpisodeRequests]
    /\ listings \in [EpClients -> RowMaps]
    /\ doubtful \subseteq EpisodeKeys

(* The id under which a client was told of an episode stays the id of that     *)
(* episode while its sources go on naming it: through rebuilds for other       *)
(* clients, from other answers, that overlap or fail, the rows of the table are *)
(* found again and not replaced.                                              *)
EpisodeIdsHold ==
    \A c \in EpClients : \A k \in DOMAIN listings[c] \ doubtful :
        k \in DOMAIN epRows /\ epRows[k] = listings[c][k]

(* An id never comes to mean another episode: what a client was told of is     *)
(* found under the id it was given, or not at all.                             *)
IdsNameOneEpisode ==
    \A c \in EpClients : \A k \in DOMAIN listings[c], j \in DOMAIN epRows :
        epRows[j] = listings[c][k] => j = k
=============================================================================
