---------------------------- MODULE Library_proofs ---------------------------
(* Proofs about parts of the library and the services around it, one after    *)
(* the other: the shared upstream streams of the HLS proxy, the episodes of a *)
(* series on demand, the scan that looks programmes up, who is watching, the  *)
(* ffmpeg processes that serve what a viewer asks for, TVHeadend's users, the *)
(* library of titles and its outputs, and the requests to play one.           *)
EXTENDS HlsMux, VodEpisodes, GuideLookup, StreamActivity, StreamStart, TvhUsers,
        VodLibrary, VodPlayback, FiniteSetTheorems, TLAPS

-----------------------------------------------------------------------------
(* The shared upstream streams (HlsMux).                                      *)

MuxTypeOK ==
  /\ mState \in [MuxStreams -> {"free", "up", "stopping", "dead"}]
  /\ mEntry \in MuxStreams \union {MuxNone}
  /\ mQueues \in [MuxStreams -> SUBSET MuxClients]
  /\ mAt \in [MuxClients -> MuxStreams \union {MuxNone}]
  /\ mWaits \subseteq {c \in MuxClients : mAt[c] # MuxNone}
  /\ mTold \subseteq MuxClients /\ mDue \subseteq MuxStreams
  /\ segFresh \subseteq Segments /\ segStale \subseteq Segments

MuxInv == MuxTypeOK /\ RunningIsRegistered

\* The clients of a stream come and go; only the first of them makes a stream,
\* when nothing is registered.
LEMMA MuxClientKeeps ==
  ASSUME MuxInv, NEW c \in MuxClients, GetStream(c) \/ AddQueue(c) \/ RemoveQueue(c)
  PROVE  MuxInv'
  <1> USE DEF MuxInv, MuxTypeOK
  <1>1. CASE GetStream(c)
    <2>1. MuxTypeOK'
      BY <1>1 DEF GetStream, segVars
    <2>2. RunningIsRegistered'
      BY <1>1, MuxAssumption DEF GetStream, RunningIsRegistered
    <2> QED  BY <2>1, <2>2
  <1>2. CASE AddQueue(c)
    BY <1>2 DEF AddQueue, segVars, RunningIsRegistered
  <1>3. CASE RemoveQueue(c)
    BY <1>3 DEF RemoveQueue, segVars, RunningIsRegistered
  <1> QED  BY <1>1, <1>2, <1>3

\* A stream that stops stays registered until it takes its entry out itself.
LEMMA MuxStreamKeeps ==
  ASSUME MuxInv, NEW g \in MuxStreams,
         UpstreamEnds(g) \/ CleanupStops(g) \/ StopIfUnsubscribed(g) \/ StopPops(g) \/ Collected(g)
  PROVE  MuxInv'
  <1> USE DEF MuxInv, MuxTypeOK
  <1>1. CASE UpstreamEnds(g) \/ CleanupStops(g) \/ StopIfUnsubscribed(g)
    BY <1>1 DEF UpstreamEnds, CleanupStops, StopIfUnsubscribed, StopsWith, segVars, RunningIsRegistered
  <1>2. CASE StopPops(g)
    <2>1. MuxTypeOK'
      BY <1>2 DEF StopPops, segVars
    <2>2. RunningIsRegistered'
      BY <1>2 DEF StopPops, RunningIsRegistered
    <2> QED  BY <2>1, <2>2
  <1>3. CASE Collected(g)
    BY <1>3 DEF Collected, segVars, RunningIsRegistered
  <1> QED  BY <1>1, <1>2, <1>3

LEMMA MuxInvHolds == MuxSpec => []MuxInv
  <1>1. MuxInit => MuxInv
    BY DEF MuxInit, MuxInv, MuxTypeOK, RunningIsRegistered
  <1>2. MuxInv /\ [MuxNext]_muxVars => MuxInv'
    <2> SUFFICES ASSUME MuxInv, [MuxNext]_muxVars PROVE MuxInv'
      OBVIOUS
    <2>1. CASE \/ UNCHANGED muxVars
               \/ \E s \in Segments : SegmentExpires(s) \/ SegmentSet(s)
               \/ SegmentsEvicted
      BY <2>1 DEF muxVars, mainVars, segVars, SegmentExpires, SegmentSet, SegmentsEvicted,
                  MuxInv, MuxTypeOK, RunningIsRegistered
    <2> QED  BY <2>1, MuxClientKeeps, MuxStreamKeeps DEF MuxNext
  <1> QED  BY <1>1, <1>2, PTL DEF MuxSpec

\* Whatever runs, or is still stopping, is the one stream under its key: however
\* many clients come while a stream ends, no second upstream request is made
\* (get_stream, HLSStream.stop).
THEOREM OneUpstream == MuxSpec => []RunningIsRegistered
  <1>1. MuxInv => RunningIsRegistered
    BY DEF MuxInv
  <1> QED  BY <1>1, MuxInvHolds, PTL
-----------------------------------------------------------------------------
(* The episodes of a series (VodEpisodes): the list that numbers new rows.     *)

LEMMA PlaceInList ==
  ASSUME NEW S, IsFiniteSet(S), NEW k \in S
  PROVE  /\ SelectInSeq(SetToSeq(S), LAMBDA j : j = k) \in 1..Len(SetToSeq(S))
         /\ SetToSeq(S)[SelectInSeq(SetToSeq(S), LAMBDA j : j = k)] = k
         /\ Len(SetToSeq(S)) \in Nat
  <1> DEFINE n == Cardinality(S)
             f == SetToSeq(S)
             I == {i \in 1..Len(f) : f[i] = k}
  <1>1. n \in Nat /\ ExistsBijection(1..n, S)
    BY FS_CardinalityType
  <1>2. \E g \in [1..n -> S] : IsInjective(g)
    BY <1>1 DEF ExistsBijection, Bijection, Injection, IsInjective
  <1>3. f \in [1..n -> S] /\ IsInjective(f)
    BY <1>2 DEF SetToSeq
  <1>4. Len(f) = n
    BY <1>1, <1>3
  <1>5. \E i \in 1..n : f[i] = k
    <2>1. f \in Injection(1..n, S)
      BY <1>3 DEF Injection, IsInjective
    <2>2. IsFiniteSet(1..n) /\ Cardinality(1..n) = n
      BY <1>1, FS_Interval
    <2>3. f \in Surjection(1..n, S)
      BY <2>1, <2>2, FS_Injection
    <2> QED  BY <2>3 DEF Surjection
  <1>6. PICK i \in 1..n : f[i] = k
    BY <1>5
  <1>7. I = {i}
    BY <1>3, <1>4, <1>6 DEF IsInjective
  <1>8. Min(I) = i
    BY <1>1, <1>7 DEF Min
  <1>9. SelectInSeq(f, LAMBDA j : j = k) = i
    BY <1>7, <1>8 DEF SelectInSeq
  <1> QED  BY <1>1, <1>4, <1>6, <1>9

\* The length of a list of a finite set is a number, also when it is empty.
LEMMA ListLength ==
  ASSUME NEW S, IsFiniteSet(S)
  PROVE  Len(SetToSeq(S)) \in Nat
  <1> DEFINE n == Cardinality(S)
  <1>1. n \in Nat /\ ExistsBijection(1..n, S)
    BY FS_CardinalityType
  <1>2. \E g \in [1..n -> S] : IsInjective(g)
    BY <1>1 DEF ExistsBijection, Bijection, Injection, IsInjective
  <1>3. SetToSeq(S) \in [1..n -> S]
    BY <1>2 DEF SetToSeq
  <1> QED  BY <1>1, <1>3
-----------------------------------------------------------------------------
\* What a request got of a source is in the cache until it is over.
AnswersAreCached ==
  \A c \in Asking : \A s \in DOMAIN askers[c].got : metadata[s] = askers[c].got[s]

\* A source was asked, is still to be asked, or was passed over while it named
\* nothing that is beyond doubt.
AllWereAsked ==
  \A c \in Asking : \A s \in EpSources :
    s \in DOMAIN askers[c].got \/ s \in Range(askers[c].left) \/ catalogue[s] \subseteq doubtful

WritersAreDone == \A c \in EpClients : askers[c].at = "write" => askers[c].left = <<>>

\* The cache names nothing its source dropped, unless it is in doubt.
CacheIsNamed ==
  \A s \in EpSources : metadata[s] # Uncached => metadata[s] \ doubtful \subseteq catalogue[s]

\* Whoever asks now is told of the episode, or it comes into doubt.
StillNamed(k) ==
  \E s \in EpSources : k \in catalogue[s] /\ (metadata[s] = Uncached \/ k \in metadata[s])
ListedAreNamed ==
  \A c \in EpClients : \A k \in DOMAIN listings[c] \ doubtful : StillNamed(k)

EpisodesInv ==
  /\ EpisodesTypeOK /\ AnswersAreCached /\ AllWereAsked /\ WritersAreDone
  /\ CacheIsNamed /\ ListedAreNamed /\ EpisodeIdsHold

\* A client that writes was told of every episode that is beyond doubt.
LEMMA WritersKnow ==
  ASSUME EpisodesInv, NEW c \in EpClients, askers[c].at = "write",
         NEW k \in EpisodeKeys \ doubtful, StillNamed(k)
  PROVE  k \in NamedNow(c)
  <1>1. PICK s \in EpSources : k \in catalogue[s] /\ (metadata[s] = Uncached \/ k \in metadata[s])
    BY DEF StillNamed
  <1>2. c \in Asking /\ askers[c].left = <<>>
    BY DEF EpisodesInv, WritersAreDone, Asking
  <1>3. s \in DOMAIN askers[c].got
    BY <1>1, <1>2 DEF EpisodesInv, AllWereAsked, Range
  <1>4. askers[c].got[s] = metadata[s]
    BY <1>2, <1>3 DEF EpisodesInv, AnswersAreCached
  <1>5. askers[c].got[s] \in SUBSET EpisodeKeys
    BY <1>3 DEF EpisodesInv, EpisodesTypeOK, EpisodeRequests, AnswerMaps
  <1>6. k \in askers[c].got[s]
    BY <1>1, <1>4, <1>5, EpisodesAssumption
  <1> QED  BY <1>3, <1>6 DEF NamedNow, Range

\* What it was told of is named still, unless it is in doubt.
LEMMA ToldIsNamed ==
  ASSUME EpisodesInv, NEW c \in Asking, NEW k \in NamedNow(c)
  PROVE  k \in EpisodeKeys /\ (k \in doubtful \/ StillNamed(k))
  <1>1. PICK s \in DOMAIN askers[c].got : k \in askers[c].got[s]
    BY DEF NamedNow, Range
  <1>2. c \in EpClients
    BY DEF Asking
  <1>3. s \in EpSources /\ askers[c].got[s] \in SUBSET EpisodeKeys
    BY <1>2 DEF EpisodesInv, EpisodesTypeOK, EpisodeRequests, AnswerMaps
  <1>4. metadata[s] = askers[c].got[s]
    BY DEF EpisodesInv, AnswersAreCached
  <1>5. metadata[s] # Uncached
    BY <1>3, <1>4, EpisodesAssumption
  <1>6. k \in doubtful \/ k \in catalogue[s]
    BY <1>1, <1>3, <1>4, <1>5 DEF EpisodesInv, CacheIsNamed
  <1> QED  BY <1>1, <1>3, <1>4, <1>6 DEF StillNamed

\* The ids of a rebuild: those there were, and new ones, all of them positive.
LEMMA IdsOfRebuild ==
  ASSUME EpisodesInv, NEW c \in Asking
  PROVE  /\ Ids(c) \in [NamedNow(c) -> Nat \ {0}] /\ NamedNow(c) \subseteq EpisodeKeys
         /\ \A k \in NamedNow(c) \intersect DOMAIN askers[c].found : Ids(c)[k] = askers[c].found[k]
         /\ \A k \in NamedNow(c) \ DOMAIN askers[c].found :
              /\ Ids(c)[k] \in (epIds + 1) .. (epIds + Len(Added(c)))
              /\ Added(c)[Ids(c)[k] - epIds] = k
         /\ Len(Added(c)) \in Nat
  <1> DEFINE told == askers[c].found
             S == NamedNow(c) \ DOMAIN told
             place(k) == SelectInSeq(Added(c), LAMBDA j : j = k)
  <1>1. NamedNow(c) \subseteq EpisodeKeys
    BY ToldIsNamed
  <1>2. IsFiniteSet(S)
    BY <1>1, EpisodesAssumption, FS_Subset
  <1>3. Len(Added(c)) \in Nat
    BY <1>2, ListLength DEF Added
  <1>4. \A k \in S : place(k) \in 1..Len(Added(c)) /\ Added(c)[place(k)] = k
    BY <1>2, PlaceInList DEF Added
  <1>5. \A k \in DOMAIN told : told[k] \in Nat \ {0}
    <2>1. c \in EpClients
      BY DEF Asking
    <2> QED  BY <2>1 DEF EpisodesInv, EpisodesTypeOK, EpisodeRequests, RowMaps
  <1>6. epIds \in Nat
    BY DEF EpisodesInv, EpisodesTypeOK, EpisodeRequests
  <1>7. \A k \in NamedNow(c) : Ids(c)[k] = IF k \in DOMAIN told THEN told[k] ELSE epIds + place(k)
    BY DEF Ids
  <1> HIDE DEF place
  <1>8. \A k \in NamedNow(c) : Ids(c)[k] \in Nat \ {0}
    <2>1. \A k \in S : epIds + place(k) \in Nat \ {0}
      BY <1>3, <1>4, <1>6
    <2> QED  BY <1>5, <1>7, <2>1
  <1>9. Ids(c) \in [NamedNow(c) -> Nat \ {0}]
    BY <1>8 DEF Ids
  <1>10. \A k \in S : /\ Ids(c)[k] \in (epIds + 1) .. (epIds + Len(Added(c)))
                      /\ Added(c)[Ids(c)[k] - epIds] = k
    <2> SUFFICES ASSUME NEW k \in S
                 PROVE  /\ Ids(c)[k] \in (epIds + 1) .. (epIds + Len(Added(c)))
                        /\ Added(c)[Ids(c)[k] - epIds] = k
      OBVIOUS
    <2>1. Ids(c)[k] = epIds + place(k) /\ place(k) \in 1..Len(Added(c)) /\ Added(c)[place(k)] = k
      BY <1>4, <1>7
    <2>2. Ids(c)[k] - epIds = place(k)
      BY <1>3, <1>6, <2>1
    <2> QED  BY <1>3, <1>6, <2>1, <2>2
  <1> QED  BY <1>1, <1>3, <1>7, <1>9, <1>10
-----------------------------------------------------------------------------
\* An answer added to the answers.
LEMMA AnswerAdded ==
  ASSUME NEW got \in AnswerMaps, NEW s \in EpSources, NEW keys \in SUBSET EpisodeKeys,
         NEW new, new = WithAnswer(got, s, keys)
  PROVE  /\ new \in AnswerMaps
         /\ DOMAIN new = DOMAIN got \union {s}
         /\ \A x \in DOMAIN got : new[x] = got[x]
         /\ s \notin DOMAIN got => new[s] = keys
  <1>1. PICK S \in SUBSET EpSources : got \in [S -> SUBSET EpisodeKeys]
    BY DEF AnswerMaps
  <1>2. new = [x \in S \union {s} |-> IF x \in S THEN got[x] ELSE keys]
    BY <1>1 DEF WithAnswer, Joined
  <1>3. new \in [S \union {s} -> SUBSET EpisodeKeys]
    BY <1>1, <1>2
  <1>4. new \in AnswerMaps
    BY <1>1, <1>3 DEF AnswerMaps
  <1> QED  BY <1>1, <1>2, <1>4

\* The sources left to ask are the next one and those after it.
LEMMA SourcesLeft ==
  ASSUME NEW left \in Seq(EpSources), left # <<>>
  PROVE  /\ Head(left) \in EpSources /\ Tail(left) \in Seq(EpSources)
         /\ Range(left) \subseteq {Head(left)} \union Range(Tail(left))
  <1>1. Head(left) \in EpSources /\ Tail(left) \in Seq(EpSources)
    OBVIOUS
  <1>2. ASSUME NEW i \in DOMAIN left
        PROVE  left[i] \in {Head(left)} \union Range(Tail(left))
    <2>1. i \in 1..Len(left) /\ Len(left) \in Nat
      OBVIOUS
    <2>2. CASE i = 1
      BY <2>2
    <2>3. CASE i # 1
      <3>1. i - 1 \in 1..Len(Tail(left)) /\ Tail(left)[i - 1] = left[i]
        BY <2>1, <2>3
      <3>2. DOMAIN Tail(left) = 1..Len(Tail(left))
        BY <1>1
      <3> QED  BY <3>1, <3>2 DEF Range
    <2> QED  BY <2>2, <2>3
  <1> QED  BY <1>1, <1>2 DEF Range

LEMMA EmptyMaps ==
  /\ NoEpisodes \in RowMaps /\ NoEpisodes \in AnswerMaps /\ DOMAIN NoEpisodes = {}
  <1>1. NoEpisodes \in [{} -> Nat \ {0}] /\ NoEpisodes \in [{} -> SUBSET EpisodeKeys]
    BY DEF NoEpisodes
  <1> QED  BY <1>1 DEF RowMaps, AnswerMaps, NoEpisodes

LEMMA NoRequestType ==
  /\ NoRequest \in EpisodeRequests
  /\ NoRequest.at = "rest" /\ NoRequest.left = <<>> /\ NoRequest.got = NoEpisodes
  /\ NoRequest.found = NoEpisodes
  BY EmptyMaps DEF NoRequest, EpisodeRequests
-----------------------------------------------------------------------------
LEMMA EpisodesInvInit == EpisodesInit => EpisodesInv
  <1> SUFFICES ASSUME EpisodesInit PROVE EpisodesInv
    OBVIOUS
  <1>1. Asking = {} /\ \A c \in EpClients : askers[c].at = "rest" /\ DOMAIN listings[c] = {}
    BY NoRequestType, EmptyMaps DEF EpisodesInit, Asking
  <1>2. EpisodesTypeOK
    BY NoRequestType, EmptyMaps DEF EpisodesInit, EpisodesTypeOK, EpisodeRequests
  <1>3. CacheIsNamed
    BY DEF EpisodesInit, CacheIsNamed
  <1> QED  BY <1>1, <1>2, <1>3 DEF EpisodesInv, AnswersAreCached, AllWereAsked, WritersAreDone,
                                   ListedAreNamed, EpisodeIdsHold

\* What happens upstream, and in the cache, between the steps of the requests.
LEMMA UpstreamKeeps ==
  ASSUME EpisodesInv, NEW s \in EpSources,
         MetadataExpires(s) \/ \E k \in EpisodeKeys : EpisodeReleased(s, k) \/ EpisodeDropped(s, k)
  PROVE  EpisodesInv'
  <1> USE DEF EpisodesInv
  <1>1. Asking' = Asking /\ askers' = askers /\ listings' = listings /\ epRows' = epRows
    BY DEF MetadataExpires, EpisodeReleased, EpisodeDropped, Asking
  <1>2. EpisodesTypeOK'
    BY DEF MetadataExpires, EpisodeReleased, EpisodeDropped, EpisodesTypeOK, EpisodeRequests
  <1>3. doubtful \subseteq doubtful'
    BY DEF MetadataExpires, EpisodeReleased, EpisodeDropped
  <1>4. EpisodeIdsHold' /\ WritersAreDone'
    BY <1>1, <1>3 DEF EpisodeIdsHold, WritersAreDone
  <1>5. \A t \in EpSources : metadata'[t] \in {metadata[t], Uncached}
    BY DEF MetadataExpires, EpisodeReleased, EpisodeDropped, EpisodesTypeOK, EpisodeRequests
  <1>6. \A t \in EpSources : /\ catalogue[t] \subseteq catalogue'[t] \union doubtful'
                             /\ Asking # {} => catalogue'[t] \subseteq catalogue[t] \union doubtful'
    BY ZenonT(30) DEF MetadataExpires, EpisodeReleased, EpisodeDropped, EpisodesTypeOK, EpisodeRequests
  <1>7. AnswersAreCached'
    <2> SUFFICES ASSUME NEW c \in Asking, NEW t \in DOMAIN askers[c].got
                 PROVE  metadata'[t] = metadata[t]
      BY <1>1 DEF AnswersAreCached
    <2>1. c \in EpClients
      BY DEF Asking
    <2>2. t \in EpSources
      BY <2>1 DEF EpisodesTypeOK, EpisodeRequests, AnswerMaps
    <2> QED  BY <2>1, <2>2 DEF MetadataExpires, EpisodeReleased, EpisodeDropped, EpisodesTypeOK, EpisodeRequests
  <1>8. AllWereAsked'
    BY <1>1, <1>3, <1>6 DEF AllWereAsked
  <1>9. CacheIsNamed'
    BY <1>3, <1>5, <1>6 DEF CacheIsNamed
  <1>10. ListedAreNamed'
    <2> SUFFICES ASSUME NEW c \in EpClients, NEW k \in DOMAIN listings[c] \ doubtful'
                 PROVE  StillNamed(k)'
      BY <1>1 DEF ListedAreNamed
    <2>1. StillNamed(k)
      BY <1>3 DEF ListedAreNamed
    <2> QED  BY <1>5, <1>6, <2>1 DEF StillNamed
  <1> QED  BY <1>2, <1>4, <1>7, <1>8, <1>9, <1>10

\* A request is given an answer: what is cached, or what the source names.
LEMMA AnswerKeeps ==
  ASSUME EpisodesInv, NEW c \in EpClients, NEW s \in EpSources, NEW keys \in SUBSET EpisodeKeys,
         \/ MetadataServes(c, s) /\ keys = metadata[s]
         \/ ProviderServes(c, s) /\ keys = catalogue[s]
  PROVE  EpisodesInv'
  <1> USE DEF EpisodesInv
  <1>0. UNCHANGED <<catalogue, listings, epRows, epIds>>
    BY DEF MetadataServes, ProviderServes
  <1>1. Fetching(c, s) /\ SourceAnswers(c, s, keys) /\ UNCHANGED doubtful
    BY DEF MetadataServes, ProviderServes
  <1>2. /\ metadata' = [metadata EXCEPT ![s] = keys] /\ metadata[s] \in {keys, Uncached}
        /\ metadata[s] = Uncached => keys = catalogue[s]
    BY EpisodesAssumption DEF MetadataServes, ProviderServes, EpisodesTypeOK, EpisodeRequests
  <1>3. /\ askers[c].left \in Seq(EpSources) /\ askers[c].left # <<>> /\ s = Head(askers[c].left)
        /\ askers[c].got \in AnswerMaps /\ c \in Asking
    BY <1>1 DEF Fetching, EpisodesTypeOK, EpisodeRequests, Asking
  <1> DEFINE got == askers[c].got
             new == WithAnswer(got, s, keys)
  <1> HIDE DEF got
  <1>4. /\ new \in AnswerMaps /\ DOMAIN new = DOMAIN askers[c].got \union {s}
        /\ \A x \in DOMAIN askers[c].got : new[x] = askers[c].got[x]
        /\ s \notin DOMAIN askers[c].got => new[s] = keys
    <2>1. got \in AnswerMaps
      BY <1>3 DEF got
    <2>2. s \in EpSources /\ keys \in SUBSET EpisodeKeys /\ new = WithAnswer(got, s, keys)
      OBVIOUS
    <2> HIDE DEF new
    <2>3. /\ new \in AnswerMaps /\ DOMAIN new = DOMAIN got \union {s}
          /\ \A x \in DOMAIN got : new[x] = got[x]
          /\ s \notin DOMAIN got => new[s] = keys
      BY <2>1, <2>2, AnswerAdded
    <2> QED  BY <2>3 DEF got
  <1>5. askers' = [askers EXCEPT ![c].left = Tail(@), ![c].got = new]
    BY <1>1 DEF SourceAnswers, got
  <1> HIDE DEF new
  <1>6. /\ askers'[c].left = Tail(askers[c].left) /\ askers'[c].got = new
        /\ askers'[c].at = "fetch" /\ \A d \in EpClients \ {c} : askers'[d] = askers[d]
    BY <1>1, <1>5 DEF Fetching, EpisodesTypeOK, EpisodeRequests
  <1>7. Asking' = Asking
    BY <1>3, <1>6 DEF Asking
  <1>8. EpisodesTypeOK'
    <2>1. askers[c] \in EpisodeRequests /\ Tail(askers[c].left) \in Seq(EpSources)
      BY <1>3, SourcesLeft DEF EpisodesTypeOK
    <2>2. [askers[c] EXCEPT !.left = Tail(@), !.got = new] \in EpisodeRequests
      BY <1>4, <2>1 DEF EpisodeRequests
    <2>3. askers' \in [EpClients -> EpisodeRequests]
      BY <1>5, <2>2 DEF EpisodesTypeOK
    <2>4. metadata' \in [EpSources -> (SUBSET EpisodeKeys) \cup {Uncached}]
      BY <1>2 DEF EpisodesTypeOK
    <2> QED  BY <1>0, <1>1, <2>3, <2>4 DEF EpisodesTypeOK
  <1>9. \A t \in EpSources : t # s => metadata'[t] = metadata[t]
    BY <1>2 DEF EpisodesTypeOK, EpisodeRequests
  <1>10. metadata'[s] = keys
    BY <1>2 DEF EpisodesTypeOK, EpisodeRequests
  <1>11. \A d \in Asking : s \in DOMAIN askers[d].got => askers[d].got[s] = keys
    <2> SUFFICES ASSUME NEW d \in Asking, s \in DOMAIN askers[d].got
                 PROVE  askers[d].got[s] = keys
      OBVIOUS
    <2>1. d \in EpClients
      BY DEF Asking
    <2>2. metadata[s] = askers[d].got[s] /\ askers[d].got[s] \in SUBSET EpisodeKeys
      BY <2>1 DEF AnswersAreCached, EpisodesTypeOK, EpisodeRequests, AnswerMaps
    <2> QED  BY <1>2, <2>2, EpisodesAssumption
  <1>12. AnswersAreCached'
    <2> SUFFICES ASSUME NEW d \in Asking, NEW t \in DOMAIN askers'[d].got
                 PROVE  metadata'[t] = askers'[d].got[t]
      BY <1>7 DEF AnswersAreCached
    <2>1. d \in EpClients
      BY DEF Asking
    <2>2. \A x \in DOMAIN askers[d].got : x \in EpSources /\ metadata[x] = askers[d].got[x]
      BY <2>1 DEF AnswersAreCached, EpisodesTypeOK, EpisodeRequests, AnswerMaps
    <2>3. CASE d = c
      BY <1>3, <1>4, <1>6, <1>9, <1>10, <1>11, <2>2, <2>3
    <2>4. CASE d # c
      BY <1>6, <1>9, <1>10, <1>11, <2>1, <2>2, <2>4
    <2> QED  BY <2>3, <2>4
  <1>13. AllWereAsked'
    <2> SUFFICES ASSUME NEW d \in Asking, NEW t \in EpSources
                 PROVE  \/ t \in DOMAIN askers'[d].got \/ t \in Range(askers'[d].left)
                        \/ catalogue[t] \subseteq doubtful
      BY <1>0, <1>1, <1>7 DEF AllWereAsked
    <2>1. d \in EpClients
      BY DEF Asking
    <2>2. t \in DOMAIN askers[d].got \/ t \in Range(askers[d].left) \/ catalogue[t] \subseteq doubtful
      BY DEF AllWereAsked
    <2>3. CASE d = c
      BY <1>3, <1>4, <1>6, <2>2, <2>3, SourcesLeft
    <2>4. CASE d # c
      BY <1>6, <2>1, <2>2, <2>4
    <2> QED  BY <2>3, <2>4
  <1>14. WritersAreDone' /\ EpisodeIdsHold'
    BY <1>0, <1>1, <1>6 DEF WritersAreDone, EpisodeIdsHold
  <1>15. CacheIsNamed'
    BY <1>0, <1>1, <1>2, <1>9, <1>10 DEF CacheIsNamed
  <1>16. ListedAreNamed'
    <2> SUFFICES ASSUME NEW d \in EpClients, NEW k \in DOMAIN listings[d] \ doubtful
                 PROVE  StillNamed(k)'
      BY <1>0, <1>1 DEF ListedAreNamed
    <2>1. PICK t \in EpSources : k \in catalogue[t] /\ (metadata[t] = Uncached \/ k \in metadata[t])
      BY DEF ListedAreNamed, StillNamed
    <2>2. metadata'[t] = Uncached \/ k \in metadata'[t]
      BY <1>2, <1>9, <1>10, <2>1
    <2> QED  BY <1>0, <2>1, <2>2 DEF StillNamed
  <1> QED  BY <1>8, <1>12, <1>13, <1>14, <1>15, <1>16

\* A request begins with every source, and is given what is cached or what a
\* source names, or nothing of a source that fails.
LEMMA AskingKeeps ==
  ASSUME EpisodesInv, NEW c \in EpClients,
         \/ SeriesAsked(c)
         \/ \E s \in EpSources : MetadataServes(c, s) \/ ProviderServes(c, s) \/ ProviderFails(c, s)
  PROVE  EpisodesInv'
  <1> USE DEF EpisodesInv
  <1>0. UNCHANGED <<catalogue, listings, epRows, epIds>>
    BY DEF SeriesAsked, MetadataServes, ProviderServes, ProviderFails
  <1>1. CASE SeriesAsked(c)
    <2>1. askers' = [askers EXCEPT ![c] = [NoRequest EXCEPT !.at = "fetch", !.left = LinkOrder]]
      BY <1>1 DEF SeriesAsked
    <2>2. EpisodesTypeOK'
      <3>1. [NoRequest EXCEPT !.at = "fetch", !.left = LinkOrder] \in EpisodeRequests
        BY NoRequestType, EpisodesAssumption DEF EpisodeRequests
      <3> QED  BY <1>1, <2>1, <3>1 DEF SeriesAsked, EpisodesTypeOK
    <2>3. /\ askers'[c].left = LinkOrder /\ askers'[c].got = NoEpisodes /\ askers'[c].at = "fetch"
          /\ \A d \in EpClients \ {c} : askers'[d] = askers[d]
      BY <2>1, NoRequestType DEF EpisodesTypeOK, EpisodeRequests, NoRequest
    <2>4. Asking' = Asking \union {c}
      BY <2>3 DEF Asking
    <2>5. UNCHANGED <<metadata, doubtful>>
      BY <1>1 DEF SeriesAsked
    <2>6. AnswersAreCached'
      BY <2>3, <2>4, <2>5, EmptyMaps DEF AnswersAreCached, Asking
    <2>7. AllWereAsked'
      BY <1>0, <2>3, <2>4, <2>5 DEF AllWereAsked, Asking, EpSources
    <2>8. WritersAreDone' /\ CacheIsNamed' /\ ListedAreNamed' /\ EpisodeIdsHold'
      BY <1>0, <2>3, <2>5 DEF WritersAreDone, CacheIsNamed, ListedAreNamed, StillNamed, EpisodeIdsHold
    <2> QED  BY <2>2, <2>6, <2>7, <2>8
  <1>2. ASSUME NEW s \in EpSources, ProviderFails(c, s)
        PROVE  EpisodesInv'
    <2>1. Fetching(c, s) /\ UNCHANGED metadata /\ doubtful' = doubtful \union catalogue[s]
      BY <1>2 DEF ProviderFails
    <2>2. /\ askers[c].left \in Seq(EpSources) /\ askers[c].left # <<>> /\ s = Head(askers[c].left)
          /\ c \in Asking
      BY <2>1 DEF Fetching, EpisodesTypeOK, EpisodeRequests, Asking
    <2>3. askers' = [askers EXCEPT ![c].left = Tail(@)]
      BY <1>2 DEF ProviderFails
    <2>4. /\ askers'[c].left = Tail(askers[c].left) /\ askers'[c].got = askers[c].got
          /\ askers'[c].at = "fetch" /\ \A d \in EpClients \ {c} : askers'[d] = askers[d]
      BY <2>1, <2>3 DEF Fetching, EpisodesTypeOK, EpisodeRequests
    <2>5. Asking' = Asking
      BY <2>2, <2>4 DEF Asking
    <2>6. EpisodesTypeOK'
      BY <1>0, <2>1, <2>2, <2>3, SourcesLeft DEF EpisodesTypeOK, EpisodeRequests
    <2>7. AnswersAreCached'
      BY <2>1, <2>4, <2>5 DEF AnswersAreCached, Asking
    <2>8. AllWereAsked'
      <3> SUFFICES ASSUME NEW d \in Asking, NEW t \in EpSources
                   PROVE  \/ t \in DOMAIN askers'[d].got \/ t \in Range(askers'[d].left)
                          \/ catalogue[t] \subseteq doubtful'
        BY <1>0, <2>5 DEF AllWereAsked
      <3>1. d \in EpClients
        BY DEF Asking
      <3>2. t \in DOMAIN askers[d].got \/ t \in Range(askers[d].left) \/ catalogue[t] \subseteq doubtful
        BY DEF AllWereAsked
      <3>3. CASE d = c
        BY <2>1, <2>2, <2>4, <3>2, <3>3, SourcesLeft
      <3>4. CASE d # c
        BY <2>1, <2>4, <3>1, <3>2, <3>4
      <3> QED  BY <3>3, <3>4
    <2>9. WritersAreDone' /\ CacheIsNamed' /\ ListedAreNamed' /\ EpisodeIdsHold'
      BY <1>0, <2>1, <2>4 DEF WritersAreDone, CacheIsNamed, ListedAreNamed, StillNamed, EpisodeIdsHold
    <2> QED  BY <2>6, <2>7, <2>8, <2>9
  <1> HIDE DEF EpisodesInv
  <1>3. ASSUME NEW s \in EpSources, MetadataServes(c, s) \/ ProviderServes(c, s)
        PROVE  EpisodesInv'
    <2>1. \E keys \in SUBSET EpisodeKeys : \/ MetadataServes(c, s) /\ keys = metadata[s]
                                           \/ ProviderServes(c, s) /\ keys = catalogue[s]
      BY <1>3 DEF MetadataServes, EpisodesInv, EpisodesTypeOK
    <2> QED  BY <2>1, AnswerKeeps
  <1> QED  BY <1>1, <1>2, <1>3

\* The transaction begins, when there was any answer, or it is rolled back.
LEMMA BeginningKeeps ==
  ASSUME EpisodesInv, NEW c \in EpClients, RebuildBegins(c) \/ RebuildFails(c)
  PROVE  EpisodesInv'
  <1> USE DEF EpisodesInv
  <1>1. UNCHANGED <<catalogue, metadata, epRows, epIds, listings, doubtful>>
    BY DEF RebuildBegins, RebuildFails
  <1>2. PICK r \in EpisodeRequests :
          /\ askers' = [askers EXCEPT ![c] = r] /\ c \in Asking
          /\ \/ r = NoRequest
             \/ r.at = "write" /\ r.left = <<>> /\ askers[c].left = <<>> /\ r.got = askers[c].got
    <2>1. CASE RebuildFails(c)
      BY <2>1, NoRequestType DEF RebuildFails, Asking
    <2>2. CASE RebuildBegins(c)
      <3> DEFINE new == [askers[c] EXCEPT !.at = "write", !.found = epRows]
      <3>1. new \in EpisodeRequests /\ new.at = "write" /\ new.left = askers[c].left /\ new.got = askers[c].got
        BY DEF EpisodesTypeOK, EpisodeRequests
      <3>2. askers' = [askers EXCEPT ![c] = IF DOMAIN askers[c].got = {} THEN NoRequest ELSE new]
        BY <2>2 DEF RebuildBegins
      <3>3. askers[c].left = <<>> /\ c \in Asking
        BY <2>2 DEF RebuildBegins, Asking
      <3> QED  BY <3>1, <3>2, <3>3, NoRequestType
    <2> QED  BY <2>1, <2>2
  <1>3. askers'[c] = r /\ \A d \in EpClients \ {c} : askers'[d] = askers[d]
    BY <1>2 DEF EpisodesTypeOK
  <1>4. EpisodesTypeOK'
    BY <1>1, <1>2 DEF EpisodesTypeOK
  <1>5. \A d \in Asking' : d \in Asking /\ askers'[d].got = askers[d].got /\ askers'[d].left = askers[d].left
    BY <1>2, <1>3, NoRequestType DEF Asking
  <1>6. AnswersAreCached' /\ AllWereAsked'
    BY <1>1, <1>5 DEF AnswersAreCached, AllWereAsked
  <1>7. WritersAreDone'
    BY <1>2, <1>3, NoRequestType DEF WritersAreDone
  <1>8. CacheIsNamed' /\ ListedAreNamed' /\ EpisodeIdsHold'
    BY <1>1 DEF CacheIsNamed, ListedAreNamed, StillNamed, EpisodeIdsHold
  <1> QED  BY <1>4, <1>6, <1>7, <1>8

\* The rows after a rebuild: those named have the id the rebuild gives them.
LEMMA RowsOfRebuild ==
  ASSUME EpisodesInv, NEW c \in Asking, RebuildCommits(c)
  PROVE  /\ epRows' \in RowMaps /\ NamedNow(c) \subseteq DOMAIN epRows'
         /\ \A k \in NamedNow(c) : epRows'[k] = Ids(c)[k]
         /\ \A k \in DOMAIN epRows' \ NamedNow(c) : k \in DOMAIN epRows /\ epRows'[k] = epRows[k]
  <1> DEFINE kept == {k \in DOMAIN epRows : ~(k \in Pruned(c) /\ epRows[k] = askers[c].found[k])}
  <1>1. epRows' = Joined(Ids(c), [k \in kept |-> epRows[k]])
    BY DEF RebuildCommits
  <1>2. kept \subseteq DOMAIN epRows
    OBVIOUS
  <1> HIDE DEF kept
  <1>3. Ids(c) \in [NamedNow(c) -> Nat \ {0}] /\ NamedNow(c) \subseteq EpisodeKeys
    BY IdsOfRebuild
  <1>4. PICK K \in SUBSET EpisodeKeys : epRows \in [K -> Nat \ {0}]
    BY DEF EpisodesInv, EpisodesTypeOK, RowMaps
  <1>5. epRows' = [k \in NamedNow(c) \union kept |-> IF k \in NamedNow(c) THEN Ids(c)[k] ELSE epRows[k]]
    BY <1>1, <1>3 DEF Joined
  <1>6. epRows' \in [NamedNow(c) \union kept -> Nat \ {0}]
    BY <1>2, <1>3, <1>4, <1>5
  <1>7. NamedNow(c) \union kept \in SUBSET EpisodeKeys
    BY <1>2, <1>3, <1>4
  <1> QED  BY <1>2, <1>5, <1>6, <1>7 DEF RowMaps

\* What the others were told of, and is beyond doubt, was named to this rebuild
\* too, and it finds the row there is.
LEMMA CommitKeeps ==
  ASSUME EpisodesInv, NEW c \in EpClients, RebuildCommits(c)
  PROVE  EpisodesInv'
  <1> USE DEF EpisodesInv
  <1>1. /\ UNCHANGED <<catalogue, metadata, doubtful>> /\ c \in Asking /\ askers[c].at = "write"
        /\ epIds' = epIds + Len(Added(c)) /\ listings' = [listings EXCEPT ![c] = Ids(c)]
        /\ askers' = [askers EXCEPT ![c] = NoRequest] /\ ~Clash(c)
    BY DEF RebuildCommits, Asking
  <1>2. Ids(c) \in RowMaps /\ DOMAIN Ids(c) = NamedNow(c) /\ Len(Added(c)) \in Nat
    BY <1>1, IdsOfRebuild DEF RowMaps
  <1>3. EpisodesTypeOK'
    <2>1. epRows' \in RowMaps
      BY <1>1, RowsOfRebuild
    <2> QED  BY <1>1, <1>2, <2>1, NoRequestType DEF EpisodesTypeOK
  <1>4. /\ askers'[c] = NoRequest /\ listings'[c] = Ids(c)
        /\ \A d \in EpClients \ {c} : askers'[d] = askers[d] /\ listings'[d] = listings[d]
    BY <1>1 DEF EpisodesTypeOK
  <1>5. \A d \in Asking' : d \in Asking /\ askers'[d] = askers[d]
    BY <1>4, NoRequestType DEF Asking
  <1>6. AnswersAreCached' /\ AllWereAsked'
    BY <1>1, <1>5 DEF AnswersAreCached, AllWereAsked
  <1>7. WritersAreDone' /\ CacheIsNamed'
    BY <1>1, <1>4, NoRequestType DEF WritersAreDone, CacheIsNamed
  <1>8. ListedAreNamed'
    <2> SUFFICES ASSUME NEW d \in EpClients, NEW k \in DOMAIN listings'[d] \ doubtful
                 PROVE  StillNamed(k)
      BY <1>1 DEF ListedAreNamed, StillNamed
    <2>1. CASE d = c
      BY <1>1, <1>2, <1>4, <2>1, ToldIsNamed
    <2>2. CASE d # c
      BY <1>4, <2>2 DEF ListedAreNamed
    <2> QED  BY <2>1, <2>2
  <1>9. EpisodeIdsHold'
    <2> SUFFICES ASSUME NEW d \in EpClients, NEW k \in DOMAIN listings'[d] \ doubtful
                 PROVE  k \in DOMAIN epRows' /\ epRows'[k] = listings'[d][k]
      BY <1>1 DEF EpisodeIdsHold
    <2>1. CASE d = c
      BY <1>1, <1>2, <1>4, <2>1, RowsOfRebuild
    <2>2. CASE d # c
      <3>1. /\ k \in DOMAIN epRows /\ epRows[k] = listings[d][k] /\ StillNamed(k)
            /\ listings'[d] = listings[d]
        BY <1>4, <2>2 DEF EpisodeIdsHold, ListedAreNamed
      <3>2. k \in EpisodeKeys /\ epRows[k] \in Nat \ {0}
        BY <3>1 DEF EpisodesTypeOK, RowMaps
      <3>3. k \in NamedNow(c)
        BY <1>1, <3>1, <3>2, WritersKnow
      <3>4. k \in DOMAIN askers[c].found /\ askers[c].found[k] = epRows[k]
        BY <1>1, <3>1, <3>2, <3>3 DEF Clash, IdIn
      <3>5. Ids(c)[k] = epRows[k]
        BY <1>1, <3>3, <3>4, IdsOfRebuild
      <3> QED  BY <1>1, <3>1, <3>3, <3>5, RowsOfRebuild
    <2> QED  BY <2>1, <2>2
  <1> QED  BY <1>3, <1>6, <1>7, <1>8, <1>9

LEMMA EpisodesInvHolds == EpisodesSpec => []EpisodesInv
  <1>1. EpisodesInit => EpisodesInv
    BY EpisodesInvInit
  <1>2. EpisodesInv /\ [EpisodesNext]_episodeVars => EpisodesInv'
    <2> SUFFICES ASSUME EpisodesInv, [EpisodesNext]_episodeVars PROVE EpisodesInv'
      OBVIOUS
    <2>1. CASE UNCHANGED episodeVars
      BY <2>1 DEF episodeVars, EpisodesInv, EpisodesTypeOK, AnswersAreCached, AllWereAsked,
                  WritersAreDone, CacheIsNamed, ListedAreNamed, StillNamed, EpisodeIdsHold, Asking
    <2>2. CASE \E c \in EpClients : SeriesAsked(c) \/ \E s \in EpSources :
                   MetadataServes(c, s) \/ ProviderServes(c, s) \/ ProviderFails(c, s)
      BY <2>2, AskingKeeps
    <2>3. CASE \E c \in EpClients : RebuildBegins(c) \/ RebuildFails(c)
      BY <2>3, BeginningKeeps
    <2>4. CASE \E c \in EpClients : RebuildCommits(c)
      BY <2>4, CommitKeeps
    <2>5. CASE \E s \in EpSources : \/ MetadataExpires(s)
                                    \/ \E k \in EpisodeKeys : EpisodeReleased(s, k) \/ EpisodeDropped(s, k)
      BY <2>5, UpstreamKeeps
    <2> QED  BY <2>1, <2>2, <2>3, <2>4, <2>5 DEF EpisodesNext
  <1> QED  BY <1>1, <1>2, PTL DEF EpisodesSpec

(* An episode keeps the id a client was told while its sources go on naming it: *)
(* whatever other requests read, write, clash over or fail with meanwhile.     *)
THEOREM EpisodeIdsStay == EpisodesSpec => []EpisodeIdsHold
  <1>1. EpisodesInv => EpisodeIdsHold
    BY DEF EpisodesInv
  <1> QED  BY <1>1, EpisodesInvHolds, PTL

\* The table has the id for the key, or a listing does, or a request found it so.
Said(k, i) ==
  \/ k \in DOMAIN epRows /\ epRows[k] = i
  \/ \E c \in EpClients : k \in DOMAIN listings[c] /\ listings[c][k] = i
  \/ \E c \in EpClients : k \in DOMAIN askers[c].found /\ askers[c].found[k] = i

IdsInv ==
  \A k \in EpisodeKeys, i \in Nat : Said(k, i) => i <= epIds /\ \A j \in EpisodeKeys : Said(j, i) => j = k

\* What a step says anew, it says under the next ids.
LEMMA SaidAnew ==
  ASSUME EpisodesInv, [EpisodesNext]_episodeVars
  PROVE  \/ epIds' = epIds /\ \A k \in EpisodeKeys, i \in Nat : Said(k, i)' => Said(k, i)
         \/ \E c \in Asking : /\ epIds' = epIds + Len(Added(c)) /\ Len(Added(c)) \in Nat
                              /\ \A k \in EpisodeKeys, i \in Nat : Said(k, i)' =>
                                   Said(k, i) \/ (i > epIds /\ i <= epIds' /\ Added(c)[i - epIds] = k)
  <1>1. CASE epIds' = epIds /\ epRows' = epRows /\ listings' = listings /\
             \A c \in EpClients : askers'[c].found \in {askers[c].found, NoEpisodes, epRows}
    BY <1>1, EmptyMaps DEF Said
  <1>2. CASE UNCHANGED episodeVars
    BY <1>1, <1>2 DEF episodeVars
  <1>3. ASSUME NEW c \in EpClients,
               \/ SeriesAsked(c) \/ RebuildBegins(c) \/ RebuildFails(c)
               \/ \E s \in EpSources : MetadataServes(c, s) \/ ProviderServes(c, s) \/ ProviderFails(c, s)
        PROVE  \A d \in EpClients : askers'[d].found \in {askers[d].found, NoEpisodes, epRows}
    <2>1. askers \in [EpClients -> EpisodeRequests]
      BY DEF EpisodesInv, EpisodesTypeOK
    <2>2. CASE SeriesAsked(c)
      BY <2>1, <2>2 DEF SeriesAsked, NoRequest, EpisodeRequests
    <2>3. CASE RebuildBegins(c)
      BY <2>1, <2>3 DEF RebuildBegins, NoRequest, EpisodeRequests
    <2>4. CASE RebuildFails(c)
      BY <2>1, <2>4 DEF RebuildFails, NoRequest
    <2>5. ASSUME NEW s \in EpSources, ProviderFails(c, s)
          PROVE  \A d \in EpClients : askers'[d].found = askers[d].found
      BY <2>1, <2>5 DEF ProviderFails, EpisodeRequests
    <2>6. ASSUME NEW s \in EpSources, NEW keys, SourceAnswers(c, s, keys)
          PROVE  \A d \in EpClients : askers'[d].found = askers[d].found
      BY <2>1, <2>6 DEF SourceAnswers, EpisodeRequests
    <2> QED  BY <1>3, <2>2, <2>3, <2>4, <2>5, <2>6 DEF MetadataServes, ProviderServes
  <1>4. CASE \E c \in EpClients :
               \/ SeriesAsked(c) \/ RebuildBegins(c) \/ RebuildFails(c)
               \/ \E s \in EpSources : MetadataServes(c, s) \/ ProviderServes(c, s) \/ ProviderFails(c, s)
    BY <1>1, <1>3, <1>4
       DEF SeriesAsked, RebuildBegins, RebuildFails, MetadataServes, ProviderServes, ProviderFails
  <1>5. CASE \E s \in EpSources : \/ MetadataExpires(s)
                                  \/ \E k \in EpisodeKeys : EpisodeReleased(s, k) \/ EpisodeDropped(s, k)
    BY <1>1, <1>5 DEF MetadataExpires, EpisodeReleased, EpisodeDropped
  <1>6. ASSUME NEW c \in EpClients, RebuildCommits(c)
        PROVE  /\ c \in Asking /\ epIds' = epIds + Len(Added(c)) /\ Len(Added(c)) \in Nat
               /\ \A k \in EpisodeKeys, i \in Nat : Said(k, i)' =>
                    Said(k, i) \/ (i > epIds /\ i <= epIds' /\ Added(c)[i - epIds] = k)
    <2>1. /\ c \in Asking /\ epIds' = epIds + Len(Added(c))
          /\ listings' = [listings EXCEPT ![c] = Ids(c)] /\ askers' = [askers EXCEPT ![c] = NoRequest]
      BY <1>6 DEF RebuildCommits, Asking
    <2>2. Len(Added(c)) \in Nat /\ epIds \in Nat /\ DOMAIN Ids(c) = NamedNow(c)
      BY <2>1, IdsOfRebuild DEF EpisodesInv, EpisodesTypeOK
    <2> SUFFICES ASSUME NEW k \in EpisodeKeys, NEW i \in Nat, Said(k, i)'
                 PROVE  Said(k, i) \/ (i > epIds /\ i <= epIds' /\ Added(c)[i - epIds] = k)
      BY <2>1, <2>2
    <2>3. /\ listings'[c] = Ids(c) /\ \A d \in EpClients \ {c} : listings'[d] = listings[d]
          /\ askers'[c].found = NoEpisodes /\ \A d \in EpClients \ {c} : askers'[d] = askers[d]
      BY <2>1, NoRequestType DEF EpisodesInv, EpisodesTypeOK
    <2>4. Said(k, i) \/ (k \in NamedNow(c) /\ i = Ids(c)[k])
      <3>1. CASE k \in DOMAIN epRows' /\ epRows'[k] = i
        BY <1>6, <2>1, <3>1, RowsOfRebuild DEF Said
      <3>2. CASE \E d \in EpClients : k \in DOMAIN listings'[d] /\ listings'[d][k] = i
        BY <2>2, <2>3, <3>2 DEF Said
      <3>3. CASE \E d \in EpClients : k \in DOMAIN askers'[d].found /\ askers'[d].found[k] = i
        BY <2>3, <3>3, EmptyMaps DEF Said
      <3> QED  BY <3>1, <3>2, <3>3 DEF Said
    <2>5. CASE k \in NamedNow(c) /\ i = Ids(c)[k] /\ k \in DOMAIN askers[c].found
      BY <2>1, <2>5, IdsOfRebuild DEF Said
    <2>6. CASE k \in NamedNow(c) /\ i = Ids(c)[k] /\ k \notin DOMAIN askers[c].found
      <3>1. i \in (epIds + 1) .. (epIds + Len(Added(c))) /\ Added(c)[i - epIds] = k
        BY <2>1, <2>6, IdsOfRebuild
      <3> QED  BY <2>1, <2>2, <3>1
    <2> QED  BY <2>4, <2>5, <2>6
  <1>7. CASE \E c \in EpClients : RebuildCommits(c)
    BY <1>6, <1>7
  <1> QED  BY <1>2, <1>4, <1>5, <1>7 DEF EpisodesNext

LEMMA IdsInvHolds == EpisodesSpec => []IdsInv
  <1>1. EpisodesInit => IdsInv
    BY NoRequestType, EmptyMaps DEF EpisodesInit, IdsInv, Said
  <1>2. EpisodesInv /\ IdsInv /\ [EpisodesNext]_episodeVars => IdsInv'
    <2> SUFFICES ASSUME EpisodesInv, IdsInv, [EpisodesNext]_episodeVars PROVE IdsInv'
      OBVIOUS
    <2>1. epIds \in Nat
      BY DEF EpisodesInv, EpisodesTypeOK
    <2> HIDE DEF EpisodesInv
    <2>2. CASE epIds' = epIds /\ \A k \in EpisodeKeys, i \in Nat : Said(k, i)' => Said(k, i)
      BY <2>2 DEF IdsInv
    <2>3. ASSUME NEW c \in Asking, epIds' = epIds + Len(Added(c)), Len(Added(c)) \in Nat,
                 \A k \in EpisodeKeys, i \in Nat : Said(k, i)' =>
                   Said(k, i) \/ (i > epIds /\ i <= epIds' /\ Added(c)[i - epIds] = k)
          PROVE  IdsInv'
      <3>1. \A k \in EpisodeKeys, i \in Nat : Said(k, i) => i <= epIds
        BY DEF IdsInv
      <3>2. ASSUME NEW k \in EpisodeKeys, NEW i \in Nat, Said(k, i)', NEW j \in EpisodeKeys, Said(j, i)'
            PROVE  i <= epIds' /\ j = k
        <4>1. CASE i <= epIds
          <5>1. Said(k, i) /\ Said(j, i)
            BY <2>1, <2>3, <3>2, <4>1
          <5> QED  BY <2>1, <2>3, <4>1, <5>1 DEF IdsInv
        <4>2. CASE ~(i <= epIds)
          <5>1. ~Said(k, i) /\ ~Said(j, i)
            BY <3>1, <4>2
          <5> QED  BY <2>3, <3>2, <5>1
        <4> QED  BY <4>1, <4>2
      <3> QED  BY <3>2 DEF IdsInv
    <2> QED  BY <2>2, <2>3, SaidAnew
  <1> QED  BY <1>1, <1>2, EpisodesInvHolds, PTL DEF EpisodesSpec

(* An id never comes to mean another episode: what a client was told of is     *)
(* found under the id it was given, or not at all.                             *)
THEOREM IdsAreNeverReused == EpisodesSpec => []IdsNameOneEpisode
  <1>1. EpisodesInv /\ IdsInv => IdsNameOneEpisode
    <2> SUFFICES ASSUME EpisodesInv, IdsInv, NEW c \in EpClients,
                        NEW k \in DOMAIN listings[c], NEW j \in DOMAIN epRows, epRows[j] = listings[c][k]
                 PROVE  j = k
      BY DEF IdsNameOneEpisode
    <2>1. k \in EpisodeKeys /\ j \in EpisodeKeys /\ listings[c][k] \in Nat
      BY DEF EpisodesInv, EpisodesTypeOK, RowMaps
    <2>2. Said(k, listings[c][k]) /\ Said(j, listings[c][k])
      BY DEF Said
    <2> QED  BY <2>1, <2>2 DEF IdsInv
  <1> QED  BY <1>1, EpisodesInvHolds, IdsInvHolds, PTL
-----------------------------------------------------------------------------
(* The scan that looks programmes up (GuideLookup).                            *)

\* The keys the provider may have kept quiet about: those given up, all of them
\* in a scan without it; and all of them once it refused the key of the API.
GivenUp == IF "tmdb" \in sources THEN dropped ELSE QueryKeys
Excused == IF authFailed THEN QueryKeys ELSE GivenUp

Heard(k, answer, X) ==
  answer \in {"hit", "miss", "error"} /\ (answer = "miss" /\ Known(k) => k \in X)

\* What is known of a programme for which no series was found, of one for which
\* no film was either, and of one that waits for an answer to a key.
Found == {"none", "series", "episode"}
NoSeries(p, l, X) == l.tv = "none" /\ Known(QueryKey(p, "tv")) => QueryKey(p, "tv") \in X
NoFilm(p, l, X) == MayBeFilm(p) /\ ~l.movie /\ Known(QueryKey(p, "movie")) => QueryKey(p, "movie") \in X
Nothing(p, X) ==
  /\ Known(QueryKey(p, "tv")) => QueryKey(p, "tv") \in X
  /\ MayBeFilm(p) /\ Known(QueryKey(p, "movie")) => QueryKey(p, "movie") \in X
Comes(p, s, l, X) ==
  IF s = "image" THEN l.tv \in Found \union {"film"} /\ (l.tv = "none" => Nothing(p, X))
  ELSE l.tv \in Found /\ (s # "tv" => NoSeries(p, l, X))
Seeking(p, l, X) == \E s \in Steps : l.key = QueryKey(p, s) /\ Comes(p, s, l, X)

LookupHolds(p, l, X) ==
  /\ l.step \in Steps \union {"off", "queued", "ended", "await", "woken", "choose"}
  /\ l.step \in Steps => Comes(p, l.step, l, X)
  /\ l.step = "choose" => l.tv \in Found /\ NoSeries(p, l, X) /\ l.movie \in BOOLEAN /\ NoFilm(p, l, X)
  /\ l.step \in {"await", "woken"} => Seeking(p, l, X)
  /\ l.step = "woken" => Heard(l.key, l.answer, X)

\* What a lookup that ended without a match of the provider's has to show for it.
Earned(p, l) ==
  l.step = "ended" => /\ l.entry = "no_match" => Nothing(p, GivenUp)
                      /\ l.entry = "picture" => Nothing(p, Excused)

FlightTypeOK ==
  flight \in [QueryKeys -> [at : {"none", "check", "wait", "sent", "asleep", "hit", "miss", "error"},
                            tries : Nat]]

ScanInv ==
  /\ lookup = [p \in Programmes |-> lookup[p]] /\ FlightTypeOK
  /\ runCache \in [QueryKeys -> {"unknown", "hit", "miss"}] /\ authFailed \in BOOLEAN
  /\ dropped \subseteq QueryKeys
  /\ \A p \in Programmes : LookupHolds(p, lookup[p], Excused)
  /\ \A k \in QueryKeys : /\ flight[k].at = "miss" /\ Known(k) => k \in Excused
                          /\ runCache[k] = "miss" /\ Known(k) => k \in Excused
  /\ \A p \in Programmes : Earned(p, lookup[p])

\* What held of a lookup holds when more keys were given up.
LEMMA ExcusesAdd ==
  ASSUME NEW p, NEW l, NEW X, NEW Y, X \subseteq Y, LookupHolds(p, l, X)
  PROVE  LookupHolds(p, l, Y)
  BY DEF LookupHolds, Comes, Nothing, NoSeries, NoFilm, Seeking, Heard

\* A lookup that goes on to a step, with the series it found so far.
LEMMA GoingHolds ==
  ASSUME NEW p \in Programmes, NEW X, NEW step \in {"details", "season", "movie", "choose"},
         NEW tv \in Found, step = "choose" => ~MayBeFilm(p),
         tv = "none" /\ Known(QueryKey(p, "tv")) => QueryKey(p, "tv") \in X
  PROVE  LookupHolds(p, Going(step, tv, FALSE), X) /\ Going(step, tv, FALSE).step # "ended"
  <1> DEFINE next == Going(step, tv, FALSE)
  <1>1. next.step = step /\ next.tv = tv /\ next.movie = FALSE
    BY DEF Going
  <1>2. next.movie \in BOOLEAN
    BY <1>1
  <1> HIDE DEF next
  <1>3. NoSeries(p, next, X) /\ (step = "choose" => NoFilm(p, next, X))
    BY <1>1 DEF NoSeries, NoFilm
  <1>4. step \in Steps => Comes(p, step, next, X)
    BY <1>1, <1>3 DEF Comes
  <1>5. LookupHolds(p, next, X) /\ next.step # "ended"
    BY <1>1, <1>2, <1>3, <1>4 DEF LookupHolds, Steps
  <1> QED  BY <1>5 DEF next

\* A lookup that ends, with a match of the provider's or without.
LEMMA ConcludedHolds ==
  ASSUME NEW p \in Programmes, NEW pick \in Found \union {"film", "picture"},
         pick \in {"none", "picture"} => Nothing(p, Excused)
  PROVE  LookupHolds(p, Concluded(pick), Excused) /\ Earned(p, Concluded(pick))
  <1> DEFINE next == Concluded(pick)
             entry == IF pick # "none" THEN pick ELSE IF authFailed THEN "none" ELSE "no_match"
  <1>1. next.step = "ended" /\ next.entry = entry
    BY DEF Concluded, Ended
  <1>2. entry = "no_match" => Nothing(p, GivenUp)
    BY DEF Excused, Found
  <1>3. entry = "picture" => Nothing(p, Excused)
    OBVIOUS
  <1> HIDE DEF next, entry
  <1>4. LookupHolds(p, next, Excused)
    BY <1>1 DEF LookupHolds, Steps
  <1>5. Earned(p, next)
    BY <1>1, <1>2, <1>3 DEF Earned
  <1> QED  BY <1>4, <1>5 DEF next

\* Whatever comes after an answer, it was looked for where it had to be.
LEMMA OnwardHolds ==
  ASSUME NEW p \in Programmes, NEW s \in Steps, NEW l, NEW answer \in {"hit", "miss"},
         Comes(p, s, l, Excused), answer = "miss" /\ Known(QueryKey(p, s)) => QueryKey(p, s) \in Excused
  PROVE  LookupHolds(p, Onward(p, s, l.tv, answer), Excused) /\ Earned(p, Onward(p, s, l.tv, answer))
  <1> DEFINE next == Onward(p, s, l.tv, answer)
  <1> SUFFICES LookupHolds(p, next, Excused) /\ Earned(p, next)
    OBVIOUS
  <1>1. CASE s = "movie"
    <2>1. next = Going("choose", l.tv, answer = "hit")
      BY <1>1 DEF Onward
    <2>2. next.step = "choose" /\ next.tv = l.tv /\ next.movie = (answer = "hit")
      BY <2>1 DEF Going
    <2>3. answer = "hit" => next.movie
      BY <2>2
    <2>4. NoFilm(p, next, Excused)
      BY <1>1, <2>3 DEF NoFilm
    <2>5. next.movie \in BOOLEAN
      BY <2>2
    <2>6. l.tv \in Found /\ NoSeries(p, l, Excused)
      BY <1>1 DEF Comes
    <2> HIDE DEF next
    <2> QED  BY <2>2, <2>4, <2>5, <2>6 DEF LookupHolds, NoSeries, Steps, Earned
  <1>2. CASE s = "image"
    <2> DEFINE pick == IF l.tv = "none" /\ answer = "hit" THEN "picture" ELSE l.tv
    <2>1. next = Concluded(pick)
      BY <1>2 DEF Onward
    <2>2. pick \in Found \union {"film", "picture"} /\ (pick \in {"none", "picture"} => Nothing(p, Excused))
      BY <1>2 DEF Comes, Found
    <2> HIDE DEF next, pick
    <2> QED  BY <2>1, <2>2, ConcludedHolds
  <1>3. CASE s \notin {"movie", "image"}
    <2>1. \E step \in {"details", "season", AfterTv(p)}, tv \in {"series", "episode", l.tv} :
            next = Going(step, tv, FALSE) /\ (tv = "none" => ~(s = "tv" /\ answer = "hit"))
      <3>1. CASE s = "tv" /\ answer = "hit"
        <4>1. next = Going(IF Named(p) THEN "details" ELSE AfterTv(p), "series", FALSE)
          BY <3>1 DEF Onward
        <4> QED  BY <4>1
      <3>2. CASE s = "tv" /\ answer = "miss"
        BY <3>2 DEF Onward
      <3>3. CASE s = "details"
        BY <3>3 DEF Onward
      <3>4. CASE s = "season"
        BY <3>4 DEF Onward
      <3> QED  BY <1>3, <3>1, <3>2, <3>3, <3>4 DEF Steps
    <2>2. PICK step \in {"details", "season", AfterTv(p)}, tv \in {"series", "episode", l.tv} :
            next = Going(step, tv, FALSE) /\ (tv = "none" => ~(s = "tv" /\ answer = "hit"))
      BY <2>1
    <2>3. l.tv \in Found /\ (s # "tv" => NoSeries(p, l, Excused))
      BY <1>3 DEF Comes
    <2>4. /\ step \in {"details", "season", "movie", "choose"} /\ (step = "choose" => ~MayBeFilm(p))
          /\ tv \in Found
      BY <2>3 DEF AfterTv, Found
    <2>5. tv = "none" /\ Known(QueryKey(p, "tv")) => QueryKey(p, "tv") \in Excused
      BY <2>2, <2>3 DEF NoSeries
    <2>6. LookupHolds(p, Going(step, tv, FALSE), Excused) /\ Going(step, tv, FALSE).step # "ended"
      BY <2>4, <2>5, GoingHolds
    <2> QED  BY <2>2, <2>6 DEF Earned
  <1> QED  BY <1>1, <1>2, <1>3
-----------------------------------------------------------------------------
\* A step that changes one lookup, or several, keeps what is known of the others.
LEMMA LookupsKeep ==
  ASSUME ScanInv, lookup' = [p \in Programmes |-> lookup'[p]],
         Excused \subseteq Excused', GivenUp \subseteq GivenUp',
         \A p \in Programmes :
            \/ lookup'[p] = lookup[p]
            \/ LookupHolds(p, lookup'[p], Excused') /\ Earned(p, lookup[p])'
  PROVE  /\ \A p \in Programmes : LookupHolds(p, lookup'[p], Excused')
         /\ \A p \in Programmes : Earned(p, lookup[p])'
  <1>1. \A p \in Programmes : LookupHolds(p, lookup'[p], Excused')
    BY ExcusesAdd DEF ScanInv
  <1>2. \A p \in Programmes : Earned(p, lookup[p])'
    BY DEF ScanInv, Earned, Nothing
  <1> QED  BY <1>1, <1>2

LEMMA ScanKeeps ==
  ASSUME ScanInv, ScanBegins \/ ScanEnds \/ ScanFails
  PROVE  ScanInv'
  <1>1. CASE ScanBegins
    <2>1. /\ FlightTypeOK' /\ runCache' \in [QueryKeys -> {"unknown", "hit", "miss"}] /\ authFailed' \in BOOLEAN
          /\ dropped' \subseteq QueryKeys
      BY <1>1 DEF ScanBegins, FlightTypeOK, NoFlight
    <2>2. \A p \in Programmes : lookup'[p].step \in {"queued", "off"}
      BY <1>1 DEF ScanBegins, Off
    <2>3. lookup' = [p \in Programmes |-> lookup'[p]]
      BY <1>1 DEF ScanBegins
    <2>4. \A k \in QueryKeys : flight'[k].at = "none" /\ runCache'[k] = "unknown"
      BY <1>1 DEF ScanBegins, NoFlight
    <2>5. \A p \in Programmes : LookupHolds(p, lookup'[p], Excused')
      BY <2>2 DEF LookupHolds, Steps
    <2> QED  BY <2>1, <2>2, <2>3, <2>4, <2>5 DEF ScanInv, Earned
  <1>2. CASE ScanEnds \/ ScanFails
    <2>1. /\ lookup' = [p \in Programmes |-> Off]
          /\ UNCHANGED <<flight, runCache, authFailed, dropped, sources>>
      BY <1>2 DEF ScanEnds, ScanFails, limitVars
    <2>2. \A p \in Programmes : lookup'[p].step = "off"
      BY <2>1 DEF Off
    <2>3. \A p \in Programmes : LookupHolds(p, lookup'[p], Excused')
      BY <2>2 DEF LookupHolds, Steps
    <2> QED  BY <2>1, <2>2, <2>3 DEF ScanInv, FlightTypeOK, Earned, Excused, GivenUp
  <1> QED  BY <1>1, <1>2

\* A lookup takes a step.
LEMMA LookupKeeps ==
  ASSUME ScanInv, NEW p \in Programmes,
         LookupBegins(p) \/ Seeks(p) \/ Resumes(p) \/ Ends(p)
  PROVE  ScanInv'
  <1> DEFINE l == lookup[p]
  <1>1. /\ UNCHANGED <<authFailed, dropped, sources>> /\ Excused' = Excused
        /\ GivenUp' = GivenUp
    <2>1. UNCHANGED limitVars /\ UNCHANGED scanVars
      BY DEF LookupBegins, Seeks, Resumes, Ends
    <2> QED  BY <2>1 DEF limitVars, scanVars, Excused, GivenUp
  <1>2. LookupHolds(p, l, Excused)
    BY DEF ScanInv
  <1>3. ASSUME NEW m, Earned(p, m), lookup'[p] = m
        PROVE  Earned(p, lookup[p])'
    BY <1>1, <1>3 DEF Earned, Nothing
  <1>4. CASE LookupBegins(p)
    <2>1. UNCHANGED <<flight, runCache>>
      BY <1>4 DEF LookupBegins
    <2>2. PICK next \in {Ended("none"), Ended("skipped"), Going(FirstStep, "none", FALSE)} :
            lookup' = [lookup EXCEPT ![p] = next]
      BY <1>4 DEF LookupBegins
    <2>3. LookupHolds(p, next, Excused) /\ Earned(p, next)
      <3>1. CASE next \in {Ended("none"), Ended("skipped")}
        BY <3>1 DEF LookupHolds, Ended, Earned, Steps
      <3>2. CASE next = Going(FirstStep, "none", FALSE)
        <4>1. next.step = FirstStep /\ next.tv = "none" /\ next.movie = FALSE
          BY <3>2 DEF Going
        <4>2. next.movie \in BOOLEAN
          BY <4>1
        <4>3. CASE "tmdb" \in sources
          BY <4>1, <4>3 DEF FirstStep, LookupHolds, Comes, Found, Earned, Steps
        <4>4. CASE "tmdb" \notin sources
          <5>1. Excused = QueryKeys /\ QueryKey(p, "tv") \in QueryKeys /\ QueryKey(p, "movie") \in QueryKeys
            BY <4>4 DEF Excused, GivenUp, QueryKeys, Steps
          <5>2. NoSeries(p, next, Excused) /\ NoFilm(p, next, Excused) /\ next.step = "choose"
            BY <4>1, <4>4, <5>1 DEF NoSeries, NoFilm, FirstStep
          <5> QED  BY <4>1, <4>2, <5>2 DEF LookupHolds, Found, Earned, Steps
        <4> QED  BY <4>3, <4>4
      <3> QED  BY <3>1, <3>2
    <2>4. /\ lookup' = [q \in Programmes |-> lookup'[q]] /\ lookup'[p] = next
          /\ \A q \in Programmes \ {p} : lookup'[q] = lookup[q]
      BY <2>2 DEF ScanInv
    <2>5. Earned(p, lookup[p])'
      BY <1>3, <2>3, <2>4
    <2>6. \A q \in Programmes : LookupHolds(q, lookup'[q], Excused') /\ Earned(q, lookup[q])'
      BY <1>1, <2>3, <2>4, <2>5, LookupsKeep
    <2> QED  BY <1>1, <2>1, <2>4, <2>6 DEF ScanInv, FlightTypeOK
  <1>5. CASE Seeks(p)
    <2> DEFINE k == QueryKey(p, l.step)
               f == flight[k]
    <2>1. l.step \in Steps /\ k \in QueryKeys /\ k[1] = l.step
      BY <1>5 DEF Seeks, QueryKeys, QueryKey
    <2>2. Comes(p, l.step, l, Excused)
      BY <1>2, <2>1 DEF LookupHolds
    <2>3. Awaiting(l, k).step = "await" /\ Awaiting(l, k).key = k /\ Awaiting(l, k).tv = l.tv
      BY DEF Awaiting
    <2>4. CASE runCache[k] # "unknown"
      <3>1. lookup' = [lookup EXCEPT ![p] = Onward(p, l.step, l.tv, runCache[k])] /\ UNCHANGED <<flight, runCache>>
        BY <1>5, <2>1, <2>3, <2>4 DEF Seeks
      <3>2. runCache[k] \in {"hit", "miss"} /\ (runCache[k] = "miss" /\ Known(k) => k \in Excused)
        BY <2>1, <2>4 DEF ScanInv
      <3>3. LookupHolds(p, Onward(p, l.step, l.tv, runCache[k]), Excused)
            /\ Earned(p, Onward(p, l.step, l.tv, runCache[k]))
        BY <2>1, <2>2, <3>2, OnwardHolds
      <3>4. lookup' = [q \in Programmes |-> lookup'[q]] /\ \A q \in Programmes \ {p} : lookup'[q] = lookup[q]
        BY <3>1 DEF ScanInv
      <3>5. lookup'[p] = Onward(p, l.step, l.tv, runCache[k])
        BY <3>1 DEF ScanInv
      <3>7. Earned(p, lookup[p])'
        BY <1>3, <3>3, <3>5
      <3>6. \A q \in Programmes : LookupHolds(q, lookup'[q], Excused') /\ Earned(q, lookup[q])'
        BY <1>1, <3>3, <3>4, <3>5, <3>7, LookupsKeep
      <3> QED  BY <1>1, <3>1, <3>4, <3>6 DEF ScanInv, FlightTypeOK
    <2>5. CASE runCache[k] = "unknown"
      <3> DEFINE next == IF f.at \in {"hit", "miss", "error"} THEN Woken(Awaiting(l, k), f.at) ELSE Awaiting(l, k)
      <3>1. /\ lookup' = [lookup EXCEPT ![p] = next] /\ UNCHANGED runCache
            /\ flight' = IF f.at # "none" THEN flight ELSE [flight EXCEPT ![k] = [at |-> "check", tries |-> 0]]
        BY <1>5, <2>5 DEF Seeks
      <3>2. FlightTypeOK' /\ \A j \in QueryKeys : flight'[j].at = "miss" => flight[j].at = "miss"
        BY <2>1, <3>1 DEF ScanInv, FlightTypeOK
      <3>3. /\ next.step \in {"await", "woken"} /\ next.key = k /\ next.tv = l.tv
            /\ next.step = "woken" => f.at \in {"hit", "miss", "error"} /\ next.answer = f.at
        BY <2>3 DEF Woken
      <3>4. f.at = "miss" /\ Known(k) => k \in Excused
        BY <2>1 DEF ScanInv
      <3>5. lookup'[p] = next
        BY <3>1 DEF ScanInv
      <3> HIDE DEF next
      <3>6. LookupHolds(p, next, Excused)
        <4>1. Comes(p, l.step, next, Excused)
          BY <2>2, <3>3 DEF Comes, NoSeries
        <4>2. Seeking(p, next, Excused)
          BY <2>1, <3>3, <4>1 DEF Seeking
        <4> QED  BY <3>3, <3>4, <4>2 DEF LookupHolds, Heard, Steps
      <3>7. lookup' = [q \in Programmes |-> lookup'[q]] /\ \A q \in Programmes \ {p} : lookup'[q] = lookup[q]
        BY <3>1 DEF ScanInv
      <3>8. Earned(p, next)
        BY <3>3 DEF Earned
      <3>9. Earned(p, lookup[p])'
        BY <1>3, <3>5, <3>8
      <3>10. \A q \in Programmes : LookupHolds(q, lookup'[q], Excused') /\ Earned(q, lookup[q])'
        BY <1>1, <3>5, <3>6, <3>7, <3>9, LookupsKeep
      <3> QED  BY <1>1, <3>1, <3>2, <3>7, <3>10 DEF ScanInv
    <2> QED  BY <2>4, <2>5
  <1>6. CASE Resumes(p)
    <2>1. l.step = "woken" /\ Heard(l.key, l.answer, Excused) /\ Seeking(p, l, Excused)
      BY <1>2, <1>6 DEF Resumes, LookupHolds
    <2>2. PICK s \in Steps : l.key = QueryKey(p, s) /\ Comes(p, s, l, Excused)
      BY <2>1 DEF Seeking
    <2>3. l.key \in QueryKeys /\ l.key[1] = s
      BY <2>2 DEF QueryKeys, QueryKey
    <2>4. FlightTypeOK' /\ \A j \in QueryKeys : flight'[j].at = "miss" => flight[j].at = "miss"
      BY <1>6, <2>3 DEF Resumes, ScanInv, FlightTypeOK, NoFlight
    <2>5. /\ runCache' \in [QueryKeys -> {"unknown", "hit", "miss"}]
          /\ \A j \in QueryKeys : runCache'[j] = "miss" /\ Known(j) => j \in Excused
      BY <1>6, <2>1, <2>3 DEF Resumes, ScanInv, Heard
    <2>6. PICK next : next = IF l.answer = "error" THEN Ended("none") ELSE Onward(p, s, l.tv, l.answer)
      OBVIOUS
    <2>7. /\ lookup' = [q \in Programmes |-> lookup'[q]] /\ \A q \in Programmes \ {p} : lookup'[q] = lookup[q]
          /\ lookup'[p] = next
      BY <1>6, <2>3, <2>6 DEF Resumes, ScanInv
    <2>8. LookupHolds(p, next, Excused) /\ Earned(p, next)
      <3>1. CASE l.answer = "error"
        BY <2>6, <3>1 DEF LookupHolds, Ended, Earned, Steps
      <3>2. CASE l.answer # "error"
        BY <2>1, <2>2, <2>6, <3>2, OnwardHolds DEF Heard
      <3> QED  BY <3>1, <3>2
    <2>9. Earned(p, lookup[p])'
      BY <1>3, <2>7, <2>8
    <2>10. \A q \in Programmes : LookupHolds(q, lookup'[q], Excused') /\ Earned(q, lookup[q])'
      BY <1>1, <2>7, <2>8, <2>9, LookupsKeep
    <2> QED  BY <1>1, <2>4, <2>5, <2>7, <2>10 DEF ScanInv
  <1>7. CASE Ends(p)
    <2>1. l.step = "choose" /\ UNCHANGED <<flight, runCache>>
      BY <1>7 DEF Ends
    <2>2. PICK pick \in IF Picks(l) # {} THEN Picks(l) ELSE {"none"} :
            \/ lookup' = [lookup EXCEPT ![p] = Concluded(pick)]
            \/ lookup' = [lookup EXCEPT ![p] = Going("image", pick, FALSE)]
      BY <1>7 DEF Ends
    <2>3. l.tv \in Found /\ NoSeries(p, l, Excused) /\ NoFilm(p, l, Excused)
      BY <1>2, <2>1 DEF LookupHolds
    <2>4. pick \in Found \union {"film"} /\ (pick = "none" => l.tv = "none" /\ ~l.movie)
      BY <2>2, <2>3 DEF Picks, Found
    <2>5. pick = "none" => Nothing(p, Excused)
      BY <2>3, <2>4 DEF Nothing, NoSeries, NoFilm
    <2>6. PICK next \in {Concluded(pick), Going("image", pick, FALSE)} : lookup' = [lookup EXCEPT ![p] = next]
      BY <2>2
    <2>7. LookupHolds(p, next, Excused) /\ Earned(p, next)
      <3>1. CASE next = Concluded(pick)
        <4>1. pick # "picture"
          BY <2>4 DEF Found
        <4> QED  BY <2>4, <2>5, <3>1, <4>1, ConcludedHolds
      <3>2. CASE next = Going("image", pick, FALSE)
        <4>1. next.step = "image" /\ next.tv = pick
          BY <3>2 DEF Going
        <4> QED  BY <2>4, <2>5, <4>1 DEF LookupHolds, Comes, Earned, Steps
      <3> QED  BY <3>1, <3>2
    <2>8. /\ lookup' = [q \in Programmes |-> lookup'[q]] /\ \A q \in Programmes \ {p} : lookup'[q] = lookup[q]
          /\ lookup'[p] = next
      BY <2>6 DEF ScanInv
    <2>9. Earned(p, lookup[p])'
      BY <1>3, <2>7, <2>8
    <2>10. \A q \in Programmes : LookupHolds(q, lookup'[q], Excused') /\ Earned(q, lookup[q])'
      BY <1>1, <2>7, <2>8, <2>9, LookupsKeep
    <2> QED  BY <1>1, <2>1, <2>8, <2>10 DEF ScanInv, FlightTypeOK
  <1> QED  BY <1>4, <1>5, <1>6, <1>7

\* A request is made, answered or given up: all who wait for it are told, and a
\* key it was given up for without an answer is excused.
LEMMA RequestKeeps ==
  ASSUME ScanInv, NEW k \in QueryKeys,
         \/ Launches(k) \/ Granted(k) \/ Answers(k) \/ TooMany(k) \/ Wakes(k)
         \/ Unauthorised(k) \/ NotAnswered(k) \/ TimesOut(k)
  PROVE  ScanInv'
  <1>1. UNCHANGED runCache /\ authFailed' \in BOOLEAN /\ dropped' \subseteq QueryKeys
    BY DEF Launches, Granted, Answers, TooMany, Wakes, Unauthorised, NotAnswered, TimesOut, limitVars, ScanInv
  <1>2. dropped \subseteq dropped' /\ (authFailed => authFailed') /\ UNCHANGED sources
    BY DEF Launches, Granted, Answers, TooMany, Wakes, Unauthorised, NotAnswered, TimesOut, limitVars, scanVars
  <1>3. Excused \subseteq Excused' /\ GivenUp \subseteq GivenUp' /\ dropped' \subseteq Excused'
    BY <1>1, <1>2 DEF Excused, GivenUp, ScanInv
  <1>4. \/ UNCHANGED lookup /\ \E at \in {"wait", "sent"} : Goes(k, flight[k].at, at)
        \/ UNCHANGED lookup /\ flight' = [flight EXCEPT ![k] = [at |-> "asleep", tries |-> @.tries + 1]]
        \/ \E answer \in {"hit", "miss", "error"} :
              Delivers(k, answer) /\ (answer = "miss" /\ Known(k) => k \in Excused')
    <2>1. CASE Launches(k)
      <3>1. CASE suspended /\ OfTmdb(k)
        <4>1. Delivers(k, "miss") /\ (authFailed' \/ k \in dropped')
          BY <2>1, <3>1 DEF Launches
        <4> QED  BY <1>3, <4>1 DEF Excused
      <3>2. CASE ~(suspended /\ OfTmdb(k))
        BY <2>1, <3>2 DEF Launches, Goes
      <3> QED  BY <3>1, <3>2
    <2>2. CASE Granted(k) \/ Wakes(k)
      BY <2>2 DEF Granted, Wakes, Goes, limitVars
    <2>3. CASE Answers(k)
      BY <2>3 DEF Answers
    <2>4. CASE TooMany(k)
      BY <1>3, <2>4 DEF TooMany
    <2>5. CASE Unauthorised(k)
      BY <2>5 DEF Unauthorised, Excused
    <2>6. CASE NotAnswered(k)
      BY <1>3, <2>6 DEF NotAnswered
    <2>7. CASE TimesOut(k)
      BY <2>7 DEF TimesOut
    <2> QED  BY <2>1, <2>2, <2>3, <2>4, <2>5, <2>6, <2>7
  <1>5. FlightTypeOK' /\ \A j \in QueryKeys : flight'[j].at = "miss" /\ Known(j) => j \in Excused'
    <2>1. CASE \E at \in {"wait", "sent"} : Goes(k, flight[k].at, at)
      BY <1>3, <2>1 DEF Goes, ScanInv, FlightTypeOK
    <2>2. CASE flight' = [flight EXCEPT ![k] = [at |-> "asleep", tries |-> @.tries + 1]]
      BY <1>3, <2>2 DEF ScanInv, FlightTypeOK
    <2>3. CASE \E answer \in {"hit", "miss", "error"} :
                 Delivers(k, answer) /\ (answer = "miss" /\ Known(k) => k \in Excused')
      BY <1>3, <2>3 DEF Delivers, ScanInv, FlightTypeOK
    <2> QED  BY <1>4, <2>1, <2>2, <2>3
  <1>6. /\ lookup' = [p \in Programmes |-> lookup'[p]]
        /\ \A p \in Programmes : \/ lookup'[p] = lookup[p]
                                 \/ LookupHolds(p, lookup'[p], Excused') /\ Earned(p, lookup[p])'
    <2>1. CASE UNCHANGED lookup
      BY <2>1 DEF ScanInv
    <2>2. CASE \E answer \in {"hit", "miss", "error"} :
                 Delivers(k, answer) /\ (answer = "miss" /\ Known(k) => k \in Excused')
      <3>1. PICK answer \in {"hit", "miss", "error"} :
              Delivers(k, answer) /\ (answer = "miss" /\ Known(k) => k \in Excused')
        BY <2>2
      <3>2. lookup' = [p \in Programmes |-> lookup'[p]]
        BY <3>1 DEF Delivers
      <3> SUFFICES ASSUME NEW p \in Programmes, lookup[p].step = "await", lookup[p].key = k,
                          lookup'[p] = Woken(lookup[p], answer)
                   PROVE  LookupHolds(p, lookup'[p], Excused') /\ Earned(p, lookup[p])'
        BY <3>1, <3>2 DEF Delivers
      <3> DEFINE l == lookup[p]  next == lookup'[p]
      <3>3. next.step = "woken" /\ next.key = k /\ next.tv = l.tv /\ next.answer = answer
        BY DEF Woken
      <3>4. LookupHolds(p, l, Excused')
        BY <1>3, ExcusesAdd DEF ScanInv
      <3>5. Seeking(p, l, Excused')
        BY <3>4 DEF LookupHolds
      <3> HIDE DEF next
      <3>6. Seeking(p, next, Excused')
        BY <3>3, <3>5 DEF Seeking, Comes, NoSeries
      <3>7. LookupHolds(p, next, Excused')
        BY <3>1, <3>3, <3>6 DEF LookupHolds, Heard, Steps
      <3>8. lookup'[p].step # "ended"
        BY <3>3 DEF next
      <3>9. Earned(p, lookup[p])'
        BY <3>8 DEF Earned
      <3> QED  BY <3>7, <3>9 DEF next
    <2> QED  BY <1>4, <2>1, <2>2
  <1>7. \A p \in Programmes : LookupHolds(p, lookup'[p], Excused') /\ Earned(p, lookup[p])'
    BY <1>3, <1>6, LookupsKeep
  <1> QED  BY <1>1, <1>3, <1>5, <1>6, <1>7 DEF ScanInv

LEMMA ScanInvHolds == LookupSpec => []ScanInv
  <1>1. LookupInit => ScanInv
    <2> SUFFICES ASSUME LookupInit PROVE ScanInv
      OBVIOUS
    <2>1. FlightTypeOK /\ runCache \in [QueryKeys -> {"unknown", "hit", "miss"}]
      BY DEF LookupInit, FlightTypeOK, NoFlight
    <2>2. \A p \in Programmes : lookup[p].step = "off"
      BY DEF LookupInit, Off
    <2>3. \A k \in QueryKeys : flight[k].at = "none" /\ runCache[k] = "unknown"
      BY DEF LookupInit, NoFlight
    <2>4. \A p \in Programmes : LookupHolds(p, lookup[p], Excused)
      BY <2>2 DEF LookupHolds, Steps
    <2> QED  BY <2>1, <2>2, <2>3, <2>4 DEF ScanInv, Earned, LookupInit
  <1>2. ScanInv /\ [LookupNext]_lookupVars => ScanInv'
    <2> SUFFICES ASSUME ScanInv, [LookupNext]_lookupVars PROVE ScanInv'
      OBVIOUS
    <2>1. CASE UNCHANGED lookupVars \/ CallExpires \/ \E h \in Hashes : EntryExpires(h)
      <3>1. UNCHANGED <<lookup, runCache, flight, authFailed, dropped, sources>>
        BY <2>1 DEF lookupVars, limitVars, scanVars, CallExpires, EntryExpires
      <3>2. UNCHANGED <<Excused, GivenUp>>
        BY <3>1 DEF Excused, GivenUp
      <3> QED  BY <3>1, <3>2 DEF ScanInv, FlightTypeOK, Earned, Nothing
    <2> QED  BY <2>1, ScanKeeps, LookupKeeps, RequestKeeps DEF LookupNext
  <1> QED  BY <1>1, <1>2, PTL DEF LookupSpec

\* A title is set aside without a match only by a provider that knows neither its
\* series nor, if what was looked up may be one, a film of its title, or that gave
\* up a request for it other than by refusing the key of the API; but for a scan
\* without that provider, and for a refusal where Google has a picture
\* (update_channel_epg_with_online_data).
THEOREM NoMatchIsTheProviders == LookupSpec => []NoMatchIsEarned
  <1>1. ScanInv => NoMatchIsEarned
    <2> SUFFICES ASSUME ScanInv, NEW p \in Programmes, NEW q \in Programmes,
                        lookup[p].step = "ended", lookup[p].entry \in {"no_match", "picture"},
                        Hash(q) = Hash(p), "tmdb" \in sources,
                        ~(lookup[p].entry = "picture" /\ authFailed)
                 PROVE  /\ Known(QueryKey(q, "tv")) => QueryKey(q, "tv") \in dropped
                        /\ MayBeFilm(p) /\ Known(QueryKey(q, "movie")) => QueryKey(q, "movie") \in dropped
      BY DEF NoMatchIsEarned
    <2>1. QueryKey(q, "tv") = QueryKey(p, "tv") /\ QueryKey(q, "movie") = QueryKey(p, "movie")
      BY ShowOfHash DEF Hash, QueryKey
    <2>2. Nothing(p, dropped)
      BY DEF ScanInv, Earned, Excused, GivenUp
    <2> QED  BY <2>1, <2>2 DEF Nothing
  <1> QED  BY <1>1, ScanInvHolds, PTL
-----------------------------------------------------------------------------
(* Who is watching (StreamActivity).                                          *)

SessionStates == {"none", "active", "stale", "history"}

ActivityTypeOK ==
  /\ session \in [Conns -> SessionStates] /\ file \in [Conns -> SessionStates]
  /\ stopping \in [Conns -> Nat] /\ open \subseteq Conns /\ lost \subseteq Conns

ActivityInv == ActivityTypeOK /\ OpenIsTracked

\* A session is marked, touched or stopped.
LEMMA TrackerKeeps ==
  ASSUME ActivityInv, NEW c \in Conns, UNCHANGED <<kind, file>>,
         Marked(c, TRUE) \/ Marked(c, FALSE) \/ Touched(c) \/ Stopped(c) \/ UNCHANGED logVars
  PROVE  ActivityInv'
  <1> USE DEF ActivityInv, ActivityTypeOK, SessionStates
  <1>1. CASE Marked(c, TRUE) \/ Marked(c, FALSE)
    BY <1>1 DEF Marked, Live, OpenIsTracked
  <1>2. CASE Touched(c)
    BY <1>2 DEF Touched, Live, OpenIsTracked
  <1>3. CASE Stopped(c)
    <2>1. stopping[c] + 1 \in Nat /\ stopping[c] + 1 > 0
      OBVIOUS
    <2> QED  BY <1>3, <2>1 DEF Stopped, Live, OpenIsTracked
  <1>4. CASE UNCHANGED logVars
    BY <1>4 DEF logVars, Live, OpenIsTracked
  <1> QED  BY <1>1, <1>2, <1>3, <1>4

\* What the tracker does by itself, and what the poller brings.
LEMMA UpkeepKeeps ==
  ASSUME ActivityInv, CleanupActivity \/ SaveState \/ Restarts \/ (\E c \in Conns : AuditsStop(c) \/ GoesStale(c))
  PROVE  ActivityInv'
  <1> USE DEF ActivityInv, ActivityTypeOK, SessionStates
  <1>1. CASE CleanupActivity
    <2>1. UNCHANGED <<kind, file, open, lost>>
      BY <1>1 DEF CleanupActivity, fixedVars
    <2>2. PICK old \in SUBSET {c \in Conns : session[c] = "history"} :
            /\ session' = [c \in Conns |-> IF session[c] = "stale" THEN "history"
                                           ELSE IF c \in old THEN "none" ELSE session[c]]
            /\ stopping' = [c \in Conns |-> IF session[c] = "stale" /\ kind[c] # "tvh"
                                            THEN stopping[c] + 1 ELSE stopping[c]]
      BY <1>1 DEF CleanupActivity
    <2>3. ActivityTypeOK'
      BY <2>1, <2>2
    <2>4. OpenIsTracked'
      BY <2>1, <2>2 DEF OpenIsTracked, Live
    <2> QED  BY <2>3, <2>4
  <1>2. CASE SaveState
    BY <1>2 DEF SaveState, logVars, OpenIsTracked, Live
  <1>3. CASE Restarts
    BY <1>3 DEF Restarts, OpenIsTracked, Live
  <1>4. ASSUME NEW c \in Conns, AuditsStop(c) PROVE ActivityInv'
    BY <1>4 DEF AuditsStop, fixedVars, OpenIsTracked, Live
  <1>5. ASSUME NEW c \in Conns, GoesStale(c) PROVE ActivityInv'
    BY <1>5 DEF GoesStale, fixedVars, OpenIsTracked, Live
  <1> QED  BY <1>1, <1>2, <1>3, <1>4, <1>5

LEMMA ActivityInvHolds == ActivitySpec => []ActivityInv
  <1>1. ActivityInit => ActivityInv
    BY DEF ActivityInit, ActivityInv, ActivityTypeOK, SessionStates, OpenIsTracked
  <1>2. ActivityInv /\ [ActivityNext]_activityVars => ActivityInv'
    <2> SUFFICES ASSUME ActivityInv, [ActivityNext]_activityVars PROVE ActivityInv'
      OBVIOUS
    <2>1. CASE UNCHANGED activityVars \/ OthersPlay \/ PollBegins \/ PollEnds
      <3>1. UNCHANGED <<kind, file, session, stopping, open, lost>>
        BY <2>1 DEF activityVars, OthersPlay, PollBegins, PollEnds, fixedVars, logVars
      <3> QED  BY <3>1 DEF ActivityInv, ActivityTypeOK, OpenIsTracked, Live
    <2>2. ASSUME NEW c \in Conns,
                 \/ OpensStream(c) \/ StreamRefused(c) \/ StreamMarked(c) \/ StreamBegins(c)
                 \/ StreamFlows(c) \/ StreamEnds(c) \/ StreamStopped(c) \/ OpensVod(c) \/ VodBegins(c)
          PROVE  ActivityInv'
      <3>1. /\ UNCHANGED <<kind, file>>
            /\ Marked(c, TRUE) \/ Marked(c, FALSE) \/ Touched(c) \/ Stopped(c) \/ UNCHANGED logVars
        BY <2>2 DEF OpensStream, StreamRefused, StreamMarked, StreamBegins, StreamFlows, StreamEnds,
                    StreamStopped, OpensVod, VodBegins, fixedVars
      <3> QED  BY <3>1, TrackerKeeps
    <2>3. ASSUME NEW c \in Conns,
                 \/ RequestsPlaylist(c) \/ GatePasses(c) \/ ShowsSlate(c) \/ Subscribes(c)
                 \/ PlaylistReady(c) \/ RequestsSegment(c) \/ PrunesClient(c) \/ GivesUp(c)
                 \/ IngestStops(c) \/ SendsHeartbeat(c) \/ Heartbeat(c) \/ PlaybackStop(c)
          PROVE  ActivityInv'
      <3>1. /\ UNCHANGED <<kind, file>>
            /\ Marked(c, TRUE) \/ Touched(c) \/ Stopped(c) \/ UNCHANGED logVars
        BY <2>3 DEF RequestsPlaylist, GatePasses, ShowsSlate, Subscribes, PlaylistReady, RequestsSegment,
                    PrunesClient, GivesUp, IngestStops, SendsHeartbeat, Heartbeat, PlaybackStop, fixedVars
      <3> QED  BY <3>1, TrackerKeeps
    <2>4. ASSUME NEW c \in Conns,
                 Disconnects(c) \/ TvhSubscribes(c) \/ TvhUnsubscribes(c) \/ PollMarks(c) \/ PollStops(c)
          PROVE  ActivityInv'
      <3>1. /\ UNCHANGED <<kind, file>>
            /\ Marked(c, TRUE) \/ Marked(c, FALSE) \/ Stopped(c) \/ UNCHANGED logVars
        <4>1. CASE PollMarks(c)
          <5>1. UNCHANGED <<kind, file>> /\ Marked(c, c \notin previous)
            BY <4>1 DEF PollMarks, fixedVars
          <5> QED  BY <5>1 DEF Marked
        <4> QED  BY <2>4, <4>1 DEF Disconnects, TvhSubscribes, TvhUnsubscribes, PollStops, fixedVars
      <3> QED  BY <3>1, TrackerKeeps
    <2> QED  BY <2>1, <2>2, <2>3, <2>4, UpkeepKeeps DEF ActivityNext
  <1> QED  BY <1>1, <1>2, PTL DEF ActivitySpec

\* A start in the audit log is followed by a stop or stands for a session that
\* lives, whatever clients, heartbeats, the cleanup and restarts do, except for
\* what a restart forgot and what the poller is to tell (StreamActivityTracker).
THEOREM StartsAreTracked == ActivitySpec => []OpenIsTracked
  <1>1. ActivityInv => OpenIsTracked
    BY DEF ActivityInv
  <1> QED  BY <1>1, ActivityInvHolds, PTL
-----------------------------------------------------------------------------
(* From what a viewer asks for to what is played (StreamStart).               *)

IsMedium(m) ==
  /\ m = [id |-> m.id, vod |-> m.vod, video |-> m.video, audio |-> m.audio, container |-> m.container,
          deinterlace |-> m.deinterlace, scaled |-> m.scaled]
  /\ m.deinterlace \in BOOLEAN /\ m.scaled \in BOOLEAN
IsPolicy(p) ==
  /\ p = [mode |-> p.mode, video |-> p.video, audio |-> p.audio, container |-> p.container, seg |-> p.seg,
          scaled |-> p.scaled, deinterlace |-> p.deinterlace, hwaccel |-> p.hwaccel, decode |-> p.decode]
  /\ p.scaled \in BOOLEAN /\ p.deinterlace \in BOOLEAN /\ p.hwaccel \in BOOLEAN /\ p.decode \in BOOLEAN

\* Policies that make the same of a picture, with or without a GPU.
SameWork(p, q) ==
  /\ p.mode = q.mode /\ p.video = q.video /\ p.audio = q.audio /\ p.container = q.container /\ p.seg = q.seg
  /\ p.scaled = q.scaled /\ p.deinterlace = q.deinterlace

\* What a viewer who asked for a policy is to be given.
Meets(asked, got) ==
  /\ asked.video \in {"", got.video} /\ asked.audio \in {"", got.audio}
  /\ got.container = IF asked.container = "hls" THEN asked.seg ELSE asked.container
  /\ asked.scaled => got.scaled
  /\ asked.deinterlace /\ asked.video # "" => got.deinterlace

LEMMA SameResult ==
  ASSUME NEW stage, NEW p, NEW q, SameWork(p, q)
  PROVE  Result(stage, p) = Result(stage, q)
  BY DEF SameWork, Result, Encodes

\* What a command makes of a medium.
MadeBy(m, p, got) ==
  /\ IsMedium(got)
  /\ got.video = IF p.mode = "transcode" /\ p.video # "" THEN p.video ELSE m.video
  /\ got.audio = IF p.mode = "transcode" /\ p.audio # "" THEN p.audio ELSE m.audio
  /\ got.container = IF p.container = "hls" THEN p.seg ELSE p.container
  /\ got.deinterlace <=> m.deinterlace \/ (p.mode = "transcode" /\ p.video # "" /\ p.deinterlace)
  /\ got.scaled <=> m.scaled \/ (p.mode = "transcode" /\ p.video # "" /\ p.scaled)

LEMMA ResultIs ==
  ASSUME NEW stage, NEW p, IsMedium(stage.reads), IsPolicy(p)
  PROVE  MadeBy(stage.reads, p, Result(stage, p))
  <1> DEFINE got == Result(stage, p)  m == stage.reads
             enc == p.mode = "transcode" /\ p.video # ""
             v == IF enc THEN p.video ELSE m.video
             a == IF p.mode = "transcode" /\ p.audio # "" THEN p.audio ELSE m.audio
             c == IF p.container = "hls" THEN p.seg ELSE p.container
             d == m.deinterlace \/ (enc /\ p.deinterlace)
             s == m.scaled \/ (enc /\ p.scaled)
  <1>1. got = [m EXCEPT !.video = v, !.audio = a, !.container = c, !.deinterlace = d, !.scaled = s]
    BY DEF Result, Encodes
  <1>2. d \in BOOLEAN /\ s \in BOOLEAN
    OBVIOUS
  <1> HIDE DEF got, v, a, c, d, s
  <1>3. got = [id |-> m.id, vod |-> m.vod, video |-> v, audio |-> a, container |-> c, deinterlace |-> d, scaled |-> s]
    BY <1>1 DEF IsMedium
  <1>4. got.video = v /\ got.audio = a /\ got.container = c /\ got.deinterlace = d /\ got.scaled = s
    BY <1>3
  <1>5. IsMedium(got)
    BY <1>2, <1>3, <1>4 DEF IsMedium
  <1>6. got.deinterlace <=> m.deinterlace \/ (enc /\ p.deinterlace)
    BY <1>4 DEF d
  <1>7. got.scaled <=> m.scaled \/ (enc /\ p.scaled)
    BY <1>4 DEF s
  <1>8. got.video = v /\ got.audio = a /\ got.container = c
    BY <1>4
  <1> QED  BY <1>5, <1>6, <1>7, <1>8 DEF got, v, a, c, MadeBy

\* What PolicyOf makes of a request.
IsGranted(p) ==
  /\ IsPolicy(p) /\ (p.scaled => p.video # "")
  /\ p.mode = IF p.video # "" \/ p.audio # "" THEN "transcode" ELSE "remux"

LEMMA PolicyIsGranted ==
  ASSUME NEW r
  PROVE  IsGranted(PolicyOf(r))
  <1> DEFINE known == r.profile \in SUPPORTED_STREAM_PROFILES
             p == IF known THEN r.profile ELSE TVH_CSO_DEFAULT_PROFILE
             mode == IF Transcodes(p) THEN "transcode" ELSE "remux"
             seg == IF p[3] = "hls" /\ r.seg # "" THEN r.seg ELSE DefaultSegment(p)
             s == r.scaled /\ p[1] # ""
             d == known /\ setup.deinterlace
             h == known /\ setup.hwaccel
             got == PolicyOf(r)
  <1>1. got = [mode |-> mode, video |-> p[1], audio |-> p[2], container |-> p[3], seg |-> seg,
               scaled |-> s, deinterlace |-> d, hwaccel |-> h, decode |-> TRUE]
    BY DEF PolicyOf
  <1>2. s \in BOOLEAN /\ d \in BOOLEAN /\ h \in BOOLEAN /\ (s => p[1] # "")
    OBVIOUS
  <1>3. mode = IF p[1] # "" \/ p[2] # "" THEN "transcode" ELSE "remux"
    BY DEF Transcodes
  <1> HIDE DEF got, p, mode, seg, s, d, h
  <1>4. /\ got.mode = mode /\ got.video = p[1] /\ got.audio = p[2] /\ got.container = p[3] /\ got.seg = seg
        /\ got.scaled = s /\ got.deinterlace = d /\ got.hwaccel = h /\ got.decode = TRUE
    BY <1>1
  <1>5. got.decode \in BOOLEAN
    BY <1>4
  <1>6. IsPolicy(got)
    BY <1>1, <1>2, <1>4, <1>5 DEF IsPolicy
  <1>7. got.scaled => got.video # ""
    BY <1>2, <1>4
  <1>8. got.mode = IF got.video # "" \/ got.audio # "" THEN "transcode" ELSE "remux"
    BY <1>3, <1>4
  <1> QED  BY <1>6, <1>7, <1>8 DEF got, IsGranted

\* A command made for all that was asked gives what was asked, whatever it reads.
LEMMA OneStageMeets ==
  ASSUME NEW asked, IsGranted(asked), NEW stage, IsMedium(stage.reads), IsPolicy(stage.base),
         SameWork(stage.base, asked) \/ stage.base = [asked EXCEPT !.mode = "transcode", !.decode = setup.decode]
  PROVE  Meets(asked, Result(stage, stage.base))
  <1> DEFINE p == stage.base  got == Result(stage, p)
  <1>1. /\ p.video = asked.video /\ p.audio = asked.audio /\ p.container = asked.container /\ p.seg = asked.seg
        /\ p.mode \in {asked.mode, "transcode"}
    BY DEF SameWork, IsGranted, IsPolicy
  <1>2. (p.scaled <=> asked.scaled) /\ (p.deinterlace <=> asked.deinterlace)
    BY DEF SameWork, IsGranted, IsPolicy
  <1>3. MadeBy(stage.reads, p, got)
    BY ResultIs
  <1> HIDE DEF got, p
  <1>4. asked.video # "" \/ asked.audio # "" => p.mode = "transcode"
    BY <1>1 DEF IsGranted
  <1>5. asked.video \in {"", got.video} /\ asked.audio \in {"", got.audio}
    BY <1>1, <1>3, <1>4 DEF MadeBy
  <1>6. asked.scaled => got.scaled
    BY <1>1, <1>2, <1>3, <1>4 DEF IsGranted, MadeBy
  <1>7. asked.deinterlace /\ asked.video # "" => got.deinterlace
    BY <1>1, <1>2, <1>3, <1>4 DEF MadeBy
  <1>8. got.container = IF asked.container = "hls" THEN asked.seg ELSE asked.container
    BY <1>1, <1>3 DEF MadeBy
  <1>9. Meets(asked, got)
    BY <1>5, <1>6, <1>7, <1>8 DEF Meets
  <1> QED  BY <1>9 DEF got, p
-----------------------------------------------------------------------------
\* The feed of a 24/7 channel is always encoded, for the viewer it is made for.
LEMMA ChannelPolicyIs ==
  ASSUME NEW asked, IsGranted(asked)
  PROVE  LET made == ChannelPolicy(asked) IN
         /\ IsPolicy(made) /\ made.mode = "transcode" /\ made.video # "" /\ made.audio # ""
         /\ made.deinterlace = asked.deinterlace
  <1> DEFINE made == ChannelPolicy(asked)
             v == IF asked.video \in TsVideo THEN asked.video ELSE "h264"
             a == IF asked.audio = "" THEN "aac" ELSE asked.audio
  <1>1. made = [asked EXCEPT !.mode = "transcode", !.container = "hls", !.seg = "fmp4", !.scaled = FALSE,
                             !.video = v, !.audio = a]
    BY DEF ChannelPolicy
  <1>2. v # "" /\ a # ""
    BY DEF TsVideo
  <1> HIDE DEF made, v, a
  <1>3. made = [mode |-> "transcode", video |-> v, audio |-> a, container |-> "hls", seg |-> "fmp4",
                scaled |-> FALSE, deinterlace |-> asked.deinterlace, hwaccel |-> asked.hwaccel,
                decode |-> asked.decode]
    BY <1>1 DEF IsGranted, IsPolicy
  <1>4. /\ made.mode = "transcode" /\ made.video = v /\ made.audio = a /\ made.container = "hls"
        /\ made.seg = "fmp4" /\ made.scaled = FALSE /\ made.deinterlace = asked.deinterlace
        /\ made.hwaccel = asked.hwaccel /\ made.decode = asked.decode
    BY <1>3
  <1>5. made.scaled \in BOOLEAN
    BY <1>4
  <1>6. IsPolicy(made)
    BY <1>3, <1>4, <1>5 DEF IsGranted, IsPolicy
  <1> QED  BY <1>2, <1>4, <1>6 DEF made

\* What a viewer's output does to the feed is a policy, with the container asked.
LEMMA OutputPolicyIs ==
  ASSUME NEW asked, IsGranted(asked), NEW made
  PROVE  LET asks == OutputOfChannel(asked, made) IN
         /\ IsPolicy(asks) /\ asks.container = asked.container /\ asks.seg = asked.seg
         /\ \/ asks = asked
            \/ /\ (asked.scaled \/ ~Suffices(asked, made)) /\ asks.scaled = asked.scaled
               /\ asks.mode = asked.mode /\ asks.video = asked.video /\ asks.audio = asked.audio
            \/ ~asked.scaled /\ Suffices(asked, made) /\ asks.mode = "remux"
  <1> DEFINE asks == OutputOfChannel(asked, made)
             d == asked.deinterlace /\ ~made.deinterlace
             clean == [asked EXCEPT !.deinterlace = d]
             copy == [clean EXCEPT !.mode = "remux", !.video = "copy", !.audio = "copy"]
  <1>1. asks \in {asked, clean, copy}
    BY DEF OutputOfChannel
  <1>2. /\ asks # asked => asked.container # "webm"
        /\ asked.container # "webm" => asks = IF asked.scaled \/ ~Suffices(asked, made) THEN clean ELSE copy
    BY DEF OutputOfChannel
  <1>3. d \in BOOLEAN
    OBVIOUS
  <1> HIDE DEF asks, d
  <1>4. clean = [mode |-> asked.mode, video |-> asked.video, audio |-> asked.audio, container |-> asked.container,
                 seg |-> asked.seg, scaled |-> asked.scaled, deinterlace |-> d, hwaccel |-> asked.hwaccel,
                 decode |-> asked.decode]
    <2>1. asked = [mode |-> asked.mode, video |-> asked.video, audio |-> asked.audio, container |-> asked.container,
                   seg |-> asked.seg, scaled |-> asked.scaled, deinterlace |-> asked.deinterlace,
                   hwaccel |-> asked.hwaccel, decode |-> asked.decode]
      BY DEF IsGranted, IsPolicy
    <2> QED  BY <2>1
  <1> HIDE DEF clean
  <1>5. /\ clean.mode = asked.mode /\ clean.video = asked.video /\ clean.audio = asked.audio
        /\ clean.container = asked.container /\ clean.seg = asked.seg /\ clean.scaled = asked.scaled
        /\ clean.deinterlace = d /\ clean.hwaccel = asked.hwaccel /\ clean.decode = asked.decode
    BY <1>4
  <1>6. /\ copy = [clean EXCEPT !.mode = "remux", !.video = "copy", !.audio = "copy"]
        /\ clean = [mode |-> clean.mode, video |-> clean.video, audio |-> clean.audio, container |-> clean.container,
                    seg |-> clean.seg, scaled |-> clean.scaled, deinterlace |-> clean.deinterlace,
                    hwaccel |-> clean.hwaccel, decode |-> clean.decode]
    BY <1>4, <1>5
  <1> HIDE DEF copy
  <1>7. copy = [mode |-> "remux", video |-> "copy", audio |-> "copy", container |-> clean.container,
                seg |-> clean.seg, scaled |-> clean.scaled, deinterlace |-> clean.deinterlace,
                hwaccel |-> clean.hwaccel, decode |-> clean.decode]
    BY <1>6
  <1>8. /\ copy.mode = "remux" /\ copy.video = "copy" /\ copy.audio = "copy"
        /\ copy.container = asked.container /\ copy.seg = asked.seg /\ copy.scaled = asked.scaled
        /\ copy.deinterlace = d /\ copy.hwaccel = asked.hwaccel /\ copy.decode = asked.decode
    BY <1>5, <1>7
  <1>9. IsPolicy(clean) /\ IsPolicy(copy)
    BY <1>3, <1>4, <1>5, <1>7, <1>8 DEF IsGranted, IsPolicy
  <1>10. CASE asks = asked
    BY <1>10 DEF asks, IsGranted
  <1>11. CASE asks # asked /\ (asked.scaled \/ ~Suffices(asked, made))
    BY <1>2, <1>5, <1>9, <1>11 DEF asks
  <1>12. CASE asks # asked /\ ~(asked.scaled \/ ~Suffices(asked, made))
    BY <1>2, <1>8, <1>9, <1>12 DEF asks
  <1> QED  BY <1>10, <1>11, <1>12

\* Feed and output of a channel together give what was asked.
LEMMA ChannelMeets ==
  ASSUME NEW asked, IsGranted(asked), NEW first, IsMedium(first.reads), NEW last,
         first.base = ChannelPolicy(asked), last.base = OutputOfChannel(asked, ChannelPolicy(asked)),
         last.reads = Result(first, ChannelPolicy(asked))
  PROVE  /\ IsMedium(last.reads) /\ IsPolicy(first.base) /\ IsPolicy(last.base)
         /\ Meets(asked, Result(last, last.base))
  <1> DEFINE made == ChannelPolicy(asked)  fed == last.reads  asks == last.base  got == Result(last, asks)
  <1>1. /\ IsPolicy(made) /\ made.mode = "transcode" /\ made.video # "" /\ made.audio # ""
        /\ made.deinterlace = asked.deinterlace
    BY ChannelPolicyIs
  <1>2. /\ IsPolicy(asks) /\ asks.container = asked.container /\ asks.seg = asked.seg
        /\ \/ asks = asked
           \/ /\ (asked.scaled \/ ~Suffices(asked, made)) /\ asks.scaled = asked.scaled
              /\ asks.mode = asked.mode /\ asks.video = asked.video /\ asks.audio = asked.audio
           \/ ~asked.scaled /\ Suffices(asked, made) /\ asks.mode = "remux"
    BY OutputPolicyIs
  <1>3. MadeBy(first.reads, made, fed)
    BY <1>1, ResultIs
  <1>4. IsMedium(fed)
    BY <1>3 DEF MadeBy
  <1>5. MadeBy(fed, asks, got)
    BY <1>2, <1>4, ResultIs
  <1>6. Meets(asked, got)
    <2>1. CASE asks = asked
      BY <1>2, <1>4, <2>1, OneStageMeets DEF SameWork
    <2> HIDE DEF made, asks, fed, got
    <2>2. fed.video = made.video /\ fed.audio = made.audio /\ (asked.deinterlace => fed.deinterlace)
      BY <1>1, <1>3 DEF MadeBy
    <2>3. got.container = IF asked.container = "hls" THEN asked.seg ELSE asked.container
      BY <1>2, <1>5 DEF MadeBy
    <2>4. asked.deinterlace => got.deinterlace
      BY <1>5, <2>2 DEF MadeBy
    <2>5. CASE /\ (asked.scaled \/ ~Suffices(asked, made)) /\ asks.scaled = asked.scaled
               /\ asks.mode = asked.mode /\ asks.video = asked.video /\ asks.audio = asked.audio
      <3>1. asked.video # "" \/ asked.audio # "" => asks.mode = "transcode"
        BY <2>5 DEF IsGranted
      <3>2. asked.video \in {"", got.video} /\ asked.audio \in {"", got.audio}
        BY <1>5, <2>5, <3>1 DEF MadeBy
      <3>3. asked.scaled => got.scaled
        BY <1>5, <2>5, <3>1 DEF MadeBy, IsGranted
      <3> QED  BY <2>3, <2>4, <3>2, <3>3 DEF Meets
    <2>6. CASE ~asked.scaled /\ Suffices(asked, made) /\ asks.mode = "remux"
      <3>1. got.video = fed.video /\ got.audio = fed.audio
        BY <1>5, <2>6 DEF MadeBy
      <3>2. asked.video \in {"", made.video} /\ asked.audio \in {"", made.audio}
        BY <2>6 DEF Suffices
      <3> QED  BY <2>2, <2>3, <2>4, <2>6, <3>1, <3>2 DEF Meets
    <2> QED  BY <1>2, <2>1, <2>5, <2>6
  <1> QED  BY <1>1, <1>2, <1>4, <1>6
-----------------------------------------------------------------------------
IsStage(s) == IsMedium(s.reads) /\ IsPolicy(s.base)
Pipeline(stages) ==
  \/ \E a : IsStage(a) /\ stages = <<a>>
  \/ \E a, b : IsStage(a) /\ IsStage(b) /\ stages = <<a, b>>
LastMeets(stages, asked) ==
  \E s : s = stages[Len(stages)] /\ Meets(asked, Result(s, s.base))

LEMMA OneStage ==
  ASSUME NEW s, IsStage(s), NEW asked, Meets(asked, Result(s, s.base))
  PROVE  Pipeline(<< s >>) /\ LastMeets(<< s >>, asked)
  <1>1. Len(<< s >>) = 1 /\ << s >>[1] = s
    OBVIOUS
  <1> QED  BY <1>1 DEF Pipeline, LastMeets

LEMMA TwoStages ==
  ASSUME NEW a, IsStage(a), NEW s, IsStage(s)
  PROVE  /\ Pipeline(<< a, s >>) /\ Head(<< a, s >>) = a /\ Tail(<< a, s >>) = << s >>
         /\ \A asked : LastMeets(<< a, s >>, asked) <=> Meets(asked, Result(s, s.base))
         /\ \A asked : LastMeets(<< s >>, asked) <=> Meets(asked, Result(s, s.base))
  <1>1. Len(<< a, s >>) = 2 /\ << a, s >>[2] = s /\ Len(<< s >>) = 1 /\ << s >>[1] = s
    OBVIOUS
  <1>2. Head(<< a, s >>) = a /\ Tail(<< a, s >>) = << s >>
    OBVIOUS
  <1> QED  BY <1>1, <1>2 DEF Pipeline, LastMeets

LEMMA TupleParts ==
  ASSUME NEW a, NEW s
  PROVE  << a, s >>[1] = a /\ << s >>[1] = s /\ Head(<< s >>) = s /\ << s >> # <<>>
  <1>1. Len(<< s >>) = 1 /\ << s >>[1] = s /\ << a, s >>[1] = a
    OBVIOUS
  <1>2. Head(<< s >>) = s
    OBVIOUS
  <1> QED  BY <1>1, <1>2

\* A source, what is piped of it, and the policy of a handoff in segments.
LEMMA MediaAre ==
  ASSUME NEW m \in Media
  PROVE  IsMedium(m) /\ IsMedium(Piped(m)) /\ IsPolicy(HandoffPolicy(m))
  <1>1. IsMedium(m)
    BY StartAssumption DEF IsMedium
  <1>2. IsMedium(Piped(m))
    BY <1>1 DEF IsMedium, Piped
  <1>3. IsPolicy(HandoffPolicy(m))
    <2> DEFINE p == HandoffPolicy(m)
               seg == IF m.container = "mpegts" THEN "mpegts" ELSE "fmp4"
    <2>1. p = [mode |-> "remux", video |-> "copy", audio |-> "copy", container |-> "hls", seg |-> seg,
               scaled |-> FALSE, deinterlace |-> FALSE, hwaccel |-> FALSE, decode |-> TRUE]
      BY DEF HandoffPolicy
    <2> HIDE DEF p, seg
    <2>2. /\ p.mode = "remux" /\ p.video = "copy" /\ p.audio = "copy" /\ p.container = "hls" /\ p.seg = seg
          /\ p.scaled = FALSE /\ p.deinterlace = FALSE /\ p.hwaccel = FALSE /\ p.decode = TRUE
      BY <2>1
    <2>3. IsPolicy(p)
      BY <2>1, <2>2 DEF IsPolicy
    <2> QED  BY <2>3 DEF p
  <1> QED  BY <1>1, <1>2, <1>3

\* A policy with the decoder, or the whole GPU, given up.
LEMMA WithoutGpu ==
  ASSUME NEW p, IsPolicy(p), NEW d \in BOOLEAN, NEW q,
         q \in {[p EXCEPT !.decode = d], [p EXCEPT !.decode = FALSE, !.hwaccel = FALSE]}
  PROVE  IsPolicy(q) /\ SameWork(q, p)
  <1>1. \E h \in BOOLEAN, e \in BOOLEAN :
          q = [mode |-> p.mode, video |-> p.video, audio |-> p.audio, container |-> p.container, seg |-> p.seg,
               scaled |-> p.scaled, deinterlace |-> p.deinterlace, hwaccel |-> h, decode |-> e]
    <2>1. CASE q = [p EXCEPT !.decode = d]
      BY <2>1 DEF IsPolicy
    <2>2. CASE q = [p EXCEPT !.decode = FALSE, !.hwaccel = FALSE]
      BY <2>2 DEF IsPolicy
    <2> QED  BY <2>1, <2>2
  <1>2. PICK h \in BOOLEAN, e \in BOOLEAN :
          q = [mode |-> p.mode, video |-> p.video, audio |-> p.audio, container |-> p.container, seg |-> p.seg,
               scaled |-> p.scaled, deinterlace |-> p.deinterlace, hwaccel |-> h, decode |-> e]
    BY <1>1
  <1>3. /\ q.mode = p.mode /\ q.video = p.video /\ q.audio = p.audio /\ q.container = p.container /\ q.seg = p.seg
        /\ q.scaled = p.scaled /\ q.deinterlace = p.deinterlace /\ q.hwaccel = h /\ q.decode = e
    BY <1>2
  <1>4. IsPolicy(q)
    BY <1>2, <1>3 DEF IsPolicy
  <1> QED  BY <1>3, <1>4 DEF SameWork

LEMMA PreparedIs ==
  ASSUME NEW s, IsStage(s)
  PROVE  IsPolicy(Prepared(s)) /\ SameWork(Prepared(s), s.base)
  <1> DEFINE d == s.base.decode /\ FailureKeys(s, s.base) \cap gpuFailures = {}
  <1>1. Prepared(s) = [s.base EXCEPT !.decode = d] /\ d \in BOOLEAN
    BY DEF Prepared
  <1> HIDE DEF d
  <1> QED  BY <1>1, WithoutGpu DEF IsStage

FeedIs == feed.on => IsMedium(feed.made)

\* The stages of a start, and what comes out at the end of a start that has all
\* of them.
LEMMA StagesMeet ==
  ASSUME NEW goal \in Kinds, NEW m \in Media, NEW asked, IsGranted(asked), FeedIs, setup \in Setups
  PROVE  Pipeline(Stages(goal, m, asked)) /\ (~feed.on => LastMeets(Stages(goal, m, asked), asked))
  <1> DEFINE stages == Stages(goal, m, asked)
  <1>1. ASSUME NEW s, stages = << s >>, IsMedium(s.reads),
               s.base = asked \/ s.base = [asked EXCEPT !.mode = "transcode", !.decode = setup.decode],
               IsPolicy(s.base)
        PROVE  Pipeline(stages) /\ (~feed.on => LastMeets(stages, asked))
    <2>1. Meets(asked, Result(s, s.base))
      <3>1. SameWork(s.base, asked) \/ s.base = [asked EXCEPT !.mode = "transcode", !.decode = setup.decode]
        BY <1>1 DEF SameWork
      <3> QED  BY <1>1, <3>1, OneStageMeets
    <2>2. IsStage(s)
      BY <1>1 DEF IsStage
    <2> QED  BY <1>1, <2>1, <2>2, OneStage
  <1>2. ASSUME NEW s, NEW a, stages = << a, s >>, IsMedium(a.reads), IsPolicy(a.base), s.base = asked,
               s.reads = Result(a, a.base)
        PROVE  Pipeline(stages) /\ (~feed.on => LastMeets(stages, asked))
    <2>1. IsMedium(s.reads)
      <3>1. MadeBy(a.reads, a.base, Result(a, a.base))
        BY <1>2, ResultIs
      <3> QED  BY <1>2, <3>1 DEF MadeBy
    <2>2. IsStage(a) /\ IsStage(s)
      BY <1>2, <2>1 DEF IsStage, IsGranted
    <2>3. SameWork(s.base, asked)
      BY <1>2 DEF SameWork
    <2>4. Meets(asked, Result(s, s.base))
      BY <2>1, <2>2, <2>3, OneStageMeets DEF IsStage
    <2> QED  BY <1>2, <2>2, <2>4, TwoStages
  <1> DEFINE handoff == HandoffStage(HandoffPolicy(m), m)
  <1>3. IsMedium(handoff.reads) /\ IsPolicy(handoff.base)
    BY MediaAre DEF HandoffStage, HlsStage, Stage
  <1>4. CASE goal \in {"channel", "channelHls"}
    <2> DEFINE made == ChannelPolicy(asked)
               first == HandoffStage(made, m)
               fed == IF feed.on THEN feed.made ELSE Result(first, made)
               asks == OutputOfChannel(asked, made)
               last == IF goal = "channel" THEN OutputStage(asks, fed, [m EXCEPT !.video = fed.video])
                       ELSE HlsStage(asks, fed, "", TRUE, m.video)
    <2>1. stages = IF feed.on THEN << last >> ELSE << first, last >>
      BY <1>4 DEF Stages, ChannelStages
    <2>2. first.base = made /\ first.reads = m /\ last.base = asks /\ last.reads = fed
      BY DEF HandoffStage, OutputStage, HlsStage, Stage
    <2>3. IsPolicy(made) /\ IsPolicy(asks) /\ IsMedium(m)
      BY ChannelPolicyIs, OutputPolicyIs, MediaAre
    <2> HIDE DEF made, first, fed, asks, last, stages
    <2>4. CASE feed.on
      <3>1. IsStage(last)
        BY <2>2, <2>3, <2>4 DEF fed, IsStage, FeedIs
      <3> QED  BY <2>1, <2>4, <3>1 DEF Pipeline, stages
    <2>5. CASE ~feed.on
      <3>1. fed = Result(first, made)
        BY <2>5 DEF fed
      <3>2. /\ IsMedium(last.reads) /\ IsPolicy(first.base) /\ IsPolicy(last.base)
            /\ Meets(asked, Result(last, last.base))
        BY <2>2, <2>3, <3>1, ChannelMeets DEF made, asks
      <3>3. IsStage(first) /\ IsStage(last)
        BY <2>2, <2>3, <3>2 DEF IsStage
      <3> QED  BY <2>1, <2>5, <3>2, <3>3, TwoStages DEF stages
    <2> QED  BY <2>4, <2>5
  <1>5. CASE goal = "vodIngest"
    <2> DEFINE base == [asked EXCEPT !.mode = "transcode", !.decode = setup.decode]
               s == IngestStage(asked, m)
    <2>1. stages = << s >>
      BY <1>5 DEF Stages
    <2>2. s.base = base /\ s.reads = m
      BY DEF IngestStage, Stage
    <2>3. IsMedium(m)
      BY MediaAre
    <2>4. IsPolicy(base)
      <3> DEFINE e == setup.decode
      <3>1. e \in BOOLEAN
        BY StartAssumption
      <3>4. /\ base = [asked EXCEPT !.mode = "transcode", !.decode = e]
            /\ asked = [mode |-> asked.mode, video |-> asked.video, audio |-> asked.audio,
                        container |-> asked.container, seg |-> asked.seg, scaled |-> asked.scaled,
                        deinterlace |-> asked.deinterlace, hwaccel |-> asked.hwaccel, decode |-> asked.decode]
        BY DEF IsGranted, IsPolicy
      <3> HIDE DEF e, base
      <3>2. base = [mode |-> "transcode", video |-> asked.video, audio |-> asked.audio, container |-> asked.container,
                    seg |-> asked.seg, scaled |-> asked.scaled, deinterlace |-> asked.deinterlace,
                    hwaccel |-> asked.hwaccel, decode |-> e]
        BY <3>4
      <3>3. /\ base.mode = "transcode" /\ base.video = asked.video /\ base.audio = asked.audio
            /\ base.container = asked.container /\ base.seg = asked.seg /\ base.scaled = asked.scaled
            /\ base.deinterlace = asked.deinterlace /\ base.hwaccel = asked.hwaccel /\ base.decode = e
        BY <3>2
      <3> QED  BY <3>1, <3>2, <3>3 DEF IsGranted, IsPolicy
    <2> HIDE DEF s
    <2> QED  BY <1>1, <2>1, <2>2, <2>3, <2>4
  <1>6. CASE goal = "vodHls"
    <2> DEFINE s == HlsStage(asked, m, m.id, TRUE, m.video)
    <2>1. stages = << s >>
      BY <1>6 DEF Stages
    <2>2. s.base = asked /\ s.reads = m
      BY DEF HlsStage, Stage
    <2>3. IsMedium(m) /\ IsPolicy(asked)
      BY MediaAre DEF IsGranted
    <2> HIDE DEF s
    <2> QED  BY <1>1, <2>1, <2>2, <2>3
  <1>7. CASE goal \in {"output", "hls"} /\ ~SegmentedHandoff(m)
    <2> DEFINE s == IF goal = "output" THEN OutputStage(asked, Piped(m), m)
                    ELSE HlsStage(asked, Piped(m), m.id, FALSE, m.video)
    <2>1. stages = << s >>
      BY <1>7 DEF Stages
    <2>2. s.base = asked /\ s.reads = Piped(m)
      BY DEF HlsStage, OutputStage, Stage
    <2>3. IsMedium(Piped(m)) /\ IsPolicy(asked)
      BY MediaAre DEF IsGranted
    <2> HIDE DEF s
    <2> QED  BY <1>1, <2>1, <2>2, <2>3
  <1>8. CASE goal \in {"output", "hls"} /\ SegmentedHandoff(m)
    <2> DEFINE segments == Result(handoff, handoff.base)
               s == IF goal = "output" THEN OutputStage(asked, segments, m)
                    ELSE HlsStage(asked, segments, "", TRUE, m.video)
    <2>1. stages = << handoff, s >>
      BY <1>8 DEF Stages
    <2>2. s.base = asked /\ s.reads = segments
      BY DEF HlsStage, OutputStage, Stage
    <2> HIDE DEF s
    <2> QED  BY <1>2, <1>3, <2>1, <2>2
  <1> QED  BY <1>4, <1>5, <1>6, <1>7, <1>8 DEF Kinds, HlsKinds
-----------------------------------------------------------------------------
UnderWay ==
  /\ start = [phase |-> "starting", kind |-> start.kind, asked |-> start.asked, left |-> start.left,
              policy |-> start.policy, own |-> start.own, missed |-> start.missed]
  /\ Pipeline(start.left) /\ start.own \in BOOLEAN /\ start.missed \in BOOLEAN
  /\ IsPolicy(start.policy) /\ SameWork(start.policy, Current.base)
  /\ start.own => LastMeets(start.left, start.asked)

StartInv ==
  /\ setup \in Setups /\ FeedIs /\ startFaults \in Nat
  /\ start.phase = "starting" => UnderWay
  /\ SoftwareIsTried /\ AskedIsPlayed

LEMMA PipelineHas ==
  ASSUME NEW stages, Pipeline(stages)
  PROVE  /\ IsStage(Head(stages))
         /\ \/ Tail(stages) = <<>> /\ \A asked : LastMeets(stages, asked) => Meets(asked, Result(Head(stages), Head(stages).base))
            \/ /\ Tail(stages) # <<>> /\ IsStage(Tail(stages)[1]) /\ Pipeline(Tail(stages))
               /\ Head(Tail(stages)) = Tail(stages)[1]
               /\ \A asked : LastMeets(stages, asked) => LastMeets(Tail(stages), asked)
  <1>1. CASE \E a : IsStage(a) /\ stages = <<a>>
    <2>1. PICK a : IsStage(a) /\ stages = <<a>>
      BY <1>1
    <2>2. Head(stages) = a /\ Tail(stages) = <<>> /\ Len(stages) = 1 /\ stages[1] = a
      BY <2>1
    <2> QED  BY <2>1, <2>2 DEF LastMeets
  <1>2. CASE \E a, b : IsStage(a) /\ IsStage(b) /\ stages = <<a, b>>
    <2>1. PICK a, b : IsStage(a) /\ IsStage(b) /\ stages = <<a, b>>
      BY <1>2
    <2>2. Head(stages) = a /\ Tail(stages) = <<b>>
      BY <2>1, TwoStages
    <2>3. Tail(stages)[1] = b /\ Head(Tail(stages)) = b /\ Tail(stages) # <<>>
      BY <2>2, TupleParts
    <2>4. \A asked : LastMeets(stages, asked) => LastMeets(Tail(stages), asked)
      BY <2>1, <2>2, TwoStages
    <2> QED  BY <2>1, <2>2, <2>3, <2>4 DEF Pipeline
  <1> QED  BY <1>1, <1>2 DEF Pipeline

\* A viewer asks.
LEMMA AskKeeps ==
  ASSUME StartInv, NEW r, NEW c, NEW goal \in Kinds, NEW m \in Media, Ask(r, c, goal, m)
  PROVE  StartInv'
  <1> DEFINE asked == PolicyOf(ResolveProfile(r, c))
             stages == Stages(goal, m, asked)
             policy == Prepared(stages[1])
             own == ~feed.on
  <1>1. IsGranted(asked)
    BY PolicyIsGranted
  <1>2. Pipeline(stages) /\ (own => LastMeets(stages, asked))
    BY <1>1, StagesMeet DEF StartInv
  <1>3. stages[1] = Head(stages) /\ IsStage(stages[1])
    <2>1. IsStage(Head(stages))
      BY <1>2, PipelineHas
    <2>2. stages[1] = Head(stages)
      <3>1. CASE \E a : IsStage(a) /\ stages = <<a>>
        BY <3>1
      <3>2. CASE \E a, b : IsStage(a) /\ IsStage(b) /\ stages = <<a, b>>
        <4>1. PICK a, b : IsStage(a) /\ IsStage(b) /\ stages = <<a, b>>
          BY <3>2
        <4> QED  BY <4>1, TwoStages, TupleParts
      <3> QED  BY <1>2, <3>1, <3>2 DEF Pipeline
    <2> QED  BY <2>1, <2>2
  <1>4. IsPolicy(policy) /\ SameWork(policy, stages[1].base)
    BY <1>3, PreparedIs
  <1>5. /\ start' = [phase |-> "starting", kind |-> goal, asked |-> asked, left |-> stages,
                     policy |-> policy, own |-> own, missed |-> FALSE]
        /\ UNCHANGED <<host, setup, feed, gpuFailures, startFaults>>
    BY DEF Ask
  <1> HIDE DEF asked, stages, policy, own
  <1>6. /\ start'.phase = "starting" /\ start'.kind = goal /\ start'.asked = asked /\ start'.left = stages
        /\ start'.policy = policy /\ start'.own = own /\ start'.missed = FALSE
    BY <1>5
  <1>7. own \in BOOLEAN
    BY DEF own
  <1>8. start'.own \in BOOLEAN /\ start'.missed \in BOOLEAN
    BY <1>6, <1>7
  <1>9. start'.own => LastMeets(stages, asked)
    BY <1>2, <1>6
  <1>10. UnderWay'
    <2>1. Current' = stages[1]
      BY <1>3, <1>6 DEF Current
    <2>3. Pipeline(start.left)' /\ IsPolicy(start.policy)' /\ SameWork(start.policy, Current.base)'
      BY <1>2, <1>4, <1>6, <2>1
    <2>2. (start.own => LastMeets(start.left, start.asked))'
      BY <1>5, <1>6, <1>9 DEF LastMeets
    <2> QED  BY <1>5, <1>6, <1>8, <2>2, <2>3 DEF UnderWay
  <1>11. SoftwareIsTried' /\ AskedIsPlayed'
    BY <1>6 DEF SoftwareIsTried, AskedIsPlayed
  <1> QED  BY <1>5, <1>10, <1>11 DEF StartInv, FeedIs

\* A stage yields output: the next one begins, or the viewer is served.
LEMMA StageKeeps ==
  ASSUME StartInv, StageStarts
  PROVE  StartInv'
  <1> DEFINE made == Result(Current, start.policy)
             rest == Tail(start.left)
  <1>1. UnderWay /\ UNCHANGED <<host, setup, gpuFailures, startFaults>>
    BY DEF StageStarts, StartInv
  <1>2. IsStage(Current) /\ made = Result(Current, Current.base)
    BY <1>1, PipelineHas, SameResult DEF UnderWay, Current
  <1>3. IsMedium(made)
    BY <1>1, <1>2, ResultIs DEF UnderWay, IsStage, MadeBy
  <1>4. FeedIs'
    <2>1. feed' = feed \/ feed' = [on |-> TRUE, made |-> made]
      BY DEF StageStarts
    <2> HIDE DEF made
    <2> QED  BY <1>3, <2>1 DEF StartInv, FeedIs
  <1>5. CASE rest = <<>>
    <2>1. start' = [phase |-> "playing", kind |-> start.kind, asked |-> start.asked, own |-> start.own, got |-> made]
      BY <1>5 DEF StageStarts
    <2>2. start.own => Meets(start.asked, made)
      <3>1. \A asked : LastMeets(start.left, asked) => Meets(asked, Result(Head(start.left), Head(start.left).base))
        BY <1>1, <1>5, PipelineHas DEF UnderWay
      <3> QED  BY <1>1, <1>2, <3>1 DEF UnderWay, Current
    <2> HIDE DEF made
    <2>3. start'.phase = "playing" /\ start'.asked = start.asked /\ start'.own = start.own /\ start'.got = made
      BY <2>1
    <2>4. start'.own => Meets(start'.asked, start'.got)
      BY <2>2, <2>3
    <2>5. AskedIsPlayed' /\ SoftwareIsTried'
      BY <2>3, <2>4 DEF AskedIsPlayed, SoftwareIsTried, Meets
    <2> QED  BY <1>1, <1>4, <2>3, <2>5 DEF StartInv
  <1>6. CASE rest # <<>>
    <2>1. start' = [start EXCEPT !.left = rest, !.policy = Prepared(rest[1])]
      BY <1>6 DEF StageStarts
    <2>2. /\ IsStage(rest[1]) /\ Pipeline(rest) /\ Head(rest) = rest[1]
          /\ \A asked : LastMeets(start.left, asked) => LastMeets(rest, asked)
      BY <1>1, <1>6, PipelineHas DEF UnderWay
    <2>3. IsPolicy(Prepared(rest[1])) /\ SameWork(Prepared(rest[1]), rest[1].base)
      BY <2>2, PreparedIs
    <2> HIDE DEF rest, made
    <2>4. start' = [phase |-> "starting", kind |-> start.kind, asked |-> start.asked, left |-> rest,
                    policy |-> Prepared(rest[1]), own |-> start.own, missed |-> start.missed]
      <3>1. start = [phase |-> "starting", kind |-> start.kind, asked |-> start.asked, left |-> start.left,
                     policy |-> start.policy, own |-> start.own, missed |-> start.missed]
        BY <1>1 DEF UnderWay
      <3> DEFINE policy == Prepared(rest[1])
      <3>2. start' = [start EXCEPT !.left = rest, !.policy = policy]
        BY <2>1
      <3> HIDE DEF policy
      <3>3. start' = [phase |-> "starting", kind |-> start.kind, asked |-> start.asked, left |-> rest,
                      policy |-> policy, own |-> start.own, missed |-> start.missed]
        <4>1. DOMAIN start = {"phase", "kind", "asked", "left", "policy", "own", "missed"} /\ start.phase = "starting"
          BY <3>1
        <4>2. /\ start'.phase = "starting" /\ start'.kind = start.kind /\ start'.asked = start.asked
              /\ start'.left = rest /\ start'.policy = policy /\ start'.own = start.own /\ start'.missed = start.missed
          BY <3>2, <4>1
        <4>3. DOMAIN start' = {"phase", "kind", "asked", "left", "policy", "own", "missed"}
          BY <3>2, <4>1
        <4>4. start' = [x \in DOMAIN start' |-> start'[x]]
          BY <3>2
        <4> QED  BY <4>2, <4>3, <4>4
      <3> QED  BY <3>3 DEF policy
    <2>5. /\ start'.phase = "starting" /\ start'.kind = start.kind /\ start'.asked = start.asked /\ start'.left = rest
          /\ start'.policy = Prepared(rest[1]) /\ start'.own = start.own /\ start'.missed = start.missed
      BY <2>4
    <2>6. start'.own \in BOOLEAN /\ start'.missed \in BOOLEAN /\ (start'.own => start.own)
      BY <1>1, <2>5 DEF UnderWay
    <2>7. UnderWay'
      <3>1. Current' = rest[1]
        BY <2>2, <2>5 DEF Current
      <3>2. Pipeline(start.left)' /\ IsPolicy(start.policy)' /\ SameWork(start.policy, Current.base)'
        BY <2>2, <2>3, <2>5, <3>1
      <3>3. (start.own => LastMeets(start.left, start.asked))'
        BY <1>1, <2>2, <2>5, <2>6 DEF UnderWay
      <3> QED  BY <2>4, <2>5, <2>6, <3>2, <3>3 DEF UnderWay
    <2>8. AskedIsPlayed' /\ SoftwareIsTried'
      BY <2>5 DEF AskedIsPlayed, SoftwareIsTried
    <2> QED  BY <1>1, <1>4, <2>7, <2>8 DEF StartInv
  <1> QED  BY <1>5, <1>6

\* An attempt fails and another is made, with less of the GPU.
LEMMA RetryKeeps ==
  ASSUME StartInv, Retries
  PROVE  StartInv'
  <1>1. PICK gpu \in BOOLEAN : Fails(gpu) /\ \E policy \in RetryPolicy(gpu) :
                                  start' = [start EXCEPT !.policy = policy, !.missed = Missed(gpu)]
    BY DEF Retries
  <1>2. PICK policy \in RetryPolicy(gpu) : start' = [start EXCEPT !.policy = policy, !.missed = Missed(gpu)]
    BY <1>1
  <1>3. UnderWay /\ UNCHANGED <<host, setup, feed>> /\ startFaults' \in Nat
    BY <1>1 DEF Fails, StartInv
  <1>4. IsStage(Current)
    BY <1>3, PipelineHas DEF UnderWay, Current
  <1>5. IsPolicy(policy) /\ SameWork(policy, Current.base)
    BY <1>4, WithoutGpu DEF RetryPolicy, IsStage
  <1> DEFINE missed == Missed(gpu)
  <1>6. missed \in BOOLEAN
    BY DEF Missed
  <1> HIDE DEF missed
  <1>7. start' = [phase |-> "starting", kind |-> start.kind, asked |-> start.asked, left |-> start.left,
                  policy |-> policy, own |-> start.own, missed |-> missed]
    <2>1. start' = [start EXCEPT !.policy = policy, !.missed = missed]
      BY <1>2 DEF missed
    <2>2. DOMAIN start = {"phase", "kind", "asked", "left", "policy", "own", "missed"} /\ start.phase = "starting"
      BY <1>3 DEF UnderWay
    <2>3. /\ start'.phase = "starting" /\ start'.kind = start.kind /\ start'.asked = start.asked
          /\ start'.left = start.left /\ start'.policy = policy /\ start'.own = start.own /\ start'.missed = missed
      BY <2>1, <2>2
    <2>4. DOMAIN start' = {"phase", "kind", "asked", "left", "policy", "own", "missed"}
      BY <2>1, <2>2
    <2>5. start' = [x \in DOMAIN start' |-> start'[x]]
      BY <2>1
    <2> QED  BY <2>3, <2>4, <2>5
  <1>8. /\ start'.phase = "starting" /\ start'.kind = start.kind /\ start'.asked = start.asked
        /\ start'.left = start.left /\ start'.policy = policy /\ start'.own = start.own /\ start'.missed = missed
    BY <1>7
  <1>9. start'.own \in BOOLEAN /\ start'.missed \in BOOLEAN /\ (start'.own => start.own)
    BY <1>3, <1>6, <1>8 DEF UnderWay
  <1>10. UnderWay'
    <2>1. Current' = Current
      BY <1>8 DEF Current
    <2>2. Pipeline(start.left)' /\ IsPolicy(start.policy)' /\ SameWork(start.policy, Current.base)'
      BY <1>3, <1>5, <1>8, <2>1 DEF UnderWay
    <2>3. (start.own => LastMeets(start.left, start.asked))'
      BY <1>3, <1>8, <1>9 DEF UnderWay
    <2> QED  BY <1>7, <1>8, <1>9, <2>2, <2>3 DEF UnderWay
  <1>11. AskedIsPlayed' /\ SoftwareIsTried'
    BY <1>8 DEF AskedIsPlayed, SoftwareIsTried
  <1> QED  BY <1>3, <1>10, <1>11 DEF StartInv, FeedIs

\* A command without decoder and GPU meets no GPU's limits.
LEMMA SoftwareServes ==
  ASSUME NEW stage, NEW p, ~p.hwaccel
  PROVE  GpuServes(stage, p)
  BY DEF GpuServes, FramesMeetEncoder, HwEncodes, OnGpu, HwaccelArgs, UsesHwVideo

\* Nothing is left to try.
LEMMA FailureKeeps ==
  ASSUME StartInv, StartFails
  PROVE  StartInv'
  <1>1. PICK gpu \in BOOLEAN :
          /\ Fails(gpu) /\ RetryPolicy(gpu) = {}
          /\ start' = [phase |-> "failed", stage |-> Current, faulty |-> startFaults' # startFaults,
                       missed |-> Missed(gpu)]
    BY DEF StartFails
  <1>2. UnderWay /\ UNCHANGED <<host, setup, feed>> /\ startFaults' \in Nat
    BY <1>1 DEF Fails, StartInv
  <1>3. IsStage(Current)
    BY <1>2, PipelineHas DEF UnderWay, Current
  <1>4. start'.phase = "failed" /\ start'.stage = Current
    BY <1>1
  <1>5. (start'.faulty <=> startFaults' # startFaults) /\ (start'.missed <=> Missed(gpu))
    BY <1>1
  <1>6. SoftwareIsTried'
    <2> DEFINE soft == [Current.base EXCEPT !.decode = FALSE, !.hwaccel = FALSE]
    <2> SUFFICES ASSUME ~start'.missed, ~start'.faulty PROVE ~Fits(Result(Current, soft))
      BY <1>4 DEF SoftwareIsTried, Plays
    <2>1. ~Missed(gpu) /\ startFaults' = startFaults
      BY <1>5
    <2>2. CASE ~GpuServes(Current, start.policy)
      <3>1. gpu
        BY <2>1, <2>2 DEF Missed
      <3>2. ~start.policy.hwaccel
        BY <1>1, <3>1 DEF RetryPolicy
      <3> QED  BY <2>2, <3>2, SoftwareServes
    <2>3. CASE GpuServes(Current, start.policy)
      <3>1. startFaults' # startFaults + 1
        BY <2>1 DEF StartInv
      <3>2. ~Fits(Result(Current, start.policy))
        BY <1>1, <2>3, <3>1 DEF Fails
      <3>3. IsPolicy(soft) /\ SameWork(soft, Current.base)
        BY <1>3, WithoutGpu DEF IsStage
      <3>4. Result(Current, soft) = Result(Current, start.policy)
        BY <1>2, <3>3, SameResult DEF UnderWay
      <3> QED  BY <3>2, <3>4
    <2> QED  BY <2>2, <2>3
  <1>7. AskedIsPlayed'
    BY <1>4 DEF AskedIsPlayed
  <1> QED  BY <1>2, <1>4, <1>6, <1>7 DEF StartInv, FeedIs

LEMMA StartInvHolds == StartSpec => []StartInv
  <1>1. StartInit => StartInv
    BY DEF StartInit, StartInv, NoStart, NoFeed, FeedIs, SoftwareIsTried, AskedIsPlayed
  <1>2. StartInv /\ [StartNext]_startVars => StartInv'
    <2> SUFFICES ASSUME StartInv, [StartNext]_startVars PROVE StartInv'
      OBVIOUS
    <2>1. CASE UNCHANGED startVars \/ FeedEnds
      <3>1. UNCHANGED <<host, setup, start, startFaults>> /\ (feed' = feed \/ feed' = NoFeed)
        BY <2>1 DEF startVars, FeedEnds
      <3>2. FeedIs'
        BY <3>1 DEF StartInv, FeedIs, NoFeed
      <3>3. SoftwareIsTried'
        BY <3>1 DEF StartInv, SoftwareIsTried, Plays, GpuServes, FramesMeetEncoder, HwEncodes, OnGpu, HwaccelArgs
      <3>4. AskedIsPlayed' /\ (start'.phase = "starting" => UnderWay')
        BY <3>1 DEF StartInv, AskedIsPlayed, UnderWay, Current
      <3> QED  BY <3>1, <3>2, <3>3, <3>4 DEF StartInv
    <2> QED  BY <2>1, AskKeeps, StageKeeps, RetryKeeps, FailureKeeps DEF StartNext
  <1> QED  BY <1>1, <1>2, PTL DEF StartSpec

\* A start is given up only where software would have failed as well
\* (start_ffmpeg_with_hw_decode_fallback), failures apart that had another cause
\* or were not recognised.
THEOREM SoftwareComesBeforeFailure == StartSpec => []SoftwareIsTried
  <1>1. StartInv => SoftwareIsTried
    BY DEF StartInv
  <1> QED  BY <1>1, StartInvHolds, PTL

\* The one who started the whole pipeline is given what was asked for, whatever
\* the stages and the retries (policy.py, ffmpeg.py).
THEOREM StartersGetTheirs == StartSpec => []AskedIsPlayed
  <1>1. StartInv => AskedIsPlayed
    BY DEF StartInv
  <1> QED  BY <1>1, StartInvHolds, PTL
-----------------------------------------------------------------------------
(* The users TVHeadend knows (TvhUsers).                                      *)

Levels == {"none", "all"}
Roles == {"none", "streamer", "admin"}
RowDomain == {"id", "role", "active", "key", "dvr"}
IsRow(x) ==
    /\ DOMAIN x = RowDomain /\ x.id \in Nat \ {0} /\ x.role \in Roles
    /\ x.active \in BOOLEAN /\ x.dvr \in Levels /\ x.key \in Nat
Change == [dvr : Levels] \union [role : Roles] \union [active : BOOLEAN] \union [key : Nat]
Entry == {Blank} \union [set : {TRUE}, on : BOOLEAN, admin : BOOLEAN, dvr : Levels, profile : BOOLEAN]

Busy == sync.step \in {"profile", "delete", "create", "save", "createPassword", "savePassword",
                       "synced", "failed"}
IsRequest(q) ==
    /\ DOMAIN q = {"step", "user", "id", "changes", "changed"}
    /\ q.step \in {"change", "status", "enqueue"} /\ q.user \in Users /\ q.id \in Nat \ {0}
    /\ q.changed \in BOOLEAN
    /\ q.changes \in Seq(Change) /\ (q.step = "change" => q.changes # <<>>)
SyncTypeOK ==
    /\ sync = Resting \/ sync.step \in {"next", "read"} \/ Busy
    /\ sync # Resting => sync.left \subseteq Users \X (Nat \ {0})
    /\ sync.step = "next" => DOMAIN sync = {"step", "left"}
    /\ sync.step = "read" => DOMAIN sync = {"step", "left", "user", "id"}
    /\ Busy => /\ DOMAIN sync = {"step", "left", "user", "id", "seen", "profile"}
               /\ IsRow(sync.seen) /\ sync.seen.id = sync.id /\ sync.profile \in BOOLEAN
    /\ sync.step = "read" \/ Busy => sync.user \in Users /\ sync.id \in Nat \ {0}
UsersTypeOK ==
    /\ DOMAIN row = Users /\ \A u \in Users : row[u] = NoUser \/ IsRow(row[u])
    /\ DOMAIN status = Users
    /\ DOMAIN request = UserRequests
    /\ \A r \in UserRequests : request[r] = Resting \/ IsRequest(request[r])
    /\ queued \in [Users -> Nat]
    /\ access \in [Users -> Seq(Entry)] /\ DOMAIN password = Users
    /\ userFails \in Nat /\ userEdits \in Nat
    /\ SyncTypeOK

\* A change of a user is on its way to TVHeadend, or was given up.
AsksFor(r, u, id) ==
    request[r] # Resting /\ request[r].user = u /\ request[r].id = id /\ request[r].changed
Awaited(u, id) ==
    \/ queued[u] = id
    \/ \E r \in UserRequests : AsksFor(r, u, id)
    \/ sync # Resting /\ <<u, id>> \in sync.left
    \/ sync.step = "read" /\ sync.user = u /\ sync.id = id
Pending(u) == u \in behind \/ Awaited(u, row[u].id)

HasAccess(u, r) ==
    /\ userFails = 0 => access[u] = <<Access(r)>>
    /\ \E i \in DOMAIN access[u], p \in BOOLEAN : access[u][i] = [Access(r) EXCEPT !.profile = p]

\* Nobody is said to be synced who is not there or whose sync is running.
NoneTooEarly ==
    /\ \A u \in Users : row[u] = NoUser => status[u] # "success"
    /\ sync.step = "read" => (row[sync.user].id = sync.id => status[sync.user] # "success")
    /\ Busy => status[sync.user] # "success"
\* TVHeadend has what the row says, but for what a login has changed since.
Synced(u) ==
    /\ password[u].key = row[u].key
    /\ u \notin relogged => password[u] = Password(row[u]) /\ HasAccess(u, row[u])
SyncedHold ==
    \A u \in Users : row[u] # NoUser /\ status[u] = "success" /\ ~Pending(u) => Synced(u)

\* What the sync has read is the row but for that, or another sync is to come.
SeenIsRow ==
    Busy => (row[sync.user].id = sync.id /\ ~Pending(sync.user) =>
                /\ sync.seen.key = row[sync.user].key
                /\ sync.user \notin relogged => sync.seen = row[sync.user])

\* How far the sync has come.
Progress ==
    /\ userFails = 0 => \A u \in Users : Len(access[u]) <= 1
    /\ userFails = 0 /\ sync.step = "create" => access[sync.user] = <<>>
    /\ userFails = 0 /\ Busy /\ sync.step # "profile" =>
          sync.step # "failed" /\ sync.profile = (sync.seen.dvr # "none")
    /\ sync.step = "save" => access[sync.user] # <<>>
    /\ sync.step \in {"createPassword", "savePassword", "synced"} => HasAccess(sync.user, sync.seen)
    /\ sync.step = "synced" => password[sync.user] = Password(sync.seen)

UsersInv == UsersTypeOK /\ NoneTooEarly /\ SyncedHold /\ SeenIsRow /\ Progress

LEMMA UserRecords ==
    /\ DOMAIN NoUser = {"id"} /\ NoUser.id = 0 /\ DOMAIN Resting = {"step"} /\ Resting.step = "idle"
    /\ \A x : IsRow(x) => x # NoUser /\ x.id # 0
    /\ \A q : IsRequest(q) => q # Resting
  BY DEF NoUser, NoId, Resting, IsRow, RowDomain, IsRequest

LEMMA ChangedIsRow ==
    ASSUME NEW x, IsRow(x), NEW c \in Change
    PROVE  IsRow(Changed(x, c)) /\ Changed(x, c).id = x.id
  <1> DEFINE new == [f \in DOMAIN x |-> IF f \in DOMAIN c THEN c[f] ELSE x[f]]
  <1>1. IsRow(new) /\ new.id = x.id
    <2>1. CASE c \in [dvr : Levels]
      BY <2>1 DEF IsRow, RowDomain
    <2>2. CASE c \in [role : Roles]
      BY <2>2 DEF IsRow, RowDomain
    <2>3. CASE c \in [active : BOOLEAN]
      BY <2>3 DEF IsRow, RowDomain
    <2>4. CASE c \in [key : Nat]
      BY <2>4 DEF IsRow, RowDomain
    <2> QED  BY <2>1, <2>2, <2>3, <2>4 DEF Change
  <1>2. \/ Changed(x, c) = new
        \/ Changed(x, c) = [new EXCEPT !.dvr = "all"]
    BY DEF Changed
  <1> HIDE DEF new
  <1>3. /\ IsRow([new EXCEPT !.dvr = "all"])
        /\ [new EXCEPT !.dvr = "all"].id = new.id
    BY <1>1 DEF IsRow, RowDomain, Levels
  <1> QED  BY <1>1, <1>2, <1>3

LEMMA RoleKeepsKey ==
    ASSUME NEW x, IsRow(x), NEW role
    PROVE  Changed(x, [role |-> role]).key = x.key
  <1> DEFINE new == [f \in DOMAIN x |-> IF f \in DOMAIN [role |-> role] THEN [role |-> role][f] ELSE x[f]]
  <1>1. new.key = x.key /\ DOMAIN new = RowDomain
    BY DEF IsRow, RowDomain
  <1>2. \/ Changed(x, [role |-> role]) = new
        \/ Changed(x, [role |-> role]) = [new EXCEPT !.dvr = "all"]
    BY DEF Changed
  <1> HIDE DEF new
  <1> QED  BY <1>1, <1>2 DEF RowDomain

LEMMA EntryOf ==
    ASSUME NEW x, IsRow(x), NEW b \in BOOLEAN
    PROVE  /\ [Access(x) EXCEPT !.profile = b] \in Entry
           /\ b = (x.dvr # "none") => [Access(x) EXCEPT !.profile = b] = Access(x)
  <1> DEFINE yes == TRUE
             on == Enabled(x)
             admin == x.role = "admin"
             records == x.dvr # "none"
             d == x.dvr
  <1>1. Access(x) = [set |-> yes, on |-> on, admin |-> admin, dvr |-> d, profile |-> records]
    BY DEF Access
  <1>2. on \in BOOLEAN /\ admin \in BOOLEAN /\ d \in Levels /\ records \in BOOLEAN /\ yes \in {TRUE}
    BY DEF IsRow, Enabled
  <1> HIDE DEF yes, on, admin, d, records
  <1>3. [Access(x) EXCEPT !.profile = b] =
           [set |-> yes, on |-> on, admin |-> admin, dvr |-> d, profile |-> b]
    BY <1>1
  <1>4. [Access(x) EXCEPT !.profile = b] \in Entry
    BY <1>2, <1>3 DEF Entry
  <1>5. b = records => [Access(x) EXCEPT !.profile = b] = Access(x)
    BY <1>1, <1>3
  <1> QED  BY <1>4, <1>5 DEF records

\* Requests change no row that no sync is to come for; a login changes rights.
LEMMA RequestKept ==
    ASSUME UsersInv, UNCHANGED <<sync, access, password, userFails>>, UsersTypeOK', relogged \subseteq relogged',
           \A u \in Users : status'[u] = "success" => status[u] = "success" /\ row'[u] # NoUser,
           \A u \in Users : row[u] = NoUser \/ row'[u] = NoUser \/ row'[u].id = row[u].id,
           \A u \in Users : row'[u] # NoUser /\ row'[u].id = row[u].id /\ Pending(u) => Pending(u)',
           \A u \in Users : row'[u] # NoUser =>
               \/ row'[u] = row[u] \/ Pending(u)'
               \/ u \in relogged' /\ row[u] # NoUser /\ row'[u].key = row[u].key
    PROVE  UsersInv'
  <1>1. Busy' <=> Busy
    BY DEF Busy
  <1>2. sync.step = "read" \/ Busy => sync.user \in Users
    BY DEF UsersInv, UsersTypeOK, SyncTypeOK
  <1>3. NoneTooEarly'
    BY <1>1, <1>2 DEF UsersInv, NoneTooEarly
  <1>4. SyncedHold'
    <2> SUFFICES ASSUME NEW u \in Users, row'[u] # NoUser, status'[u] = "success", ~Pending(u)'
                 PROVE  Synced(u)'
      BY DEF SyncedHold
    <2>1. /\ status[u] = "success" /\ row[u] # NoUser
          /\ row'[u] = row[u] \/ (u \in relogged' /\ row'[u].key = row[u].key)
      BY DEF UsersInv, NoneTooEarly
    <2>2. ~Pending(u)
      BY <2>1
    <2>3. Synced(u)
      BY <2>1, <2>2 DEF UsersInv, SyncedHold
    <2> QED  BY <2>1, <2>3 DEF Synced, HasAccess
  <1>5. SeenIsRow'
    <2> SUFFICES ASSUME Busy, row'[sync.user].id = sync.id, ~Pending(sync.user)'
                 PROVE  /\ sync.seen.key = row'[sync.user].key
                        /\ sync.user \notin relogged' => sync.seen = row'[sync.user]
      BY <1>1 DEF SeenIsRow, Pending, Awaited, AsksFor
    <2>1. PICK u \in Users : u = sync.user
      BY <1>2
    <2>2. row'[u] # NoUser
      BY <2>1, UserRecords DEF UsersInv, UsersTypeOK, SyncTypeOK
    <2>3. /\ row'[u] = row[u] \/ (u \in relogged' /\ row[u] # NoUser /\ row'[u].key = row[u].key)
          /\ ~Pending(u)'
      BY <2>1, <2>2
    <2>4. row[u].id = sync.id /\ ~Pending(u)
      BY <2>1, <2>2, <2>3
    <2>5. sync.seen.key = row[u].key /\ (u \notin relogged => sync.seen = row[u])
      BY <2>1, <2>4 DEF UsersInv, SeenIsRow
    <2> QED  BY <2>1, <2>3, <2>5
  <1>6. Progress'
    BY <1>1 DEF UsersInv, Progress, HasAccess
  <1> QED  BY <1>3, <1>4, <1>5, <1>6 DEF UsersInv

LEMMA Askings ==
    ASSUME UsersInv, NEW r \in UserRequests, NEW u \in Users, NEW id \in Nat \ {0},
           NEW changes \in Seq(Change), changes # <<>>, NEW b \in BOOLEAN,
           Asks(r, u, id, changes, b)
    PROVE  /\ DOMAIN request' = UserRequests
           /\ \A q \in UserRequests : request'[q] = Resting \/ IsRequest(request'[q])
           /\ \A q \in UserRequests : \A v, i : AsksFor(q, v, i) => AsksFor(q, v, i)'
           /\ b => AsksFor(r, u, id)'
           /\ userEdits' \in Nat
  <1> DEFINE new == [step |-> "change", user |-> u, id |-> id, changes |-> changes, changed |-> b]
  <1>1. request[r] = Resting /\ request' = [request EXCEPT ![r] = new]
    BY DEF Asks
  <1>2. IsRequest(new) /\ new.user = u /\ new.id = id /\ new.changed = b /\ new # Resting
    BY UserRecords DEF IsRequest
  <1> HIDE DEF new
  <1>3. userEdits' \in Nat
    BY DEF Asks, UsersInv, UsersTypeOK
  <1> QED  BY <1>1, <1>2, <1>3 DEF UsersInv, UsersTypeOK, AsksFor

LEMMA NewUserIsRow ==
    ASSUME UsersInv, NEW id \in 1 .. MaxIds, NEW role \in {"streamer", "admin"}
    PROVE  IsRow(NewUser(id, role)) /\ NewUser(id, role).id = id /\ id \in Nat \ {0}
  <1>1. userEdits + 2 \in Nat
    BY DEF UsersInv, UsersTypeOK
  <1> QED  BY <1>1 DEF NewUser, NewKey, IsRow, RowDomain, Roles, Levels

LEMMA CreateUserKept ==
    ASSUME UsersInv, NEW r \in UserRequests, NEW u \in Users, CreateUser(r, u)
    PROVE  UsersInv'
  <1>1. PICK id \in 1 .. MaxIds, role \in {"streamer", "admin"}, dvr \in {"none", "all"} :
           /\ row' = [row EXCEPT ![u] = NewUser(id, role)]
           /\ Asks(r, u, id, <<[dvr |-> dvr]>>, TRUE)
    BY DEF CreateUser
  <1> DEFINE new == NewUser(id, role)
             changes == <<[dvr |-> dvr]>>
  <1>2. IsRow(new) /\ new.id = id /\ id \in Nat \ {0}
    BY NewUserIsRow
  <1>3. [dvr |-> dvr] \in Change
    BY DEF Change, Levels
  <1>4. changes \in Seq(Change) /\ changes # <<>>
    BY <1>3
  <1>5. row' = [row EXCEPT ![u] = new] /\ Asks(r, u, id, changes, TRUE) /\ row[u] = NoUser
    BY <1>1 DEF CreateUser
  <1> HIDE DEF new, changes
  <1>6. /\ DOMAIN request' = UserRequests
        /\ \A q \in UserRequests : request'[q] = Resting \/ IsRequest(request'[q])
        /\ \A q \in UserRequests : \A v, i : AsksFor(q, v, i) => AsksFor(q, v, i)'
        /\ AsksFor(r, u, id)' /\ userEdits' \in Nat
    BY <1>2, <1>4, <1>5, Askings
  <1>7. UNCHANGED <<sync, access, password, userFails, status, behind, relogged, queued>>
    BY DEF CreateUser, syncVars
  <1>8. /\ \A v \in Users : v # u => row'[v] = row[v]
        /\ row'[u] = new /\ DOMAIN row' = Users
    BY <1>5 DEF UsersInv, UsersTypeOK
  <1>9. UsersTypeOK'
    BY <1>2, <1>6, <1>7, <1>8 DEF UsersInv, UsersTypeOK, SyncTypeOK, Busy
  <1>10. \A v \in Users : status'[v] = "success" => status[v] = "success" /\ row'[v] # NoUser
    BY <1>5, <1>7, <1>8 DEF UsersInv, NoneTooEarly
  <1>11. \A v, i : Awaited(v, i) => Awaited(v, i)'
    BY <1>6, <1>7 DEF Awaited
  <1>12. Pending(u)'
    BY <1>2, <1>6, <1>8 DEF Pending, Awaited
  <1>13. \A v \in Users : v # u => (Pending(v) => Pending(v)')
    BY <1>7, <1>8, <1>11 DEF Pending
  <1> QED  BY <1>5, <1>7, <1>8, <1>9, <1>10, <1>12, <1>13, RequestKept

LEMMA AskingKeepsUsers ==
    ASSUME UsersInv, NEW r \in UserRequests, NEW u \in Users, NEW changes \in Seq(Change), changes # <<>>,
           row[u] # NoUser, Asks(r, u, row[u].id, changes, FALSE),
           UNCHANGED <<row, status, behind, relogged, queued, sync, access, password, userFails>>
    PROVE  UsersInv'
  <1>1. row[u].id \in Nat \ {0}
    BY DEF UsersInv, UsersTypeOK, IsRow
  <1>2. /\ DOMAIN request' = UserRequests
        /\ \A q \in UserRequests : request'[q] = Resting \/ IsRequest(request'[q])
        /\ \A q \in UserRequests : \A v, i : AsksFor(q, v, i) => AsksFor(q, v, i)'
        /\ userEdits' \in Nat
    BY <1>1, Askings
  <1>3. UsersTypeOK'
    BY <1>2 DEF UsersInv, UsersTypeOK, SyncTypeOK, Busy
  <1>4. \A v, i : Awaited(v, i) => Awaited(v, i)'
    BY <1>2 DEF Awaited
  <1>5. \A v : Pending(v) => Pending(v)'
    BY <1>4 DEF Pending
  <1>6. \A v \in Users : status[v] = "success" => row[v] # NoUser
    BY DEF UsersInv, NoneTooEarly
  <1> QED  BY <1>3, <1>5, <1>6, RequestKept

LEMMA UpdateUserKept ==
    ASSUME UsersInv, NEW r \in UserRequests, NEW u \in Users, UpdateUser(r, u) \/ RotateStreamKey(r, u)
    PROVE  UsersInv'
  <1>1. UNCHANGED <<row, status, behind, relogged, queued, sync, access, password, userFails>> /\ row[u] # NoUser
    BY DEF UpdateUser, RotateStreamKey, syncVars
  <1>2. CASE RotateStreamKey(r, u)
    <2> DEFINE k == NewKey
    <2>1. k \in Nat
      BY DEF NewKey, UsersInv, UsersTypeOK
    <2>2. [key |-> k] \in Change
      BY <2>1 DEF Change
    <2>3. <<[key |-> k]>> \in Seq(Change) /\ <<[key |-> k]>> # <<>>
      BY <2>2
    <2>4. Asks(r, u, row[u].id, <<[key |-> k]>>, FALSE)
      BY <1>2 DEF RotateStreamKey
    <2> QED  BY <1>1, <2>3, <2>4, AskingKeepsUsers
  <1>3. CASE UpdateUser(r, u)
    <2>1. PICK role \in {"none", "streamer", "admin"}, wishes \in
                {<<>>, <<[dvr |-> "all"]>>} \union {<<[active |-> a]>> : a \in BOOLEAN} :
             Asks(r, u, row[u].id, <<[role |-> role]>> \o wishes, FALSE)
      BY <1>3 DEF UpdateUser
    <2>2. [role |-> role] \in Change /\ [dvr |-> "all"] \in Change
          /\ \A a \in BOOLEAN : [active |-> a] \in Change
      BY DEF Change, Roles, Levels
    <2>3. wishes \in Seq(Change)
      <3>1. CASE wishes = <<>>
        BY <3>1
      <3>2. CASE wishes = <<[dvr |-> "all"]>>
        BY <2>2, <3>2
      <3>3. ASSUME NEW a \in BOOLEAN, wishes = <<[active |-> a]>>
            PROVE  wishes \in Seq(Change)
        <4>1. [active |-> a] \in Change
          BY <2>2
        <4> QED  BY <3>3, <4>1
      <3> QED  BY <3>1, <3>2, <3>3
    <2>4. <<[role |-> role]>> \in Seq(Change)
      BY <2>2
    <2>5. <<[role |-> role]>> \o wishes \in Seq(Change) /\ <<[role |-> role]>> \o wishes # <<>>
      BY <2>3, <2>4
    <2> QED  BY <1>1, <2>1, <2>5, AskingKeepsUsers
  <1> QED  BY <1>2, <1>3

LEMMA RequestIs ==
    ASSUME UsersInv, NEW r \in UserRequests, request[r] # Resting
    PROVE  /\ IsRequest(request[r]) /\ request[r].user \in Users /\ request[r].id # 0
           /\ Own(r) => row[request[r].user] # NoUser /\ IsRow(row[request[r].user])
  BY UserRecords DEF UsersInv, UsersTypeOK, IsRequest, Own

LEMMA ChangesRowKept ==
    ASSUME UsersInv, NEW r \in UserRequests, ChangesRow(r)
    PROVE  UsersInv'
  <1> DEFINE q == request[r]
             u == q.user
             c == Head(q.changes)
             left == Tail(q.changes)
             next == IF left = <<>> THEN "status" ELSE "change"
             q2 == [[[q EXCEPT !.changes = left] EXCEPT !.changed = TRUE] EXCEPT !.step = next]
  <1>1. /\ q.step = "change" /\ q # Resting
        /\ row' = IF Own(r) THEN [row EXCEPT ![u] = Changed(row[u], c)] ELSE row
        /\ UNCHANGED <<status, behind, relogged, userEdits, queued, sync, access, password, userFails>>
    BY UserRecords DEF ChangesRow, syncVars
  <1>2. IsRequest(q) /\ u \in Users /\ (Own(r) => row[u] # NoUser /\ IsRow(row[u]))
    BY <1>1, RequestIs
  <1>3. request' = [request EXCEPT ![r] = q2]
    BY <1>1, <1>2 DEF ChangesRow, IsRequest, UsersInv, UsersTypeOK
  <1>4. c \in Change /\ left \in Seq(Change)
    BY <1>1, <1>2 DEF IsRequest
  <1>5. IsRequest(q2) /\ q2.user = u /\ q2.id = q.id /\ q2.changed /\ q2 # Resting
    <2> HIDE DEF left
    <2>1. /\ DOMAIN q2 = DOMAIN q /\ q2.user = q.user /\ q2.id = q.id
          /\ q2.changed = TRUE /\ q2.changes = left /\ q2.step = next
      BY <1>2 DEF IsRequest
    <2> QED  BY <1>2, <1>4, <2>1, UserRecords DEF IsRequest
  <1>6. Own(r) => IsRow(Changed(row[u], c)) /\ Changed(row[u], c).id = row[u].id
    BY <1>2, <1>4, ChangedIsRow
  <1>7. Own(r) <=> row[u].id = q.id
    BY DEF Own
  <1> HIDE DEF q2, c
  <1>8. /\ DOMAIN request' = UserRequests /\ request'[r] = q2
        /\ \A s \in UserRequests : s # r => request'[s] = request[s]
    BY <1>3 DEF UsersInv, UsersTypeOK
  <1>9. /\ DOMAIN row' = Users /\ \A v \in Users : v # u => row'[v] = row[v]
        /\ row'[u] = IF Own(r) THEN Changed(row[u], c) ELSE row[u]
    BY <1>1, <1>2 DEF UsersInv, UsersTypeOK
  <1> HIDE DEF u, q
  <1>10. \A v \in Users : row'[v] = NoUser <=> row[v] = NoUser
    BY <1>2, <1>6, <1>9, UserRecords
  <1>11. \A v \in Users : row'[v].id = row[v].id
    BY <1>6, <1>9
  <1>12. UsersTypeOK'
    BY <1>1, <1>5, <1>6, <1>8, <1>9 DEF UsersInv, UsersTypeOK, SyncTypeOK, Busy
  <1>13. \A s \in UserRequests : \A v, i : AsksFor(s, v, i) => AsksFor(s, v, i)'
    BY <1>5, <1>8 DEF AsksFor, q, u
  <1>14. \A v, i : Awaited(v, i) => Awaited(v, i)'
    BY <1>1, <1>13 DEF Awaited
  <1>15. \A v \in Users : Pending(v) => Pending(v)'
    BY <1>1, <1>11, <1>14 DEF Pending
  <1>16. PICK w \in Users : w = u
    BY <1>2
  <1>17. PICK i \in Nat : i = q.id
    BY <1>2 DEF IsRequest
  <1>18. AsksFor(r, w, i)'
    BY <1>5, <1>8, <1>16, <1>17 DEF AsksFor
  <1>19. Own(r) => row'[w].id = i
    BY <1>7, <1>11, <1>16, <1>17
  <1>20. Own(r) => Pending(w)'
    BY <1>18, <1>19 DEF Pending, Awaited
  <1>21. \A v \in Users : row'[v] = row[v] \/ Pending(v)'
    <2>1. \A v \in Users : v # w => row'[v] = row[v]
      BY <1>9, <1>16
    <2>2. ~Own(r) => row'[w] = row[w]
      BY <1>9, <1>16
    <2> QED  BY <2>1, <2>2, <1>20
  <1>22. \A v \in Users : status[v] = "success" => row[v] # NoUser
    BY DEF UsersInv, NoneTooEarly
  <1> QED  BY <1>1, <1>10, <1>11, <1>12, <1>15, <1>21, <1>22, RequestKept

LEMMA MarksQueuedKept ==
    ASSUME UsersInv, NEW r \in UserRequests, MarksQueued(r)
    PROVE  UsersInv'
  <1> DEFINE q == request[r]
             q2 == [q EXCEPT !.step = "enqueue"]
  <1>1. /\ q.step = "status" /\ q # Resting
        /\ UNCHANGED <<row, behind, relogged, userEdits, queued, sync, access, password, userFails>>
        /\ IF Own(r) THEN /\ status' = [status EXCEPT ![q.user] = "queued"]
                          /\ request' = [request EXCEPT ![r] = q2]
           ELSE request' = [request EXCEPT ![r] = Resting] /\ UNCHANGED status
    BY UserRecords DEF MarksQueued, syncVars, UsersInv, UsersTypeOK
  <1>2. IsRequest(q) /\ q.user \in Users
    BY <1>1, RequestIs
  <1>3. /\ IsRequest(q2) /\ q2.user = q.user /\ q2.id = q.id /\ q2.changed = q.changed
        /\ q2 # Resting
    BY <1>2, UserRecords DEF IsRequest
  <1> HIDE DEF q2
  <1>4. /\ DOMAIN request' = UserRequests /\ request'[r] = IF Own(r) THEN q2 ELSE Resting
        /\ \A s \in UserRequests : s # r => request'[s] = request[s]
    BY <1>1 DEF UsersInv, UsersTypeOK
  <1>5. UsersTypeOK'
    BY <1>1, <1>2, <1>3, <1>4 DEF UsersInv, UsersTypeOK, SyncTypeOK, Busy
  <1>6. \A v \in Users : status'[v] = "success" => status[v] = "success" /\ row'[v] # NoUser
    BY <1>1, <1>2 DEF UsersInv, NoneTooEarly, UsersTypeOK
  <1>7. \A s \in UserRequests : \A v : AsksFor(s, v, row[v].id) => AsksFor(s, v, row[v].id)'
    BY <1>1, <1>3, <1>4 DEF AsksFor, Own
  <1>8. \A v : Pending(v) => Pending(v)'
    BY <1>1, <1>7 DEF Pending, Awaited
  <1> QED  BY <1>1, <1>5, <1>6, <1>8, RequestKept

LEMMA QueuesSyncKept ==
    ASSUME UsersInv, NEW r \in UserRequests, QueuesSync(r)
    PROVE  UsersInv'
  <1> DEFINE q == request[r]
             u == q.user
  <1>1. /\ q.step = "enqueue" /\ q # Resting
        /\ request' = [request EXCEPT ![r] = Resting]
        /\ queued' = IF queued[u] # NoId THEN queued ELSE [queued EXCEPT ![u] = q.id]
        /\ behind' = IF queued'[u] = q.id THEN behind ELSE behind \union {u}
        /\ UNCHANGED <<row, status, relogged, userEdits, sync, access, password, userFails>>
    BY UserRecords DEF QueuesSync, syncVars
  <1>2. u \in Users /\ q.id \in Nat
    BY <1>1, RequestIs DEF IsRequest
  <1> HIDE DEF q, u
  <1>3. /\ DOMAIN request' = UserRequests /\ request'[r] = Resting
        /\ \A s \in UserRequests : s # r => request'[s] = request[s]
    BY <1>1 DEF UsersInv, UsersTypeOK
  <1>4. queued' \in [Users -> Nat] /\ \A v \in Users : queued[v] # NoId => queued'[v] = queued[v]
    BY <1>1, <1>2 DEF UsersInv, UsersTypeOK
  <1>5. UsersTypeOK'
    BY <1>1, <1>3, <1>4 DEF UsersInv, UsersTypeOK, SyncTypeOK, Busy
  <1>6. \A v \in Users : status[v] = "success" => row[v] # NoUser
    BY DEF UsersInv, NoneTooEarly
  <1>7. ASSUME NEW v \in Users, row[v] # NoUser, Pending(v)
        PROVE  Pending(v)'
    <2>0. row[v].id # NoId /\ behind \subseteq behind'
      BY <1>1, <1>7, UserRecords DEF UsersInv, UsersTypeOK, NoId
    <2>1. CASE v \in behind \/ queued[v] = row[v].id
      BY <1>1, <1>4, <2>0, <2>1 DEF Pending, Awaited
    <2>2. ASSUME NEW s \in UserRequests, AsksFor(s, v, row[v].id), s # r
          PROVE  Pending(v)'
      BY <1>1, <1>3, <2>2 DEF Pending, Awaited, AsksFor
    <2>3. CASE AsksFor(r, v, row[v].id)
      BY <1>1, <1>2, <2>3 DEF Pending, Awaited, AsksFor, q, u
    <2>4. CASE \/ sync # Resting /\ <<v, row[v].id>> \in sync.left
               \/ sync.step = "read" /\ sync.user = v /\ sync.id = row[v].id
      BY <1>1, <2>4 DEF Pending, Awaited
    <2> QED  BY <1>7, <2>1, <2>2, <2>3, <2>4 DEF Pending, Awaited
  <1> QED  BY <1>1, <1>5, <1>6, <1>7, RequestKept

LEMMA DropsRequestKept ==
    ASSUME UsersInv, NEW r \in UserRequests, DropsRequest(r)
    PROVE  UsersInv'
  <1> DEFINE q == request[r]
  <1>1. /\ q # Resting /\ request' = [request EXCEPT ![r] = Resting]
        /\ behind' = IF q.changed THEN behind \union {q.user} ELSE behind
        /\ UNCHANGED <<row, status, relogged, userEdits, queued, sync, access, password, userFails>>
    BY DEF DropsRequest, syncVars
  <1>3. /\ DOMAIN request' = UserRequests /\ request'[r] = Resting
        /\ \A s \in UserRequests : s # r => request'[s] = request[s]
    BY <1>1 DEF UsersInv, UsersTypeOK
  <1>5. UsersTypeOK'
    BY <1>1, <1>3 DEF UsersInv, UsersTypeOK, SyncTypeOK, Busy
  <1>6. \A v \in Users : status[v] = "success" => row[v] # NoUser
    BY DEF UsersInv, NoneTooEarly
  <1>7. \A v : Pending(v) => Pending(v)'
    BY <1>1, <1>3 DEF Pending, Awaited, AsksFor
  <1> QED  BY <1>1, <1>5, <1>6, <1>7, RequestKept

LEMMA DeleteUserKept ==
    ASSUME UsersInv, NEW u \in Users, DeleteUser(u)
    PROVE  UsersInv'
  <1>1. /\ row' = [row EXCEPT ![u] = NoUser] /\ status' = [status EXCEPT ![u] = "none"]
        /\ UNCHANGED <<request, behind, relogged, queued, sync, access, password, userFails>>
    BY DEF DeleteUser, syncVars
  <1>0. userEdits' \in Nat
    BY DEF DeleteUser, UsersInv, UsersTypeOK
  <1>2. UsersTypeOK'
    BY <1>0, <1>1 DEF UsersInv, UsersTypeOK, SyncTypeOK, Busy
  <1>3. /\ \A v \in Users : v # u => row'[v] = row[v] /\ status'[v] = status[v]
        /\ row'[u] = NoUser /\ status'[u] = "none"
    BY <1>1 DEF UsersInv, UsersTypeOK
  <1>4. \A v \in Users : status'[v] = "success" => status[v] = "success" /\ row'[v] # NoUser
    BY <1>3 DEF UsersInv, NoneTooEarly
  <1>5. \A v \in Users : v # u => (Pending(v) => Pending(v)')
    BY <1>1, <1>3 DEF Pending, Awaited, AsksFor
  <1> QED  BY <1>1, <1>2, <1>3, <1>4, <1>5, RequestKept

LEMMA OidcLoginKept ==
    ASSUME UsersInv, NEW u \in Users, OidcLogin(u)
    PROVE  UsersInv'
  <1>1. /\ UNCHANGED <<request, status, queued, sync, access, password, userFails>>
        /\ userEdits' \in Nat
    BY DEF OidcLogin, syncVars, UsersInv, UsersTypeOK
  <1>2. PICK role \in {"streamer", "admin"} :
           \/ /\ row[u] = NoUser
              /\ \E id \in 1 .. MaxIds : row' = [row EXCEPT ![u] = NewUser(id, role)]
              /\ behind' = behind \union {u} /\ UNCHANGED relogged
           \/ /\ row[u] # NoUser
              /\ row' = [row EXCEPT ![u] = Changed(@, [role |-> role])]
              /\ relogged' = IF row' = row THEN relogged ELSE relogged \union {u}
              /\ UNCHANGED behind
    BY DEF OidcLogin
  <1>3. PICK new : /\ row' = [row EXCEPT ![u] = new] /\ IsRow(new)
                   /\ row[u] # NoUser => new.id = row[u].id /\ new.key = row[u].key
    <2>1. ASSUME NEW id \in 1 .. MaxIds, row' = [row EXCEPT ![u] = NewUser(id, role)], row[u] = NoUser
          PROVE  \E new : /\ row' = [row EXCEPT ![u] = new] /\ IsRow(new)
                          /\ row[u] # NoUser => new.id = row[u].id /\ new.key = row[u].key
      BY <2>1, NewUserIsRow
    <2>2. CASE row[u] # NoUser
      <3>1. IsRow(row[u]) /\ [role |-> role] \in Change
        BY <2>2 DEF UsersInv, UsersTypeOK, Change, Roles
      <3>2. PICK new : new = Changed(row[u], [role |-> role])
        OBVIOUS
      <3>3. IsRow(new) /\ new.id = row[u].id /\ new.key = row[u].key
        BY <3>1, <3>2, ChangedIsRow, RoleKeepsKey
      <3>4. row' = [row EXCEPT ![u] = new]
        BY <1>2, <2>2, <3>2
      <3> QED  BY <3>3, <3>4
    <2> QED  BY <1>2, <2>1, <2>2
  <1>4. /\ DOMAIN row' = Users /\ row'[u] = new /\ new # NoUser
        /\ \A v \in Users : v # u => row'[v] = row[v]
    BY <1>3, UserRecords DEF UsersInv, UsersTypeOK
  <1>5. /\ behind \subseteq behind' /\ relogged \subseteq relogged'
        /\ row[u] = NoUser => u \in behind'
        /\ row[u] # NoUser => row' = row \/ u \in relogged'
    BY <1>2
  <1>6. UsersTypeOK'
    BY <1>1, <1>3, <1>4 DEF UsersInv, UsersTypeOK, SyncTypeOK, Busy
  <1>7. \A v \in Users : status'[v] = "success" => status[v] = "success" /\ row'[v] # NoUser
    BY <1>1, <1>4 DEF UsersInv, NoneTooEarly
  <1>8. \A v \in Users : row[v] = NoUser \/ row'[v].id = row[v].id
    BY <1>3, <1>4
  <1>9. \A v, i : Awaited(v, i) => Awaited(v, i)'
    BY <1>1 DEF Awaited, AsksFor
  <1>10. \A v \in Users : row'[v].id = row[v].id /\ Pending(v) => Pending(v)'
    BY <1>5, <1>9 DEF Pending
  <1>11. row[u] = NoUser => Pending(u)'
    BY <1>5 DEF Pending
  <1>12. \A v \in Users : \/ row'[v] = row[v] \/ Pending(v)'
                          \/ v \in relogged' /\ row[v] # NoUser /\ row'[v].key = row[v].key
    <2>1. CASE row[u] = NoUser
      BY <2>1, <1>4, <1>11
    <2>2. CASE row[u] # NoUser
      BY <2>2, <1>3, <1>4, <1>5
    <2> QED  BY <2>1, <2>2
  <1> QED  BY <1>1, <1>5, <1>6, <1>7, <1>8, <1>10, <1>12, RequestKept

LEMMA QueuesAllKept ==
    ASSUME UsersInv, UNCHANGED <<row, status, request, queued, sync, access, password, behind, relogged, userEdits, userFails>>
    PROVE  UsersInv'
  <1>1. UsersTypeOK'
    BY DEF UsersInv, UsersTypeOK, SyncTypeOK, Busy
  <1>2. \A v \in Users : status[v] = "success" => row[v] # NoUser
    BY DEF UsersInv, NoneTooEarly
  <1>3. \A v : Pending(v) => Pending(v)'
    BY DEF Pending, Awaited, AsksFor
  <1> QED  BY <1>1, <1>2, <1>3, RequestKept

\* The calls of a sync touch what TVHeadend has of its user only.
Carries ==
    /\ DOMAIN sync' = DOMAIN sync
    /\ UNCHANGED <<sync.left, sync.user, sync.id, sync.seen>>
OthersKept ==
    /\ UNCHANGED <<row, status, request, behind, relogged, userEdits, queued>>
    /\ \A v \in Users : v # sync.user => access'[v] = access[v] /\ password'[v] = password[v]

LEMMA BusySync ==
    ASSUME UsersInv, Busy
    PROVE  /\ DOMAIN sync = {"step", "left", "user", "id", "seen", "profile"} /\ sync # Resting
           /\ sync.user \in Users /\ sync.id \in Nat \ {0} /\ sync.left \subseteq Users \X (Nat \ {0})
           /\ IsRow(sync.seen) /\ sync.seen.id = sync.id /\ sync.profile \in BOOLEAN
  <1>1. sync # Resting
    BY UserRecords DEF Busy
  <1> QED  BY <1>1 DEF UsersInv, UsersTypeOK, SyncTypeOK

LEMMA GoesOn ==
    ASSUME UsersInv, Busy, NEW s, sync' = [sync EXCEPT !.step = s]
    PROVE  Carries /\ sync'.step = s /\ sync'.profile = sync.profile
  BY BusySync DEF Carries

LEMMA BusyKept ==
    ASSUME UsersInv, Busy, OthersKept, Carries, Busy', sync'.profile \in BOOLEAN,
           access' \in [Users -> Seq(Entry)], DOMAIN password' = Users,
           userFails' \in {userFails, userFails + 1}, Progress'
    PROVE  UsersInv'
  <1>0. userFails \in Nat
    BY DEF UsersInv, UsersTypeOK
  <1>1. userFails' \in Nat /\ (userFails' = 0 => userFails = 0)
    BY <1>0
  <1>2. SyncTypeOK'
    BY BusySync DEF SyncTypeOK, Carries, Busy, IsRow
  <1>3. UsersTypeOK'
    BY <1>1, <1>2 DEF UsersInv, UsersTypeOK, OthersKept
  <1>4. NoneTooEarly'
    BY DEF UsersInv, NoneTooEarly, OthersKept, Carries, Busy
  <1>5. \A v \in Users : status[v] = "success" => v # sync.user
    BY DEF UsersInv, NoneTooEarly
  <1>6. sync' # Resting
    BY UserRecords DEF Busy
  <1>7. \A v : Pending(v)' <=> Pending(v)
    BY <1>6, BusySync DEF Pending, Awaited, AsksFor, OthersKept, Carries, Busy
  <1>8. SyncedHold'
    <2> SUFFICES ASSUME NEW v \in Users, row'[v] # NoUser, status'[v] = "success", ~Pending(v)'
                 PROVE  Synced(v)'
      BY DEF SyncedHold
    <2>1. /\ row'[v] = row[v] /\ access'[v] = access[v] /\ password'[v] = password[v]
          /\ relogged' = relogged
      BY <1>5 DEF OthersKept
    <2>2. Synced(v)
      BY <1>7 DEF UsersInv, SyncedHold, OthersKept
    <2> QED  BY <1>1, <2>1, <2>2 DEF Synced, HasAccess
  <1>9. SeenIsRow'
    BY <1>7 DEF UsersInv, SeenIsRow, OthersKept, Carries, Pending, Awaited, AsksFor
  <1> QED  BY <1>3, <1>4, <1>8, <1>9 DEF UsersInv

LEMMA EnsuresProfileKept ==
    ASSUME UsersInv, EnsuresProfile
    PROVE  UsersInv'
  <1> DEFINE records == sync.seen.dvr # "none"
             b == sync'.profile
  <1>1. Busy /\ userFails \in Nat
    BY DEF EnsuresProfile, Busy, UsersInv, UsersTypeOK
  <1>2. /\ OthersKept /\ UNCHANGED <<access, password>>
        /\ \/ sync' = [sync EXCEPT !.step = "delete", !.profile = records] /\ userFails' = userFails
           \/ sync' = [sync EXCEPT !.step = "delete"] /\ userFails' = userFails + 1
    BY DEF EnsuresProfile, restVars, requestVars, tvhVars, OthersKept
  <1>3. records \in BOOLEAN
    OBVIOUS
  <1> HIDE DEF records
  <1>4. /\ Carries /\ sync'.step = "delete"
        /\ \/ b = records /\ userFails' = userFails
           \/ b = sync.profile /\ userFails' = userFails + 1
    BY <1>1, <1>2, BusySync DEF Carries
  <1>5. Busy' /\ sync'.profile \in BOOLEAN
    BY <1>1, <1>3, <1>4, BusySync DEF Busy
  <1>6. userFails' \in {userFails, userFails + 1} /\ (userFails' = 0 => userFails = 0 /\ b = records)
    BY <1>1, <1>4
  <1>7. Progress'
    BY <1>2, <1>4, <1>6 DEF UsersInv, Progress, Carries, records
  <1>8. access' \in [Users -> Seq(Entry)] /\ DOMAIN password' = Users
    BY <1>2 DEF UsersInv, UsersTypeOK
  <1> QED  BY <1>1, <1>2, <1>4, <1>5, <1>6, <1>7, <1>8, BusyKept

LEMMA DeletesAccessKept ==
    ASSUME UsersInv, DeletesAccess
    PROVE  UsersInv'
  <1> DEFINE u == sync.user
             a == access[u]
             left == IF a = <<>> THEN a ELSE Tail(a)
  <1>1. Busy /\ userFails \in Nat
    BY DEF DeletesAccess, Busy, UsersInv, UsersTypeOK
  <1>2. /\ u \in Users /\ a \in Seq(Entry)
        /\ userFails = 0 => Len(a) <= 1 /\ \A v \in Users : Len(access[v]) <= 1
    BY <1>1, BusySync DEF UsersInv, UsersTypeOK, Progress
  <1>3. /\ UNCHANGED <<row, status, request, behind, relogged, userEdits, queued, password>>
        /\ sync' = [sync EXCEPT !.step = "create"]
        /\ \/ access' = [access EXCEPT ![u] = left] /\ userFails' = userFails
           \/ access' = access /\ userFails' = userFails + 1
    BY <1>2 DEF DeletesAccess, restVars, requestVars, SyncGoes, UsersInv, UsersTypeOK
  <1>4. left \in Seq(Entry) /\ (Len(a) <= 1 => left = <<>>)
    <2>1. CASE a = <<>>
      BY <2>1, <1>2
    <2>2. CASE a # <<>>
      BY <2>2, <1>2
    <2> QED  BY <2>1, <2>2
  <1> HIDE DEF left
  <1>5. Carries /\ sync'.step = "create" /\ sync'.profile = sync.profile
    BY <1>1, <1>3, GoesOn
  <1>6. Busy' /\ sync'.profile \in BOOLEAN
    BY <1>1, <1>5, BusySync DEF Busy
  <1>7. /\ access' \in [Users -> Seq(Entry)] /\ DOMAIN password' = Users
        /\ \A v \in Users : v # u => access'[v] = access[v]
    BY <1>2, <1>3, <1>4 DEF UsersInv, UsersTypeOK
  <1>8. /\ userFails' \in {userFails, userFails + 1}
        /\ userFails' = 0 => userFails = 0 /\ access'[u] = <<>>
    BY <1>1, <1>2, <1>3, <1>4 DEF UsersInv, UsersTypeOK
  <1>9. OthersKept
    BY <1>3, <1>7 DEF OthersKept
  <1>10. userFails' = 0 => \A v \in Users : Len(access'[v]) <= 1
    BY <1>2, <1>7, <1>8
  <1>11. userFails' = 0 => sync'.profile = (sync.seen.dvr # "none")
    BY <1>1, <1>5, <1>8 DEF UsersInv, Progress, DeletesAccess
  <1>12. Progress'
    BY <1>5, <1>8, <1>10, <1>11 DEF Progress, Carries
  <1> QED  BY <1>1, <1>5, <1>6, <1>7, <1>8, <1>9, <1>12, BusyKept

\* The steps that end one call and go on to the next, or fail.
LEMMA AnsweredIs ==
    ASSUME UsersInv, Busy, NEW s, Answered(s)
    PROVE  /\ Carries /\ sync'.profile = sync.profile /\ sync'.step \in {s, "failed"}
           /\ userFails' \in {userFails, userFails + 1}
           /\ userFails' = 0 => userFails = 0 /\ sync'.step = s
  <1>1. userFails \in Nat
    BY DEF UsersInv, UsersTypeOK
  <1>2. CASE SyncGoes(s)
    BY <1>1, <1>2, GoesOn DEF SyncGoes
  <1>3. CASE SyncFails
    <2>1. sync' = [sync EXCEPT !.step = "failed"] /\ userFails' = userFails + 1
      BY <1>3 DEF SyncFails
    <2>2. Carries /\ sync'.step = "failed" /\ sync'.profile = sync.profile
      BY <2>1, GoesOn
    <2> QED  BY <1>1, <2>1, <2>2
  <1> QED  BY <1>2, <1>3 DEF Answered

LEMMA CreatesAccessKept ==
    ASSUME UsersInv, CreatesAccess
    PROVE  UsersInv'
  <1> DEFINE u == sync.user
             a == access[u]
             b == Append(a, Blank)
  <1>1. Busy /\ userFails \in Nat /\ Answered("save") /\ sync.step = "create"
    BY DEF CreatesAccess, Busy, UsersInv, UsersTypeOK
  <1>2. /\ u \in Users /\ a \in Seq(Entry)
        /\ userFails = 0 => a = <<>> /\ \A v \in Users : Len(access[v]) <= 1
        /\ userFails = 0 => sync.profile = (sync.seen.dvr # "none")
    BY <1>1, BusySync DEF UsersInv, UsersTypeOK, Progress
  <1>3. /\ UNCHANGED <<row, status, request, behind, relogged, userEdits, queued, password>>
        /\ access' = [access EXCEPT ![u] = b]
    BY <1>2 DEF CreatesAccess, restVars, requestVars, UsersInv, UsersTypeOK
  <1>4. b \in Seq(Entry) /\ b # <<>> /\ (a = <<>> => Len(b) = 1)
    BY <1>2 DEF Entry
  <1> HIDE DEF b
  <1>5. /\ Carries /\ sync'.profile = sync.profile /\ sync'.step \in {"save", "failed"}
        /\ userFails' \in {userFails, userFails + 1}
        /\ userFails' = 0 => userFails = 0 /\ sync'.step = "save"
    BY <1>1, AnsweredIs
  <1>6. Busy' /\ sync'.profile \in BOOLEAN
    BY <1>1, <1>5, BusySync DEF Busy
  <1>7. /\ access' \in [Users -> Seq(Entry)] /\ DOMAIN password' = Users /\ access'[u] = b
        /\ \A v \in Users : v # u => access'[v] = access[v]
    BY <1>2, <1>3, <1>4 DEF UsersInv, UsersTypeOK
  <1>8. OthersKept
    BY <1>3, <1>7 DEF OthersKept
  <1>9. userFails' = 0 => \A v \in Users : Len(access'[v]) <= 1
    <2> SUFFICES ASSUME userFails' = 0, NEW v \in Users  PROVE Len(access'[v]) <= 1
      OBVIOUS
    <2>1. CASE v = u
      <3>1. a = <<>> /\ access'[v] = b
        BY <2>1, <1>2, <1>5, <1>7
      <3>2. Len(b) = 1
        BY <3>1, <1>4
      <3> QED  BY <3>1, <3>2
    <2>2. CASE v # u
      BY <2>2, <1>2, <1>5, <1>7
    <2> QED  BY <2>1, <2>2
  <1>10. Progress'
    BY <1>2, <1>4, <1>5, <1>7, <1>9 DEF Progress, Carries
  <1> QED  BY <1>1, <1>5, <1>6, <1>7, <1>8, <1>10, BusyKept

LEMMA LastReplaced ==
    ASSUME NEW S, NEW a \in Seq(S), a # <<>>, NEW e \in S
    PROVE  LET b == [a EXCEPT ![Len(a)] = e]
           IN  /\ b \in Seq(S) /\ b # <<>> /\ Len(b) = Len(a)
               /\ Len(a) \in DOMAIN b /\ b[Len(a)] = e
               /\ Len(a) <= 1 => b = <<e>>
  <1> DEFINE n == Len(a)
             b == [a EXCEPT ![n] = e]
  <1>1. n \in Nat \ {0} /\ DOMAIN a = 1..n
    OBVIOUS
  <1> HIDE DEF n
  <1>2. b \in [1..n -> S] /\ b[n] = e
    BY <1>1 DEF n
  <1>3. b \in Seq(S) /\ Len(b) = n
    BY <1>1, <1>2
  <1>4. n <= 1 => b = <<e>>
    <2> SUFFICES ASSUME n <= 1  PROVE b = <<e>>
      OBVIOUS
    <2>1. n = 1
      BY <1>1
    <2> HIDE DEF b
    <2>2. <<e>> \in Seq(S) /\ Len(<<e>>) = 1 /\ <<e>>[1] = e
      OBVIOUS
    <2> QED  BY <1>2, <1>3, <2>1, <2>2
  <1> QED  BY <1>1, <1>2, <1>3, <1>4 DEF n

LEMMA SavesAccessKept ==
    ASSUME UsersInv, SavesAccess
    PROVE  UsersInv'
  <1> DEFINE u == sync.user
             a == access[u]
             e == [Access(sync.seen) EXCEPT !.profile = sync.profile]
             b == [a EXCEPT ![Len(a)] = e]
  <1>1. Busy /\ userFails \in Nat /\ Answered("createPassword") /\ sync.step = "save"
    BY DEF SavesAccess, Busy, UsersInv, UsersTypeOK
  <1>2. /\ u \in Users /\ a \in Seq(Entry) /\ a # <<>>
        /\ userFails = 0 => Len(a) <= 1 /\ \A v \in Users : Len(access[v]) <= 1
        /\ userFails = 0 => sync.profile = (sync.seen.dvr # "none")
    BY <1>1, BusySync DEF UsersInv, UsersTypeOK, Progress
  <1>3. /\ UNCHANGED <<row, status, request, behind, relogged, userEdits, queued, password>>
        /\ access' = [access EXCEPT ![u] = b]
    BY <1>2 DEF SavesAccess, restVars, requestVars, UsersInv, UsersTypeOK
  <1>4. e \in Entry /\ (userFails = 0 => e = Access(sync.seen))
    BY <1>1, <1>2, BusySync, EntryOf
  <1>5. \E p \in BOOLEAN : e = [Access(sync.seen) EXCEPT !.profile = p]
    BY <1>1, BusySync
  <1> HIDE DEF e
  <1>6. /\ b \in Seq(Entry) /\ b # <<>> /\ Len(b) = Len(a)
        /\ Len(a) \in DOMAIN b /\ b[Len(a)] = e
        /\ Len(a) <= 1 => b = <<e>>
    BY <1>2, <1>4, LastReplaced
  <1> HIDE DEF b
  <1>7. /\ Carries /\ sync'.profile = sync.profile /\ sync'.step \in {"createPassword", "failed"}
        /\ userFails' \in {userFails, userFails + 1}
        /\ userFails' = 0 => userFails = 0 /\ sync'.step = "createPassword"
    BY <1>1, AnsweredIs
  <1>8. Busy' /\ sync'.profile \in BOOLEAN
    BY <1>1, <1>7, BusySync DEF Busy
  <1>9. /\ access' \in [Users -> Seq(Entry)] /\ DOMAIN password' = Users /\ access'[u] = b
        /\ \A v \in Users : v # u => access'[v] = access[v]
    BY <1>2, <1>3, <1>6 DEF UsersInv, UsersTypeOK
  <1>10. OthersKept
    BY <1>3, <1>9 DEF OthersKept
  <1>11. userFails' = 0 => \A v \in Users : Len(access'[v]) <= 1
    <2> SUFFICES ASSUME userFails' = 0, NEW v \in Users  PROVE Len(access'[v]) <= 1
      OBVIOUS
    <2>1. v = u => Len(access'[v]) = Len(a)
      BY <1>6, <1>9
    <2>2. v # u => access'[v] = access[v]
      BY <1>9
    <2> QED  BY <2>1, <2>2, <1>2, <1>7
  <1>12. \E i \in DOMAIN access'[u], p \in BOOLEAN :
             access'[u][i] = [Access(sync.seen) EXCEPT !.profile = p]
    BY <1>5, <1>6, <1>9
  <1>13. userFails' = 0 => access'[u] = <<Access(sync.seen)>>
    BY <1>2, <1>4, <1>6, <1>7, <1>9
  <1>14. sync'.user = u /\ sync'.seen = sync.seen
    BY <1>7 DEF Carries
  <1>15. HasAccess(sync.user, sync.seen)'
    BY <1>12, <1>13, <1>14 DEF HasAccess
  <1>16. userFails' = 0 => sync'.profile = (sync'.seen.dvr # "none")
    BY <1>2, <1>7, <1>14
  <1>17. Progress'
    BY <1>7, <1>11, <1>15, <1>16 DEF Progress
  <1> QED  BY <1>1, <1>7, <1>8, <1>9, <1>10, <1>17, BusyKept

\* Once the access entry is saved it stays while its user's password is set.
LEMMA LaterCallsKept ==
    ASSUME UsersInv, Busy, NEW s, NEW t, sync.step = s,
           s \in {"createPassword", "savePassword"}, t \in {"savePassword", "synced"}, Answered(t),
           UNCHANGED <<row, status, request, behind, relogged, userEdits, queued, access>>,
           password' = password \/ \E x : password' = [password EXCEPT ![sync.user] = x],
           t = "synced" => password'[sync.user] = Password(sync.seen)
    PROVE  UsersInv'
  <1>1. /\ Carries /\ sync'.profile = sync.profile /\ sync'.step \in {t, "failed"}
        /\ userFails' \in {userFails, userFails + 1}
        /\ userFails' = 0 => userFails = 0 /\ sync'.step = t
    BY AnsweredIs
  <1>2. Busy' /\ sync'.profile \in BOOLEAN
    BY <1>1, BusySync DEF Busy
  <1>3. /\ access' \in [Users -> Seq(Entry)] /\ DOMAIN password' = Users
        /\ \A v \in Users : v # sync.user => password'[v] = password[v]
    BY DEF UsersInv, UsersTypeOK
  <1>4. OthersKept
    BY <1>3 DEF OthersKept
  <1>5. HasAccess(sync.user, sync.seen)
    BY DEF UsersInv, Progress
  <1>6. sync'.user = sync.user /\ sync'.seen = sync.seen
    BY <1>1 DEF Carries
  <1>7. HasAccess(sync.user, sync.seen)'
    BY <1>1, <1>5, <1>6 DEF HasAccess
  <1>8. userFails' = 0 => /\ \A v \in Users : Len(access'[v]) <= 1
                          /\ sync'.profile = (sync'.seen.dvr # "none")
    BY <1>1, <1>6 DEF UsersInv, Progress
  <1>9. Progress'
    BY <1>1, <1>6, <1>7, <1>8 DEF Progress
  <1> QED  BY <1>1, <1>2, <1>3, <1>4, <1>9, BusyKept

LEMMA CreatesPasswordKept ==
    ASSUME UsersInv, CreatesPassword
    PROVE  UsersInv'
  <1>1. Busy /\ sync.step = "createPassword"
    BY DEF CreatesPassword, Busy
  <1>2. Answered("savePassword")
    BY DEF CreatesPassword, Answered
  <1>3. /\ UNCHANGED <<row, status, request, behind, relogged, userEdits, queued, access>>
        /\ password' = password \/ \E x : password' = [password EXCEPT ![sync.user] = x]
    BY DEF CreatesPassword, restVars, requestVars
  <1> QED  BY <1>1, <1>2, <1>3, LaterCallsKept

LEMMA SavesPasswordKept ==
    ASSUME UsersInv, SavesPassword
    PROVE  UsersInv'
  <1>1. Busy /\ sync.step = "savePassword" /\ Answered("synced")
    BY DEF SavesPassword, Busy
  <1>2. /\ UNCHANGED <<row, status, request, behind, relogged, userEdits, queued, access>>
        /\ password' = [password EXCEPT ![sync.user] = Password(sync.seen)]
    BY DEF SavesPassword, restVars, requestVars
  <1>3. password'[sync.user] = Password(sync.seen)
    BY <1>1, <1>2, BusySync DEF UsersInv, UsersTypeOK
  <1> QED  BY <1>1, <1>2, <1>3, LaterCallsKept

LEMMA SyncCallFailsKept ==
    ASSUME UsersInv, SyncCallFails
    PROVE  UsersInv'
  <1>1. Busy /\ userFails \in Nat
    BY DEF SyncCallFails, Busy, UsersInv, UsersTypeOK
  <1>2. /\ UNCHANGED <<row, status, request, behind, relogged, userEdits, queued, access, password>>
        /\ sync' = [sync EXCEPT !.step = "failed"] /\ userFails' = userFails + 1
    BY DEF SyncCallFails, SyncFails, restVars, requestVars, tvhVars
  <1>3. Carries /\ sync'.step = "failed" /\ sync'.profile = sync.profile
    BY <1>1, <1>2, GoesOn
  <1>4. Busy' /\ sync'.profile \in BOOLEAN
    BY <1>1, <1>3, BusySync DEF Busy
  <1>5. OthersKept /\ access' \in [Users -> Seq(Entry)] /\ DOMAIN password' = Users
    BY <1>2 DEF OthersKept, UsersInv, UsersTypeOK
  <1>6. userFails' \in {userFails, userFails + 1} /\ userFails' # 0
    BY <1>1, <1>2
  <1>7. Progress'
    BY <1>3, <1>6 DEF Progress
  <1> QED  BY <1>1, <1>3, <1>4, <1>5, <1>6, <1>7, BusyKept

\* The steps of the task itself leave the rows and TVHeadend alone.
LEMMA TaskKept ==
    ASSUME UsersInv, UNCHANGED <<row, userEdits, access, password, userFails>>, UsersTypeOK', NoneTooEarly',
           SeenIsRow', ~Busy' \/ sync'.step = "profile",
           \A v \in Users : row[v] # NoUser /\ status'[v] = "success" /\ ~Pending(v)' =>
               /\ v \in relogged => v \in relogged'
               /\ Synced(v) \/ (status[v] = "success" /\ ~Pending(v))
    PROVE  UsersInv'
  <1>1. SyncedHold'
    <2> SUFFICES ASSUME NEW v \in Users, row[v] # NoUser, status'[v] = "success", ~Pending(v)'
                 PROVE  Synced(v)'
      BY DEF SyncedHold
    <2>1. Synced(v) /\ (v \in relogged => v \in relogged')
      BY DEF UsersInv, SyncedHold
    <2> QED  BY <2>1 DEF Synced, HasAccess
  <1>2. sync'.step \notin {"create", "save", "createPassword", "savePassword", "synced"}
    BY DEF Busy
  <1>3. Busy' => sync'.step = "profile"
    OBVIOUS
  <1>4. Progress'
    BY <1>2, <1>3 DEF UsersInv, Progress
  <1> QED  BY <1>1, <1>4 DEF UsersInv

LEMMA SyncBeginsKept ==
    ASSUME UsersInv, SyncBegins
    PROVE  UsersInv'
  <1>1. UNCHANGED <<row, request, status, behind, relogged, userEdits, access, password, userFails>> /\ sync = Resting
    BY DEF SyncBegins, requestVars, tvhVars
  <1>2. PICK left : /\ sync' = [step |-> "next", left |-> left]
                    /\ left \subseteq Users \X (Nat \ {0})
                    /\ queued' \in [Users -> Nat]
                    /\ \A v \in Users : queued'[v] = queued[v] \/ <<v, queued[v]>> \in left
    <2>1. CASE allQueued' = allQueued
      <3>1. PICK u \in Users : /\ queued[u] # NoId /\ queued' = [queued EXCEPT ![u] = NoId]
                               /\ sync' = [step |-> "next", left |-> {<<u, queued[u]>>}]
        BY <2>1 DEF SyncBegins
      <3>2. queued \in [Users -> Nat]
        BY DEF UsersInv, UsersTypeOK
      <3> WITNESS {<<u, queued[u]>>}
      <3> QED  BY <3>1, <3>2 DEF NoId
    <2>2. CASE allQueued' # allQueued
      <3> DEFINE l == {<<u, row[u].id>> : u \in {v \in Users : row[v] # NoUser}}
      <3>1. sync' = [step |-> "next", left |-> l] /\ queued' = queued
        BY <2>2 DEF SyncBegins
      <3>2. l \subseteq Users \X (Nat \ {0})
        BY DEF UsersInv, UsersTypeOK, IsRow
      <3>3. queued \in [Users -> Nat]
        BY DEF UsersInv, UsersTypeOK
      <3> HIDE DEF l
      <3> WITNESS l
      <3> QED  BY <3>1, <3>2, <3>3
    <2> QED  BY <2>1, <2>2
  <1>3. sync'.step = "next" /\ DOMAIN sync' = {"step", "left"} /\ sync'.left = left /\ ~Busy' /\ sync' # Resting
    BY <1>2, UserRecords DEF Busy
  <1>4. SyncTypeOK'
    BY <1>2, <1>3 DEF SyncTypeOK
  <1>5. UsersTypeOK'
    BY <1>1, <1>2, <1>4 DEF UsersInv, UsersTypeOK
  <1>6. NoneTooEarly' /\ SeenIsRow'
    BY <1>1, <1>3 DEF UsersInv, NoneTooEarly, SeenIsRow
  <1>7. ASSUME NEW v \in Users, Pending(v)
        PROVE  Pending(v)'
    BY <1>1, <1>2, <1>3, <1>7, UserRecords DEF Pending, Awaited, AsksFor
  <1> QED  BY <1>1, <1>3, <1>5, <1>6, <1>7, TaskKept

LEMMA SyncsNextKept ==
    ASSUME UsersInv, SyncsNext
    PROVE  UsersInv'
  <1>1. /\ UNCHANGED <<row, request, behind, relogged, userEdits, queued, access, password, userFails>>
        /\ sync.step = "next" /\ sync # Resting
    BY UserRecords DEF SyncsNext, requestVars, tvhVars
  <1>2. CASE sync.left = {}
    <2>1. sync' = Resting /\ status' = status
      BY <1>2 DEF SyncsNext
    <2>2. sync'.step = "idle" /\ ~Busy'
      BY <2>1, UserRecords DEF Busy
    <2>3. UsersTypeOK'
      BY <1>1, <2>1, <2>2 DEF UsersInv, UsersTypeOK, SyncTypeOK
    <2>4. NoneTooEarly' /\ SeenIsRow'
      BY <1>1, <2>1, <2>2 DEF UsersInv, NoneTooEarly, SeenIsRow
    <2>5. \A v : Pending(v) => Pending(v)'
      BY <1>1, <1>2, <2>1 DEF Pending, Awaited, AsksFor
    <2> QED  BY <1>1, <2>1, <2>2, <2>3, <2>4, <2>5, TaskKept
  <1>3. CASE sync.left # {}
    <2>1. PICK p \in sync.left :
              /\ sync' = [step |-> "read", left |-> sync.left \ {p}, user |-> p[1], id |-> p[2]]
              /\ Reported(p[1], p[2], "running")
      BY <1>3 DEF SyncsNext
    <2>2. PICK u \in Users : \E i \in Nat \ {0} : p = <<u, i>>
      BY <1>1 DEF UsersInv, UsersTypeOK, SyncTypeOK
    <2>3. PICK i \in Nat \ {0} : p = <<u, i>>
      BY <2>2
    <2>4. /\ DOMAIN sync' = {"step", "left", "user", "id"} /\ sync'.step = "read"
          /\ sync'.left = sync.left \ {<<u, i>>} /\ sync'.user = u /\ sync'.id = i
          /\ ~Busy' /\ sync' # Resting
      BY <2>1, <2>3, UserRecords DEF Busy
    <2>5. status' = IF row[u].id = i THEN [status EXCEPT ![u] = "running"] ELSE status
      BY <2>1, <2>3 DEF Reported
    <2>6. /\ DOMAIN status' = Users /\ (row[u].id = i => status'[u] # "success")
          /\ \A v \in Users : status'[v] = "success" => status[v] = "success"
      BY <2>5 DEF UsersInv, UsersTypeOK
    <2>7. SyncTypeOK'
      BY <1>1, <2>4 DEF UsersInv, UsersTypeOK, SyncTypeOK
    <2>8. UsersTypeOK'
      BY <1>1, <2>6, <2>7 DEF UsersInv, UsersTypeOK
    <2>9. NoneTooEarly' /\ SeenIsRow'
      BY <1>1, <2>4, <2>6 DEF UsersInv, NoneTooEarly, SeenIsRow
    <2>10. \A v : Pending(v) => Pending(v)'
      BY <1>1, <2>4 DEF Pending, Awaited, AsksFor
    <2> QED  BY <1>1, <2>4, <2>6, <2>8, <2>9, <2>10, TaskKept
  <1> QED  BY <1>2, <1>3

LEMMA ReadsUserKept ==
    ASSUME UsersInv, ReadsUser
    PROVE  UsersInv'
  <1> DEFINE u == sync.user
  <1>1. /\ UNCHANGED <<row, request, status, userEdits, queued, access, password, userFails>>
        /\ sync.step = "read" /\ sync # Resting
    BY UserRecords DEF ReadsUser, requestVars, tvhVars
  <1>2. /\ u \in Users /\ sync.id \in Nat \ {0} /\ sync.left \subseteq Users \X (Nat \ {0})
        /\ row[u] = NoUser \/ IsRow(row[u])
    BY <1>1 DEF UsersInv, UsersTypeOK, SyncTypeOK
  <1>3. CASE row[u].id = sync.id
    <2>1. /\ sync' = [step |-> "profile", left |-> sync.left, user |-> u, id |-> sync.id,
                      seen |-> row[u], profile |-> FALSE]
          /\ behind' = behind \ {u} /\ relogged' = relogged \ {u}
      BY <1>3 DEF ReadsUser
    <2>2. /\ DOMAIN sync' = {"step", "left", "user", "id", "seen", "profile"}
          /\ sync'.step = "profile" /\ sync'.left = sync.left /\ sync'.user = u
          /\ sync'.id = sync.id /\ sync'.seen = row[u] /\ sync'.profile = FALSE
          /\ Busy' /\ sync' # Resting
      BY <2>1, UserRecords DEF Busy
    <2>3. IsRow(row[u])
      BY <1>2, <1>3, UserRecords
    <2>4. SyncTypeOK'
      BY <1>2, <1>3, <2>2, <2>3 DEF SyncTypeOK, IsRow
    <2>5. UsersTypeOK'
      BY <1>1, <2>4 DEF UsersInv, UsersTypeOK
    <2>6. NoneTooEarly' /\ SeenIsRow' /\ status[u] # "success"
      BY <1>1, <1>3, <2>2 DEF UsersInv, NoneTooEarly, SeenIsRow
    <2>7. \A v \in Users : v # u => (Pending(v) => Pending(v)')
      BY <1>1, <2>1, <2>2 DEF Pending, Awaited, AsksFor
    <2> QED  BY <1>1, <2>1, <2>2, <2>5, <2>6, <2>7, TaskKept
  <1>4. CASE row[u].id # sync.id
    <2>1. /\ sync' = [step |-> "next", left |-> sync.left]
          /\ behind' = behind /\ relogged' = relogged
      BY <1>4 DEF ReadsUser
    <2>2. /\ DOMAIN sync' = {"step", "left"} /\ sync'.step = "next" /\ sync'.left = sync.left
          /\ ~Busy' /\ sync' # Resting
      BY <2>1, UserRecords DEF Busy
    <2>3. UsersTypeOK'
      BY <1>1, <1>2, <2>2 DEF UsersInv, UsersTypeOK, SyncTypeOK
    <2>4. NoneTooEarly' /\ SeenIsRow'
      BY <1>1, <2>2 DEF UsersInv, NoneTooEarly, SeenIsRow
    <2>5. \A v \in Users : Pending(v) => Pending(v)'
      BY <1>1, <1>4, <2>1, <2>2 DEF Pending, Awaited, AsksFor
    <2> QED  BY <1>1, <2>1, <2>2, <2>3, <2>4, <2>5, TaskKept
  <1> QED  BY <1>3, <1>4

LEMMA SyncEndsKept ==
    ASSUME UsersInv, SyncEnds
    PROVE  UsersInv'
  <1> DEFINE u == sync.user
             s == IF sync.step = "synced" THEN "success" ELSE "failed"
  <1>1. /\ UNCHANGED <<row, request, behind, relogged, userEdits, queued, access, password, userFails>>
        /\ Busy /\ sync.step \in {"synced", "failed"}
        /\ status' = IF row[u].id = sync.id THEN [status EXCEPT ![u] = s] ELSE status
        /\ sync' = [step |-> "next", left |-> sync.left]
    BY DEF SyncEnds, requestVars, tvhVars, Busy, Reported
  <1>2. /\ u \in Users /\ sync.id \in Nat \ {0} /\ sync.left \subseteq Users \X (Nat \ {0})
        /\ sync # Resting
    BY <1>1, BusySync
  <1>3. /\ DOMAIN sync' = {"step", "left"} /\ sync'.step = "next" /\ sync'.left = sync.left
        /\ ~Busy' /\ sync' # Resting
    BY <1>1, UserRecords DEF Busy
  <1>4. /\ DOMAIN status' = Users /\ \A v \in Users : v # u => status'[v] = status[v]
        /\ status'[u] = "success" => status[u] = "success" \/ (row[u].id = sync.id /\ sync.step = "synced")
    BY <1>1, <1>2 DEF UsersInv, UsersTypeOK
  <1>5. UsersTypeOK'
    BY <1>1, <1>2, <1>3, <1>4 DEF UsersInv, UsersTypeOK, SyncTypeOK
  <1>6. NoneTooEarly' /\ SeenIsRow'
    BY <1>1, <1>2, <1>3, <1>4, UserRecords DEF UsersInv, NoneTooEarly, SeenIsRow
  <1>7. \A v : Pending(v) => Pending(v)'
    BY <1>1, <1>2, <1>3 DEF Pending, Awaited, AsksFor, Busy
  <1>8. status[u] # "success"
    BY <1>1 DEF UsersInv, NoneTooEarly
  <1>9. ASSUME row[u].id = sync.id, sync.step = "synced", ~Pending(u)
        PROVE  Synced(u)
    <2>1. /\ sync.seen.key = row[u].key /\ (u \notin relogged => sync.seen = row[u])
          /\ password[u] = Password(sync.seen) /\ HasAccess(u, sync.seen)
      BY <1>1, <1>9 DEF UsersInv, SeenIsRow, Progress
    <2>2. Password(sync.seen).key = sync.seen.key
      BY DEF Password
    <2> QED  BY <2>1, <2>2 DEF Synced
  <1>10. \A v \in Users : row[v] # NoUser /\ status'[v] = "success" /\ ~Pending(v)' =>
             /\ v \in relogged => v \in relogged'
             /\ Synced(v) \/ (status[v] = "success" /\ ~Pending(v))
    BY <1>1, <1>4, <1>7, <1>8, <1>9
  <1> QED  BY <1>1, <1>3, <1>5, <1>6, <1>10, TaskKept

LEMMA UsersInitially == TvhUsersInit => UsersInv
  <1> SUFFICES ASSUME TvhUsersInit  PROVE UsersInv
    OBVIOUS
  <1> DEFINE first == [id |-> 1, role |-> "streamer", active |-> TRUE, key |-> 1, dvr |-> "none"]
             e == Access(first)
  <1>1. IsRow(first)
    BY DEF IsRow, RowDomain, Roles, Levels
  <1>2. /\ row = [u \in Users |-> first] /\ access = [u \in Users |-> <<e>>]
        /\ password = [u \in Users |-> Password(first)]
    BY DEF TvhUsersInit
  <1> HIDE DEF first
  <1>3. e \in Entry /\ \E p \in BOOLEAN : e = [Access(first) EXCEPT !.profile = p]
    <2>1. PICK p \in BOOLEAN : p = (first.dvr # "none")
      OBVIOUS
    <2>2. [Access(first) EXCEPT !.profile = p] \in Entry
          /\ [Access(first) EXCEPT !.profile = p] = Access(first)
      BY <1>1, <2>1, EntryOf
    <2> QED  BY <2>2
  <1> HIDE DEF e
  <1>4. /\ <<e>> \in Seq(Entry) /\ Len(<<e>>) = 1 /\ 1 \in DOMAIN <<e>> /\ <<e>>[1] = e
    BY <1>3
  <1>5. ~Busy /\ sync.step = "idle" /\ sync = Resting
    BY UserRecords DEF TvhUsersInit, Busy
  <1>6. UsersTypeOK
    BY <1>1, <1>2, <1>4, <1>5 DEF TvhUsersInit, UsersTypeOK, SyncTypeOK, NoId
  <1>7. NoneTooEarly /\ SeenIsRow
    BY <1>1, <1>2, <1>5, UserRecords DEF NoneTooEarly, SeenIsRow
  <1>8. SyncedHold
    <2> SUFFICES ASSUME NEW u \in Users
                 PROVE  password[u] = Password(row[u]) /\ HasAccess(u, row[u])
      BY DEF SyncedHold, Synced, Password
    <2>1. row[u] = first /\ access[u] = <<e>> /\ password[u] = Password(first)
      BY <1>2
    <2> QED  BY <1>3, <1>4, <2>1 DEF HasAccess, e
  <1>9. Progress
    BY <1>2, <1>4, <1>5 DEF Progress
  <1> QED  BY <1>6, <1>7, <1>8, <1>9 DEF UsersInv

LEMMA UsersStep == UsersInv /\ [TvhUsersNext]_tvhUserVars => UsersInv'
  <1> SUFFICES ASSUME UsersInv, [TvhUsersNext]_tvhUserVars  PROVE UsersInv'
    OBVIOUS
  <1>1. ASSUME NEW r \in UserRequests, NEW u \in Users, CreateUser(r, u)
        PROVE  UsersInv'
    BY <1>1, CreateUserKept
  <1>2. ASSUME NEW r \in UserRequests, NEW u \in Users, UpdateUser(r, u) \/ RotateStreamKey(r, u)
        PROVE  UsersInv'
    BY <1>2, UpdateUserKept
  <1>3. ASSUME NEW r \in UserRequests, ChangesRow(r)
        PROVE  UsersInv'
    BY <1>3, ChangesRowKept
  <1>4. ASSUME NEW r \in UserRequests, MarksQueued(r) \/ QueuesSync(r) \/ DropsRequest(r)
        PROVE  UsersInv'
    BY <1>4, MarksQueuedKept, QueuesSyncKept, DropsRequestKept
  <1>5. ASSUME NEW u \in Users, DeleteUser(u) \/ OidcLogin(u)
        PROVE  UsersInv'
    BY <1>5, DeleteUserKept, OidcLoginKept
  <1>6. CASE QueuesAll \/ UNCHANGED tvhUserVars
    BY <1>6, QueuesAllKept DEF QueuesAll, requestVars, syncVars, tvhUserVars
  <1>7. CASE SyncBegins \/ SyncsNext \/ ReadsUser \/ SyncEnds
    BY <1>7, SyncBeginsKept, SyncsNextKept, ReadsUserKept, SyncEndsKept
  <1>8. CASE EnsuresProfile \/ DeletesAccess \/ CreatesAccess \/ SavesAccess
    BY <1>8, EnsuresProfileKept, DeletesAccessKept, CreatesAccessKept, SavesAccessKept
  <1>9. CASE CreatesPassword \/ SavesPassword \/ SyncCallFails
    BY <1>9, CreatesPasswordKept, SavesPasswordKept, SyncCallFailsKept
  <1> QED  BY <1>1, <1>2, <1>3, <1>4, <1>5, <1>6, <1>7, <1>8, <1>9 DEF TvhUsersNext

\* Users whose sync succeeded, with no change of them on its way, have in
\* TVHeadend the key of their row, and its rights but for those a login changed
\* since, however requests, logins, deletions and syncs interleave and calls
\* fail (api/tasks.py 280-356, tvh_requests.py 653-723).
THEOREM UsersAreSynced == TvhUsersSpec => []SyncedUsersMatch
  <1>1. UsersInv => SyncedUsersMatch
    <2> SUFFICES ASSUME UsersInv, NEW u \in Users, row[u] # NoUser, status[u] = "success", Quiet(u)
                 PROVE  Synced(u)
      BY DEF SyncedUsersMatch, Synced, HasAccess
    <2>1. row[u].id # 0
      BY UserRecords DEF UsersInv, UsersTypeOK
    <2>2. sync # Resting => <<u, row[u].id>> \notin sync.left
      BY DEF Quiet
    <2>3. ~Pending(u)
      BY <2>1, <2>2 DEF Pending, Awaited, AsksFor, Quiet, NoId
    <2> QED  BY <2>3 DEF UsersInv, SyncedHold
  <1> QED  BY UsersInitially, UsersStep, <1>1, PTL DEF TvhUsersSpec
-----------------------------------------------------------------------------
(* The library of titles (VodLibrary).                                        *)

Running == {"rebuild", "load", "write"}

LibTypeOK ==
  /\ DOMAIN offer \subseteq UpItems /\ DOMAIN stock \subseteq UpItems
  /\ shelves = [g \in Curated |-> shelves[g]] /\ nextTitleId \in Nat
  /\ strmFolders = [g \in Curated |-> strmFolders[g]]
  /\ httpLibrary = [g \in Curated |-> httpLibrary[g]]

\* What a run has in hand: the categories done and those to be done, and while
\* it works on one, that it is one to be done.
JobTypeOK ==
  /\ libJob.step \in Running \union {"idle", "boot"}
  /\ libJob.step = "boot" => libJob.only \subseteq Curated
  /\ libJob.step \in Running =>
        /\ DOMAIN libJob = {"step", "clean", "fresh", "lost", "held", "todo"}
        /\ libJob.todo \subseteq Curated /\ libJob.fresh \subseteq Curated
        /\ libJob.fresh \intersect libJob.todo = {}
        /\ \A g \in libJob.todo : \A t : <<g, t>> \notin libJob.lost
  /\ libJob.step = "load" => libJob.held \in libJob.todo
  /\ libJob.step = "write" => libJob.held.group \in libJob.todo

\* An id names one title of one category, and was given out.
IdsApart ==
  \A g, h \in Curated : \A t \in DOMAIN shelves[g] :
     /\ shelves[g][t] \in Nat /\ shelves[g][t] < nextTitleId
     /\ \A u \in DOMAIN shelves[h] : shelves[g][t] = shelves[h][u] => g = h /\ t = u

Entries(g) == {<<t, shelves[g][t]>> : t \in DOMAIN shelves[g]}
ShelfIsCurrent(g) ==
  curated[g].links # {} =>
     /\ DOMAIN shelves[g] = Titled(g)
     /\ \A t \in Titled(g) : /\ shelves[g][t] \in DOMAIN itemSources
                             /\ itemSources[shelves[g][t]] = Gathered(g, t)
\* But for the titles L of the categories, which a run lost.
Got(g, L) == {e \in Entries(g) : <<g, e[1]>> \notin L}
OutputsAreCurrent(g, L) ==
  /\ "strm" \in curated[g].outputs => strmFolders[g] = Got(g, L)
  /\ "http" \in curated[g].outputs => httpLibrary[g] = Got(g, L)

\* While nothing disturbs a run, what it has done agrees with the tables.
JobAgrees ==
  libJob.step \in Running /\ libJob.clean =>
     /\ \A g \in libJob.fresh : ShelfIsCurrent(g) /\ OutputsAreCurrent(g, libJob.lost)
     /\ libJob.step = "load" => ShelfIsCurrent(libJob.held)
     /\ libJob.step = "write" =>
           /\ ShelfIsCurrent(libJob.held.group)
           /\ libJob.held.outputs = curated[libJob.held.group].outputs
           /\ libJob.held.titles = Entries(libJob.held.group)

LibInv == LibTypeOK /\ JobTypeOK /\ IdsApart /\ JobAgrees

LEMMA LibraryInitially == LibraryInit => LibInv
  <1> SUFFICES ASSUME LibraryInit  PROVE LibInv
    OBVIOUS
  <1>1. LibTypeOK /\ JobTypeOK /\ JobAgrees
    BY DEF LibraryInit, LibTypeOK, JobTypeOK, JobAgrees, NoLibJob, Running
  <1>2. \A g \in Curated : shelves[g] = <<>>
    BY DEF LibraryInit
  <1>3. DOMAIN <<>> = {}
    OBVIOUS
  <1>4. IdsApart
    BY <1>2, <1>3 DEF IdsApart
  <1> QED  BY <1>1, <1>4 DEF LibInv

\* A request while a run is under way only disturbs it.
LEMMA RunAskedKeeps ==
  ASSUME JobTypeOK, NEW W, W \subseteq SUBSET Curated, libJob' \in Asked(W) \union {NoLibJob}
  PROVE  JobTypeOK' /\ JobAgrees'
  <1>1. CASE libJob' = NoLibJob
    BY <1>1 DEF JobTypeOK, JobAgrees, NoLibJob, Running
  <1>2. CASE libJob.step = "idle" /\ libJob' \in Asked(W)
    <2>1. PICK o \in W : libJob' = [step |-> "boot", only |-> o, clean |-> TRUE, fresh |-> {}]
      BY <1>2 DEF Asked
    <2> QED  BY <2>1 DEF JobTypeOK, JobAgrees, Running
  <1>3. CASE libJob.step # "idle" /\ libJob' \in Asked(W)
    <2>1. libJob' = [libJob EXCEPT !.clean = FALSE]
      BY <1>3 DEF Asked
    <2>2. CASE libJob.step = "boot"
      BY <2>1, <2>2 DEF JobTypeOK, JobAgrees, Running
    <2>3. CASE libJob.step \in Running
      <3>1. /\ DOMAIN libJob' = DOMAIN libJob /\ libJob'.clean = FALSE
            /\ libJob'.step = libJob.step /\ libJob'.fresh = libJob.fresh
            /\ libJob'.held = libJob.held /\ libJob'.todo = libJob.todo /\ libJob'.lost = libJob.lost
        BY <2>1, <2>3 DEF JobTypeOK
      <3> QED  BY <2>3, <3>1 DEF JobTypeOK, JobAgrees, Running
    <2> QED  BY <1>3, <2>2, <2>3 DEF JobTypeOK
  <1> QED  BY <1>1, <1>2, <1>3

\* What does not touch the run, the shelves and what they were made of.
LEMMA LibraryStands ==
  ASSUME LibInv, UNCHANGED <<stock, curated, shelfVars, outputVars, libJob>>, DOMAIN offer' \subseteq UpItems
  PROVE  LibInv'
  <1>1. LibTypeOK' /\ JobTypeOK' /\ IdsApart'
    BY DEF LibInv, LibTypeOK, JobTypeOK, IdsApart, shelfVars, outputVars
  <1>2. \A g : /\ ShelfIsCurrent(g) <=> ShelfIsCurrent(g)'
               /\ \A L : OutputsAreCurrent(g, L) <=> OutputsAreCurrent(g, L)'
               /\ Entries(g) = Entries(g)'
    BY DEF ShelfIsCurrent, OutputsAreCurrent, Got, Entries, Titled, Gathered, shelfVars, outputVars
  <1>3. JobAgrees'
    <2>1. \E g, h, L : g = libJob.held /\ h = libJob.held.group /\ L = libJob.lost
      <3> WITNESS libJob.held, libJob.held.group, libJob.lost
      <3> QED  OBVIOUS
    <2>2. libJob' = libJob /\ curated' = curated
      OBVIOUS
    <2>3. PICK g, h, L : g = libJob.held /\ h = libJob.held.group /\ L = libJob.lost
      BY <2>1
    <2> QED  BY <1>2, <2>2, <2>3 DEF LibInv, JobAgrees
  <1> QED  BY <1>1, <1>3 DEF LibInv

\* The provider, imports and edits.
LEMMA LibraryEdited ==
  ASSUME LibInv,
         \/ \E i \in UpItems, c \in UpCategories \union {Nowhere} : ProviderMoves(i, c)
         \/ \E g \in Curated, o \in SUBSET {"strm", "http"}, l \in SUBSET UpCategories : EditCurated(g, o, l)
         \/ \E g \in Curated : DeleteCurated(g)
  PROVE  LibInv'
  <1>1. CASE \E i \in UpItems, c \in UpCategories \union {Nowhere} : ProviderMoves(i, c)
    <2>1. UNCHANGED <<stock, curated, shelfVars, outputVars, libJob>> /\ DOMAIN offer' = DOMAIN offer
      BY <1>1 DEF ProviderMoves, LibEdit
    <2> QED  BY <2>1, LibraryStands DEF LibInv, LibTypeOK
  <1>2. ASSUME NEW g \in Curated, NEW o, NEW l, EditCurated(g, o, l)  PROVE LibInv'
    <2>1. JobTypeOK' /\ JobAgrees'
      BY <1>2, RunAskedKeeps DEF EditCurated, LibInv
    <2>2. LibTypeOK' /\ IdsApart'
      BY <1>2 DEF EditCurated, LibEdit, LibInv, LibTypeOK, IdsApart, shelfVars, outputVars
    <2> QED  BY <2>1, <2>2 DEF LibInv
  <1>3. ASSUME NEW g \in Curated, DeleteCurated(g)  PROVE LibInv'
    <2>1. JobTypeOK' /\ JobAgrees'
      BY <1>3, RunAskedKeeps DEF DeleteCurated, LibInv
    <2>2. LibTypeOK'
      BY <1>3 DEF DeleteCurated, LibInv, LibTypeOK, outputVars
    <2>3. IdsApart'
      <3>1. \A h \in Curated : shelves'[h] = shelves[h] \/ DOMAIN shelves'[h] = {}
        BY <1>3 DEF DeleteCurated, LibInv, LibTypeOK
      <3>2. nextTitleId' = nextTitleId
        BY <1>3 DEF DeleteCurated
      <3> QED  BY <3>1, <3>2 DEF IdsApart, LibInv
    <2> QED  BY <2>1, <2>2, <2>3 DEF LibInv
  <1> QED  BY <1>1, <1>2, <1>3

LEMMA LibraryImported ==
  ASSUME LibInv, ImportCatalogue
  PROVE  LibInv'
  <1>1. PICK listed : DOMAIN listed \subseteq UpItems /\ Imports(listed)
    BY DEF ImportCatalogue, LibInv, LibTypeOK
  <1>2. JobTypeOK' /\ JobAgrees'
    <2>1. \E W \in SUBSET SUBSET Curated : libJob' \in Asked(W) \union {NoLibJob}
      <3> DEFINE remaining == upCats \intersect ({listed[i] : i \in DOMAIN listed} \ {Nowhere})
                 relinked == [h \in Curated |-> [curated[h] EXCEPT !.links = @ \intersect remaining]]
                 groups == {g \in Curated : relinked[g].links # {}}
      <3>1. libJob' \in OneOf(groups)
        BY <1>1 DEF Imports
      <3>2. {{g} : g \in groups} \in SUBSET SUBSET Curated
        OBVIOUS
      <3> QED  BY <3>1, <3>2 DEF OneOf
    <2> QED  BY <2>1, RunAskedKeeps DEF LibInv
  <1>3. LibTypeOK' /\ IdsApart'
    BY <1>1 DEF Imports, LibInv, LibTypeOK, IdsApart, outputVars
  <1> QED  BY <1>2, <1>3 DEF LibInv

\* The run begins, loads, writes, fails or ends.
LEMMA JobBootsKept ==
  ASSUME LibInv, JobBoots  PROVE LibInv'
  <1>1. LibTypeOK' /\ IdsApart'
    BY DEF JobBoots, LibInv, LibTypeOK, IdsApart, libSourceVars, shelfVars, outputVars
  <1>2. JobTypeOK' /\ JobAgrees'
    BY DEF JobBoots, LibMoves, LibInv, JobTypeOK, JobAgrees, Running
  <1> QED  BY <1>1, <1>2 DEF LibInv

LEMMA JobLoadsKept ==
  ASSUME LibInv, JobLoads  PROVE LibInv'
  <1>1. LibTypeOK' /\ IdsApart'
    BY DEF JobLoads, LibInv, LibTypeOK, IdsApart, libSourceVars, shelfVars, outputVars
  <1>2. \A g : /\ ShelfIsCurrent(g) <=> ShelfIsCurrent(g)'
               /\ \A L : OutputsAreCurrent(g, L) <=> OutputsAreCurrent(g, L)'
               /\ Entries(g) = Entries(g)'
    BY DEF JobLoads, ShelfIsCurrent, OutputsAreCurrent, Got, Entries, Titled, Gathered, libSourceVars, shelfVars, outputVars
  <1>3. PICK g, L : g = libJob.held /\ L = libJob.lost
    <2>1. \E g, L : g = libJob.held /\ L = libJob.lost
      <3> WITNESS libJob.held, libJob.lost
      <3> QED  OBVIOUS
    <2> QED  BY <2>1
  <1>4. libJob' = [libJob EXCEPT !.step = "write", !.held =
                     [group |-> g, outputs |-> curated[g].outputs, titles |-> Entries(g)]]
    BY <1>3 DEF JobLoads, LibMoves, Entries
  <1>5. /\ libJob'.step = "write" /\ libJob'.clean = libJob.clean /\ libJob'.fresh = libJob.fresh
        /\ libJob'.lost = L /\ libJob'.todo = libJob.todo /\ DOMAIN libJob' = DOMAIN libJob
        /\ libJob'.held = [group |-> g, outputs |-> curated[g].outputs, titles |-> Entries(g)]
    BY <1>3, <1>4 DEF JobLoads, LibInv, JobTypeOK, Running
  <1>6. libJob.step = "load" /\ curated' = curated
    BY DEF JobLoads, libSourceVars
  <1>7. JobTypeOK'
    BY <1>3, <1>5, <1>6 DEF LibInv, JobTypeOK, Running
  <1>8. ASSUME libJob.clean
        PROVE  ShelfIsCurrent(g)' /\ \A h \in libJob.fresh : ShelfIsCurrent(h)' /\ OutputsAreCurrent(h, L)'
    BY <1>2, <1>3, <1>6, <1>8 DEF LibInv, JobAgrees, Running
  <1>9. g = libJob'.held.group /\ Entries(g)' = Entries(g)
    <2>1. Entries(g)' = Entries(g)
      BY <1>2
    <2>2. g = libJob'.held.group
      BY <1>5
    <2> QED  BY <2>1, <2>2
  <1>10. JobAgrees'
    <2> SUFFICES ASSUME libJob.clean
                 PROVE  /\ \A h \in libJob.fresh : ShelfIsCurrent(h)' /\ OutputsAreCurrent(h, L)'
                        /\ ShelfIsCurrent(g)'
                        /\ libJob'.held.outputs = curated'[g].outputs
                        /\ libJob'.held.titles = Entries(g)'
      BY <1>5, <1>9 DEF JobAgrees
    <2> QED  BY <1>5, <1>6, <1>8, <1>9
  <1> QED  BY <1>1, <1>7, <1>10 DEF LibInv

LEMMA JobEndsKept ==
  ASSUME LibInv, JobFails \/ JobCleans  PROVE LibInv'
  <1>1. LibTypeOK' /\ IdsApart'
    BY DEF JobFails, JobCleans, LibInv, LibTypeOK, IdsApart, libSourceVars, shelfVars, outputVars
  <1>2. JobTypeOK' /\ JobAgrees'
    BY DEF JobFails, JobCleans, LibMoves, NoLibJob, JobTypeOK, JobAgrees, Running
  <1> QED  BY <1>1, <1>2 DEF LibInv

\* Another category's outputs are not touched.
LEMMA JobWritesKept ==
  ASSUME LibInv, JobWrites  PROVE LibInv'
  <1> USE DEF LibInv
  <1>1. LibTypeOK' /\ IdsApart'
    <2>1. UNCHANGED <<offer, stock, shelves, nextTitleId>>
      BY DEF JobWrites, libSourceVars, shelfVars
    <2>2. \E g, v : strmFolders' = [strmFolders EXCEPT ![g] = v]
      <3> WITNESS libJob.held.group
      <3> QED  BY DEF JobWrites
    <2>3. \E g, w : httpLibrary' = [httpLibrary EXCEPT ![g] = w]
      <3> WITNESS libJob.held.group
      <3> QED  BY DEF JobWrites
    <2>4. IdsApart'
      BY <2>1 DEF IdsApart
    <2>5. strmFolders' = [g \in Curated |-> strmFolders'[g]]
      BY <2>2 DEF LibTypeOK
    <2>6. httpLibrary' = [g \in Curated |-> httpLibrary'[g]]
      BY <2>3 DEF LibTypeOK
    <2> QED  BY <2>1, <2>4, <2>5, <2>6 DEF LibTypeOK
  <1>2. PICK g, L : g = libJob.held.group /\ L = libJob.lost
    <2>1. \E g, L : g = libJob.held.group /\ L = libJob.lost
      <3> WITNESS libJob.held.group, libJob.lost
      <3> QED  OBVIOUS
    <2> QED  BY <2>1
  <1>3. g \in libJob.todo /\ g \in Curated /\ libJob.step = "write" /\ g \notin libJob.fresh
    BY <1>2 DEF JobWrites, JobTypeOK, Running
  <1> DEFINE for(missed, output) ==
               IF output \in libJob.held.outputs THEN {e \in libJob.held.titles : e[1] \notin missed} ELSE {}
  <1>4. PICK missed : /\ strmFolders' = [strmFolders EXCEPT ![g] =
                         IF "strm" \in libJob.held.outputs \/ g \in strmRegistry THEN for(missed, "strm") ELSE @]
                    /\ httpLibrary' = [httpLibrary EXCEPT ![g] = for(missed, "http")]
                    /\ libJob' = [libJob EXCEPT !.step = "rebuild", !.todo = @ \ {g}, !.held = <<>>,
                                                !.fresh = @ \union {g}, !.lost = @ \union ({g} \X missed)]
    BY <1>2 DEF JobWrites, LibMoves
  <1>5. /\ libJob'.step = "rebuild" /\ libJob'.clean = libJob.clean /\ libJob'.fresh = libJob.fresh \union {g}
        /\ libJob'.lost = L \union ({g} \X missed)
        /\ libJob'.todo = libJob.todo \ {g} /\ DOMAIN libJob' = DOMAIN libJob
    BY <1>2, <1>3, <1>4 DEF JobTypeOK, Running
  <1>6. JobTypeOK'
    <2>1. \A h \in libJob.todo \ {g} : \A t : <<h, t>> \notin L /\ <<h, t>> \notin {g} \X missed
      BY <1>2, <1>3 DEF JobTypeOK, Running
    <2> QED  BY <1>3, <1>5, <2>1 DEF JobTypeOK, Running
  <1>7. \A h : (ShelfIsCurrent(h) <=> ShelfIsCurrent(h)') /\ Entries(h) = Entries(h)'
    BY DEF JobWrites, ShelfIsCurrent, Entries, Titled, Gathered, libSourceVars, shelfVars
  <1>8. curated' = curated
    BY DEF JobWrites, libSourceVars
  <1>9. \A h \in Curated \ {g} : strmFolders'[h] = strmFolders[h] /\ httpLibrary'[h] = httpLibrary[h]
    BY <1>4 DEF LibTypeOK
  <1>10. /\ "strm" \in libJob.held.outputs => strmFolders'[g] = {e \in libJob.held.titles : e[1] \notin missed}
         /\ "http" \in libJob.held.outputs => httpLibrary'[g] = {e \in libJob.held.titles : e[1] \notin missed}
    BY <1>3, <1>4 DEF LibTypeOK
  <1> DEFINE LL == L \union ({g} \X missed)
  <1>11. PICK M : M = LL
    OBVIOUS
  <1>12. ASSUME libJob.clean  PROVE ShelfIsCurrent(g)' /\ OutputsAreCurrent(g, M)'
    <2>1. /\ ShelfIsCurrent(g) /\ libJob.held.outputs = curated[g].outputs /\ libJob.held.titles = Entries(g)
      BY <1>2, <1>3, <1>12 DEF JobAgrees, Running
    <2>2. ASSUME NEW e \in Entries(g)  PROVE <<g, e[1]>> \notin L
      BY <1>2, <1>3 DEF JobTypeOK, Running
    <2>3. \A e \in Entries(g) : <<g, e[1]>> \notin M <=> e[1] \notin missed
      BY <1>11, <2>2
    <2>4. Got(g, M)' = {e \in libJob.held.titles : e[1] \notin missed}
      BY <1>7, <2>1, <2>3 DEF Got
    <2> QED  BY <1>7, <1>8, <1>10, <2>1, <2>4 DEF OutputsAreCurrent
  <1>13. ASSUME libJob.clean, NEW h \in libJob.fresh  PROVE ShelfIsCurrent(h)' /\ OutputsAreCurrent(h, M)'
    <2>1. h \in Curated \ {g} /\ ShelfIsCurrent(h) /\ OutputsAreCurrent(h, L)
      BY <1>2, <1>3, <1>13 DEF JobAgrees, JobTypeOK, Running
    <2>2. \A x : <<h, x>> \in M <=> <<h, x>> \in L
      BY <1>11, <2>1
    <2>3. Got(h, M)' = Got(h, L)
      BY <1>7, <2>2 DEF Got
    <2> QED  BY <1>7, <1>8, <1>9, <2>1, <2>3 DEF OutputsAreCurrent
  <1>14. JobAgrees'
    BY <1>5, <1>11, <1>12, <1>13 DEF JobAgrees
  <1> QED  BY <1>1, <1>6, <1>14

\* What rebuilding a category makes of the ids: a title keeps its own, the
\* others get ones that nobody has, and other categories keep theirs.
LEMMA TitlesAreFinite ==
  ASSUME LibTypeOK, NEW g
  PROVE  IsFiniteSet(Titled(g))
  <1> DEFINE S == {j \in DOMAIN stock : stock[j] \in curated[g].links}
             f == [j \in S |-> TitleOf[j]]
  <1>1. IsFiniteSet(S)
    BY ItemsAssumption, FS_Subset DEF LibTypeOK
  <1>2. f \in Surjection(S, Titled(g))
    BY DEF Surjection, Titled
  <1> QED  BY <1>1, <1>2, FS_Surjection

LEMMA Rebuilt ==
  ASSUME LibInv, NEW h \in Curated, JobRebuilds(h), curated[h].links # {}
  PROVE  /\ nextTitleId' \in Nat /\ nextTitleId <= nextTitleId'
         /\ shelves' = [g \in Curated |-> shelves'[g]] /\ DOMAIN shelves'[h] = Titled(h)
         /\ \A g \in Curated \ {h} : shelves'[g] = shelves[g]
         /\ \A t \in Titled(h) :
               /\ \/ t \in DOMAIN shelves[h] /\ shelves'[h][t] = shelves[h][t]
                  \/ /\ shelves'[h][t] \in Nat /\ nextTitleId <= shelves'[h][t]
                     /\ shelves'[h][t] < nextTitleId'
               /\ \A u \in Titled(h) : shelves'[h][t] = shelves'[h][u] => t = u
               /\ shelves'[h][t] \in DOMAIN itemSources'
               /\ itemSources'[shelves'[h][t]] = Gathered(h, t)
         /\ \A n \in DOMAIN itemSources :
               (\A t \in DOMAIN shelves[h] : shelves[h][t] # n) /\ (\A t \in Titled(h) : shelves'[h][t] # n)
                  => n \in DOMAIN itemSources' /\ itemSources'[n] = itemSources[n]
  <1> DEFINE Fresh == Titled(h) \ DOMAIN shelves[h]
             Next(k) == nextTitleId..(nextTitleId + k - 1)
             ids(new) == [t \in Titled(h) |-> IF t \in DOMAIN new THEN new[t] ELSE shelves[h][t]]
             gone == {shelves[h][t] : t \in DOMAIN shelves[h] \ Titled(h)}
  <1>1. PICK new \in [Fresh -> Next(Cardinality(Titled(h)))] :
           /\ \A t, u \in DOMAIN new : new[t] = new[u] => t = u
           /\ {new[t] : t \in DOMAIN new} = Next(Cardinality(DOMAIN new))
           /\ shelves' = [shelves EXCEPT ![h] = ids(new)]
           /\ nextTitleId' = nextTitleId + Cardinality(DOMAIN new)
           /\ itemSources' = [n \in (DOMAIN itemSources \ gone) \union {ids(new)[t] : t \in DOMAIN ids(new)} |->
                 IF \E t \in DOMAIN ids(new) : ids(new)[t] = n
                 THEN Gathered(h, CHOOSE t \in DOMAIN ids(new) : ids(new)[t] = n) ELSE itemSources[n]]
    BY DEF JobRebuilds
  <1>2. nextTitleId \in Nat /\ Cardinality(Fresh) \in Nat /\ DOMAIN new = Fresh
    <2>1. IsFiniteSet(Fresh)
      BY TitlesAreFinite, FS_Subset DEF LibInv
    <2> QED  BY <2>1, FS_CardinalityType DEF LibInv, LibTypeOK
  <1> DEFINE made == ids(new)
  <1>3. /\ DOMAIN made = Titled(h)
        /\ \A t \in Titled(h) : made[t] = IF t \in Fresh THEN new[t] ELSE shelves[h][t]
    BY <1>2
  <1>4. \A t \in Fresh : new[t] \in Nat /\ nextTitleId <= new[t] /\ new[t] < nextTitleId'
    <2> TAKE t \in Fresh
    <2>1. new[t] \in Next(Cardinality(Fresh))
      BY <1>1, <1>2
    <2> QED  BY <1>1, <1>2, <2>1
  <1>5. \A t, u \in Titled(h) : made[t] = made[u] => t = u
    <2> SUFFICES ASSUME NEW t \in Titled(h), NEW u \in Titled(h), made[t] = made[u]  PROVE t = u
      OBVIOUS
    <2>1. \A v \in Titled(h) \ Fresh : v \in DOMAIN shelves[h] /\ shelves[h][v] \in Nat /\ shelves[h][v] < nextTitleId
      BY DEF LibInv, IdsApart
    <2>2. CASE t \in Fresh /\ u \in Fresh
      BY <1>1, <1>2, <1>3, <2>2
    <2>3. CASE t \notin Fresh /\ u \notin Fresh
      BY <1>3, <2>1, <2>3 DEF LibInv, IdsApart
    <2>4. CASE (t \in Fresh) # (u \in Fresh)
      <3> HIDE DEF Fresh, made
      <3> QED  BY <1>2, <1>3, <1>4, <2>1, <2>4
    <2> QED  BY <2>2, <2>3, <2>4
  <1>6. /\ shelves' = [g \in Curated |-> shelves'[g]] /\ shelves'[h] = made
        /\ \A g \in Curated \ {h} : shelves'[g] = shelves[g]
    BY <1>1 DEF LibInv, LibTypeOK
  <1>7. nextTitleId' \in Nat /\ nextTitleId <= nextTitleId'
    BY <1>1, <1>2
  <1>8. itemSources' = [n \in (DOMAIN itemSources \ gone) \union {made[t] : t \in Titled(h)} |->
                 IF \E t \in Titled(h) : made[t] = n
                 THEN Gathered(h, CHOOSE t \in Titled(h) : made[t] = n) ELSE itemSources[n]]
    BY <1>1, <1>3
  <1> HIDE DEF made
  <1>9. \A t \in Titled(h) : made[t] \in DOMAIN itemSources' /\ itemSources'[made[t]] = Gathered(h, t)
    <2> TAKE t \in Titled(h)
    <2>1. (CHOOSE u \in Titled(h) : made[u] = made[t]) = t
      BY <1>5
    <2> QED  BY <1>8, <2>1
  <1>10. \A n \in DOMAIN itemSources :
            (\A t \in DOMAIN shelves[h] : shelves[h][t] # n) /\ (\A t \in Titled(h) : made[t] # n)
               => n \in DOMAIN itemSources' /\ itemSources'[n] = itemSources[n]
    BY <1>8
  <1> HIDE DEF Fresh
  <1>11. \A t \in Titled(h) : \/ t \in DOMAIN shelves[h] /\ made[t] = shelves[h][t]
                              \/ made[t] \in Nat /\ nextTitleId <= made[t] /\ made[t] < nextTitleId'
    BY <1>3, <1>4 DEF Fresh
  <1> QED  BY <1>3, <1>5, <1>6, <1>7, <1>9, <1>10, <1>11

LEMMA RebuildKeepsIds ==
  ASSUME LibInv, NEW h \in Curated, JobRebuilds(h), curated[h].links # {}
  PROVE  /\ LibTypeOK' /\ IdsApart' /\ ShelfIsCurrent(h)'
         /\ \A g \in Curated \ {h} : ShelfIsCurrent(g) => ShelfIsCurrent(g)'
  <1>1. /\ nextTitleId \in Nat /\ nextTitleId' \in Nat /\ nextTitleId <= nextTitleId'
        /\ \A g \in Curated \ {h} : shelves'[g] = shelves[g]
        /\ DOMAIN shelves'[h] = Titled(h)
    BY Rebuilt DEF LibInv, LibTypeOK
  <1>2. UNCHANGED <<offer, stock, curated, strmFolders, httpLibrary>>
    BY DEF JobRebuilds, libSourceVars, outputVars
  <1>3. LibTypeOK'
    BY <1>1, <1>2, Rebuilt DEF LibInv, LibTypeOK
  <1>4. \A g \in Curated \ {h} : \A t \in DOMAIN shelves[g] :
           /\ shelves[g][t] \in Nat /\ shelves[g][t] < nextTitleId
           /\ \A u \in DOMAIN shelves[h] : shelves[h][u] # shelves[g][t]
    BY DEF LibInv, IdsApart
  <1>5. \A t \in Titled(h) : /\ shelves'[h][t] \in Nat /\ shelves'[h][t] < nextTitleId'
                             /\ \/ t \in DOMAIN shelves[h] /\ shelves'[h][t] = shelves[h][t]
                                \/ nextTitleId <= shelves'[h][t]
    <2> TAKE t \in Titled(h)
    <2>1. CASE t \in DOMAIN shelves[h] /\ shelves'[h][t] = shelves[h][t]
      BY <1>1, <2>1 DEF LibInv, IdsApart
    <2> QED  BY <2>1, Rebuilt
  <1>6. \A g \in Curated \ {h} : \A t \in DOMAIN shelves[g], u \in Titled(h) : shelves[g][t] # shelves'[h][u]
    BY <1>1, <1>4, <1>5
  <1>7. IdsApart'
    <2> SUFFICES ASSUME NEW g \in Curated, NEW k \in Curated, NEW t \in DOMAIN shelves'[g]
                 PROVE  /\ shelves'[g][t] \in Nat /\ shelves'[g][t] < nextTitleId'
                        /\ \A u \in DOMAIN shelves'[k] : shelves'[g][t] = shelves'[k][u] => g = k /\ t = u
      BY DEF IdsApart
    <2>1. shelves'[g][t] \in Nat /\ shelves'[g][t] < nextTitleId'
      BY <1>1, <1>4, <1>5
    <2>2. CASE g = h /\ k = h
      BY <1>1, <2>1, <2>2, Rebuilt
    <2>3. CASE (g = h) # (k = h)
      BY <1>1, <1>6, <2>1, <2>3
    <2>4. CASE g # h /\ k # h
      BY <1>1, <2>1, <2>4 DEF LibInv, IdsApart
    <2> QED  BY <2>2, <2>1, <2>3, <2>4
  <1>8. ShelfIsCurrent(h)'
    <2>1. Titled(h)' = Titled(h) /\ \A t : Gathered(h, t)' = Gathered(h, t)
      BY <1>2 DEF Titled, Gathered
    <2> QED  BY <2>1, Rebuilt DEF ShelfIsCurrent
  <1>9. ASSUME NEW g \in Curated \ {h}, ShelfIsCurrent(g)  PROVE ShelfIsCurrent(g)'
    <2>1. Titled(g)' = Titled(g) /\ \A t : Gathered(g, t)' = Gathered(g, t)
      BY <1>2 DEF Titled, Gathered
    <2>2. shelves'[g] = shelves[g] /\ curated' = curated
      BY <1>1, <1>2
    <2>3. ASSUME curated[g].links # {}, NEW t \in Titled(g)
          PROVE  /\ shelves[g][t] \in DOMAIN itemSources'
                 /\ itemSources'[shelves[g][t]] = itemSources[shelves[g][t]]
      BY <1>4, <1>6, <1>9, <2>3, Rebuilt DEF ShelfIsCurrent
    <2> QED  BY <1>9, <2>1, <2>2, <2>3 DEF ShelfIsCurrent
  <1> QED  BY <1>3, <1>7, <1>8, <1>9

LEMMA JobRebuildsKept ==
  ASSUME LibInv, NEW h \in Curated, JobRebuilds(h)  PROVE LibInv'
  <1>1. /\ LibTypeOK' /\ IdsApart' /\ ShelfIsCurrent(h)'
        /\ \A g \in Curated \ {h} : ShelfIsCurrent(g) => ShelfIsCurrent(g)'
        /\ \A g \in Curated \ {h} : Entries(g)' = Entries(g)
    <2>1. CASE curated[h].links = {}
      <3>1. UNCHANGED <<offer, stock, curated, shelfVars, outputVars>>
        BY <2>1 DEF JobRebuilds, libSourceVars
      <3> QED
        BY <2>1, <3>1 DEF LibInv, LibTypeOK, IdsApart, ShelfIsCurrent, Entries, Titled, Gathered, shelfVars, outputVars
    <2>2. CASE curated[h].links # {}
      <3>1. \A g \in Curated \ {h} : shelves'[g] = shelves[g]
        BY <2>2, Rebuilt
      <3> QED  BY <2>2, <3>1, RebuildKeepsIds DEF Entries
    <2> QED  BY <2>1, <2>2
  <1>2. /\ libJob'.step = "load" /\ libJob'.held = h /\ libJob'.clean = libJob.clean
        /\ libJob'.fresh = libJob.fresh /\ libJob'.todo = libJob.todo /\ libJob'.lost = libJob.lost
        /\ DOMAIN libJob' = DOMAIN libJob
    BY DEF JobRebuilds, LibMoves, LibInv, JobTypeOK, Running
  <1>3. libJob.step = "rebuild" /\ h \in libJob.todo
    BY DEF JobRebuilds
  <1>4. JobTypeOK'
    BY <1>2, <1>3 DEF LibInv, JobTypeOK, Running
  <1>5. UNCHANGED <<curated, strmFolders, httpLibrary>>
    BY DEF JobRebuilds, libSourceVars, outputVars
  <1>6. \A g \in libJob.fresh : g \in Curated \ {h}
    BY <1>3 DEF LibInv, JobTypeOK, Running
  <1>7. PICK L : L = libJob.lost
    OBVIOUS
  <1>8. ASSUME libJob.clean, NEW g \in libJob.fresh  PROVE ShelfIsCurrent(g)' /\ OutputsAreCurrent(g, L)'
    <2>1. ShelfIsCurrent(g) /\ OutputsAreCurrent(g, L)
      BY <1>3, <1>7, <1>8 DEF LibInv, JobAgrees, Running
    <2>2. Got(g, L)' = Got(g, L)
      BY <1>1, <1>6 DEF Got
    <2> QED  BY <1>1, <1>5, <1>6, <2>1, <2>2 DEF OutputsAreCurrent
  <1>9. JobAgrees'
    BY <1>1, <1>2, <1>7, <1>8 DEF JobAgrees
  <1> QED  BY <1>1, <1>4, <1>9 DEF LibInv

LEMMA LibraryStep == LibInv /\ [LibraryNext]_libVars => LibInv'
  <1> SUFFICES ASSUME LibInv, [LibraryNext]_libVars  PROVE LibInv'
    OBVIOUS
  <1>1. ASSUME NEW g \in Curated, JobRebuilds(g)  PROVE LibInv'
    BY <1>1, JobRebuildsKept
  <1>2. CASE UNCHANGED libVars
    BY <1>2, LibraryStands DEF libVars, shelfVars, outputVars, LibInv, LibTypeOK
  <1> QED
    BY <1>1, <1>2, LibraryEdited, LibraryImported, JobBootsKept, JobLoadsKept, JobWritesKept, JobEndsKept
       DEF LibraryNext

\* A run of the subprocess that nothing disturbed leaves the folder and the
\* HTTP library of every category it was for with exactly the titles the
\* category gathers now - but for the series whose episodes the run could not get
\* - under ids that play what the provider lists, however runs, imports, edits and
\* failures went before (vod.py, rebuild_vod_group_cache and what writes its
\* outputs).
THEOREM LibraryIsCurrent == LibrarySpec => LibraryMatches
  <1>1. ASSUME LibInv, JobCleans, libJob.clean
        PROVE  FreshAreCurrent
    <2>1. \A g \in Curated : /\ "strm" \in curated[g].outputs => strmFolders'[g] = strmFolders[g]
                             /\ httpLibrary'[g] = IF "http" \in curated[g].outputs THEN httpLibrary[g] ELSE {}
      BY <1>1 DEF JobCleans
    <2>2. libJob.step = "rebuild" /\ libJob.fresh \subseteq Curated
      BY <1>1 DEF JobCleans, LibInv, JobTypeOK, Running
    <2>3. ASSUME NEW g \in libJob.fresh, curated[g].links # {}
          PROVE  LET entries == {<<t, shelves[g][t]>> : t \in Titled(g)}
                     got == {e \in entries : <<g, e[1]>> \notin libJob.lost}
                 IN  /\ "strm" \in curated[g].outputs => strmFolders'[g] = got
                     /\ "http" \in curated[g].outputs => httpLibrary'[g] = got
                     /\ \A e \in entries : itemSources[e[2]] # {} /\ itemSources[e[2]] \subseteq DOMAIN stock
      <3>1. ShelfIsCurrent(g) /\ OutputsAreCurrent(g, libJob.lost)
        BY <1>1, <2>2 DEF LibInv, JobAgrees, Running
      <3>2. Entries(g) = {<<t, shelves[g][t]>> : t \in Titled(g)}
        BY <2>3, <3>1 DEF Entries, ShelfIsCurrent
      <3>3. \A t \in Titled(g) : Gathered(g, t) # {} /\ Gathered(g, t) \subseteq DOMAIN stock
        BY DEF Titled, Gathered
      <3> QED  BY <2>1, <2>2, <2>3, <3>1, <3>2, <3>3 DEF OutputsAreCurrent, Got, ShelfIsCurrent
    <2> QED  BY <2>1, <2>3 DEF FreshAreCurrent
  <1> QED  BY LibraryInitially, LibraryStep, <1>1, PTL DEF LibrarySpec, LibraryMatches
-----------------------------------------------------------------------------
(* Requests to play a title *)

Offers == [row : Rows, account : PlayAccounts \union {""}]
PlayStages == {"idle", "build", "select", "start", "plays", "not_found", "capacity_blocked",
           "stream_unavailable", "disabled", "no_source", "lost_race"}
Manners == Modes \union {""}
PlayRecords ==
    [at : PlayStages, mode : Manners, left : SUBSET Offers, found : SUBSET Offers, spare : SUBSET Offers,
     blocked : BOOLEAN, row : Rows \union {""}, account : PlayAccounts \union {""}]

PlayTypeOK ==
    /\ plays \in [Viewings -> PlayRecords]
    /\ roomy \in [Viewings -> SUBSET Rows] /\ covered \in [Viewings -> BOOLEAN]

\* A row that could serve a request all along has not been passed over while the
\* request looks for a provider: it has yet to be considered, or it is among the
\* candidates, with an account of its own.
WithAccount(cs, w) == \E c \in cs : c.row = w /\ c.account \in RowAccounts(w)
NotPassedOver(play, ws) ==
    \A w \in ws :
        /\ play.at = "build" => (\E c \in play.left : c.row = w) \/ WithAccount(play.found, w)
        /\ play.at = "select" => WithAccount(play.left, w)
        /\ play.at \notin {"not_found", "capacity_blocked", "stream_unavailable"}

\* A request that could play a copy all along has a candidate to play it under,
\* and does not go on to choose a provider.
CopyNotMissed(play, copy) ==
    copy =>
        /\ play.at = "build" => play.left # {} \/ play.found # {} \/ play.spare # {}
        /\ play.at = "start" => play.row \in Rows
        /\ play.mode # "xc_hls" =>
             /\ play.at # "select"
             /\ play.mode = "session" \/ play.at \in {"idle", "build", "start", "plays"}

PlaybackInv ==
    /\ PlayTypeOK
    /\ \A r \in Viewings :
        /\ roomy[r] \subseteq Roomy /\ (covered[r] => Covered)
        /\ NotPassedOver(plays[r], roomy[r]) /\ CopyNotMissed(plays[r], covered[r])

LEMMA NobodyIs == Nobody \in PlayRecords /\ Nobody.at = "idle"
  BY DEF Nobody, PlayRecords, PlayStages, Manners

\* The accounts that are chosen for a row are its own.
LEMMA AccountsAreOwn ==
    ASSUME NEW w \in Rows, NEW counted
    PROVE  /\ RowAccounts(w) \subseteq PlayAccounts
           /\ AccountsFor(RowOf[w].playlist, counted) \subseteq RowAccounts(w)
  BY RowsArePlayed DEF AccountsFor, Answering, RowAccounts, AccountsAt, PlayAccounts

\* A row that can serve has an account that answers, and room on each.
LEMMA ServesWithAny ==
    ASSUME NEW w \in Rows, CanServe(w)
    PROVE  /\ RowOf[w].playlist \in onOffer /\ Answering(RowOf[w].playlist) # {}
           /\ \A a \in RowAccounts(w) : HasCapacity(a)
  BY DEF CanServe, Answering, RowAccounts, AccountsAt

\* What a step of one request must leave for the invariant to hold.
PlayGoes(r, play) ==
    /\ play \in PlayRecords /\ plays' = [plays EXCEPT ![r] = play]
    /\ NotPassedOver(play, roomy'[r]) /\ CopyNotMissed(play, covered'[r])

\* What could serve a request that looks, or be played to it, could before.
HistoriesGoOn ==
    /\ roomy' \in [Viewings -> SUBSET Rows] /\ covered' \in [Viewings -> BOOLEAN]
    /\ \A r \in Viewings :
        /\ roomy'[r] \subseteq Roomy' /\ (covered'[r] => Covered')
        /\ plays[r].at \notin {"idle", "plays"} => roomy'[r] \subseteq roomy[r] /\ (covered'[r] => covered[r])

LEMMA HistoriesKept ==
    ASSUME PlaybackInv, PlaybackNext
    PROVE  HistoriesGoOn
  BY DEF PlaybackInv, PlayTypeOK, PlaybackNext, HistoriesGoOn, Roomy, Covered

LEMMA RequestGoes ==
    ASSUME PlaybackInv, HistoriesGoOn, NEW r \in Viewings, NEW play, PlayGoes(r, play)
    PROVE  PlaybackInv'
  <1>1. PlayTypeOK'
    BY DEF PlaybackInv, HistoriesGoOn, PlayTypeOK, PlayGoes
  <1>2. ASSUME NEW s \in Viewings
        PROVE  NotPassedOver(plays'[s], roomy'[s]) /\ CopyNotMissed(plays'[s], covered'[s])
    <2>1. CASE s = r
      BY <2>1 DEF PlayGoes, PlaybackInv, PlayTypeOK
    <2>2. CASE s # r
      <3>1. plays'[s] = plays[s]
        BY <2>2 DEF PlayGoes, PlaybackInv, PlayTypeOK
      <3> QED  BY <3>1 DEF PlaybackInv, PlayTypeOK, HistoriesGoOn, NotPassedOver, CopyNotMissed
    <2> QED  BY <2>1, <2>2
  <1> QED  BY <1>1, <1>2 DEF PlaybackInv, HistoriesGoOn

LEMMA AroundRequests ==
    ASSUME PlaybackInv, HistoriesGoOn, plays' = plays
    PROVE  PlaybackInv'
  <1>1. ASSUME NEW s \in Viewings
        PROVE  NotPassedOver(plays[s], roomy'[s]) /\ CopyNotMissed(plays[s], covered'[s])
    BY DEF PlaybackInv, PlayTypeOK, HistoriesGoOn, NotPassedOver, CopyNotMissed
  <1> QED  BY <1>1 DEF PlaybackInv, PlayTypeOK, HistoriesGoOn

LEMMA AskedGoes ==
    ASSUME PlaybackInv, HistoriesGoOn, NEW r \in Viewings, NEW mode \in Modes, ViewingAsked(r, mode)
    PROVE  \E play : PlayGoes(r, play)
  <1> DEFINE left == {Candidate(w, "") : w \in {v \in Rows : RowOf[v].playlist \in onOffer}}
             play == [Nobody EXCEPT !.at = "build", !.mode = mode, !.left = left]
  <1>0. ASSUME NEW w \in Rows PROVE Candidate(w, "") \in Offers
    BY DEF Offers, Candidate
  <1>1. left \in SUBSET Offers /\ mode \in Manners
    BY <1>0 DEF Manners
  <1>2. play \in PlayRecords /\ play.at = "build" /\ play.left = left
    BY <1>1 DEF Nobody, PlayRecords, PlayStages
  <1>3. NotPassedOver(play, roomy'[r])
    <2>1. ASSUME NEW w \in roomy'[r]
          PROVE  \E c \in left : c.row = w
      <3>1. w \in Rows /\ RowOf[w].playlist \in onOffer
        BY DEF ViewingAsked, Still, HistoriesGoOn, Roomy, CanServe
      <3>2. Candidate(w, "") \in left /\ Candidate(w, "").row = w
        BY <3>1 DEF Candidate
      <3> QED  BY <3>2
    <2> HIDE DEF left, play
    <2> QED  BY <2>1, <1>2 DEF NotPassedOver
  <1>4. CopyNotMissed(play, covered'[r])
    <2>1. ASSUME covered'[r] PROVE left # {}
      <3>1. PICK w \in Rows : RowOf[w].playlist \in onOffer
        BY <2>1, RowsArePlayed DEF HistoriesGoOn, Covered, ViewingAsked, Still
      <3>2. Candidate(w, "") \in left
        BY <3>1
      <3> QED  BY <3>2
    <2> HIDE DEF left, play
    <2> QED  BY <2>1, <1>2 DEF CopyNotMissed
  <1> QED  BY <1>2, <1>3, <1>4 DEF PlayGoes, ViewingAsked, Becomes

LEMMA ConsideredGoes ==
    ASSUME PlaybackInv, HistoriesGoOn, NEW r \in Viewings, NEW c, NEW counted, ConsidersRow(r, c, counted)
    PROVE  \E play : PlayGoes(r, play)
  <1> DEFINE next == [plays[r] EXCEPT !.left = @ \ {c}]
             p == RowOf[c.row].playlist
  <1>1. plays[r] \in PlayRecords /\ plays[r].at = "build" /\ c \in plays[r].left /\ c \in Offers /\ c.row \in Rows
    <2>1. plays[r].at = "build" /\ c \in plays[r].left
      BY DEF ConsidersRow, Leading
    <2>2. plays[r] \in PlayRecords
      BY DEF PlaybackInv, PlayTypeOK
    <2> QED  BY <2>1, <2>2 DEF PlayRecords, Offers
  <1>2. /\ next \in PlayRecords /\ next.at = "build" /\ next.left = plays[r].left \ {c}
        /\ next.found = plays[r].found /\ next.spare = plays[r].spare /\ next.mode = plays[r].mode
    BY <1>1 DEF PlayRecords
  <1>3. /\ \A w \in roomy'[r] : (\E d \in plays[r].left : d.row = w) \/ WithAccount(plays[r].found, w)
        /\ \A w \in roomy'[r] : w \in Rows /\ CanServe(w)
        /\ covered'[r] => Covered
    BY <1>1 DEF PlaybackInv, PlayTypeOK, HistoriesGoOn, NotPassedOver, Roomy
  <1>4. CASE p \notin onOffer
    <2>1. plays' = [plays EXCEPT ![r] = next]
      BY <1>4 DEF ConsidersRow, Becomes
    <2>2. ~covered'[r]
      BY <1>3, <1>4, <1>1, RowsArePlayed DEF Covered
    <2>3. \A w \in roomy'[r] : c.row # w
      BY <1>3, <1>4, ServesWithAny
    <2>4. NotPassedOver(next, roomy'[r])
      BY <1>2, <1>3, <2>3 DEF NotPassedOver
    <2> QED  BY <1>2, <2>1, <2>2, <2>4 DEF PlayGoes, CopyNotMissed
  <1>5. CASE p \in onOffer /\ Answering(p) # {}
    <2>1. PICK a \in AccountsFor(p, counted) :
            plays' = [plays EXCEPT ![r] = [next EXCEPT !.found = @ \union {Candidate(c.row, a)}]]
      BY <1>5 DEF ConsidersRow, Becomes
    <2> DEFINE got == Candidate(c.row, a)
               play == [next EXCEPT !.found = @ \union {got}]
    <2>2. a \in RowAccounts(c.row) /\ a \in PlayAccounts
      BY <1>1, AccountsAreOwn
    <2>3. got \in Offers /\ got.row = c.row /\ got.account = a
      BY <1>1, <2>2 DEF Offers, Candidate
    <2>4. /\ play \in PlayRecords /\ play.at = "build" /\ play.left = plays[r].left \ {c}
          /\ play.found = plays[r].found \union {got}
      BY <1>2, <2>3 DEF PlayRecords
    <2> HIDE DEF play, got, next
    <2>5. \A w \in roomy'[r] : (\E d \in play.left : d.row = w) \/ WithAccount(play.found, w)
      BY <1>3, <2>2, <2>3, <2>4 DEF WithAccount
    <2>6. NotPassedOver(play, roomy'[r])
      BY <2>4, <2>5 DEF NotPassedOver
    <2>7. CopyNotMissed(play, covered'[r])
      BY <2>4 DEF CopyNotMissed
    <2> QED  BY <2>1, <2>4, <2>6, <2>7 DEF PlayGoes, play, got, next
  <1>6. CASE ~(p \notin onOffer) /\ ~(p \in onOffer /\ Answering(p) # {})
    <2> DEFINE play == IF next.spare = {} THEN [next EXCEPT !.spare = {c}] ELSE next
    <2>1. plays' = [plays EXCEPT ![r] = play]
      BY <1>6 DEF ConsidersRow, Becomes
    <2>2. /\ play \in PlayRecords /\ play.at = "build" /\ play.left = plays[r].left \ {c}
          /\ play.found = plays[r].found /\ play.spare # {}
      BY <1>1, <1>2 DEF PlayRecords
    <2> HIDE DEF play, next
    <2>3. \A w \in roomy'[r] : c.row # w
      BY <1>3, <1>6, ServesWithAny
    <2>4. NotPassedOver(play, roomy'[r])
      BY <2>2, <1>3, <2>3 DEF NotPassedOver
    <2>5. CopyNotMissed(play, covered'[r])
      BY <2>2 DEF CopyNotMissed
    <2> QED  BY <2>1, <2>2, <2>4, <2>5 DEF PlayGoes
  <1> QED  BY <1>4, <1>5, <1>6

LEMMA BuiltGoes ==
    ASSUME PlaybackInv, HistoriesGoOn, NEW r \in Viewings, CandidatesBuilt(r)
    PROVE  \E play : PlayGoes(r, play)
  <1>1. /\ plays[r] \in PlayRecords /\ plays[r].at = "build" /\ plays[r].left = {}
        /\ plays[r].mode \in Manners /\ Candidates(r) \in SUBSET Offers
    BY DEF CandidatesBuilt, Candidates, PlaybackInv, PlayTypeOK, PlayRecords
  <1>2. \A w \in roomy'[r] : WithAccount(plays[r].found, w)
    BY <1>1 DEF PlaybackInv, PlayTypeOK, HistoriesGoOn, NotPassedOver
  <1>3. covered'[r] => Covered /\ Candidates(r) # {}
    BY <1>1 DEF PlaybackInv, PlayTypeOK, HistoriesGoOn, CopyNotMissed, Candidates
  <1>4. CASE Candidates(r) = {}
    <2> DEFINE play == [Nobody EXCEPT !.at = "not_found", !.mode = plays[r].mode]
    <2>1. plays' = [plays EXCEPT ![r] = play]
      BY <1>4 DEF CandidatesBuilt, Refused, Becomes
    <2>2. play \in PlayRecords
      BY <1>1 DEF Nobody, PlayRecords, PlayStages
    <2>3. roomy'[r] = {}
      BY <1>2, <1>4 DEF Candidates, WithAccount
    <2> QED  BY <2>1, <2>2, <2>3, <1>3, <1>4 DEF PlayGoes, NotPassedOver, CopyNotMissed
  <1>5. CASE Candidates(r) # {} /\ copied /\ LooksForCopy(r)
    <2>1. PICK c \in Candidates(r) : With(r, "start", c.row, "")
      BY <1>5 DEF CandidatesBuilt, Leading
    <2>2. c.row \in Rows
      BY <1>1 DEF Offers
    <2> DEFINE play == [Nobody EXCEPT !.at = "start", !.mode = plays[r].mode, !.row = c.row, !.account = ""]
    <2>3. play \in PlayRecords /\ play.at = "start" /\ play.row = c.row
      BY <1>1, <2>2 DEF Nobody, PlayRecords, PlayStages
    <2>4. plays' = [plays EXCEPT ![r] = play]
      BY <2>1 DEF With, Becomes
    <2> HIDE DEF play
    <2> QED  BY <2>2, <2>3, <2>4 DEF PlayGoes, NotPassedOver, CopyNotMissed
  <1>6. CASE Candidates(r) # {} /\ ~(copied /\ LooksForCopy(r))
    <2> DEFINE play == [Nobody EXCEPT !.at = "select", !.mode = plays[r].mode, !.left = Candidates(r)]
    <2>1. plays' = [plays EXCEPT ![r] = play]
      BY <1>6 DEF CandidatesBuilt, Becomes
    <2>2. play \in PlayRecords /\ play.at = "select" /\ play.left = Candidates(r) /\ play.mode = plays[r].mode
      BY <1>1 DEF Nobody, PlayRecords, PlayStages
    <2> HIDE DEF play
    <2>3. NotPassedOver(play, roomy'[r])
      BY <1>2, <2>2 DEF NotPassedOver, WithAccount, Candidates
    <2>4. CopyNotMissed(play, covered'[r])
      BY <1>3, <1>6, <2>2 DEF CopyNotMissed, Covered, LooksForCopy
    <2> QED  BY <2>1, <2>2, <2>3, <2>4 DEF PlayGoes
  <1> QED  BY <1>4, <1>5, <1>6

LEMMA WeighedGoes ==
    ASSUME PlaybackInv, HistoriesGoOn, NEW r \in Viewings, NEW c, NEW counted, Weighs(r, c, counted)
    PROVE  \E play : PlayGoes(r, play)
  <1>1. /\ plays[r] \in PlayRecords /\ plays[r].at = "select" /\ c \in plays[r].left /\ plays[r].mode \in Manners
        /\ c.row \in Rows /\ plays[r].left \in SUBSET Offers
    <2>1. plays[r].at = "select" /\ c \in plays[r].left
      BY DEF Weighs, Leading
    <2>2. plays[r] \in PlayRecords
      BY DEF PlaybackInv, PlayTypeOK
    <2> QED  BY <2>1, <2>2 DEF PlayRecords, Offers
  <1>2. /\ \A w \in roomy'[r] : w \in Rows /\ CanServe(w) /\ WithAccount(plays[r].left, w)
        /\ covered'[r] => plays[r].mode = "xc_hls"
    BY <1>1 DEF PlaybackInv, PlayTypeOK, HistoriesGoOn, NotPassedOver, CopyNotMissed, Roomy
  \* The candidate is dropped: it is not one of a row that could serve.
  <1>3. ASSUME NEW play \in PlayRecords, plays' = [plays EXCEPT ![r] = play], play.at = "select",
               play.mode = plays[r].mode, play.left = plays[r].left \ {c},
               c.row \in roomy'[r] => c.account \notin RowAccounts(c.row)
        PROVE  PlayGoes(r, play)
    <2>1. NotPassedOver(play, roomy'[r])
      BY <1>2, <1>3 DEF NotPassedOver, WithAccount
    <2>2. CopyNotMissed(play, covered'[r])
      BY <1>2, <1>3 DEF CopyNotMissed
    <2> QED  BY <2>1, <2>2, <1>3 DEF PlayGoes
  <1>4. CASE /\ c.account = "" /\ Becomes(r, [plays[r] EXCEPT !.left = @ \ {c}])
    <2> DEFINE play == [plays[r] EXCEPT !.left = @ \ {c}]
    <2>1. play \in PlayRecords /\ play.at = "select" /\ play.mode = plays[r].mode /\ play.left = plays[r].left \ {c}
      BY <1>1 DEF PlayRecords
    <2>2. c.account \notin RowAccounts(c.row)
      BY <1>1, <1>4, AccountsAreNamed, AccountsAreOwn
    <2> QED  BY <1>3, <1>4, <2>1, <2>2 DEF Becomes
  <1>5. ASSUME NEW a \in AccountsNow(c, counted), ~HasCapacity(a), Becomes(r, Passed(r, c))
        PROVE  \E play : PlayGoes(r, play)
    <2> DEFINE play == Passed(r, c)
    <2>1. play \in PlayRecords /\ play.at = "select" /\ play.mode = plays[r].mode /\ play.left = plays[r].left \ {c}
      BY <1>1 DEF PlayRecords, Passed
    <2>2. c.account = a \/ c.account = ""
      BY <1>5 DEF AccountsNow
    <2>3. c.row \in roomy'[r] => c.account \notin RowAccounts(c.row)
      BY <1>1, <1>2, <1>5, <2>2, ServesWithAny, AccountsAreNamed, AccountsAreOwn
    <2> HIDE DEF play
    <2> QED  BY <1>3, <1>5, <2>1, <2>3 DEF Becomes, play
  <1>6. ASSUME NEW a \in AccountsNow(c, counted), With(r, "start", c.row, a)
        PROVE  \E play : PlayGoes(r, play)
    <2> DEFINE play == [Nobody EXCEPT !.at = "start", !.mode = plays[r].mode, !.row = c.row, !.account = a]
    <2>1. a \in PlayAccounts \union {""}
      BY <1>1, AccountsAreOwn DEF AccountsNow, Offers
    <2>2. play \in PlayRecords /\ play.at = "start" /\ play.row = c.row
      BY <1>1, <2>1 DEF Nobody, PlayRecords, PlayStages
    <2>3. plays' = [plays EXCEPT ![r] = play]
      BY <1>6 DEF With, Becomes
    <2> HIDE DEF play
    <2> QED  BY <1>1, <2>2, <2>3 DEF PlayGoes, NotPassedOver, CopyNotMissed
  <1> QED  BY <1>4, <1>5, <1>6 DEF Weighs

LEMMA UnservedGoes ==
    ASSUME PlaybackInv, HistoriesGoOn, NEW r \in Viewings, NoneSelected(r)
    PROVE  \E play : PlayGoes(r, play)
  <1>1. plays[r].at = "select" /\ plays[r].left = {} /\ plays[r].mode \in Manners
    BY DEF NoneSelected, PlaybackInv, PlayTypeOK, PlayRecords
  <1>2. roomy'[r] = {} /\ (covered'[r] => plays[r].mode = "xc_hls")
    BY <1>1 DEF PlaybackInv, PlayTypeOK, HistoriesGoOn, NotPassedOver, CopyNotMissed, WithAccount
  <1>3. PICK why \in {"capacity_blocked", "stream_unavailable"} : Refused(r, why)
    BY DEF NoneSelected
  <1> DEFINE play == [Nobody EXCEPT !.at = why, !.mode = plays[r].mode]
  <1>4. play \in PlayRecords /\ play.at = why /\ play.mode = plays[r].mode
    BY <1>1 DEF Nobody, PlayRecords, PlayStages
  <1>5. plays' = [plays EXCEPT ![r] = play]
    BY <1>3 DEF Refused, Becomes
  <1> HIDE DEF play
  <1> QED  BY <1>2, <1>4, <1>5 DEF PlayGoes, NotPassedOver, CopyNotMissed

\* A start is refused for want of a copy only when there was none, or the
\* output cannot play it.
LEMMA StartGoes ==
    ASSUME PlaybackInv, HistoriesGoOn, NEW r \in Viewings, Starts(r)
    PROVE  \E play : PlayGoes(r, play)
  <1>1. /\ plays[r].at = "start" /\ plays[r].mode \in Manners
        /\ plays[r].row \in Rows \union {""} /\ plays[r].account \in PlayAccounts \union {""}
    BY DEF Starts, PlaybackInv, PlayTypeOK, PlayRecords
  <1>2. covered'[r] => Covered /\ plays[r].row \in Rows
    BY <1>1 DEF PlaybackInv, PlayTypeOK, HistoriesGoOn, CopyNotMissed
  <1>3. ASSUME NEW a \in PlayAccounts \union {""}, With(r, "plays", plays[r].row, a)
        PROVE  \E play : PlayGoes(r, play)
    <2> DEFINE play == [Nobody EXCEPT !.at = "plays", !.mode = plays[r].mode, !.row = plays[r].row, !.account = a]
    <2>1. play \in PlayRecords /\ play.at = "plays"
      BY <1>1 DEF Nobody, PlayRecords, PlayStages
    <2>2. plays' = [plays EXCEPT ![r] = play]
      BY <1>3 DEF With, Becomes
    <2> HIDE DEF play
    <2> QED  BY <2>1, <2>2 DEF PlayGoes, NotPassedOver, CopyNotMissed
  <1>4. ASSUME NEW why \in {"disabled", "no_source", "lost_race"}, Refused(r, why),
               covered'[r] => plays[r].mode = "session"
        PROVE  \E play : PlayGoes(r, play)
    <2> DEFINE play == [Nobody EXCEPT !.at = why, !.mode = plays[r].mode]
    <2>1. play \in PlayRecords /\ play.at = why /\ play.mode = plays[r].mode
      BY <1>1 DEF Nobody, PlayRecords, PlayStages
    <2>2. plays' = [plays EXCEPT ![r] = play]
      BY <1>4 DEF Refused, Becomes
    <2> HIDE DEF play
    <2> QED  BY <2>1, <2>2, <1>4 DEF PlayGoes, NotPassedOver, CopyNotMissed
  <1>5. covered'[r] => RowOf[plays[r].row].playlist \in onOffer /\ (plays[r].mode # "session" => PlaysLocally(r))
    BY <1>2, RowsArePlayed DEF Covered, PlaysLocally
  <1>6. CASE RowOf[plays[r].row].playlist \notin onOffer
    <2>1. Refused(r, "disabled")
      BY <1>6, SMTT(30) DEF Starts
    <2> QED  BY <1>4, <1>5, <1>6, <2>1
  <1>7. CASE RowOf[plays[r].row].playlist \in onOffer /\ PlaysLocally(r)
    <2>1. With(r, "plays", plays[r].row, "")
      BY <1>7 DEF Starts
    <2> QED  BY <1>3, <2>1
  <1>8. CASE RowOf[plays[r].row].playlist \in onOffer /\ ~PlaysLocally(r)
    <2>1. \/ Refused(r, "no_source") \/ Refused(r, "lost_race") \/ With(r, "plays", plays[r].row, plays[r].account)
      BY <1>8 DEF Starts
    <2> QED  BY <1>1, <1>3, <1>4, <1>5, <1>8, <2>1
  <1> QED  BY <1>6, <1>7, <1>8

LEMMA EndGoes ==
    ASSUME PlaybackInv, HistoriesGoOn, NEW r \in Viewings, PlayEnds(r)
    PROVE  PlayGoes(r, Nobody)
  BY NobodyIs DEF PlayEnds, Becomes, PlayGoes, NotPassedOver, CopyNotMissed

LEMMA PlaybackStarts == PlaybackInit => PlaybackInv
  <1> SUFFICES ASSUME PlaybackInit PROVE PlaybackInv
    OBVIOUS
  <1>1. PlayTypeOK
    BY NobodyIs DEF PlaybackInit, PlayTypeOK, Roomy, Covered
  <1>2. \A r \in Viewings : plays[r] = Nobody /\ roomy[r] = Roomy /\ covered[r] = Covered
    BY DEF PlaybackInit
  <1> QED  BY <1>1, <1>2, NobodyIs DEF PlaybackInv, NotPassedOver, CopyNotMissed

LEMMA PlaybackKept == PlaybackInv /\ [PlaybackNext]_playbackVars => PlaybackInv'
  <1> SUFFICES ASSUME PlaybackInv, [PlaybackNext]_playbackVars PROVE PlaybackInv'
    OBVIOUS
  <1>1. CASE PlaybackNext
    <2>0. HistoriesGoOn
      BY <1>1, HistoriesKept
    <2>1. CASE \E a \in PlayAccounts : OthersMove(a) \/ HostTurns(a)
      BY <2>0, <2>1, AroundRequests DEF OthersMove, HostTurns, Around
    <2>2. CASE (\E p \in PlayLists : PlaylistTurns(p)) \/ CopyTurns
      BY <2>0, <2>2, AroundRequests DEF PlaylistTurns, CopyTurns, Around
    <2>3. ASSUME NEW r \in Viewings, NEW mode \in Modes, ViewingAsked(r, mode) PROVE PlaybackInv'
      BY <2>0, <2>3, AskedGoes, RequestGoes
    <2>4. ASSUME NEW r \in Viewings, NEW c, NEW counted, ConsidersRow(r, c, counted) \/ Weighs(r, c, counted)
          PROVE  PlaybackInv'
      BY <2>0, <2>4, ConsideredGoes, WeighedGoes, RequestGoes
    <2>5. ASSUME NEW r \in Viewings, CandidatesBuilt(r) \/ NoneSelected(r) \/ Starts(r) \/ PlayEnds(r)
          PROVE  PlaybackInv'
      BY <2>0, <2>5, BuiltGoes, UnservedGoes, StartGoes, EndGoes, RequestGoes
    <2> QED  BY <1>1, <2>1, <2>2, <2>3, <2>4, <2>5 DEF PlaybackNext, PlaybackStep
  <1>2. CASE UNCHANGED playbackVars
    <2>1. Roomy' = Roomy /\ Covered' = Covered
      BY <1>2 DEF playbackVars, Roomy, CanServe, HasCapacity, UsageOf, SlotsOf, PlayingOn, Covered
    <2>2. plays' = plays /\ roomy' = roomy /\ covered' = covered
      BY <1>2 DEF playbackVars
    <2> QED  BY <2>1, <2>2 DEF PlaybackInv, PlayTypeOK
  <1> QED  BY <1>1, <1>2

\* A request is turned away as long as it looks only if no provider of the title
\* could have served it all the while, and one that may play files never while
\* there is a whole copy, however many accounts and providers there are and
\* whatever becomes of them meanwhile (vod.py 4094-4133, 305-327).
THEOREM NobodyIsTurnedAway == PlaybackSpec => []NoNeedlessRefusal
  <1>1. PlaybackInv => NoNeedlessRefusal
    <2> SUFFICES ASSUME PlaybackInv, NEW r \in Viewings, TurnedAway(r)
                 PROVE  /\ plays[r].at \in {"not_found", "capacity_blocked", "stream_unavailable"} => roomy[r] = {}
                        /\ ~(covered[r] /\ plays[r].mode # "session" /\ LooksForCopy(r))
      BY DEF NoNeedlessRefusal
    <2> QED  BY DEF PlaybackInv, NotPassedOver, CopyNotMissed, TurnedAway, LooksForCopy
  <1> QED  BY <1>1, PlaybackStarts, PlaybackKept, PTL DEF PlaybackSpec
=============================================================================
