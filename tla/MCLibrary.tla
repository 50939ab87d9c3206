------------------------------ MODULE MCLibrary ------------------------------
(* Parts that share nothing, each explored for itself: the health checks on   *)
(* the slot registry, the HLS proxy, the VOD library, the episodes of one of   *)
(* its series, the requests to play one of its titles, who is watching, the    *)
(* accounts TVHeadend is given, the scan that looks programmes up, and the     *)
(* ffmpeg processes that serve what a viewer asks for.                         *)
EXTENDS HealthCheck, HlsMux, VodLibrary, VodEpisodes, VodPlayback, StreamActivity,
    TvhUsers, GuideLookup, StreamStart

CONSTANTS k2, h1, h2, i1, i2, i3, t1, t2, t3, r1, r2, q1, q2, q3, q4,
    l1, l2, w1, w2, x1, x2, x3
VARIABLE part
vodPartVars == <<libVars, episodeVars, playbackVars>>
partVars == <<capacityVars, healthVars, muxVars, vodPartVars, activityVars, tvhUserVars, lookupVars, startVars, part>>

MCLimit == k2 :> 2
MCHealthKey == h1 :> k2 @@ h2 :> k2
MCTitleOf == i1 :> t1 @@ i2 :> t1 @@ i3 :> t2
\* An episode with its number in the title, two showings of another of the series
\* of which one has its number, and a programme the provider does not know.
MCRow ==
  q1 :> [title |-> t2, show |-> t1, sub |-> "name", epnum |-> TRUE, bare |-> TRUE, serial |-> FALSE, skip |-> FALSE]
  @@ q2 :> [title |-> t1, show |-> t1, sub |-> "marker", epnum |-> FALSE, bare |-> TRUE, serial |-> FALSE, skip |-> FALSE]
  @@ q3 :> [title |-> t1, show |-> t1, sub |-> "marker", epnum |-> TRUE, bare |-> TRUE, serial |-> FALSE, skip |-> FALSE]
  @@ q4 :> [title |-> t3, show |-> t3, sub |-> "", epnum |-> FALSE, bare |-> FALSE, serial |-> TRUE, skip |-> FALSE]
\* What viewers ask for: each kind of codec and container, one too wide, one
\* with a kind of segment AV1 does not fit, one that may be switched off.
Wish(v, a, c, scaled, seg) == [profile |-> <<v, a, c>>, scaled |-> scaled, seg |-> seg]
MCWishes ==
  {Wish("h264", "aac", "mpegts", TRUE, ""), Wish("h265", "ac3", "mp4", FALSE, ""),
   Wish("vp8", "vorbis", "webm", TRUE, ""), Wish("av1", "aac", "hls", FALSE, ""),
   Wish("av1", "opus", "hls", FALSE, "mpegts"), Wish("h264", "aac", "hls", FALSE, "fmp4"),
   Wish("", "", "matroska", FALSE, ""), Plain(TVH_PROFILE)}
MCChannelProfiles == {DEFAULT_PROFILE, <<"h264", "aac", "mp4">>}
MCSource(id, vod, v, a, c) ==
  [id |-> id, vod |-> vod, video |-> v, audio |-> a, container |-> c, deinterlace |-> FALSE, scaled |-> FALSE]
MCMedia ==
  {MCSource("m1", FALSE, "h264", "aac", "mpegts"), MCSource("m2", TRUE, "mpeg4", "mp3", "avi"),
   MCSource("m3", TRUE, "h265", "dts", "mkv")}
Gpu(b, d, e) == [backend |-> b, decodes |-> d, encodes |-> e]
MCHosts ==
  {Gpu("none", {}, {}), Gpu("vaapi", {"h264"}, {"h264", "h265"}),
   Gpu("nvenc", {"h264", "h265"}, {"h264"}), Gpu("vaapi", {"h264", "h265"}, {})}
MCSetups ==
  {[off |-> {}, tvh |-> <<"h264", "aac", "mpegts">>, hwaccel |-> TRUE, deinterlace |-> TRUE, decode |-> TRUE],
   [off |-> {<<"", "", "matroska">>}, tvh |-> <<"", "", "mp4">>, hwaccel |-> TRUE, deinterlace |-> FALSE, decode |-> FALSE]}
\* Two providers have the title, one of them by two accounts.
MCLinkOrder == <<l1, l2>>
MCRowOf == w1 :> [playlist |-> l1, priority |-> 1, link |-> 2] @@ w2 :> [playlist |-> l2, priority |-> 1, link |-> 1]
MCAccountsOf == l1 :> <<x1, x2>> @@ l2 :> <<x3>>
MCAccountLimit == x1 :> 1 @@ x2 :> 1 @@ x3 :> 1
MCSymmetry == Permutations({r1, r2})

\* At most two things happen to the accounts: requests, deletions, failures.
UsersBudget == userEdits' + userFails' <= 2

\* A part at rest has one initial state; upstream categories are alike.
PartsInit ==
  /\ part \in {"health", "mux", "vod", "episodes", "playback", "activity", "users", "lookup", "start"}
  /\ LibraryInit /\ \A i \in IF part = "vod" THEN {i1} ELSE UpItems : offer[i] = CHOOSE c \in UpCategories : TRUE
  /\ EpisodesInit /\ (part # "episodes" => \A s \in EpSources : catalogue[s] = {})
  /\ onOffer = PlayLists /\ others = [a \in PlayAccounts |-> 0]
  /\ answering \in (IF part = "playback" THEN {{}, {x3}, {x2, x3}} ELSE {{}})
  /\ PlaybackInit /\ (part # "playback" => ~copied)
  /\ ActivityInit /\ (part # "activity" => \A c \in Conns : kind[c] = "tvh")
  /\ StartInit /\ (part # "start" => host.backend = "none" /\ setup.decode)
  /\ CapacityInit /\ HealthInit /\ MuxInit /\ TvhUsersInit /\ LookupInit

PartsNext ==
  /\ UNCHANGED part
  /\ \/ part = "health" /\ HealthNext
        /\ UNCHANGED <<muxVars, vodPartVars, activityVars, tvhUserVars, lookupVars, startVars>>
     \/ part = "mux" /\ MuxNext
        /\ UNCHANGED <<capacityVars, healthVars, vodPartVars, activityVars, tvhUserVars, lookupVars, startVars>>
     \/ part \in {"vod", "episodes", "playback"}
        /\ \/ part = "vod" /\ LibraryNext /\ UNCHANGED <<episodeVars, playbackVars>>
           \/ part = "episodes" /\ EpisodesNext /\ UNCHANGED <<libVars, playbackVars>>
           \/ part = "playback" /\ PlaybackNext /\ UNCHANGED <<libVars, episodeVars>>
        /\ UNCHANGED <<capacityVars, healthVars, muxVars, activityVars, tvhUserVars, lookupVars, startVars>>
     \/ part = "activity" /\ ActivityNext
        /\ UNCHANGED <<capacityVars, healthVars, muxVars, vodPartVars, tvhUserVars, lookupVars, startVars>>
     \/ part = "users" /\ TvhUsersNext /\ UsersBudget
        /\ UNCHANGED <<capacityVars, healthVars, muxVars, vodPartVars, activityVars, lookupVars, startVars>>
     \/ part = "lookup" /\ LookupNext
        /\ UNCHANGED <<capacityVars, healthVars, muxVars, vodPartVars, activityVars, tvhUserVars, startVars>>
     \/ part = "start" /\ StartNext
        /\ UNCHANGED <<capacityVars, healthVars, muxVars, vodPartVars, activityVars, tvhUserVars, lookupVars>>

PartsSpec == PartsInit /\ [][PartsNext]_partVars
=============================================================================
