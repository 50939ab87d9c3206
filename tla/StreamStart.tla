------------------------------ MODULE StreamStart ------------------------------
(* From the profile a viewer asks for to the ffmpeg process that serves it:    *)
(* which profile is granted (stream_profiles.py), the policy it stands for,    *)
(* what a 24/7 channel makes of it (cso/policy.py), the commands (cso/         *)
(* ffmpeg.py) and the attempts with and without the GPU.                       *)
EXTENDS Integers, Sequences, FiniteSets

CONSTANTS
    Wishes,       \* what viewers ask: [profile, scaled, seg]; "" is no seg modifier
    ChannelProfiles,\* the profiles channels are set to
    Media,          \* sources: [id, vod, video, audio, container, deinterlace, scaled]
    Hosts,          \* [backend, decodes, encodes]: the GPU and the codecs it manages
    Setups,         \* the application's settings: [off, tvh, hwaccel, deinterlace, decode]
    MaxStarts,      \* bound: starts asked for
    MaxStartFaults  \* bound: attempts that fail although the command is right

ASSUME StartAssumption ==
    /\ Media \subseteq [id : STRING, vod : BOOLEAN, video : STRING, audio : STRING, container : STRING,
                        deinterlace : BOOLEAN, scaled : BOOLEAN]
    /\ \A s \in Setups : s.decode \in BOOLEAN

VARIABLES
    host, setup,
    start,          \* the start under way, or the last one
    feed,           \* the 24/7 channel that runs: what it was made for
    gpuFailures,    \* the hwaccel failures remembered on disk
    starts, startFaults
startVars == <<host, setup, start, feed, gpuFailures, starts, startFaults>>

\* A profile is a triple of video codec, audio codec and container.
TVH_PROFILE == <<"tvh">>
DEFAULT_PROFILE == <<"default">>
TVH_CSO_DEFAULT_PROFILE == <<"", "", "mpegts">>
Remuxes == {""} \X {""} \X {"mpegts", "matroska", "mp4", "webm", "hls"}
AudioOnly == {""} \X {"aac"} \X {"mpegts", "matroska", "mp4", "hls"}
H264 == {"h264"} \X {"aac"} \X {"mpegts", "matroska", "hls", "mp4"}
H265 == {"h265"} \X {"aac", "ac3"} \X {"mp4", "matroska"}
Others == {"av1"} \X {"aac"} \X {"hls", "mp4", "matroska"}
    \cup {<<"vp8", "vorbis", "webm">>, <<"av1", "opus", "hls">>, <<"av1", "opus", "webm">>}
SUPPORTED_STREAM_PROFILES == Remuxes \cup AudioOnly \cup H264 \cup H265 \cup Others

ProfileEnabled(p) == p \in SUPPORTED_STREAM_PROFILES \ setup.off
TvhProfile ==
    IF setup.tvh \in SUPPORTED_STREAM_PROFILES /\ setup.tvh[3] = "mpegts"
    THEN setup.tvh ELSE TVH_CSO_DEFAULT_PROFILE
Plain(p) == [profile |-> p, scaled |-> FALSE, seg |-> ""]

\* The request if it can be granted, else what the channel is set to; the
\* modifiers of a refused request go with it.
CanGrant(r) == r.profile \in {TVH_PROFILE, DEFAULT_PROFILE} \/ ProfileEnabled(r.profile)
ResolveProfile(request, channelProfile) ==
    LET first == IF CanGrant(request) THEN request
                 ELSE IF CanGrant(Plain(channelProfile)) THEN Plain(channelProfile)
                 ELSE Plain(DEFAULT_PROFILE)
    IN  IF first.profile = TVH_PROFILE THEN Plain(TvhProfile) ELSE first

\* The policy of a granted request. Width is asked of an encoded picture only,
\* the kind of segment of HLS only.
Transcodes(p) == p[1] # "" \/ p[2] # ""
DefaultSegment(p) == IF p[1] = "av1" /\ p[3] = "hls" THEN "fmp4" ELSE "mpegts"
PolicyOf(r) ==
    LET known == r.profile \in SUPPORTED_STREAM_PROFILES
        p == IF known THEN r.profile ELSE TVH_CSO_DEFAULT_PROFILE
    IN  [mode |-> IF Transcodes(p) THEN "transcode" ELSE "remux",
         video |-> p[1], audio |-> p[2], container |-> p[3],
         seg |-> IF p[3] = "hls" /\ r.seg # "" THEN r.seg ELSE DefaultSegment(p),
         scaled |-> r.scaled /\ p[1] # "",
         deinterlace |-> known /\ setup.deinterlace, hwaccel |-> known /\ setup.hwaccel,
         decode |-> TRUE]

TsVideo == {"h264", "h265", "mpeg2video"}
TsAudio == {"aac", "ac3", "eac3", "mp2", "mp3"}

\* The feed of a 24/7 channel: always encoded, to codecs the first viewer can
\* take, without the size this viewer asked for.
ChannelPolicy(policy) ==
    [policy EXCEPT !.mode = "transcode", !.container = "hls", !.seg = "fmp4", !.scaled = FALSE,
        !.video = IF @ \in TsVideo THEN @ ELSE "h264", !.audio = IF @ = "" THEN "aac" ELSE @]

\* What the viewer's output has to do to a feed with the given policy.
\* Altered: the picture is not looked at.
Suffices_Audio(policy, made) == policy.audio \in {"", made.audio}
Suffices(policy, made) == policy.video \in {"", made.video} /\ policy.audio \in {"", made.audio}
OutputOfChannel(policy, made) ==
    LET clean == [policy EXCEPT !.deinterlace = @ /\ ~made.deinterlace]
    IN  IF policy.container = "webm" THEN policy
        ELSE IF policy.scaled \/ ~Suffices(policy, made) THEN clean
        ELSE [clean EXCEPT !.mode = "remux", !.video = "copy", !.audio = "copy"]

SegmentedHandoff(m) ==
    \/ m.vod \/ m.container # "mpegts"
    \/ m.video \notin TsVideo \/ m.audio \notin TsAudio
HandoffPolicy(m) ==
    [mode |-> "remux", video |-> "copy", audio |-> "copy", container |-> "hls",
     seg |-> IF m.container = "mpegts" THEN "mpegts" ELSE "fmp4",
     scaled |-> FALSE, deinterlace |-> FALSE, hwaccel |-> FALSE, decode |-> TRUE]

--------------------------------------------------------------------------------
\* What a command does.  A stage has the policy it begins with, what it reads,
\* the identity failures are remembered under, whether the command may ask for
\* a GPU decoder at all (takesArgs), the codec its builder knows of (probe), and
\* whether the reason of a failure has the messages of ffmpeg (told).
Stage(policy, reads, id, takesArgs, probe, told) ==
    [base |-> policy, reads |-> reads, id |-> id, takesArgs |-> takesArgs, probe |-> probe, told |-> told]

Encodes(policy) == policy.mode = "transcode" /\ policy.video # ""
UsesHwVideo(policy) == policy.hwaccel /\ policy.video # ""
HwaccelArgs(stage, policy) ==
    /\ stage.takesArgs /\ UsesHwVideo(policy) /\ policy.decode
    /\ stage.probe # "mpeg4" /\ host.backend # "none"
HwEncodes(policy) ==
    policy.hwaccel /\ policy.video \in {"h264", "h265", "av1"} /\ host.backend # "none"

\* Frames are on the GPU if a decoder there was asked for and manages the codec.
OnGpu(stage, policy) == HwaccelArgs(stage, policy) /\ stage.reads.video \in host.decodes
\* The filters of a hardware encoder expect the frames where policy.decode says
\* they are; without it they are brought there, or NVENC takes them as they are.
FramesMeetEncoder(stage, policy) ==
    IF ~HwEncodes(policy) THEN ~OnGpu(stage, policy)
    ELSE IF policy.decode
         THEN OnGpu(stage, policy) \/ (host.backend = "nvenc" /\ ~policy.scaled /\ ~policy.deinterlace)
         ELSE TRUE
GpuServes(stage, policy) ==
    Encodes(policy) => /\ FramesMeetEncoder(stage, policy)
                       /\ HwEncodes(policy) => policy.video \in host.encodes

\* What comes out of a command that runs.
Result(stage, policy) ==
    [stage.reads EXCEPT
        !.video = IF Encodes(policy) THEN policy.video ELSE @,
        !.audio = IF policy.mode = "transcode" /\ policy.audio # "" THEN policy.audio ELSE @,
        !.container = IF policy.container = "hls" THEN policy.seg ELSE policy.container,
        !.deinterlace = @ \/ (Encodes(policy) /\ policy.deinterlace),
        !.scaled = @ \/ (Encodes(policy) /\ policy.scaled)]
Fits(m) ==
    CASE m.container = "mpegts" -> m.video \in TsVideo \cup {"mpeg4"} /\ m.audio \in TsAudio \cup {"dts", "opus"}
      [] m.container \in {"mp4", "fmp4"} -> m.video \in {"h264", "h265", "av1", "mpeg4"} /\ m.audio # "vorbis"
      [] m.container = "webm" -> m.video \in {"vp8", "av1"} /\ m.audio \in {"vorbis", "opus"}
      [] OTHER -> TRUE
Plays(stage, policy) == GpuServes(stage, policy) /\ Fits(Result(stage, policy))

--------------------------------------------------------------------------------
\* The stages of a request: a handoff in segments where the source needs one,
\* then the output; a 24/7 channel that does not run yet is started first.
NoFeed == [on |-> FALSE]
HlsKinds == {"hls", "vodHls", "channelHls"}
Kinds == {"output", "vodIngest", "channel"} \cup HlsKinds

\* The live ingest copies a source into MPEG-TS.
Piped(m) == [m EXCEPT !.container = "mpegts"]
\* The output's command asks for a GPU decoder whatever it reads, the HLS
\* command only where it reads files or an address, not a pipe.  The VOD ingest
\* always goes through the transcoding options, has no messages of ffmpeg and a
\* switch of its own for the decoder.
OutputStage(policy, reads, m) == Stage(policy, reads, m.id, TRUE, m.video, TRUE)
HlsStage(policy, reads, id, direct, probe) == Stage(policy, reads, id, direct, probe, TRUE)
IngestStage(policy, m) ==
    Stage([policy EXCEPT !.mode = "transcode", !.decode = setup.decode], m, m.id, TRUE, m.video, FALSE)
HandoffStage(policy, m) == HlsStage(policy, m, m.id, TRUE, "")

ChannelStages(kind, m, policy) ==
    LET made == ChannelPolicy(policy)
        first == HandoffStage(made, m)
        fed == IF feed.on THEN feed.made ELSE Result(first, made)
        asks == OutputOfChannel(policy, made)
        last == IF kind = "channel" THEN OutputStage(asks, fed, [m EXCEPT !.video = fed.video])
                ELSE HlsStage(asks, fed, "", TRUE, m.video)
    IN  IF feed.on THEN << last >> ELSE << first, last >>
Stages(kind, m, policy) ==
    LET handoff == HandoffStage(HandoffPolicy(m), m)
        segments == Result(handoff, handoff.base)
        segmented == SegmentedHandoff(m)
    IN  CASE kind \in {"channel", "channelHls"} -> ChannelStages(kind, m, policy)
          [] kind = "vodIngest" -> << IngestStage(policy, m) >>
          [] kind = "vodHls" -> << HlsStage(policy, m, m.id, TRUE, m.video) >>
          [] kind = "output" /\ segmented -> << handoff, OutputStage(policy, segments, m) >>
          [] kind = "output" /\ ~segmented -> << OutputStage(policy, Piped(m), m) >>
          [] kind = "hls" /\ segmented -> << handoff, HlsStage(policy, segments, "", TRUE, m.video) >>
          [] kind = "hls" /\ ~segmented -> << HlsStage(policy, Piped(m), m.id, FALSE, m.video) >>

\* A failure is remembered for a GPU, a source and what was done to the picture.
FailureKeys(stage, policy) ==
    IF UsesHwVideo(policy) /\ host.backend # "none" /\ stage.id # ""
    THEN {<<host.backend, stage.id, policy.deinterlace, policy.scaled>>} ELSE {}
Prepared(stage) ==
    [stage.base EXCEPT !.decode = @ /\ FailureKeys(stage, stage.base) \cap gpuFailures = {}]

NoStart == [phase |-> "off"]
StartInit ==
    /\ host \in Hosts /\ setup \in Setups
    /\ start = NoStart /\ feed = NoFeed /\ gpuFailures = {} /\ starts = 0 /\ startFaults = 0

\* A viewer asks; every start is one session's, under its lock.
Ask(r, channelProfile, kind, m) ==
    LET asked == PolicyOf(ResolveProfile(r, channelProfile))
        stages == Stages(kind, m, asked)
    IN  /\ start.phase # "starting" /\ starts < MaxStarts
        /\ (kind \in HlsKinds) = (asked.container = "hls")
        /\ kind \in {"vodIngest", "vodHls", "channel", "channelHls"} => m.vod
        /\ start' = [phase |-> "starting", kind |-> kind, asked |-> asked, left |-> stages,
                     policy |-> Prepared(stages[1]), own |-> ~feed.on, missed |-> FALSE]
        /\ starts' = starts + 1
        /\ UNCHANGED <<host, setup, feed, gpuFailures, startFaults>>

Current == Head(start.left)
StageStarts ==
    LET made == Result(Current, start.policy)
        rest == Tail(start.left)
    IN  /\ start.phase = "starting" /\ Plays(Current, start.policy)
        /\ start' = IF rest = <<>>
                    THEN [phase |-> "playing", kind |-> start.kind, asked |-> start.asked,
                          own |-> start.own, got |-> made]
                    ELSE [start EXCEPT !.left = rest, !.policy = Prepared(rest[1])]
        /\ feed' = IF rest # <<>> /\ start.kind \in {"channel", "channelHls"}
                   THEN [on |-> TRUE, made |-> made] ELSE feed
        /\ UNCHANGED <<host, setup, gpuFailures, starts, startFaults>>

\* An attempt fails, for a reason that is recognised as the GPU's or is not.
Fails(gpu) ==
    /\ start.phase = "starting"
    /\ \/ /\ ~GpuServes(Current, start.policy) /\ gpu = Current.told /\ UNCHANGED startFaults
       \/ /\ GpuServes(Current, start.policy) /\ ~Fits(Result(Current, start.policy))
          /\ ~gpu /\ UNCHANGED startFaults
       \/ ~gpu /\ startFaults < MaxStartFaults /\ startFaults' = startFaults + 1
    /\ gpuFailures' = IF gpu THEN gpuFailures \cup FailureKeys(Current, start.policy) ELSE gpuFailures
    /\ UNCHANGED <<host, setup, feed, starts>>
Missed(gpu) == start.missed \/ (~gpu /\ ~GpuServes(Current, start.policy))

\* Altered: only the decoder is given up.
RetryPolicy_DecodeOnly(gpu) ==
    IF start.policy.decode THEN {[Current.base EXCEPT !.decode = FALSE]} ELSE {}
\* Any failure with a GPU decoder is tried again without it; one that is known
\* to be the GPU's then without the GPU.
RetryPolicy(gpu) ==
    IF start.policy.decode THEN {[Current.base EXCEPT !.decode = FALSE]}
    ELSE IF start.policy.hwaccel /\ gpu THEN {[Current.base EXCEPT !.decode = FALSE, !.hwaccel = FALSE]}
    ELSE {}

Retries ==
    \E gpu \in BOOLEAN :
        /\ Fails(gpu)
        /\ \E policy \in RetryPolicy(gpu) :
              start' = [start EXCEPT !.policy = policy, !.missed = Missed(gpu)]
StartFails ==
    \E gpu \in BOOLEAN :
        /\ Fails(gpu) /\ RetryPolicy(gpu) = {}
        /\ start' = [phase |-> "failed", stage |-> Current, faulty |-> startFaults' # startFaults,
                     missed |-> Missed(gpu)]

\* The last viewer of the channel is gone.
FeedEnds ==
    /\ feed.on /\ start.phase # "starting" /\ feed' = NoFeed
    /\ UNCHANGED <<host, setup, start, gpuFailures, starts, startFaults>>

StartNext ==
    \/ \E r \in Wishes, c \in ChannelProfiles, k \in Kinds, m \in Media : Ask(r, c, k, m)
    \/ StageStarts \/ Retries \/ StartFails \/ FeedEnds
StartSpec == StartInit /\ [][StartNext]_startVars
--------------------------------------------------------------------------------
\* A start is given up only if the host could not have served it without its
\* GPU either, unless a failure of the GPU went by unrecognised or an attempt
\* failed for a reason of its own.
SoftwareIsTried ==
    start.phase = "failed" /\ ~start.missed /\ ~start.faulty =>
        ~Plays(start.stage, [start.stage.base EXCEPT !.decode = FALSE, !.hwaccel = FALSE])

\* Whoever started the whole pipeline gets the codecs asked for, in the picture
\* asked for, whatever was retried and whichever stage did the work.
AskedIsPlayed ==
    start.phase = "playing" /\ start.own =>
        /\ start.asked.video \in {"", start.got.video} /\ start.asked.audio \in {"", start.got.audio}
        /\ start.got.container = IF start.asked.container = "hls" THEN start.asked.seg ELSE start.asked.container
        /\ start.asked.scaled => start.got.scaled
        /\ start.asked.deinterlace /\ start.asked.video # "" => start.got.deinterlace
=============================================================================
