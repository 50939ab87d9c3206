------------------------------ MODULE MCChannels -----------------------------
(* What becomes of channels, part by part: the sources of one channel, the    *)
(* channels of the installation, the muxes TVHeadend plays them from, their   *)
(* programme guide, the tuners in Plex, and the programme of a 24/7 channel of *)
(* a film and a series, looked at for two days around a midnight.              *)
EXTENDS ChannelSources, ChannelLineup, ChannelMuxes, Guide, PlexTuners, VodSchedule

CONSTANTS m, x, a1, a2, n1, n2, c1, c2, f1, f3, guide, title, film, saga
VARIABLE part
partVars == <<sourceVars, lineupVars, tvhMuxVars, guideVars, plexVars, scheduleVars, part>>

MCAccountOrder == <<a1, a2>>
MCMaxVersion == x :> 2 @@ m :> 1
MCFeedOf == f1 :> c1 @@ f3 :> c2
MCTitlesOf == guide :> title
Lasts(field, raw) == [field |-> field, raw |-> raw]
MCItem ==
  film :> [series |-> FALSE, playlist |-> "l1", title |-> 2, release |-> 5, length |-> Lasts("duration", 50400), airs |-> <<>>]
  @@ saga :> [series |-> TRUE, playlist |-> "l2", title |-> 1, release |-> 4, length |-> Lasts("episode_run_time", 610), airs |-> <<4, 6>>]
Including(items) == [op |-> "include", matches |-> items, enabled |-> TRUE]
Excluding(items, on) == [op |-> "exclude", matches |-> items, enabled |-> on]
Plan(rules, order, desc) == [rules |-> rules, mode |-> order, desc |-> desc]
FirstPlan == Plan(<<Including({film}), Including({film, saga})>>, "series_order", FALSE)
MCKeyOf == <<"key", "newKey">>
MCPlans ==
  {FirstPlan, Plan(<<Including({film}), Including({saga})>>, "rule_order", TRUE),
   Plan(<<Including({saga, film}), Excluding({film}, FALSE)>>, "episode_air_date", TRUE),
   Plan(<<Including({saga, film}), Excluding({film}, TRUE)>>, "shuffle", FALSE)}
MCShuffle == <<<<1>>, <<2, 1>>, <<2, 3, 1>>>>
MCSymmetry == Permutations({n1, n2})

\* Two passes overlap only where at most two things changed or failed, or one
\* in a Plex with a tuner of its owner's.
PlexBudget ==
  (\A p \in Passes : pass'[p] # NoPass) =>
     plexEdits' + meddles' + plexFails' <= IF Foreign \in devices THEN 1 ELSE 2

\* At most two things happen to the muxes: edits and calls that fail.
MuxBudget == muxEdits' + muxFails' <= 2

\* A part at rest has one initial state.
ChannelsInit ==
  /\ part \in {"sources", "lineup", "muxes", "guide", "plex", "schedule"}
  /\ SourcesInit /\ (part # "sources" => \E r \in sources : r.playlist = Manual)
  /\ MuxesInit /\ (part # "muxes" => \A c \in MuxedChannels : modes[c] = "cso")
  /\ GuideInit /\ (part # "guide" => \A c \in GuideChannels : mapping[c] = NoGuide)
  /\ PlexInit /\ (part # "plex" => devices = {})
  /\ plan = FirstPlan /\ ScheduleInit /\ LineupInit

ChannelsNext ==
  /\ UNCHANGED part
  /\ \/ part = "sources" /\ SourcesNext /\ UNCHANGED <<lineupVars, tvhMuxVars, guideVars, plexVars, scheduleVars>>
     \/ part = "lineup" /\ LineupNext /\ UNCHANGED <<sourceVars, tvhMuxVars, guideVars, plexVars, scheduleVars>>
     \/ part = "muxes" /\ MuxesNext /\ MuxBudget /\ UNCHANGED <<sourceVars, lineupVars, guideVars, plexVars, scheduleVars>>
     \/ part = "guide" /\ GuideNext /\ UNCHANGED <<sourceVars, lineupVars, tvhMuxVars, plexVars, scheduleVars>>
     \/ part = "plex" /\ PlexNext /\ PlexBudget
        /\ UNCHANGED <<sourceVars, lineupVars, tvhMuxVars, guideVars, scheduleVars>>
     \/ part = "schedule" /\ ScheduleNext
        /\ UNCHANGED <<sourceVars, lineupVars, tvhMuxVars, guideVars, plexVars>>

ChannelsSpec == ChannelsInit /\ [][ChannelsNext]_partVars
=============================================================================
