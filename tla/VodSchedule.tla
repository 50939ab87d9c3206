------------------------------ MODULE VodSchedule ------------------------------
(* The programme of a 24/7 channel (backend/vod_channels.py): the library     *)
(* items its rules pick, in an order its settings fix, repeated for ever from  *)
(* one instant in the past.  A window of it is kept in a file.  A save of the  *)
(* channel rebuilds the file; the guide and the players rebuild it when they   *)
(* find it unfit, and the guide also when the items have changed.              *)
EXTENDS Integers, FiniteSets, Sequences, SequencesExt

CONSTANTS
    Items,          \* the imported films and series
    Item,           \* of each: [series, playlist, title, release, length, airs]
    Plans,          \* what a save may set: [rules, mode, desc]
    SchedulePlaylists,
    ShuffleOf,      \* the permutation the channel's own seed gives n entries
    Players,        \* those that play the channel
    NoSchedule, Torn,
    TARGET_EPG_WINDOW_HOURS,                  \* 168 in the code
    FirstSeconds, StepSeconds, LastSeconds,   \* bounds: the instants looked at
    MaxEpisodes,    \* bound: episodes of a series
    MaxTurns        \* bound: saves, changes of the library, failures, restarts

ASSUME ItemsAreFinite == IsFiniteSet(Items)
ASSUME LengthsAreDigits == \A i \in Items : Item[i].length.raw \in Nat
ASSUME InstantsAreSeconds == FirstSeconds \in Int /\ StepSeconds \in Int /\ TARGET_EPG_WINDOW_HOURS \in Int

Hour == 3600
Day == 24 * Hour
\* Instants are seconds after FIXED_SCHEDULE_ANCHOR_UTC.
Anchor == 0

Programmers == Players \union {"guide", "editor"}

VARIABLES
    nowTs,          \* the clock
    plan,           \* the channel's rules and settings, as saved
    switchedOn,        \* the playlists that are enabled
    episodes,       \* upstream: how many episodes a series has
    schedule,       \* the file: NoSchedule, Torn, or [print, order, programmes]
    makers,         \* what each programmer is doing
    listed,         \* what the guide shows
    turns           \* how many of MaxTurns were taken

scheduleVars == <<nowTs, plan, switchedOn, episodes, schedule, makers, listed, turns>>
-----------------------------------------------------------------------------
(* The items *)

AtLeast(n, least) == IF n < least THEN least ELSE n

\* _parse_duration_seconds: a "duration" beyond a thousand is in seconds, one
\* below in minutes.
Seconds(i) ==
    LET s == Item[i].length
    IN CASE s.field = "duration_secs" -> AtLeast(s.raw, 60)
         [] s.field = "duration" /\ s.raw > 1000 -> s.raw
         [] s.field \in {"duration", "episode_run_time"} -> AtLeast(s.raw * 60, 60)
         [] OTHER -> IF Item[i].series THEN 30 * 60 ELSE 90 * 60

\* The rules in force that include or exclude.
InForce(p, op) == {k \in DOMAIN p.rules : p.rules[k].enabled /\ p.rules[k].op = op}
Matched(p, op) == UNION {p.rules[k].matches : k \in InForce(p, op)}
Pool(p, lists) ==
    {i \in Items : i \in Matched(p, "include") \ Matched(p, "exclude") /\ Item[i].playlist \in lists}
RulePosition(p, i) ==
    CHOOSE k \in InForce(p, "include") :
        /\ i \in p.rules[k].matches
        /\ \A j \in InForce(p, "include") : i \in p.rules[j].matches => k <= j

\* What two builds must share for the file of one to serve the other: neither
\* the episodes nor the clock.
Fingerprint(p, lists) == [plan |-> p, pool |-> Pool(p, lists)]

\* A film is one entry; a series is as many as the provider names now.
ScheduleEntries(p, pool, answered) ==
    {[item |-> i, episode |-> 0, rule |-> RulePosition(p, i)] : i \in {j \in pool : ~Item[j].series}}
    \union UNION {{[item |-> i, episode |-> e, rule |-> RulePosition(p, i)] : e \in 1..episodes[i]} :
                  i \in answered}
-----------------------------------------------------------------------------
(* _sort_entries *)

Aired(e) == IF Item[e.item].series THEN Item[e.item].airs[e.episode] ELSE Item[e.item].release

SortKey(mode, e) ==
    LET it == Item[e.item]
    IN CASE mode = "rule_order" -> <<e.rule, it.title, e.episode, 0>>
         [] mode = "release_date" -> <<Aired(e), it.title, e.episode, 0>>
         [] mode = "season_air_date" -> <<it.release, Aired(e), e.episode, it.title>>
         [] mode = "episode_air_date" -> <<Aired(e), it.title, e.episode, 0>>
         [] OTHER -> <<it.title, e.episode, 0, 0>>

Lexical(a, b) == \E k \in 1..4 : a[k] < b[k] /\ \A j \in 1..k - 1 : a[j] = b[j]

\* A descending rule order turns the rules around, not what one of them picks.
Before(p, d, e) ==
    LET a == SortKey(p.mode, d)
        b == SortKey(p.mode, e)
    IN IF p.desc /\ (p.mode # "rule_order" \/ d.rule # e.rule) THEN Lexical(b, a) ELSE Lexical(a, b)

\* Entries of the same key may come in any order.
SortEntries(p, entries) ==
    LET arranged == {order \in [1..Cardinality(entries) -> entries] : IsInjective(order)}
        asFound == {order \in arranged : \A j, k \in DOMAIN order :
                       j < k => ~Lexical(SortKey("rule_order", order[k]), SortKey("rule_order", order[j]))}
    IN IF p.mode = "shuffle"
       THEN {order \in arranged : \E found \in asFound :
               \A k \in DOMAIN order : order[k] = found[ShuffleOf[Len(found)][k]]}
       ELSE {order \in arranged : \A j, k \in DOMAIN order : j < k => ~Before(p, order[k], order[j])}
-----------------------------------------------------------------------------
(* The window *)

\* Seconds of the cycle before its k-th entry; the last is the whole cycle.
Offsets(order) ==
    LET sum[k \in 1..Len(order) + 1] == IF k = 1 THEN 0 ELSE sum[k - 1] + Seconds(order[k - 1].item)
    IN sum

\* _resolve_schedule_cycle_start: the entry on air when the window begins, and
\* its start, counted from the anchor.
CycleStart_AtWindow(order, begin) == [index |-> 1, start |-> begin]   \* Altered: the cycle starts where the window does
CycleStart(order, begin) ==
    LET offset == Offsets(order)
        within == (begin - Anchor) % offset[Len(order) + 1]
        index == CHOOSE k \in 1..Len(order) : offset[k] <= within /\ within < offset[k + 1]
    IN IF begin <= Anchor THEN [index |-> 1, start |-> Anchor]
       ELSE [index |-> index, start |-> begin - (within - offset[index])]

\* The programmes from there on, one after another, until the window is full.
Listing(order, begin, end) ==
    IF order = <<>> THEN <<>>
    ELSE LET first == CycleStart(order, begin)
             shortest == Min({Seconds(e.item) : e \in Range(order)})
             entry(k) == order[((first.index + k - 2) % Len(order)) + 1]
             start[k \in 1..(end - first.start) \div shortest + 2] ==
                 IF k = 1 THEN first.start ELSE start[k - 1] + Seconds(entry(k - 1).item)
             within == {k \in DOMAIN start : start[k] < end}
         IN [k \in within |-> [entry |-> entry(k), start |-> start[k], stop |-> start[k] + Seconds(entry(k).item)]]

OnAir(programmes, t) == {k \in DOMAIN programmes : programmes[k].start <= t /\ t < programmes[k].stop}

\* _schedule_cache_is_still_usable: something is on, something follows, and the
\* window lacks no more than an hour.
Usable(s, t) ==
    /\ s \notin {NoSchedule, Torn}
    /\ \E k \in OnAir(s.programmes, t) :
           /\ Last(s.programmes).stop >= t + TARGET_EPG_WINDOW_HOURS * Hour - Hour
           /\ k < Len(s.programmes)

\* From the midnight that began yesterday.
WindowBegin(t) == ((t - Day) \div Day) * Day
NewSchedule(print, order, t) ==
    [print |-> print, order |-> order,
     programmes |-> Listing(order, WindowBegin(t), t + TARGET_EPG_WINDOW_HOURS * Hour)]
Turn == turns < MaxTurns /\ turns' = turns + 1
-----------------------------------------------------------------------------
(* The builds *)

NoBuild == [at |-> "idle", print |-> NoSchedule]

ScheduleInit ==
    /\ nowTs = FirstSeconds
    /\ plan \in Plans
    /\ switchedOn = SchedulePlaylists
    /\ episodes = [i \in Items |-> 1]
    /\ schedule = NoSchedule
    /\ makers = [a \in Programmers |-> NoBuild]
    /\ listed = NoSchedule
    /\ turns = 0

\* The guide lists the schedule it is given; a player plays by it.
Given(a, s) == listed' = IF a = "guide" THEN s ELSE listed

\* build_vod_channel_schedule up to its requests: the rules and the items are
\* read, and a fit file of the same print is enough.
Builds(a) ==
    LET print == Fingerprint(plan, switchedOn)
        fits == Usable(schedule, nowTs) /\ schedule.print = print
    IN IF fits THEN Given(a, schedule) /\ UNCHANGED makers
       ELSE /\ makers' = [makers EXCEPT ![a] = [at |-> "fetches", print |-> print]]
            /\ UNCHANGED listed

\* A save commits, then forces a build, whatever the file.
ChannelSaved(p) ==
    /\ makers["editor"].at = "idle" /\ Turn
    /\ plan' = p
    /\ makers' = [makers EXCEPT !["editor"] = [at |-> "fetches", print |-> Fingerprint(p, switchedOn)]]
    /\ UNCHANGED <<nowTs, switchedOn, episodes, schedule, listed>>

GuideAsks ==
    /\ makers["guide"].at = "idle"
    /\ Builds("guide")
    /\ UNCHANGED <<nowTs, plan, switchedOn, episodes, schedule, turns>>

\* read_vod_channel_schedule: a player takes a file that is fit, whatever its
\* print.
PlayerAsks(a) ==
    /\ makers[a].at = "idle"
    /\ IF Usable(schedule, nowTs) THEN UNCHANGED <<makers, listed>> ELSE Builds(a)
    /\ UNCHANGED <<nowTs, plan, switchedOn, episodes, schedule, turns>>

\* The rest of the build: the series that answer, the order, the window of now,
\* the file.
BuildEnds(a) ==
    /\ makers[a].at = "fetches"
    /\ LET print == makers[a].print
           series == {i \in print.pool : Item[i].series}
       IN \E answered \in SUBSET series :
            /\ \E order \in SortEntries(print.plan, ScheduleEntries(print.plan, print.pool, answered)) :
                 LET made == NewSchedule(print, order, nowTs)
                 IN schedule' = made /\ Given(a, made)
            /\ IF answered = series THEN UNCHANGED turns ELSE Turn
    /\ makers' = [makers EXCEPT ![a] = NoBuild]
    /\ UNCHANGED <<nowTs, plan, switchedOn, episodes>>

\* A restart: a file that was being written may be torn.
ScheduleTorn ==
    /\ Turn
    /\ \/ UNCHANGED schedule
       \/ (\E a \in Programmers : makers[a].at = "fetches") /\ schedule' = Torn
    /\ makers' = [a \in Programmers |-> NoBuild]
    /\ UNCHANGED <<nowTs, plan, switchedOn, episodes, listed>>

PlaylistToggled(l) ==
    /\ Turn
    /\ switchedOn' = IF l \in switchedOn THEN switchedOn \ {l} ELSE switchedOn \union {l}
    /\ UNCHANGED <<nowTs, plan, episodes, schedule, makers, listed>>

EpisodeAdded(i) ==
    /\ Item[i].series /\ episodes[i] < MaxEpisodes /\ Turn
    /\ episodes' = [episodes EXCEPT ![i] = @ + 1]
    /\ UNCHANGED <<nowTs, plan, switchedOn, schedule, makers, listed>>

TimeGoesOn ==
    /\ nowTs < LastSeconds
    /\ nowTs' = nowTs + StepSeconds
    /\ UNCHANGED <<plan, switchedOn, episodes, schedule, makers, listed, turns>>

ScheduleNext ==
    \/ \E p \in Plans : ChannelSaved(p)
    \/ GuideAsks
    \/ \E a \in Players : PlayerAsks(a)
    \/ \E a \in Programmers : BuildEnds(a)
    \/ ScheduleTorn
    \/ \E l \in SchedulePlaylists : PlaylistToggled(l)
    \/ \E i \in Items : EpisodeAdded(i)
    \/ TimeGoesOn

ScheduleSpec == ScheduleInit /\ [][ScheduleNext]_scheduleVars
-----------------------------------------------------------------------------
(* The guide and the file were made at different times, from windows that      *)
(* begin at different midnights.  As long as they come from the same entries,  *)
(* what one has on while the other has something on is the same programme, at  *)
(* the same times: a rebuild moves nothing.                                   *)
Overlap(p, q) == p.start < q.stop /\ q.start < p.stop
ScheduleIsStable ==
    (listed # NoSchedule /\ schedule \notin {NoSchedule, Torn} /\ listed.order = schedule.order) =>
        \A p \in Range(listed.programmes), q \in Range(schedule.programmes) : Overlap(p, q) => p = q
=============================================================================
