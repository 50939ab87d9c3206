------------------------------ MODULE VodPlayback ------------------------------
(* From the request for a curated film or episode to its first byte            *)
(* (backend/vod.py, the VOD routes and subscriptions): the providers that have  *)
(* the title are tried in order, each with an account that answers; a whole     *)
(* cached copy is looked for; then the first provider with a free connection is *)
(* chosen, and the stream is begun the way its output profile asks for.         *)
EXTENDS Integers, FiniteSets, Sequences

CONSTANTS
    Viewings,          \* requests of clients
    Rows,           \* the upstream entries linked to the title
    RowOf,          \* of each: [playlist, priority, link]
    PlayLists,
    AccountsOf,     \* of each playlist its accounts, by id
    AccountLimit,   \* connection_limit; 0 is no limit
    MaxPlayTurns    \* bound: changes around the requests

AccountsAt(p) == {AccountsOf[p][i] : i \in DOMAIN AccountsOf[p]}
PlayAccounts == UNION {AccountsAt(p) : p \in PlayLists}
RowAccounts(w) == AccountsAt(RowOf[w].playlist)

ASSUME RowsArePlayed == \A w \in Rows : RowOf[w].playlist \in PlayLists
ASSUME AccountsAreNamed == "" \notin PlayAccounts

VARIABLES
    onOffer,        \* the playlists that are enabled
    answering,      \* the accounts a host of theirs lets in
    others,         \* connections the rest of the program holds, by account
    copied,         \* the cache has the whole title
    plays,          \* what each request is doing
    roomy,          \* history: the rows that could have served it all along
    covered,        \* history: the copy, a row, and every playlist were there all along
    playTurns

playbackVars == <<onOffer, answering, others, copied, plays, roomy, covered, playTurns>>

\* How the stream is made: relayed as it is, from an ingest the viewers of one
\* upstream entry share, by an ffmpeg of its own, or as HLS of either kind of route.
Modes == {"proxy", "session", "restartable", "hls", "xc_hls"}
Nobody == [at |-> "idle", mode |-> "", left |-> {}, found |-> {}, spare |-> {},
           blocked |-> FALSE, row |-> "", account |-> ""]

Candidate(w, a) == [row |-> w, account |-> a]

\* _ordered_playback_rows: by the priority of the playlist, then in the order of
\* the links.  The candidates keep that order; the one that leads is next.
Precedes(w, v) ==
    \/ RowOf[w].priority > RowOf[v].priority
    \/ RowOf[w].priority = RowOf[v].priority /\ RowOf[w].link < RowOf[v].link
Leading(cs) == {c \in cs : \A d \in cs \ {c} : Precedes(c.row, d.row)}

\* _select_account_for_playlist: of the accounts that answer the first, those
\* below their limit before the others.  What it counts is the streams shown as
\* active, which need not be those that hold connections.
Answering(p) == {i \in DOMAIN AccountsOf[p] : AccountsOf[p][i] \in answering}
AccountsFor(p, counted) ==
    LET free(i) == AccountLimit[AccountsOf[p][i]] = 0 \/ AccountsOf[p][i] \notin counted
    IN {AccountsOf[p][i] : i \in {j \in Answering(p) :
           \A k \in Answering(p) : IF free(j) = free(k) THEN j <= k ELSE free(j)}}

\* A relayed stream has a slot of its own; those that share an ingest share one.
PlayingOn(a, mode) == {r \in Viewings : plays[r].at = "plays" /\ plays[r].account = a /\ plays[r].mode = mode}
SlotsOf(a) == {<<r, "proxy">> : r \in PlayingOn(a, "proxy")} \union {<<plays[r].row, "session">> : r \in PlayingOn(a, "session")}
UsageOf(a) == others[a] + Cardinality(SlotsOf(a))

\* vod_candidate_has_capacity
HasCapacity(a) == AccountLimit[a] = 0 \/ UsageOf(a) < AccountLimit[a]

CanServe(w) ==
    /\ RowOf[w].playlist \in onOffer /\ RowAccounts(w) # {}
    /\ \A a \in RowAccounts(w) : a \in answering /\ HasCapacity(a)
Roomy == {w \in Rows : CanServe(w)}
Covered == copied /\ Rows # {} /\ onOffer = PlayLists

PlaybackInit ==
    /\ onOffer \in SUBSET PlayLists
    /\ answering \in SUBSET PlayAccounts
    /\ others \in [PlayAccounts -> 0..1]
    /\ copied \in BOOLEAN
    /\ plays = [r \in Viewings |-> Nobody]
    /\ roomy = [r \in Viewings |-> Roomy] /\ covered = [r \in Viewings |-> Covered]
    /\ playTurns = 0

Becomes(r, play) == plays' = [plays EXCEPT ![r] = play]
Refused(r, why) == Becomes(r, [Nobody EXCEPT !.at = why, !.mode = plays[r].mode])
With(r, at, w, a) == Becomes(r, [Nobody EXCEPT !.at = at, !.mode = plays[r].mode, !.row = w, !.account = a])
Still == UNCHANGED <<onOffer, answering, others, copied, playTurns>>
-----------------------------------------------------------------------------
(* The candidates *)

\* Only the HLS handlers of the XC routes do not look for a copy.
LooksForCopy(r) == plays[r].mode # "xc_hls"

ViewingAsked(r, mode) ==
    /\ plays[r].at = "idle"
    /\ Becomes(r, [Nobody EXCEPT !.at = "build", !.mode = mode,
           !.left = {Candidate(w, "") : w \in {v \in Rows : RowOf[v].playlist \in onOffer}}])
    /\ Still

\* _build_playback_candidates, one row: it becomes a candidate with an account
\* that answers; the first without one is kept in case there are no others.
ConsidersRow(r, c, counted) ==
    /\ plays[r].at = "build" /\ c \in Leading(plays[r].left)
    /\ LET next == [plays[r] EXCEPT !.left = @ \ {c}]
           p == RowOf[c.row].playlist
       IN CASE p \notin onOffer -> Becomes(r, next)
            [] p \in onOffer /\ Answering(p) # {} ->
                 \E a \in AccountsFor(p, counted) : Becomes(r, [next EXCEPT !.found = @ \union {Candidate(c.row, a)}])
            [] OTHER -> Becomes(r, IF next.spare = {} THEN [next EXCEPT !.spare = {c}] ELSE next)
    /\ Still

Candidates(r) == IF plays[r].found # {} THEN plays[r].found ELSE plays[r].spare

\* A whole copy is played under the name of the first candidate.
CandidatesBuilt(r) ==
    /\ plays[r].at = "build" /\ plays[r].left = {}
    /\ IF Candidates(r) = {} THEN Refused(r, "not_found")
       ELSE IF copied /\ LooksForCopy(r)
       THEN \E c \in Leading(Candidates(r)) : With(r, "start", c.row, "")
       ELSE Becomes(r, [Nobody EXCEPT !.at = "select", !.mode = plays[r].mode, !.left = Candidates(r)])
    /\ Still
-----------------------------------------------------------------------------
(* select_vod_playback_target *)

\* A candidate that is full is passed over, and so is one that cannot be reached.
Passed_Last(r, c) == [plays[r] EXCEPT !.left = {}, !.blocked = TRUE]   \* Altered: the first full one ends it
Passed(r, c) == [plays[r] EXCEPT !.left = @ \ {c}, !.blocked = TRUE]

\* The account it is played with: the candidate's, or one that answers by now.
AccountsNow(c, counted) ==
    IF c.account # "" THEN {c.account} ELSE AccountsFor(RowOf[c.row].playlist, counted)

Weighs(r, c, counted) ==
    /\ plays[r].at = "select" /\ c \in Leading(plays[r].left)
    /\ \/ /\ c.account = "" /\ Answering(RowOf[c.row].playlist) = {}
          /\ Becomes(r, [plays[r] EXCEPT !.left = @ \ {c}])
       \/ \E a \in AccountsNow(c, counted) :
            IF HasCapacity(a) THEN With(r, "start", c.row, a) ELSE Becomes(r, Passed(r, c))
    /\ Still

NoneSelected(r) ==
    /\ plays[r].at = "select" /\ plays[r].left = {}
    /\ Refused(r, IF plays[r].blocked THEN "capacity_blocked" ELSE "stream_unavailable")
    /\ Still
-----------------------------------------------------------------------------
(* The start.  A relay and a shared ingest take a connection, which may have     *)
(* gone since; HLS and restartable outputs take none.                          *)

WithoutUrl(r) == plays[r].account = ""
PlaysLocally(r) == plays[r].mode # "session" /\ copied
Joins(r) == plays[r].mode = "session" /\ <<plays[r].row, "session">> \in SlotsOf(plays[r].account)
TakesSlot(r) == plays[r].mode \in {"proxy", "session"} /\ ~Joins(r)

Starts(r) ==
    /\ plays[r].at = "start"
    /\ IF RowOf[plays[r].row].playlist \notin onOffer THEN Refused(r, "disabled")
       ELSE IF PlaysLocally(r) THEN With(r, "plays", plays[r].row, "")
       ELSE IF WithoutUrl(r) THEN Refused(r, "no_source")
       ELSE IF TakesSlot(r) /\ ~HasCapacity(plays[r].account) THEN Refused(r, "lost_race")
       ELSE With(r, "plays", plays[r].row, plays[r].account)
    /\ Still

TurnedAway(r) == plays[r].at \notin {"idle", "build", "select", "start", "plays"}

PlayEnds(r) ==
    /\ TurnedAway(r) \/ plays[r].at = "plays"
    /\ Becomes(r, Nobody) /\ Still
-----------------------------------------------------------------------------
(* Around it *)

Around == playTurns < MaxPlayTurns /\ playTurns' = playTurns + 1 /\ UNCHANGED plays

OthersMove(a) == Around /\ others' = [others EXCEPT ![a] = 1 - @] /\ UNCHANGED <<onOffer, answering, copied>>
HostTurns(a) ==
    /\ Around /\ UNCHANGED <<onOffer, others, copied>>
    /\ answering' = IF a \in answering THEN answering \ {a} ELSE answering \union {a}
PlaylistTurns(p) ==
    /\ Around /\ UNCHANGED <<answering, others, copied>>
    /\ onOffer' = IF p \in onOffer THEN onOffer \ {p} ELSE onOffer \union {p}
CopyTurns == Around /\ copied' = ~copied /\ UNCHANGED <<onOffer, answering, others>>

PlaybackStep ==
    \/ \E r \in Viewings :
           \/ \E mode \in Modes : ViewingAsked(r, mode)
           \/ \E c \in plays[r].left, counted \in SUBSET PlayAccounts : ConsidersRow(r, c, counted) \/ Weighs(r, c, counted)
           \/ CandidatesBuilt(r) \/ NoneSelected(r) \/ Starts(r) \/ PlayEnds(r)
    \/ \E a \in PlayAccounts : OthersMove(a) \/ HostTurns(a)
    \/ \E p \in PlayLists : PlaylistTurns(p)
    \/ CopyTurns

PlaybackNext ==
    /\ PlaybackStep
    /\ roomy' = [r \in Viewings |-> Roomy' \intersect (IF plays[r].at \in {"idle", "plays"} THEN Rows ELSE roomy[r])]
    /\ covered' = [r \in Viewings |-> Covered' /\ (plays[r].at \in {"idle", "plays"} \/ covered[r])]

PlaybackSpec == PlaybackInit /\ [][PlaybackNext]_playbackVars
-----------------------------------------------------------------------------
(* A request is turned away as long as it looks only if no provider of the     *)
(* title was enabled, let its accounts in and had room on them all the while;   *)
(* and one for an output that reads files never while there is a whole copy.   *)
NoNeedlessRefusal ==
    \A r \in Viewings : TurnedAway(r) =>
        /\ plays[r].at \in {"not_found", "capacity_blocked", "stream_unavailable"} => roomy[r] = {}
        /\ ~(covered[r] /\ plays[r].mode # "session" /\ LooksForCopy(r))
=============================================================================
