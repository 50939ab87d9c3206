------------------------------ MODULE GuideLookup -----------------------------
(* The scan that looks up programmes online (update_channel_epg_with_online_  *)
(* data, epgs.py): one lookup per title and sub-title, decided by whichever    *)
(* programme comes first; lookups run side by side, share the answers of one   *)
(* scan, and are stopped by a provider that refuses them.                      *)
EXTENDS Integers, FiniteSets

CONSTANTS
    Programmes,             \* of enabled channels with a guide
    Row,                    \* what the guide says of each:
                            \*   title, and what is left of it without season and episode
                            \*   (show); sub: "", the title again, a "marker" or the "name";
                            \*   whether it has episode numbers (epnum), misses a text or
                            \*   picture (bare), is of a kind that has episodes (serial),
                            \*   or has a word that forbids a lookup (skip)
    Series, Films,          \* the titles the provider knows, as which
    Episodes,               \* the programmes whose episode it knows
    Pictured,               \* the titles Google finds a picture for
    Concurrency,            \* TMDB_LOOKUP_CONCURRENCY
    MaxCalls,               \* requests per period
    MaxRetries,             \* of a request that came too soon
    MaxScans, MaxFaults     \* bounds: scans; requests that go wrong

VARIABLES
    found,      \* the lookup cache in the database, per hash
    scanning,   \* whether a scan is under way
    sources,    \* where it may look: "tmdb", "images"
    lookup,     \* per programme: where its lookup is
    runCache,   \* the answers of this scan, per key
    flight,     \* per key: the request under way, if any
    recent,     \* requests granted in the last period
    suspended, authFailed,
    dropped,    \* keys given up in this scan but for a refused key of the API
    scans, faults
scanVars == <<found, scanning, sources, scans>>
limitVars == <<recent, suspended, authFailed, dropped, faults>>
lookupVars == <<scanVars, lookup, runCache, flight, limitVars>>

\* metadata_lookup_hash: what the cache and the lookups are kept by.
Hash(p) == <<Row[p].title, Row[p].sub>>
Hashes == {Hash(p) : p \in Programmes}
\* The show is read off the same two texts.
ASSUME ShowOfHash == \A p, q \in Programmes : Hash(p) = Hash(q) => Row[p].show = Row[q].show

\* What the episode is sought by: the sub-title without a marker, the marker
\* itself if there is nothing else and the title has none.
SearchName(r) == IF r.sub = "marker" /\ r.show # r.title THEN "" ELSE r.sub
Named(p) == SearchName(Row[p]) \notin {"", "title"}
IsEpisodic(r) == r.sub # "" \/ r.serial
IsCandidate(p) == Row[p].bare \/ (~Row[p].epnum /\ IsEpisodic(Row[p]))
MayBeFilm(p) == Row[p].bare /\ ~Row[p].epnum

Steps == {"tv", "details", "season", "movie", "image"}
\* A series is sought by the title without its marker, the others by all of it.
QueryKey(p, step) == <<step, IF step \in {"movie", "image"} THEN Row[p].title ELSE Row[p].show>>
QueryKeys == {QueryKey(p, step) : p \in Programmes, step \in Steps}
NoFlight == [at |-> "none", tries |-> 0]
Off == [step |-> "off"]
Ended(entry) == [step |-> "ended", entry |-> entry]
InLookup(p) == lookup[p].step \notin {"off", "queued", "ended"}
Settled == \A p \in Programmes : lookup[p].step \in {"off", "ended"}
Fault == faults < MaxFaults /\ faults' = faults + 1

LookupInit ==
    /\ found = [h \in Hashes |-> "none"] /\ scanning = FALSE /\ sources = {"tmdb"}
    /\ lookup = [p \in Programmes |-> Off]
    /\ runCache = [k \in QueryKeys |-> "unknown"] /\ flight = [k \in QueryKeys |-> NoFlight]
    /\ recent = 0 /\ suspended = FALSE /\ authFailed = FALSE /\ dropped = {}
    /\ scans = 0 /\ faults = 0
-----------------------------------------------------------------------------
(* The scan *)

\* A programme whose hash has a fresh entry is given what it says; of the others
\* one per hash is looked up, whichever the database returns first.
ScanBegins ==
    /\ ~scanning /\ scans < MaxScans /\ scans' = scans + 1 /\ scanning' = TRUE
    /\ sources' \in {{"tmdb"}, {"images"}, {"tmdb", "images"}}
    /\ LET open == {p \in Programmes : IsCandidate(p) /\ found[Hash(p)] = "none"}
       IN  \E first \in SUBSET open :
              /\ \A p \in open : \E q \in first : Hash(q) = Hash(p)
              /\ \A p, q \in first : Hash(q) = Hash(p) => q = p
              /\ lookup' = [p \in Programmes |-> IF p \in first THEN [step |-> "queued"] ELSE Off]
    /\ runCache' = [k \in QueryKeys |-> "unknown"] /\ flight' = [k \in QueryKeys |-> NoFlight]
    /\ recent' = 0 /\ suspended' = FALSE /\ authFailed' = FALSE /\ dropped' = {}
    /\ UNCHANGED <<found, faults>>

\* Entries and programmes are written by one transaction at the end.
ScanEnds ==
    /\ scanning /\ Settled /\ scanning' = FALSE /\ lookup' = [p \in Programmes |-> Off]
    /\ LET told(h) == {p \in Programmes : /\ Hash(p) = h /\ lookup[p].step = "ended"
                                          /\ lookup[p].entry # "none"}
       IN  found' = [h \in Hashes |-> IF told(h) = {} THEN found[h]
                                       ELSE lookup[CHOOSE p \in told(h) : TRUE].entry]
    /\ UNCHANGED <<sources, scans, runCache, flight, limitVars>>

\* A programme's row went while the scan was out: all of it is rolled back.
ScanFails ==
    /\ scanning /\ Settled /\ Fault /\ scanning' = FALSE
    /\ lookup' = [p \in Programmes |-> Off]
    /\ UNCHANGED <<found, sources, scans, runCache, flight, recent, suspended, authFailed, dropped>>

\* After 23 hours without a match, seven days with one.
EntryExpires(h) ==
    /\ ~scanning /\ found[h] # "none" /\ found' = [found EXCEPT ![h] = "none"]
    /\ UNCHANGED <<scanning, sources, scans, lookup, runCache, flight, limitVars>>
-----------------------------------------------------------------------------
(* A lookup *)

Going(step, tv, movie) == [step |-> step, tv |-> tv, movie |-> movie]
FirstStep == IF "tmdb" \in sources THEN "tv" ELSE "choose"

LookupBegins(p) ==
    /\ lookup[p].step = "queued" /\ Cardinality({q \in Programmes : InLookup(q)}) < Concurrency
    /\ lookup' = [lookup EXCEPT ![p] = CASE suspended -> Ended("none")
                                         [] ~suspended /\ Row[p].skip -> Ended("skipped")
                                         [] OTHER -> Going(FirstStep, "none", FALSE)]
    /\ UNCHANGED <<scanVars, runCache, flight, limitVars>>

\* Altered: nothing found is no match, whatever the provider said.
Concluded_NoMatch(pick) == Ended(IF pick = "none" THEN "no_match" ELSE pick)
\* Nothing found is recorded, but not once the provider refused the key.
Concluded(pick) ==
    Ended(IF pick # "none" THEN pick ELSE IF authFailed THEN "none" ELSE "no_match")

\* What is sought next, given the answer to what was sought last: the series,
\* its seasons if the episode has a name, the film if it may be one.  A picture
\* is sought last; without a match it is one by itself.
AfterTv(p) == IF MayBeFilm(p) THEN "movie" ELSE "choose"
Onward(p, step, tv, answer) ==
    CASE step = "tv" /\ answer = "hit" ->
            Going(IF Named(p) THEN "details" ELSE AfterTv(p), "series", FALSE)
      [] step = "details" /\ answer = "hit" -> Going("season", tv, FALSE)
      [] step = "season" /\ answer = "hit" ->
            Going(AfterTv(p), IF p \in Episodes THEN "episode" ELSE tv, FALSE)
      [] step = "image" -> Concluded(IF tv = "none" /\ answer = "hit" THEN "picture" ELSE tv)
      [] step = "movie" -> Going("choose", tv, answer = "hit")
      [] OTHER -> Going(AfterTv(p), tv, FALSE)

Awaiting(l, k) == [step |-> "await", key |-> k, tv |-> l.tv]
Woken(l, answer) == [step |-> "woken", key |-> l.key, tv |-> l.tv, answer |-> answer]

\* An answer of this scan is used again, a request under way is joined (one
\* whose answer waits to be taken answers at once), else one is made.
Seeks(p) ==
    /\ lookup[p].step \in Steps
    /\ LET k == QueryKey(p, lookup[p].step)
           l == Awaiting(lookup[p], k)
       IN  IF runCache[k] # "unknown"
           THEN /\ lookup' = [lookup EXCEPT ![p] = Onward(p, k[1], l.tv, runCache[k])]
                /\ UNCHANGED flight
           ELSE /\ lookup' = [lookup EXCEPT ![p] =
                        IF flight[k].at \in {"hit", "miss", "error"} THEN Woken(l, flight[k].at) ELSE l]
                /\ flight' = IF flight[k].at # "none" THEN flight
                             ELSE [flight EXCEPT ![k] = [at |-> "check", tries |-> 0]]
    /\ UNCHANGED <<scanVars, runCache, limitVars>>

\* Whoever resumes first withdraws the request and keeps its answer; an error
\* ends the lookup without either.
Resumes(p) ==
    /\ lookup[p].step = "woken"
    /\ LET l == lookup[p]
       IN  /\ flight' = IF flight[l.key].at = l.answer THEN [flight EXCEPT ![l.key] = NoFlight] ELSE flight
           /\ IF l.answer = "error"
              THEN lookup' = [lookup EXCEPT ![p] = Ended("none")] /\ UNCHANGED runCache
              ELSE /\ lookup' = [lookup EXCEPT ![p] = Onward(p, l.key[1], l.tv, l.answer)]
                   /\ runCache' = [runCache EXCEPT ![l.key] = l.answer]
    /\ UNCHANGED <<scanVars, limitVars>>

\* An episode is preferred, then whichever there is; of both the likelier one.
Picks(l) ==
    IF l.tv = "episode" THEN {"episode"}
    ELSE (IF l.tv = "series" THEN {"series"} ELSE {}) \union (IF l.movie THEN {"film"} ELSE {})

\* Whether the match, or else the programme, has a picture is left open.
Ends(p) ==
    /\ lookup[p].step = "choose"
    /\ \E pick \in IF Picks(lookup[p]) # {} THEN Picks(lookup[p]) ELSE {"none"} :
          \/ lookup' = [lookup EXCEPT ![p] = Concluded(pick)]
          \/ /\ "images" \in sources /\ (pick = "none" => Row[p].bare)
             /\ lookup' = [lookup EXCEPT ![p] = Going("image", pick, FALSE)]
    /\ UNCHANGED <<scanVars, runCache, flight, limitVars>>
-----------------------------------------------------------------------------
(* A request *)

Known(k) ==
    CASE k[1] = "tv" -> k[2] \in Series
      [] k[1] = "movie" -> k[2] \in Films
      [] k[1] = "image" -> k[2] \in Pictured
      [] OTHER -> TRUE

\* Its task is done: all who wait for it are to resume.
Delivers(k, answer) ==
    /\ flight' = [flight EXCEPT ![k] = [at |-> answer, tries |-> 0]]
    /\ lookup' = [p \in Programmes |->
                    IF lookup[p].step = "await" /\ lookup[p].key = k THEN Woken(lookup[p], answer)
                    ELSE lookup[p]]

Goes(k, from, to) == flight[k].at = from /\ flight' = [flight EXCEPT ![k].at = to]

\* Suspension is only looked at here, not by requests already made, nor by those
\* for a picture, which are granted at once and go to Google.
OfTmdb(k) == k[1] # "image"
Launches(k) ==
    /\ flight[k].at = "check"
    /\ IF suspended /\ OfTmdb(k)
       THEN Delivers(k, "miss") /\ dropped' = IF authFailed THEN dropped ELSE dropped \union {k}
       ELSE Goes(k, "check", IF OfTmdb(k) THEN "wait" ELSE "sent") /\ UNCHANGED <<lookup, dropped>>
    /\ UNCHANGED <<scanVars, runCache, recent, suspended, authFailed, faults>>

Granted(k) ==
    /\ Goes(k, "wait", "sent") /\ recent < MaxCalls /\ recent' = recent + 1
    /\ UNCHANGED <<scanVars, lookup, runCache, suspended, authFailed, dropped, faults>>

CallExpires ==
    /\ recent > 0 /\ recent' = recent - 1
    /\ UNCHANGED <<scanVars, lookup, runCache, flight, suspended, authFailed, dropped, faults>>

Answers(k) ==
    /\ flight[k].at = "sent" /\ Delivers(k, IF Known(k) THEN "hit" ELSE "miss")
    /\ UNCHANGED <<scanVars, runCache, limitVars>>

\* Too many requests: retried after a while, in the end the scan is suspended.
TooMany(k) ==
    /\ flight[k].at = "sent" /\ OfTmdb(k) /\ Fault
    /\ IF flight[k].tries < MaxRetries
       THEN /\ flight' = [flight EXCEPT ![k] = [at |-> "asleep", tries |-> @.tries + 1]]
            /\ UNCHANGED <<lookup, suspended, dropped>>
       ELSE Delivers(k, "miss") /\ suspended' = TRUE /\ dropped' = dropped \union {k}
    /\ UNCHANGED <<scanVars, runCache, recent, authFailed>>

Wakes(k) ==
    /\ Goes(k, "asleep", "wait") /\ UNCHANGED <<scanVars, lookup, runCache, limitVars>>

Unauthorised(k) ==
    /\ flight[k].at = "sent" /\ OfTmdb(k) /\ Fault /\ Delivers(k, "miss")
    /\ suspended' = TRUE /\ authFailed' = TRUE
    /\ UNCHANGED <<scanVars, runCache, recent, dropped>>

\* Another refusal, or no connection, counts as an empty answer.
NotAnswered(k) ==
    /\ flight[k].at = "sent" /\ Fault /\ Delivers(k, "miss") /\ dropped' = dropped \union {k}
    /\ UNCHANGED <<scanVars, runCache, recent, suspended, authFailed>>

\* A timeout does not: it is raised to all who wait.
TimesOut(k) ==
    /\ flight[k].at = "sent" /\ Fault /\ Delivers(k, "error")
    /\ UNCHANGED <<scanVars, runCache, recent, suspended, authFailed, dropped>>

LookupNext ==
    \/ ScanBegins \/ ScanEnds \/ ScanFails \/ CallExpires
    \/ \E h \in Hashes : EntryExpires(h)
    \/ \E p \in Programmes : LookupBegins(p) \/ Seeks(p) \/ Resumes(p) \/ Ends(p)
    \/ \E k \in QueryKeys : \/ Launches(k) \/ Granted(k) \/ Answers(k) \/ TooMany(k) \/ Wakes(k)
                             \/ Unauthorised(k) \/ NotAnswered(k) \/ TimesOut(k)

LookupSpec == LookupInit /\ [][LookupNext]_lookupVars
-----------------------------------------------------------------------------
\* A title is set aside - for 23 hours without a match, for seven days with a
\* picture alone - only by a provider that does not know its series, nor a film
\* of its title if the programme that was looked up may be one, or that failed to
\* say so: by more than refusing the API key, which leaves the title for the next
\* scan unless Google had a picture.  With TMDB switched off it was not asked.
NoMatchIsEarned ==
    \A p, q \in Programmes :
        (/\ lookup[p].step = "ended" /\ lookup[p].entry \in {"no_match", "picture"}
         /\ Hash(q) = Hash(p) /\ "tmdb" \in sources)
        => \A step \in {"tv"} \union (IF MayBeFilm(p) THEN {"movie"} ELSE {}) :
              Known(QueryKey(q, step)) =>
                  \/ QueryKey(q, step) \in dropped
                  \/ lookup[p].entry = "picture" /\ authFailed
=============================================================================
