---------------------------- MODULE ChannelLineup ----------------------------
(* The channels of the installation and their copy in TVHeadend              *)
(* (backend/channels.py): adding, moving, ordering and deleting channels, the *)
(* publish that the task queue runs, and the bulk addition that publishes its *)
(* new channels from the request itself, whatever publish is under way.       *)
EXTENDS Integers, FiniteSets, SequencesExt

CONSTANTS
    Names,          \* names of channels
    Unnamed,        \* the name of a channel TVHeadend makes of a service
    MaxChannels,    \* bound: channels ever made
    MaxUuids,       \* bound: channels ever made in TVHeadend
    MaxEdits,       \* bound: requests that edit, order or delete channels
    MaxTvhFails     \* bound: calls to TVHeadend that fail

ASSUME UnnamedAssumption == Unnamed \notin Names

VARIABLES
    lineup,     \* the rows of channels: an id to its name, number, state and uuid
    nextId,
    tvh,        \* TVHeadend's channels: a uuid to its name
    nextUuid,
    signed,     \* the lineup of the last finished publish (channel_sync_state.json)
    owed,       \* the publish that is queued
    publish,    \* the publish under way
    bulk,       \* the bulk addition under way
    edits, tvhFails,
    shaken      \* history: a publish failed while it deleted, or a bulk addition
                \* stored a copy that is gone; no publish has committed since
lineupVars ==
    <<lineup, nextId, tvh, nextUuid, signed, owed, publish, bulk, edits, tvhFails, shaken>>
rowVars == <<lineup, nextId>>
tvhVars == <<tvh, nextUuid, tvhFails>>

NoUuid == 0
NoPublish == [step |-> "idle", rows |-> <<>>, known |-> <<>>, uuids |-> <<>>, todo |-> {}]
NoBulk == [step |-> "idle", names |-> {}, number |-> 0, rows |-> <<>>, known |-> <<>>]

LineupInit ==
    /\ lineup = <<>> /\ nextId = 1
    /\ tvh = <<>> /\ nextUuid = 1
    /\ signed = <<>> /\ owed = "no"
    /\ publish = NoPublish /\ bulk = NoBulk
    /\ edits = 0 /\ tvhFails = 0 /\ shaken = FALSE

\* What a table or a list has once u is written into it.
Having(f, u, x) == [v \in DOMAIN f \union {u} |-> IF v = u THEN x ELSE f[v]]

\* The queue holds one task of a name: the first one asked for stays.
Ask(kind) == owed' = IF owed = "no" THEN kind ELSE owed
-----------------------------------------------------------------------------
(* Numbers *)

Numbers == {lineup[c].number : c \in DOMAIN lineup}
Highest(n) == \A m \in Numbers : m <= n

\* What a request may name as a number: none that is taken is beyond these.
Places == 1..nextId

\* The rows with the numbers of those in `moved` changed by `by`.
Shifted(rows, moved, by) ==
    [c \in DOMAIN rows |-> IF rows[c].number \in moved
                           THEN [rows[c] EXCEPT !.number = @ + by] ELSE rows[c]]

\* _insert_new_channel_number_with_shift: everything from the number on moves up.
Inserted(name, number) ==
    Having(Shifted(lineup, {n \in Numbers : n >= number}, 1), nextId,
           [name |-> name, number |-> number, enabled |-> TRUE, uuid |-> NoUuid])

\* Altered: the channel at the new place does not move.
Renumbered_OffByOne(id, number) ==
    LET old == lineup[id].number
        moved == IF number < old THEN Shifted(lineup, (number + 1)..(old - 1), 1)
                 ELSE Shifted(lineup, (old + 1)..(number - 1), -1)
    IN  Having(moved, id, [lineup[id] EXCEPT !.number = number])
\* _set_channel_number_with_shift: those between the old and the new place
\* move by one towards the old one.
Renumbered(id, number) ==
    LET old == lineup[id].number
        moved == IF number < old THEN Shifted(lineup, number..(old - 1), 1)
                 ELSE Shifted(lineup, (old + 1)..number, -1)
    IN  Having(moved, id, [lineup[id] EXCEPT !.number = number])
-----------------------------------------------------------------------------
(* Requests *)

EditSpent == edits < MaxEdits /\ edits' = edits + 1
RequestOnly == UNCHANGED <<nextId, tvhVars, signed, publish, bulk, shaken>>

\* Without a number the channel goes after the last one.
AddNewChannel(name, number) ==
    /\ EditSpent /\ nextId <= MaxChannels
    /\ lineup' = Inserted(name, number)
    /\ nextId' = nextId + 1
    /\ Ask("forced")
    /\ UNCHANGED <<tvhVars, signed, publish, bulk, shaken>>

EditChannel(id, name, number, enabled) ==
    /\ EditSpent
    /\ lineup' = [Renumbered(id, number) EXCEPT ![id].name = name, ![id].enabled = enabled]
    /\ Ask("forced") /\ RequestOnly

\* The order of the channels that a page knew of, numbered anew: any of those
\* there are, which need not be all.
UpdateChannelsOrder(order) ==
    /\ EditSpent
    /\ lineup' = [c \in DOMAIN lineup |->
                    IF c \in ToSet(order)
                    THEN [lineup[c] EXCEPT !.number = CHOOSE i \in DOMAIN order : order[i] = c]
                    ELSE lineup[c]]
    /\ Ask("forced") /\ RequestOnly

\* Only the row goes; its copy is left to the next publish.
DeleteChannel(id) ==
    /\ EditSpent
    /\ lineup' = [c \in DOMAIN lineup \ {id} |-> lineup[c]]
    /\ Ask("forced") /\ RequestOnly

HourlyPublish == owed = "no" /\ Ask("unforced") /\ UNCHANGED <<rowVars, tvhVars, signed, publish, bulk, edits, shaken>>
-----------------------------------------------------------------------------
(* The bulk addition, of streams or of groups *)

BulkStarts(names) ==
    /\ bulk.step = "idle" /\ EditSpent
    /\ \E n \in Numbers \union {0} :
         Highest(n) /\ bulk' = [NoBulk EXCEPT !.step = "add", !.names = names, !.number = n]
    /\ UNCHANGED <<rowVars, tvhVars, signed, owed, publish, shaken>>

\* A name that exists is skipped; the numbers count on from the one read at
\* the start, whoever has taken it meanwhile.
BulkAdds(name) ==
    /\ bulk.step = "add" /\ name \in bulk.names
    /\ IF name \in {lineup[c].name : c \in DOMAIN lineup} \/ nextId > MaxChannels
       THEN UNCHANGED rowVars /\ bulk' = [bulk EXCEPT !.names = @ \ {name}]
       ELSE /\ lineup' = Inserted(name, bulk.number + 1)
            /\ nextId' = nextId + 1
            /\ bulk' = [bulk EXCEPT !.names = @ \ {name}, !.number = @ + 1,
                   !.rows = Append(@, [id |-> nextId, name |-> name, uuid |-> NoUuid])]
    /\ UNCHANGED <<tvhVars, signed, owed, publish, edits, shaken>>

\* The names in TVHeadend are read once; a failure here ends the publishing.
BulkLists ==
    /\ bulk.step = "add" /\ bulk.names = {}
    /\ bulk' = IF bulk.rows = <<>> THEN [bulk EXCEPT !.step = "done"]
               ELSE [bulk EXCEPT !.step = "publish", !.known = tvh]
    /\ UNCHANGED <<rowVars, tvhVars, signed, owed, publish, edits, shaken>>

UuidsNamed(known, name) == {u \in DOMAIN known : known[u] = name}

\* Called with a row: its copy is the one of that name, or a new one, whose
\* name is remembered; then it is written.  A call that fails skips the row.
BulkPublishes(i) ==
    /\ bulk.step = "publish" /\ i \in DOMAIN bulk.rows
    /\ bulk.rows[i].uuid = NoUuid
    /\ \A j \in 1..(i - 1) : bulk.rows[j].uuid # NoUuid
    /\ LET name == bulk.rows[i].name
           named == UuidsNamed(bulk.known, name)
       IN  \E u \in IF named = {} THEN {nextUuid} ELSE named :
            /\ u <= MaxUuids
            /\ bulk' = [bulk EXCEPT !.rows[i].uuid = u, !.known = Having(@, u, name)]
            /\ tvh' = IF named = {} \/ u \in DOMAIN tvh THEN Having(tvh, u, name) ELSE tvh
            /\ nextUuid' = IF named = {} THEN nextUuid + 1 ELSE nextUuid
    /\ UNCHANGED <<rowVars, tvhFails, signed, owed, publish, edits, shaken>>

BulkFails ==
    /\ bulk.step = "publish" /\ tvhFails < MaxTvhFails
    /\ \E i \in DOMAIN bulk.rows :
         /\ bulk.rows[i].uuid = NoUuid
         /\ bulk' = [bulk EXCEPT !.rows = RemoveAt(@, i)]
    /\ tvhFails' = tvhFails + 1
    /\ UNCHANGED <<rowVars, tvh, nextUuid, signed, owed, publish, edits, shaken>>

WithUuids(rows, uuids) ==
    [c \in DOMAIN rows |-> IF c \in DOMAIN uuids THEN [rows[c] EXCEPT !.uuid = uuids[c]]
                           ELSE rows[c]]

\* The uuids are stored, and the request asks for a publish of everything.
BulkEnds ==
    /\ \/ bulk.step = "done"
       \/ bulk.step = "publish" /\ \A i \in DOMAIN bulk.rows : bulk.rows[i].uuid # NoUuid
    /\ lineup' = WithUuids(lineup, [c \in {bulk.rows[i].id : i \in DOMAIN bulk.rows} |->
                    (CHOOSE r \in ToSet(bulk.rows) : r.id = c).uuid])
    /\ bulk' = NoBulk
    /\ shaken' = (shaken \/ \E r \in ToSet(bulk.rows) : r.uuid \notin DOMAIN tvh)
    /\ Ask("forced")
    /\ UNCHANGED <<nextId, tvhVars, signed, publish, edits>>
-----------------------------------------------------------------------------
(* The publish *)

\* A publish that was not forced stops when the lineup is the one that was
\* published last.
SkipsPublish ==
    /\ publish.step = "idle" /\ owed = "unforced" /\ signed = lineup
    /\ owed' = "no"
    /\ UNCHANGED <<rowVars, tvhVars, signed, publish, bulk, edits, shaken>>

StartsPublish ==
    /\ publish.step = "idle" /\ owed # "no"
    /\ owed = "forced" \/ signed # lineup
    /\ owed' = "no"
    /\ publish' = [NoPublish EXCEPT !.step = "list", !.rows = lineup]
    /\ UNCHANGED <<rowVars, tvhVars, signed, bulk, edits, shaken>>

PublishLists ==
    /\ publish.step = "list"
    /\ publish' = [publish EXCEPT !.step = "copy", !.known = tvh, !.uuids =
                      [c \in DOMAIN publish.rows |-> publish.rows[c].uuid], !.todo =
                      {c \in DOMAIN publish.rows : publish.rows[c].enabled}]
    /\ UNCHANGED <<rowVars, tvhVars, signed, owed, bulk, edits, shaken>>

\* publish_channel_to_tvh: the copy is the one with the stored uuid if it was
\* listed, else the one listed under the name, else a new one.
CopiesOf(id) ==
    LET row == publish.rows[id] IN
    IF row.uuid \in DOMAIN publish.known THEN {row.uuid} ELSE UuidsNamed(publish.known, row.name)

PublishesChannel(id) ==
    /\ publish.step = "copy" /\ id \in publish.todo
    /\ \A c \in publish.todo : id <= c
    /\ LET name == publish.rows[id].name
           isNew == CopiesOf(id) = {}
       IN  \E u \in IF isNew THEN {nextUuid} ELSE CopiesOf(id) :
            /\ u <= MaxUuids
            /\ publish' = [publish EXCEPT !.todo = @ \ {id}, !.uuids[id] = u,
                              !.known = IF isNew THEN Having(@, u, name) ELSE @]
            /\ tvh' = IF isNew \/ u \in DOMAIN tvh THEN Having(tvh, u, name) ELSE tvh
            /\ nextUuid' = IF isNew THEN nextUuid + 1 ELSE nextUuid
    /\ UNCHANGED <<rowVars, tvhFails, signed, owed, bulk, edits, shaken>>

\* Every row that is still there gets the uuid of its copy; what was listed and
\* belongs to no enabled row is to go.
PublishCommits ==
    /\ publish.step = "copy" /\ publish.todo = {}
    /\ lineup' = WithUuids(lineup, publish.uuids)
    /\ publish' = [publish EXCEPT !.step = "clean", !.todo = DOMAIN publish.known \
          {publish.uuids[c] : c \in {c \in DOMAIN publish.rows : publish.rows[c].enabled}}]
    /\ shaken' = FALSE
    /\ UNCHANGED <<nextId, tvhVars, signed, owed, bulk, edits>>

PublishDeletes(u) ==
    /\ publish.step = "clean" /\ u \in publish.todo
    /\ publish' = [publish EXCEPT !.todo = @ \ {u}]
    /\ tvh' = [v \in DOMAIN tvh \ {u} |-> tvh[v]]
    /\ UNCHANGED <<rowVars, nextUuid, tvhFails, signed, owed, bulk, edits, shaken>>

\* Altered: the signature is that of the rows as they are now.
PublishSigns_Now ==
    /\ publish.step = "clean" /\ publish.todo = {}
    /\ signed' = lineup
    /\ publish' = NoPublish
    /\ UNCHANGED <<rowVars, tvhVars, owed, bulk, edits, shaken>>
\* The signature is that of the rows as they were loaded.
PublishSigns ==
    /\ publish.step = "clean" /\ publish.todo = {}
    /\ signed' = publish.rows
    /\ publish' = NoPublish
    /\ UNCHANGED <<rowVars, tvhVars, owed, bulk, edits, shaken>>

\* A call that fails ends the task: what was made in TVHeadend stays there.
PublishFails ==
    /\ publish.step \in {"list", "copy", "clean"} /\ tvhFails < MaxTvhFails
    /\ tvhFails' = tvhFails + 1
    /\ publish' = NoPublish
    /\ shaken' = (shaken \/ publish.step = "clean")
    /\ UNCHANGED <<rowVars, tvh, nextUuid, signed, owed, bulk, edits>>

\* map_all_services_to_channels makes channels of services; cleanup_old_channels
\* deletes the ones that got no name, of which the model has one at a time.
MapAllServices ==
    /\ publish.step = "idle" /\ nextUuid <= MaxUuids
    /\ UuidsNamed(tvh, Unnamed) = {}
    /\ tvh' = Having(tvh, nextUuid, Unnamed)
    /\ nextUuid' = nextUuid + 1
    /\ UNCHANGED <<rowVars, tvhFails, signed, owed, publish, bulk, edits, shaken>>

CleanupOldChannels ==
    /\ publish.step = "idle" /\ UuidsNamed(tvh, Unnamed) # {}
    /\ tvh' = [u \in DOMAIN tvh \ UuidsNamed(tvh, Unnamed) |-> tvh[u]]
    /\ UNCHANGED <<rowVars, nextUuid, tvhFails, signed, owed, publish, bulk, edits, shaken>>

LineupNext ==
    \/ \E name \in Names, n \in Places : AddNewChannel(name, n)
    \/ \E c \in DOMAIN lineup, name \in Names, n \in Places, b \in BOOLEAN :
         EditChannel(c, name, n, b)
    \/ \E order \in SetToSeqs(DOMAIN lineup) : \E k \in 1..Len(order) :
         UpdateChannelsOrder(SubSeq(order, 1, k))
    \/ \E c \in DOMAIN lineup : DeleteChannel(c)
    \/ \E names \in (SUBSET Names) \ {{}} : BulkStarts(names)
    \/ \E name \in Names : BulkAdds(name)
    \/ BulkLists \/ BulkFails \/ BulkEnds
    \/ \E i \in DOMAIN bulk.rows : BulkPublishes(i)
    \/ HourlyPublish \/ SkipsPublish \/ StartsPublish \/ PublishLists
    \/ \E c \in DOMAIN publish.rows : PublishesChannel(c)
    \/ PublishCommits \/ PublishSigns \/ PublishFails
    \/ \E u \in publish.todo : PublishDeletes(u)
    \/ MapAllServices \/ CleanupOldChannels
-----------------------------------------------------------------------------
(* Properties *)

\* A publish that is skipped because nothing changed hides no channel: whatever
\* publishes, edits and bulk additions overlapped or failed before, each
\* enabled channel has its copy in TVHeadend - unless a publish failed while it
\* deleted copies, or a bulk addition stored a copy that one had deleted, and no
\* other publish has committed since.
SkipIsSafe ==
    [][SkipsPublish => \/ shaken
                       \/ \A c \in DOMAIN lineup :
                            lineup[c].enabled => lineup[c].uuid \in DOMAIN tvh]_lineupVars

\* "Duplicate channel numbers are not allowed": no addition, move or deletion
\* gives a channel the number of another, unless a page reordered part of them.
Distinct(rows) == \A c, d \in DOMAIN rows : rows[c].number = rows[d].number => c = d
MovesKeepNumbers ==
    [][Distinct(lineup) /\ ~Distinct(lineup') => bulk' = bulk /\ DOMAIN lineup' = DOMAIN lineup
         /\ \E order \in SetToSeqs(DOMAIN lineup) : \E k \in 1..Len(order) :
              UpdateChannelsOrder(SubSeq(order, 1, k))]_lineupVars
=============================================================================
