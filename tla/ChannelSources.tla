--------------------------- MODULE ChannelSources ---------------------------
(* The sources of one channel (backend/channels.py) and the playlists they   *)
(* come from (backend/playlists.py): imports of playlists, the automatic     *)
(* refresh of the channel after them, and a user who edits the channel in a  *)
(* dialog that holds what was read when it was opened.  An address is the    *)
(* version the provider gave the stream, the account it is played with, and  *)
(* the stream.                                                               *)
EXTENDS Integers, FiniteSets, SequencesExt

CONSTANTS
    Playlists,      \* the playlists of the installation
    XcPlaylists,    \* those whose streams are played with one of its accounts
    Streams,        \* names of streams
    Edited,         \* the accounts its owner turns on and off
    AccountOrder,   \* the accounts of an XC playlist, in the order of their ids
    NoAccount,
    Manual,         \* the playlist of an address typed by hand
    MaxVersion,     \* bound: how often the provider of a playlist changes an address
    MayDrop,        \* bound: the playlists whose provider drops a stream, in the end
    MaxDialogs      \* bound: dialogs opened

ASSUME PlaylistsAreNamed == Manual \notin Playlists /\ XcPlaylists \subseteq Playlists
ASSUME AccountsAreListed == AccountOrder \in Seq(Range(AccountOrder))

VARIABLES
    offered,    \* the version of each stream at the provider, 0: not offered
    imported,   \* the version in playlist_streams, 0: not there
    enabled,    \* the accounts that are enabled
    sources,    \* the rows of channel_sources
    job,        \* the serial task under way
    dialog,     \* the entries the user's dialog would save, in its order
    dialogs
sourceVars == <<offered, imported, enabled, sources, job, dialog, dialogs>>

Accounts == Range(AccountOrder)
Closed == [open |-> FALSE, entries |-> <<>>]
NoJob == [step |-> "idle", todo |-> {}, done |-> {}, stops |-> TRUE, payload |-> <<>>]

Url(p, s, a) ==
    <<imported[p][s], IF p \in XcPlaylists THEN a ELSE NoAccount, s>>

\* A row without its id and priority: what the comparison of the incoming
\* sources with the existing ones looks at.
Signature(e) == [playlist |-> e.playlist, account |-> e.account,
                 stream |-> e.stream, url |-> e.url, auto |-> e.auto]

\* The rows in the order a query without ORDER BY returns them: any order.
Reads == {s \in [1..Cardinality(sources) -> sources] : Range(s) = sources}

-----------------------------------------------------------------------------
(* update_channel: the entries of a payload one by one *)

\* A stream of an XC playlist without an account becomes one row per enabled
\* account, the first time it comes up; an entry without a stream is skipped.
Missing(e) == e.playlist # Manual /\ imported[e.playlist][e.stream] = 0
Spread(e) == e.playlist \in XcPlaylists /\ e.account = NoAccount
Repeated(payload, i) ==
    \E j \in 1..(i - 1) : Spread(payload[j]) /\ payload[j].url = payload[i].url
        /\ <<payload[j].playlist, payload[j].stream>> = <<payload[i].playlist, payload[i].stream>>

\* The places of the rows a payload stands for: an entry, and the number of the
\* account it is for or 0.  They are gone through in this order.
AccountsOf(e) ==
    IF Spread(e) THEN {k \in DOMAIN AccountOrder : AccountOrder[k] \in enabled} ELSE {0}
RowPlaces(payload) ==
    UNION {{i} \X AccountsOf(payload[i]) : i \in
        {i \in DOMAIN payload :
            ~Missing(payload[i]) /\ ~(Spread(payload[i]) /\ Repeated(payload, i))}}
Ahead(x, y) == x[1] < y[1] \/ (x[1] = y[1] /\ x[2] < y[2])

\* The row that is taken over there, if there is one: the row with the entry's
\* id, or else that of its playlist with its address; for an account, the row
\* with the account and the address it has with it.
RowsOf(e, existing) ==
    LET byId == {r \in existing : r.id = e.id}
        byUrl == {r \in existing : r.playlist = e.playlist /\ r.url = e.url}
    IN  IF byId # {} THEN byId ELSE byUrl
Taken(e, k, existing) ==
    IF k = 0 THEN RowsOf(e, existing)
    ELSE {r \in existing : /\ r.playlist = e.playlist /\ r.account = AccountOrder[k]
                           /\ r.url = Url(e.playlist, e.stream, AccountOrder[k])}

Expanded(e, account) ==
    [e EXCEPT !.account = account, !.url = Url(e.playlist, e.stream, account)]

\* A new row takes the address of its account but not the account itself.
Created(e) ==
    [e EXCEPT !.account = NoAccount,
              !.url = IF e.playlist = Manual THEN @ ELSE Url(e.playlist, e.stream, e.account)]

\* Altered: a refreshed row keeps the address it has.
Kept_Stale(e, row, refreshed) == [row EXCEPT !.auto = e.auto]
Kept(e, row, refreshed) ==
    [row EXCEPT !.auto = e.auto,
                !.url = IF refreshed THEN Url(e.playlist, e.stream, e.account) ELSE @]

Entered(e, k, taken, refresh) ==
    IF k # 0 THEN Expanded(e, AccountOrder[k])
    ELSE IF taken = {} THEN Created(e)
    ELSE Kept(e, CHOOSE r \in taken : TRUE, <<e.playlist, e.stream>> \in refresh)

\* An id that no row has and nobody remembers.
Remembered == sources \union Range(job.payload) \union Range(dialog.entries)
FreshId == 1 + Max({0} \union {e.id : e \in Remembered})

\* New rows are numbered as they come; earlier ones get the higher priority.
Reconciled(payload, existing, refresh, fresh) ==
    LET places == RowPlaces(payload)
        taken == [x \in places |-> Taken(payload[x[1]], x[2], existing)]
        id(x) == IF taken[x] # {} THEN (CHOOSE r \in taken[x] : TRUE).id
                 ELSE fresh + Cardinality({y \in places : Ahead(y, x) /\ taken[y] = {}})
    IN  [x \in places |->
            [Entered(payload[x[1]], x[2], taken[x], refresh) EXCEPT
                !.id = id(x),
                !.priority = Len(payload) - Cardinality({y \in places : Ahead(y, x)})]]

\* What is stored: a row met twice keeps what it got last, and rows not met are
\* deleted.
Stored(rows) ==
    {rows[x] : x \in {x \in DOMAIN rows :
        \A y \in DOMAIN rows : Ahead(x, y) => rows[y].id # rows[x].id}}

\* Nothing is asked to be refreshed and the payload looks like what was read.
\* As the rows come in any order, it may look so whenever it has the same ones,
\* and it may look different whenever two of them differ.
SameRows(payload) ==
    /\ Len(payload) = Cardinality(sources)
    /\ \A e \in Range(payload) :
          Cardinality({i \in DOMAIN payload : Signature(payload[i]) = Signature(e)})
            = Cardinality({r \in sources : Signature(r) = Signature(e)})
AllAlike(payload) == \A e, f \in Range(payload) : Signature(e) = Signature(f)

UpdateChannel(payload, refresh) ==
    \/ refresh = {} /\ SameRows(payload) /\ UNCHANGED sources
    \/ /\ refresh # {} \/ ~SameRows(payload) \/ ~AllAlike(payload)
       /\ sources' = Stored(Reconciled(payload, sources, refresh, FreshId))

\* add_new_channel: every entry becomes a row, or one per enabled account.  None
\* of them has an id or an account yet, and no two are alike.
Added(entries) == Stored(Reconciled(entries, {}, {}, 1))

NewEntry(p, s, auto) ==
    [id |-> 0, playlist |-> p, account |-> NoAccount, stream |-> s, auto |-> auto,
     url |-> <<IF p = Manual THEN 0 ELSE imported[p][s], NoAccount, s>>, priority |-> 0]

SourcesInit ==
    /\ offered = [p \in Playlists |-> [s \in Streams |-> 1]]
    /\ imported = offered
    /\ enabled = Accounts
    /\ job = NoJob /\ dialog = Closed /\ dialogs = 0
    /\ \E p \in XcPlaylists, q \in Playlists \union {Manual}, s \in Streams :
         /\ p # q
         /\ sources = Added(<<NewEntry(p, s, TRUE), NewEntry(q, s, q # Manual)>>)
-----------------------------------------------------------------------------
(* The provider, the clock and the user *)

ProviderChanges(p, s) ==
    /\ offered[p][s] \in 1..(MaxVersion[p] - 1)
    /\ offered' = [offered EXCEPT ![p][s] = @ + 1]
    /\ UNCHANGED <<imported, enabled, sources, job, dialog, dialogs>>

ProviderDrops(p, s) ==
    /\ p \in MayDrop /\ offered[p][s] = MaxVersion[p]
    /\ offered' = [offered EXCEPT ![p][s] = 0]
    /\ UNCHANGED <<imported, enabled, sources, job, dialog, dialogs>>

\* The accounts of the playlist are edited.  One that is taken off the list is
\* not deleted (the call that would is never awaited) and stays enabled.
ToggleAccount(a) ==
    /\ enabled' = IF a \in enabled THEN enabled \ {a} ELSE enabled \union {a}
    /\ UNCHANGED <<offered, imported, sources, job, dialog, dialogs>>

\* The dialog lists the rows by priority.
OpenDialog ==
    /\ ~dialog.open /\ dialogs < MaxDialogs
    /\ \E entries \in Reads :
         /\ \A i, j \in DOMAIN entries : i < j => entries[i].priority >= entries[j].priority
         /\ dialog' = [open |-> TRUE, entries |-> entries]
    /\ dialogs' = dialogs + 1
    /\ UNCHANGED <<offered, imported, enabled, sources, job>>

\* The user adds a stream, takes one out or moves one up.
Edits(entries) ==
    {Append(entries, NewEntry(x[1], x[2], TRUE)) : x \in
        {x \in Playlists \X Streams : imported[x[1]][x[2]] # 0 /\
            \A i \in DOMAIN entries : <<entries[i].playlist, entries[i].stream>> # x}}
    \union {RemoveAt(entries, i) : i \in DOMAIN entries}
    \union {[entries EXCEPT ![i] = entries[i - 1], ![i - 1] = entries[i]] : i \in 2..Len(entries)}

Save ==
    /\ dialog.open
    /\ \E entries \in Edits(dialog.entries) \union {dialog.entries} : UpdateChannel(entries, {})
    /\ dialog' = Closed
    /\ UNCHANGED <<offered, imported, enabled, job, dialogs>>
-----------------------------------------------------------------------------
(* The background task: imports, then the refresh of the channel *)

\* The enabled playlists whose schedule has elapsed since their last success,
\* by the health file as it is read now; the clock decides which those are.
PeriodicUpdate(todo) ==
    /\ job.step = "idle"
    /\ job' = [NoJob EXCEPT !.step = "import", !.todo = todo]
    /\ UNCHANGED <<offered, imported, enabled, sources, dialog, dialogs>>

\* A user asks for one playlist: the import and the refresh are two tasks, and
\* the second runs even if the first failed.
ManualUpdate(p) ==
    /\ job.step = "idle"
    /\ job' = [NoJob EXCEPT !.step = "import", !.todo = {p}, !.stops = FALSE]
    /\ UNCHANGED <<offered, imported, enabled, sources, dialog, dialogs>>

Import(p) ==
    /\ job.step = "import" /\ p \in job.todo
    /\ imported' = [imported EXCEPT ![p] = offered[p]]
    /\ job' = [job EXCEPT !.todo = @ \ {p}, !.done = @ \union {p},
                          !.step = IF job.todo = {p} THEN "read" ELSE @]
    /\ UNCHANGED <<offered, enabled, sources, dialog, dialogs>>

\* A failed import ends the periodic task at once: the playlists after it are
\* not looked at, and the channel is not refreshed from those before it.
ImportFails(p) ==
    /\ job.step = "import" /\ p \in job.todo
    /\ job' = IF job.stops THEN NoJob
              ELSE [job EXCEPT !.step = "read", !.todo = {}, !.done = {p}]
    /\ UNCHANGED <<offered, imported, enabled, sources, dialog, dialogs>>

\* The channel is looked up by its sources and then read as a whole.
ReadChannel ==
    /\ job.step = "read"
    /\ IF \E r \in sources : r.auto /\ r.playlist \in job.done
       THEN \E read \in Reads : job' = [job EXCEPT !.step = "save", !.payload = read]
       ELSE job' = NoJob
    /\ UNCHANGED <<offered, imported, enabled, sources, dialog, dialogs>>

ToRefresh == {<<e.playlist, e.stream>> : e \in
                 {e \in Range(job.payload) : e.auto /\ e.playlist \in job.done}}

RefreshChannel ==
    /\ job.step = "save"
    /\ UpdateChannel(job.payload, ToRefresh)
    /\ job' = NoJob
    /\ UNCHANGED <<offered, imported, enabled, dialog, dialogs>>

SourcesNext ==
    \/ \E p \in Playlists, s \in Streams : ProviderChanges(p, s) \/ ProviderDrops(p, s)
    \/ \E p \in Playlists : ManualUpdate(p) \/ Import(p) \/ ImportFails(p)
    \/ \E a \in Edited : ToggleAccount(a)
    \/ OpenDialog \/ Save
    \/ \E todo \in (SUBSET Playlists) \ {{}} : PeriodicUpdate(todo)
    \/ ReadChannel \/ RefreshChannel

SourcesSpec == SourcesInit /\ [][SourcesNext]_sourceVars
-----------------------------------------------------------------------------
(* Properties *)

\* "Refresh this stream URL automatically whenever its source is updated": the
\* refresh leaves no source of an updated playlist at an older address, whatever
\* a user saved between its reading and its writing of the channel.
RefreshedIsCurrent ==
    [][RefreshChannel => \A r \in sources' :
          r.auto /\ r.playlist \in job.done => r.url[1] = imported[r.playlist][r.stream]]_sourceVars

=============================================================================
