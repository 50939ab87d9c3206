------------------------------- MODULE DvrSync -------------------------------
(***************************************************************************)
(* Recordings: the rows users schedule, stop and delete (backend/dvr.py    *)
(* and the routes of backend/api/routes_dvr.py), the entries of TVHeadend, *)
(* and reconcile_tvh_recordings, which makes the two agree.                *)
(*                                                                         *)
(* The reconciliation runs as two different background tasks: one that     *)
(* user requests put in the serial queue, and a concurrent one that is     *)
(* started every 30 seconds.  Both may be under way at once.  A run reads  *)
(* the entries, reads the rows, and then works on what it read: its        *)
(* session keeps the rows it has loaded (expire_on_commit=False), and a    *)
(* commit writes the attributes that differ from what was loaded.  Every   *)
(* call to TVHeadend and every transaction is a step of its own; a commit  *)
(* and the query that directly follows it are one.                         *)
(*                                                                         *)
(* A row is reduced to its status, its TVHeadend entry, and whether it is  *)
(* marked as synced.  Every channel is known to TVHeadend, and the queue   *)
(* is not paused.                                                          *)
(***************************************************************************)
EXTENDS TaskQueue

CONSTANTS onRequest,      \* the task "Reconcile DVR recordings"
          periodic,       \* the task keyed "reconcile-dvr-recordings"
          NoEntry,        \* tvh_uuid is None
          Kept,           \* recordings on both sides when the program starts
          MayFail,        \* whether calls to TVHeadend may fail
          MaxEvents       \* bound on requests, acts of TVHeadend and failures

ASSUME DvrAssumption ==
    /\ onRequest \in Serial
    /\ periodic \in Concurrent
    /\ NoEntry \notin Nat
    /\ Kept \in Nat /\ MaxEvents \in Nat /\ MayFail \in BOOLEAN

Runs == {onRequest, periodic}

VARIABLES rows,           \* the recordings table
          lastRow,        \* the newest row id
          tvh,            \* TVHeadend's entries, each with its state
          lastEntry,      \* the newest entry
          run,            \* run[k]: the reconciliation task k is executing
          asked,          \* history: rows a user deleted
          events          \* requests, acts of TVHeadend and failures so far

dvrVars == <<rows, lastRow, tvh, lastEntry, run, asked, events>>
allVars == <<queueVars, dvrVars>>

States == {"scheduled", "recording", "completed"}
Statuses == States \union {"stop_requested", "deleted"}

Row == [status : Statuses, entry : Nat \union {NoEntry}, synced : BOOLEAN]

Idle == [at |-> "idle", map |-> <<>>, base |-> <<>>, new |-> <<>>,
         doomed |-> {}, todo |-> {}, unknown |-> {}]

DvrTypeOK ==
    /\ lastRow \in Nat /\ lastEntry \in Nat 
    /\ events \in 0..MaxEvents
    /\ DOMAIN rows \subseteq 1..lastRow
    /\ \A id \in DOMAIN rows : rows[id] \in Row
    /\ DOMAIN tvh \subseteq 1..lastEntry
    /\ \A e \in DOMAIN tvh : tvh[e] \in States
    /\ asked \subseteq 1..lastRow
    /\ \A k \in Runs :
          /\ DOMAIN run[k].new = DOMAIN run[k].base
          /\ run[k].doomed \union run[k].todo \subseteq DOMAIN run[k].new
          /\ \A id \in DOMAIN run[k].new : run[k].new[id] \in Row

DvrInit ==
    /\ QueueInit
    /\ rows = [i \in 1..Kept |-> [status |-> "scheduled", entry |-> i, synced |-> TRUE]]
    /\ tvh = [e \in 1..Kept |-> "scheduled"]
    /\ lastRow = Kept /\ lastEntry = Kept
    /\ run = [k \in Runs |-> Idle]
    /\ asked = {}
    /\ events = 0

-----------------------------------------------------------------------------
(* Helpers                                                                  *)

\* The function f without the members of S in its domain.
Less(f, S) == [x \in DOMAIN f \ S |-> f[x]]

\* The function f with x mapped to v.
With(f, x, v) == [y \in DOMAIN f \union {x} |-> IF y = x THEN v ELSE f[y]]

Event == events < MaxEvents /\ events' = events + 1

At(k, place) == run[k].at = place

Goes(k, r) == run' = [run EXCEPT ![k] = r]

-----------------------------------------------------------------------------
(* The requests: each changes its row and then queues a reconciliation.     *)

Request == AddSerial(onRequest) /\ Event /\ UNCHANGED <<tvh, lastEntry, run>>

CreateRecording ==
    /\ Request
    /\ lastRow' = lastRow + 1
    /\ rows' = With(rows, lastRow + 1,
                    [status |-> "scheduled", entry |-> NoEntry, synced |-> FALSE])
    /\ UNCHANGED asked

StopRecording(id) ==
    /\ Request
    /\ rows' = [rows EXCEPT ![id].status = "stop_requested", ![id].synced = FALSE]
    /\ UNCHANGED <<lastRow, asked>>

DeleteRecording(id) ==
    /\ Request
    /\ rows' = [rows EXCEPT ![id].status = "deleted", ![id].synced = FALSE]
    /\ asked' = asked \union {id}
    /\ UNCHANGED lastRow

-----------------------------------------------------------------------------
(* TVHeadend on its own: a recording begins and ends, and its own users add *)
(* and remove entries.                                                      *)

Advances(e) ==
    /\ Event
    /\ \/ tvh[e] = "scheduled" /\ tvh' = [tvh EXCEPT ![e] = "recording"]
       \/ tvh[e] = "recording" /\ tvh' = [tvh EXCEPT ![e] = "completed"]
    /\ UNCHANGED lastEntry

OthersAdd ==
    /\ Event
    /\ lastEntry' = lastEntry + 1
    /\ tvh' = With(tvh, lastEntry + 1, "scheduled")

OthersRemove(e) ==
    /\ Event
    /\ tvh' = Less(tvh, {e})
    /\ UNCHANGED lastEntry

TvhMoves ==
    /\ \/ \E e \in DOMAIN tvh : Advances(e) \/ OthersRemove(e)
       \/ OthersAdd
    /\ UNCHANGED <<queueVars, rows, lastRow, run, asked>>

-----------------------------------------------------------------------------
(* The tasks begin and end.                                                 *)

Began(k) == Goes(k, [Idle EXCEPT !.at = "list"])

Ended == [Idle EXCEPT !.at = "end"]

UnchangedDvr == UNCHANGED <<rows, lastRow, tvh, lastEntry, asked, events>>

\* Every 30 seconds.
PeriodicTick ==
    /\ At(periodic, "idle")
    /\ AddConcurrent(periodic)
    /\ Began(periodic)
    /\ UnchangedDvr

PeriodicEnds ==
    /\ At(periodic, "end")
    /\ ConcurrentEnds(periodic)
    /\ Goes(periodic, Idle)
    /\ UnchangedDvr

\* The queue takes its next task, if any, when it is free or a run has ended.
QueueTurns ==
    /\ \/ Tick
       \/ At(onRequest, "end") /\ SerialEnds
    /\ IF runningTask' = onRequest THEN Began(onRequest) ELSE Goes(onRequest, Idle)
    /\ UnchangedDvr

-----------------------------------------------------------------------------
(* A run of reconcile_tvh_recordings                                        *)

Fault == MayFail /\ Event

NoFault == UNCHANGED events

\* list_dvr_entries: TVHeadend's answer, an error that ends the run, or an
\* answer that does not parse and counts as an empty list.
ListEntries(k) ==
    /\ At(k, "list")
    /\ \/ NoFault /\ Goes(k, [run[k] EXCEPT !.at = "load", !.map = tvh])
       \/ Fault /\ Goes(k, Ended)
       \/ Fault /\ Goes(k, [run[k] EXCEPT !.at = "load", !.map = <<>>])
    /\ UNCHANGED <<rows, lastRow, tvh, lastEntry>>

Listed(k, row) == row.entry \in DOMAIN run[k].map

\* Altered: every deleted row waits for the next run.
LoadRows_NeverDrops(k) ==
    /\ At(k, "load")
    /\ LET gone == {id \in DOMAIN rows : rows[id].status = "deleted"} IN
       Goes(k, [run[k] EXCEPT
                  !.at = "prune", !.base = rows, !.new = rows,
                  !.todo = {id \in gone : Listed(k, rows[id])}])
    /\ UNCHANGED <<rows, lastRow, tvh, lastEntry, events>>

\* The rows are loaded.  A deleted one whose entry is listed has the entry
\* deleted and waits for another run; any other deleted one is to be dropped.
LoadRows(k) ==
    /\ At(k, "load")
    /\ LET gone == {id \in DOMAIN rows : rows[id].status = "deleted"} IN
       Goes(k, [run[k] EXCEPT
                  !.at = "prune", !.base = rows, !.new = rows,
                  !.todo = {id \in gone : Listed(k, rows[id])},
                  !.doomed = {id \in gone : ~Listed(k, rows[id])}])
    /\ UNCHANGED <<rows, lastRow, tvh, lastEntry, events>>

Marks(k, id, row) ==
    Goes(k, [run[k] EXCEPT !.new[id] = row, !.todo = @ \ {id}])

\* delete_dvr_entry
DeleteEntry(k, id) ==
    /\ At(k, "prune") /\ id \in run[k].todo
    /\ LET row == run[k].new[id] IN
       \/ /\ NoFault
          /\ tvh' = Less(tvh, {row.entry})
          /\ Marks(k, id, [row EXCEPT !.synced = TRUE])
       \/ /\ Fault
          /\ Marks(k, id, [row EXCEPT !.synced = FALSE])
          /\ UNCHANGED tvh
    /\ UNCHANGED <<rows, lastRow, lastEntry>>

-----------------------------------------------------------------------------
(* A commit                                                                 *)

Changed(k) == {id \in DOMAIN run[k].new \ run[k].doomed :
                  run[k].new[id] # run[k].base[id]}

\* What is in the table, with what the run changed in what it loaded.
Merged(k) ==
    [id \in DOMAIN rows \ run[k].doomed |->
        IF id \notin Changed(k) THEN rows[id]
        ELSE [a \in DOMAIN rows[id] |->
                 IF run[k].new[id][a] # run[k].base[id][a]
                 THEN run[k].new[id][a] ELSE rows[id][a]]]

\* Updating a row that is no longer there fails the whole commit and the run.
Commit(k, next) ==
    /\ run[k].todo = {}
    /\ IF Changed(k) \subseteq DOMAIN rows
       THEN rows' = Merged(k) /\ Goes(k, next)
       ELSE UNCHANGED rows /\ Goes(k, Ended)

-----------------------------------------------------------------------------
(* Entries without a row are given one.                                     *)

\* The entries listed that no row has, among the rows after a commit.
Unknown(k, table) ==
    {e \in DOMAIN run[k].map : \A id \in DOMAIN table : table[id].entry # e}

\* The deletions are committed and every listed entry is looked up.
PruneCommit(k) ==
    /\ At(k, "prune")
    /\ LET left == Less(run[k].new, run[k].doomed) IN
       Commit(k, [run[k] EXCEPT !.at = "add", !.doomed = {}, !.base = left,
                    !.new = left, !.unknown = Unknown(k, Merged(k))])
    /\ UNCHANGED <<lastRow, tvh, lastEntry, events>>

-----------------------------------------------------------------------------
(* The rows are pushed to TVHeadend.                                        *)

\* The table once the unknown entries have rows.
Imported(k) ==
    LET n == Cardinality(run[k].unknown)
        found == CHOOSE f \in [1..n -> run[k].unknown] :
                    \A e \in run[k].unknown : \E i \in 1..n : f[i] = e
    IN
    [id \in DOMAIN rows \union (lastRow + 1)..(lastRow + n) |->
        IF id <= lastRow THEN rows[id]
        ELSE [status |-> run[k].map[found[id - lastRow]],
              entry |-> found[id - lastRow], synced |-> TRUE]]

\* The second query: the rows there are, the known ones as they were loaded.
Reloaded(k) ==
    [id \in DOMAIN Imported(k) |->
        IF id \in DOMAIN run[k].base THEN run[k].base[id] ELSE Imported(k)[id]]

\* Altered: a row without an entry is treated like one whose entry is gone.
Vanished_Unsynced(k, row) == row.status # "deleted" /\ ~Listed(k, row)

\* A row whose entry is not listed any more is to be dropped.
Vanished(k, row) ==
    row.status # "deleted" /\ row.entry # NoEntry /\ ~Listed(k, row)

\* A row whose entry is listed takes over its state.
Synced(k, row) ==
    IF row.status # "deleted" /\ Listed(k, row)
    THEN [row EXCEPT !.status = run[k].map[row.entry], !.synced = TRUE]
    ELSE row

\* The rows TVHeadend is called for: to stop an entry, or to create one.
Calls(row) ==
    \/ row.status = "stop_requested"
    \/ row.status # "deleted" /\ row.entry = NoEntry

\* The imports are committed and the rows queried again.
ImportAndReload(k) ==
    LET loaded == Reloaded(k) IN
    /\ At(k, "add")
    /\ rows' = Imported(k)
    /\ lastRow' = lastRow + Cardinality(run[k].unknown)
    /\ Goes(k, [run[k] EXCEPT
                  !.at = "push", !.unknown = {}, !.base = loaded,
                  !.new = [id \in DOMAIN loaded |-> Synced(k, loaded[id])],
                  !.doomed = {id \in DOMAIN loaded : Vanished(k, loaded[id])},
                  !.todo = {id \in DOMAIN loaded : Calls(loaded[id])}])
    /\ UNCHANGED <<tvh, lastEntry, events>>

\* stop_dvr_entry; after an error the row is left alone until the next run.
StopEntry(k, id) ==
    LET row == run[k].base[id] IN
    /\ At(k, "push") /\ id \in run[k].todo /\ row.entry # NoEntry
    /\ \/ /\ NoFault
          /\ tvh' = [e \in DOMAIN tvh |->
                       IF e = row.entry /\ tvh[e] = "recording"
                       THEN "completed" ELSE tvh[e]]
          /\ Goes(k, [run[k] EXCEPT !.todo = @ \ {id}])
       \/ /\ Fault
          /\ Goes(k, [run[k] EXCEPT !.todo = @ \ {id}, !.doomed = @ \ {id},
                        !.new[id] = [row EXCEPT !.synced = FALSE]])
          /\ UNCHANGED tvh
    /\ UNCHANGED <<rows, lastRow, lastEntry>>

\* create_dvr_entry: done; refused; or done with the answer lost (an error) or
\* not understood (no error, and no uuid either).
CreateEntry(k, id) ==
    LET row == run[k].base[id]
        created == /\ lastEntry' = lastEntry + 1
                   /\ tvh' = With(tvh, lastEntry + 1, "scheduled")
    IN
    /\ At(k, "push") /\ id \in run[k].todo /\ row.entry = NoEntry
    /\ \/ /\ NoFault /\ created
          /\ Marks(k, id, [row EXCEPT !.entry = lastEntry + 1, !.synced = TRUE])
       \/ /\ Fault /\ UNCHANGED <<tvh, lastEntry>>
          /\ Marks(k, id, [row EXCEPT !.synced = FALSE])
       \/ /\ Fault /\ created
          /\ \E s \in BOOLEAN : Marks(k, id, [row EXCEPT !.synced = s])
    /\ UNCHANGED <<rows, lastRow>>

PushCommit(k) ==
    /\ At(k, "push")
    /\ Commit(k, Ended)
    /\ UNCHANGED <<lastRow, tvh, lastEntry, events>>

RunSteps(k) ==
    /\ \/ ListEntries(k) \/ LoadRows(k) \/ PruneCommit(k)
       \/ ImportAndReload(k) \/ PushCommit(k)
       \/ \E id \in run[k].todo :
              DeleteEntry(k, id) \/ StopEntry(k, id) \/ CreateEntry(k, id)
    /\ UNCHANGED <<queueVars, asked>>

-----------------------------------------------------------------------------
DvrNext ==
    \/ CreateRecording
    \/ \E id \in DOMAIN rows : StopRecording(id) \/ DeleteRecording(id)
    \/ TvhMoves
    \/ PeriodicTick \/ PeriodicEnds \/ QueueTurns
    \/ \E k \in Runs : RunSteps(k)

\* The scheduler ticks for ever, and every call is answered or times out.
DvrFairness ==
    /\ WF_allVars(PeriodicTick) /\ WF_allVars(PeriodicEnds)
    /\ WF_allVars(QueueTurns)
    /\ \A k \in Runs : WF_allVars(RunSteps(k))

DvrSpec == DvrInit /\ [][DvrNext]_allVars /\ DvrFairness

-----------------------------------------------------------------------------
\* A recording that never reached TVHeadend leaves the table only if its user
\* deleted it, whatever the runs had read when they committed.
UnsyncedRowsSurvive ==
    [][\A id \in DOMAIN rows \ DOMAIN rows' :
          rows[id].entry # NoEntry \/ id \in asked]_allVars

\* The table and TVHeadend agree: no deletion outstanding, every recording has
\* a live entry and its state, and every entry belongs to a recording.
InSync ==
    /\ \A id \in DOMAIN rows :
          rows[id].entry \in DOMAIN tvh /\ rows[id].status = tvh[rows[id].entry]
    /\ \A e \in DOMAIN tvh : \E id \in DOMAIN rows : rows[id].entry = e

\* Once users, TVHeadend and the network leave it alone, the two come to agree
\* and stay so, however the two runs overlapped before.
Converges == <>[]InSync

\* What a user deleted stays deleted until it is gone; only a request to stop it
\* changes its status (the comment at backend/dvr.py:408).
DeletedStaysDeleted ==
    [][\A id \in DOMAIN rows \intersect DOMAIN rows' :
          rows[id].status = "deleted"
             => rows'[id].status \in {"deleted", "stop_requested"}]_allVars
=============================================================================
