------------------------------- MODULE TvhUsers ------------------------------
(* The accounts TVHeadend is given (backend/users.py, api/routes_users.py,    *)
(* sync_user_to_tvh, Tvheadend.upsert_user): requests of the administration   *)
(* change a user in several transactions and then ask for a sync; the task    *)
(* queue runs one sync at a time, each call of which may fail.  A login by     *)
(* OpenID Connect makes or changes a user too, and asks for no sync.           *)
EXTENDS Integers, FiniteSets, Sequences

CONSTANTS
    Users,          \* user names
    UserRequests,   \* requests of the administration that may overlap
    MaxIds,         \* bound: ids of rows
    MaxUserEdits,   \* bound: requests
    MaxUserFails    \* bound: calls to TVHeadend that fail

VARIABLES
    row,        \* the user of each name
    status,     \* its tvh_sync_status
    request,    \* the requests under way: what they have still to do
    queued,     \* the id the queued sync of a name is for, or NoId
    allQueued,  \* whether a sync of all users is queued
    sync,       \* the sync under way
    access,     \* TVHeadend's access entries with the user's comment, in order
    password,   \* its password entry with the user's comment
    behind,     \* names whose last change no sync was asked for
    relogged,   \* names whose rights a login changed since a sync last read them
    userEdits, userFails
tvhUserVars == <<row, status, request, queued, allQueued, sync, access, password, behind,
                 relogged, userEdits, userFails>>
tvhVars == <<access, password>>
requestVars == <<row, request, userEdits>>
syncVars == <<sync, access, password, userFails>>

NoId == 0
NoUser == [id |-> NoId]
Resting == [step |-> "idle"]
Blank == [set |-> FALSE]
NoEntry == [set |-> "never"]

\* What TVHeadend should hold of a user.
Enabled(r) == r.active /\ r.role \in {"streamer", "admin"}
Access(r) == [set |-> TRUE, on |-> Enabled(r), admin |-> r.role = "admin", dvr |-> r.dvr,
              profile |-> r.dvr # "none"]
Password(r) == [set |-> TRUE, on |-> Enabled(r), key |-> r.key]

\* The users of the last run were synced.
TvhUsersInit ==
    /\ row = [u \in Users |-> [id |-> 1, role |-> "streamer", active |-> TRUE, key |-> 1,
                               dvr |-> "none"]]
    /\ status = [u \in Users |-> "success"]
    /\ request = [r \in UserRequests |-> Resting]
    /\ queued = [u \in Users |-> NoId] /\ allQueued = FALSE /\ sync = Resting
    /\ access = [u \in Users |-> <<Access(row[u])>>]
    /\ password = [u \in Users |-> Password(row[u])]
    /\ behind = {} /\ relogged = {} /\ userEdits = 0 /\ userFails = 0
-----------------------------------------------------------------------------
(* The administration *)

Asks(r, u, id, changes, changed) ==
    /\ request[r] = Resting /\ userEdits < MaxUserEdits /\ userEdits' = userEdits + 1
    /\ request' = [request EXCEPT ![r] = [step |-> "change", user |-> u, id |-> id,
                                          changes |-> changes, changed |-> changed]]

\* A key nobody has had.
NewKey == userEdits + 2
NewUser(id, role) == [id |-> id, role |-> role, active |-> TRUE, key |-> NewKey,
                      dvr |-> IF role = "admin" THEN "all" ELSE "none"]

\* The row is there before the request has set all of it.
CreateUser(r, u) ==
    /\ row[u] = NoUser
    /\ \E id \in 1..MaxIds, role \in {"streamer", "admin"}, dvr \in {"none", "all"} :
        /\ row' = [row EXCEPT ![u] = NewUser(id, role)]
        /\ Asks(r, u, id, <<[dvr |-> dvr]>>, TRUE)
    /\ UNCHANGED <<status, behind, relogged, queued, allQueued, syncVars>>

\* Roles are always replaced; the other settings when the request names them.
UpdateUser(r, u) ==
    /\ row[u] # NoUser
    /\ \E role \in {"none", "streamer", "admin"}, others \in
            {<<>>, <<[dvr |-> "all"]>>} \union {<<[active |-> a]>> : a \in BOOLEAN} :
        Asks(r, u, row[u].id, <<[role |-> role]>> \o others, FALSE)
    /\ UNCHANGED <<row, status, behind, relogged, queued, allQueued, syncVars>>

RotateStreamKey(r, u) ==
    /\ row[u] # NoUser /\ Asks(r, u, row[u].id, <<[key |-> NewKey]>>, FALSE)
    /\ UNCHANGED <<row, status, behind, relogged, queued, allQueued, syncVars>>

\* What one transaction makes of a user; an administrator's access is fixed.
Changed(old, c) ==
    LET new == [f \in DOMAIN old |-> IF f \in DOMAIN c THEN c[f] ELSE old[f]]
    IN  IF new.role = "admin" /\ DOMAIN c \subseteq {"role", "dvr"}
        THEN [new EXCEPT !.dvr = "all"] ELSE new

Own(r) == row[request[r].user].id = request[r].id

ChangesRow(r) ==
    /\ request[r].step = "change"
    /\ LET u == request[r].user  left == Tail(request[r].changes)
       IN  /\ row' = IF Own(r) THEN [row EXCEPT ![u] = Changed(@, Head(request[r].changes))]
                     ELSE row
           /\ request' = [request EXCEPT ![r].changes = left, ![r].changed = TRUE,
                                         ![r].step = IF left = <<>> THEN "status" ELSE "change"]
    /\ UNCHANGED <<status, behind, relogged, userEdits, queued, allQueued, syncVars>>

\* A user who is gone is not found; else the row says that its sync is queued.
MarksQueued(r) ==
    /\ request[r].step = "status"
    /\ IF Own(r)
       THEN /\ status' = [status EXCEPT ![request[r].user] = "queued"]
            /\ request' = [request EXCEPT ![r].step = "enqueue"]
       ELSE request' = [request EXCEPT ![r] = Resting] /\ UNCHANGED status
    /\ UNCHANGED <<row, behind, relogged, userEdits, queued, allQueued, syncVars>>

\* Tasks are told apart by name: one queued for an earlier row of it is kept.
QueuesSync(r) ==
    /\ request[r].step = "enqueue" /\ request' = [request EXCEPT ![r] = Resting]
    /\ LET u == request[r].user
       IN  /\ queued' = IF queued[u] # NoId THEN queued
                        ELSE [queued EXCEPT ![u] = request[r].id]
           /\ behind' = IF queued'[u] = request[r].id THEN behind ELSE behind \union {u}
    /\ UNCHANGED <<row, status, relogged, userEdits, allQueued, syncVars>>

\* The client of a request leaves, and the request is cancelled where it is.
DropsRequest(r) ==
    /\ request[r] # Resting /\ request' = [request EXCEPT ![r] = Resting]
    /\ behind' = IF request[r].changed THEN behind \union {request[r].user} ELSE behind
    /\ UNCHANGED <<row, status, relogged, userEdits, queued, allQueued, syncVars>>

\* The row goes; what TVHeadend has of the user stays.
DeleteUser(u) ==
    /\ row[u] # NoUser /\ row' = [row EXCEPT ![u] = NoUser]
    /\ status' = [status EXCEPT ![u] = "none"]
    /\ userEdits < MaxUserEdits /\ userEdits' = userEdits + 1
    /\ UNCHANGED <<request, behind, relogged, queued, allQueued, syncVars>>

\* A login by OpenID Connect makes a user, or gives the one there is the roles of
\* its claims; the sync of neither is asked for.
OidcLogin(u) ==
    /\ userEdits < MaxUserEdits /\ userEdits' = userEdits + 1
    /\ \E role \in {"streamer", "admin"} :
        \/ /\ row[u] = NoUser
           /\ \E id \in 1..MaxIds : row' = [row EXCEPT ![u] = NewUser(id, role)]
           /\ behind' = behind \union {u} /\ UNCHANGED relogged
        \/ /\ row[u] # NoUser /\ row[u].active
           /\ row' = [row EXCEPT ![u] = Changed(@, [role |-> role])]
           /\ relogged' = IF row' = row THEN relogged ELSE relogged \union {u}
           /\ UNCHANGED behind
    /\ UNCHANGED <<request, status, queued, allQueued, syncVars>>

\* Every hour, and when the recording settings were saved.
QueuesAll ==
    /\ ~allQueued /\ allQueued' = TRUE
    /\ UNCHANGED <<requestVars, status, behind, relogged, queued, syncVars>>
-----------------------------------------------------------------------------
(* The sync *)

Reported(u, id, s) ==
    status' = IF row[u].id = id THEN [status EXCEPT ![u] = s] ELSE status

SyncBegins ==
    /\ sync = Resting
    /\ \/ \E u \in Users :
            /\ queued[u] # NoId /\ queued' = [queued EXCEPT ![u] = NoId]
            /\ sync' = [step |-> "next", left |-> {<<u, queued[u]>>}]
            /\ UNCHANGED allQueued
       \/ /\ allQueued /\ allQueued' = FALSE
          /\ sync' = [step |-> "next", left |-> {<<u, row[u].id>> :
                                                 u \in {v \in Users : row[v] # NoUser}}]
          /\ UNCHANGED queued
    /\ UNCHANGED <<requestVars, status, behind, relogged, tvhVars, userFails>>

SyncsNext ==
    /\ sync.step = "next"
    /\ IF sync.left = {} THEN sync' = Resting /\ UNCHANGED status
       ELSE \E p \in sync.left :
            /\ sync' = [step |-> "read", left |-> sync.left \ {p}, user |-> p[1], id |-> p[2]]
            /\ Reported(p[1], p[2], "running")
    /\ UNCHANGED <<requestVars, behind, relogged, queued, allQueued, tvhVars, userFails>>

ReadsUser ==
    /\ sync.step = "read"
    /\ IF row[sync.user].id = sync.id
       THEN /\ sync' = [step |-> "profile", left |-> sync.left, user |-> sync.user,
                        id |-> sync.id, seen |-> row[sync.user], profile |-> FALSE]
            /\ behind' = behind \ {sync.user} /\ relogged' = relogged \ {sync.user}
       ELSE sync' = [step |-> "next", left |-> sync.left] /\ UNCHANGED <<behind, relogged>>
    /\ UNCHANGED <<requestVars, status, queued, allQueued, tvhVars, userFails>>

restVars == <<requestVars, status, behind, relogged, queued, allQueued>>
SyncGoes(step) == sync' = [sync EXCEPT !.step = step] /\ UNCHANGED userFails
SyncFails ==
    /\ userFails < MaxUserFails /\ userFails' = userFails + 1
    /\ sync' = [sync EXCEPT !.step = "failed"]

\* A call that was answered, or carried out though its answer was lost.
Answered(step) == SyncGoes(step) \/ SyncFails

\* A recording profile of the user's own, if it may record; without one if that fails.
EnsuresProfile ==
    /\ sync.step = "profile"
    /\ \/ /\ sync' = [sync EXCEPT !.step = "delete", !.profile = sync.seen.dvr # "none"]
          /\ UNCHANGED userFails
       \/ /\ sync.seen.dvr # "none" /\ sync' = [sync EXCEPT !.step = "delete"]
          /\ userFails < MaxUserFails /\ userFails' = userFails + 1
    /\ UNCHANGED <<restVars, tvhVars>>

\* The entry there is goes, so that no right of it lingers; a failure is passed over.
DeletesAccess ==
    /\ sync.step = "delete"
    /\ LET u == sync.user
       IN  \/ /\ access' = [access EXCEPT ![u] = IF @ = <<>> THEN @ ELSE Tail(@)]
              /\ SyncGoes("create")
           \/ /\ access[u] # <<>> /\ UNCHANGED access /\ sync' = [sync EXCEPT !.step = "create"]
              /\ userFails < MaxUserFails /\ userFails' = userFails + 1
    /\ UNCHANGED <<restVars, password>>

CreatesAccess ==
    /\ sync.step = "create" /\ access' = [access EXCEPT ![sync.user] = Append(@, Blank)]
    /\ Answered("save") /\ UNCHANGED <<restVars, password>>

SavesAccess ==
    /\ sync.step = "save"
    /\ access' = [access EXCEPT ![sync.user] =
                     [@ EXCEPT ![Len(@)] = [Access(sync.seen) EXCEPT !.profile = sync.profile]]]
    /\ Answered("createPassword") /\ UNCHANGED <<restVars, password>>

CreatesPassword ==
    /\ sync.step = "createPassword"
    /\ IF password[sync.user] = NoEntry
       THEN password' = [password EXCEPT ![sync.user] = Blank] /\ Answered("savePassword")
       ELSE SyncGoes("savePassword") /\ UNCHANGED password
    /\ UNCHANGED <<restVars, access>>

SavesPassword ==
    /\ sync.step = "savePassword"
    /\ password' = [password EXCEPT ![sync.user] = Password(sync.seen)]
    /\ Answered("synced") /\ UNCHANGED <<restVars, access>>

\* A call is lost.
SyncCallFails ==
    /\ sync.step \in {"delete", "create", "save", "createPassword", "savePassword"}
    /\ SyncFails /\ UNCHANGED <<restVars, tvhVars>>

\* Altered: a sync that was given up is said to have succeeded.
SyncEnds_Anyway ==
    /\ sync.step \in {"synced", "failed"}
    /\ Reported(sync.user, sync.id, "success")
    /\ sync' = [step |-> "next", left |-> sync.left]
    /\ UNCHANGED <<requestVars, behind, relogged, queued, allQueued, tvhVars, userFails>>

SyncEnds ==
    /\ sync.step \in {"synced", "failed"}
    /\ Reported(sync.user, sync.id, IF sync.step = "synced" THEN "success" ELSE "failed")
    /\ sync' = [step |-> "next", left |-> sync.left]
    /\ UNCHANGED <<requestVars, behind, relogged, queued, allQueued, tvhVars, userFails>>
-----------------------------------------------------------------------------
TvhUsersNext ==
    \/ \E r \in UserRequests, u \in Users : CreateUser(r, u) \/ UpdateUser(r, u) \/ RotateStreamKey(r, u)
    \/ \E r \in UserRequests : ChangesRow(r) \/ MarksQueued(r) \/ QueuesSync(r) \/ DropsRequest(r)
    \/ \E u \in Users : DeleteUser(u) \/ OidcLogin(u)
    \/ QueuesAll \/ SyncBegins \/ SyncsNext \/ ReadsUser
    \/ EnsuresProfile \/ DeletesAccess \/ CreatesAccess \/ SavesAccess \/ CreatesPassword \/ SavesPassword
    \/ SyncCallFails \/ SyncEnds

TvhUsersSpec == TvhUsersInit /\ [][TvhUsersNext]_tvhUserVars
-----------------------------------------------------------------------------
(* Properties *)

\* Nothing is on its way to TVHeadend for a user, and nothing was given up on.
Quiet(u) ==
    /\ u \notin behind /\ queued[u] = NoId
    /\ \A r \in UserRequests : request[r] # Resting => request[r].user # u
    /\ sync # Resting => \A p \in sync.left : p[1] # u
    /\ sync.step \notin {"idle", "next"} => sync.user # u

\* A user whose sync is said to have succeeded, with no change of it on its way,
\* has in TVHeadend the key of the row; and its rights, but for those a login
\* changed since the sync.  Unless a call failed, it has its recording profile
\* and no other entry grants it anything (api/tasks.py 280-356, tvh_requests.py
\* 653-723).
SyncedUsersMatch ==
    \A u \in Users : (row[u] # NoUser /\ status[u] = "success" /\ Quiet(u)) =>
        /\ password[u].key = row[u].key
        /\ u \notin relogged =>
              /\ password[u] = Password(row[u])
              /\ userFails = 0 => access[u] = <<Access(row[u])>>
              /\ \E i \in DOMAIN access[u], p \in BOOLEAN :
                      access[u][i] = [Access(row[u]) EXCEPT !.profile = p]
=============================================================================
