------------------------------- MODULE VodCache -------------------------------
(***************************************************************************)
(* One title of the on-demand cache with the clients that play it:         *)
(* VodCacheEntry, VodCacheManager and the download of                      *)
(* backend/cso/vod_cache.py, and VodProxySession of                        *)
(* backend/cso/vod_proxy.py, over the connection ledger.                   *)
(*                                                                         *)
(* Tasks of one event loop: a step runs from one suspension (a call handed *)
(* to a thread, an HTTP exchange, a sleep, an event) to the next.  The     *)
(* entry's state lock, the manager's lock and the registry's lock are      *)
(* never held across a suspension, so only the probe lock is a lock here.  *)
(* What a thread does to a file is a step apart from the task's going on.  *)
(***************************************************************************)
EXTENDS CsoCapacity, Sequences

CONSTANTS Sessions,     \* VodProxySession objects, one per client connection,
                        \* or calls of warm_vod_cache, which have no connection
          Entries,      \* VodCacheEntry objects that exist at a time
          Files,        \* inodes in the cache directory
          NoEntry, NoFile,
          Accounts,     \* capacity keys of the accounts that offer the title
          NoAccount,    \* the key of a source made up for an imported file
          AccountOf,    \* the account each client was sent to
          Others,       \* the other users of each account
          Slot,         \* an owner uses one slot id
          Size,         \* chunks in each account's file of the title
          MaxAttempts,  \* max_attempts of a download
          Company,      \* bound: the sets of clients that come
          MaxRestarts   \* bound on restarts of the program

ASSUME VodAssumption ==
    /\ Sessions \X {"direct", "cache"} \subseteq Owners
    /\ Accounts \subseteq Keys /\ NoAccount \in Keys \ Accounts /\ Slot \in Slots
    /\ AccountOf \in [Sessions -> Accounts]
    /\ NoEntry \notin Entries /\ NoFile \notin Files /\ Entries # {} /\ Files # {}
    /\ Others \subseteq Accounts \X (Owners \ (Sessions \X {"direct", "cache"}))
    /\ Size \in [Accounts -> Nat \ {0}] /\ MaxAttempts \in Nat \ {0}

VARIABLES current,      \* VodCacheManager.entries of the title's key
          entry,        \* the fields of each VodCacheEntry
          download,     \* its download_task
          session,      \* each VodProxySession
          cleaner,      \* the run of VodCacheManager.cleanup
          partFile, finalFile,  \* what the paths of the title name
          disk,         \* the chunks in each file
          restarts,     \* number of restarts so far
          raced         \* history: what came between that the code overlooks

files == <<partFile, finalFile, disk>>
vodVars == <<current, entry, download, session, cleaner, files, restarts, raced,
             capacityVars>>

Fresh == [want |-> 0, written |-> 0, complete |-> FALSE, reason |-> "none",
          ready |-> FALSE, progress |-> FALSE, source |-> NoAccount]
NoDownload == [at |-> "none", owner |-> NoEntry, key |-> NoAccount, from |-> NoAccount,
               file |-> NoFile, next |-> 1, tries |-> 0]
Outside == [at |-> "idle", entry |-> NoEntry, asks |-> NoAccount, from |-> 0, off |-> 0,
            attached |-> FALSE, cacheable |-> FALSE, bounded |-> FALSE,
            upstream |-> FALSE, retried |-> FALSE, warm |-> FALSE]

\* What is left of a session that is over.
Gone(ses) == [Outside EXCEPT !.at = "gone", !.attached = ses.attached,
                             !.entry = IF ses.attached THEN ses.entry ELSE NoEntry]

\* Chunk i of an account's file is <<a, i>>.
Title(a) == [i \in 1..Size[a] |-> <<a, i>>]

\* A file may be there from before the program started, with or without the
\* part file of a download it never finished.
Imported(f) == IF f = NoFile THEN Fresh
               ELSE [Fresh EXCEPT !.want = Len(disk[f]), !.written = Len(disk[f]),
                                  !.complete = TRUE]

SomeFile == CHOOSE f \in Files : TRUE
SomeEntry == CHOOSE e \in Entries : TRUE

VodInit ==
    /\ CapacityInit
    /\ finalFile \in {SomeFile, NoFile}
    /\ current = IF finalFile = NoFile THEN NoEntry ELSE SomeEntry
    /\ \E a \in Accounts :
          /\ disk = [f \in Files |-> IF f = finalFile THEN Title(a) ELSE <<>>]
          /\ entry = [x \in Entries |-> IF x = current THEN Imported(finalFile) ELSE Fresh]
    /\ partFile = NoFile
    /\ download = [e \in Entries |-> NoDownload]
    /\ session = [s \in Sessions |-> Outside]
    /\ cleaner = [at |-> "idle", entry |-> NoEntry]
    /\ restarts = 0 /\ raced = {}

-----------------------------------------------------------------------------
Running(e) == download[e].at # "none"
InUse(e) == \/ e = current \/ Running(e) \/ cleaner.entry = e
            \/ \E s \in Sessions : session[s].entry = e
Written(en) == IF en.complete THEN en.want ELSE en.written

CacheOwner(s) == <<s, "cache">>
DirectOwner(s) == <<s, "direct">>
CanHold(k, o) == CanReserve(k, o, Slot)
Hold(k, o) == allocations' = Reserved(k, o, Slot)
HandIn(k, o) == allocations' = Released(k, o, Slot)

-----------------------------------------------------------------------------
(* start_vod_cache_download: it succeeds, or leaves a reason.               *)

\* Altered: the events of an earlier download stay set.
BeginDownload_KeepsEvents(e, s, en) ==
    /\ entry' = [entry EXCEPT ![e] = [en EXCEPT !.reason = "none"]]
    /\ download' = [download EXCEPT ![e] = [NoDownload EXCEPT !.at = "mkdir", !.key = en.source,
                                                             !.owner = CacheOwner(s)]]
    /\ Hold(en.source, CacheOwner(s))

BeginDownload(e, s, en) ==
    /\ entry' = [entry EXCEPT ![e] = [en EXCEPT !.reason = "none", !.ready = FALSE,
                                               !.progress = FALSE]]
    /\ download' = [download EXCEPT ![e] = [NoDownload EXCEPT !.at = "mkdir", !.key = en.source,
                                                             !.owner = CacheOwner(s)]]
    /\ Hold(en.source, CacheOwner(s))

MayBegin(e, s, en) == ~Running(e) /\ en.want > 0 /\ CanHold(en.source, CacheOwner(s))
Blocked(en) == [en EXCEPT !.reason = "failed"]

-----------------------------------------------------------------------------
(* VodProxySession.start: from the entry's metadata to local or direct.     *)

\* Altered: the registry's refusal is overlooked.
GoUpstream_Unchecked(s, ses, e, en) ==
    /\ entry' = [entry EXCEPT ![e] = en]
    /\ IF CanHold(AccountOf[s], DirectOwner(s)) THEN Hold(AccountOf[s], DirectOwner(s)) ELSE UNCHANGED allocations
    /\ session' = [session EXCEPT ![s] = [ses EXCEPT !.at = "get"]]
    /\ UNCHANGED download

\* Serve the whole file, tail a download, or go upstream.  en is the entry
\* as the probe left it and ses the session that just got its answer.
GoUpstream(s, ses, e, en) ==
    /\ entry' = [entry EXCEPT ![e] = en]
    /\ IF CanHold(AccountOf[s], DirectOwner(s))
       THEN /\ Hold(AccountOf[s], DirectOwner(s))
            /\ session' = [session EXCEPT ![s] = [ses EXCEPT !.at = "get"]]
       ELSE /\ session' = [session EXCEPT ![s] = Gone(ses)]
            /\ UNCHANGED allocations
    /\ UNCHANGED download

Decide(s, ses, e, en) ==
    IF en.complete /\ en.want > 0 /\ finalFile # NoFile
    THEN /\ session' = [session EXCEPT ![s] = [ses EXCEPT !.at = "started", !.bounded = TRUE]]
         /\ entry' = [entry EXCEPT ![e] = en]
         /\ UNCHANGED <<download, allocations>>
    ELSE LET lost == [en EXCEPT !.complete = FALSE,
                                !.written = IF en.complete THEN 0 ELSE @]
             tail == session' = [session EXCEPT ![s] = [ses EXCEPT !.at = "ready"]]
             wanted == ses.from = 0 /\ ses.cacheable /\ en.want > 0
         IN  \/ /\ wanted /\ Running(e) /\ tail
                /\ entry' = [entry EXCEPT ![e] = lost]
                /\ UNCHANGED <<download, allocations>>
             \/ /\ wanted /\ MayBegin(e, s, lost) /\ tail
                /\ BeginDownload(e, s, lost)
             \/ /\ wanted /\ ~Running(e) /\ ~MayBegin(e, s, lost)
                /\ GoUpstream(s, ses, e, Blocked(lost))
             \/ ~wanted /\ GoUpstream(s, ses, e, lost)

\* warm_vod_cache: only the download, and nothing attached.
Warm(s, ses, e, en) ==
    /\ session' = [session EXCEPT ![s] = Gone(ses)]
    /\ IF ses.cacheable /\ ~en.complete /\ MayBegin(e, s, en)
       THEN BeginDownload(e, s, en)
       ELSE /\ entry' = [entry EXCEPT ![e] =
                  IF ses.cacheable /\ ~en.complete /\ ~Running(e) THEN Blocked(en) ELSE en]
            /\ UNCHANGED <<download, allocations>>

Proceed(s, ses, e, en) == IF ses.warm THEN Warm(s, ses, e, en)
                          ELSE Decide(s, ses, e, en)

\* ensure_vod_cache_ready with the lock in hand: what is known is used.
Known(en) == en.want > 0
Look(s, ses, e, en) ==
    IF Known(en) THEN Proceed(s, [ses EXCEPT !.cacheable = TRUE], e, en)
    ELSE /\ session' = [session EXCEPT ![s] = [ses EXCEPT !.at = "probe", !.asks = en.source]]
         /\ entry' = [entry EXCEPT ![e] = en]
         /\ UNCHANGED <<download, allocations>>

Probing(e) == \E s \in Sessions : session[s].at = "probe" /\ session[s].entry = e

\* A client of another account comes for what is not there yet.
Crosses(s) == /\ current # NoEntry /\ entry[current].source # AccountOf[s]
              /\ Running(current) \/ ~entry[current].complete

\* get_or_create, which gives the entry the client's source whatever is under
\* way with the last one, and attach_session; from the start of the file or not.
Enter(s) ==
    /\ session[s].at = "idle"
    /\ {t \in Sessions : session[t].at # "idle"} \union {s} \in Company
    /\ current # NoEntry \/ \E e \in Entries : ~InUse(e)
    /\ \E from \in {0, 1}, warm \in BOOLEAN :
        LET e == IF current # NoEntry THEN current ELSE CHOOSE x \in Entries : ~InUse(x)
            en == [(IF current # NoEntry THEN entry[e] ELSE Fresh) EXCEPT !.source = AccountOf[s]]
            ses == [Outside EXCEPT !.entry = e, !.from = from, !.off = from,
                                   !.attached = ~warm, !.warm = warm]
        IN  /\ warm => from = 0
            /\ current' = e
            /\ IF Probing(e) THEN /\ session' = [session EXCEPT ![s] = [ses EXCEPT !.at = "lock"]]
                                  /\ entry' = [entry EXCEPT ![e] = en]
                                  /\ UNCHANGED <<download, allocations>>
               ELSE Look(s, ses, e, en)
    /\ raced' = raced \union {x \in {"eviction"} : cleaner.entry = current'}
                     \union {x \in {"account"} : Crosses(s)}
    /\ UNCHANGED <<cleaner, files, restarts, externalCounts>>

TakeProbeLock(s) ==
    LET e == session[s].entry IN
    /\ session[s].at = "lock" /\ ~Probing(e)
    /\ Look(s, session[s], e, entry[e])
    /\ UNCHANGED <<current, cleaner, files, restarts, raced, externalCounts>>

\* The probe tells the size, or not, or the disk lacks room for the title.
ProbeAnswers(s) ==
    LET e == session[s].entry
        ses == [session[s] EXCEPT !.asks = NoAccount]
    IN
    /\ session[s].at = "probe"
    /\ \/ Proceed(s, [ses EXCEPT !.cacheable = TRUE], e,
                  [entry[e] EXCEPT !.want = Size[session[s].asks]])
       \/ Proceed(s, ses, e, Blocked(entry[e]))
    /\ UNCHANGED <<current, cleaner, files, restarts, raced, externalCounts>>

Fail(s) ==
    /\ session' = [session EXCEPT ![s] = Gone(@)]
    /\ UNCHANGED <<current, entry, download, allocations, cleaner, files, restarts, raced,
                   externalCounts>>

\* An exception before the upstream session exists: stop() finds nothing to
\* do and returns before the entry is detached.
StartFails(s) == session[s].at \in {"probe", "ready"} /\ Fail(s)

\* wait_for(ready_event): the download answers, or fails to start.
TailOrFallBack(s) ==
    LET e == session[s].entry
        en == entry[e]
    IN  /\ session[s].at = "ready" /\ en.ready
        /\ IF en.reason # "none" /\ ~en.complete
           THEN GoUpstream(s, session[s], e, en)
           ELSE /\ session' = [session EXCEPT ![s] = [@ EXCEPT !.at = "started", !.bounded = TRUE]]
                /\ UNCHANGED <<entry, download, allocations>>
        /\ UNCHANGED <<current, cleaner, files, restarts, raced, externalCounts>>

\* The upstream answers.  A client that jumped into the file also starts the
\* download of the whole of it.
GetAnswers(s) ==
    LET e == session[s].entry IN
    /\ session[s].at = "get"
    /\ session' = [session EXCEPT ![s] = [@ EXCEPT !.at = "started", !.upstream = TRUE]]
    /\ IF /\ session[s].from # 0 /\ session[s].cacheable
          /\ ~entry[e].complete /\ ~Running(e)
       THEN IF MayBegin(e, s, entry[e]) THEN BeginDownload(e, s, entry[e])
            ELSE /\ entry' = [entry EXCEPT ![e] = Blocked(@)]
                 /\ UNCHANGED <<download, allocations>>
       ELSE UNCHANGED <<entry, download, allocations>>
    /\ UNCHANGED <<current, cleaner, files, restarts, raced, externalCounts>>

\* The request of the client is cancelled while start() waits: its slots and its
\* connection stay.
Cancelled(s) ==
    /\ session[s].at \in {"lock", "probe", "ready", "get", "started"}
    /\ session' = [session EXCEPT ![s] = [Gone(@) EXCEPT !.at = "cancelled", !.upstream = session[s].upstream]]
    /\ UNCHANGED <<current, entry, download, allocations, cleaner, files, restarts, raced,
                   externalCounts>>

-----------------------------------------------------------------------------
(* The generator of a started session: iter_bytes.                          *)

Move(s, f) == session' = [session EXCEPT ![s] = f]
Elsewhere == UNCHANGED <<current, entry, download, allocations, cleaner, files, restarts,
                         raced, externalCounts>>

GetFails(s) ==
    /\ session[s].at = "get"
    /\ Move(s, [session[s] EXCEPT !.at = "closing"])
    /\ Elsewhere

\* The start event is recorded and the response handed to the server.
Play(s) ==
    /\ session[s].at = "started"
    /\ Move(s, [session[s] EXCEPT !.at = IF session[s].upstream THEN "direct" ELSE "local",
                                  !.from = 0, !.cacheable = FALSE])
    /\ Elsewhere

GivenUp(e) == entry[e].reason # "none" /\ ~Running(e)
CaughtUp(s) == session[s].off >= Written(entry[session[s].entry])

\* Where _iter_local_bytes stops by itself.
LocalEnd(s) ==
    LET e == session[s].entry IN
    \/ session[s].bounded /\ session[s].off >= entry[e].want
    \/ CaughtUp(s) /\ (entry[e].complete \/ GivenUp(e))

\* Woken at once by an event left set, with nothing new to read: the task
\* would go round for ever without letting another one run.
Spinning(s) == /\ session[s].at = "local" /\ CaughtUp(s) /\ ~LocalEnd(s)
               /\ entry[session[s].entry].progress

LocalWaits(s) ==
    /\ session[s].at = "local" /\ CaughtUp(s) /\ ~LocalEnd(s) /\ ~Spinning(s)
    /\ Move(s, [session[s] EXCEPT !.at = "wait"])
    /\ Elsewhere

\* The final file once the entry is complete, the part file until then; the
\* reader breaks off when the path names nothing.
LocalReads(s) ==
    LET en == entry[session[s].entry]
        f == IF en.complete /\ finalFile # NoFile THEN finalFile ELSE partFile
    IN  /\ session[s].at = "local" /\ ~CaughtUp(s) /\ ~LocalEnd(s)
        /\ Move(s, IF f = NoFile THEN [session[s] EXCEPT !.at = "closing"]
                   ELSE IF session[s].off < Len(disk[f]) THEN [session[s] EXCEPT !.off = @ + 1]
                   ELSE session[s])
        /\ Elsewhere

DirectReads(s) ==
    /\ session[s].at = "direct" /\ session[s].off < Size[AccountOf[s]]
    /\ Move(s, [session[s] EXCEPT !.off = @ + 1])
    /\ Elsewhere

\* _switch_to_local_from_offset
CanSwitch(s) == entry[session[s].entry].complete \/ ~CaughtUp(s)

\* The upstream breaks: on from the cache if it has more, else one retry.
DirectBreaks(s) ==
    LET ses == [session[s] EXCEPT !.upstream = FALSE] IN
    /\ session[s].at = "direct"
    /\ \/ CanSwitch(s) /\ \E b \in BOOLEAN : Move(s, [ses EXCEPT !.at = "local", !.bounded = b])
       \/ ~CanSwitch(s) /\ Move(s, [ses EXCEPT !.at = IF ses.retried THEN "closing" ELSE "retry"])
    /\ Elsewhere

RetryAnswers(s) ==
    /\ session[s].at = "retry"
    /\ \/ Move(s, [session[s] EXCEPT !.at = "direct", !.upstream = TRUE, !.retried = TRUE])
       \/ Move(s, [session[s] EXCEPT !.at = "closing"])
    /\ Elsewhere

\* The stream is at its end, or the client goes away in the middle of it.
Leave(s) ==
    /\ session[s].at \in {"local", "wait", "direct", "retry"}
    /\ Move(s, [session[s] EXCEPT !.at = "closing"])
    /\ Elsewhere

\* stop(): closes the upstream, hands the direct slot back and detaches.
Stop(s) ==
    /\ session[s].at = "closing"
    /\ Move(s, Gone([session[s] EXCEPT !.attached = FALSE]))
    /\ HandIn(AccountOf[s], DirectOwner(s))
    /\ UNCHANGED <<current, entry, download, cleaner, files, restarts, raced, externalCounts>>

-----------------------------------------------------------------------------
(* _run_vod_cache_download                                                  *)

Wake(e) == session' = [s \in Sessions |->
               IF session[s].entry = e /\ session[s].at = "wait"
               THEN [session[s] EXCEPT !.at = "local"] ELSE session[s]]

\* A file loses its last name; a download that has it open keeps it alive.
Unlinked(f) == IF f = NoFile \/ \E e \in Entries : download[e].file = f THEN disk
               ELSE [disk EXCEPT ![f] = <<>>]

DownloadElsewhere == UNCHANGED <<current, cleaner, restarts, raced, externalCounts>>

Goes(e, at) == download' = [download EXCEPT ![e].at = at]

\* Altered: readers are not told of the end.
Finish_Quietly(e, en) ==
    /\ entry' = [entry EXCEPT ![e] = [en EXCEPT !.ready = TRUE]]
    /\ download' = [download EXCEPT ![e] = NoDownload]
    /\ HandIn(entry[e].source, download[e].owner)
    /\ UNCHANGED session

\* The finally block: both events set, the task gone, and the slot released
\* under the key of the source the entry has by now.
Finish(e, en) ==
    /\ entry' = [entry EXCEPT ![e] = [en EXCEPT !.ready = TRUE, !.progress = TRUE]]
    /\ download' = [download EXCEPT ![e] = NoDownload]
    /\ HandIn(entry[e].source, download[e].owner)
    /\ Wake(e)

FinishFailed(e) == Finish(e, Blocked(entry[e]))

\* The first call of the task fails, outside of its try block.
NoDirectory(e) ==
    /\ download[e].at = "mkdir"
    /\ download' = [download EXCEPT ![e] = NoDownload]
    /\ raced' = raced \union {"directory"}
    /\ UNCHANGED <<current, entry, session, allocations, cleaner, files, restarts, externalCounts>>

\* The part file says where to go on from, and the entry whom to ask.
Top(e) ==
    LET had == IF partFile = NoFile THEN 0 ELSE Len(disk[partFile]) IN
    /\ download[e].at \in {"mkdir", "top"}
    /\ download' = [download EXCEPT ![e].at = "request", ![e].next = had + 1,
                                    ![e].from = entry[e].source]
    /\ entry' = [entry EXCEPT ![e].written = had]
    /\ UNCHANGED <<session, allocations, files>> /\ DownloadElsewhere

Unused(f) == f \notin {partFile, finalFile} /\ \A e \in Entries : download[e].file # f

\* Accepted, as a range past the end is not: open the part file, "ab" to go on
\* and "wb" to begin.
OpenPart(e) ==
    /\ download[e].next <= Size[download[e].from]
    /\ \E f \in Files :
        /\ IF partFile = NoFile THEN Unused(f) /\ f = CHOOSE g \in Files : Unused(g)
           ELSE f = partFile
        /\ partFile' = f
        /\ disk' = IF download[e].next > 1 /\ partFile # NoFile THEN disk
                   ELSE [disk EXCEPT ![f] = <<>>]
        /\ download' = [download EXCEPT ![e].at = "stream", ![e].file = f]
        /\ UNCHANGED finalFile

\* Altered: the whole title, sent again, goes after what is there.
ResumeIgnored_Appends(e) ==
    /\ download[e].next > 1
    /\ download' = [download EXCEPT ![e].at = "stream", ![e].next = 1, ![e].file = partFile]
    /\ entry' = [entry EXCEPT ![e].ready = TRUE]
    /\ UNCHANGED <<session, allocations, files>>

\* The upstream sends the whole title: drop the part file and begin again.
ResumeIgnored(e) ==
    /\ download[e].next > 1
    /\ IF partFile = NoFile THEN Goes(e, "top") /\ entry' = [entry EXCEPT ![e].written = 0]
       ELSE Goes(e, "unlink") /\ UNCHANGED entry
    /\ UNCHANGED <<session, allocations, files>>

\* The upstream answers with an error: who waits for the start is told before
\* the slot is handed in.
Refused(e) ==
    /\ Goes(e, "refused")
    /\ entry' = [entry EXCEPT ![e] = [Blocked(@) EXCEPT !.ready = TRUE]]
    /\ UNCHANGED <<session, allocations, files>>

Responds(e) ==
    /\ download[e].at = "request"
    /\ \/ FinishFailed(e) /\ UNCHANGED files
       \/ Refused(e)
       \/ ResumeIgnored(e)
       \/ /\ OpenPart(e)
          /\ entry' = [entry EXCEPT ![e].ready = TRUE]
          /\ UNCHANGED <<session, allocations>>
    /\ DownloadElsewhere

EndsRefused(e) ==
    /\ download[e].at = "refused"
    /\ FinishFailed(e)
    /\ UNCHANGED files /\ DownloadElsewhere

PartUnlinked(e) ==
    /\ download[e].at = "unlink"
    /\ partFile' = NoFile /\ disk' = Unlinked(partFile)
    /\ Goes(e, "top")
    /\ entry' = [entry EXCEPT ![e].written = 0]
    /\ UNCHANGED <<session, allocations, finalFile>> /\ DownloadElsewhere

Chunk(e) ==
    LET d == download[e] IN
    /\ d.at = "stream" /\ d.next <= Size[d.from]
    /\ disk' = [disk EXCEPT ![d.file] = Append(@, <<d.from, d.next>>)]
    /\ download' = [download EXCEPT ![e].next = @ + 1]
    /\ entry' = [entry EXCEPT ![e].written = @ + 1, ![e].progress = FALSE]
    /\ Wake(e)
    /\ UNCHANGED <<allocations, partFile, finalFile>> /\ DownloadElsewhere

\* What follows the end of one response: d and en after counting the attempt.
Judge(e, d, en) ==
    \/ /\ en.want > 0 /\ en.written >= en.want
       /\ download' = [download EXCEPT ![e] = [d EXCEPT !.at = "replace", !.file = NoFile]]
       /\ entry' = [entry EXCEPT ![e] = en]
       /\ UNCHANGED <<session, allocations>>
    \/ /\ en.written < en.want /\ d.tries < MaxAttempts /\ en.reason = "retry"
       /\ download' = [download EXCEPT ![e] = [d EXCEPT !.at = "top", !.file = NoFile]]
       /\ entry' = [entry EXCEPT ![e] = en]
       /\ UNCHANGED <<session, allocations>>
    \/ /\ en.written < en.want /\ (d.tries >= MaxAttempts \/ en.reason # "retry")
       /\ FinishFailed(e)

ResponseEnds(e) ==
    /\ download[e].at = "stream"
    /\ Judge(e, download[e], entry[e])
    /\ UNCHANGED files /\ DownloadElsewhere

Interrupted(e) ==
    LET d == [download[e] EXCEPT !.tries = @ + 1] IN
    /\ download[e].at = "stream"
    /\ IF d.tries >= MaxAttempts THEN FinishFailed(e)
       ELSE Judge(e, d, [entry[e] EXCEPT !.reason = "retry"])
    /\ UNCHANGED files /\ DownloadElsewhere

DiskFails(e) ==
    /\ download[e].at = "stream"
    /\ FinishFailed(e)
    /\ UNCHANGED files /\ DownloadElsewhere

\* os.replace in a thread ...
Replaced(e) ==
    /\ download[e].at = "replace"
    /\ IF partFile = NoFile THEN FinishFailed(e) /\ UNCHANGED files
       ELSE /\ finalFile' = partFile /\ partFile' = NoFile
            /\ disk' = Unlinked(finalFile)
            /\ Goes(e, "replaced")
            /\ UNCHANGED <<entry, session, allocations>>
    /\ DownloadElsewhere

\* ... and the task that called it.
Completed(e) ==
    /\ download[e].at = "replaced"
    /\ Finish(e, [entry[e] EXCEPT !.complete = TRUE, !.written = entry[e].want,
                                  !.reason = "none"])
    /\ UNCHANGED files /\ DownloadElsewhere

-----------------------------------------------------------------------------
(* VodCacheManager.cleanup and _remove_entry, and a restart.                *)

Cleans(at, e) == cleaner' = [at |-> at, entry |-> e]
CleanerElsewhere == UNCHANGED <<download, session, restarts, raced, allocations,
                                externalCounts>>

\* Nobody attached, no download; idle long enough, which a client between its
\* look at the entry and its first read is not.
Evictable(e) ==
    ~Running(e) /\ \A s \in Sessions :
        session[s].entry = e => ~session[s].attached /\ session[s].at \in {"gone", "cancelled"}

\* The entry leaves the manager; the object lives on while a task has it.
Drop(e) ==
    /\ Cleans("idle", NoEntry)
    /\ current' = IF current = e THEN NoEntry ELSE current
    /\ entry' = IF Running(e) \/ \E s \in Sessions : session[s].entry = e THEN entry
                ELSE [entry EXCEPT ![e] = Fresh]

Evict(e) ==
    /\ cleaner.at = "idle" /\ e = current /\ Evictable(e)
    /\ \/ finalFile # NoFile /\ Cleans("final", e) /\ UNCHANGED <<current, entry>>
       \/ finalFile = NoFile /\ partFile # NoFile /\ Cleans("part", e)
          /\ UNCHANGED <<current, entry>>
       \/ finalFile = NoFile /\ partFile = NoFile /\ Drop(e)
    /\ UNCHANGED files /\ CleanerElsewhere

FinalUnlinked ==
    /\ cleaner.at = "final"
    /\ finalFile' = NoFile /\ disk' = Unlinked(finalFile)
    /\ Cleans("between", cleaner.entry)
    /\ UNCHANGED <<current, entry, partFile>> /\ CleanerElsewhere

LookForPart ==
    /\ cleaner.at = "between"
    /\ IF partFile # NoFile THEN Cleans("part", cleaner.entry) /\ UNCHANGED <<current, entry>>
       ELSE Drop(cleaner.entry)
    /\ UNCHANGED files /\ CleanerElsewhere

PartDropped ==
    /\ cleaner.at = "part"
    /\ partFile' = NoFile /\ disk' = Unlinked(partFile)
    /\ Cleans("last", cleaner.entry)
    /\ UNCHANGED <<current, entry, finalFile>> /\ CleanerElsewhere

EntryDropped ==
    /\ cleaner.at = "last"
    /\ Drop(cleaner.entry)
    /\ UNCHANGED files /\ CleanerElsewhere

\* Only the files survive; import_existing_files drops the part file and
\* takes a final file for a complete title.  (A restart that nobody came before
\* begins what has just begun.)
Restart ==
    /\ restarts < MaxRestarts /\ \E s \in Sessions : session[s].at # "idle"
    /\ restarts' = restarts + 1
    /\ partFile' = NoFile
    /\ disk' = [f \in Files |-> IF f = finalFile THEN disk[f] ELSE <<>>]
    /\ current' = IF finalFile = NoFile THEN NoEntry ELSE SomeEntry
    /\ entry' = [x \in Entries |-> IF x = current' THEN Imported(finalFile) ELSE Fresh]
    /\ download' = [e \in Entries |-> NoDownload]
    /\ session' = [s \in Sessions |-> IF session[s].at = "idle" THEN Outside
                                      ELSE Gone(Outside)]
    /\ Cleans("idle", NoEntry)
    /\ allocations' = [k \in Keys |-> [o \in Owners |-> {}]]
    /\ externalCounts' = [k \in Keys |-> 0]
    /\ UNCHANGED <<finalFile, raced>>

\* The other users of the accounts, and the poller of external connections.
OthersStep ==
    /\ \/ \E u \in Others : TryReserve(u[1], u[2], Slot) \/ Release(u[1], u[2], Slot)
       \/ SetExternalCounts
    /\ UNCHANGED <<current, entry, download, session, cleaner, files, restarts, raced>>

SessionStep(s) ==
    \/ Enter(s) \/ TakeProbeLock(s) \/ ProbeAnswers(s) \/ StartFails(s)
    \/ TailOrFallBack(s) \/ GetAnswers(s) \/ GetFails(s) \/ Cancelled(s)
    \/ Play(s) \/ LocalWaits(s) \/ LocalReads(s)
    \/ DirectReads(s) \/ DirectBreaks(s) \/ RetryAnswers(s) \/ Leave(s) \/ Stop(s)

DownloadStep(e) ==
    \/ NoDirectory(e) \/ Top(e) \/ Responds(e) \/ EndsRefused(e) \/ PartUnlinked(e)
    \/ Chunk(e) \/ ResponseEnds(e) \/ Interrupted(e) \/ DiskFails(e) \/ Replaced(e) \/ Completed(e)

CleanerStep == \/ FinalUnlinked \/ LookForPart \/ PartDropped \/ EntryDropped
               \/ \E e \in Entries : Evict(e)

VodNext == \/ \E s \in Sessions : SessionStep(s)
           \/ \E e \in Entries : DownloadStep(e)
           \/ CleanerStep \/ Restart \/ OthersStep

\* While a task can go on, the event loop runs one; requests time out and
\* answers end; an upstream asked again and again sends something at last.
VodFairness ==
    /\ SF_vodVars(\E e \in Entries : Chunk(e))
    /\ WF_vodVars(\E e \in Entries : Top(e) \/ Responds(e) \/ EndsRefused(e) \/ PartUnlinked(e)
                                     \/ ResponseEnds(e) \/ Replaced(e) \/ Completed(e))
    /\ WF_vodVars(\E s \in Sessions : TakeProbeLock(s) \/ ProbeAnswers(s) \/ TailOrFallBack(s))

VodSpec == VodInit /\ [][VodNext]_vodVars /\ VodFairness

-----------------------------------------------------------------------------
Sources == Accounts \union {NoAccount}
SessionRecords ==
    [at : {"idle", "lock", "probe", "ready", "get", "started", "direct", "retry", "local", "wait",
           "closing", "cancelled", "gone"},
     entry : Entries \union {NoEntry}, asks : Sources, from : {0, 1}, off : Nat, attached : BOOLEAN,
     cacheable : BOOLEAN, bounded : BOOLEAN, upstream : BOOLEAN, retried : BOOLEAN, warm : BOOLEAN]
EntryRecords ==
    [want : Nat, written : Nat, complete : BOOLEAN, reason : {"none", "retry", "failed"},
     ready : BOOLEAN, progress : BOOLEAN, source : Sources]
DownloadRecords ==
    [at : {"none", "mkdir", "top", "request", "refused", "stream", "unlink", "replace", "replaced"},
     owner : Owners \union {NoEntry}, key : Sources, from : Sources, file : Files \union {NoFile},
     next : Nat \ {0}, tries : Nat]

VodTypeOK ==
    /\ CapacityTypeOK
    /\ current \in Entries \union {NoEntry}
    /\ entry \in [Entries -> EntryRecords]
    /\ download \in [Entries -> DownloadRecords]
    /\ session \in [Sessions -> SessionRecords]
    /\ cleaner \in [at : {"idle", "final", "between", "part", "last"},
                    entry : Entries \union {NoEntry}]
    /\ {partFile, finalFile} \subseteq Files \union {NoFile}
    /\ disk \in [Files -> Seq(Sources \X Nat)]
    /\ restarts \in Nat /\ raced \subseteq {"eviction", "account", "directory"}

\* Unless a client comes while its title is being evicted, a complete entry has
\* a file as long as it says, every chunk in its place, whatever was interrupted,
\* resumed, ignored or restarted on the way; and unless a client of another
\* account comes before it is complete, the file is one account's, whole
\* (_run_vod_cache_download, get_or_create, import_existing_files).
CompleteIsWhole ==
    "eviction" \notin raced => \A e \in Entries :
        e = current /\ entry[e].complete /\ finalFile # NoFile =>
            /\ Len(disk[finalFile]) >= entry[e].want
            /\ \A i \in 1..Len(disk[finalFile]) : disk[finalFile][i][2] = i
            /\ "account" \notin raced => \E a \in Accounts : disk[finalFile] = Title(a)

\* The registry's slots are the connections.  A session that plays from upstream
\* has a slot of its account behind it, and none once it is gone, except for a
\* request cancelled while it started.  A download that runs has the slot it was
\* given.  That slot is its provider's, and does not outlive it, unless the cache
\* directory cannot be made or a client of another account comes for the title
\* before it is complete (try_reserve, the finally of _run_vod_cache_download).
ConnectionsAreHeld ==
    /\ \A s \in Sessions :
        /\ session[s].at = "get" \/ session[s].at = "retry" \/ session[s].upstream
               => Slot \in allocations[AccountOf[s]][DirectOwner(s)]
        /\ \A k \in Keys : Slot \in allocations[k][DirectOwner(s)] => session[s].at # "gone"
    /\ \A e \in Entries : Running(e) => Slot \in allocations[download[e].key][download[e].owner]
    /\ raced \subseteq {"eviction"} =>
        /\ \A e \in Entries : Running(e) => download[e].from \in {NoAccount, download[e].key}
        /\ \A s \in Sessions, k \in Keys : Slot \in allocations[k][CacheOwner(s)]
               => \E e \in Entries : /\ Running(e) /\ download[e].owner = CacheOwner(s)
                                     /\ download[e].key = k

\* No reader waits on an event that is left set: it would loop without ever
\* giving way to another task (_iter_local_bytes).
NobodySpins == "eviction" \notin raced => \A s \in Sessions : ~Spinning(s)

\* A reader that waits for the download is woken in the end, by a chunk or by
\* the news that there will be none, and a client that waits for the download
\* to begin is answered (progress_event, ready_event); a download that could not
\* even make its directory tells nobody.
WaitersWake ==
    \A s \in Sessions :
        session[s].at \in {"wait", "ready"} /\ raced \subseteq {"account"}
            ~> (session[s].at \notin {"wait", "ready"} \/ ~(raced \subseteq {"account"}))

=============================================================================
