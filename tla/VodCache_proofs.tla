---------------------------- MODULE VodCache_proofs --------------------------
(* Proofs about one title of the on-demand cache, for any number of clients,  *)
(* accounts, entries, files and restarts, any size, and any other users of    *)
(* the accounts; and about a 24/7 channel, for any viewers, lives and ffmpegs. *)
EXTENDS VodCache, VodChannel, CsoCapacity_proofs

-----------------------------------------------------------------------------
(* What a session's step does to the ledger and the downloads.                *)

Stays(s, new) ==
  session' = [session EXCEPT ![s] = new] /\ UNCHANGED <<download, allocations>>
Opens(s, new) ==
  /\ session' = [session EXCEPT ![s] = new] /\ UNCHANGED download
  /\ CanHold(AccountOf[s], DirectOwner(s)) /\ Hold(AccountOf[s], DirectOwner(s))
Begins(s, new, e, k) ==
  /\ session' = [session EXCEPT ![s] = new] /\ ~Running(e)
  /\ CanHold(k, CacheOwner(s)) /\ Hold(k, CacheOwner(s))
  /\ download' = [download EXCEPT ![e] = [NoDownload EXCEPT !.at = "mkdir", !.key = k,
                                                           !.owner = CacheOwner(s)]]

\* What the session makes of what is known of the title: a complete entry stays
\* complete when its file is there, and a download that starts is a new one.
Learns(en, ne) ==
  /\ ne \in EntryRecords /\ ne.want = en.want /\ (ne.complete => en.complete) /\ ne.source = en.source
  /\ en.complete /\ en.want > 0 /\ finalFile # NoFile => ne.complete
  /\ ~en.complete => ne.written = en.written
Reminds(en, ne) == ne.progress = en.progress /\ ne.reason \in {en.reason, "failed"}
Renews(ne) == ~ne.complete /\ ~ne.progress /\ ne.want > 0

\* A session that was given an answer, or has to ask for one.
Answered(s, ses, e, en, new, ne) ==
  /\ new \in SessionRecords /\ ~new.upstream
  /\ new.at # "gone" => new.entry = ses.entry /\ new.from = ses.from
  /\ new.entry \in {ses.entry, NoEntry}
  /\ new.at = "ready" => new.from = 0
  /\ new.at = "probe" => new.asks = en.source /\ en.want = 0
  /\ entry' = [entry EXCEPT ![e] = ne] /\ Learns(en, ne)
  /\ \/ Stays(s, new) /\ Reminds(en, ne) /\ new.at \in {"lock", "probe", "started", "ready", "gone"}
     \/ Opens(s, new) /\ Reminds(en, ne) /\ new.at = "get"
     \/ Begins(s, new, e, ne.source) /\ Renews(ne) /\ new.at \in {"ready", "gone"}

LEMMA GoneType ==
  ASSUME NEW ses \in SessionRecords
  PROVE  /\ Gone(ses) \in SessionRecords /\ Gone(ses).at = "gone" /\ ~Gone(ses).upstream
         /\ Gone(ses).entry \in {ses.entry, NoEntry} /\ Gone(Outside).entry = NoEntry
         /\ Outside \in SessionRecords /\ Outside.at = "idle" /\ ~Outside.upstream
         /\ Gone(Outside) \in SessionRecords /\ Gone(Outside).at = "gone" /\ ~Gone(Outside).upstream
  <1>1. Outside \in SessionRecords /\ Outside.at = "idle" /\ ~Outside.upstream
    BY DEF Outside, SessionRecords, Sources
  <1>2. ASSUME NEW x \in SessionRecords
        PROVE  /\ Gone(x) \in SessionRecords /\ Gone(x).at = "gone" /\ ~Gone(x).upstream
               /\ Gone(x).entry = IF x.attached THEN x.entry ELSE NoEntry
    <2>1. DOMAIN Outside = {"at", "entry", "asks", "from", "off", "attached", "cacheable", "bounded",
                            "upstream", "retried", "warm"}
      BY DEF Outside
    <2>2. /\ Gone(x).at = "gone" /\ ~Gone(x).upstream
          /\ Gone(x).entry = IF x.attached THEN x.entry ELSE NoEntry
      BY <2>1 DEF Gone, Outside
    <2>3. x.attached \in BOOLEAN /\ (IF x.attached THEN x.entry ELSE NoEntry) \in Entries \union {NoEntry}
      BY DEF SessionRecords
    <2>4. PICK b \in BOOLEAN, e \in Entries \union {NoEntry} :
             Gone(x) = [Outside EXCEPT !.at = "gone", !.attached = b, !.entry = e]
      BY <2>3 DEF Gone
    <2>5. [Outside EXCEPT !.at = "gone", !.attached = b, !.entry = e] \in SessionRecords
      BY DEF Outside, SessionRecords, Sources
    <2> QED  BY <2>2, <2>4, <2>5
  <1>3. ~Outside.attached
    BY DEF Outside
  <1> QED  BY <1>1, <1>2, <1>3

LEMMA FreshType ==
  /\ Fresh \in EntryRecords /\ ~Fresh.complete /\ ~Fresh.progress /\ Fresh.want = 0 /\ Fresh.written = 0
  /\ NoDownload \in DownloadRecords /\ NoDownload.at = "none" /\ NoDownload.owner = NoEntry
  /\ NoDownload.from = NoAccount
  BY DEF Fresh, EntryRecords, NoDownload, DownloadRecords, Sources

LEMMA BlockedType ==
  ASSUME NEW en \in EntryRecords
  PROVE  /\ Blocked(en) \in EntryRecords /\ Learns(en, Blocked(en)) /\ Reminds(en, Blocked(en))
         /\ Blocked(en).reason = "failed" /\ Blocked(en).written = en.written
         /\ Blocked(en).complete = en.complete
  BY DEF Blocked, EntryRecords, Learns, Reminds

LEMMA GoUpstreamAnswers ==
  ASSUME NEW s \in Sessions, NEW ses \in SessionRecords, NEW e, NEW en \in EntryRecords,
         NEW base \in EntryRecords, Learns(base, en), Reminds(base, en), ~ses.upstream,
         GoUpstream(s, ses, e, en)
  PROVE  \E new : /\ Answered(s, ses, e, base, new, en)
                  /\ UNCHANGED download /\ new.at \in {"get", "gone"}
  <1>1. CASE CanHold(AccountOf[s], DirectOwner(s))
    <2> DEFINE new == [ses EXCEPT !.at = "get"]
    <2>1. new \in SessionRecords /\ new.at = "get" /\ new.entry = ses.entry /\ new.from = ses.from /\ ~new.upstream
      BY DEF SessionRecords
    <2>2. Opens(s, new) /\ entry' = [entry EXCEPT ![e] = en]
      BY <1>1 DEF GoUpstream, Opens
    <2> QED  BY <2>1, <2>2 DEF Answered, Opens
  <1>2. CASE ~CanHold(AccountOf[s], DirectOwner(s))
    <2>1. Stays(s, Gone(ses)) /\ entry' = [entry EXCEPT ![e] = en]
      BY <1>2 DEF GoUpstream, Stays
    <2> QED  BY <2>1, GoneType DEF Answered, Stays
  <1> QED  BY <1>1, <1>2

LEMMA BeginDownloadAnswers ==
  ASSUME NEW s \in Sessions, NEW new, NEW e, NEW en \in EntryRecords,
         BeginDownload(e, s, en), MayBegin(e, s, en), ~en.complete,
         session' = [session EXCEPT ![s] = new]
  PROVE  \E ne \in EntryRecords : /\ entry' = [entry EXCEPT ![e] = ne] /\ Begins(s, new, e, ne.source)
                                  /\ Learns(en, ne) /\ Renews(ne)
  <1> DEFINE ne == [en EXCEPT !.reason = "none", !.ready = FALSE, !.progress = FALSE]
  <1>1. ne \in EntryRecords /\ Learns(en, ne) /\ Renews(ne) /\ ne.source = en.source
    BY DEF EntryRecords, Learns, Renews, MayBegin
  <1>2. entry' = [entry EXCEPT ![e] = ne] /\ Begins(s, new, e, en.source)
    BY DEF BeginDownload, MayBegin, Begins
  <1> HIDE DEF ne
  <1> QED  BY <1>1, <1>2

LEMMA DecideAnswers ==
  ASSUME NEW s \in Sessions, NEW ses \in SessionRecords, NEW e, NEW en \in EntryRecords,
         ~ses.upstream, Decide(s, ses, e, en)
  PROVE  \E new, ne : Answered(s, ses, e, en, new, ne) /\ new.at # "probe"
  <1> DEFINE lost == [en EXCEPT !.complete = FALSE, !.written = IF en.complete THEN 0 ELSE @]
             ready == [ses EXCEPT !.at = "ready"]
             wanted == ses.from = 0 /\ ses.cacheable /\ en.want > 0
             whole == en.complete /\ en.want > 0 /\ finalFile # NoFile
  <1>1. CASE whole
    <2> DEFINE new == [ses EXCEPT !.at = "started", !.bounded = TRUE]
    <2>1. new \in SessionRecords /\ new.at = "started" /\ new.entry = ses.entry /\ new.from = ses.from /\ ~new.upstream
      BY DEF SessionRecords
    <2>2. Stays(s, new) /\ entry' = [entry EXCEPT ![e] = en]
      BY <1>1 DEF Decide, Stays
    <2>3. Learns(en, en) /\ Reminds(en, en)
      BY DEF Learns, Reminds
    <2> QED  BY <2>1, <2>2, <2>3 DEF Answered
  <1>2. CASE ~whole
    <2>1. lost \in EntryRecords /\ ~lost.complete /\ Learns(en, lost) /\ Reminds(en, lost) /\ lost.want = en.want
      BY <1>2 DEF EntryRecords, Learns, Reminds
    <2>2. ready \in SessionRecords /\ ready.at = "ready" /\ ready.entry = ses.entry /\ ready.from = ses.from /\ ~ready.upstream
      BY DEF SessionRecords
    <2>3. \/ wanted /\ Running(e) /\ Stays(s, ready) /\ entry' = [entry EXCEPT ![e] = lost]
          \/ wanted /\ MayBegin(e, s, lost) /\ BeginDownload(e, s, lost) /\ session' = [session EXCEPT ![s] = ready]
          \/ GoUpstream(s, ses, e, Blocked(lost))
          \/ GoUpstream(s, ses, e, lost)
      BY <1>2 DEF Decide, Stays
    <2>4. CASE wanted /\ Running(e) /\ Stays(s, ready) /\ entry' = [entry EXCEPT ![e] = lost]
      BY <2>1, <2>2, <2>4 DEF Answered
    <2>5. CASE wanted /\ MayBegin(e, s, lost) /\ BeginDownload(e, s, lost) /\ session' = [session EXCEPT ![s] = ready]
      <3> HIDE DEF lost, ready
      <3>1. PICK ne \in EntryRecords : /\ entry' = [entry EXCEPT ![e] = ne] /\ Begins(s, ready, e, ne.source)
                                       /\ Learns(lost, ne) /\ Renews(ne)
        BY <2>1, <2>5, BeginDownloadAnswers
      <3>2. Learns(en, ne)
        BY <1>2, <2>1, <3>1 DEF Learns
      <3> QED  BY <2>2, <2>5, <3>1, <3>2 DEF Answered
    <2>6. CASE GoUpstream(s, ses, e, Blocked(lost))
      <3> HIDE DEF lost
      <3>1. Blocked(lost) \in EntryRecords /\ Learns(en, Blocked(lost)) /\ Reminds(en, Blocked(lost))
        BY <2>1, BlockedType DEF Learns, Reminds
      <3> QED  BY <2>6, <3>1, GoUpstreamAnswers
    <2>7. CASE GoUpstream(s, ses, e, lost)
      <3> HIDE DEF lost
      <3> QED  BY <2>1, <2>7, GoUpstreamAnswers
    <2> QED  BY <2>3, <2>4, <2>5, <2>6, <2>7
  <1> QED  BY <1>1, <1>2

LEMMA WarmAnswers ==
  ASSUME NEW s \in Sessions, NEW ses \in SessionRecords, NEW e, NEW en \in EntryRecords,
         Warm(s, ses, e, en)
  PROVE  \E new, ne : Answered(s, ses, e, en, new, ne) /\ new.at # "probe"
  <1> DEFINE new == Gone(ses)
  <1>1. session' = [session EXCEPT ![s] = new]
    BY DEF Warm
  <1>2. new \in SessionRecords /\ new.at = "gone" /\ ~new.upstream /\ new.entry \in {ses.entry, NoEntry}
    BY GoneType
  <1> HIDE DEF new
  <1>3. CASE ses.cacheable /\ ~en.complete /\ MayBegin(e, s, en)
    <2>1. BeginDownload(e, s, en)
      BY <1>3 DEF Warm
    <2>2. PICK ne \in EntryRecords : /\ entry' = [entry EXCEPT ![e] = ne] /\ Begins(s, new, e, ne.source)
                                     /\ Learns(en, ne) /\ Renews(ne)
      BY <1>1, <1>3, <2>1, BeginDownloadAnswers
    <2>3. Answered(s, ses, e, en, new, ne)
      BY <1>2, <2>2 DEF Answered
    <2> QED  BY <1>2, <2>3
  <1>4. CASE ~(ses.cacheable /\ ~en.complete /\ MayBegin(e, s, en))
    <2> DEFINE ne == IF ses.cacheable /\ ~en.complete /\ ~Running(e) THEN Blocked(en) ELSE en
    <2>1. Stays(s, new) /\ entry' = [entry EXCEPT ![e] = ne]
      BY <1>1, <1>4 DEF Warm, Stays
    <2>2. Learns(en, ne) /\ Reminds(en, ne)
      BY BlockedType DEF Learns, Reminds
    <2> HIDE DEF ne
    <2>3. Answered(s, ses, e, en, new, ne)
      BY <1>2, <2>1, <2>2 DEF Answered
    <2> QED  BY <1>2, <2>3
  <1> QED  BY <1>3, <1>4

LEMMA ProceedAnswers ==
  ASSUME NEW s \in Sessions, NEW ses \in SessionRecords, NEW e, NEW en \in EntryRecords,
         ~ses.upstream, Proceed(s, ses, e, en)
  PROVE  \E new, ne : Answered(s, ses, e, en, new, ne) /\ new.at # "probe"
  BY DecideAnswers, WarmAnswers DEF Proceed

LEMMA LookAnswers ==
  ASSUME NEW s \in Sessions, NEW ses \in SessionRecords, NEW e, NEW en \in EntryRecords,
         ~ses.upstream, Look(s, ses, e, en)
  PROVE  \E new, ne : Answered(s, ses, e, en, new, ne)
  <1>1. CASE Known(en)
    <2> DEFINE asked == [ses EXCEPT !.cacheable = TRUE]
    <2>1. asked \in SessionRecords /\ ~asked.upstream /\ asked.entry = ses.entry /\ asked.from = ses.from
      BY DEF SessionRecords
    <2>2. Proceed(s, asked, e, en)
      BY <1>1 DEF Look
    <2> HIDE DEF asked
    <2>3. PICK new, ne : Answered(s, asked, e, en, new, ne)
      BY <2>1, <2>2, ProceedAnswers
    <2> QED  BY <2>1, <2>3 DEF Answered
  <1>2. CASE ~Known(en)
    <2> DEFINE new == [ses EXCEPT !.at = "probe", !.asks = en.source]
    <2>0. en.source \in Sources /\ en.want = 0
      BY <1>2 DEF EntryRecords, Known
    <2>1. /\ new \in SessionRecords /\ new.at = "probe" /\ ~new.upstream /\ new.entry = ses.entry
          /\ new.from = ses.from /\ new.asks = en.source
      BY <2>0 DEF SessionRecords
    <2>2. Stays(s, new) /\ entry' = [entry EXCEPT ![e] = en]
      BY <1>2 DEF Look, Stays
    <2>3. Learns(en, en) /\ Reminds(en, en)
      BY DEF Learns, Reminds
    <2> HIDE DEF new
    <2> QED  BY <2>0, <2>1, <2>2, <2>3 DEF Answered
  <1> QED  BY <1>1, <1>2
-----------------------------------------------------------------------------
(* The steps of a session, in these terms.                                    *)

\* The provider is, or is about to be, connected to; a session with no connection
\* of its own; one that has yet to be able to start a download.
OnLine(r) == r.at \in {"get", "direct", "retry"} \/ r.upstream
OffLine(r) == r.at \in {"idle", "lock", "probe", "ready", "gone"}
NotYet(r) == r.at \in {"idle", "lock", "probe"} \/ (r.at = "get" /\ r.from # 0)

HasEntry == \A s \in Sessions :
  session[s].at \notin {"idle", "gone", "cancelled"} => session[s].entry \in Entries

\* The entry a client comes to.
Met(e, s) == [(IF current # NoEntry THEN entry[e] ELSE Fresh) EXCEPT !.source = AccountOf[s]]

LEMMA EnterAnswers ==
  ASSUME VodTypeOK, NEW s \in Sessions, Enter(s)
  PROVE  \E e \in Entries, en \in EntryRecords, ses \in SessionRecords : \E new, ne :
           /\ session[s].at = "idle" /\ current' = e
           /\ (current # NoEntry => e = current) /\ (current = NoEntry => ~InUse(e))
           /\ en = Met(e, s) /\ ses.entry = e
           /\ Answered(s, ses, e, en, new, ne) /\ (Probing(e) => new.at # "probe")
           /\ raced' = raced \union {x \in {"eviction"} : cleaner.entry = e}
                            \union {x \in {"account"} : Crosses(s)}
           /\ UNCHANGED <<cleaner, files, restarts, externalCounts>>
  <1> DEFINE e == IF current # NoEntry THEN current ELSE CHOOSE x \in Entries : ~InUse(x)
             en == Met(e, s)
  <1>1. e \in Entries /\ (current = NoEntry => ~InUse(e)) /\ (current # NoEntry => e = current)
    BY DEF Enter, VodTypeOK
  <1>2. en \in EntryRecords
    <2>1. (IF current # NoEntry THEN entry[e] ELSE Fresh) \in EntryRecords
      BY <1>1, FreshType DEF VodTypeOK
    <2>2. AccountOf[s] \in Sources
      BY VodAssumption DEF Sources
    <2> QED  BY <2>1, <2>2 DEF Met, EntryRecords
  <1>3. PICK from \in {0, 1}, warm \in BOOLEAN :
          LET ses == [Outside EXCEPT !.entry = e, !.from = from, !.off = from,
                                     !.attached = ~warm, !.warm = warm]
          IN  /\ current' = e
              /\ IF Probing(e) THEN /\ session' = [session EXCEPT ![s] = [ses EXCEPT !.at = "lock"]]
                                    /\ entry' = [entry EXCEPT ![e] = en]
                                    /\ UNCHANGED <<download, allocations>>
                 ELSE Look(s, ses, e, en)
    BY DEF Enter, Met
  <1> DEFINE ses == [Outside EXCEPT !.entry = e, !.from = from, !.off = from,
                                    !.attached = ~warm, !.warm = warm]
  <1>4. /\ session[s].at = "idle" /\ current' = e
        /\ raced' = raced \union {x \in {"eviction"} : cleaner.entry = e}
                         \union {x \in {"account"} : Crosses(s)}
        /\ UNCHANGED <<cleaner, files, restarts, externalCounts>>
    BY <1>3 DEF Enter
  <1> HIDE DEF e
  <1>5. ses \in SessionRecords /\ ~ses.upstream /\ ses.entry = e /\ ses.from = from
    <2>1. Outside \in SessionRecords /\ from \in Nat
      BY DEF Outside, SessionRecords, Sources
    <2>2. CASE warm = TRUE
      <3>1. ses = [Outside EXCEPT !.entry = e, !.from = from, !.off = from,
                                  !.attached = FALSE, !.warm = TRUE]
        BY <2>2
      <3>2. ses \in SessionRecords
        BY <1>1, <2>1, <3>1 DEF SessionRecords
      <3> QED  BY <3>1, <3>2 DEF Outside
    <2>3. CASE warm = FALSE
      <3>1. ses = [Outside EXCEPT !.entry = e, !.from = from, !.off = from,
                                  !.attached = TRUE, !.warm = FALSE]
        BY <2>3
      <3>2. ses \in SessionRecords
        BY <1>1, <2>1, <3>1 DEF SessionRecords
      <3> QED  BY <3>1, <3>2 DEF Outside
    <2> QED  BY <2>2, <2>3
  <1>6. CASE ~Probing(e)
    <2>1. Look(s, ses, e, en)
      BY <1>3, <1>6
    <2>2. PICK new, ne : Answered(s, ses, e, en, new, ne)
      <3> HIDE DEF ses, en
      <3> QED  BY <1>2, <1>5, <2>1, LookAnswers
    <2> HIDE DEF ses
    <2> QED  BY <1>1, <1>2, <1>4, <1>5, <1>6, <2>2
  <1>7. CASE Probing(e)
    <2> DEFINE new == [ses EXCEPT !.at = "lock"]
    <2>1. current # NoEntry
      BY <1>1, <1>7 DEF Probing, InUse
    <2>2. session' = [session EXCEPT ![s] = new] /\ UNCHANGED <<download, allocations>>
      BY <1>3, <1>7
    <2>3. entry' = [entry EXCEPT ![e] = en]
      BY <1>3, <1>7
    <2> HIDE DEF ses, en
    <2>4. new \in SessionRecords /\ new.at = "lock" /\ ~new.upstream /\ new.entry = ses.entry /\ new.from = ses.from
      BY <1>5 DEF SessionRecords
    <2> HIDE DEF new
    <2>5. Learns(en, en) /\ Reminds(en, en)
      BY <1>2 DEF Learns, Reminds
    <2>6. Answered(s, ses, e, en, new, en)
      BY <1>5, <2>2, <2>3, <2>4, <2>5 DEF Answered, Stays
    <2> QED  BY <1>1, <1>2, <1>4, <1>5, <2>4, <2>6 DEF en
  <1> QED  BY <1>6, <1>7

\* Those that wait for the lock, for the probe or for the download to begin.
LEMMA AskingAnswers ==
  ASSUME VodTypeOK, HasEntry, NEW s \in Sessions, NEW e, e = session[s].entry, ~session[s].upstream,
         session[s].at = "probe" => session[s].asks \in Accounts,
         TakeProbeLock(s) \/ ProbeAnswers(s) \/ TailOrFallBack(s)
  PROVE  \E en \in EntryRecords, ses \in SessionRecords : \E new, ne :
           /\ session[s].at \in {"lock", "probe", "ready"} /\ e \in Entries
           /\ en = [entry[e] EXCEPT !.want = en.want, !.reason = en.reason]
           /\ \/ en.want = entry[e].want
              \/ en.want = Size[session[s].asks] /\ session[s].at = "probe"
           /\ en.reason \in {entry[e].reason, "failed"}
           /\ ses = [session[s] EXCEPT !.cacheable = ses.cacheable, !.asks = ses.asks]
           /\ Answered(s, ses, e, en, new, ne)
           /\ new.at = "probe" => session[s].at = "lock" /\ ~Probing(e)
           /\ session[s].at = "ready" => UNCHANGED download /\ new.at \in {"get", "started", "gone"}
           /\ UNCHANGED <<current, cleaner, files, restarts, raced, externalCounts>>
  <1>0. session[s] \in SessionRecords
    BY DEF VodTypeOK
  <1>1. session[s].at \in {"lock", "probe", "ready"} /\ e \in Entries /\ entry[e] \in EntryRecords
    BY DEF TakeProbeLock, ProbeAnswers, TailOrFallBack, HasEntry, VodTypeOK
  <1>2. UNCHANGED <<current, cleaner, files, restarts, raced, externalCounts>>
    BY DEF TakeProbeLock, ProbeAnswers, TailOrFallBack
  <1>3. entry[e] = [entry[e] EXCEPT !.want = entry[e].want, !.reason = entry[e].reason]
    BY <1>1 DEF EntryRecords
  <1>4. session[s] = [session[s] EXCEPT !.cacheable = session[s].cacheable, !.asks = session[s].asks]
    BY <1>0 DEF SessionRecords
  <1>5. CASE TakeProbeLock(s)
    <2>1. PICK new, ne : Answered(s, session[s], e, entry[e], new, ne)
      BY <1>0, <1>1, <1>5, LookAnswers DEF TakeProbeLock
    <2>2. session[s].at = "lock" /\ ~Probing(e)
      BY <1>5 DEF TakeProbeLock
    <2> QED  BY <1>0, <1>1, <1>2, <1>3, <1>4, <2>1, <2>2
  <1>6. CASE ProbeAnswers(s) /\ Proceed(s, [session[s] EXCEPT !.asks = NoAccount, !.cacheable = TRUE], e,
                                        [entry[e] EXCEPT !.want = Size[session[s].asks]])
    <2> DEFINE ses == [session[s] EXCEPT !.asks = NoAccount, !.cacheable = TRUE]
               n == Size[session[s].asks]
               en == [entry[e] EXCEPT !.want = n]
    <2>1. /\ ses \in SessionRecords /\ ~ses.upstream
          /\ ses = [session[s] EXCEPT !.cacheable = ses.cacheable, !.asks = ses.asks]
      BY <1>0 DEF SessionRecords, Sources
    <2>0. n \in Nat
      BY <1>6, VodAssumption DEF ProbeAnswers
    <2>2. en \in EntryRecords /\ en = [entry[e] EXCEPT !.want = en.want, !.reason = en.reason]
          /\ en.want = n /\ en.reason = entry[e].reason
      <3> HIDE DEF n
      <3> QED  BY <1>1, <2>0 DEF EntryRecords
    <2>3. Proceed(s, ses, e, en)
      BY <1>6
    <2> HIDE DEF ses, en
    <2>4. PICK new, ne : Answered(s, ses, e, en, new, ne) /\ new.at # "probe"
      BY <2>1, <2>2, <2>3, ProceedAnswers
    <2>5. session[s].at = "probe"
      BY <1>6 DEF ProbeAnswers
    <2> QED  BY <1>1, <1>2, <2>1, <2>2, <2>4, <2>5
  <1>7. CASE ProbeAnswers(s) /\ Proceed(s, [session[s] EXCEPT !.asks = NoAccount], e, Blocked(entry[e]))
    <2> DEFINE ses == [session[s] EXCEPT !.asks = NoAccount]
               en == Blocked(entry[e])
    <2>0. /\ ses \in SessionRecords /\ ~ses.upstream
          /\ ses = [session[s] EXCEPT !.cacheable = ses.cacheable, !.asks = ses.asks]
      BY <1>0 DEF SessionRecords, Sources
    <2>1. en \in EntryRecords /\ en = [entry[e] EXCEPT !.want = en.want, !.reason = en.reason]
          /\ en.want = entry[e].want /\ en.reason = "failed"
      BY <1>1 DEF Blocked, EntryRecords
    <2>2. Proceed(s, ses, e, en)
      BY <1>7
    <2> HIDE DEF en, ses
    <2>3. PICK new, ne : Answered(s, ses, e, en, new, ne) /\ new.at # "probe"
      BY <2>0, <2>1, <2>2, ProceedAnswers
    <2>4. session[s].at = "probe"
      BY <1>7 DEF ProbeAnswers
    <2> QED  BY <1>0, <1>1, <1>2, <1>4, <2>0, <2>1, <2>3, <2>4
  <1>8. CASE TailOrFallBack(s) /\ GoUpstream(s, session[s], e, entry[e])
    <2>1. Learns(entry[e], entry[e]) /\ Reminds(entry[e], entry[e])
      BY <1>1 DEF Learns, Reminds
    <2>2. PICK new : /\ Answered(s, session[s], e, entry[e], new, entry[e])
                     /\ UNCHANGED download /\ new.at \in {"get", "gone"}
      BY <1>0, <1>1, <1>8, <2>1, GoUpstreamAnswers
    <2> QED  BY <1>0, <1>1, <1>2, <1>3, <1>4, <2>2
  <1>9. CASE /\ TailOrFallBack(s) /\ UNCHANGED <<entry, download, allocations>>
             /\ session' = [session EXCEPT ![s] = [@ EXCEPT !.at = "started", !.bounded = TRUE]]
    <2> DEFINE new == [session[s] EXCEPT !.at = "started", !.bounded = TRUE]
    <2>1. /\ new \in SessionRecords /\ new.at = "started" /\ new.entry = session[s].entry
          /\ new.from = session[s].from /\ ~new.upstream
      BY <1>0 DEF SessionRecords
    <2>2. Stays(s, new) /\ entry' = [entry EXCEPT ![e] = entry[e]]
      BY <1>1, <1>9 DEF Stays, VodTypeOK
    <2>3. Learns(entry[e], entry[e]) /\ Reminds(entry[e], entry[e])
      BY <1>1 DEF Learns, Reminds
    <2> HIDE DEF new
    <2>4. Answered(s, session[s], e, entry[e], new, entry[e])
      BY <2>1, <2>2, <2>3 DEF Answered
    <2> QED  BY <1>0, <1>1, <1>2, <1>3, <1>4, <1>9, <2>1, <2>4
  <1> QED  BY <1>5, <1>6, <1>7, <1>8, <1>9 DEF ProbeAnswers, TailOrFallBack

\* The steps in which a session touches nothing but itself.
OwnStep(s) ==
  \/ StartFails(s) \/ GetFails(s) \/ Cancelled(s) \/ Play(s) \/ LocalWaits(s) \/ LocalReads(s)
  \/ DirectReads(s) \/ DirectBreaks(s) \/ RetryAnswers(s) \/ Leave(s)

LEMMA OwnStepGoes ==
  ASSUME VodTypeOK, NEW s \in Sessions, OwnStep(s)
  PROVE  \E new \in SessionRecords :
           /\ session' = [session EXCEPT ![s] = new] /\ Elsewhere
           /\ session[s].at \notin {"idle", "gone", "cancelled"} /\ new.entry \in {session[s].entry, NoEntry}
           /\ (new.at \notin {"gone", "cancelled"} => new.entry = session[s].entry)
           /\ (OnLine(new) => OnLine(session[s])) /\ (OffLine(new) => OffLine(session[s]))
           /\ ~NotYet(new) /\ new.at # "ready"
  <1> DEFINE old == session[s]
             Goes2(new) == /\ (new.at \notin {"gone", "cancelled"} => new.entry = old.entry)
                           /\ new.entry \in {old.entry, NoEntry}
                           /\ (OnLine(new) => OnLine(old)) /\ (OffLine(new) => OffLine(old))
                           /\ ~NotYet(new) /\ new.at # "ready"
  <1>0. old \in SessionRecords
    BY DEF VodTypeOK
  <1> USE DEF OnLine, OffLine, NotYet
  <1>1. CASE StartFails(s)
    <2>1. Gone(old) \in SessionRecords /\ Goes2(Gone(old)) /\ old.at \in {"probe", "ready"}
      BY <1>0, <1>1, GoneType DEF StartFails
    <2>2. session' = [session EXCEPT ![s] = Gone(old)] /\ Elsewhere
      BY <1>1 DEF StartFails, Fail, Elsewhere
    <2> QED  BY <2>1, <2>2
  <1>2. CASE GetFails(s) \/ Leave(s)
    <2> DEFINE new == [old EXCEPT !.at = "closing"]
    <2>1. new \in SessionRecords /\ Goes2(new) /\ old.at \notin {"idle", "gone", "cancelled"}
      BY <1>0, <1>2 DEF SessionRecords, GetFails, Leave
    <2>2. session' = [session EXCEPT ![s] = new] /\ Elsewhere
      BY <1>2 DEF GetFails, Leave, Move
    <2> HIDE DEF new
    <2> QED  BY <2>1, <2>2
  <1>3. CASE Cancelled(s)
    <2> DEFINE g == Gone(old)
               new == [g EXCEPT !.at = "cancelled", !.upstream = old.upstream]
    <2>0. g \in SessionRecords /\ g.entry \in {old.entry, NoEntry} /\ old.upstream \in BOOLEAN
      BY <1>0, GoneType DEF SessionRecords
    <2> HIDE DEF g
    <2>1. new \in SessionRecords /\ Goes2(new) /\ old.at \notin {"idle", "gone", "cancelled"}
      BY <1>0, <1>3, <2>0 DEF SessionRecords, Cancelled
    <2>2. session' = [session EXCEPT ![s] = new] /\ Elsewhere
      BY <1>3 DEF Cancelled, Elsewhere, g
    <2> HIDE DEF new
    <2> QED  BY <2>1, <2>2
  <1>4. CASE Play(s)
    <2> DEFINE new == [old EXCEPT !.at = IF old.upstream THEN "direct" ELSE "local",
                                  !.from = 0, !.cacheable = FALSE]
    <2>1. new \in SessionRecords /\ Goes2(new) /\ old.at \notin {"idle", "gone", "cancelled"}
      BY <1>0, <1>4 DEF SessionRecords, Play
    <2>2. session' = [session EXCEPT ![s] = new] /\ Elsewhere
      BY <1>4 DEF Play, Move
    <2> HIDE DEF new
    <2> QED  BY <2>1, <2>2
  <1>5. CASE LocalWaits(s)
    <2> DEFINE new == [old EXCEPT !.at = "wait"]
    <2>1. new \in SessionRecords /\ Goes2(new) /\ old.at \notin {"idle", "gone", "cancelled"}
      BY <1>0, <1>5 DEF SessionRecords, LocalWaits
    <2>2. session' = [session EXCEPT ![s] = new] /\ Elsewhere
      BY <1>5 DEF LocalWaits, Move
    <2> HIDE DEF new
    <2> QED  BY <2>1, <2>2
  <1>6. CASE LocalReads(s)
    <2>1. \E new \in {[old EXCEPT !.at = "closing"], [old EXCEPT !.off = @ + 1], old} :
            session' = [session EXCEPT ![s] = new] /\ Elsewhere
      BY <1>6 DEF LocalReads, Move
    <2>2. \A new \in {[old EXCEPT !.at = "closing"], [old EXCEPT !.off = @ + 1], old} :
            new \in SessionRecords /\ Goes2(new)
      BY <1>0, <1>6 DEF SessionRecords, LocalReads
    <2>3. old.at = "local"
      BY <1>6 DEF LocalReads
    <2> QED  BY <2>1, <2>2, <2>3
  <1>7. CASE DirectReads(s)
    <2> DEFINE new == [old EXCEPT !.off = @ + 1]
    <2>1. new \in SessionRecords /\ Goes2(new) /\ old.at \notin {"idle", "gone", "cancelled"}
      BY <1>0, <1>7 DEF SessionRecords, DirectReads
    <2>2. session' = [session EXCEPT ![s] = new] /\ Elsewhere
      BY <1>7 DEF DirectReads, Move
    <2> HIDE DEF new
    <2> QED  BY <2>1, <2>2
  <1>8. CASE DirectBreaks(s)
    <2> DEFINE ses == [old EXCEPT !.upstream = FALSE]
    <2>1. \E b \in BOOLEAN, at \in {"closing", "retry"} :
            \/ session' = [session EXCEPT ![s] = [ses EXCEPT !.at = "local", !.bounded = b]]
            \/ session' = [session EXCEPT ![s] = [ses EXCEPT !.at = at]]
      BY <1>8 DEF DirectBreaks, Move
    <2>2. Elsewhere /\ old.at = "direct"
      BY <1>8 DEF DirectBreaks
    <2>3. ses \in SessionRecords /\ ses.entry = old.entry /\ ~ses.upstream
      BY <1>0 DEF SessionRecords
    <2> HIDE DEF ses
    <2>4. \A b \in BOOLEAN : LET new == [ses EXCEPT !.at = "local", !.bounded = b]
                             IN new \in SessionRecords /\ Goes2(new)
      BY <2>2, <2>3 DEF SessionRecords
    <2>5. \A at \in {"closing", "retry"} : LET new == [ses EXCEPT !.at = at]
                                           IN new \in SessionRecords /\ Goes2(new)
      BY <2>2, <2>3 DEF SessionRecords
    <2> QED  BY <2>1, <2>2, <2>4, <2>5
  <1>9. CASE RetryAnswers(s)
    <2>1. \E new \in {[old EXCEPT !.at = "direct", !.upstream = TRUE, !.retried = TRUE],
                      [old EXCEPT !.at = "closing"]} :
            session' = [session EXCEPT ![s] = new] /\ Elsewhere
      BY <1>9 DEF RetryAnswers, Move
    <2>2. \A new \in {[old EXCEPT !.at = "direct", !.upstream = TRUE, !.retried = TRUE],
                      [old EXCEPT !.at = "closing"]} :
            new \in SessionRecords /\ Goes2(new)
      BY <1>0, <1>9 DEF SessionRecords, RetryAnswers
    <2>3. old.at = "retry"
      BY <1>9 DEF RetryAnswers
    <2> QED  BY <2>1, <2>2, <2>3
  <1> QED  BY <1>1, <1>2, <1>3, <1>4, <1>5, <1>6, <1>7, <1>8, <1>9 DEF OwnStep
-----------------------------------------------------------------------------
(* The slots of the sessions and of the downloads.                            *)

Holds(k, o) == Slot \in allocations[k][o]

\* A session has the slot of the connection it is on, or is about to open, and no
\* session that is over or not connected yet has one.
DirectSlots ==
  \A s \in Sessions :
    /\ OnLine(session[s]) => Holds(AccountOf[s], DirectOwner(s))
    /\ \A k \in Keys : Holds(k, DirectOwner(s)) => k = AccountOf[s] /\ ~OffLine(session[s])
    /\ session[s].at = "ready" => session[s].from = 0

\* A download has the slot of the session that started it, and no other has the
\* like; that session's slots are the download's, unless something came between.
CacheSlots ==
  /\ raced \subseteq {"eviction"} => \A s \in Sessions, k \in Keys : Holds(k, CacheOwner(s)) =>
        \E e \in Entries : Running(e) /\ download[e].owner = CacheOwner(s) /\ download[e].key = k
  /\ \A e \in Entries : Running(e) => \E s \in Sessions :
        /\ download[e].owner = CacheOwner(s) /\ ~NotYet(session[s])
        /\ Holds(download[e].key, CacheOwner(s))
  /\ \A e, f \in Entries : Running(e) /\ Running(f) /\ download[e].owner = download[f].owner => e = f

\* The provider asked is the one whose slot it is, which is the entry's, unless a
\* client of another account came.
SourceHolds ==
  "account" \notin raced => \A e \in Entries : Running(e) =>
      download[e].key = entry[e].source /\ download[e].from \in {NoAccount, download[e].key}

\* An entry that a client came to has the source of an account.
AsksAccounts == \A s \in Sessions :
  /\ session[s].entry \in Entries => entry[session[s].entry].source \in Accounts
  /\ session[s].at = "probe" => session[s].asks \in Accounts

LedgerInv == VodTypeOK /\ HasEntry /\ DirectSlots /\ CacheSlots /\ SourceHolds /\ AsksAccounts

LEMMA OwnersDiffer ==
  ASSUME NEW s \in Sessions, NEW t \in Sessions
  PROVE  /\ DirectOwner(s) \in Owners /\ CacheOwner(s) \in Owners /\ DirectOwner(s) # CacheOwner(t)
         /\ DirectOwner(s) = DirectOwner(t) => s = t
         /\ CacheOwner(s) = CacheOwner(t) => s = t
  <1>1. <<s, "direct">> \in Owners /\ <<s, "cache">> \in Owners
    BY VodAssumption
  <1> QED  BY <1>1 DEF DirectOwner, CacheOwner

LEMMA SlotTaken ==
  ASSUME CapacityTypeOK, NEW k \in Keys, NEW o \in Owners, Hold(k, o)
  PROVE  /\ allocations' \in [Keys -> [Owners -> SUBSET Slots]]
         /\ \A j \in Keys, p \in Owners : Holds(j, p)' <=> Holds(j, p) \/ (j = k /\ p = o)
  BY VodAssumption DEF CapacityTypeOK, Hold, Reserved, Holds

LEMMA SlotHandedIn ==
  ASSUME CapacityTypeOK, NEW k \in Keys, NEW o \in Owners, HandIn(k, o)
  PROVE  /\ allocations' \in [Keys -> [Owners -> SUBSET Slots]]
         /\ \A j \in Keys, p \in Owners : Holds(j, p)' <=> Holds(j, p) /\ ~(j = k /\ p = o)
  BY VodAssumption DEF CapacityTypeOK, HandIn, Released, Holds

LEMMA KeysOfSources ==
  Sources \subseteq Keys /\ \A s \in Sessions : AccountOf[s] \in Keys /\ AccountOf[s] \in Accounts
  BY VodAssumption DEF Sources

\* A step of a session that takes what it needs, or hands it in and is gone.
LEMMA SessionLedger ==
  ASSUME LedgerInv, NEW s \in Sessions, NEW new \in SessionRecords, NEW e \in Entries, NEW key \in Sources,
         raced \subseteq raced', new.at = "ready" => new.from = 0,
         new.at \notin {"idle", "gone", "cancelled"} => new.entry \in Entries,
         \/ /\ Stays(s, new)
            /\ (OnLine(new) => OnLine(session[s])) /\ (OffLine(new) => OffLine(session[s]))
            /\ (NotYet(new) => NotYet(session[s]))
         \/ Opens(s, new) /\ new.at = "get" /\ (NotYet(new) => NotYet(session[s]))
         \/ /\ Begins(s, new, e, key) /\ NotYet(session[s]) /\ ~NotYet(new)
            /\ (OnLine(new) => OnLine(session[s])) /\ (OffLine(new) => OffLine(session[s]))
         \/ /\ session' = [session EXCEPT ![s] = new] /\ UNCHANGED download
            /\ HandIn(AccountOf[s], DirectOwner(s)) /\ new.at = "gone" /\ ~OnLine(new)
            /\ session[s].at = "closing"
  PROVE  /\ allocations' \in [Keys -> [Owners -> SUBSET Slots]]
         /\ session' \in [Sessions -> SessionRecords] /\ download' \in [Entries -> DownloadRecords]
         /\ HasEntry' /\ DirectSlots' /\ CacheSlots'
  <1>0. /\ raced' \subseteq {"eviction"} => raced \subseteq {"eviction"}
        /\ \A e1 \in Entries : Running(e1) => download[e1].key \in Keys
    BY KeysOfSources DEF LedgerInv, VodTypeOK, DownloadRecords
  <1>1. /\ session' = [session EXCEPT ![s] = new] /\ session \in [Sessions -> SessionRecords]
        /\ download \in [Entries -> DownloadRecords] /\ CapacityTypeOK
    BY DEF LedgerInv, VodTypeOK, Stays, Opens, Begins
  <1>2. /\ session' \in [Sessions -> SessionRecords] /\ session'[s] = new
        /\ \A t \in Sessions \ {s} : session'[t] = session[t]
    BY <1>1
  <1>3. HasEntry'
    BY <1>2 DEF LedgerInv, HasEntry
  <1>4. \A t \in Sessions \ {s} :
          /\ OnLine(session'[t]) = OnLine(session[t]) /\ OffLine(session'[t]) = OffLine(session[t])
          /\ NotYet(session'[t]) = NotYet(session[t])
    BY <1>2
  <1>5. CASE /\ Stays(s, new)
             /\ (OnLine(new) => OnLine(session[s])) /\ (OffLine(new) => OffLine(session[s]))
             /\ (NotYet(new) => NotYet(session[s]))
    <2>1. UNCHANGED <<allocations, download>>
      BY <1>5 DEF Stays
    <2>2. DirectSlots'
      BY <1>2, <1>4, <1>5, <2>1 DEF LedgerInv, DirectSlots, Holds
    <2>3. CacheSlots'
      BY <1>0, <1>2, <1>4, <1>5, <2>1 DEF LedgerInv, CacheSlots, Holds, Running
    <2> QED  BY <1>1, <1>2, <1>3, <2>1, <2>2, <2>3 DEF CapacityTypeOK
  <1>6. CASE Opens(s, new) /\ new.at = "get" /\ (NotYet(new) => NotYet(session[s]))
    <2>1. /\ allocations' \in [Keys -> [Owners -> SUBSET Slots]] /\ UNCHANGED download
          /\ \A k \in Keys, p \in Owners : Holds(k, p)' <=> Holds(k, p) \/ (k = AccountOf[s] /\ p = DirectOwner(s))
      BY <1>1, <1>6, OwnersDiffer, KeysOfSources, SlotTaken DEF Opens
    <2>2. \A t \in Sessions, k \in Keys :
             /\ Holds(k, DirectOwner(t))' <=> Holds(k, DirectOwner(t)) \/ (k = AccountOf[s] /\ t = s)
             /\ Holds(k, CacheOwner(t))' <=> Holds(k, CacheOwner(t))
      BY <2>1, OwnersDiffer
    <2>3. ~OffLine(new)
      BY <1>6 DEF OffLine
    <2>4. DirectSlots'
      BY <1>2, <1>4, <2>2, <2>3, KeysOfSources DEF LedgerInv, DirectSlots
    <2>5. CacheSlots'
      BY <1>0, <1>2, <1>4, <1>6, <2>1, <2>2 DEF LedgerInv, CacheSlots, Running
    <2> QED  BY <1>1, <1>2, <1>3, <2>1, <2>4, <2>5
  <1>7. CASE /\ Begins(s, new, e, key) /\ NotYet(session[s]) /\ ~NotYet(new)
             /\ (OnLine(new) => OnLine(session[s])) /\ (OffLine(new) => OffLine(session[s]))
    <2>1. /\ allocations' \in [Keys -> [Owners -> SUBSET Slots]] /\ ~Running(e)
          /\ \A k \in Keys, p \in Owners : Holds(k, p)' <=> Holds(k, p) \/ (k = key /\ p = CacheOwner(s))
      BY <1>1, <1>7, OwnersDiffer, KeysOfSources, SlotTaken DEF Begins
    <2>2. \A t \in Sessions, k \in Keys :
             /\ Holds(k, DirectOwner(t))' <=> Holds(k, DirectOwner(t))
             /\ Holds(k, CacheOwner(t))' <=> Holds(k, CacheOwner(t)) \/ (k = key /\ t = s)
      BY <2>1, OwnersDiffer
    <2>3. DirectSlots'
      BY <1>2, <1>4, <1>7, <2>2, KeysOfSources DEF LedgerInv, DirectSlots
    <2> DEFINE d == [NoDownload EXCEPT !.at = "mkdir", !.key = key, !.owner = CacheOwner(s)]
    <2>4. d \in DownloadRecords /\ d.at = "mkdir" /\ d.key = key /\ d.owner = CacheOwner(s)
      <3>1. CacheOwner(s) \in Owners
        BY OwnersDiffer
      <3> QED  BY <3>1, FreshType DEF DownloadRecords
    <2>5. download' = [download EXCEPT ![e] = d]
      BY <1>7 DEF Begins
    <2> HIDE DEF d
    <2>6. /\ download' \in [Entries -> DownloadRecords] /\ Running(e)'
          /\ download'[e].owner = CacheOwner(s) /\ download'[e].key = key
          /\ \A f \in Entries \ {e} : (Running(f)' <=> Running(f)) /\ download'[f] = download[f]
      BY <1>1, <2>4, <2>5 DEF Running
    <2>7. \A f \in Entries : Running(f) => download[f].owner # CacheOwner(s)
      BY <1>7, OwnersDiffer DEF LedgerInv, CacheSlots
    <2>8. CacheSlots'
      <3>1. ASSUME raced \subseteq {"eviction"}, NEW t \in Sessions, NEW k \in Keys, Holds(k, CacheOwner(t))'
            PROVE  \E f \in Entries : /\ Running(f)' /\ download'[f].owner = CacheOwner(t)
                                      /\ download'[f].key = k
        <4>1. CASE Holds(k, CacheOwner(t))
          BY <2>1, <2>6, <3>1, <4>1 DEF LedgerInv, CacheSlots
        <4>2. CASE k = key /\ t = s
          BY <2>6, <4>2
        <4> QED  BY <2>2, <3>1, <4>1, <4>2
      <3>2. \A f \in Entries : Running(f)' => \E t \in Sessions :
              /\ download'[f].owner = CacheOwner(t) /\ ~NotYet(session'[t])
              /\ Slot \in allocations'[download'[f].key][CacheOwner(t)]
        <4>1. /\ \A t \in Sessions, k \in Keys :
                    Holds(k, CacheOwner(t)) => Slot \in allocations'[k][CacheOwner(t)]
              /\ Slot \in allocations'[key][CacheOwner(s)]
          BY <2>2, KeysOfSources DEF Holds, CacheOwner
        <4>2. ASSUME NEW f \in Entries \ {e}, Running(f)
              PROVE  \E t \in Sessions : /\ download'[f].owner = CacheOwner(t) /\ ~NotYet(session'[t])
                                         /\ Slot \in allocations'[download'[f].key][CacheOwner(t)]
          <5>1. PICK t \in Sessions : /\ download[f].owner = CacheOwner(t) /\ ~NotYet(session[t])
                                      /\ Holds(download[f].key, CacheOwner(t))
            BY <4>2 DEF LedgerInv, CacheSlots
          <5>2. t # s /\ download[f].key \in Keys
            BY <1>0, <1>7, <4>2, <5>1
          <5>3. Slot \in allocations'[download[f].key][CacheOwner(t)]
            BY <4>1, <5>1, <5>2
          <5> QED  BY <1>4, <2>6, <5>1, <5>2, <5>3
        <4> QED  BY <1>2, <1>7, <2>6, <4>1, <4>2
      <3>3. \A f, g \in Entries : Running(f)' /\ Running(g)' /\ download'[f].owner = download'[g].owner => f = g
        BY <2>6, <2>7 DEF LedgerInv, CacheSlots
      <3> QED  BY <1>0, <3>1, <3>2, <3>3 DEF CacheSlots, Holds
    <2> QED  BY <1>2, <1>3, <2>1, <2>3, <2>6, <2>8
  <1>8. CASE /\ session' = [session EXCEPT ![s] = new] /\ UNCHANGED download
             /\ HandIn(AccountOf[s], DirectOwner(s)) /\ new.at = "gone" /\ ~OnLine(new)
             /\ session[s].at = "closing"
    <2>1. /\ allocations' \in [Keys -> [Owners -> SUBSET Slots]]
          /\ \A k \in Keys, p \in Owners :
                Holds(k, p)' <=> Holds(k, p) /\ ~(k = AccountOf[s] /\ p = DirectOwner(s))
      BY <1>1, <1>8, OwnersDiffer, KeysOfSources, SlotHandedIn
    <2>2. \A t \in Sessions, k \in Keys :
             /\ Holds(k, DirectOwner(t))' <=> Holds(k, DirectOwner(t)) /\ ~(k = AccountOf[s] /\ t = s)
             /\ Holds(k, CacheOwner(t))' <=> Holds(k, CacheOwner(t))
      BY <2>1, OwnersDiffer
    <2>3. DirectSlots'
      BY <1>2, <1>4, <1>8, <2>2, KeysOfSources DEF LedgerInv, DirectSlots
    <2>4. ~NotYet(new)
      BY <1>8 DEF NotYet
    <2>5. CacheSlots'
      BY <1>0, <1>2, <1>4, <1>8, <2>2, <2>4 DEF LedgerInv, CacheSlots, Running
    <2> QED  BY <1>1, <1>2, <1>3, <1>8, <2>1, <2>3, <2>5
  <1> QED  BY <1>5, <1>6, <1>7, <1>8

\* A download begins with the slot of its entry's source.
LEMMA BegunSource ==
  ASSUME SourceHolds, raced \subseteq raced', NEW s, NEW new, NEW e \in Entries, NEW k, Begins(s, new, e, k),
         download \in [Entries -> DownloadRecords], entry'[e].source = k,
         \A f \in Entries \ {e} : entry'[f] = entry[f]
  PROVE  SourceHolds'
  <1>1. /\ download'[e].key = k /\ download'[e].from = NoAccount
        /\ \A f \in Entries \ {e} : download'[f] = download[f]
    BY DEF Begins, NoDownload
  <1> QED  BY <1>1 DEF SourceHolds, Running

\* Of an answer, the ledger needs this much.
LEMMA AnswerLedger ==
  ASSUME LedgerInv, NEW s \in Sessions, NEW e \in Entries, NEW en \in EntryRecords,
         NEW ses \in SessionRecords, NEW new, NEW ne, Answered(s, ses, e, en, new, ne),
         session[s].at \in {"idle", "lock", "probe", "ready"}, ses.entry = e,
         session[s].at = "ready" =>
            ses.from = 0 /\ UNCHANGED download /\ new.at \in {"get", "started", "gone"},
         UNCHANGED externalCounts, raced \subseteq raced', en.source \in Accounts,
         "account" \notin raced' /\ Running(e) => en.source = entry[e].source
  PROVE  /\ allocations' \in [Keys -> [Owners -> SUBSET Slots]]
         /\ session' \in [Sessions -> SessionRecords] /\ download' \in [Entries -> DownloadRecords]
         /\ HasEntry' /\ DirectSlots' /\ CacheSlots' /\ SourceHolds' /\ AsksAccounts'
         /\ entry' \in [Entries -> EntryRecords] /\ (GrantsOne \/ OnlyHandsBack)
  <1> DEFINE old == session[s]
  <1>1. /\ new \in SessionRecords /\ ~new.upstream /\ (new.at = "ready" => new.from = 0)
        /\ (new.at # "gone" => new.entry = e /\ new.from = ses.from)
    BY DEF Answered
  <1>2. entry' \in [Entries -> EntryRecords]
    BY DEF Answered, Learns, LedgerInv, VodTypeOK
  <1>7. /\ entry'[e] = ne /\ ne.source = en.source /\ ne.source \in Sources
        /\ \A f \in Entries \ {e} : entry'[f] = entry[f]
    BY VodAssumption DEF Answered, Learns, LedgerInv, VodTypeOK, Sources
  <1>8. AsksAccounts'
    <2>1. session' = [session EXCEPT ![s] = new]
      BY DEF Answered, Stays, Opens, Begins
    <2>2. session'[s] = new /\ \A t \in Sessions \ {s} : session'[t] = session[t]
      BY <2>1 DEF LedgerInv, VodTypeOK
    <2>3. \A t \in Sessions : session'[t].entry \in Entries => entry'[session'[t].entry].source \in Accounts
      BY <1>7, <2>2, VodAssumption DEF Answered, LedgerInv, AsksAccounts
    <2>4. \A t \in Sessions : session'[t].at = "probe" => session'[t].asks \in Accounts
      BY <2>2 DEF Answered, LedgerInv, AsksAccounts
    <2> QED  BY <2>3, <2>4 DEF AsksAccounts
  <1>9. UNCHANGED download => SourceHolds'
    BY <1>7 DEF LedgerInv, SourceHolds, Running
  <1>3. OffLine(old) /\ (old.at # "ready" => NotYet(old))
    BY DEF OffLine, NotYet
  <1>4. CASE Stays(s, new) /\ new.at \in {"lock", "probe", "started", "ready", "gone"}
    <2>1. /\ OnLine(new) => OnLine(old)
          /\ OffLine(new) => OffLine(old)
          /\ NotYet(new) => NotYet(old)
      BY <1>1, <1>3, <1>4 DEF OnLine, NotYet
    <2>2. OnlyHandsBack
      BY <1>4 DEF Stays, OnlyHandsBack, Held
    <2>3. SourceHolds'
      BY <1>4, <1>9 DEF Stays
    <2> QED  BY <1>1, <1>2, <1>4, <1>7, <1>8, <2>1, <2>2, <2>3, SessionLedger
  <1>5. CASE Opens(s, new) /\ new.at = "get"
    <2>1. NotYet(new) => NotYet(old)
      BY <1>1, <1>3, <1>5 DEF NotYet
    <2>2. GrantsOne
      BY <1>5, OwnersDiffer, KeysOfSources, VodAssumption DEF Opens, CanHold, Hold, GrantsOne, TryReserve
    <2>3. SourceHolds'
      BY <1>5, <1>9 DEF Opens
    <2> QED  BY <1>1, <1>2, <1>5, <1>7, <1>8, <2>1, <2>2, <2>3, SessionLedger
  <1>6. CASE Begins(s, new, e, ne.source) /\ new.at \in {"ready", "gone"}
    <2>1. old.at # "ready"
      <3>1. CASE UNCHANGED download
        <4>1. download'[e].at = "mkdir"
          BY <1>6 DEF Begins, NoDownload, LedgerInv, VodTypeOK, DownloadRecords
        <4> QED  BY <1>6, <3>1, <4>1 DEF Begins, Running
      <3> QED  BY <3>1
    <2>2. /\ OnLine(new) => OnLine(old)
          /\ OffLine(new) => OffLine(old)
          /\ NotYet(old) /\ ~NotYet(new)
      BY <1>1, <1>3, <1>6, <2>1 DEF OnLine, NotYet
    <2>3. GrantsOne
      BY <1>6, <1>7, OwnersDiffer, KeysOfSources, VodAssumption DEF Begins, CanHold, Hold, GrantsOne, TryReserve
    <2>4. SourceHolds'
      BY <1>6, <1>7, BegunSource DEF LedgerInv, VodTypeOK
    <2> QED  BY <1>1, <1>2, <1>6, <1>7, <1>8, <2>2, <2>3, <2>4, SessionLedger
  <1> QED  BY <1>4, <1>5, <1>6 DEF Answered

\* The upstream answers, and the client that jumped may start the download.
LEMMA GetAnswersGoes ==
  ASSUME LedgerInv, NEW s \in Sessions, GetAnswers(s)
  PROVE  \E new \in SessionRecords, e \in Entries, ne \in EntryRecords :
           /\ session[s].at = "get" /\ e = session[s].entry /\ entry' = [entry EXCEPT ![e] = ne]
           /\ new.at = "started" /\ new.entry = session[s].entry /\ new.upstream
           /\ Learns(entry[e], ne)
           /\ \/ Stays(s, new) /\ Reminds(entry[e], ne)
              \/ Begins(s, new, e, ne.source) /\ session[s].from # 0 /\ Renews(ne)
           /\ UNCHANGED <<current, cleaner, files, restarts, raced, externalCounts>>
  <1> DEFINE old == session[s]
             e == session[s].entry
             new == [old EXCEPT !.at = "started", !.upstream = TRUE]
             asks == old.from # 0 /\ old.cacheable /\ ~entry[e].complete /\ ~Running(e)
  <1>1. /\ old.at = "get" /\ session' = [session EXCEPT ![s] = new]
        /\ UNCHANGED <<current, cleaner, files, restarts, raced, externalCounts>>
    BY DEF GetAnswers
  <1>2. e \in Entries /\ entry[e] \in EntryRecords /\ old \in SessionRecords
    BY <1>1 DEF LedgerInv, HasEntry, VodTypeOK
  <1>3. new \in SessionRecords /\ new.at = "started" /\ new.entry = old.entry /\ new.upstream
    BY <1>2 DEF SessionRecords
  <1> HIDE DEF new
  <1>4. CASE asks /\ MayBegin(e, s, entry[e])
    <2>1. BeginDownload(e, s, entry[e])
      BY <1>4 DEF GetAnswers
    <2>2. PICK ne \in EntryRecords : /\ entry' = [entry EXCEPT ![e] = ne] /\ Begins(s, new, e, ne.source)
                                     /\ Learns(entry[e], ne) /\ Renews(ne)
      BY <1>1, <1>2, <1>4, <2>1, BeginDownloadAnswers
    <2> QED  BY <1>1, <1>2, <1>3, <1>4, <2>2
  <1>5. CASE asks /\ ~MayBegin(e, s, entry[e])
    <2>1. UNCHANGED <<download, allocations>> /\ entry' = [entry EXCEPT ![e] = Blocked(entry[e])]
      BY <1>5 DEF GetAnswers
    <2> QED  BY <1>1, <1>2, <1>3, <2>1, BlockedType DEF Stays
  <1>6. CASE ~asks
    <2>1. UNCHANGED <<entry, download, allocations>>
      BY <1>6 DEF GetAnswers
    <2>2. entry' = [entry EXCEPT ![e] = entry[e]]
      BY <1>2, <2>1 DEF LedgerInv, VodTypeOK
    <2>3. Learns(entry[e], entry[e]) /\ Reminds(entry[e], entry[e])
      BY <1>2 DEF Learns, Reminds
    <2> QED  BY <1>1, <1>2, <1>3, <2>1, <2>2, <2>3 DEF Stays
  <1> QED  BY <1>4, <1>5, <1>6

\* The sources are as they were when a session only goes on.
LEMMA SessionSources ==
  ASSUME VodTypeOK, SourceHolds, AsksAccounts, raced' = raced, NEW s \in Sessions, NEW new,
         session' = [session EXCEPT ![s] = new], new.at # "probe", new.entry \in {session[s].entry, NoEntry},
         UNCHANGED download, \A e \in Entries : entry'[e].source = entry[e].source
  PROVE  SourceHolds' /\ AsksAccounts'
  <1>1. SourceHolds'
    BY DEF SourceHolds, Running
  <1>2. session'[s] = new /\ \A t \in Sessions \ {s} : session'[t] = session[t]
    BY DEF VodTypeOK
  <1>3. AsksAccounts'
    BY <1>2, VodAssumption DEF AsksAccounts
  <1> QED  BY <1>1, <1>3

\* Every step of a session keeps the ledger, and the registry's promise.
LEMMA SessionStepKeeps ==
  ASSUME LedgerInv, NEW s \in Sessions, SessionStep(s)
  PROVE  LedgerInv' /\ (GrantsOne \/ OnlyHandsBack)
  <1> DEFINE old == session[s]
             Kept == /\ allocations' \in [Keys -> [Owners -> SUBSET Slots]]
                     /\ session' \in [Sessions -> SessionRecords] /\ download' \in [Entries -> DownloadRecords]
                     /\ HasEntry' /\ DirectSlots' /\ CacheSlots' /\ SourceHolds' /\ AsksAccounts'
                     /\ entry' \in [Entries -> EntryRecords] /\ (GrantsOne \/ OnlyHandsBack)
  <1>1. /\ VodTypeOK /\ HasEntry /\ CapacityTypeOK /\ old \in SessionRecords
        /\ (OnLine(old) => ~OffLine(old)) /\ (old.at = "ready" => old.from = 0)
        /\ SourceHolds /\ AsksAccounts
    BY KeysOfSources DEF LedgerInv, VodTypeOK, DirectSlots
  <1>2. CASE OwnStep(s)
    <2>1. PICK new \in SessionRecords :
           /\ session' = [session EXCEPT ![s] = new] /\ Elsewhere
           /\ old.at \notin {"idle", "gone", "cancelled"} /\ new.entry \in {old.entry, NoEntry}
           /\ (new.at \notin {"gone", "cancelled"} => new.entry = old.entry)
           /\ (OnLine(new) => OnLine(old)) /\ (OffLine(new) => OffLine(old))
           /\ ~NotYet(new) /\ new.at # "ready"
      BY <1>1, <1>2, OwnStepGoes
    <2>2. old.entry \in Entries /\ Stays(s, new) /\ UNCHANGED <<entry, download, allocations, raced>>
      BY <1>1, <2>1 DEF HasEntry, Stays, Elsewhere
    <2>3. /\ allocations' \in [Keys -> [Owners -> SUBSET Slots]]
          /\ session' \in [Sessions -> SessionRecords] /\ download' \in [Entries -> DownloadRecords]
          /\ HasEntry' /\ DirectSlots' /\ CacheSlots'
      BY <2>1, <2>2, KeysOfSources, SessionLedger DEF Sources
    <2>6. SourceHolds' /\ AsksAccounts'
      <3>1. new.at # "probe" /\ raced' = raced
        BY <2>1, <2>2 DEF NotYet
      <3> QED  BY <1>1, <2>1, <2>2, <3>1, SessionSources
    <2>4. entry' \in [Entries -> EntryRecords] /\ OnlyHandsBack
      BY <1>1, <2>2 DEF VodTypeOK, OnlyHandsBack, Held
    <2>5. VodTypeOK'
      BY <1>1, <2>1, <2>3, <2>4 DEF Elsewhere, files, VodTypeOK, CapacityTypeOK
    <2> QED  BY <2>3, <2>4, <2>5, <2>6 DEF LedgerInv
  <1>3. CASE Enter(s)
    <2>1. PICK e \in Entries, en \in EntryRecords, ses \in SessionRecords : \E new, ne :
           /\ old.at = "idle" /\ current' = e /\ ses.entry = e /\ en = Met(e, s)
           /\ (current # NoEntry => e = current) /\ (current = NoEntry => ~InUse(e))
           /\ Answered(s, ses, e, en, new, ne)
           /\ raced' = raced \union {x \in {"eviction"} : cleaner.entry = e}
                            \union {x \in {"account"} : Crosses(s)}
           /\ UNCHANGED <<cleaner, files, restarts, externalCounts>>
      BY <1>1, <1>3, EnterAnswers
    <2>4. en.source = AccountOf[s]
      BY <1>1, <2>1, FreshType DEF Met, VodTypeOK, EntryRecords
    <2>5. "account" \notin raced' /\ Running(e) => en.source = entry[e].source
      BY <2>1, <2>4 DEF Crosses, InUse
    <2>6. raced \subseteq raced'
      BY <2>1
    <2>2. Kept
      BY <2>1, <2>4, <2>5, <2>6, KeysOfSources, AnswerLedger
    <2>3. VodTypeOK'
      BY <1>1, <2>1, <2>2 DEF files, VodTypeOK, CapacityTypeOK
    <2> QED  BY <2>2, <2>3 DEF LedgerInv
  <1>4. CASE TakeProbeLock(s) \/ ProbeAnswers(s) \/ TailOrFallBack(s)
    <2>1. ~old.upstream /\ (old.at = "probe" => old.asks \in Accounts)
      BY <1>1, <1>4 DEF TakeProbeLock, ProbeAnswers, TailOrFallBack, OnLine, OffLine, AsksAccounts
    <2>2. PICK en \in EntryRecords, ses \in SessionRecords : \E new, ne :
           /\ old.at \in {"lock", "probe", "ready"} /\ old.entry \in Entries
           /\ en = [entry[old.entry] EXCEPT !.want = en.want, !.reason = en.reason]
           /\ ses = [old EXCEPT !.cacheable = ses.cacheable, !.asks = ses.asks]
           /\ Answered(s, ses, old.entry, en, new, ne)
           /\ old.at = "ready" => UNCHANGED download /\ new.at \in {"get", "started", "gone"}
           /\ UNCHANGED <<current, cleaner, files, restarts, raced, externalCounts>>
      BY <1>1, <1>4, <2>1, AskingAnswers
    <2>3. ses.entry = old.entry /\ ses.from = old.from
      BY <1>1, <2>2 DEF SessionRecords
    <2>6. en.source = entry[old.entry].source
      <3> DEFINE en0 == entry[old.entry]
      <3>1. en = [en0 EXCEPT !.want = en.want, !.reason = en.reason] /\ en0 \in EntryRecords
        BY <1>1, <2>2 DEF VodTypeOK
      <3> HIDE DEF en0
      <3>2. en.source = en0.source
        BY <3>1 DEF EntryRecords
      <3> QED  BY <3>2 DEF en0
    <2>7. entry[old.entry].source \in Accounts
      BY <1>1, <2>2 DEF AsksAccounts
    <2>4. Kept
      BY <1>1, <2>2, <2>3, <2>6, <2>7, AnswerLedger
    <2>5. VodTypeOK'
      BY <1>1, <2>2, <2>4 DEF files, VodTypeOK, CapacityTypeOK
    <2> QED  BY <2>4, <2>5 DEF LedgerInv
  <1>5. CASE GetAnswers(s)
    <2>1. PICK new \in SessionRecords, e \in Entries, ne \in EntryRecords :
           /\ old.at = "get" /\ e = old.entry /\ entry' = [entry EXCEPT ![e] = ne]
           /\ new.at = "started" /\ new.entry = old.entry /\ Learns(entry[e], ne)
           /\ Stays(s, new) \/ (Begins(s, new, e, ne.source) /\ old.from # 0)
           /\ UNCHANGED <<current, cleaner, files, restarts, raced, externalCounts>>
      BY <1>5, GetAnswersGoes
    <2>2. OnLine(old) /\ ~OffLine(new) /\ ~NotYet(new) /\ (old.from # 0 => NotYet(old))
      BY <2>1 DEF OnLine, OffLine, NotYet
    <2>3. /\ allocations' \in [Keys -> [Owners -> SUBSET Slots]]
          /\ session' \in [Sessions -> SessionRecords] /\ download' \in [Entries -> DownloadRecords]
          /\ HasEntry' /\ DirectSlots' /\ CacheSlots'
      BY <1>1, <2>1, <2>2, SessionLedger DEF EntryRecords, HasEntry
    <2>4. entry' \in [Entries -> EntryRecords] /\ entry'[e] = ne /\ ne.source = entry[e].source
          /\ \A f \in Entries \ {e} : entry'[f] = entry[f]
      BY <1>1, <2>1 DEF VodTypeOK, Learns
    <2>7. SourceHolds' /\ AsksAccounts'
      <3>1. \A f \in Entries : entry'[f].source = entry[f].source
        BY <2>4
      <3>2. CASE Stays(s, new)
        BY <1>1, <2>1, <3>1, <3>2, SessionSources DEF Stays
      <3>3. CASE Begins(s, new, e, ne.source)
        <4>1. SourceHolds'
          BY <1>1, <2>1, <2>4, <3>3, BegunSource DEF VodTypeOK
        <4>2. AsksAccounts'
          <5>1. session'[s] = new /\ \A t \in Sessions \ {s} : session'[t] = session[t]
            BY <1>1, <3>3 DEF Begins, VodTypeOK
          <5> QED  BY <1>1, <2>1, <3>1, <5>1 DEF AsksAccounts
        <4> QED  BY <4>1, <4>2
      <3> QED  BY <2>1, <3>2, <3>3
    <2>5. GrantsOne \/ OnlyHandsBack
      <3>1. CASE Stays(s, new)
        BY <3>1 DEF Stays, OnlyHandsBack, Held
      <3>2. CASE Begins(s, new, e, ne.source)
        BY <2>1, <3>2, OwnersDiffer, KeysOfSources, VodAssumption DEF Begins, CanHold, Hold, GrantsOne, TryReserve,
           EntryRecords
      <3> QED  BY <2>1, <3>1, <3>2
    <2>6. VodTypeOK'
      BY <1>1, <2>1, <2>3, <2>4 DEF files, VodTypeOK, CapacityTypeOK
    <2> QED  BY <2>3, <2>5, <2>6, <2>7 DEF LedgerInv
  <1>6. CASE Stop(s)
    <2> DEFINE new == Gone([old EXCEPT !.attached = FALSE])
    <2>1. /\ new \in SessionRecords /\ new.at = "gone" /\ ~new.upstream
          /\ new.entry \in {old.entry, NoEntry}
      <3>1. [old EXCEPT !.attached = FALSE] \in SessionRecords /\ [old EXCEPT !.attached = FALSE].entry = old.entry
        BY <1>1 DEF SessionRecords
      <3> QED  BY <3>1, GoneType
    <2>2. /\ session' = [session EXCEPT ![s] = new] /\ HandIn(AccountOf[s], DirectOwner(s)) /\ old.at = "closing"
          /\ UNCHANGED <<current, entry, download, cleaner, files, restarts, raced, externalCounts>>
      BY <1>6 DEF Stop, Move
    <2> HIDE DEF new
    <2>3. ~OnLine(new) /\ old.entry \in Entries
      BY <1>1, <2>1, <2>2 DEF OnLine, HasEntry
    <2>4. /\ allocations' \in [Keys -> [Owners -> SUBSET Slots]]
          /\ session' \in [Sessions -> SessionRecords] /\ download' \in [Entries -> DownloadRecords]
          /\ HasEntry' /\ DirectSlots' /\ CacheSlots'
      BY <2>1, <2>2, <2>3, KeysOfSources, SessionLedger DEF Sources
    <2>7. SourceHolds' /\ AsksAccounts'
      BY <1>1, <2>1, <2>2, SessionSources
    <2>5. OnlyHandsBack
      BY <1>1, <2>2, OwnersDiffer, KeysOfSources, VodAssumption, ReleaseOnlyRemoves DEF HandIn, OnlyHandsBack
    <2>6. VodTypeOK'
      BY <1>1, <2>2, <2>4 DEF files, VodTypeOK, CapacityTypeOK
    <2> QED  BY <2>4, <2>5, <2>6, <2>7 DEF LedgerInv
  <1> QED  BY <1>2, <1>3, <1>4, <1>5, <1>6 DEF SessionStep, OwnStep
-----------------------------------------------------------------------------
(* The steps of a download.                                                   *)

FilesTypeOK ==
  {partFile, finalFile} \subseteq Files \union {NoFile} /\ disk \in [Files -> Seq(Sources \X Nat)]

\* It is over: its slot is handed in, and those that wait for it are woken; or it
\* fails at once, which tells nobody.
Ends(e) ==
  /\ download' = [download EXCEPT ![e] = NoDownload] /\ HandIn(entry[e].source, download[e].owner)
  /\ Wake(e) /\ raced' = raced
Vanishes(e) ==
  /\ download[e].at = "mkdir" /\ download' = [download EXCEPT ![e] = NoDownload]
  /\ raced' = raced \union {"directory"} /\ UNCHANGED <<entry, session, allocations, files>>
GoesOn(e, d) ==
  /\ d \in DownloadRecords /\ d.at # "none" /\ d.owner = download[e].owner
  /\ d.key = download[e].key /\ d.from \in {download[e].from, entry[e].source} /\ raced' = raced
  /\ download' = [download EXCEPT ![e] = d] /\ UNCHANGED allocations
  /\ UNCHANGED session \/ Wake(e)

LEMMA FinishGoes ==
  ASSUME VodTypeOK, NEW e \in Entries, NEW en \in EntryRecords, Finish(e, en), raced' = raced
  PROVE  Ends(e) /\ \E ne \in EntryRecords : /\ entry' = [entry EXCEPT ![e] = ne] /\ ne.source = en.source
                                             /\ ne.want = en.want /\ ne.complete = en.complete
                                             /\ ne.written = en.written /\ ne.reason = en.reason
  <1> DEFINE ne == [en EXCEPT !.ready = TRUE, !.progress = TRUE]
  <1>1. /\ ne \in EntryRecords /\ ne.want = en.want /\ ne.complete = en.complete
        /\ ne.written = en.written /\ ne.reason = en.reason /\ ne.source = en.source
    BY DEF EntryRecords
  <1>2. Ends(e) /\ entry' = [entry EXCEPT ![e] = ne]
    BY DEF Finish, Ends
  <1> QED  BY <1>1, <1>2

LEMMA FinishFailedGoes ==
  ASSUME VodTypeOK, NEW e \in Entries, FinishFailed(e), raced' = raced
  PROVE  Ends(e) /\ \E ne \in EntryRecords : /\ entry' = [entry EXCEPT ![e] = ne]
                                             /\ ne.source = entry[e].source
                                             /\ ne.want = entry[e].want /\ ne.complete = entry[e].complete
                                             /\ ne.written = entry[e].written /\ ne.reason = "failed"
  <1>1. Blocked(entry[e]) \in EntryRecords /\ Finish(e, Blocked(entry[e]))
    BY BlockedType DEF VodTypeOK, FinishFailed
  <1>2. /\ Blocked(entry[e]).want = entry[e].want /\ Blocked(entry[e]).reason = "failed"
        /\ Blocked(entry[e]).complete = entry[e].complete /\ Blocked(entry[e]).written = entry[e].written
        /\ Blocked(entry[e]).source = entry[e].source
    BY BlockedType DEF VodTypeOK, Learns
  <1> HIDE DEF FinishFailed
  <1> QED  BY <1>1, <1>2, FinishGoes

\* What the step of a download is in these terms, and what it leaves in shape.
LEMMA DownloadStepGoes ==
  ASSUME VodTypeOK, NEW e \in Entries, DownloadStep(e)
  PROVE  /\ Running(e) /\ (Ends(e) \/ Vanishes(e) \/ \E d : GoesOn(e, d))
         /\ entry' \in [Entries -> EntryRecords] /\ FilesTypeOK'
         /\ \A f \in Entries : entry'[f].source = entry[f].source
         /\ UNCHANGED <<current, cleaner, restarts, externalCounts>>
  <1> DEFINE d0 == download[e]
             en0 == entry[e]
             Fit(en) == en \in EntryRecords /\ en.source = en0.source
             Shaped == /\ entry' \in [Entries -> EntryRecords]
                       /\ \A f \in Entries : entry'[f].source = entry[f].source
             Rest == /\ Shaped /\ FilesTypeOK'
                     /\ UNCHANGED <<current, cleaner, restarts, raced, externalCounts>>
  <1>1. /\ d0 \in DownloadRecords /\ en0 \in EntryRecords /\ entry \in [Entries -> EntryRecords]
        /\ partFile \in Files \union {NoFile} /\ finalFile \in Files \union {NoFile}
        /\ disk \in [Files -> Seq(Sources \X Nat)] /\ download \in [Entries -> DownloadRecords]
    BY DEF VodTypeOK
  <1>0. /\ Fit([en0 EXCEPT !.written = 0]) /\ Fit([en0 EXCEPT !.ready = TRUE])
        /\ Fit([Blocked(en0) EXCEPT !.ready = TRUE])
        /\ \A w \in Nat : Fit([en0 EXCEPT !.written = w])
    BY <1>1 DEF EntryRecords, Blocked
  <1>2. /\ \A en : Fit(en) /\ entry' = [entry EXCEPT ![e] = en] => Shaped
        /\ UNCHANGED entry => Shaped
    BY <1>1
  <1>3. UNCHANGED files => FilesTypeOK'
    BY <1>1 DEF files, FilesTypeOK
  <1>4. ASSUME FinishFailed(e), DownloadElsewhere PROVE Ends(e) /\ Shaped
    BY <1>1, <1>4, FinishFailedGoes DEF DownloadElsewhere
  <1>5. \A f \in Files \union {NoFile} : /\ Unlinked(f) \in [Files -> Seq(Sources \X Nat)]
                                       /\ [disk EXCEPT ![f] = <<>>] \in [Files -> Seq(Sources \X Nat)]
    <2>1. <<>> \in Seq(Sources \X Nat)
      OBVIOUS
    <2> QED  BY <1>1, <2>1 DEF Unlinked
  <1>6. ASSUME NEW at \in {"top", "refused", "unlink", "replaced"},
               Goes(e, at), UNCHANGED <<allocations, session>>, DownloadElsewhere
        PROVE  \E d : GoesOn(e, d)
    <2> DEFINE d == [d0 EXCEPT !.at = at]
    <2>1. d \in DownloadRecords /\ d.at # "none" /\ d.owner = d0.owner /\ d.key = d0.key /\ d.from = d0.from
      BY <1>1 DEF DownloadRecords
    <2>2. download' = [download EXCEPT ![e] = d]
      BY <1>6 DEF Goes
    <2> HIDE DEF d
    <2> QED  BY <1>6, <2>1, <2>2 DEF GoesOn, DownloadElsewhere
  <1>7. CASE Top(e)
    <2> DEFINE had == IF partFile = NoFile THEN 0 ELSE Len(disk[partFile])
               from == entry[e].source
               d == [d0 EXCEPT !.at = "request", !.next = had + 1, !.from = from]
               en == [en0 EXCEPT !.written = had]
    <2>1. had \in Nat /\ from \in Sources
      BY <1>1 DEF EntryRecords
    <2>3. /\ download' = [download EXCEPT ![e] = d] /\ entry' = [entry EXCEPT ![e] = en]
          /\ UNCHANGED <<session, allocations, files>> /\ DownloadElsewhere /\ d0.at \in {"mkdir", "top"}
      BY <1>7 DEF Top
    <2> HIDE DEF had, from
    <2>2. d \in DownloadRecords /\ d.at # "none" /\ d.owner = d0.owner /\ d.key = d0.key /\ d.from = from
      <3>1. had + 1 \in Nat \ {0}
        BY <2>1
      <3> HIDE DEF d0
      <3> QED  BY <1>1, <2>1, <3>1 DEF DownloadRecords
    <2>5. Fit(en)
      BY <1>0, <2>1
    <2> HIDE DEF d, en, Fit, Shaped
    <2>4. GoesOn(e, d)
      BY <2>2, <2>3 DEF GoesOn, DownloadElsewhere, from
    <2> QED  BY <1>2, <1>3, <2>3, <2>4, <2>5 DEF DownloadElsewhere, Running, Shaped
  <1>8. CASE Responds(e)
    <2> HIDE DEF Shaped, Fit
    <2>1. d0.at = "request" /\ DownloadElsewhere
      BY <1>8 DEF Responds
    <2>2. CASE FinishFailed(e) /\ UNCHANGED files
      BY <1>3, <1>4, <2>1, <2>2 DEF DownloadElsewhere, Running, Shaped
    <2>3. CASE ResumeIgnored(e)
      <3>1. Shaped
        BY <1>0, <1>2, <2>3 DEF ResumeIgnored
      <3>2. \E d : GoesOn(e, d)
        BY <1>6, <2>1, <2>3 DEF ResumeIgnored
      <3> QED  BY <1>3, <2>1, <2>3, <3>1, <3>2 DEF ResumeIgnored, DownloadElsewhere, Running, Shaped
    <2>5. CASE Refused(e)
      <3>1. Shaped
        BY <1>0, <1>2, <2>5 DEF Refused
      <3>2. \E d : GoesOn(e, d)
        BY <1>6, <2>1, <2>5 DEF Refused
      <3> QED  BY <1>3, <2>1, <2>5, <3>1, <3>2 DEF Refused, DownloadElsewhere, Running, Shaped
    <2>4. CASE OpenPart(e) /\ entry' = [entry EXCEPT ![e].ready = TRUE] /\ UNCHANGED <<session, allocations>>
      <3>1. PICK f \in Files :
              /\ partFile' = f
              /\ disk' \in {disk, [disk EXCEPT ![f] = <<>>]}
              /\ download' = [download EXCEPT ![e].at = "stream", ![e].file = f]
              /\ UNCHANGED finalFile
        BY <2>4 DEF OpenPart
      <3>2. FilesTypeOK'
        BY <1>1, <1>5, <3>1 DEF FilesTypeOK
      <3>5. Shaped
        BY <1>0, <1>2, <2>4
      <3> DEFINE d == [d0 EXCEPT !.at = "stream", !.file = f]
      <3>3. /\ d \in DownloadRecords /\ d.at # "none" /\ d.owner = d0.owner /\ d.key = d0.key
            /\ d.from = d0.from /\ download' = [download EXCEPT ![e] = d]
        BY <1>1, <3>1 DEF DownloadRecords
      <3> HIDE DEF d
      <3>4. GoesOn(e, d)
        BY <2>1, <2>4, <3>3 DEF GoesOn, DownloadElsewhere
      <3> QED  BY <2>1, <3>2, <3>4, <3>5 DEF DownloadElsewhere, Running, Shaped
    <2> QED  BY <1>8, <2>2, <2>3, <2>4, <2>5 DEF Responds
  <1>17. CASE EndsRefused(e)
    BY <1>3, <1>4, <1>17 DEF EndsRefused, Running, DownloadElsewhere
  <1>18. CASE NoDirectory(e)
    <2>1. Vanishes(e) /\ Running(e)
      BY <1>18 DEF NoDirectory, Vanishes, Running
    <2> QED  BY <1>1, <1>3, <1>18, <2>1 DEF NoDirectory
  <1>9. CASE PartUnlinked(e)
    <2>1. /\ d0.at = "unlink" /\ Goes(e, "top") /\ UNCHANGED <<session, allocations, finalFile>>
          /\ partFile' = NoFile /\ disk' = Unlinked(partFile) /\ DownloadElsewhere
          /\ entry' = [entry EXCEPT ![e].written = 0]
      BY <1>9 DEF PartUnlinked
    <2>2. FilesTypeOK' /\ Shaped
      BY <1>0, <1>1, <1>2, <1>5, <2>1 DEF FilesTypeOK
    <2>3. \E d : GoesOn(e, d)
      BY <1>6, <2>1
    <2> QED  BY <2>1, <2>2, <2>3 DEF DownloadElsewhere, Running
  <1>10. CASE Chunk(e)
    <2> DEFINE d == [d0 EXCEPT !.next = @ + 1]
               en == [en0 EXCEPT !.written = @ + 1, !.progress = FALSE]
    <2>1. /\ d0.at = "stream" /\ DownloadElsewhere
          /\ disk' = [disk EXCEPT ![d0.file] = Append(@, <<d0.from, d0.next>>)]
          /\ download' = [download EXCEPT ![e] = d] /\ entry' = [entry EXCEPT ![e] = en]
          /\ Wake(e) /\ UNCHANGED <<allocations, partFile, finalFile>>
      BY <1>1, <1>10 DEF Chunk
    <2>2. /\ d \in DownloadRecords /\ d.at # "none" /\ d.owner = d0.owner /\ d.key = d0.key
          /\ d.from = d0.from /\ en \in EntryRecords /\ en.source = en0.source
      <3> HIDE DEF d0, en0
      <3>0. d0.next + 1 \in Nat \ {0} /\ en0.written + 1 \in Nat
        <4>1. d0.next \in Nat /\ en0.written \in Nat
          BY <1>1 DEF DownloadRecords, EntryRecords
        <4> QED  BY <4>1
      <3> DEFINE n == d0.next + 1
                 w == en0.written + 1
      <3>1. [d0 EXCEPT !.next = n] \in DownloadRecords /\ [en0 EXCEPT !.written = w, !.progress = FALSE] \in EntryRecords
        <4> HIDE DEF n, w
        <4> QED  BY <1>1, <3>0 DEF DownloadRecords, EntryRecords, n, w
      <3>2. d.at # "none" /\ d.owner = d0.owner /\ d.key = d0.key /\ d.from = d0.from
        BY <1>1, <2>1 DEF DownloadRecords
      <3>3. en.source = en0.source
        BY <1>1 DEF EntryRecords
      <3> QED  BY <3>1, <3>2, <3>3
    <2>3. FilesTypeOK'
      <3> DEFINE chunk == <<d0.from, d0.next>>
      <3>1. chunk \in Sources \X Nat
        BY <1>1 DEF DownloadRecords
      <3> HIDE DEF chunk
      <3>2. \A f \in Files : Append(disk[f], chunk) \in Seq(Sources \X Nat)
        BY <1>1, <3>1
      <3> USE DEF chunk
      <3> QED  BY <1>1, <2>1, <3>2 DEF FilesTypeOK
    <2> HIDE DEF d, en
    <2>4. GoesOn(e, d)
      BY <2>1, <2>2 DEF GoesOn, DownloadElsewhere
    <2>5. Shaped
      BY <1>2, <2>1, <2>2
    <2> QED  BY <2>1, <2>3, <2>4, <2>5 DEF DownloadElsewhere, Running
  <1>11. ASSUME NEW d \in DownloadRecords, d.owner = d0.owner, d.key = d0.key, d.from = d0.from,
                NEW en, Fit(en), Judge(e, d, en), d0.at # "none", UNCHANGED files, DownloadElsewhere
         PROVE  Rest /\ (Ends(e) \/ \E c : GoesOn(e, c))
    <2>1. CASE FinishFailed(e)
      BY <1>3, <1>4, <1>11, <2>1 DEF DownloadElsewhere
    <2>2. CASE ~FinishFailed(e)
      <3>1. PICK at \in {"top", "replace"} :
              /\ download' = [download EXCEPT ![e] = [d EXCEPT !.at = at, !.file = NoFile]]
              /\ entry' = [entry EXCEPT ![e] = en] /\ UNCHANGED <<session, allocations>>
        BY <1>11, <2>2 DEF Judge
      <3> DEFINE c == [d EXCEPT !.at = at, !.file = NoFile]
      <3>2. c \in DownloadRecords /\ c.at # "none" /\ c.owner = d0.owner /\ c.key = d0.key /\ c.from = d0.from
        BY <1>11 DEF DownloadRecords
      <3> HIDE DEF c
      <3>3. GoesOn(e, c)
        BY <1>11, <3>1, <3>2 DEF GoesOn, c, DownloadElsewhere
      <3>4. Shaped
        BY <1>2, <1>11, <3>1
      <3> QED  BY <1>3, <1>11, <3>3, <3>4 DEF DownloadElsewhere
    <2> QED  BY <2>1, <2>2
  <1>12. CASE ResponseEnds(e)
    <2>1. d0.at = "stream" /\ Judge(e, d0, en0) /\ UNCHANGED files /\ DownloadElsewhere
      BY <1>12 DEF ResponseEnds
    <2> QED  BY <1>1, <1>11, <2>1 DEF Running
  <1>13. CASE Interrupted(e)
    <2> DEFINE d == [d0 EXCEPT !.tries = @ + 1]
               en == [en0 EXCEPT !.reason = "retry"]
    <2>1. /\ d0.at = "stream" /\ UNCHANGED files /\ DownloadElsewhere
          /\ FinishFailed(e) \/ Judge(e, d, en)
      BY <1>13 DEF Interrupted
    <2>2. d \in DownloadRecords /\ d.owner = d0.owner /\ d.key = d0.key /\ d.from = d0.from /\ Fit(en)
      <3> HIDE DEF d0, en0
      <3>0. d0.tries + 1 \in Nat
        BY <1>1 DEF DownloadRecords
      <3>1. d \in DownloadRecords /\ d.owner = d0.owner /\ d.key = d0.key /\ d.from = d0.from
        BY <1>1, <3>0 DEF DownloadRecords
      <3>2. Fit(en)
        BY <1>1 DEF EntryRecords
      <3> QED  BY <3>1, <3>2
    <2> HIDE DEF d, en
    <2> QED  BY <1>3, <1>4, <1>11, <2>1, <2>2 DEF Running, DownloadElsewhere
  <1>14. CASE DiskFails(e)
    BY <1>3, <1>4, <1>14 DEF DiskFails, Running, DownloadElsewhere
  <1>15. CASE Replaced(e)
    <2>1. d0.at = "replace" /\ DownloadElsewhere
      BY <1>15 DEF Replaced
    <2>2. CASE partFile = NoFile
      BY <1>3, <1>4, <1>15, <2>1, <2>2 DEF Replaced, Running, DownloadElsewhere
    <2>3. CASE partFile # NoFile
      <3>1. /\ finalFile' = partFile /\ partFile' = NoFile /\ disk' = Unlinked(finalFile)
            /\ Goes(e, "replaced") /\ UNCHANGED <<entry, session, allocations>>
        BY <1>15, <2>3 DEF Replaced
      <3>2. FilesTypeOK' /\ Shaped
        BY <1>1, <1>5, <3>1 DEF FilesTypeOK
      <3>3. \E d : GoesOn(e, d)
        BY <1>6, <2>1, <3>1
      <3> QED  BY <2>1, <3>2, <3>3 DEF DownloadElsewhere, Running
    <2> QED  BY <2>2, <2>3
  <1>16. CASE Completed(e)
    <2> DEFINE en == [en0 EXCEPT !.complete = TRUE, !.written = en0.want, !.reason = "none"]
    <2>1. d0.at = "replaced" /\ Finish(e, en) /\ UNCHANGED files /\ DownloadElsewhere
      BY <1>16 DEF Completed
    <2>2. en \in EntryRecords /\ en.source = en0.source
      BY <1>1 DEF EntryRecords
    <2> HIDE DEF en
    <2>3. Ends(e) /\ Shaped
      <3>1. PICK ne \in EntryRecords : entry' = [entry EXCEPT ![e] = ne] /\ ne.source = en.source
        BY <2>1, <2>2, FinishGoes DEF DownloadElsewhere
      <3>2. Ends(e)
        BY <2>1, <2>2, FinishGoes DEF DownloadElsewhere
      <3> QED  BY <1>2, <2>2, <3>1, <3>2
    <2> QED  BY <1>3, <2>1, <2>3 DEF DownloadElsewhere, Running
  <1> QED  BY <1>7, <1>8, <1>9, <1>10, <1>12, <1>13, <1>14, <1>15, <1>16, <1>17, <1>18 DEF DownloadStep

\* To be woken is nothing to the ledger.
LEMMA WokenSessions ==
  ASSUME VodTypeOK, NEW e \in Entries, UNCHANGED session \/ Wake(e)
  PROVE  /\ session' \in [Sessions -> SessionRecords]
         /\ \A s \in Sessions :
              /\ session'[s].entry = session[s].entry /\ session'[s].from = session[s].from
              /\ session'[s].off = session[s].off /\ session'[s].bounded = session[s].bounded
              /\ session'[s].asks = session[s].asks
              /\ session'[s].at = (IF session[s].at = "wait" THEN session'[s].at ELSE session[s].at)
              /\ session[s].at = "wait" => session'[s].at \in {"wait", "local"}
              /\ OnLine(session'[s]) = OnLine(session[s]) /\ OffLine(session'[s]) = OffLine(session[s])
              /\ NotYet(session'[s]) = NotYet(session[s])
              /\ (session[s].entry = e /\ Wake(e) => session'[s].at # "wait")
  <1>1. session \in [Sessions -> SessionRecords]
    BY DEF VodTypeOK
  <1>2. CASE UNCHANGED session /\ ~Wake(e)
    BY <1>1, <1>2
  <1>3. CASE Wake(e)
    <2>1. ASSUME NEW s \in Sessions
          PROVE  session'[s] = IF session[s].entry = e /\ session[s].at = "wait"
                               THEN [session[s] EXCEPT !.at = "local"] ELSE session[s]
      BY <1>3 DEF Wake
    <2>2. ASSUME NEW s \in Sessions
          PROVE  /\ session'[s] \in SessionRecords
                 /\ session'[s].entry = session[s].entry /\ session'[s].from = session[s].from
                 /\ session'[s].off = session[s].off /\ session'[s].bounded = session[s].bounded
                 /\ session'[s].upstream = session[s].upstream /\ session'[s].asks = session[s].asks
                 /\ session'[s].at = (IF session[s].at = "wait" THEN session'[s].at ELSE session[s].at)
                 /\ session[s].at = "wait" => session'[s].at \in {"wait", "local"}
                 /\ session[s].entry = e => session'[s].at # "wait"
      BY <1>1, <2>1, ZenonT(30) DEF SessionRecords
    <2>3. session' \in [Sessions -> SessionRecords]
      BY <1>3, <2>2 DEF Wake
    <2> QED  BY <2>2, <2>3 DEF OnLine, OffLine, NotYet
  <1> QED  BY <1>2, <1>3

LEMMA DownloadStepKeeps ==
  ASSUME LedgerInv, NEW e \in Entries, DownloadStep(e)
  PROVE  LedgerInv' /\ (GrantsOne \/ OnlyHandsBack)
  <1>1. /\ VodTypeOK /\ CapacityTypeOK /\ download \in [Entries -> DownloadRecords]
        /\ Running(e) /\ (Ends(e) \/ Vanishes(e) \/ \E d : GoesOn(e, d))
        /\ entry' \in [Entries -> EntryRecords] /\ FilesTypeOK'
        /\ \A f \in Entries : entry'[f].source = entry[f].source
        /\ UNCHANGED <<current, cleaner, restarts, externalCounts>>
    BY DownloadStepGoes DEF LedgerInv, VodTypeOK
  <1>2. (UNCHANGED session \/ Wake(e)) /\ raced' \in {raced, raced \union {"directory"}}
    BY <1>1 DEF Ends, Vanishes, GoesOn
  <1>3. /\ session' \in [Sessions -> SessionRecords]
        /\ \A s \in Sessions :
              /\ session'[s].entry = session[s].entry /\ session'[s].from = session[s].from
              /\ session'[s].asks = session[s].asks
              /\ session'[s].at = (IF session[s].at = "wait" THEN session'[s].at ELSE session[s].at)
              /\ session[s].at = "wait" => session'[s].at \in {"wait", "local"}
              /\ OnLine(session'[s]) = OnLine(session[s]) /\ OffLine(session'[s]) = OffLine(session[s])
              /\ NotYet(session'[s]) = NotYet(session[s])
    BY <1>1, <1>2, WokenSessions
  <1>4. HasEntry' /\ AsksAccounts'
    BY <1>1, <1>3 DEF LedgerInv, HasEntry, AsksAccounts
  <1>7. \A f \in Entries : Running(f) => download[f].key \in Keys
    BY <1>1, KeysOfSources DEF DownloadRecords
  <1>5. CASE Ends(e)
    <2>1. PICK s \in Sessions : download[e].owner = CacheOwner(s)
      BY <1>1 DEF LedgerInv, CacheSlots
    <2> DEFINE k0 == entry[e].source
    <2>0. k0 \in Keys /\ raced' = raced
      BY <1>1, <1>5, KeysOfSources DEF VodTypeOK, EntryRecords, Ends
    <2>2. /\ allocations' \in [Keys -> [Owners -> SUBSET Slots]] /\ OnlyHandsBack
          /\ \A k \in Keys, p \in Owners : Holds(k, p)' <=> Holds(k, p) /\ ~(k = k0 /\ p = CacheOwner(s))
      <3>1. HandIn(k0, CacheOwner(s)) /\ CacheOwner(s) \in Owners
        BY <1>5, <2>1, OwnersDiffer DEF Ends
      <3> HIDE DEF k0
      <3> QED  BY <1>1, <2>0, <3>1, SlotHandedIn, VodAssumption, ReleaseOnlyRemoves DEF HandIn, OnlyHandsBack
    <2>3. \A t \in Sessions, k \in Keys :
             /\ Holds(k, DirectOwner(t))' <=> Holds(k, DirectOwner(t))
             /\ Holds(k, CacheOwner(t))' <=> Holds(k, CacheOwner(t)) /\ ~(k = k0 /\ t = s)
      BY <2>2, OwnersDiffer
    <2>4. /\ download' \in [Entries -> DownloadRecords] /\ ~Running(e)'
          /\ \A f \in Entries \ {e} : download'[f] = download[f] /\ (Running(f)' <=> Running(f))
      BY <1>1, <1>5, FreshType DEF Ends, Running
    <2>5. DirectSlots'
      BY <1>3, <2>3, KeysOfSources DEF LedgerInv, DirectSlots
    <2>6. CacheSlots'
      <3>1. ASSUME raced \subseteq {"eviction"}, NEW t \in Sessions, NEW k \in Keys, Holds(k, CacheOwner(t))'
            PROVE  \E f \in Entries : Running(f)' /\ download'[f].owner = CacheOwner(t) /\ download'[f].key = k
        <4>2. PICK f \in Entries : Running(f) /\ download[f].owner = CacheOwner(t) /\ download[f].key = k
          BY <2>3, <3>1 DEF LedgerInv, CacheSlots
        <4>1. f # e
          BY <1>1, <2>1, <2>3, <3>1, <4>2, OwnersDiffer DEF LedgerInv, SourceHolds
        <4> QED  BY <2>4, <4>1, <4>2
      <3>2. ASSUME NEW f \in Entries, Running(f)'
            PROVE  \E t \in Sessions : /\ download'[f].owner = CacheOwner(t) /\ ~NotYet(session'[t])
                                       /\ Slot \in allocations'[download'[f].key][CacheOwner(t)]
        <4>1. f # e /\ Running(f) /\ download'[f] = download[f] /\ download[f].key \in Keys
          BY <1>7, <2>4, <3>2
        <4>2. PICK t \in Sessions : /\ download[f].owner = CacheOwner(t) /\ ~NotYet(session[t])
                                    /\ Holds(download[f].key, CacheOwner(t))
          BY <4>1 DEF LedgerInv, CacheSlots
        <4>3. t # s
          BY <1>1, <2>1, <4>1, <4>2 DEF LedgerInv, CacheSlots
        <4>4. Slot \in allocations'[download[f].key][CacheOwner(t)]
          <5>1. \A k \in Keys : Holds(k, CacheOwner(t)) => Slot \in allocations'[k][CacheOwner(t)]
            BY <2>3, <4>3 DEF Holds, CacheOwner
          <5> QED  BY <4>1, <4>2, <5>1
        <4> QED  BY <1>3, <4>1, <4>2, <4>4
      <3>3. \A f, g \in Entries : Running(f)' /\ Running(g)' /\ download'[f].owner = download'[g].owner => f = g
        BY <2>4 DEF LedgerInv, CacheSlots
      <3> QED  BY <2>0, <3>1, <3>2, <3>3 DEF CacheSlots, Holds
    <2>8. SourceHolds'
      BY <1>1, <2>0, <2>4 DEF LedgerInv, SourceHolds
    <2>7. VodTypeOK'
      BY <1>1, <1>3, <2>0, <2>2, <2>4 DEF VodTypeOK, CapacityTypeOK, FilesTypeOK
    <2> QED  BY <1>4, <2>2, <2>5, <2>6, <2>7, <2>8 DEF LedgerInv
  <1>6. ASSUME NEW d, GoesOn(e, d)
        PROVE  LedgerInv' /\ OnlyHandsBack
    <2>1. /\ UNCHANGED allocations /\ download' \in [Entries -> DownloadRecords] /\ raced' = raced
          /\ \A f \in Entries : /\ download'[f].owner = download[f].owner /\ (Running(f)' <=> Running(f))
                                 /\ download'[f].key = download[f].key
                                 /\ download'[f].from \in {download[f].from, entry[f].source}
      BY <1>1, <1>6 DEF GoesOn, Running
    <2>2. OnlyHandsBack /\ \A k, p : Holds(k, p)' <=> Holds(k, p)
      BY <2>1 DEF OnlyHandsBack, Held, Holds
    <2>3. DirectSlots'
      BY <1>3, <2>1 DEF LedgerInv, DirectSlots, Holds
    <2>4. CacheSlots'
      BY <1>3, <2>1 DEF LedgerInv, CacheSlots, Holds
    <2>6. SourceHolds'
      BY <1>1, <2>1 DEF LedgerInv, SourceHolds
    <2>5. VodTypeOK'
      BY <1>1, <1>3, <2>1 DEF VodTypeOK, CapacityTypeOK, FilesTypeOK
    <2> QED  BY <1>4, <2>2, <2>3, <2>4, <2>5, <2>6 DEF LedgerInv
  <1>8. CASE Vanishes(e)
    <2>1. /\ UNCHANGED allocations /\ raced' = raced \union {"directory"}
          /\ download' \in [Entries -> DownloadRecords] /\ ~Running(e)'
          /\ \A f \in Entries \ {e} : download'[f] = download[f] /\ (Running(f)' <=> Running(f))
      BY <1>1, <1>8, FreshType DEF Vanishes, Running
    <2>2. OnlyHandsBack
      BY <2>1 DEF OnlyHandsBack, Held
    <2>3. DirectSlots'
      BY <1>3, <2>1 DEF LedgerInv, DirectSlots, Holds
    <2>4. CacheSlots'
      <3>1. ~(raced' \subseteq {"eviction"})
        BY <2>1
      <3> QED  BY <1>3, <2>1, <3>1 DEF LedgerInv, CacheSlots, Holds
    <2>6. SourceHolds'
      BY <1>1, <2>1 DEF LedgerInv, SourceHolds
    <2>5. VodTypeOK'
      BY <1>1, <1>3, <2>1 DEF VodTypeOK, CapacityTypeOK, FilesTypeOK
    <2> QED  BY <1>4, <2>2, <2>3, <2>4, <2>5, <2>6 DEF LedgerInv
  <1> QED  BY <1>1, <1>5, <1>6, <1>8
-----------------------------------------------------------------------------
(* The cleaner, a restart, and the other users of the account.                *)

LEMMA UnlinkedType ==
  ASSUME VodTypeOK, NEW f \in Files \union {NoFile}
  PROVE  Unlinked(f) \in [Files -> Seq(Sources \X Nat)]
  <1>1. <<>> \in Seq(Sources \X Nat)
    OBVIOUS
  <1> QED  BY <1>1 DEF VodTypeOK, Unlinked

LEMMA DropType ==
  ASSUME VodTypeOK, NEW e, Drop(e)
  PROVE  /\ current' \in Entries \union {NoEntry} /\ entry' \in [Entries -> EntryRecords]
         /\ cleaner' \in [at : {"idle", "final", "between", "part", "last"}, entry : Entries \union {NoEntry}]
  <1>1. entry' \in [Entries -> EntryRecords]
    BY FreshType DEF VodTypeOK, Drop
  <1> QED  BY <1>1 DEF VodTypeOK, Drop, Cleans

\* The ledger is about sessions, downloads and slots, which the cleaner leaves.
LEMMA LedgerElsewhere ==
  ASSUME LedgerInv, VodTypeOK', UNCHANGED <<session, download, allocations, raced>>,
         \A e \in Entries : Running(e) \/ (\E s \in Sessions : session[s].entry = e) => entry'[e] = entry[e]
  PROVE  LedgerInv' /\ OnlyHandsBack
  <1>1. HasEntry' /\ DirectSlots' /\ CacheSlots' /\ SourceHolds' /\ AsksAccounts'
    BY DEF LedgerInv, HasEntry, DirectSlots, CacheSlots, SourceHolds, AsksAccounts, Holds, Running
  <1> QED  BY <1>1 DEF LedgerInv, OnlyHandsBack, Held

LEMMA CleanerStepKeeps ==
  ASSUME LedgerInv, CleanerStep
  PROVE  LedgerInv' /\ OnlyHandsBack
  <1> DEFINE Cleaners == [at : {"idle", "final", "between", "part", "last"}, entry : Entries \union {NoEntry}]
  <1>1. VodTypeOK /\ CleanerElsewhere /\ cleaner.entry \in Entries \union {NoEntry}
    BY DEF LedgerInv, VodTypeOK, CleanerStep, FinalUnlinked, LookForPart, PartDropped, EntryDropped, Evict
  <1>2. current' \in Entries \union {NoEntry} /\ entry' \in [Entries -> EntryRecords] /\ cleaner' \in Cleaners
    <2>1. CASE FinalUnlinked \/ PartDropped
      BY <1>1, <2>1 DEF VodTypeOK, FinalUnlinked, PartDropped, Cleans
    <2>2. CASE LookForPart \/ EntryDropped
      BY <1>1, <2>2, DropType DEF VodTypeOK, LookForPart, EntryDropped, Cleans
    <2>3. ASSUME NEW e \in Entries, Evict(e)
          PROVE  current' \in Entries \union {NoEntry} /\ entry' \in [Entries -> EntryRecords] /\ cleaner' \in Cleaners
      BY <1>1, <2>3, DropType DEF VodTypeOK, Evict, Cleans
    <2> QED  BY <2>1, <2>2, <2>3 DEF CleanerStep
  <1>3. FilesTypeOK'
    BY <1>1, UnlinkedType DEF VodTypeOK, FilesTypeOK, files, CleanerStep, FinalUnlinked, LookForPart,
       PartDropped, EntryDropped, Evict
  <1>4. VodTypeOK'
    BY <1>1, <1>2, <1>3 DEF VodTypeOK, CapacityTypeOK, FilesTypeOK, CleanerElsewhere
  <1>5. \A f \in Entries : Running(f) \/ (\E s \in Sessions : session[s].entry = f) => entry'[f] = entry[f]
    <2>1. ASSUME NEW e, Drop(e), NEW f \in Entries, Running(f) \/ \E s \in Sessions : session[s].entry = f
          PROVE  entry'[f] = entry[f]
      BY <1>1, <2>1 DEF Drop, VodTypeOK
    <2> QED  BY <2>1 DEF CleanerStep, FinalUnlinked, LookForPart, PartDropped, EntryDropped, Evict
  <1> QED  BY <1>1, <1>4, <1>5, LedgerElsewhere DEF CleanerElsewhere

LEMMA ImportedType ==
  ASSUME NEW f \in Files \union {NoFile}, disk \in [Files -> Seq(Sources \X Nat)]
  PROVE  Imported(f) \in EntryRecords
  <1>1. CASE f = NoFile
    BY <1>1, FreshType DEF Imported
  <1>2. CASE f # NoFile
    <2>1. Len(disk[f]) \in Nat
      BY <1>2
    <2> DEFINE n == Len(disk[f])
    <2>2. Imported(f) = [Fresh EXCEPT !.want = n, !.written = n, !.complete = TRUE]
      BY <1>2 DEF Imported
    <2> HIDE DEF n
    <2> QED  BY <2>1, <2>2, FreshType DEF EntryRecords, n
  <1> QED  BY <1>1, <1>2

\* No client, no download and an empty ledger.
LEMMA NobodyHolds ==
  ASSUME \A s \in Sessions : /\ session[s].at \in {"idle", "gone"} /\ ~session[s].upstream
                             /\ session[s].entry = NoEntry,
         \A e \in Entries : download[e].at = "none",
         allocations = [k \in Keys |-> [o \in Owners |-> {}]]
  PROVE  HasEntry /\ DirectSlots /\ CacheSlots /\ SourceHolds /\ AsksAccounts
  <1>1. \A k \in Keys, o \in Owners : ~Holds(k, o)
    BY VodAssumption DEF Holds
  <1> QED  BY <1>1, OwnersDiffer, VodAssumption DEF HasEntry, DirectSlots, CacheSlots, SourceHolds, AsksAccounts,
      OnLine, Running

LEMMA RestartKeeps ==
  ASSUME LedgerInv, Restart
  PROVE  LedgerInv' /\ OnlyHandsBack
  <1>1. VodTypeOK /\ partFile' = NoFile /\ finalFile' \in Files \union {NoFile}
        /\ raced' \subseteq {"eviction", "account", "directory"}
    BY DEF LedgerInv, VodTypeOK, Restart
  <1>2. disk' \in [Files -> Seq(Sources \X Nat)]
    <2>1. <<>> \in Seq(Sources \X Nat)
      OBVIOUS
    <2> QED  BY <1>1, <2>1 DEF VodTypeOK, Restart
  <1>3. current' \in Entries \union {NoEntry} /\ entry' \in [Entries -> EntryRecords]
    <2>1. Imported(finalFile) \in EntryRecords
      BY <1>1, ImportedType DEF LedgerInv, VodTypeOK
    <2>2. SomeEntry \in Entries
      BY VodAssumption DEF SomeEntry
    <2> QED  BY <2>1, <2>2, FreshType DEF Restart
  <1>4. /\ download' = [e \in Entries |-> NoDownload] /\ restarts' \in Nat
        /\ session' = [s \in Sessions |-> IF session[s].at = "idle" THEN Outside ELSE Gone(Outside)]
        /\ cleaner' = [at |-> "idle", entry |-> NoEntry]
        /\ allocations' = [k \in Keys |-> [o \in Owners |-> {}]] /\ externalCounts' = [k \in Keys |-> 0]
    BY <1>1 DEF VodTypeOK, Restart, Cleans
  <1>5. /\ session' \in [Sessions -> SessionRecords]
        /\ \A s \in Sessions : /\ session'[s].at \in {"idle", "gone"} /\ ~session'[s].upstream
                               /\ session'[s].entry = NoEntry
    <2>1. Outside \in SessionRecords /\ Outside.entry = NoEntry
      BY GoneType, FreshType DEF Outside, SessionRecords, Sources
    <2> QED  BY <1>4, <2>1, GoneType
  <1>6. download' \in [Entries -> DownloadRecords] /\ \A e \in Entries : download'[e].at = "none"
    BY <1>4, FreshType
  <1>7. CapacityTypeOK'
    BY <1>4, CapacityAssumption DEF CapacityTypeOK
  <1>8. VodTypeOK'
    BY <1>1, <1>2, <1>3, <1>4, <1>5, <1>6, <1>7 DEF VodTypeOK
  <1>9. \A k \in Keys, o \in Owners : ~Holds(k, o)'
    BY <1>4, VodAssumption DEF Holds
  <1>10. HasEntry' /\ DirectSlots' /\ CacheSlots' /\ SourceHolds' /\ AsksAccounts'
    BY <1>5, <1>6, <1>9, OwnersDiffer, VodAssumption DEF HasEntry, DirectSlots, CacheSlots, SourceHolds,
       AsksAccounts, OnLine, Running
  <1>11. OnlyHandsBack
    BY <1>4 DEF OnlyHandsBack, Held
  <1> QED  BY <1>8, <1>10, <1>11 DEF LedgerInv

LEMMA OthersStepKeeps ==
  ASSUME LedgerInv, OthersStep
  PROVE  LedgerInv' /\ (GrantsOne \/ OnlyHandsBack)
  <1>1. /\ VodTypeOK /\ CapacityTypeOK /\ Slot \in Slots
        /\ UNCHANGED <<current, entry, download, session, cleaner, files, restarts, raced>>
    BY VodAssumption DEF LedgerInv, VodTypeOK, OthersStep
  <1>0. \A u \in Others : /\ u[1] \in Keys /\ u[2] \in Owners
                          /\ u[2] \notin Sessions \X {"direct", "cache"}
    BY VodAssumption
  <1>2. CapacityNext
    BY <1>0, <1>1 DEF OthersStep, CapacityNext
  <1>3. CapacityTypeOK' /\ (GrantsOne \/ OnlyHandsBack)
    BY <1>1, <1>2, CapacityTypeKept, RegistryStep
  <1>4. VodTypeOK'
    BY <1>1, <1>3 DEF VodTypeOK, files
  <1>5. \A s \in Sessions, k \in Keys : /\ Holds(k, DirectOwner(s))' <=> Holds(k, DirectOwner(s))
                                        /\ Holds(k, CacheOwner(s))' <=> Holds(k, CacheOwner(s))
    <2>1. \A s \in Sessions : {DirectOwner(s), CacheOwner(s)} \subseteq Sessions \X {"direct", "cache"}
      BY DEF DirectOwner, CacheOwner
    <2>2. ASSUME NEW u \in Others, TryReserve(u[1], u[2], Slot)
          PROVE  \A k \in Keys, p \in Owners \ {u[2]} : Holds(k, p)' <=> Holds(k, p)
      BY <1>0, <1>1, <2>2, SlotTaken DEF TryReserve, Hold
    <2>3. ASSUME NEW u \in Others, Release(u[1], u[2], Slot)
          PROVE  \A k \in Keys, p \in Owners \ {u[2]} : Holds(k, p)' <=> Holds(k, p)
      BY <1>0, <1>1, <2>3, SlotHandedIn DEF Release, HandIn
    <2>4. CASE SetExternalCounts
      BY <2>4 DEF SetExternalCounts, Holds
    <2> QED  BY <1>0, <2>1, <2>2, <2>3, <2>4, OwnersDiffer DEF OthersStep
  <1>6. HasEntry' /\ DirectSlots' /\ CacheSlots' /\ SourceHolds' /\ AsksAccounts'
    <2>1. \A e \in Entries : Running(e) => download[e].key \in Keys
      BY <1>1, KeysOfSources DEF VodTypeOK, DownloadRecords
    <2>2. HasEntry' /\ DirectSlots' /\ SourceHolds' /\ AsksAccounts'
      BY <1>1, <1>5, KeysOfSources DEF LedgerInv, HasEntry, DirectSlots, SourceHolds, AsksAccounts, Running
    <2>3. CacheSlots'
      <3>1. ASSUME NEW e \in Entries, Running(e)
            PROVE  \E s \in Sessions : /\ download[e].owner = CacheOwner(s) /\ ~NotYet(session[s])
                                       /\ Holds(download[e].key, CacheOwner(s))'
        <4>1. PICK s \in Sessions : /\ download[e].owner = CacheOwner(s) /\ ~NotYet(session[s])
                                    /\ Holds(download[e].key, CacheOwner(s))
          BY <3>1 DEF LedgerInv, CacheSlots
        <4>2. Holds(download[e].key, CacheOwner(s))'
          BY <1>1, <1>5, <2>1, <3>1, <4>1 DEF Holds
        <4> QED  BY <4>1, <4>2
      <3> QED  BY <1>1, <1>5, <3>1 DEF LedgerInv, CacheSlots, Running, Holds
    <2> QED  BY <2>2, <2>3
  <1> QED  BY <1>3, <1>4, <1>6 DEF LedgerInv

\* Every step keeps the ledger and the registry's promise.
LEMMA LedgerKept ==
  ASSUME LedgerInv, [VodNext]_vodVars
  PROVE  LedgerInv' /\ (GrantsOne \/ OnlyHandsBack)
  <1>1. CASE UNCHANGED vodVars
    <2>1. UNCHANGED <<current, entry, download, session, cleaner, partFile, finalFile, disk, restarts, raced,
                      allocations, externalCounts>>
      BY <1>1 DEF vodVars, files, capacityVars
    <2>2. VodTypeOK'
      BY <2>1 DEF LedgerInv, VodTypeOK, CapacityTypeOK
    <2> QED  BY <2>1, <2>2, LedgerElsewhere
  <1>2. CASE VodNext
    BY <1>2, SessionStepKeeps, DownloadStepKeeps, CleanerStepKeeps, RestartKeeps, OthersStepKeeps DEF VodNext
  <1> QED  BY <1>1, <1>2

LEMMA LedgerInit == VodInit => LedgerInv
  <1> SUFFICES ASSUME VodInit PROVE LedgerInv
    OBVIOUS
  <1>1. /\ allocations = [k \in Keys |-> [o \in Owners |-> {}]] /\ externalCounts = [k \in Keys |-> 0]
        /\ partFile = NoFile /\ download = [e \in Entries |-> NoDownload]
        /\ session = [s \in Sessions |-> Outside] /\ cleaner = [at |-> "idle", entry |-> NoEntry]
        /\ restarts = 0 /\ raced = {}
    BY DEF VodInit, CapacityInit
  <1>2. PICK a \in Accounts :
          /\ finalFile \in {SomeFile, NoFile} /\ SomeFile \in Files /\ SomeEntry \in Entries
          /\ disk = [g \in Files |-> IF g = finalFile THEN Title(a) ELSE <<>>]
          /\ current = IF finalFile = NoFile THEN NoEntry ELSE SomeEntry
          /\ entry = [x \in Entries |-> IF x = current THEN Imported(finalFile) ELSE Fresh]
    BY VodAssumption DEF VodInit, SomeFile, SomeEntry
  <1>3. disk \in [Files -> Seq(Sources \X Nat)]
    <2>1. <<>> \in Seq(Sources \X Nat)
      OBVIOUS
    <2>2. Title(a) \in Seq(Sources \X Nat)
      <3>1. a \in Sources /\ Size[a] \in Nat
        BY VodAssumption DEF Sources
      <3> DEFINE n == Size[a]
      <3> HIDE DEF n
      <3>2. [i \in 1..n |-> <<a, i>>] \in Seq(Sources \X Nat)
        BY <3>1 DEF n
      <3> QED  BY <3>2 DEF Title, n
    <2> QED  BY <1>2, <2>1, <2>2
  <1>4. entry \in [Entries -> EntryRecords]
    BY <1>2, <1>3, ImportedType, FreshType
  <1>5. Outside \in SessionRecords /\ Outside.at = "idle" /\ ~Outside.upstream /\ Outside.entry = NoEntry
    BY DEF Outside, SessionRecords, Sources
  <1>6. CapacityTypeOK
    BY <1>1, CapacityAssumption DEF CapacityTypeOK
  <1>7. VodTypeOK
    BY <1>1, <1>2, <1>3, <1>4, <1>5, <1>6, FreshType DEF VodTypeOK
  <1>8. HasEntry /\ DirectSlots /\ CacheSlots /\ SourceHolds /\ AsksAccounts
    BY <1>1, <1>5, FreshType, NobodyHolds
  <1> QED  BY <1>7, <1>8 DEF LedgerInv

LEMMA LedgerHolds == VodSpec => []LedgerInv
  <1>1. LedgerInv /\ [VodNext]_vodVars => LedgerInv'
    BY LedgerKept
  <1> QED  BY <1>1, LedgerInit, PTL DEF VodSpec

\* Sessions, entries, downloads, files and the ledger keep their shapes.
THEOREM VodTypeCorrect == VodSpec => []VodTypeOK
  <1>1. LedgerInv => VodTypeOK
    BY DEF LedgerInv
  <1> QED  BY <1>1, LedgerHolds, PTL

\* No connection to a provider without a slot of its account, no download without
\* the slot it was given, and no slot without a session that plays or, unless a
\* client of another account came or the directory could not be made, a download
\* that runs from its provider, through every interleaving of probes, fallbacks,
\* cancellations, downloads, evictions and restarts.
THEOREM ConnectionsHeld == VodSpec => []ConnectionsAreHeld
  <1>1. LedgerInv => ConnectionsAreHeld
    <2> SUFFICES ASSUME LedgerInv PROVE ConnectionsAreHeld
      OBVIOUS
    <2>1. \A e \in Entries : Running(e) => Slot \in allocations[download[e].key][download[e].owner]
      BY DEF LedgerInv, CacheSlots, Holds
    <2>2. \A s \in Sessions :
            /\ session[s].at = "get" \/ session[s].at = "retry" \/ session[s].upstream
                 => Slot \in allocations[AccountOf[s]][DirectOwner(s)]
            /\ \A k \in Keys : Slot \in allocations[k][DirectOwner(s)] => session[s].at # "gone"
      BY DEF LedgerInv, DirectSlots, Holds, OnLine, OffLine
    <2>3. ASSUME raced \subseteq {"eviction"}
          PROVE  /\ \A e \in Entries : Running(e) => download[e].from \in {NoAccount, download[e].key}
                 /\ \A s \in Sessions, k \in Keys : Slot \in allocations[k][CacheOwner(s)]
                      => \E e \in Entries : /\ Running(e) /\ download[e].owner = CacheOwner(s)
                                            /\ download[e].key = k
      BY <2>3 DEF LedgerInv, SourceHolds, CacheSlots, Holds
    <2> QED  BY <2>1, <2>2, <2>3 DEF ConnectionsAreHeld
  <1> QED  BY <1>1, LedgerHolds, PTL

\* Clients and downloads of the title, and whoever else uses the account, never
\* have more slots between them than the account's limit.
THEOREM TitleWithinLimit == VodSpec => []ReservationsWithinLimit
  <1>1. VodInit => ReservationsWithinLimit
    BY WithinLimitInit DEF VodInit
  <1>2. LedgerInv /\ ReservationsWithinLimit /\ [VodNext]_vodVars => ReservationsWithinLimit'
    BY LedgerKept, WithinLimitKept DEF LedgerInv, VodTypeOK
  <1> QED  BY <1>1, <1>2, LedgerHolds, PTL DEF VodSpec

\* To the abstract limiter, everything that happens to the title is a grant within
\* the limit, a hand-back, or nothing.
THEOREM TitleImplementsLimiter == VodSpec => ImplementsLimiter
  <1>1. VodInit => Limiter!Init
    BY LimiterInit DEF VodInit
  <1>2. LedgerInv /\ [VodNext]_vodVars => [Limiter!Next]_([k \in Keys |-> Held(k)])
    BY LedgerKept, LimiterStep DEF LedgerInv, VodTypeOK
  <1> QED  BY <1>1, <1>2, LedgerHolds, PTL DEF VodSpec, ImplementsLimiter, Limiter!Spec

-----------------------------------------------------------------------------
(* The title's files.  As long as no client comes while the title is evicted, *)
(* there is one entry at a time that anybody plays or downloads, the part     *)
(* file is a beginning of the title, and the final file is the title.         *)

Playing(r) == r.at \notin {"idle", "gone", "cancelled"}
PartLen == IF partFile = NoFile THEN 0 ELSE Len(disk[partFile])

OneEntry ==
  /\ \A s \in Sessions : Playing(session[s]) => session[s].entry = current /\ current # NoEntry
  /\ \A e \in Entries : Running(e) => e = current
  /\ cleaner.at # "idle" => /\ cleaner.entry = current /\ current # NoEntry /\ ~Running(current)
                            /\ \A s \in Sessions : ~Playing(session[s])
  /\ cleaner.at = "idle" => cleaner.entry = NoEntry

\* Every chunk is in its place, and the final file is as long as the entry says.
InPlace(f) == \A i \in 1..Len(disk[f]) : disk[f][i][2] = i
LongEnough(n) == finalFile # NoFile /\ Len(disk[finalFile]) >= n

FilesHold ==
  /\ partFile # NoFile => partFile # finalFile /\ InPlace(partFile)
  /\ finalFile # NoFile => Len(disk[finalFile]) > 0 /\ InPlace(finalFile)

\* What an entry says is so: the event of news stays set only when a reader that
\* has all there is will stop.
EntryHolds(e) ==
  /\ entry[e].complete => entry[e].want > 0
  /\ entry[e].complete /\ e = current =>
        IF cleaner.at \in {"idle", "final"} THEN LongEnough(entry[e].want) ELSE finalFile = NoFile
  /\ entry[e].progress => entry[e].complete \/ entry[e].reason # "none"

\* One client at a time asks for the size, as long as it is not known.
ProbeHolds == \A s \in Sessions : session[s].at = "probe" =>
  /\ entry[session[s].entry].want = 0
  /\ \A t \in Sessions : session[t].at = "probe" => t = s

\* A download adds the next chunk to what the part file has.
DownloadHolds(e) ==
  /\ entry[e].want > 0 /\ ~entry[e].complete /\ ~entry[e].progress
  /\ download[e].at \in {"request", "stream"} =>
        download[e].next = PartLen + 1 /\ entry[e].written = PartLen
  /\ download[e].at = "stream" => partFile # NoFile /\ download[e].file = partFile
  /\ download[e].at = "replace" => PartLen >= entry[e].want
  /\ download[e].at = "replaced" => LongEnough(entry[e].want)

TitleHolds ==
  /\ OneEntry /\ FilesHold /\ ProbeHolds
  /\ \A e \in Entries : EntryHolds(e) /\ (Running(e) => DownloadHolds(e))

TitleInv == "eviction" \notin raced => TitleHolds

\* An entry that may take the place of e.
Fits(e, ne) ==
  /\ ne.complete => ne.want > 0 /\ LongEnough(ne.want)
  /\ ne.progress => ne.complete \/ ne.reason # "none"
  /\ Running(e) => /\ ne.want = entry[e].want /\ ~ne.complete /\ ~ne.progress
                   /\ ne.written = entry[e].written

\* The entry the session was given, when that is the title's or a new one.
Given(e, en) ==
  /\ en \in EntryRecords
  /\ \/ /\ e = current /\ (en.want = entry[e].want \/ entry[e].want = 0)
        /\ en.reason \in {entry[e].reason, "failed"}
        /\ en.complete = entry[e].complete /\ en.written = entry[e].written
        /\ en.progress = entry[e].progress
     \/ current = NoEntry /\ en.want = 0 /\ ~en.complete /\ ~en.progress

\* The session asks for the size if nobody else does, and no other when it is known.
AsksAlone(s, new, ne) ==
  /\ new.at = "probe" => ne.want = 0
  /\ \A t \in Sessions \ {s} : session[t].at = "probe" => ne.want = 0 /\ new.at # "probe"

LEMMA AnswerFits ==
  ASSUME LedgerInv, TitleHolds, cleaner.at = "idle", NEW e \in Entries, NEW en, Given(e, en),
         NEW ne, Learns(en, ne), Reminds(en, ne) \/ Renews(ne)
  PROVE  Fits(e, ne)
  <1>1. /\ en \in EntryRecords /\ ne \in EntryRecords
        /\ EntryHolds(e) /\ (Running(e) => DownloadHolds(e) /\ e = current /\ current # NoEntry)
    BY VodAssumption DEF Learns, Given, TitleHolds, OneEntry
  <1>2. CASE current = NoEntry /\ en.want = 0 /\ ~en.complete /\ ~en.progress
    BY <1>1, <1>2 DEF Learns, Reminds, Renews, Fits
  <1>3. CASE /\ e = current /\ (en.want = entry[e].want \/ entry[e].want = 0)
             /\ en.reason \in {entry[e].reason, "failed"}
             /\ en.complete = entry[e].complete /\ en.written = entry[e].written
             /\ en.progress = entry[e].progress
    <2>0. entry[e].complete => en.want = entry[e].want /\ en.want > 0 /\ LongEnough(en.want)
      BY <1>1, <1>3 DEF EntryHolds
    <2>1. ne.complete => ne.want > 0 /\ LongEnough(ne.want)
      BY <1>1, <1>3, <2>0 DEF Learns
    <2>2. ASSUME ne.progress PROVE ne.complete \/ ne.reason # "none"
      <3>1. Reminds(en, ne) /\ entry[e].progress
        BY <1>3, <2>2 DEF Reminds, Renews
      <3>2. CASE entry[e].complete
        <4>1. en.complete /\ en.want > 0 /\ finalFile # NoFile
          BY <1>3, <2>0, <3>2 DEF LongEnough
        <4> QED  BY <4>1 DEF Learns
      <3>3. CASE entry[e].reason # "none"
        BY <1>3, <3>1, <3>3 DEF Reminds
      <3> QED  BY <1>1, <3>1, <3>2, <3>3 DEF EntryHolds
    <2>3. Running(e) => /\ ne.want = entry[e].want /\ ~ne.complete /\ ~ne.progress
                        /\ ne.written = entry[e].written
      BY <1>1, <1>3 DEF Learns, Reminds, Renews, DownloadHolds, EntryRecords
    <2> QED  BY <2>1, <2>2, <2>3 DEF Fits
  <1> QED  BY <1>2, <1>3 DEF Given

\* A session that was given an answer leaves the title in order.
LEMMA AnswerTitle ==
  ASSUME LedgerInv, TitleHolds, cleaner.at = "idle", NEW s \in Sessions, NEW e \in Entries,
         current \in {e, NoEntry}, current' = e, NEW new \in SessionRecords,
         NEW ne \in EntryRecords, Fits(e, ne), Playing(new) => new.entry = e, AsksAlone(s, new, ne),
         session' = [session EXCEPT ![s] = new], entry' = [entry EXCEPT ![e] = ne],
         UNCHANGED download \/ \E k : Begins(s, new, e, k) /\ Renews(ne),
         UNCHANGED <<cleaner, files>>
  PROVE  TitleHolds'
  <1>1. /\ session \in [Sessions -> SessionRecords] /\ entry \in [Entries -> EntryRecords]
        /\ download \in [Entries -> DownloadRecords] /\ UNCHANGED <<partFile, finalFile, disk>>
        /\ OneEntry /\ FilesHold /\ ProbeHolds /\ NoEntry \notin Entries
    BY VodAssumption DEF LedgerInv, VodTypeOK, TitleHolds, files
  <1>2. /\ session'[s] = new /\ \A t \in Sessions \ {s} : session'[t] = session[t]
        /\ entry'[e] = ne /\ \A f \in Entries \ {e} : entry'[f] = entry[f] /\ download'[f] = download[f]
    BY <1>1 DEF Begins
  <1>3. \A f \in Entries \ {e} : ~Running(f)'
    BY <1>1, <1>2 DEF OneEntry, Running
  <1>4. OneEntry'
    BY <1>1, <1>2, <1>3 DEF OneEntry
  <1>5. FilesHold'
    BY <1>1 DEF FilesHold, InPlace
  <1>8. ProbeHolds'
    <2>1. \A t \in Sessions \ {s} : session[t].at = "probe" => session[t].entry = e
      BY <1>1 DEF OneEntry, Playing
    <2>2. new.at = "probe" => new.entry = e /\ ne.want = 0
      BY DEF AsksAlone, Playing
    <2> QED  BY <1>1, <1>2, <2>1, <2>2 DEF ProbeHolds, AsksAlone
  <1>6. \A f \in Entries : EntryHolds(f)'
    <2>1. EntryHolds(e)'
      BY <1>1, <1>2 DEF Fits, EntryHolds, LongEnough
    <2>2. ASSUME NEW f \in Entries \ {e}
          PROVE  EntryHolds(f)'
      BY <1>2, <2>2 DEF TitleHolds, EntryHolds
    <2> QED  BY <2>1, <2>2
  <1>7. Running(e)' => DownloadHolds(e)'
    <2>1. CASE UNCHANGED download
      <3>1. PartLen' = PartLen
        BY <1>1 DEF PartLen
      <3> QED  BY <1>1, <1>2, <2>1, <3>1 DEF Fits, Running, TitleHolds, DownloadHolds, LongEnough
    <2>2. ASSUME NEW k, Begins(s, new, e, k), Renews(ne) PROVE DownloadHolds(e)'
      <3>1. download'[e].at = "mkdir"
        BY <1>1, <2>2 DEF NoDownload, Begins
      <3>2. ne.want > 0 /\ ~ne.complete /\ ~ne.progress
        BY <2>2 DEF Renews
      <3> QED  BY <1>2, <3>1, <3>2 DEF DownloadHolds
    <2> QED  BY <2>1, <2>2
  <1> QED  BY <1>3, <1>4, <1>5, <1>6, <1>7, <1>8 DEF TitleHolds

LEMMA SessionStepTitle ==
  ASSUME LedgerInv, TitleHolds, NEW s \in Sessions, SessionStep(s), "eviction" \notin raced'
  PROVE  TitleHolds'
  <1> DEFINE old == session[s]
  <1>1. /\ VodTypeOK /\ HasEntry /\ CapacityTypeOK /\ old \in SessionRecords /\ OneEntry
        /\ session \in [Sessions -> SessionRecords] /\ entry \in [Entries -> EntryRecords]
    BY DEF LedgerInv, VodTypeOK, TitleHolds
  <1>2. ASSUME NEW new \in SessionRecords, session' = [session EXCEPT ![s] = new],
               Playing(new) => Playing(old) /\ new.entry = old.entry, new.at # "probe",
               UNCHANGED <<current, entry, download, cleaner, files>>
        PROVE  TitleHolds'
    <2>1. session'[s] = new /\ \A t \in Sessions \ {s} : session'[t] = session[t]
      BY <1>1, <1>2
    <2>2. OneEntry'
      BY <1>1, <1>2, <2>1 DEF OneEntry, Running
    <2>3. FilesHold'
      BY <1>2 DEF files, TitleHolds, FilesHold, InPlace
    <2>5. ProbeHolds'
      BY <1>2, <2>1 DEF TitleHolds, ProbeHolds
    <2>4. \A e \in Entries : EntryHolds(e)' /\ (Running(e)' => DownloadHolds(e)')
      BY <1>2 DEF files, TitleHolds, EntryHolds, DownloadHolds, Running, PartLen, LongEnough
    <2> QED  BY <2>2, <2>3, <2>4, <2>5 DEF TitleHolds
  <1>3. CASE OwnStep(s)
    <2>1. PICK new \in SessionRecords :
           /\ session' = [session EXCEPT ![s] = new] /\ Elsewhere
           /\ old.at \notin {"idle", "gone", "cancelled"}
           /\ (new.at \notin {"gone", "cancelled"} => new.entry = old.entry) /\ ~NotYet(new)
      BY <1>1, <1>3, OwnStepGoes
    <2> QED  BY <1>2, <2>1 DEF Elsewhere, Playing, NotYet
  <1>4. CASE Stop(s)
    <2>1. [old EXCEPT !.attached = FALSE] \in SessionRecords
      BY <1>1 DEF SessionRecords
    <2> DEFINE new == Gone([old EXCEPT !.attached = FALSE])
    <2>2. new \in SessionRecords /\ new.at = "gone"
      BY <2>1, GoneType
    <2>3. session' = [session EXCEPT ![s] = new] /\ UNCHANGED <<current, entry, download, cleaner, files>>
      BY <1>4 DEF Stop, Move
    <2> HIDE DEF new
    <2> QED  BY <1>2, <2>2, <2>3 DEF Playing
  <1>5. ASSUME NEW e \in Entries, NEW en, Given(e, en), current' = e, current \in {e, NoEntry},
               NEW ses, ses.entry = e, NEW new, NEW ne, Answered(s, ses, e, en, new, ne),
               \A t \in Sessions \ {s} : session[t].at = "probe" => en.want = 0 /\ new.at # "probe",
               cleaner.at = "idle", UNCHANGED <<cleaner, files>>
        PROVE  TitleHolds'
    <2>1. /\ new \in SessionRecords /\ (Playing(new) => new.entry = e) /\ ne \in EntryRecords
          /\ Learns(en, ne) /\ entry' = [entry EXCEPT ![e] = ne] /\ AsksAlone(s, new, ne)
      BY <1>5 DEF Answered, Learns, Playing, AsksAlone
    <2>2. CASE Stays(s, new) /\ Reminds(en, ne)
      BY <1>5, <2>1, <2>2, AnswerFits, AnswerTitle DEF Stays
    <2>3. CASE Opens(s, new) /\ Reminds(en, ne)
      BY <1>5, <2>1, <2>3, AnswerFits, AnswerTitle DEF Opens
    <2>4. CASE Begins(s, new, e, ne.source) /\ Renews(ne)
      <3>1. session' = [session EXCEPT ![s] = new]
        BY <2>4 DEF Begins
      <3> QED  BY <1>5, <2>1, <2>4, <3>1, AnswerFits, AnswerTitle
    <2> QED  BY <1>5, <2>2, <2>3, <2>4 DEF Answered
  <1>6. CASE Enter(s)
    <2>1. PICK e \in Entries, en \in EntryRecords, ses \in SessionRecords : \E new, ne :
           /\ current' = e /\ (current # NoEntry => e = current)
           /\ en = Met(e, s) /\ ses.entry = e
           /\ Answered(s, ses, e, en, new, ne) /\ (Probing(e) => new.at # "probe")
           /\ raced' = raced \union {x \in {"eviction"} : cleaner.entry = e}
                            \union {x \in {"account"} : Crosses(s)}
           /\ UNCHANGED <<cleaner, files, restarts, externalCounts>>
      BY <1>1, <1>6, EnterAnswers
    <2>2. cleaner.at = "idle"
      BY <1>1, <2>1 DEF OneEntry
    <2>3. Given(e, en) /\ current \in {e, NoEntry}
      <3>1. CASE current # NoEntry
        <4> DEFINE en0 == entry[e]
        <4>1. en0 \in EntryRecords /\ en = [en0 EXCEPT !.source = AccountOf[s]]
          BY <1>1, <2>1, <3>1 DEF Met
        <4> HIDE DEF en0
        <4>2. /\ en.want = en0.want /\ en.reason = en0.reason /\ en.complete = en0.complete
              /\ en.written = en0.written /\ en.progress = en0.progress
          BY <4>1 DEF EntryRecords
        <4> QED  BY <2>1, <3>1, <4>2 DEF Given, en0
      <3>2. CASE current = NoEntry
        <4>1. en.want = 0 /\ ~en.complete /\ ~en.progress
          BY <2>1, <3>2, FreshType DEF Met, EntryRecords
        <4> QED  BY <2>1, <3>2, <4>1 DEF Given
      <3> QED  BY <3>1, <3>2
    <2>4. ASSUME NEW t \in Sessions \ {s}, session[t].at = "probe"
          PROVE  Probing(e) /\ en.want = 0
      <3>1. session[t].entry = current /\ current # NoEntry
        BY <1>1, <2>4 DEF OneEntry, Playing
      <3>2. Probing(e) /\ entry[e].want = 0
        BY <2>1, <2>4, <3>1 DEF Probing, TitleHolds, ProbeHolds
      <3>3. en.want = entry[e].want
        BY <1>1, <2>1, <3>1 DEF Met, EntryRecords
      <3> QED  BY <3>2, <3>3
    <2> QED  BY <1>5, <2>1, <2>2, <2>3, <2>4
  <1>7. CASE TakeProbeLock(s) \/ ProbeAnswers(s) \/ TailOrFallBack(s)
    <2>1. ~old.upstream /\ (old.at = "probe" => old.asks \in Accounts)
      <3>1. OffLine(old)
        BY <1>7 DEF TakeProbeLock, ProbeAnswers, TailOrFallBack, OffLine
      <3>2. ~OnLine(old)
        BY <3>1, KeysOfSources DEF LedgerInv, DirectSlots
      <3> QED  BY <3>2 DEF OnLine, LedgerInv, AsksAccounts
    <2>2. PICK en \in EntryRecords, ses \in SessionRecords : \E new, ne :
           /\ old.at \in {"lock", "probe", "ready"} /\ old.entry \in Entries
           /\ en = [entry[old.entry] EXCEPT !.want = en.want, !.reason = en.reason]
           /\ en.want = entry[old.entry].want \/ old.at = "probe"
           /\ en.reason \in {entry[old.entry].reason, "failed"}
           /\ ses = [old EXCEPT !.cacheable = ses.cacheable, !.asks = ses.asks]
           /\ Answered(s, ses, old.entry, en, new, ne)
           /\ (new.at = "probe" => old.at = "lock" /\ ~Probing(old.entry))
           /\ UNCHANGED <<current, cleaner, files, restarts, raced, externalCounts>>
      BY <1>1, <1>7, <2>1, AskingAnswers
    <2>3. ses.entry = old.entry
      BY <1>1, <2>2 DEF SessionRecords
    <2>4. Playing(old)
      BY <2>2 DEF Playing
    <2>5. old.entry = current /\ cleaner.at = "idle"
      BY <1>1, <2>4 DEF OneEntry
    <2>6. entry[old.entry] \in EntryRecords
      BY <1>1, <2>2
    <2>7. /\ en.complete = entry[old.entry].complete /\ en.written = entry[old.entry].written
          /\ en.progress = entry[old.entry].progress
      <3> DEFINE en0 == entry[old.entry]
      <3>1. en = [en0 EXCEPT !.want = en.want, !.reason = en.reason] /\ en0 \in EntryRecords
        BY <2>2, <2>6
      <3> HIDE DEF en0
      <3>2. en.complete = en0.complete /\ en.written = en0.written /\ en.progress = en0.progress
        BY <3>1 DEF EntryRecords
      <3> QED  BY <3>2 DEF en0
    <2>9. old.at = "probe" => /\ entry[old.entry].want = 0
                              /\ \A t \in Sessions \ {s} : session[t].at # "probe"
      BY DEF TitleHolds, ProbeHolds
    <2>8. Given(old.entry, en)
      BY <2>2, <2>5, <2>7, <2>9 DEF Given
    <2>10. ASSUME NEW t \in Sessions \ {s}, session[t].at = "probe"
           PROVE  en.want = 0 /\ Probing(old.entry)
      <3>1. session[t].entry = old.entry /\ entry[old.entry].want = 0
        BY <1>1, <2>5, <2>10 DEF OneEntry, Playing, TitleHolds, ProbeHolds
      <3> QED  BY <2>2, <2>9, <2>10, <3>1 DEF Probing
    <2> QED  BY <1>5, <2>2, <2>3, <2>5, <2>8, <2>10
  <1>8. CASE GetAnswers(s)
    <2>1. PICK new \in SessionRecords, e \in Entries, ne \in EntryRecords :
           /\ old.at = "get" /\ e = old.entry /\ entry' = [entry EXCEPT ![e] = ne]
           /\ new.at = "started" /\ new.entry = old.entry
           /\ Learns(entry[e], ne)
           /\ \/ Stays(s, new) /\ Reminds(entry[e], ne)
              \/ Begins(s, new, e, ne.source) /\ old.from # 0 /\ Renews(ne)
           /\ UNCHANGED <<current, cleaner, files, restarts, raced, externalCounts>>
      BY <1>8, GetAnswersGoes
    <2>2. e = current /\ cleaner.at = "idle"
      BY <1>1, <2>1 DEF OneEntry, Playing
    <2>3. Given(e, entry[e])
      BY <1>1, <2>1, <2>2 DEF Given
    <2>4. Fits(e, ne)
      BY <2>1, <2>2, <2>3, AnswerFits
    <2>7. AsksAlone(s, new, ne)
      <3>1. \A t \in Sessions \ {s} : session[t].at = "probe" => session[t].entry = e /\ entry[e].want = 0
        BY <1>1, <2>2 DEF OneEntry, Playing, TitleHolds, ProbeHolds
      <3> QED  BY <2>1, <3>1 DEF AsksAlone, Learns
    <2>5. CASE Stays(s, new)
      BY <2>1, <2>2, <2>4, <2>5, <2>7, AnswerTitle DEF Stays
    <2>6. CASE Begins(s, new, e, ne.source) /\ Renews(ne)
      <3>1. session' = [session EXCEPT ![s] = new]
        BY <2>6 DEF Begins
      <3> QED  BY <2>1, <2>2, <2>4, <2>6, <2>7, <3>1, AnswerTitle
    <2> QED  BY <2>1, <2>5, <2>6
  <1> QED  BY <1>3, <1>4, <1>6, <1>7, <1>8 DEF SessionStep, OwnStep

\* A step of a download leaves the title in order if it does so for its own entry.
LEMMA DownloadTitle ==
  ASSUME LedgerInv, TitleHolds, NEW e \in Entries, DownloadStep(e),
         NEW ne \in EntryRecords, entry' = [entry EXCEPT ![e] = ne], ne.want = entry[e].want,
         ne.complete => LongEnough(ne.want)', ne.progress => ne.complete \/ ne.reason # "none",
         FilesHold', Running(e)' => DownloadHolds(e)'
  PROVE  TitleHolds'
  <1>1. /\ VodTypeOK /\ OneEntry /\ Running(e) /\ (Ends(e) \/ Vanishes(e) \/ \E d : GoesOn(e, d))
        /\ entry \in [Entries -> EntryRecords] /\ download \in [Entries -> DownloadRecords]
        /\ UNCHANGED <<current, cleaner>> /\ DownloadHolds(e)
    BY DownloadStepGoes DEF LedgerInv, VodTypeOK, TitleHolds
  <1>2. \A s \in Sessions : /\ session'[s].entry = session[s].entry
                            /\ Playing(session'[s]) => Playing(session[s])
                            /\ session'[s].at = "probe" => session[s].at = "probe"
    <2>1. UNCHANGED session \/ Wake(e)
      BY <1>1 DEF Ends, Vanishes, GoesOn
    <2> QED  BY <1>1, <2>1, WokenSessions DEF Playing
  <1>3. \A f \in Entries \ {e} : (Running(f)' <=> Running(f)) /\ ~Running(f) /\ entry'[f] = entry[f]
    BY <1>1 DEF Ends, Vanishes, GoesOn, OneEntry, Running
  <1>4. e = current /\ cleaner.at = "idle" /\ entry'[e] = ne
    BY <1>1 DEF OneEntry
  <1>5. OneEntry'
    BY <1>1, <1>2, <1>3, <1>4 DEF OneEntry
  <1>6. EntryHolds(e)'
    BY <1>1, <1>4 DEF EntryHolds, EntryRecords, LongEnough, DownloadHolds
  <1>7. \A f \in Entries \ {e} : EntryHolds(f)'
    BY <1>1, <1>3, <1>4 DEF TitleHolds, EntryHolds
  <1>8. ProbeHolds'
    BY <1>1, <1>2, <1>4 DEF TitleHolds, ProbeHolds, OneEntry, Playing, DownloadHolds
  <1> QED  BY <1>3, <1>5, <1>6, <1>7, <1>8 DEF TitleHolds

\* The part file can be dropped, and the final file.
LEMMA UnlinkedElse ==
  ASSUME VodTypeOK, NEW f \in Files \union {NoFile}, NEW g \in Files, f # g
  PROVE  Unlinked(f)[g] = disk[g]
  BY DEF VodTypeOK, Unlinked

LEMMA DownloadStepTitle ==
  ASSUME LedgerInv, TitleHolds, NEW e \in Entries, DownloadStep(e)
  PROVE  TitleHolds'
  <1> DEFINE d0 == download[e]
             en0 == entry[e]
             Fine(ne) == /\ ne \in EntryRecords /\ entry' = [entry EXCEPT ![e] = ne] /\ ne.want = en0.want
                         /\ ~ne.complete /\ ~ne.progress
  <1>1. /\ d0 \in DownloadRecords /\ en0 \in EntryRecords /\ entry \in [Entries -> EntryRecords]
        /\ partFile \in Files \union {NoFile} /\ finalFile \in Files \union {NoFile}
        /\ disk \in [Files -> Seq(Sources \X Nat)] /\ download \in [Entries -> DownloadRecords]
        /\ VodTypeOK /\ NoFile \notin Files
    BY VodAssumption DEF LedgerInv, VodTypeOK
  <1>2. /\ Running(e) /\ DownloadHolds(e) /\ FilesHold /\ EntryHolds(e)
        /\ en0.want > 0 /\ ~en0.complete /\ ~en0.progress
    BY DownloadStepGoes, <1>1 DEF TitleHolds, DownloadHolds
  <1>3. UNCHANGED files => FilesHold' /\ PartLen' = PartLen
    BY <1>2 DEF files, FilesHold, InPlace, PartLen
  <1>4. PartLen \in Nat
    BY <1>1 DEF PartLen
  <1>5. ASSUME FinishFailed(e), UNCHANGED files, DownloadElsewhere PROVE TitleHolds'
    <2>1. PICK ne \in EntryRecords : /\ entry' = [entry EXCEPT ![e] = ne] /\ ne.want = en0.want
                                     /\ ne.complete = en0.complete /\ ne.reason = "failed"
      BY <1>1, <1>5, FinishFailedGoes DEF DownloadElsewhere
    <2>2. ~Running(e)'
      BY <1>1, <1>5, FreshType, FinishFailedGoes DEF Ends, Running, DownloadElsewhere
    <2> QED  BY <1>2, <1>3, <1>5, <2>1, <2>2, DownloadTitle
  <1>6. ASSUME NEW d \in DownloadRecords, download' = [download EXCEPT ![e] = d],
               NEW ne, Fine(ne), FilesHold',
               d.at \in {"request", "stream"} => d.next = PartLen' + 1 /\ ne.written = PartLen',
               d.at = "stream" => partFile' # NoFile /\ d.file = partFile',
               d.at = "replace" => PartLen' >= en0.want,
               d.at = "replaced" => finalFile' # NoFile /\ Len(disk'[finalFile']) >= en0.want
        PROVE  TitleHolds'
    <2>1. download'[e] = d /\ entry'[e] = ne
      BY <1>1, <1>6
    <2>2. DownloadHolds(e)'
      BY <1>2, <1>6, <2>1 DEF DownloadHolds, LongEnough
    <2> QED  BY <1>6, <2>2, DownloadTitle
  <1>7. CASE Top(e)
    <2> DEFINE from == entry[e].source
               d == [d0 EXCEPT !.at = "request", !.next = PartLen + 1, !.from = from]
               ne == [en0 EXCEPT !.written = PartLen]
    <2>1. download' = [download EXCEPT ![e] = d] /\ entry' = [entry EXCEPT ![e] = ne] /\ UNCHANGED files
      BY <1>7 DEF Top, PartLen
    <2>2. PartLen + 1 \in Nat \ {0}
      BY <1>4
    <2>3. d \in DownloadRecords /\ d.at = "request" /\ d.next = PartLen + 1
      <3> HIDE DEF d0
      <3> DEFINE n == PartLen + 1
      <3>1. n \in Nat \ {0}
        BY <2>2
      <3>3. from \in Sources
        BY <1>1 DEF EntryRecords
      <3> HIDE DEF n, from
      <3>2. [d0 EXCEPT !.at = "request", !.next = n, !.from = from] \in DownloadRecords
        BY <1>1, <3>1, <3>3 DEF DownloadRecords
      <3> QED  BY <1>1, <3>2 DEF n, DownloadRecords
    <2>4. Fine(ne) /\ ne.written = PartLen
      BY <1>1, <1>2, <1>4, <2>1 DEF EntryRecords
    <2> HIDE DEF d, ne, Fine
    <2> QED  BY <1>3, <1>6, <2>1, <2>3, <2>4
  <1>8. ASSUME NEW at \in {"top", "unlink", "refused"}, download' = [download EXCEPT ![e].at = at],
               NEW ne, Fine(ne), FilesHold'
        PROVE  TitleHolds'
    <2> DEFINE d == [d0 EXCEPT !.at = at]
    <2>1. d \in DownloadRecords /\ d.at = at
      BY <1>1 DEF DownloadRecords
    <2>2. download' = [download EXCEPT ![e] = d]
      BY <1>8
    <2> HIDE DEF d, Fine
    <2> QED  BY <1>6, <1>8, <2>1, <2>2
  <1>9. Fine(en0) \/ entry' # entry
    BY <1>1, <1>2
  <1>10. Fine([en0 EXCEPT !.written = 0]) \/ entry' # [entry EXCEPT ![e].written = 0]
    BY <1>1, <1>2 DEF EntryRecords
  <1>11. CASE Responds(e)
    <2>1. d0.at = "request" /\ d0.next = PartLen + 1 /\ en0.written = PartLen /\ DownloadElsewhere
      BY <1>2, <1>11 DEF Responds, DownloadHolds
    <2>5. CASE Refused(e)
      <3> DEFINE ne == [Blocked(en0) EXCEPT !.ready = TRUE]
      <3>1. UNCHANGED files /\ Goes(e, "refused") /\ entry' = [entry EXCEPT ![e] = ne]
        BY <2>5 DEF Refused
      <3>2. Fine(ne)
        BY <1>1, <1>2, <3>1 DEF EntryRecords, Blocked
      <3> HIDE DEF Fine, ne
      <3> QED  BY <1>3, <1>8, <3>1, <3>2 DEF Goes
    <2>2. CASE FinishFailed(e) /\ UNCHANGED files
      BY <1>5, <2>1, <2>2
    <2>3. CASE ResumeIgnored(e)
      <3>1. UNCHANGED files
        BY <2>3 DEF ResumeIgnored
      <3>2. CASE Goes(e, "top") /\ entry' = [entry EXCEPT ![e].written = 0]
        <4> HIDE DEF Fine
        <4> QED  BY <1>3, <1>8, <1>10, <3>1, <3>2 DEF Goes
      <3>3. CASE Goes(e, "unlink") /\ UNCHANGED entry
        <4> HIDE DEF Fine
        <4> QED  BY <1>3, <1>8, <1>9, <3>1, <3>3 DEF Goes
      <3> QED  BY <2>3, <3>2, <3>3 DEF ResumeIgnored
    <2>4. CASE OpenPart(e) /\ entry' = [entry EXCEPT ![e].ready = TRUE]
      <3>1. PICK f \in Files :
              /\ (partFile # NoFile => f = partFile) /\ (partFile = NoFile => Unused(f))
              /\ partFile' = f
              /\ disk' = IF d0.next > 1 /\ partFile # NoFile THEN disk ELSE [disk EXCEPT ![f] = <<>>]
              /\ download' = [download EXCEPT ![e].at = "stream", ![e].file = f]
              /\ UNCHANGED finalFile
        BY <2>4 DEF OpenPart
      <3> DEFINE d == [d0 EXCEPT !.at = "stream", !.file = f]
                 ne == [en0 EXCEPT !.ready = TRUE]
      <3>2. d \in DownloadRecords /\ d.at = "stream" /\ d.file = f /\ d.next = d0.next /\ download' = [download EXCEPT ![e] = d]
        BY <1>1, <3>1 DEF DownloadRecords
      <3>3. Fine(ne) /\ ne.written = PartLen
        BY <1>1, <1>2, <2>1, <2>4 DEF EntryRecords
      <3>4. f # finalFile /\ f # NoFile
        BY <1>1, <1>2, <3>1 DEF Unused, FilesHold
      <3>5. FilesHold' /\ PartLen' = PartLen
        <4>1. CASE d0.next > 1 /\ partFile # NoFile
          <5>1. UNCHANGED files
            BY <3>1, <4>1 DEF files
          <5> QED  BY <1>3, <5>1
        <4>2. CASE ~(d0.next > 1 /\ partFile # NoFile)
          <5>1. PartLen = 0
            BY <1>4, <2>1, <4>2 DEF PartLen
          <5>2. /\ disk'[f] = <<>> /\ Len(disk'[f]) = 0
                /\ \A g \in Files \ {f} : disk'[g] = disk[g]
            BY <1>1, <3>1, <4>2
          <5>3. PartLen' = 0
            BY <3>1, <3>4, <5>2 DEF PartLen
          <5>4. FilesHold'
            BY <1>1, <1>2, <3>1, <3>4, <5>2 DEF FilesHold, InPlace
          <5> QED  BY <5>1, <5>3, <5>4
        <4> QED  BY <4>1, <4>2
      <3> HIDE DEF d, ne, Fine
      <3> QED  BY <1>6, <2>1, <3>1, <3>2, <3>3, <3>4, <3>5
    <2> QED  BY <1>11, <2>2, <2>3, <2>4, <2>5 DEF Responds
  <1>20. CASE EndsRefused(e)
    BY <1>5, <1>20 DEF EndsRefused
  <1>21. CASE NoDirectory(e)
    <2>1. UNCHANGED <<entry, files>> /\ ~Running(e)'
      BY <1>1, <1>21, FreshType DEF NoDirectory, Running
    <2>2. entry' = [entry EXCEPT ![e] = en0]
      BY <1>1, <2>1
    <2> QED  BY <1>1, <1>2, <1>3, <2>1, <2>2, DownloadTitle
  <1>12. CASE PartUnlinked(e)
    <2>1. /\ Goes(e, "top") /\ entry' = [entry EXCEPT ![e].written = 0]
          /\ partFile' = NoFile /\ disk' = Unlinked(partFile) /\ UNCHANGED finalFile
      BY <1>12 DEF PartUnlinked
    <2>2. FilesHold'
      BY <1>1, <1>2, <2>1, UnlinkedElse DEF FilesHold, InPlace
    <2> HIDE DEF Fine
    <2> QED  BY <1>8, <1>10, <2>1, <2>2 DEF Goes
  <1>13. CASE Chunk(e)
    <2> DEFINE n == d0.next + 1
               w == en0.written + 1
               d == [d0 EXCEPT !.next = n]
               ne == [en0 EXCEPT !.written = w, !.progress = FALSE]
               chunk == <<d0.from, d0.next>>
    <2>1. /\ d0.at = "stream" /\ UNCHANGED <<partFile, finalFile>>
          /\ disk' = [disk EXCEPT ![d0.file] = Append(@, chunk)]
          /\ download' = [download EXCEPT ![e] = d] /\ entry' = [entry EXCEPT ![e] = ne]
      BY <1>1, <1>13 DEF Chunk
    <2>2. /\ d0.next = PartLen + 1 /\ en0.written = PartLen /\ partFile # NoFile /\ d0.file = partFile
      BY <1>2, <2>1 DEF DownloadHolds
    <2>3. n = PartLen + 2 /\ w = PartLen + 1 /\ n \in Nat \ {0} /\ w \in Nat
      BY <1>4, <2>2
    <2> HIDE DEF n, w
    <2>4. d \in DownloadRecords /\ d.at = "stream" /\ d.next = n /\ d.file = partFile
      BY <1>1, <2>1, <2>2, <2>3 DEF DownloadRecords
    <2>5. Fine(ne) /\ ne.written = w
      BY <1>1, <1>2, <2>1, <2>3 DEF EntryRecords
    <2>11. chunk[2] = PartLen + 1
      BY <2>2
    <2> HIDE DEF chunk
    <2>6. /\ disk'[partFile] = Append(disk[partFile], chunk)
          /\ \A g \in Files \ {partFile} : disk'[g] = disk[g]
      BY <1>1, <2>1, <2>2
    <2>7. /\ Len(disk'[partFile]) = PartLen + 1
          /\ \A i \in 1..PartLen + 1 : disk'[partFile][i][2] = i
      <3> DEFINE p == disk[partFile]
      <3>1. /\ p \in Seq(Sources \X Nat) /\ Len(p) = PartLen /\ disk'[partFile] = Append(p, chunk)
            /\ \A i \in 1..PartLen : p[i][2] = i
        BY <1>1, <1>2, <2>2, <2>6 DEF PartLen, FilesHold, InPlace
      <3> HIDE DEF p
      <3>2. /\ Len(Append(p, chunk)) = PartLen + 1 /\ Append(p, chunk)[PartLen + 1] = chunk
            /\ \A i \in 1..PartLen : Append(p, chunk)[i] = p[i]
        BY <1>4, <3>1
      <3> QED  BY <1>4, <2>11, <3>1, <3>2
    <2>8. PartLen' = PartLen + 1
      BY <2>1, <2>2, <2>7 DEF PartLen
    <2>9. FilesHold'
      BY <1>1, <1>2, <2>1, <2>2, <2>6, <2>7 DEF FilesHold, InPlace
    <2> HIDE DEF d, ne, Fine
    <2>10. d.next = PartLen' + 1 /\ ne.written = PartLen'
      BY <1>4, <2>3, <2>4, <2>5, <2>8
    <2> QED  BY <1>6, <2>1, <2>2, <2>4, <2>5, <2>9, <2>10
  <1>14. ASSUME NEW d \in DownloadRecords, NEW en, en \in EntryRecords, Judge(e, d, en), d0.at = "stream",
                en.want = en0.want, en.complete = en0.complete, en.written = en0.written,
                en.progress = en0.progress, UNCHANGED files, DownloadElsewhere
         PROVE  TitleHolds'
    <2>1. en0.written = PartLen
      BY <1>2, <1>14 DEF DownloadHolds
    <2>2. CASE FinishFailed(e)
      BY <1>5, <1>14, <2>2
    <2>3. CASE ~FinishFailed(e)
      <3>1. PICK at \in {"top", "replace"} :
              /\ download' = [download EXCEPT ![e] = [d EXCEPT !.at = at, !.file = NoFile]]
              /\ entry' = [entry EXCEPT ![e] = en] /\ (at = "replace" => en.written >= en.want)
        BY <1>14, <2>3 DEF Judge
      <3> DEFINE c == [d EXCEPT !.at = at, !.file = NoFile]
      <3>2. c \in DownloadRecords /\ c.at = at
        BY <1>14 DEF DownloadRecords
      <3>3. Fine(en)
        BY <1>2, <1>14, <3>1
      <3>4. at = "replace" => PartLen >= en0.want
        BY <1>1, <1>2, <1>4, <1>14, <2>1, <3>1
      <3>5. download' = [download EXCEPT ![e] = c]
        BY <3>1
      <3> HIDE DEF c, Fine
      <3> QED  BY <1>3, <1>6, <1>14, <3>1, <3>2, <3>3, <3>4, <3>5
    <2> QED  BY <2>2, <2>3
  <1>15. CASE ResponseEnds(e)
    BY <1>1, <1>14, <1>15 DEF ResponseEnds
  <1>16. CASE Interrupted(e)
    <2> DEFINE d == [d0 EXCEPT !.tries = @ + 1]
               en == [en0 EXCEPT !.reason = "retry"]
    <2>1. /\ d0.at = "stream" /\ UNCHANGED files /\ DownloadElsewhere
          /\ FinishFailed(e) \/ Judge(e, d, en)
      BY <1>16 DEF Interrupted
    <2>2. d \in DownloadRecords
      <3> HIDE DEF d0
      <3>1. d0.tries + 1 \in Nat
        BY <1>1 DEF DownloadRecords
      <3> QED  BY <1>1, <3>1 DEF DownloadRecords
    <2>3. /\ en \in EntryRecords /\ en.want = en0.want /\ en.complete = en0.complete
          /\ en.written = en0.written /\ en.progress = en0.progress
      BY <1>1 DEF EntryRecords
    <2> HIDE DEF d, en
    <2> QED  BY <1>5, <1>14, <2>1, <2>2, <2>3
  <1>17. CASE DiskFails(e)
    BY <1>5, <1>17 DEF DiskFails
  <1>18. CASE Replaced(e)
    <2>1. d0.at = "replace" /\ PartLen >= en0.want /\ DownloadElsewhere
      BY <1>1, <1>2, <1>18 DEF Replaced, DownloadHolds
    <2>8. partFile # NoFile /\ PartLen = Len(disk[partFile])
      BY <1>1, <1>2, <2>1 DEF PartLen, EntryRecords
    <2>2. /\ finalFile' = partFile /\ partFile' = NoFile /\ disk' = Unlinked(finalFile)
          /\ Goes(e, "replaced") /\ UNCHANGED entry
      BY <1>18, <2>8 DEF Replaced
    <2>3. disk'[partFile] = disk[partFile]
      BY <1>1, <1>2, <2>8, <2>2, UnlinkedElse DEF FilesHold
    <2>6. FilesHold'
      <3>1. Len(disk'[partFile]) > 0
        BY <1>1, <1>2, <2>1, <2>3, <2>8 DEF EntryRecords
      <3> QED  BY <1>2, <2>8, <2>2, <2>3, <3>1 DEF FilesHold, InPlace
    <2> DEFINE d == [d0 EXCEPT !.at = "replaced"]
    <2>7. d \in DownloadRecords /\ d.at = "replaced" /\ download' = [download EXCEPT ![e] = d]
      BY <1>1, <2>2 DEF DownloadRecords, Goes
    <2> HIDE DEF d, Fine
    <2> QED  BY <1>6, <1>9, <2>1, <2>2, <2>3, <2>6, <2>7, <2>8
  <1>19. CASE Completed(e)
    <2> DEFINE en == [en0 EXCEPT !.complete = TRUE, !.written = en0.want, !.reason = "none"]
    <2>1. d0.at = "replaced" /\ Finish(e, en) /\ UNCHANGED files /\ DownloadElsewhere
      BY <1>19 DEF Completed
    <2>2. en \in EntryRecords /\ en.want = en0.want /\ en.complete
      BY <1>1 DEF EntryRecords
    <2> HIDE DEF en
    <2>3. PICK ne \in EntryRecords : /\ entry' = [entry EXCEPT ![e] = ne]
                                     /\ ne.want = en0.want /\ ne.complete
      BY <1>1, <2>1, <2>2, FinishGoes DEF DownloadElsewhere
    <2>4. ~Running(e)' /\ LongEnough(ne.want)'
      <3>1. Ends(e)
        BY <1>1, <2>1, <2>2, FinishGoes DEF DownloadElsewhere
      <3>2. ~Running(e)'
        BY <1>1, <3>1, FreshType DEF Ends, Running
      <3>3. LongEnough(en0.want) /\ UNCHANGED <<finalFile, disk>>
        BY <1>2, <2>1 DEF DownloadHolds, files
      <3> QED  BY <2>3, <3>2, <3>3 DEF LongEnough
    <2> QED  BY <1>3, <2>1, <2>3, <2>4, DownloadTitle
  <1> QED  BY <1>7, <1>11, <1>12, <1>13, <1>15, <1>16, <1>17, <1>18, <1>19, <1>20, <1>21 DEF DownloadStep

\* The entry of the title leaves the manager; nobody plays it.
LEMMA DropTitle ==
  ASSUME LedgerInv, TitleHolds, NEW e, e = current, Drop(e), ~Running(current), current # NoEntry,
         \A s \in Sessions : ~Playing(session[s]), UNCHANGED <<download, session, files>>
  PROVE  TitleHolds'
  <1>1. /\ entry \in [Entries -> EntryRecords] /\ OneEntry /\ FilesHold
        /\ NoEntry \notin Entries /\ UNCHANGED <<partFile, finalFile, disk>>
    BY VodAssumption DEF LedgerInv, VodTypeOK, TitleHolds, files
  <1>2. current' = NoEntry /\ cleaner' = [at |-> "idle", entry |-> NoEntry]
    BY DEF Drop, Cleans
  <1>3. \A f \in Entries : ~Running(f)'
    BY <1>1 DEF OneEntry, Running
  <1>4. OneEntry'
    BY <1>1, <1>2, <1>3 DEF OneEntry
  <1>5. FilesHold' /\ ProbeHolds'
    BY <1>1 DEF FilesHold, InPlace, ProbeHolds, Playing
  <1>6. \A f \in Entries : entry'[f] \in {entry[f], Fresh}
    BY <1>1 DEF Drop
  <1>7. \A f \in Entries : EntryHolds(f)'
    BY <1>1, <1>2, <1>6, FreshType DEF TitleHolds, EntryHolds
  <1> QED  BY <1>3, <1>4, <1>5, <1>7 DEF TitleHolds

\* The cleaner at its work, the entry as it is.
LEMMA CleaningTitle ==
  ASSUME LedgerInv, TitleHolds, ~Running(current), current # NoEntry,
         \A s \in Sessions : ~Playing(session[s]), UNCHANGED <<download, session, current, entry>>,
         NEW at \in {"final", "between", "part", "last"}, Cleans(at, current),
         FilesHold', at = "final" => cleaner.at = "idle" /\ UNCHANGED <<finalFile, disk>>,
         at # "final" => (entry[current].complete => finalFile' = NoFile)
  PROVE  TitleHolds'
  <1>1. cleaner'.at = at /\ cleaner'.entry = current
    BY DEF Cleans
  <1>2. OneEntry'
    BY <1>1 DEF TitleHolds, OneEntry, Running
  <1>3. \A e \in Entries : EntryHolds(e)' /\ ~Running(e)'
    BY <1>1 DEF TitleHolds, OneEntry, EntryHolds, Running, LongEnough
  <1>4. ProbeHolds'
    BY DEF ProbeHolds, Playing
  <1> QED  BY <1>2, <1>3, <1>4 DEF TitleHolds

LEMMA CleanerStepTitle ==
  ASSUME LedgerInv, TitleHolds, CleanerStep
  PROVE  TitleHolds'
  <1>1. /\ VodTypeOK /\ OneEntry /\ FilesHold /\ UNCHANGED <<download, session>>
        /\ partFile \in Files \union {NoFile} /\ finalFile \in Files \union {NoFile} /\ NoFile \notin Files
        /\ disk \in [Files -> Seq(Sources \X Nat)] /\ current \in Entries \union {NoEntry}
    BY VodAssumption DEF LedgerInv, VodTypeOK, TitleHolds, CleanerStep, FinalUnlinked, LookForPart,
       PartDropped, EntryDropped, Evict, CleanerElsewhere
  <1>2. ASSUME cleaner.at # "idle"
        PROVE  /\ cleaner.entry = current /\ current # NoEntry /\ ~Running(current)
               /\ \A s \in Sessions : ~Playing(session[s])
               /\ cleaner.at # "final" => (entry[current].complete => finalFile = NoFile)
    <2>1. /\ cleaner.entry = current /\ current # NoEntry /\ ~Running(current)
          /\ \A s \in Sessions : ~Playing(session[s])
      BY <1>1, <1>2 DEF OneEntry
    <2>2. EntryHolds(current)
      BY <1>1, <2>1 DEF TitleHolds
    <2> QED  BY <1>2, <2>1, <2>2 DEF EntryHolds
  <1>3. UNCHANGED files => FilesHold'
    BY <1>1 DEF files, FilesHold, InPlace
  <1>4. CASE FinalUnlinked
    <2>1. /\ cleaner.at = "final" /\ finalFile' = NoFile /\ disk' = Unlinked(finalFile)
          /\ UNCHANGED <<current, entry, partFile>> /\ Cleans("between", cleaner.entry)
      BY <1>4 DEF FinalUnlinked
    <2>2. FilesHold'
      BY <1>1, <2>1, UnlinkedElse DEF FilesHold, InPlace
    <2> QED  BY <1>1, <1>2, <2>1, <2>2, CleaningTitle
  <1>5. CASE PartDropped
    <2>1. /\ cleaner.at = "part" /\ partFile' = NoFile /\ disk' = Unlinked(partFile)
          /\ UNCHANGED <<current, entry, finalFile>> /\ Cleans("last", cleaner.entry)
      BY <1>5 DEF PartDropped
    <2>2. FilesHold'
      BY <1>1, <2>1, UnlinkedElse DEF FilesHold, InPlace
    <2> QED  BY <1>1, <1>2, <2>1, <2>2, CleaningTitle
  <1>6. CASE LookForPart \/ EntryDropped
    <2>1. /\ cleaner.at \in {"between", "last"} /\ UNCHANGED files
          /\ \/ Drop(cleaner.entry)
             \/ Cleans("part", cleaner.entry) /\ UNCHANGED <<current, entry>>
      BY <1>6 DEF LookForPart, EntryDropped
    <2>2. CASE Drop(cleaner.entry)
      BY <1>1, <1>2, <2>1, <2>2, DropTitle
    <2>3. CASE Cleans("part", cleaner.entry) /\ UNCHANGED <<current, entry>>
      BY <1>1, <1>2, <1>3, <2>1, <2>3, CleaningTitle DEF files
    <2> QED  BY <2>1, <2>2, <2>3
  <1>7. ASSUME NEW e \in Entries, Evict(e)
        PROVE  TitleHolds'
    <2>1. /\ e = current /\ current # NoEntry /\ ~Running(current) /\ UNCHANGED files
          /\ \A s \in Sessions : ~Playing(session[s])
          /\ cleaner.at = "idle"
      BY <1>1, <1>7, VodAssumption DEF Evict, Evictable, OneEntry, Playing
    <2>2. CASE finalFile # NoFile /\ Cleans("final", e) /\ UNCHANGED <<current, entry>>
      BY <1>1, <1>3, <2>1, <2>2, CleaningTitle DEF files
    <2>3. CASE finalFile = NoFile /\ Cleans("part", e) /\ UNCHANGED <<current, entry>>
      BY <1>1, <1>3, <2>1, <2>3, CleaningTitle DEF files
    <2>4. CASE Drop(e)
      BY <1>1, <2>1, <2>4, DropTitle
    <2> QED  BY <1>7, <2>2, <2>3, <2>4 DEF Evict
  <1> QED  BY <1>4, <1>5, <1>6, <1>7 DEF CleanerStep

\* The program begins with what is on the disk.
LEMMA ImportedHolds ==
  ASSUME NEW f \in Files, disk \in [Files -> Seq(Sources \X Nat)], Len(disk[f]) > 0, f # NoFile
  PROVE  /\ Imported(f).want = Len(disk[f]) /\ Imported(f).complete /\ ~Imported(f).progress
         /\ Imported(f).source = NoAccount
  <1> DEFINE n == Len(disk[f])
  <1>1. Imported(f) = [Fresh EXCEPT !.want = n, !.written = n, !.complete = TRUE]
    BY DEF Imported
  <1> HIDE DEF n
  <1>2. Imported(f).want = n /\ Imported(f).complete /\ ~Imported(f).progress /\ Imported(f).source = NoAccount
    BY <1>1 DEF Fresh
  <1> QED  BY <1>2 DEF n

LEMMA BeginsInOrder ==
  ASSUME partFile = NoFile, finalFile \in Files \union {NoFile}, FilesHold,
         disk \in [Files -> Seq(Sources \X Nat)],
         current = IF finalFile = NoFile THEN NoEntry ELSE SomeEntry,
         NEW en, en = Imported(finalFile),
         entry = [x \in Entries |-> IF x = current THEN en ELSE Fresh],
         download = [x \in Entries |-> NoDownload], cleaner = [at |-> "idle", entry |-> NoEntry],
         \A s \in Sessions : ~Playing(session[s])
  PROVE  TitleHolds
  <1>1. \A x \in Entries : ~Running(x)
    BY FreshType DEF Running
  <1>2. OneEntry /\ ProbeHolds
    BY <1>1 DEF OneEntry, ProbeHolds, Playing
  <1>3. finalFile # NoFile => en.want = Len(disk[finalFile]) /\ en.want > 0 /\ en.complete /\ ~en.progress
    BY ImportedHolds DEF FilesHold
  <1>4. ASSUME NEW x \in Entries PROVE EntryHolds(x)
    <2>1. CASE x = current
      <3>1. finalFile # NoFile /\ entry[x] = en
        BY <1>4, <2>1, VodAssumption
      <3>2. Len(disk[finalFile]) \in Nat
        BY <3>1
      <3> QED  BY <1>3, <3>1, <3>2 DEF EntryHolds, LongEnough
    <2>2. CASE x # current
      BY <1>4, <2>2, FreshType DEF EntryHolds
    <2> QED  BY <2>1, <2>2
  <1> QED  BY <1>1, <1>2, <1>4 DEF TitleHolds

LEMMA RestartTitle ==
  ASSUME LedgerInv, TitleHolds, Restart
  PROVE  TitleHolds'
  <1>1. /\ partFile' = NoFile /\ finalFile \in Files \union {NoFile} /\ finalFile' = finalFile
        /\ disk' = [f \in Files |-> IF f = finalFile THEN disk[f] ELSE <<>>]
        /\ disk \in [Files -> Seq(Sources \X Nat)] /\ disk' \in [Files -> Seq(Sources \X Nat)]
        /\ download' = [e \in Entries |-> NoDownload] /\ cleaner' = [at |-> "idle", entry |-> NoEntry]
        /\ session' = [s \in Sessions |-> IF session[s].at = "idle" THEN Outside ELSE Gone(Outside)]
    <2>1. <<>> \in Seq(Sources \X Nat)
      OBVIOUS
    <2> QED  BY <2>1 DEF LedgerInv, VodTypeOK, Restart, Cleans
  <1>2. FilesHold' /\ (finalFile # NoFile => disk'[finalFile] = disk[finalFile])
    BY <1>1 DEF TitleHolds, FilesHold, InPlace
  <1>3. /\ current' = IF finalFile = NoFile THEN NoEntry ELSE SomeEntry
        /\ entry' = [x \in Entries |-> IF x = current' THEN Imported(finalFile) ELSE Fresh]
    BY DEF Restart
  <1>5. \A s \in Sessions : ~Playing(session'[s])
    <2>1. Outside.at = "idle" /\ Outside \in SessionRecords
      BY DEF Outside, SessionRecords, Sources
    <2> QED  BY <1>1, <2>1, GoneType DEF Playing
  <1>6. \A x \in Entries : ~Running(x)'
    BY <1>1, FreshType DEF Running
  <1>7. OneEntry' /\ ProbeHolds'
    BY <1>1, <1>5, <1>6 DEF OneEntry, ProbeHolds, Playing
  <1>8. finalFile # NoFile => /\ Imported(finalFile).want = Len(disk[finalFile]) /\ Imported(finalFile).complete
                              /\ Len(disk[finalFile]) > 0 /\ ~Imported(finalFile).progress
    BY <1>1, ImportedHolds DEF TitleHolds, FilesHold
  <1>9. ASSUME NEW x \in Entries PROVE EntryHolds(x)'
    <2>1. CASE x = current'
      <3>1. finalFile # NoFile /\ entry'[x] = Imported(finalFile)
        BY <1>3, <1>9, <2>1, VodAssumption
      <3>2. Len(disk[finalFile]) \in Nat
        BY <1>1, <3>1
      <3> QED  BY <1>1, <1>2, <1>8, <3>1, <3>2 DEF EntryHolds, LongEnough
    <2>2. CASE x # current'
      BY <1>3, <1>9, <2>2, FreshType DEF EntryHolds
    <2> QED  BY <2>1, <2>2
  <1> QED  BY <1>2, <1>6, <1>7, <1>9 DEF TitleHolds

LEMMA TitleElsewhere ==
  ASSUME TitleHolds, UNCHANGED <<current, entry, download, session, cleaner, partFile, finalFile, disk>>
  PROVE  TitleHolds'
  BY DEF TitleHolds, OneEntry, FilesHold, EntryHolds, ProbeHolds, DownloadHolds, Running, InPlace, LongEnough,
     PartLen

LEMMA RacedGrows ==
  ASSUME [VodNext]_vodVars
  PROVE  raced \subseteq raced'
  BY DEF vodVars, VodNext, SessionStep, DownloadStep, CleanerStep, Restart, OthersStep,
     Enter, TakeProbeLock, ProbeAnswers, StartFails, Fail, TailOrFallBack, GetAnswers, GetFails,
     Cancelled, Play, LocalWaits, LocalReads, DirectReads, DirectBreaks, RetryAnswers, Leave, Stop,
     Elsewhere, NoDirectory, Top, Responds, EndsRefused, PartUnlinked, Chunk, ResponseEnds, Interrupted,
     DiskFails, Replaced, Completed, DownloadElsewhere, FinalUnlinked, LookForPart, PartDropped,
     EntryDropped, Evict, CleanerElsewhere

LEMMA TitleKept ==
  ASSUME LedgerInv, TitleInv, [VodNext]_vodVars
  PROVE  TitleInv'
  <1> SUFFICES ASSUME "eviction" \notin raced' PROVE TitleHolds'
    BY DEF TitleInv
  <1>1. "eviction" \notin raced
    <2>1. raced \subseteq raced'
      BY RacedGrows
    <2> QED  BY <2>1
  <1>2. TitleHolds
    BY <1>1 DEF TitleInv
  <1>3. CASE OthersStep \/ UNCHANGED vodVars
    <2>1. UNCHANGED <<current, entry, download, session, cleaner, partFile, finalFile, disk>>
      BY <1>3 DEF OthersStep, vodVars, files
    <2> QED  BY <1>2, <2>1, TitleElsewhere
  <1> QED  BY <1>2, <1>3, SessionStepTitle, DownloadStepTitle, CleanerStepTitle, RestartTitle DEF VodNext

LEMMA TitleInit == VodInit => TitleInv
  <1> SUFFICES ASSUME VodInit PROVE TitleHolds
    BY DEF TitleInv
  <1>0. LedgerInv
    BY LedgerInit
  <1>1. PICK a \in Accounts :
          /\ disk = [g \in Files |-> IF g = finalFile THEN Title(a) ELSE <<>>]
          /\ current = IF finalFile = NoFile THEN NoEntry ELSE SomeEntry
          /\ entry = [x \in Entries |-> IF x = current THEN Imported(finalFile) ELSE Fresh]
    BY DEF VodInit
  <1>2. /\ partFile = NoFile /\ download = [x \in Entries |-> NoDownload]
        /\ cleaner = [at |-> "idle", entry |-> NoEntry] /\ session = [s \in Sessions |-> Outside]
    BY DEF VodInit
  <1>3. \A s \in Sessions : ~Playing(session[s])
    BY <1>2 DEF Playing, Outside
  <1>4. finalFile \in Files \union {NoFile} /\ disk \in [Files -> Seq(Sources \X Nat)]
    BY <1>0 DEF LedgerInv, VodTypeOK
  <1>5. FilesHold
    <2>1. Size[a] \in Nat \ {0}
      BY VodAssumption
    <2> DEFINE n == Size[a]
    <2> HIDE DEF n
    <2>2. /\ Len([i \in 1..n |-> <<a, i>>]) = n
          /\ \A i \in 1..n : [j \in 1..n |-> <<a, j>>][i][2] = i
      BY <2>1 DEF n
    <2>3. Len(Title(a)) = n /\ n > 0 /\ \A i \in 1..n : Title(a)[i][2] = i
      BY <2>1, <2>2 DEF Title, n
    <2>4. finalFile # NoFile => disk[finalFile] = Title(a)
      BY <1>1, <1>4
    <2> QED  BY <1>2, <2>3, <2>4 DEF FilesHold, InPlace
  <1> QED  BY <1>1, <1>2, <1>3, <1>4, <1>5, BeginsInOrder

LEMMA TitleInvHolds == VodSpec => []TitleInv
  <1>1. LedgerInv /\ TitleInv /\ [VodNext]_vodVars => TitleInv'
    BY TitleKept
  <1> QED  BY <1>1, TitleInit, LedgerHolds, PTL DEF VodSpec

\* No reader of the part file ever goes round without waiting: when the event of
\* news is left set, the entry is complete or given up, and the reader stops.
THEOREM NoReaderSpins == VodSpec => []NobodySpins
  <1>1. LedgerInv /\ TitleInv => NobodySpins
    <2> SUFFICES ASSUME LedgerInv, TitleInv, "eviction" \notin raced, NEW s \in Sessions, Spinning(s)
                 PROVE  FALSE
      BY DEF NobodySpins
    <2> DEFINE e == session[s].entry
    <2>1. e \in Entries /\ TitleHolds
      BY DEF Spinning, LedgerInv, HasEntry, TitleInv
    <2>2. entry[e].progress /\ ~entry[e].complete /\ ~GivenUp(e)
      BY DEF Spinning, LocalEnd
    <2>3. ~Running(e)
      BY <2>1, <2>2 DEF TitleHolds, DownloadHolds
    <2>4. entry[e].reason # "none"
      BY <2>1, <2>2 DEF TitleHolds, EntryHolds
    <2> QED  BY <2>2, <2>3, <2>4 DEF GivenUp
  <1> QED  BY <1>1, LedgerHolds, TitleInvHolds, PTL

-----------------------------------------------------------------------------
(* Nor does a client of another account come before the title is complete: then *)
(* the part file is the beginning of one account's file, and the final file is   *)
(* the whole of one.                                                             *)

Begun(a) == partFile # NoFile => /\ Len(disk[partFile]) <= Size[a]
                                 /\ \A i \in 1..Len(disk[partFile]) : disk[partFile][i][1] = a
FinalIsWhole == finalFile # NoFile => \E a \in Accounts : disk[finalFile] = Title(a)

\* The account that everybody who has to do with the incomplete title asks.
AccountHolds(a) ==
  /\ a \in Accounts /\ entry[current].want \in {0, Size[a]} /\ Begun(a)
  /\ \A s \in Sessions : session[s].at = "probe" => session[s].asks = a
  /\ download[current].at \in {"request", "stream"} => download[current].from = a
  /\ download[current].at = "replaced" => partFile = NoFile

OneAccount ==
  /\ FinalIsWhole
  /\ current = NoEntry \/ cleaner.at = "last" => partFile = NoFile
  /\ current # NoEntry => IF entry[current].complete THEN partFile = NoFile
                          ELSE AccountHolds(entry[current].source)

AccountInv == {"eviction", "account"} \cap raced = {} => OneAccount

\* A session that was given an answer leaves the title with its account.
LEMMA AnswerAccount ==
  ASSUME LedgerInv, TitleHolds, OneAccount, cleaner.at = "idle", NEW s \in Sessions, NEW e \in Entries,
         current \in {e, NoEntry}, current' = e, NEW en, Given(e, en), NEW new, NEW ne,
         Learns(en, ne), session' = [session EXCEPT ![s] = new], entry' = [entry EXCEPT ![e] = ne],
         new.at = "probe" => new.asks = ne.source,
         UNCHANGED download \/ \E k : Begins(s, new, e, k), UNCHANGED <<cleaner, files>>,
         ~en.complete => /\ en.source \in Accounts /\ en.want \in {0, Size[en.source]}
                         /\ current = e => en.source = entry[e].source
  PROVE  OneAccount'
  <1>1. /\ session \in [Sessions -> SessionRecords] /\ entry \in [Entries -> EntryRecords]
        /\ download \in [Entries -> DownloadRecords] /\ UNCHANGED <<partFile, finalFile, disk, cleaner>>
        /\ OneEntry /\ NoEntry \notin Entries /\ EntryHolds(e) /\ FinalIsWhole
        /\ ne.want = en.want /\ ne.source = en.source
    BY VodAssumption DEF LedgerInv, VodTypeOK, TitleHolds, files, OneAccount, Learns
  <1>2. /\ entry'[e] = ne /\ session'[s] = new /\ \A t \in Sessions \ {s} : session'[t] = session[t]
    BY <1>1
  <1>3. FinalIsWhole'
    BY <1>1 DEF FinalIsWhole
  <1>4. CASE en.complete
    <2>1. e = current /\ entry[e].complete
      BY <1>1, <1>4 DEF Given
    <2>2. en.want > 0 /\ finalFile # NoFile
      BY <1>1, <1>4, <2>1 DEF Given, EntryHolds, LongEnough
    <2>3. ne.complete
      BY <1>4, <2>2 DEF Learns
    <2> QED  BY <1>1, <1>2, <1>3, <2>1, <2>3 DEF OneAccount
  <1>5. CASE ~en.complete
    <2> DEFINE a == en.source
    <2>1. ~ne.complete /\ a \in Accounts /\ ne.want \in {0, Size[a]}
      BY <1>1, <1>5 DEF Learns
    <2>2. CASE current = e
      <3>1. a = entry[e].source /\ ~entry[e].complete
        BY <1>1, <1>5, <2>2 DEF Given
      <3>2. AccountHolds(a)
        BY <1>1, <2>2, <3>1 DEF OneAccount
      <3>3. \A t \in Sessions : session'[t].at = "probe" => session'[t].asks = a
        BY <1>1, <1>2, <3>2 DEF AccountHolds
      <3>4. download'[e] = download[e] \/ download'[e].at = "mkdir"
        BY <1>1 DEF Begins, NoDownload
      <3>5. Begun(a)'
        BY <1>1, <3>2 DEF AccountHolds, Begun
      <3>6. AccountHolds(entry[e].source)'
        <4>1. entry'[e].source = a
          BY <1>1, <1>2
        <4> HIDE DEF a
        <4> QED  BY <1>1, <1>2, <2>1, <2>2, <3>2, <3>3, <3>4, <3>5, <4>1 DEF AccountHolds, Begun
      <3> QED  BY <1>1, <1>2, <1>3, <2>1, <3>6 DEF OneAccount
    <2>3. CASE current = NoEntry
      <3>1. \A t \in Sessions : session[t].at # "probe"
        BY <1>1, <2>3 DEF OneEntry, Playing
      <3>2. download'[e].at \in {"mkdir", "none"}
        BY <1>1, <2>3 DEF OneEntry, Running, Begins, NoDownload
      <3>3. partFile = NoFile
        BY <2>3 DEF OneAccount
      <3>4. AccountHolds(entry[e].source)'
        <4>1. entry'[e].source = a
          BY <1>1, <1>2
        <4> HIDE DEF a
        <4> QED  BY <1>1, <1>2, <2>1, <3>1, <3>2, <3>3, <4>1 DEF AccountHolds, Begun
      <3> QED  BY <1>1, <1>2, <1>3, <2>1, <3>3, <3>4 DEF OneAccount
    <2> QED  BY <2>2, <2>3
  <1> QED  BY <1>4, <1>5

LEMMA SessionStepAccount ==
  ASSUME LedgerInv, TitleHolds, OneAccount, NEW s \in Sessions, SessionStep(s),
         {"eviction", "account"} \cap raced' = {}
  PROVE  OneAccount'
  <1> DEFINE old == session[s]
  <1>1. /\ VodTypeOK /\ HasEntry /\ CapacityTypeOK /\ old \in SessionRecords /\ OneEntry
        /\ session \in [Sessions -> SessionRecords] /\ entry \in [Entries -> EntryRecords]
        /\ NoEntry \notin Entries
    BY VodAssumption DEF LedgerInv, VodTypeOK, TitleHolds
  <1>2. ASSUME NEW new, session' = [session EXCEPT ![s] = new], new.at # "probe",
               UNCHANGED <<current, entry, download, cleaner, files>>
        PROVE  OneAccount'
    <2>1. \A t \in Sessions : session'[t].at = "probe" => session'[t] = session[t]
      BY <1>1, <1>2
    <2> QED  BY <1>2, <2>1 DEF files, OneAccount, FinalIsWhole, AccountHolds, Begun
  <1>3. CASE OwnStep(s)
    <2>1. PICK new \in SessionRecords :
           session' = [session EXCEPT ![s] = new] /\ Elsewhere /\ ~NotYet(new)
      BY <1>1, <1>3, OwnStepGoes
    <2> QED  BY <1>2, <2>1 DEF Elsewhere, NotYet
  <1>4. CASE Stop(s)
    <2>1. [old EXCEPT !.attached = FALSE] \in SessionRecords
      BY <1>1 DEF SessionRecords
    <2> DEFINE new == Gone([old EXCEPT !.attached = FALSE])
    <2>2. new \in SessionRecords /\ new.at = "gone"
      BY <2>1, GoneType
    <2>3. session' = [session EXCEPT ![s] = new] /\ UNCHANGED <<current, entry, download, cleaner, files>>
      BY <1>4 DEF Stop, Move
    <2> HIDE DEF new
    <2> QED  BY <1>2, <2>2, <2>3
  <1>5. ASSUME NEW e \in Entries, NEW en, Given(e, en), current' = e, current \in {e, NoEntry},
               NEW ses, NEW new, NEW ne, Answered(s, ses, e, en, new, ne),
               cleaner.at = "idle", UNCHANGED <<cleaner, files>>,
               ~en.complete => /\ en.source \in Accounts /\ en.want \in {0, Size[en.source]}
                               /\ current = e => en.source = entry[e].source
        PROVE  OneAccount'
    <2>1. /\ Learns(en, ne) /\ entry' = [entry EXCEPT ![e] = ne] /\ session' = [session EXCEPT ![s] = new]
          /\ (new.at = "probe" => new.asks = ne.source)
          /\ UNCHANGED download \/ \E k : Begins(s, new, e, k)
      BY <1>5 DEF Answered, Learns, Stays, Opens, Begins
    <2> QED  BY <1>5, <2>1, AnswerAccount
  <1>6. CASE Enter(s)
    <2>1. PICK e \in Entries, en \in EntryRecords, ses \in SessionRecords : \E new, ne :
           /\ current' = e /\ (current # NoEntry => e = current)
           /\ en = Met(e, s) /\ ses.entry = e
           /\ Answered(s, ses, e, en, new, ne) /\ (Probing(e) => new.at # "probe")
           /\ raced' = raced \union {x \in {"eviction"} : cleaner.entry = e}
                            \union {x \in {"account"} : Crosses(s)}
           /\ UNCHANGED <<cleaner, files, restarts, externalCounts>>
      BY <1>1, <1>6, EnterAnswers
    <2>2. cleaner.at = "idle" /\ ~Crosses(s)
      BY <1>1, <2>1 DEF OneEntry
    <2>3. CASE current # NoEntry
      <3> DEFINE en0 == entry[e]
      <3>1. en0 \in EntryRecords /\ en = [en0 EXCEPT !.source = AccountOf[s]]
        BY <1>1, <2>1, <2>3 DEF Met
      <3> HIDE DEF en0
      <3>2. /\ en.want = en0.want /\ en.reason = en0.reason /\ en.complete = en0.complete
            /\ en.written = en0.written /\ en.progress = en0.progress /\ en.source = AccountOf[s]
        BY <3>1 DEF EntryRecords
      <3>3. Given(e, en)
        BY <2>1, <2>3, <3>2 DEF Given, en0
      <3>4. ~en.complete => AccountHolds(en.source) /\ en.source = entry[e].source
        BY <2>1, <2>2, <2>3, <3>2 DEF Crosses, en0, OneAccount
      <3>5. ~en.complete => en.source \in Accounts /\ en.want \in {0, Size[en.source]}
        BY <2>1, <2>3, <3>2, <3>4 DEF AccountHolds, en0
      <3> QED  BY <1>5, <2>1, <2>2, <2>3, <3>3, <3>4, <3>5
    <2>4. CASE current = NoEntry
      <3>1. en.want = 0 /\ ~en.complete /\ ~en.progress /\ en.source = AccountOf[s]
        BY <2>1, <2>4, FreshType DEF Met, EntryRecords
      <3>2. Given(e, en) /\ AccountOf[s] \in Accounts
        BY <2>1, <2>4, <3>1, VodAssumption DEF Given
      <3> QED  BY <1>1, <1>5, <2>1, <2>2, <2>4, <3>1, <3>2
    <2> QED  BY <2>3, <2>4
  <1>7. CASE TakeProbeLock(s) \/ ProbeAnswers(s) \/ TailOrFallBack(s)
    <2>1. ~old.upstream /\ (old.at = "probe" => old.asks \in Accounts)
      <3>1. OffLine(old)
        BY <1>7 DEF TakeProbeLock, ProbeAnswers, TailOrFallBack, OffLine
      <3>2. ~OnLine(old)
        BY <3>1, KeysOfSources DEF LedgerInv, DirectSlots
      <3> QED  BY <3>2 DEF OnLine, LedgerInv, AsksAccounts
    <2>2. PICK en \in EntryRecords, ses \in SessionRecords : \E new, ne :
           /\ old.at \in {"lock", "probe", "ready"} /\ old.entry \in Entries
           /\ en = [entry[old.entry] EXCEPT !.want = en.want, !.reason = en.reason]
           /\ \/ en.want = entry[old.entry].want
              \/ en.want = Size[old.asks] /\ old.at = "probe"
           /\ en.reason \in {entry[old.entry].reason, "failed"}
           /\ Answered(s, ses, old.entry, en, new, ne)
           /\ UNCHANGED <<current, cleaner, files, restarts, raced, externalCounts>>
      BY <1>1, <1>7, <2>1, AskingAnswers
    <2>4. Playing(old)
      BY <2>2 DEF Playing
    <2>5. old.entry = current /\ cleaner.at = "idle" /\ current # NoEntry
      BY <1>1, <2>4 DEF OneEntry
    <2>7. /\ en.complete = entry[current].complete /\ en.written = entry[current].written
          /\ en.progress = entry[current].progress /\ en.source = entry[current].source
      <3> DEFINE en0 == entry[current]
      <3>1. en = [en0 EXCEPT !.want = en.want, !.reason = en.reason] /\ en0 \in EntryRecords
        BY <1>1, <2>2, <2>5
      <3> HIDE DEF en0
      <3>2. en.complete = en0.complete /\ en.written = en0.written /\ en.progress = en0.progress /\ en.source = en0.source
        BY <3>1 DEF EntryRecords
      <3> QED  BY <3>2 DEF en0
    <2>9. old.at = "probe" => entry[current].want = 0
      BY <2>5 DEF TitleHolds, ProbeHolds
    <2>8. Given(current, en)
      BY <2>2, <2>5, <2>7, <2>9 DEF Given
    <2>10. ~en.complete => AccountHolds(en.source)
      BY <2>5, <2>7 DEF OneAccount
    <2>11. ~en.complete => en.source \in Accounts /\ en.want \in {0, Size[en.source]}
      BY <2>2, <2>5, <2>10 DEF AccountHolds
    <2> QED  BY <1>5, <2>2, <2>5, <2>7, <2>8, <2>11
  <1>8. CASE GetAnswers(s)
    <2>1. PICK new \in SessionRecords, e \in Entries, ne \in EntryRecords :
           /\ old.at = "get" /\ e = old.entry /\ entry' = [entry EXCEPT ![e] = ne]
           /\ new.at = "started" /\ Learns(entry[e], ne)
           /\ Stays(s, new) \/ Begins(s, new, e, ne.source)
           /\ UNCHANGED <<current, cleaner, files, restarts, raced, externalCounts>>
      BY <1>8, GetAnswersGoes
    <2>2. e = current /\ cleaner.at = "idle"
      BY <1>1, <2>1 DEF OneEntry, Playing
    <2>3. Given(e, entry[e])
      BY <1>1, <2>1, <2>2 DEF Given
    <2>4. ~entry[e].complete => entry[e].source \in Accounts /\ entry[e].want \in {0, Size[entry[e].source]}
      BY <1>1, <2>1, <2>2 DEF OneAccount, AccountHolds
    <2>5. /\ session' = [session EXCEPT ![s] = new]
          /\ UNCHANGED download \/ \E k : Begins(s, new, e, k)
      BY <2>1 DEF Stays, Begins
    <2>6. UNCHANGED <<cleaner, files>> /\ new.at # "probe" /\ Learns(entry[e], ne) /\ current' = e
      BY <2>1, <2>2
    <2> QED  BY <2>1, <2>2, <2>3, <2>4, <2>5, <2>6, AnswerAccount
  <1> QED  BY <1>3, <1>4, <1>6, <1>7, <1>8 DEF SessionStep, OwnStep

\* A download that goes on, or ends, with the account of its entry.
LEMMA DownloadAccount ==
  ASSUME LedgerInv, TitleHolds, OneAccount, NEW e \in Entries, DownloadStep(e),
         NEW ne, entry' = [entry EXCEPT ![e] = ne], ne.source = entry[e].source, ne.want = entry[e].want,
         FinalIsWhole',
         ne.complete => partFile' = NoFile,
         ~ne.complete => /\ Begun(ne.source)'
                         /\ download'[e].at \in {"request", "stream"} => download'[e].from = ne.source
                         /\ download'[e].at = "replaced" => partFile' = NoFile
  PROVE  OneAccount'
  <1>1. /\ VodTypeOK /\ OneEntry /\ Running(e) /\ (Ends(e) \/ Vanishes(e) \/ \E d : GoesOn(e, d))
        /\ entry \in [Entries -> EntryRecords] /\ NoEntry \notin Entries
        /\ UNCHANGED <<current, cleaner>> /\ DownloadHolds(e)
    BY DownloadStepGoes, VodAssumption DEF LedgerInv, VodTypeOK, TitleHolds
  <1>2. \A s \in Sessions : session'[s].at = "probe" => session[s].at = "probe" /\ session'[s].asks = session[s].asks
    <2>1. UNCHANGED session \/ Wake(e)
      BY <1>1 DEF Ends, Vanishes, GoesOn
    <2> QED  BY <1>1, <2>1, WokenSessions
  <1>3. e = current /\ cleaner.at = "idle" /\ entry'[e] = ne /\ current # NoEntry
    BY <1>1 DEF OneEntry
  <1>4. AccountHolds(ne.source)
    BY <1>1, <1>3 DEF DownloadHolds, OneAccount
  <1>5. ASSUME ~ne.complete PROVE AccountHolds(entry[current].source)'
    <2> DEFINE a == ne.source
    <2>1. entry'[current'].source = a /\ entry'[current'].want = entry[current].want
      BY <1>1, <1>3
    <2>2. Begun(a)'
      BY <1>5
    <2> HIDE DEF a
    <2>3. Begun(entry[current].source)'
      BY <2>1, <2>2 DEF Begun
    <2> QED  BY <1>1, <1>2, <1>3, <1>4, <1>5, <2>1, <2>3 DEF AccountHolds, a
  <1> QED  BY <1>1, <1>3, <1>5 DEF OneAccount


LEMMA DownloadStepAccount ==
  ASSUME LedgerInv, TitleHolds, OneAccount, NEW e \in Entries, DownloadStep(e)
  PROVE  OneAccount'
  <1> DEFINE d0 == download[e]
             en0 == entry[e]
             a == entry[e].source
             Fine(ne) == /\ entry' = [entry EXCEPT ![e] = ne] /\ ne.source = a /\ ne.want = en0.want
                         /\ ~ne.complete
  <1>1. /\ d0 \in DownloadRecords /\ en0 \in EntryRecords /\ entry \in [Entries -> EntryRecords]
        /\ partFile \in Files \union {NoFile} /\ finalFile \in Files \union {NoFile}
        /\ disk \in [Files -> Seq(Sources \X Nat)] /\ download \in [Entries -> DownloadRecords]
        /\ VodTypeOK /\ NoFile \notin Files /\ NoEntry \notin Entries
    BY VodAssumption DEF LedgerInv, VodTypeOK
  <1>2. /\ Running(e) /\ DownloadHolds(e) /\ FilesHold /\ en0.want > 0 /\ ~en0.complete /\ e = current
    BY DownloadStepGoes, <1>1 DEF TitleHolds, DownloadHolds, OneEntry
  <1>3. AccountHolds(a) /\ FinalIsWhole /\ Begun(a) /\ a \in Accounts /\ en0.want = Size[a] /\ Size[a] \in Nat
    <2>1. AccountHolds(a) /\ FinalIsWhole
      BY <1>1, <1>2 DEF OneAccount
    <2>2. a \in Accounts /\ en0.want \in {0, Size[a]} /\ Begun(a)
      BY <1>2, <2>1 DEF AccountHolds
    <2> QED  BY <1>1, <1>2, <2>1, <2>2, VodAssumption DEF EntryRecords
  <1>4. UNCHANGED files => FinalIsWhole' /\ (\A b : Begun(b) => Begun(b)')
    BY <1>3 DEF files, FinalIsWhole, Begun
  <1>5. ASSUME FinishFailed(e), UNCHANGED files, DownloadElsewhere PROVE OneAccount'
    <2>1. PICK ne \in EntryRecords : /\ entry' = [entry EXCEPT ![e] = ne] /\ ne.want = en0.want
                                     /\ ne.complete = en0.complete /\ ne.source = a
      BY <1>1, <1>5, FinishFailedGoes DEF DownloadElsewhere
    <2>2. download'[e].at = "none"
      BY <1>1, <1>5, FreshType, FinishFailedGoes DEF Ends, DownloadElsewhere
    <2>3. Begun(ne.source)'
      BY <1>3, <1>4, <1>5, <2>1 DEF Begun, files
    <2> QED  BY <1>2, <1>4, <1>5, <2>1, <2>2, <2>3, DownloadAccount
  <1>6. ASSUME NEW d, download' = [download EXCEPT ![e] = d], NEW ne, Fine(ne),
               FinalIsWhole', NEW b, b = a, Begun(b)',
               d.at \in {"request", "stream"} => d.from = a, d.at # "replaced" \/ partFile' = NoFile
        PROVE  OneAccount'
    <2>1. download'[e] = d
      BY <1>1, <1>6
    <2>2. Begun(ne.source)'
      BY <1>6 DEF Begun
    <2> QED  BY <1>6, <2>1, <2>2, DownloadAccount
  <1>7. CASE Top(e)
    <2> DEFINE n == PartLen + 1
               d == [d0 EXCEPT !.at = "request", !.next = n, !.from = a]
               w == PartLen
               ne == [en0 EXCEPT !.written = w]
    <2>1. download' = [download EXCEPT ![e] = d] /\ entry' = [entry EXCEPT ![e] = ne] /\ UNCHANGED files
      BY <1>7 DEF Top, PartLen
    <2> HIDE DEF n, w
    <2>3. d.at = "request" /\ d.from = a
      BY <1>1 DEF DownloadRecords
    <2>4. Fine(ne)
      BY <1>1, <1>2, <2>1 DEF EntryRecords
    <2>5. Begun(a)'
      BY <1>3, <1>4, <2>1, <2>4 DEF Begun, files
    <2> HIDE DEF d, ne, Fine
    <2> QED  BY <1>4, <1>6, <2>1, <2>3, <2>4, <1>3
  <1>8. ASSUME NEW at \in {"top", "unlink", "refused"}, download' = [download EXCEPT ![e].at = at],
               NEW ne, Fine(ne), FinalIsWhole', NEW b, b = a, Begun(b)'
        PROVE  OneAccount'
    <2> DEFINE d == [d0 EXCEPT !.at = at]
    <2>1. d.at = at
      BY <1>1 DEF DownloadRecords
    <2>2. download' = [download EXCEPT ![e] = d]
      BY <1>8
    <2> HIDE DEF d, Fine
    <2> QED  BY <1>6, <1>8, <2>1, <2>2
  <1>9. Fine(en0) \/ entry' # entry
    BY <1>1, <1>2
  <1>10. Fine([en0 EXCEPT !.written = 0]) \/ entry' # [entry EXCEPT ![e].written = 0]
    BY <1>1, <1>2 DEF EntryRecords
  <1>b. PICK b \in Accounts : b = a /\ Begun(b)
    BY <1>3
  <1> HIDE DEF a
  <1>11. CASE Responds(e)
    <2>1. d0.at = "request" /\ d0.next = PartLen + 1 /\ d0.from = a /\ DownloadElsewhere
      BY <1>2, <1>3, <1>11 DEF Responds, DownloadHolds, AccountHolds
    <2>5. CASE Refused(e)
      <3> DEFINE ne == [Blocked(en0) EXCEPT !.ready = TRUE]
      <3>1. UNCHANGED files /\ Goes(e, "refused") /\ entry' = [entry EXCEPT ![e] = ne]
        BY <2>5 DEF Refused
      <3>2. Fine(ne)
        BY <1>1, <1>2, <3>1 DEF EntryRecords, Blocked, a
      <3> HIDE DEF Fine, ne
      <3> QED  BY <1>4, <1>b, <1>8, <3>1, <3>2 DEF Goes
    <2>2. CASE FinishFailed(e) /\ UNCHANGED files
      BY <1>5, <2>1, <2>2
    <2>3. CASE ResumeIgnored(e)
      <3>1. UNCHANGED files
        BY <2>3 DEF ResumeIgnored
      <3>2. CASE Goes(e, "top") /\ entry' = [entry EXCEPT ![e].written = 0]
        <4> HIDE DEF Fine
        <4> QED  BY <1>4, <1>b, <1>8, <1>10, <3>1, <3>2 DEF Goes
      <3>3. CASE Goes(e, "unlink") /\ UNCHANGED entry
        <4> HIDE DEF Fine
        <4> QED  BY <1>4, <1>b, <1>8, <1>9, <3>1, <3>3 DEF Goes
      <3> QED  BY <2>3, <3>2, <3>3 DEF ResumeIgnored
    <2>4. CASE OpenPart(e) /\ entry' = [entry EXCEPT ![e].ready = TRUE]
      <3>1. PICK f \in Files :
              /\ (partFile # NoFile => f = partFile) /\ (partFile = NoFile => Unused(f))
              /\ partFile' = f
              /\ disk' = IF d0.next > 1 /\ partFile # NoFile THEN disk ELSE [disk EXCEPT ![f] = <<>>]
              /\ download' = [download EXCEPT ![e].at = "stream", ![e].file = f]
              /\ UNCHANGED finalFile
        BY <2>4 DEF OpenPart
      <3> DEFINE d == [d0 EXCEPT !.at = "stream", !.file = f]
                 ne == [en0 EXCEPT !.ready = TRUE]
      <3>2. d.at = "stream" /\ d.from = a /\ download' = [download EXCEPT ![e] = d]
        BY <1>1, <2>1, <3>1 DEF DownloadRecords
      <3>3. Fine(ne)
        BY <1>1, <1>2, <2>1, <2>4 DEF EntryRecords, a
      <3>4. f # finalFile /\ f # NoFile
        BY <1>1, <1>2, <3>1 DEF Unused, FilesHold
      <3>5. FinalIsWhole' /\ Begun(b)'
        <4>1. CASE d0.next > 1 /\ partFile # NoFile
          <5>1. UNCHANGED files
            BY <3>1, <4>1 DEF files
          <5> QED  BY <1>4, <1>b, <5>1
        <4>2. CASE ~(d0.next > 1 /\ partFile # NoFile)
          <5>1. /\ disk'[f] = <<>> /\ Len(disk'[f]) = 0
                /\ \A g \in Files \ {f} : disk'[g] = disk[g]
            BY <1>1, <3>1, <4>2
          <5>2. FinalIsWhole'
            BY <1>1, <1>3, <3>1, <3>4, <5>1 DEF FinalIsWhole
          <5>3. Begun(b)'
            BY <1>3, <1>b, <3>1, <5>1 DEF Begun
          <5> QED  BY <5>2, <5>3
        <4> QED  BY <4>1, <4>2
      <3> HIDE DEF d, ne, Fine
      <3> QED  BY <1>6, <1>b, <3>2, <3>3, <3>5
    <2> QED  BY <1>11, <2>2, <2>3, <2>4, <2>5 DEF Responds
  <1>20. CASE EndsRefused(e)
    BY <1>5, <1>20 DEF EndsRefused
  <1>21. CASE NoDirectory(e)
    <2>1. UNCHANGED <<entry, files>> /\ download' = [download EXCEPT ![e] = NoDownload]
      BY <1>21 DEF NoDirectory
    <2>2. NoDownload.at = "none"
      BY DEF NoDownload
    <2> HIDE DEF Fine
    <2> QED  BY <1>4, <1>b, <1>6, <1>9, <2>1, <2>2
  <1>12. CASE PartUnlinked(e)
    <2>1. /\ Goes(e, "top") /\ entry' = [entry EXCEPT ![e].written = 0]
          /\ partFile' = NoFile /\ disk' = Unlinked(partFile) /\ UNCHANGED finalFile
      BY <1>12 DEF PartUnlinked
    <2>2. FinalIsWhole' /\ Begun(b)'
      BY <1>1, <1>2, <1>3, <2>1, UnlinkedElse DEF FilesHold, FinalIsWhole, Begun
    <2> HIDE DEF Fine
    <2> QED  BY <1>8, <1>10, <1>b, <2>1, <2>2 DEF Goes
  <1>13. CASE Chunk(e)
    <2> DEFINE n == d0.next + 1
               w == en0.written + 1
               d == [d0 EXCEPT !.next = n]
               ne == [en0 EXCEPT !.written = w, !.progress = FALSE]
               chunk == <<d0.from, d0.next>>
    <2>1. /\ d0.at = "stream" /\ UNCHANGED <<partFile, finalFile>> /\ d0.next <= Size[d0.from]
          /\ disk' = [disk EXCEPT ![d0.file] = Append(@, chunk)]
          /\ download' = [download EXCEPT ![e] = d] /\ entry' = [entry EXCEPT ![e] = ne]
      BY <1>1, <1>13 DEF Chunk
    <2>2. /\ d0.next = PartLen + 1 /\ partFile # NoFile /\ d0.file = partFile /\ d0.from = a
      BY <1>2, <1>3, <2>1 DEF DownloadHolds, AccountHolds
    <2> HIDE DEF n, w
    <2>4. d.at = "stream" /\ d.from = a
      BY <1>1, <2>1, <2>2 DEF DownloadRecords
    <2>5. Fine(ne)
      BY <1>1, <1>2, <2>1 DEF EntryRecords, a
    <2>11. chunk[1] = b /\ PartLen + 1 <= Size[b]
      BY <1>b, <2>1, <2>2
    <2> HIDE DEF chunk
    <2>6. /\ disk'[partFile] = Append(disk[partFile], chunk)
          /\ \A g \in Files \ {partFile} : disk'[g] = disk[g]
      BY <1>1, <2>1, <2>2
    <2>7. /\ Len(disk'[partFile]) = PartLen + 1
          /\ \A i \in 1..PartLen + 1 : disk'[partFile][i][1] = b
      <3> DEFINE p == disk[partFile]
      <3>0. PartLen \in Nat
        BY <1>1 DEF PartLen
      <3>1. /\ p \in Seq(Sources \X Nat) /\ Len(p) = PartLen /\ disk'[partFile] = Append(p, chunk)
            /\ \A i \in 1..PartLen : p[i][1] = b
        BY <1>1, <1>b, <2>2, <2>6 DEF PartLen, Begun
      <3> HIDE DEF p
      <3>2. /\ Len(Append(p, chunk)) = PartLen + 1 /\ Append(p, chunk)[PartLen + 1] = chunk
            /\ \A i \in 1..PartLen : Append(p, chunk)[i] = p[i]
        BY <3>0, <3>1
      <3> QED  BY <3>0, <2>11, <3>1, <3>2
    <2>8. Begun(b)'
      BY <2>1, <2>7, <2>11 DEF Begun
    <2>9. FinalIsWhole'
      BY <1>1, <1>2, <1>3, <2>1, <2>2, <2>6 DEF FilesHold, FinalIsWhole
    <2> HIDE DEF d, ne, Fine
    <2> QED  BY <1>6, <1>b, <2>1, <2>4, <2>5, <2>8, <2>9
  <1>14. ASSUME NEW d \in DownloadRecords, NEW en, en \in EntryRecords, Judge(e, d, en),
                en.want = en0.want, en.complete = en0.complete, en.source = a, UNCHANGED files, DownloadElsewhere
         PROVE  OneAccount'
    <2>2. CASE FinishFailed(e)
      BY <1>5, <1>14, <2>2
    <2>3. CASE ~FinishFailed(e)
      <3>1. PICK at \in {"top", "replace"} :
              /\ download' = [download EXCEPT ![e] = [d EXCEPT !.at = at, !.file = NoFile]]
              /\ entry' = [entry EXCEPT ![e] = en]
        BY <1>14, <2>3 DEF Judge
      <3> DEFINE c == [d EXCEPT !.at = at, !.file = NoFile]
      <3>2. c.at = at
        BY <1>14 DEF DownloadRecords
      <3>3. Fine(en)
        BY <1>2, <1>14, <3>1
      <3>5. download' = [download EXCEPT ![e] = c]
        BY <3>1
      <3> HIDE DEF c, Fine
      <3> QED  BY <1>4, <1>b, <1>6, <1>14, <3>1, <3>2, <3>3, <3>5
    <2> QED  BY <2>2, <2>3
  <1>15. CASE ResponseEnds(e)
    BY <1>1, <1>14, <1>15 DEF ResponseEnds, a
  <1>16. CASE Interrupted(e)
    <2> DEFINE d == [d0 EXCEPT !.tries = @ + 1]
               en == [en0 EXCEPT !.reason = "retry"]
    <2>1. /\ UNCHANGED files /\ DownloadElsewhere
          /\ FinishFailed(e) \/ Judge(e, d, en)
      BY <1>16 DEF Interrupted
    <2>2. d \in DownloadRecords
      <3> HIDE DEF d0
      <3>1. d0.tries + 1 \in Nat
        BY <1>1 DEF DownloadRecords
      <3> QED  BY <1>1, <3>1 DEF DownloadRecords
    <2>3. /\ en \in EntryRecords /\ en.want = en0.want /\ en.complete = en0.complete /\ en.source = a
      BY <1>1 DEF EntryRecords, a
    <2> HIDE DEF d, en
    <2> QED  BY <1>5, <1>14, <2>1, <2>2, <2>3
  <1>17. CASE DiskFails(e)
    BY <1>5, <1>17 DEF DiskFails
  <1>18. CASE Replaced(e)
    <2>1. d0.at = "replace" /\ PartLen >= Size[b] /\ DownloadElsewhere
      BY <1>1, <1>2, <1>3, <1>b, <1>18 DEF Replaced, DownloadHolds
    <2>8. partFile # NoFile /\ PartLen = Len(disk[partFile])
      BY <1>1, <1>2, <1>3, <1>b, <2>1 DEF PartLen, EntryRecords
    <2>2. /\ finalFile' = partFile /\ partFile' = NoFile /\ disk' = Unlinked(finalFile)
          /\ Goes(e, "replaced") /\ UNCHANGED entry
      BY <1>18, <2>8 DEF Replaced
    <2>3. disk'[partFile] = disk[partFile]
      BY <1>1, <1>2, <2>8, <2>2, UnlinkedElse DEF FilesHold
    <2>4. disk[partFile] = Title(b)
      <3> DEFINE p == disk[partFile]
                 m == Size[b]
      <3>1. p \in Seq(Sources \X Nat) /\ m \in Nat /\ Len(p) \in Nat
        BY <1>1, <1>3, <1>b, <2>8
      <3>2. Len(p) = m
        BY <1>b, <2>1, <2>8, <3>1 DEF Begun
      <3>3. \A i \in 1..m : p[i][1] = b /\ p[i][2] = i /\ p[i] \in Sources \X Nat
        BY <1>b, <1>2, <2>8, <3>1, <3>2 DEF Begun, FilesHold, InPlace
      <3>4. \A i \in 1..m : p[i] = <<b, i>>
        BY <3>3
      <3> HIDE DEF p, m
      <3>5. p = [i \in 1..m |-> <<b, i>>]
        BY <3>1, <3>2, <3>4
      <3> QED  BY <3>5 DEF Title, p, m
    <2>6. FinalIsWhole' /\ Begun(b)'
      BY <1>3, <1>b, <2>2, <2>3, <2>4, <2>8 DEF FinalIsWhole, Begun
    <2> DEFINE d == [d0 EXCEPT !.at = "replaced"]
    <2>7. d.at = "replaced" /\ download' = [download EXCEPT ![e] = d]
      BY <1>1, <2>2 DEF DownloadRecords, Goes
    <2> HIDE DEF d, Fine
    <2> QED  BY <1>6, <1>9, <1>b, <2>2, <2>6, <2>7
  <1>19. CASE Completed(e)
    <2> DEFINE en == [en0 EXCEPT !.complete = TRUE, !.written = en0.want, !.reason = "none"]
    <2>1. d0.at = "replaced" /\ Finish(e, en) /\ UNCHANGED files /\ DownloadElsewhere
      BY <1>19 DEF Completed
    <2>2. en \in EntryRecords /\ en.want = en0.want /\ en.complete /\ en.source = a
      BY <1>1 DEF EntryRecords, a
    <2> HIDE DEF en
    <2>3. PICK ne \in EntryRecords : /\ entry' = [entry EXCEPT ![e] = ne]
                                     /\ ne.want = en0.want /\ ne.complete /\ ne.source = a
      BY <1>1, <2>1, <2>2, FinishGoes DEF DownloadElsewhere
    <2>4. partFile' = NoFile
      BY <1>2, <1>3, <2>1 DEF AccountHolds, files
    <2> QED  BY <1>4, <2>1, <2>3, <2>4, DownloadAccount DEF a
  <1> QED  BY <1>7, <1>11, <1>12, <1>13, <1>15, <1>16, <1>17, <1>18, <1>19, <1>20, <1>21 DEF DownloadStep

LEMMA CleanerStepAccount ==
  ASSUME LedgerInv, TitleHolds, OneAccount, CleanerStep
  PROVE  OneAccount'
  <1>1. /\ VodTypeOK /\ OneEntry /\ FilesHold /\ UNCHANGED <<download, session>>
        /\ partFile \in Files \union {NoFile} /\ finalFile \in Files \union {NoFile} /\ NoFile \notin Files
        /\ disk \in [Files -> Seq(Sources \X Nat)] /\ current \in Entries \union {NoEntry}
        /\ FinalIsWhole
    BY VodAssumption DEF LedgerInv, VodTypeOK, TitleHolds, OneAccount, CleanerStep, FinalUnlinked, LookForPart,
       PartDropped, EntryDropped, Evict, CleanerElsewhere
  <1>2. cleaner.at # "idle" => cleaner.entry = current /\ current # NoEntry
    BY <1>1 DEF OneEntry
  <1>3. ASSUME Drop(current), partFile = NoFile, UNCHANGED files
        PROVE  OneAccount'
    <2>1. current' = NoEntry /\ partFile' = NoFile /\ FinalIsWhole'
      BY <1>1, <1>3 DEF Drop, files, FinalIsWhole
    <2> QED  BY <2>1 DEF OneAccount
  <1>4. ASSUME UNCHANGED <<current, entry, partFile>>, cleaner'.at # "last", FinalIsWhole',
               partFile # NoFile => disk'[partFile] = disk[partFile]
        PROVE  OneAccount'
    <2>1. \A b : Begun(b) => Begun(b)'
      BY <1>4 DEF Begun
    <2>2. current = NoEntry => partFile = NoFile
      BY DEF OneAccount
    <2>3. CASE current # NoEntry /\ ~entry[current].complete
      <3>1. PICK b : b = entry[current].source /\ AccountHolds(b) /\ b = entry'[current'].source
        BY <1>4, <2>3 DEF OneAccount
      <3>2. Begun(b)'
        BY <2>1, <3>1 DEF AccountHolds
      <3>3. AccountHolds(entry[current].source)'
        BY <1>1, <1>4, <3>1, <3>2 DEF AccountHolds, Begun
      <3> QED  BY <1>4, <2>3, <3>3 DEF OneAccount
    <2>4. CASE current # NoEntry /\ entry[current].complete
      BY <1>4, <2>4 DEF OneAccount
    <2> QED  BY <1>4, <2>2, <2>3, <2>4 DEF OneAccount
  <1>5. UNCHANGED files => FinalIsWhole' /\ UNCHANGED <<partFile, disk>>
    BY <1>1 DEF files, FinalIsWhole
  <1>6. CASE FinalUnlinked
    <2>1. /\ finalFile' = NoFile /\ disk' = Unlinked(finalFile)
          /\ UNCHANGED <<current, entry, partFile>> /\ cleaner'.at = "between"
      BY <1>6 DEF FinalUnlinked, Cleans
    <2>2. FinalIsWhole' /\ (partFile # NoFile => disk'[partFile] = disk[partFile])
      BY <1>1, <2>1, UnlinkedElse DEF FilesHold, FinalIsWhole
    <2> QED  BY <1>4, <2>1, <2>2
  <1>7. CASE PartDropped
    <2>1. /\ partFile' = NoFile /\ disk' = Unlinked(partFile)
          /\ UNCHANGED <<current, entry, finalFile>>
      BY <1>7 DEF PartDropped
    <2>2. FinalIsWhole'
      BY <1>1, <2>1, UnlinkedElse DEF FilesHold, FinalIsWhole
    <2>3. ASSUME current # NoEntry, ~entry[current].complete
          PROVE  AccountHolds(entry[current].source)'
      <3>1. PICK b : b = entry[current].source /\ AccountHolds(b) /\ b = entry'[current'].source
        BY <2>1, <2>3 DEF OneAccount
      <3> QED  BY <1>1, <2>1, <3>1 DEF AccountHolds, Begun
    <2> QED  BY <2>1, <2>2, <2>3 DEF OneAccount
  <1>8. CASE LookForPart
    <2>1. /\ cleaner.entry = current /\ UNCHANGED files
          /\ \/ Drop(cleaner.entry) /\ partFile = NoFile
             \/ cleaner'.at = "part" /\ UNCHANGED <<current, entry>>
      BY <1>2, <1>8 DEF LookForPart, Cleans
    <2> QED  BY <1>3, <1>4, <1>5, <2>1
  <1>9. CASE EntryDropped
    <2>1. Drop(current) /\ UNCHANGED files /\ partFile = NoFile
      BY <1>2, <1>9 DEF EntryDropped, OneAccount
    <2> QED  BY <1>3, <2>1
  <1>10. ASSUME NEW e \in Entries, Evict(e) PROVE OneAccount'
    <2>1. /\ e = current /\ UNCHANGED files
          /\ \/ Drop(e) /\ partFile = NoFile
             \/ cleaner'.at \in {"final", "part"} /\ UNCHANGED <<current, entry>>
      BY <1>10 DEF Evict, Cleans
    <2> QED  BY <1>3, <1>4, <1>5, <2>1
  <1> QED  BY <1>6, <1>7, <1>8, <1>9, <1>10 DEF CleanerStep

\* The program begins with what one account sent, or with nothing.
LEMMA BeginsWithOne ==
  ASSUME partFile = NoFile, FinalIsWhole, finalFile \in Files \union {NoFile},
         current = IF finalFile = NoFile THEN NoEntry ELSE SomeEntry,
         entry = [x \in Entries |-> IF x = current THEN Imported(finalFile) ELSE Fresh],
         NoEntry \notin Entries, SomeEntry \in Entries
  PROVE  OneAccount
  <1>1. current # NoEntry => entry[current].complete
    <2>1. finalFile # NoFile => Imported(finalFile).complete
      BY DEF Imported, Fresh
    <2> QED  BY <2>1
  <1> QED  BY <1>1 DEF OneAccount

LEMMA SomeEntryIsOne == SomeEntry \in Entries /\ NoEntry \notin Entries
  BY VodAssumption DEF SomeEntry

LEMMA RestartAccount ==
  ASSUME LedgerInv, TitleHolds, OneAccount, Restart
  PROVE  OneAccount'
  <1>1. /\ partFile' = NoFile /\ finalFile \in Files \union {NoFile} /\ finalFile' = finalFile
        /\ disk' = [f \in Files |-> IF f = finalFile THEN disk[f] ELSE <<>>]
        /\ current' = IF finalFile = NoFile THEN NoEntry ELSE SomeEntry
        /\ entry' = [x \in Entries |-> IF x = current' THEN Imported(finalFile) ELSE Fresh]
    BY DEF LedgerInv, VodTypeOK, Restart
  <1>2. FinalIsWhole'
    BY <1>1 DEF OneAccount, FinalIsWhole
  <1>3. current' # NoEntry => entry'[current'].complete
    <2>1. Imported(finalFile).complete \/ finalFile = NoFile
      BY DEF Imported, Fresh
    <2> QED  BY <1>1, <2>1, SomeEntryIsOne
  <1> QED  BY <1>1, <1>2, <1>3 DEF OneAccount

LEMMA AccountKept ==
  ASSUME LedgerInv, TitleInv, AccountInv, [VodNext]_vodVars
  PROVE  AccountInv'
  <1> SUFFICES ASSUME {"eviction", "account"} \cap raced' = {} PROVE OneAccount'
    BY DEF AccountInv
  <1>1. raced \subseteq raced'
    BY RacedGrows
  <1>2. TitleHolds /\ OneAccount
    BY <1>1 DEF TitleInv, AccountInv
  <1>3. CASE OthersStep \/ UNCHANGED vodVars
    <2>1. UNCHANGED <<current, entry, download, session, cleaner, partFile, finalFile, disk>>
      BY <1>3 DEF OthersStep, vodVars, files
    <2> QED  BY <1>2, <2>1 DEF OneAccount, FinalIsWhole, AccountHolds, Begun
  <1> QED  BY <1>2, <1>3, SessionStepAccount, DownloadStepAccount, CleanerStepAccount, RestartAccount DEF VodNext

LEMMA AccountInit == VodInit => AccountInv
  <1> SUFFICES ASSUME VodInit PROVE OneAccount
    BY DEF AccountInv
  <1>1. PICK a \in Accounts :
          /\ disk = [g \in Files |-> IF g = finalFile THEN Title(a) ELSE <<>>]
          /\ current = IF finalFile = NoFile THEN NoEntry ELSE SomeEntry
          /\ entry = [x \in Entries |-> IF x = current THEN Imported(finalFile) ELSE Fresh]
    BY DEF VodInit
  <1>2. partFile = NoFile /\ finalFile \in Files \union {NoFile}
    <2>1. SomeFile \in Files
      BY VodAssumption DEF SomeFile
    <2> QED  BY <2>1 DEF VodInit
  <1>3. FinalIsWhole
    BY <1>1, <1>2 DEF FinalIsWhole
  <1> QED  BY <1>1, <1>2, <1>3, BeginsWithOne, SomeEntryIsOne

\* A complete title has a file as long as its entry says, every chunk in its place,
\* and one account's file, whole, whatever was interrupted, resumed, sent again or
\* restarted on the way, for all sets of clients, accounts and files, except for
\* the races that CompleteIsWhole names (_run_vod_cache_download, get_or_create,
\* import_existing_files).
THEOREM CompleteFilesAreWhole == VodSpec => []CompleteIsWhole
  <1>1. VodInit => LedgerInv /\ TitleInv /\ AccountInv
    BY LedgerInit, TitleInit, AccountInit
  <1>2. LedgerInv /\ TitleInv /\ AccountInv /\ [VodNext]_vodVars => LedgerInv' /\ TitleInv' /\ AccountInv'
    BY LedgerKept, TitleKept, AccountKept
  <1>3. LedgerInv /\ TitleInv /\ AccountInv => CompleteIsWhole
    <2> SUFFICES ASSUME LedgerInv, TitleInv, AccountInv, "eviction" \notin raced, NEW e \in Entries,
                        e = current, entry[e].complete, finalFile # NoFile
                 PROVE  /\ Len(disk[finalFile]) >= entry[e].want
                        /\ \A i \in 1..Len(disk[finalFile]) : disk[finalFile][i][2] = i
                        /\ "account" \notin raced => \E a \in Accounts : disk[finalFile] = Title(a)
      BY DEF CompleteIsWhole
    <2>1. EntryHolds(e) /\ FilesHold
      BY DEF TitleInv, TitleHolds
    <2>2. "account" \notin raced => FinalIsWhole
      BY DEF AccountInv, OneAccount
    <2> QED  BY <2>1, <2>2 DEF EntryHolds, FilesHold, InPlace, LongEnough, FinalIsWhole
  <1> QED  BY <1>1, <1>2, <1>3, PTL DEF VodSpec

-----------------------------------------------------------------------------
(* The lives of a 24/7 channel                                              *)

Places == {"resolve", "build", "starts", "ready", "play", "take", "next", "swap",
           "final", "clears", "over"}
LoopType == [at : Places, hand : Int, prep : {"none", "waits", "builds", "done"}, made : Int]
WatcherType ==
    [at : {"away", "waits", "started", "watching", "stopping", "cancels", "joins"}, life : Nat]

ChTypeOK ==
    /\ chOn \in BOOLEAN /\ chTask \in Nat
    /\ loops \in Seq(LoopType)
    /\ watchers \in [Stoppers -> WatcherType]

\* A loop that has not come to its end is that of the life which is on, or of
\* the one that stop() waits for.
OneGoes ==
    \A n \in DOMAIN loops : Going(n) =>
        IF chLock = NoWatcher THEN chOn /\ chTask = n ELSE watchers[chLock].life = n

\* lifecycle_lock is held by whoever stops the channel, which is then off.
StopHolds ==
    /\ chLock # NoWatcher =>
          ~chOn /\ chLock \in Stoppers /\ watchers[chLock].at \in {"cancels", "joins"}
    /\ \A w \in Stoppers : watchers[w].at \in {"cancels", "joins"} => chLock = w

\* The waiters of a life are told only once its loop has left its first wait for
\* a programme; from then on nothing is on air while it builds the next.
ToldAfterClose ==
    /\ chTold \subseteq DOMAIN loops
    /\ \A n \in chTold : loops[n].at # "resolve"
    /\ \A n \in chTold : loops[n].at \in {"build", "starts"} => chActive = 0

TurnsInv == ChTypeOK /\ OneGoes /\ StopHolds /\ ToldAfterClose

LEMMA LoopsCount ==
    ASSUME ChTypeOK
    PROVE  /\ DOMAIN loops = 1 .. Len(loops) /\ Len(loops) \in Nat
           /\ \A n \in DOMAIN loops : loops[n] \in LoopType
           /\ \A n \in DOMAIN loops : \A l \in LoopType :
                 /\ [loops EXCEPT ![n] = l] \in Seq(LoopType)
                 /\ DOMAIN [loops EXCEPT ![n] = l] = DOMAIN loops
    BY DEF ChTypeOK

LEMMA NewFfmpegIs ==
    ASSUME Spare # {}
    PROVE  NewFfmpeg \in Int /\ NewFfmpeg # 0
    BY DEF Spare, NewFfmpeg

ByLoop(n) == LoopStep(n) \/ PrepStarts(n) \/ PrepEnds(n)

ByWatchers ==
    \/ \E w \in Watchers : WatcherGoesOn(w) \/ WatcherRefers(w) \/ WatcherLeaves(w)
    \/ ChannelCleanupLooks

\* A step is one of these kinds.
LEMMA ChannelSteps ==
    ASSUME [ChannelNext]_chVars
    PROVE  \/ \E w \in Watchers : WatcherStarts(w)
           \/ ByWatchers
           \/ \E w \in Stoppers : StopTakes(w) \/ StopCancels(w) \/ StopJoins(w)
           \/ \E n \in DOMAIN loops : ByLoop(n)
           \/ \E f \in ffmpegs : FfmpegEnds(f)
           \/ UNCHANGED chVars
    BY DEF ChannelNext, ByLoop, ByWatchers

LEMMA LoopKept ==
    ASSUME ChTypeOK, NEW n \in DOMAIN loops, ByLoop(n)
    PROVE  /\ \E l \in LoopType : loops' = [loops EXCEPT ![n] = l]
           /\ UNCHANGED <<chTask, chLock, watchers>>
           /\ chOn' \in {chOn, FALSE}
  <1>1. loops[n] \in LoopType /\ loops[n] = [at |-> loops[n].at, hand |-> loops[n].hand,
                                             prep |-> loops[n].prep, made |-> loops[n].made]
    BY LoopsCount DEF LoopType
  <1>2. NewLoop \in LoopType /\ Over \in LoopType /\ Closing \in LoopType
    BY DEF NewLoop, Over, Closing, LoopType, Places
  <1>3. CASE LoopResolves(n)
    BY <1>1, <1>2, <1>3 DEF LoopResolves, LoopMoves, loopOnly, LoopType, Places
  <1>4. CASE LoopBuilds(n)
    <2>1. CASE Spare # {}
      BY <1>1, <1>2, <1>4, <2>1, NewFfmpegIs
      DEF LoopBuilds, LoopMoves, loopOnly, LoopType, Places, NewLoop
    <2>2. CASE Spare = {}
      BY <1>1, <1>2, <1>4, <2>2 DEF LoopBuilds, LoopMoves, loopOnly, LoopType, Places, NewLoop
    <2> QED  BY <2>1, <2>2
  <1>5. CASE LoopStarted(n)
    BY <1>1, <1>2, <1>5 DEF LoopStarted, LoopMoves, loopOnly, LoopType, Places, NewLoop
  <1>6. CASE LoopIsReady(n)
    BY <1>1, <1>2, <1>6 DEF LoopIsReady, LoopMoves, loopOnly, LoopType, Places
  <1>7. CASE LoopPlayed(n)
    BY <1>1, <1>2, <1>7 DEF LoopPlayed, LoopMoves, loopOnly, LoopType, Places
  <1>8. CASE LoopTakes(n)
    BY <1>1, <1>2, <1>8 DEF LoopTakes, LoopMoves, loopOnly, LoopType, Places, NewLoop
  <1>9. CASE LoopCloses(n) \/ LoopEnds(n) \/ LoopClears(n)
    BY <1>1, <1>2, <1>9 DEF LoopCloses, LoopEnds, LoopClears, LoopMoves, loopOnly, LoopType, Places
  <1>10. CASE PrepStarts(n)
    <2>1. CASE Spare # {}
      BY <1>1, <1>10, <2>1, NewFfmpegIs DEF PrepStarts, LoopMoves, loopOnly, LoopType
    <2>2. CASE Spare = {}
      BY <1>1, <1>10, <2>2 DEF PrepStarts, LoopMoves, loopOnly, LoopType
    <2> QED  BY <2>1, <2>2
  <1>11. CASE PrepEnds(n)
    <2>1. [loops[n] EXCEPT !.prep = "done"] \in LoopType
      BY <1>1 DEF LoopType
    <2>2. \A l \in LoopType : [l EXCEPT !.made = 0] \in LoopType
      BY DEF LoopType
    <2>3. [loops[n] EXCEPT !.prep = "done", !.made = 0]
              = [[loops[n] EXCEPT !.prep = "done"] EXCEPT !.made = 0]
      OBVIOUS
    <2> HIDE DEF LoopType
    <2> QED  BY <2>1, <2>2, <2>3, <1>11 DEF PrepEnds, LoopMoves, loopOnly
  <1> QED
    BY <1>3, <1>4, <1>5, <1>6, <1>7, <1>8, <1>9, <1>10, <1>11 DEF ByLoop, LoopStep

\* A cancelled loop has come to its end, or goes on to the next programme.
LEMMA CancelKept ==
    ASSUME ChTypeOK, NEW n \in DOMAIN loops, CancelsLoop(n)
    PROVE  \E l \in LoopType :
              loops' = [loops EXCEPT ![n] = l] /\ l.at \in {"over", "final", "next"}
  <1>1. Over \in LoopType /\ Over.at = "over"
    BY DEF NewLoop, Over, LoopType, Places
  <1>2. Closing \in LoopType /\ Closing.at = "final"
    BY DEF NewLoop, Closing, LoopType, Places
  <1>3. /\ [NewLoop EXCEPT !.at = "next"] \in LoopType
        /\ [NewLoop EXCEPT !.at = "next"].at = "next"
    BY DEF NewLoop, LoopType, Places
  <1> HIDE DEF LoopType, Over, Closing, NewLoop
  <1> QED  BY <1>1, <1>2, <1>3 DEF CancelsLoop

LEMMA ChannelTypeKept ==
    ASSUME ChTypeOK, [ChannelNext]_chVars
    PROVE  ChTypeOK'
  <1>1. CASE \E w \in Watchers : WatcherStarts(w)
    <2>1. PICK w \in Watchers : WatcherStarts(w)
      BY <1>1
    <2>2. NewLoop \in LoopType
      BY DEF NewLoop, LoopType, Places
    <2>3. loops' \in Seq(LoopType) /\ Len(loops') \in Nat
      <3>1. loops' = loops \/ loops' = Append(loops, NewLoop)
        BY <2>1 DEF WatcherStarts
      <3>2. loops \in Seq(LoopType)
        BY DEF ChTypeOK
      <3> HIDE DEF LoopType
      <3> QED  BY <2>2, <3>1, <3>2
    <2>4. watchers' \in [Stoppers -> WatcherType]
      BY <2>1, <2>3 DEF WatcherStarts, ChTypeOK, Turns, Stoppers, WatcherType
    <2>5. chOn' \in BOOLEAN /\ chTask' \in Nat
      BY <2>1, <2>3 DEF WatcherStarts, ChTypeOK
    <2> QED  BY <2>3, <2>4, <2>5 DEF ChTypeOK
  <1>2. CASE ByWatchers
    BY <1>2, SMTT(20) DEF ByWatchers, WatcherGoesOn, WatcherRefers, WatcherLeaves, ChannelCleanupLooks,
        ChTypeOK, Turns, Away, Stoppers, WatcherType
  <1>3. ASSUME NEW w \in Stoppers, StopTakes(w) \/ StopCancels(w) \/ StopJoins(w)
        PROVE  ChTypeOK'
    <2>1. loops' \in Seq(LoopType)
      <3>1. CASE StopCancels(w)
        <4>1. CASE UNCHANGED loops
          BY <4>1 DEF ChTypeOK
        <4>2. CASE watchers[w].life \in DOMAIN loops /\ CancelsLoop(watchers[w].life)
          BY <4>2, CancelKept, LoopsCount
        <4> QED  BY <3>1, <4>1, <4>2 DEF StopCancels, Alive
      <3> QED  BY <1>3, <3>1 DEF StopTakes, StopJoins, ChTypeOK
    <2>2. watchers' \in [Stoppers -> WatcherType]
      BY <1>3 DEF StopTakes, StopCancels, StopJoins, ChTypeOK, Turns, Away, WatcherType
    <2>3. chOn' \in {chOn, FALSE} /\ chTask' \in {chTask, 0}
      BY <1>3 DEF StopTakes, StopCancels, StopJoins
    <2>4. chOn' \in BOOLEAN
      BY <2>3, Zenon DEF ChTypeOK
    <2>5. chTask' \in Nat
      BY <2>3 DEF ChTypeOK
    <2> QED  BY <2>1, <2>2, <2>4, <2>5 DEF ChTypeOK
  <1>4. ASSUME NEW n \in DOMAIN loops, ByLoop(n)
        PROVE  ChTypeOK'
    <2>1. PICK l \in LoopType : loops' = [loops EXCEPT ![n] = l]
      BY <1>4, LoopKept
    <2>2. loops' \in Seq(LoopType)
      BY <2>1, LoopsCount
    <2>3. UNCHANGED <<chTask, watchers>> /\ chOn' \in {chOn, FALSE}
      BY <1>4, LoopKept
    <2> QED  BY <2>2, <2>3 DEF ChTypeOK
  <1>5. CASE \E f \in ffmpegs : FfmpegEnds(f)
    BY <1>5 DEF FfmpegEnds, loopOnly, ChTypeOK
  <1>6. CASE UNCHANGED chVars
    BY <1>6 DEF chVars, ChTypeOK
  <1> QED  BY <1>1, <1>2, <1>3, <1>4, <1>5, <1>6, ChannelSteps

\* The loops other than the one that moves stay as they are.
LEMMA OthersStay ==
    ASSUME ChTypeOK, NEW n \in DOMAIN loops, NEW l \in LoopType, loops' = [loops EXCEPT ![n] = l]
    PROVE  /\ DOMAIN loops' = DOMAIN loops /\ loops'[n] = l
           /\ \A m \in DOMAIN loops \ {n} : loops'[m] = loops[m]
    BY LoopsCount

\* A loop that moves was not over, and turns the channel off only at its end.
LEMMA LoopGoes ==
    ASSUME ChTypeOK, NEW n \in DOMAIN loops, ByLoop(n)
    PROVE  /\ Going(n)' => Going(n)
           /\ chOn' = chOn \/ (Going(n) /\ ~Going(n)')
  <1>1. loops[n] \in LoopType /\ loops[n] = [at |-> loops[n].at, hand |-> loops[n].hand,
                                             prep |-> loops[n].prep, made |-> loops[n].made]
    BY LoopsCount DEF LoopType
  <1>2. n \in DOMAIN loops /\ \A l : [loops EXCEPT ![n] = l][n] = l
    OBVIOUS
  <1>3. Over.at = "over" /\ Closing.at = "final"
    BY DEF NewLoop, Over, Closing
  <1>4. CASE LoopResolves(n)
    BY <1>1, <1>2, <1>3, <1>4 DEF LoopResolves, LoopMoves, Going
  <1>5. CASE LoopBuilds(n) \/ LoopTakes(n) \/ LoopPlayed(n)
    BY <1>5 DEF LoopBuilds, LoopTakes, LoopPlayed, Going
  <1>6. CASE LoopStarted(n)
    BY <1>1, <1>2, <1>3, <1>6 DEF LoopStarted, LoopMoves, Going
  <1>7. CASE LoopIsReady(n)
    BY <1>1, <1>2, <1>3, <1>7 DEF LoopIsReady, LoopMoves, Going
  <1>8. CASE LoopCloses(n)
    BY <1>1, <1>2, <1>3, <1>8 DEF LoopCloses, LoopMoves, Going
  <1>9. CASE LoopEnds(n) \/ LoopClears(n)
    BY <1>1, <1>2, <1>3, <1>9 DEF LoopEnds, LoopClears, LoopMoves, Going
  <1>10. CASE PrepStarts(n) \/ PrepEnds(n)
    BY <1>10 DEF PrepStarts, PrepEnds, Preparing, Going
  <1> QED  BY <1>4, <1>5, <1>6, <1>7, <1>8, <1>9, <1>10 DEF ByLoop, LoopStep

LEMMA LifecycleKept ==
    ASSUME ChTypeOK, OneGoes, StopHolds, [ChannelNext]_chVars
    PROVE  (OneGoes /\ StopHolds)'
  <1>0. NoWatcher \notin Stoppers /\ Watchers \subseteq Stoppers /\ ChannelCleanup \in Stoppers
    BY ChannelAssumption DEF Stoppers
  <1>1. ASSUME NEW w \in Watchers, WatcherStarts(w)
        PROVE  (OneGoes /\ StopHolds)'
    <2>1. chLock = NoWatcher /\ chLock' = NoWatcher
      BY <1>1 DEF WatcherStarts
    <2>2. StopHolds'
      <3>1. \A v \in Stoppers : watchers[v].at \notin {"cancels", "joins"}
        BY <1>0, <2>1 DEF StopHolds
      <3>2. \A v \in Stoppers \ {w} : watchers'[v] = watchers[v]
        BY <1>1 DEF WatcherStarts, Turns, ChTypeOK
      <3>3. watchers'[w].at \in {"started", "waits"}
        BY <1>0, <1>1 DEF WatcherStarts, Turns, ChTypeOK, WatcherType
      <3> QED  BY <2>1, <3>1, <3>2, <3>3 DEF StopHolds
    <2>3. CASE UNCHANGED <<chOn, chTask, loops>>
      BY <2>1, <2>2, <2>3 DEF OneGoes, Going
    <2>4. CASE chOn' = TRUE /\ loops' = Append(loops, NewLoop) /\ chTask' = Len(loops')
               /\ ~(chOn /\ Alive(chTask))
      <3>1. NewLoop \in LoopType
        BY DEF NewLoop, LoopType, Places
      <3>2. /\ DOMAIN loops' = DOMAIN loops \union {Len(loops) + 1} /\ Len(loops') = Len(loops) + 1
            /\ \A m \in DOMAIN loops : loops'[m] = loops[m]
        BY <2>4, <3>1, LoopsCount DEF ChTypeOK
      <3>3. \A m \in DOMAIN loops : ~Going(m)
        BY <2>1, <2>4 DEF OneGoes, Going, Alive
      <3> QED  BY <2>1, <2>2, <2>4, <3>2, <3>3 DEF OneGoes, Going
    <2> QED  BY <1>1, <2>3, <2>4 DEF WatcherStarts
  <1>2. CASE ByWatchers
    <2>1. UNCHANGED <<chOn, chTask, chLock, loops>>
      BY <1>2 DEF ByWatchers, WatcherGoesOn, WatcherRefers, WatcherLeaves, ChannelCleanupLooks
    <2>2. \A w \in Stoppers : watchers[w].at \in {"cancels", "joins"} => watchers'[w] = watchers[w]
      BY <1>0, <1>2 DEF ByWatchers, WatcherGoesOn, WatcherRefers, WatcherLeaves, ChannelCleanupLooks,
          Turns, ChTypeOK, WatcherType
    <2>3. \A w \in Stoppers : watchers'[w].at \in {"cancels", "joins"} => watchers'[w] = watchers[w]
      BY <1>0, <1>2 DEF ByWatchers, WatcherGoesOn, WatcherRefers, WatcherLeaves, ChannelCleanupLooks,
          Turns, ChTypeOK, WatcherType, Away
    <2> QED  BY <2>1, <2>2, <2>3 DEF OneGoes, StopHolds, Going
  <1>3. ASSUME NEW w \in Stoppers, StopTakes(w)
        PROVE  (OneGoes /\ StopHolds)'
    <2>1. CASE watchers' = [watchers EXCEPT ![w] = Away] /\ UNCHANGED <<chOn, chTask, chLock, loops>>
      BY <1>0, <1>3, <2>1 DEF StopTakes, OneGoes, StopHolds, Going, ChTypeOK, WatcherType, Away
    <2>2. CASE /\ chOn' = FALSE /\ chLock' = w /\ chLock = NoWatcher /\ UNCHANGED loops
               /\ watchers' = [watchers EXCEPT ![w] = [at |-> "cancels", life |-> chTask]]
      <3>1. \A v \in Stoppers : watchers[v].at \notin {"cancels", "joins"}
        BY <1>0, <2>2 DEF StopHolds
      <3>2. watchers'[w] = [at |-> "cancels", life |-> chTask]
            /\ \A v \in Stoppers \ {w} : watchers'[v] = watchers[v]
        BY <2>2 DEF ChTypeOK
      <3> QED  BY <1>0, <2>2, <3>1, <3>2 DEF OneGoes, StopHolds, Going
    <2> QED  BY <1>3, <2>1, <2>2 DEF StopTakes
  <1>4. ASSUME NEW w \in Stoppers, StopCancels(w)
        PROVE  (OneGoes /\ StopHolds)'
    <2>1. /\ UNCHANGED <<chOn, chTask, chLock>> /\ chLock = w
          /\ watchers' = [watchers EXCEPT ![w].at = "joins"]
      BY <1>4 DEF StopCancels, Turns, StopHolds
    <2>2. watchers'[w].at = "joins" /\ watchers'[w].life = watchers[w].life
          /\ \A v \in Stoppers \ {w} : watchers'[v] = watchers[v]
      BY <2>1 DEF ChTypeOK, WatcherType
    <2>3. StopHolds'
      BY <2>1, <2>2 DEF StopHolds
    <2>4. CASE UNCHANGED loops
      BY <1>0, <2>1, <2>2, <2>3, <2>4 DEF OneGoes, Going
    <2>5. CASE watchers[w].life \in DOMAIN loops /\ CancelsLoop(watchers[w].life)
      <3>1. PICK l \in LoopType : loops' = [loops EXCEPT ![watchers[w].life] = l]
        BY <2>5, CancelKept
      <3>2. DOMAIN loops' = DOMAIN loops
            /\ \A m \in DOMAIN loops \ {watchers[w].life} : loops'[m] = loops[m]
        BY <2>5, <3>1, OthersStay
      <3> QED  BY <1>0, <2>1, <2>2, <2>3, <3>2 DEF OneGoes, Going
    <2> QED  BY <1>4, <2>4, <2>5 DEF StopCancels, Alive
  <1>5. ASSUME NEW w \in Stoppers, StopJoins(w)
        PROVE  (OneGoes /\ StopHolds)'
    <2>1. chLock = w /\ chLock' = NoWatcher /\ UNCHANGED <<chOn, chTask, loops>>
      BY <1>5 DEF StopJoins, StopHolds
    <2>2. \A n \in DOMAIN loops : ~Going(n)
      BY <1>0, <1>5, <2>1 DEF StopJoins, OneGoes, Going, Alive
    <2>3. watchers'[w] = Away /\ \A v \in Stoppers \ {w} : watchers'[v] = watchers[v]
      BY <1>5 DEF StopJoins, ChTypeOK
    <2> QED  BY <1>0, <2>1, <2>2, <2>3 DEF OneGoes, StopHolds, Going, Away
  <1>6. ASSUME NEW n \in DOMAIN loops, ByLoop(n)
        PROVE  (OneGoes /\ StopHolds)'
    <2>1. PICK l \in LoopType : loops' = [loops EXCEPT ![n] = l]
      BY <1>6, LoopKept
    <2>2. DOMAIN loops' = DOMAIN loops /\ \A m \in DOMAIN loops \ {n} : loops'[m] = loops[m]
      BY <2>1, OthersStay
    <2>3. UNCHANGED <<chTask, chLock, watchers>> /\ chOn' \in {chOn, FALSE}
      BY <1>6, LoopKept
    <2>4. \A m \in DOMAIN loops : Going(m)' => Going(m)
      BY <1>6, <2>2, LoopGoes DEF Going
    <2>5. StopHolds'
      <3>1. ~chOn => ~chOn'
        BY <2>3
      <3> QED  BY <2>3, <3>1 DEF StopHolds
    <2>6. CASE chOn' = chOn
      BY <2>2, <2>3, <2>4, <2>5, <2>6 DEF OneGoes
    <2>7. CASE Going(n) /\ ~Going(n)'
      <3>1. \A m \in DOMAIN loops \ {n} : ~Going(m) \/ chLock # NoWatcher
        BY <2>7 DEF OneGoes
      <3> QED  BY <2>2, <2>3, <2>4, <2>5, <2>7, <3>1 DEF OneGoes
    <2> QED  BY <1>6, <2>6, <2>7, LoopGoes
  <1>7. CASE (\E f \in ffmpegs : FfmpegEnds(f)) \/ UNCHANGED chVars
    BY <1>7 DEF FfmpegEnds, loopOnly, chVars, OneGoes, StopHolds, Going
  <1> QED  BY <1>1, <1>2, <1>3, <1>4, <1>5, <1>6, <1>7, ChannelSteps

LEMMA OneLoop ==
    ASSUME OneGoes, NEW n \in DOMAIN loops, NEW m \in DOMAIN loops, Going(n), Going(m)
    PROVE  n = m
    BY DEF OneGoes

\* A loop tells its own waiters only, never while it builds a programme, and puts
\* a runtime on air only before its end; it comes to build by a close, or first.
LEMMA ToldOf ==
    ASSUME ChTypeOK, NEW n \in DOMAIN loops, ByLoop(n)
    PROVE  /\ chTold' \in {chTold, chTold \union {n}}
           /\ loops'[n].at # "resolve"
           /\ loops'[n].at \in {"build", "starts"} =>
                  /\ chTold' = chTold
                  /\ \/ chActive' = 0
                     \/ chActive' = chActive /\ loops[n].at \in {"resolve", "build"}
           /\ chActive' \in {0, chActive} \/ Going(n)
  <1>1. loops[n] \in LoopType /\ loops[n] = [at |-> loops[n].at, hand |-> loops[n].hand,
                                             prep |-> loops[n].prep, made |-> loops[n].made]
    BY LoopsCount DEF LoopType
  <1>2. n \in DOMAIN loops /\ \A l : [loops EXCEPT ![n] = l][n] = l
    OBVIOUS
  <1>3. Over.at = "over" /\ Closing.at = "final"
    BY DEF NewLoop, Over, Closing
  <1>4. \A a : [loops[n] EXCEPT !.at = a].at = a
    BY <1>1
  <1>5. CASE LoopResolves(n)
    BY <1>2, <1>3, <1>4, <1>5 DEF LoopResolves, LoopMoves
  <1> DEFINE playing == [NewLoop EXCEPT !.at = "play", !.prep = "waits"]
             isReady == [NewLoop EXCEPT !.at = "ready"]
             goesNext == [NewLoop EXCEPT !.at = "next"]
             swaps(h) == [NewLoop EXCEPT !.at = "swap", !.hand = h]
             starts(h) == [loops[n] EXCEPT !.at = "starts", !.hand = h]
             plays == [loops[n] EXCEPT !.at = "play", !.prep = "waits"]
  <1>a. /\ playing.at = "play" /\ isReady.at = "ready" /\ goesNext.at = "next"
        /\ \A h : swaps(h).at = "swap"
    BY DEF NewLoop
  <1>b. plays.at = "play" /\ \A h : starts(h).at = "starts"
    BY <1>1
  <1>6. CASE LoopBuilds(n)
    <2>1. /\ loops[n].at = "build" /\ chTold' \in {chTold, chTold \union {n}}
          /\ \/ loops'[n] = Closing /\ UNCHANGED chActive
             \/ loops'[n] = playing
             \/ loops'[n] = starts(NewFfmpeg) /\ UNCHANGED <<chTold, chActive>>
      BY <1>2, <1>6 DEF LoopBuilds, LoopMoves
    <2> HIDE DEF playing, starts
    <2> QED  BY <1>3, <1>a, <1>b, <2>1 DEF Going
  <1>7. CASE LoopStarted(n)
    <2>1. /\ loops'[n] = Closing \/ loops'[n] = playing \/ loops'[n] = isReady
          /\ loops[n].at = "starts" /\ chTold' \in {chTold, chTold \union {n}}
      BY <1>2, <1>7 DEF LoopStarted, LoopMoves
    <2> HIDE DEF playing, isReady
    <2> QED  BY <1>3, <1>a, <2>1 DEF Going
  <1>8. CASE LoopIsReady(n)
    <2>1. /\ loops'[n] = Closing \/ loops'[n] = plays
          /\ UNCHANGED chActive /\ chTold' = chTold \union {n}
      BY <1>2, <1>8 DEF LoopIsReady, LoopMoves
    <2> HIDE DEF plays
    <2> QED  BY <1>3, <1>b, <2>1
  <1>9. CASE LoopPlayed(n) \/ LoopTakes(n)
    <2>1. /\ \/ loops'[n] = Closing
             \/ loops'[n] = [loops[n] EXCEPT !.at = "take"]
             \/ loops'[n] = swaps(loops[n].made) \/ loops'[n] = goesNext
          /\ UNCHANGED <<chActive, chTold>>
      BY <1>2, <1>9 DEF LoopPlayed, LoopTakes, LoopMoves
    <2>2. [loops[n] EXCEPT !.at = "take"].at = "take" /\ swaps(loops[n].made).at = "swap"
      BY <1>1, <1>a
    <2> HIDE DEF swaps, goesNext
    <2>3. loops'[n].at \in {"final", "take", "swap", "next"}
      BY <1>3, <1>a, <2>1, <2>2
    <2> QED  BY <2>1, <2>3
  <1>10. CASE LoopCloses(n) \/ LoopEnds(n)
    BY <1>2, <1>3, <1>4, <1>10 DEF LoopCloses, LoopEnds, LoopMoves
  <1>11. CASE LoopClears(n)
    BY <1>2, <1>3, <1>11 DEF LoopClears, LoopMoves
  <1>12. CASE PrepStarts(n) \/ PrepEnds(n)
    <2>1. /\ loops[n].at \in {"play", "take"} /\ UNCHANGED <<chActive, chTold>>
          /\ \/ loops'[n] = [loops[n] EXCEPT !.prep = "builds", !.made = NewFfmpeg]
             \/ loops'[n] = [loops[n] EXCEPT !.prep = "done"]
             \/ loops'[n] = [loops[n] EXCEPT !.prep = "done", !.made = 0]
      BY <1>2, <1>12 DEF PrepStarts, PrepEnds, Preparing, LoopMoves
    <2>2. loops'[n].at = loops[n].at
      BY <1>1, <2>1
    <2> QED  BY <2>1, <2>2
  <1> QED  BY <1>5, <1>6, <1>7, <1>8, <1>9, <1>10, <1>11, <1>12 DEF ByLoop, LoopStep

LEMMA ToldKept ==
    ASSUME ChTypeOK, OneGoes, ToldAfterClose, [ChannelNext]_chVars
    PROVE  ToldAfterClose'
  <1>1. CASE \E w \in Watchers : WatcherStarts(w)
    <2>0. UNCHANGED <<chActive, chTold>>
      BY <1>1 DEF WatcherStarts
    <2>1. CASE UNCHANGED loops
      BY <2>0, <2>1 DEF ToldAfterClose
    <2>2. CASE loops' = Append(loops, NewLoop)
      <3>1. NewLoop \in LoopType
        BY DEF NewLoop, LoopType, Places
      <3>2. /\ DOMAIN loops' = DOMAIN loops \union {Len(loops) + 1}
            /\ \A m \in DOMAIN loops : loops'[m] = loops[m]
        BY <2>2, <3>1, LoopsCount DEF ChTypeOK
      <3> QED  BY <2>0, <3>2 DEF ToldAfterClose
    <2> QED  BY <1>1, <2>1, <2>2 DEF WatcherStarts
  <1>2. ASSUME NEW w \in Stoppers, StopTakes(w) \/ StopCancels(w) \/ StopJoins(w)
        PROVE  ToldAfterClose'
    <2>1. chTold' = chTold /\ chActive' \in {0, chActive}
      BY <1>2 DEF StopTakes, StopCancels, StopJoins
    <2>2. CASE UNCHANGED loops
      BY <2>1, <2>2 DEF ToldAfterClose
    <2>3. ASSUME NEW n \in DOMAIN loops, CancelsLoop(n)
          PROVE  ToldAfterClose'
      <3>1. PICK l \in LoopType : loops' = [loops EXCEPT ![n] = l] /\ l.at \in {"over", "final", "next"}
        BY <2>3, CancelKept
      <3>2. /\ DOMAIN loops' = DOMAIN loops /\ loops'[n] = l
            /\ \A m \in DOMAIN loops \ {n} : loops'[m] = loops[m]
        BY <3>1, OthersStay
      <3> QED  BY <2>1, <3>1, <3>2 DEF ToldAfterClose
    <2> QED  BY <1>2, <2>2, <2>3 DEF StopTakes, StopCancels, StopJoins, Alive
  <1>3. ASSUME NEW n \in DOMAIN loops, ByLoop(n)
        PROVE  ToldAfterClose'
    <2>1. PICK l \in LoopType : loops' = [loops EXCEPT ![n] = l]
      BY <1>3, LoopKept
    <2>2. DOMAIN loops' = DOMAIN loops /\ \A m \in DOMAIN loops \ {n} : loops'[m] = loops[m]
      BY <2>1, OthersStay
    <2>3. /\ chTold' \in {chTold, chTold \union {n}}
          /\ loops'[n].at # "resolve"
          /\ loops'[n].at \in {"build", "starts"} =>
                 /\ chTold' = chTold
                 /\ \/ chActive' = 0
                    \/ chActive' = chActive /\ loops[n].at \in {"resolve", "build"}
          /\ chActive' \in {0, chActive} \/ Going(n)
      BY <1>3, ToldOf
    <2>4. chTold' \subseteq DOMAIN loops'
      BY <2>2, <2>3 DEF ToldAfterClose
    <2>5. \A m \in chTold' : loops'[m].at # "resolve"
      BY <2>2, <2>3 DEF ToldAfterClose
    <2>6. ASSUME NEW m \in chTold', loops'[m].at \in {"build", "starts"}
          PROVE  chActive' = 0
      <3>1. CASE m = n
        BY <2>3, <2>6, <3>1 DEF ToldAfterClose
      <3>2. CASE m # n
        <4>1. m \in chTold /\ m \in DOMAIN loops /\ loops[m].at \in {"build", "starts"}
          BY <2>2, <2>3, <2>6, <3>2 DEF ToldAfterClose
        <4>2. chActive = 0 /\ ~Going(n)
          BY <3>2, <4>1, OneLoop DEF ToldAfterClose, Going
        <4> QED  BY <2>3, <4>2
      <3> QED  BY <3>1, <3>2
    <2> QED  BY <2>4, <2>5, <2>6 DEF ToldAfterClose
  <1>4. CASE ByWatchers \/ (\E f \in ffmpegs : FfmpegEnds(f)) \/ UNCHANGED chVars
    <2>1. UNCHANGED <<loops, chActive, chTold>>
      BY <1>4 DEF ByWatchers, WatcherGoesOn, WatcherRefers, WatcherLeaves, ChannelCleanupLooks,
          FfmpegEnds, chVars
    <2> QED  BY <2>1 DEF ToldAfterClose
  <1> QED  BY <1>1, <1>2, <1>3, <1>4, ChannelSteps

LEMMA TurnsInvHolds == ChannelInit /\ [][ChannelNext]_chVars => []TurnsInv
  <1>1. ChannelInit => TurnsInv
    <2> SUFFICES ASSUME ChannelInit
                 PROVE  TurnsInv
      OBVIOUS
    <2>1. loops = <<>> /\ DOMAIN loops = {} /\ loops \in Seq(LoopType)
      BY DEF ChannelInit
    <2>2. ChTypeOK
      BY <2>1 DEF ChannelInit, ChTypeOK, WatcherType, Away
    <2>3. NoWatcher \notin Stoppers
      BY ChannelAssumption DEF Stoppers
    <2>4. StopHolds
      BY <2>3 DEF ChannelInit, StopHolds, Away
    <2>5. OneGoes /\ ToldAfterClose
      BY <2>1 DEF ChannelInit, OneGoes, ToldAfterClose
    <2> QED  BY <2>2, <2>4, <2>5 DEF TurnsInv
  <1>2. TurnsInv /\ [ChannelNext]_chVars => TurnsInv'
    <2> SUFFICES ASSUME TurnsInv, [ChannelNext]_chVars
                 PROVE  TurnsInv'
      OBVIOUS
    <2>1. ChTypeOK /\ OneGoes /\ StopHolds /\ ToldAfterClose
      BY DEF TurnsInv
    <2>2. ChTypeOK'
      BY <2>1, ChannelTypeKept
    <2>3. (OneGoes /\ StopHolds)'
      BY <2>1, LifecycleKept
    <2>4. ToldAfterClose'
      BY <2>1, ToldKept
    <2> QED  BY <2>2, <2>3, <2>4 DEF TurnsInv
  <1> QED  BY <1>1, <1>2, PTL

\* Two lives of a 24/7 channel never build or play at one time, though a loop that
\* is cancelled may swallow that and go on, and from its second programme on a life
\* has closed what it played before it starts the next: for any viewers, any number
\* of lives, and however stop(), start() and the loops interleave.
THEOREM LivesAlternate == ChannelInit /\ [][ChannelNext]_chVars => []LivesTakeTurns
  <1>1. TurnsInv => LivesTakeTurns
    BY OneLoop DEF TurnsInv, ToldAfterClose, LivesTakeTurns
  <1> QED  BY <1>1, TurnsInvHolds, PTL
=============================================================================
