---------------------------- MODULE DvrSync_proofs ----------------------------
(* What the recordings table keeps for any number of rows, entries and        *)
(* requests and however the two reconciliations overlap: its types, and that  *)
(* a commit never drops a recording which TVHeadend never had and which its   *)
(* user did not delete.  Then what the task queue they are tasks of keeps for *)
(* any tasks, names and priorities: its types, the agreement of its set of    *)
(* names with its queue, and that no request of a serial task is dropped      *)
(* unless its work is queued already.                                         *)
EXTENDS DvrSync, FiniteSetTheorems, TLAPS

Places == {"idle", "list", "load", "prune", "add", "push", "end"}

\* Tables of rows, and lists of entries.
Tables == UNION {[D -> Row] : D \in SUBSET Nat}
Lists == UNION {[D -> States] : D \in SUBSET Nat}

RunRecord == [at : Places, map : Lists, base : Tables, new : Tables,
              doomed : SUBSET Nat, todo : SUBSET Nat, unknown : SUBSET Nat]

\* A table t with newest row n, when users have deleted the rows in a.
TableOK(t, n, a) ==
    /\ t \in Tables
    /\ DOMAIN t \subseteq 1..n
    /\ \A id \in DOMAIN t : t[id].status = "deleted" => id \in a

\* What the run r knows fits that table and what it means to do is justified.
RunOK(r, t, n, m, a) ==
    /\ r \in RunRecord
    /\ DOMAIN r.map \subseteq 1..m /\ r.unknown \subseteq DOMAIN r.map
    /\ r.at # "add" => r.unknown = {}
    /\ TableOK(r.base, n, a) /\ TableOK(r.new, n, a)
    /\ DOMAIN r.new = DOMAIN r.base
    /\ r.doomed \union r.todo \subseteq DOMAIN r.new
    /\ \A id \in DOMAIN r.base :
          /\ r.base[id].entry # NoEntry => r.new[id].entry # NoEntry
          /\ r.base[id].entry # NoEntry /\ id \in DOMAIN t => t[id].entry # NoEntry
          /\ id \in r.doomed => id \in a \/ r.base[id].entry # NoEntry

\* The inductive invariant.
RInv ==
    /\ lastRow \in Nat /\ lastEntry \in Nat /\ events \in 0..MaxEvents
    /\ asked \subseteq 1..lastRow
    /\ TableOK(rows, lastRow, asked)
    /\ tvh \in Lists /\ DOMAIN tvh \subseteq 1..lastEntry
    /\ run \in [Runs -> RunRecord]
    /\ \A k \in Runs : RunOK(run[k], rows, lastRow, lastEntry, asked)

\* How the table, the counters and the history may move on: no row returns,
\* and none loses its entry.
Later(t, n, m, a, t2, n2, m2, a2) ==
    /\ n2 \in Nat /\ m2 \in Nat /\ n2 >= n /\ m2 >= m /\ a \subseteq a2
    /\ \A id \in DOMAIN t2 \intersect 1..n :
          id \in DOMAIN t /\ (t[id].entry # NoEntry => t2[id].entry # NoEntry)

Moves == Later(rows, lastRow, lastEntry, asked, rows', lastRow', lastEntry', asked')

-----------------------------------------------------------------------------
(* Tables and records                                                       *)

\* A table is a function from row ids to rows.
LEMMA TableIs ==
    ASSUME NEW f
    PROVE  f \in Tables <=> f \in [DOMAIN f -> Row] /\ DOMAIN f \subseteq Nat
  BY DEF Tables

\* A list is a function from entries to states.
LEMMA ListIs ==
    ASSUME NEW f
    PROVE  f \in Lists <=> f \in [DOMAIN f -> States] /\ DOMAIN f \subseteq Nat
  BY DEF Lists

\* The empty function is both.
LEMMA EmptyIs == <<>> \in Tables /\ <<>> \in Lists /\ DOMAIN <<>> = {}
<1>1. DOMAIN <<>> = {}
  OBVIOUS
<1>2. <<>> \in [{} -> Row] /\ <<>> \in [{} -> States]
  OBVIOUS
<1> QED
  BY <1>1, <1>2 DEF Tables, Lists

\* Restriction of a table or a list.
LEMMA LessIs ==
    ASSUME NEW f, NEW S
    PROVE  /\ DOMAIN Less(f, S) = DOMAIN f \ S
           /\ \A y \in DOMAIN f \ S : Less(f, S)[y] = f[y]
           /\ f \in Tables => Less(f, S) \in Tables
           /\ f \in Lists => Less(f, S) \in Lists
<1>1. /\ DOMAIN Less(f, S) = DOMAIN f \ S
      /\ \A y \in DOMAIN f \ S : Less(f, S)[y] = f[y]
  BY DEF Less
<1>2. ASSUME f \in Tables PROVE Less(f, S) \in Tables
  <2>1. f \in [DOMAIN f -> Row] /\ DOMAIN f \subseteq Nat
    BY <1>2, TableIs
  <2>2. Less(f, S) \in [DOMAIN f \ S -> Row]
    BY <2>1 DEF Less
  <2> QED
    BY <2>1, <2>2 DEF Tables
<1>3. ASSUME f \in Lists PROVE Less(f, S) \in Lists
  <2>1. f \in [DOMAIN f -> States] /\ DOMAIN f \subseteq Nat
    BY <1>3, ListIs
  <2>2. Less(f, S) \in [DOMAIN f \ S -> States]
    BY <2>1 DEF Less
  <2> QED
    BY <2>1, <2>2 DEF Lists
<1> QED
  BY <1>1, <1>2, <1>3

\* Extension of a table or a list.
LEMMA WithIs ==
    ASSUME NEW f, NEW x \in Nat, NEW v
    PROVE  /\ DOMAIN With(f, x, v) = DOMAIN f \union {x}
           /\ With(f, x, v)[x] = v
           /\ \A y \in DOMAIN f : y # x => With(f, x, v)[y] = f[y]
           /\ f \in Tables /\ v \in Row => With(f, x, v) \in Tables
           /\ f \in Lists /\ v \in States => With(f, x, v) \in Lists
<1>1. /\ DOMAIN With(f, x, v) = DOMAIN f \union {x}
      /\ With(f, x, v)[x] = v
      /\ \A y \in DOMAIN f : y # x => With(f, x, v)[y] = f[y]
  BY DEF With
<1>2. ASSUME f \in Tables, v \in Row PROVE With(f, x, v) \in Tables
  <2>1. f \in [DOMAIN f -> Row] /\ DOMAIN f \subseteq Nat
    BY <1>2, TableIs
  <2>2. With(f, x, v) \in [DOMAIN f \union {x} -> Row]
    BY <1>2, <2>1 DEF With
  <2> QED
    BY <2>1, <2>2 DEF Tables
<1>3. ASSUME f \in Lists, v \in States PROVE With(f, x, v) \in Lists
  <2>1. f \in [DOMAIN f -> States] /\ DOMAIN f \subseteq Nat
    BY <1>3, ListIs
  <2>2. With(f, x, v) \in [DOMAIN f \union {x} -> States]
    BY <1>3, <2>1 DEF With
  <2> QED
    BY <2>1, <2>2 DEF Lists
<1> QED
  BY <1>1, <1>2, <1>3

\* A run that does nothing holds nothing.
LEMMA IdleOK ==
    ASSUME NEW p \in Places, NEW t, NEW n, NEW m, NEW a
    PROVE  RunOK([Idle EXCEPT !.at = p], t, n, m, a) /\ RunOK(Idle, t, n, m, a)
<1>1. Idle \in RunRecord
  BY EmptyIs DEF Idle, RunRecord, Places
<1>2. [Idle EXCEPT !.at = p] \in RunRecord
  BY <1>1 DEF RunRecord
<1>3. ASSUME NEW r \in {Idle, [Idle EXCEPT !.at = p]}
      PROVE  /\ r.map = <<>> /\ r.base = <<>> /\ r.new = <<>>
             /\ r.doomed = {} /\ r.todo = {} /\ r.unknown = {}
  BY <1>3 DEF Idle
<1> QED
  BY <1>1, <1>2, <1>3, EmptyIs DEF RunOK, TableOK

\* What a run knows stays justified as the table moves on.
LEMMA RunKept ==
    ASSUME NEW r, NEW t, NEW n \in Nat, NEW m \in Nat, NEW a,
           NEW t2, NEW n2, NEW m2, NEW a2,
           RunOK(r, t, n, m, a), Later(t, n, m, a, t2, n2, m2, a2)
    PROVE  RunOK(r, t2, n2, m2, a2)
<1>1. TableOK(r.base, n2, a2) /\ TableOK(r.new, n2, a2)
  BY DEF RunOK, TableOK, Later
<1>2. DOMAIN r.base \subseteq 1..n
  BY DEF RunOK, TableOK
<1>3. DOMAIN r.map \subseteq 1..m2
  BY DEF RunOK, Later
<1> QED
  BY <1>1, <1>2, <1>3 DEF RunOK, Later

\* A step in which one run moves keeps the invariant of the runs.
LEMMA OneRunMoves ==
    ASSUME RInv, NEW k \in Runs, NEW r, Moves, run' = [run EXCEPT ![k] = r],
           RunOK(r, rows', lastRow', lastEntry', asked')
    PROVE  /\ run' \in [Runs -> RunRecord]
           /\ \A j \in Runs : RunOK(run'[j], rows', lastRow', lastEntry', asked')
<1>1. r \in RunRecord
  BY DEF RunOK
<1>2. ASSUME NEW j \in Runs PROVE RunOK(run'[j], rows', lastRow', lastEntry', asked')
  <2>1. CASE j = k
    BY <2>1 DEF RInv
  <2>2. CASE j # k
    <3>1. run'[j] = run[j]
      BY <2>2 DEF RInv
    <3>2. RunOK(run[j], rows, lastRow, lastEntry, asked) /\ lastRow \in Nat /\ lastEntry \in Nat
      BY DEF RInv
    <3> QED
      BY <3>1, <3>2, RunKept DEF Moves
  <2> QED
    BY <2>1, <2>2
<1> QED
  BY <1>1, <1>2 DEF RInv

\* So does a step in which none does.
LEMMA NoRunMoves ==
    ASSUME RInv, Moves, UNCHANGED run
    PROVE  /\ run' \in [Runs -> RunRecord]
           /\ \A j \in Runs : RunOK(run'[j], rows', lastRow', lastEntry', asked')
<1>1. ASSUME NEW j \in Runs PROVE RunOK(run'[j], rows', lastRow', lastEntry', asked')
  <2>1. RunOK(run[j], rows, lastRow, lastEntry, asked) /\ lastRow \in Nat /\ lastEntry \in Nat
    BY DEF RInv
  <2> QED
    BY <2>1, RunKept DEF Moves
<1> QED
  BY <1>1 DEF RInv

\* If neither the table nor the counters change they have moved on.
LEMMA StillMoves ==
    ASSUME RInv, UNCHANGED <<rows, lastRow, asked>>,
           lastEntry' \in Nat, lastEntry' >= lastEntry
    PROVE  Moves
  BY DEF RInv, Moves, Later

\* What is left to show of a step in which run k moves to r.
LEMMA StepKeepsInvariant ==
    ASSUME RInv, NEW k \in Runs, NEW r, Moves, run' = [run EXCEPT ![k] = r],
           RunOK(r, rows', lastRow', lastEntry', asked'),
           TableOK(rows', lastRow', asked'), asked' \subseteq 1..lastRow',
           tvh' \in Lists, DOMAIN tvh' \subseteq 1..lastEntry',
           events' \in 0..MaxEvents
    PROVE  RInv'
<1>1. lastRow' \in Nat /\ lastEntry' \in Nat
  BY DEF Moves, Later
<1>2. /\ run' \in [Runs -> RunRecord]
      /\ \A j \in Runs : RunOK(run'[j], rows', lastRow', lastEntry', asked')
  BY OneRunMoves
<1> QED
  BY <1>1, <1>2 DEF RInv

\* The same when the table, TVHeadend and the history stay as they are.
LEMMA QuietStep ==
    ASSUME RInv, NEW k \in Runs, NEW r, run' = [run EXCEPT ![k] = r],
           UNCHANGED <<rows, lastRow, tvh, lastEntry, asked>>,
           RunOK(r, rows, lastRow, lastEntry, asked), events' \in 0..MaxEvents
    PROVE  RInv'
<1>1. lastEntry' \in Nat /\ lastEntry' >= lastEntry
  BY DEF RInv
<1>2. Moves
  BY <1>1, StillMoves
<1>3. /\ TableOK(rows', lastRow', asked') /\ asked' \subseteq 1..lastRow'
      /\ tvh' \in Lists /\ DOMAIN tvh' \subseteq 1..lastEntry'
      /\ RunOK(r, rows', lastRow', lastEntry', asked')
  BY DEF RInv
<1> QED
  BY <1>2, <1>3, StepKeepsInvariant

\* A request or an act of TVHeadend stays within the bound on events.
LEMMA EventKept == ASSUME RInv, Event PROVE events' \in 0..MaxEvents
  BY DvrAssumption DEF RInv, Event, DvrAssumption

\* So does a call of a run, failing or not.
LEMMA FaultKept ==
    ASSUME RInv, Fault \/ NoFault PROVE events' \in 0..MaxEvents
  BY EventKept DEF RInv, Fault, NoFault

\* What the invariant says of one run.
LEMMA RunFacts ==
    ASSUME RInv, NEW k \in Runs
    PROVE  /\ run[k] \in RunRecord
           /\ RunOK(run[k], rows, lastRow, lastEntry, asked)
           /\ run[k].base \in [DOMAIN run[k].base -> Row]
           /\ run[k].new \in [DOMAIN run[k].base -> Row]
           /\ run[k].map \in [DOMAIN run[k].map -> States]
           /\ DOMAIN run[k].base \subseteq 1..lastRow
           /\ DOMAIN run[k].new = DOMAIN run[k].base
           /\ rows \in [DOMAIN rows -> Row] /\ DOMAIN rows \subseteq 1..lastRow
           /\ lastRow \in Nat /\ lastEntry \in Nat
<1>1. run[k] \in RunRecord /\ RunOK(run[k], rows, lastRow, lastEntry, asked)
  BY DEF RInv
<1>2. /\ run[k].base \in Tables /\ run[k].new \in Tables /\ run[k].map \in Lists
      /\ DOMAIN run[k].new = DOMAIN run[k].base
      /\ DOMAIN run[k].base \subseteq 1..lastRow
  BY <1>1 DEF RunOK, RunRecord, TableOK
<1>3. rows \in Tables /\ DOMAIN rows \subseteq 1..lastRow
  BY DEF RInv, TableOK
<1> QED
  BY <1>1, <1>2, <1>3, TableIs, ListIs DEF RInv

-----------------------------------------------------------------------------
(* The initial state                                                        *)

\* The recordings there are when the program starts satisfy the invariant.
LEMMA InitiallyOK == DvrInit => RInv
<1> SUFFICES ASSUME DvrInit PROVE RInv
  OBVIOUS
<1>1. Kept \in Nat /\ MaxEvents \in Nat
  BY DvrAssumption DEF DvrAssumption
<1>2. rows \in [1..Kept -> Row] /\ tvh \in [1..Kept -> States]
  BY <1>1 DEF DvrInit, Row, Statuses, States
<1>3. rows \in Tables /\ tvh \in Lists
  BY <1>1, <1>2 DEF Tables, Lists
<1>4. TableOK(rows, lastRow, asked)
  BY <1>2, <1>3 DEF TableOK, DvrInit
<1>5. \A k \in Runs : run[k] = Idle
  BY DEF DvrInit
<1>6. \A k \in Runs : RunOK(run[k], rows, lastRow, lastEntry, asked)
  BY <1>5, IdleOK DEF Places
<1>7. run \in [Runs -> RunRecord]
  BY <1>6 DEF DvrInit, RunOK
<1> QED
  BY <1>1, <1>2, <1>3, <1>4, <1>6, <1>7 DEF RInv, DvrInit

-----------------------------------------------------------------------------
(* Requests and TVHeadend                                                   *)

\* A new recording has no entry, and no run knows of it yet.
LEMMA CreateKeeps == ASSUME RInv, CreateRecording PROVE RInv'
<1> DEFINE fresh == [status |-> "scheduled", entry |-> NoEntry, synced |-> FALSE]
<1>1. /\ lastRow \in Nat /\ lastRow' = lastRow + 1 /\ rows' = With(rows, lastRow + 1, fresh)
      /\ UNCHANGED <<tvh, lastEntry, run, asked>> /\ events' \in 0..MaxEvents
  BY EventKept DEF RInv, CreateRecording, Request
<1>2. fresh \in Row /\ fresh.status = "scheduled"
  BY DEF Row, Statuses, States
<1> HIDE DEF fresh
<1>3. rows \in Tables /\ DOMAIN rows \subseteq 1..lastRow
  BY DEF RInv, TableOK
<1>4. /\ rows' \in Tables /\ DOMAIN rows' = DOMAIN rows \union {lastRow + 1}
      /\ rows'[lastRow + 1] = fresh
      /\ \A id \in DOMAIN rows : rows'[id] = rows[id]
  <2>1. lastRow + 1 \in Nat /\ \A id \in DOMAIN rows : id # lastRow + 1
    BY <1>1, <1>3
  <2>2. /\ DOMAIN With(rows, lastRow + 1, fresh) = DOMAIN rows \union {lastRow + 1}
        /\ With(rows, lastRow + 1, fresh)[lastRow + 1] = fresh
        /\ \A id \in DOMAIN rows : With(rows, lastRow + 1, fresh)[id] = rows[id]
    BY <2>1 DEF With
  <2>3. With(rows, lastRow + 1, fresh) \in Tables
    BY <1>2, <1>3, <2>1, WithIs
  <2> QED
    BY <1>1, <2>2, <2>3
<1>5. TableOK(rows', lastRow', asked')
  BY <1>1, <1>2, <1>3, <1>4 DEF RInv, TableOK
<1>6. Moves
  BY <1>1, <1>3, <1>4 DEF RInv, Moves, Later
<1> QED
  BY <1>1, <1>5, <1>6, NoRunMoves DEF RInv

\* A request to stop leaves every entry and every deletion where it was.
LEMMA StopKeeps ==
    ASSUME RInv, NEW id \in DOMAIN rows, StopRecording(id) PROVE RInv'
<1>1. /\ rows' = [rows EXCEPT ![id].status = "stop_requested", ![id].synced = FALSE]
      /\ UNCHANGED <<lastRow, tvh, lastEntry, run, asked>> /\ events' \in 0..MaxEvents
  BY EventKept DEF StopRecording, Request
<1>2. rows \in [DOMAIN rows -> Row] /\ DOMAIN rows \subseteq Nat /\ DOMAIN rows \subseteq 1..lastRow
  BY TableIs DEF RInv, TableOK
<1>3. /\ rows' \in [DOMAIN rows -> Row]
      /\ \A i \in DOMAIN rows : rows'[i].entry = rows[i].entry
      /\ \A i \in DOMAIN rows : rows'[i].status \in {rows[i].status, "stop_requested"}
  BY <1>1, <1>2 DEF Row, Statuses, States
<1>4. rows' \in Tables
  BY <1>2, <1>3 DEF Tables
<1>5. TableOK(rows', lastRow', asked')
  BY <1>1, <1>3, <1>4 DEF RInv, TableOK
<1>6. Moves
  BY <1>1, <1>3 DEF RInv, Moves, Later
<1> QED
  BY <1>1, <1>5, <1>6, NoRunMoves DEF RInv

\* A row is marked as deleted by the step that records the request.
LEMMA DeleteKeeps ==
    ASSUME RInv, NEW id \in DOMAIN rows, DeleteRecording(id) PROVE RInv'
<1>1. /\ rows' = [rows EXCEPT ![id].status = "deleted", ![id].synced = FALSE]
      /\ asked' = asked \union {id}
      /\ UNCHANGED <<lastRow, tvh, lastEntry, run>> /\ events' \in 0..MaxEvents
  BY EventKept DEF DeleteRecording, Request
<1>2. rows \in [DOMAIN rows -> Row] /\ DOMAIN rows \subseteq Nat /\ DOMAIN rows \subseteq 1..lastRow
  BY TableIs DEF RInv, TableOK
<1>3. /\ rows' \in [DOMAIN rows -> Row]
      /\ \A i \in DOMAIN rows : rows'[i].entry = rows[i].entry
      /\ \A i \in DOMAIN rows : i # id => rows'[i].status = rows[i].status
  BY <1>1, <1>2 DEF Row, Statuses
<1>4. rows' \in Tables
  BY <1>2, <1>3 DEF Tables
<1>5. TableOK(rows', lastRow', asked')
  BY <1>1, <1>2, <1>3, <1>4 DEF RInv, TableOK
<1>6. Moves
  BY <1>1, <1>3 DEF RInv, Moves, Later
<1> QED
  BY <1>1, <1>2, <1>5, <1>6, NoRunMoves DEF RInv

\* What TVHeadend does on its own touches no row.
LEMMA TvhKeeps == ASSUME RInv, TvhMoves PROVE RInv'
<1>1. UNCHANGED <<rows, lastRow, run, asked>>
  BY DEF TvhMoves
<1>2. tvh \in Lists /\ DOMAIN tvh \subseteq 1..lastEntry /\ lastEntry \in Nat
  BY DEF RInv
<1>3. tvh \in [DOMAIN tvh -> States]
  BY <1>2, ListIs
<1>4. /\ tvh' \in Lists /\ DOMAIN tvh' \subseteq 1..lastEntry'
      /\ lastEntry' \in Nat /\ lastEntry' >= lastEntry /\ events' \in 0..MaxEvents
  <2>1. CASE \E e \in DOMAIN tvh : Advances(e)
    <3>1. PICK e \in DOMAIN tvh : Advances(e)
      BY <2>1
    <3>2. \E s \in States : tvh' = [tvh EXCEPT ![e] = s]
      BY <3>1 DEF Advances, States
    <3>3. tvh' \in [DOMAIN tvh -> States] /\ DOMAIN tvh \subseteq Nat
      BY <1>2, <1>3, <3>2
    <3>4. tvh' \in Lists /\ DOMAIN tvh' = DOMAIN tvh
      BY <3>3 DEF Lists
    <3> QED
      BY <1>2, <3>1, <3>4, EventKept DEF Advances
  <2>2. CASE \E e \in DOMAIN tvh : OthersRemove(e)
    <3>1. PICK e \in DOMAIN tvh : OthersRemove(e)
      BY <2>2
    <3>2. tvh' \in Lists /\ DOMAIN tvh' \subseteq DOMAIN tvh
      BY <1>2, <3>1, LessIs DEF OthersRemove
    <3> QED
      BY <1>2, <3>1, <3>2, EventKept DEF OthersRemove
  <2>3. CASE OthersAdd
    <3>1. tvh' \in Lists /\ DOMAIN tvh' = DOMAIN tvh \union {lastEntry + 1}
      <4>1. lastEntry + 1 \in Nat /\ "scheduled" \in States
        BY <1>2 DEF States
      <4> QED
        BY <1>2, <2>3, <4>1, WithIs DEF OthersAdd
    <3> QED
      BY <1>2, <2>3, <3>1, EventKept DEF OthersAdd
  <2> QED
    BY <2>1, <2>2, <2>3 DEF TvhMoves
<1>5. Moves
  BY <1>1, <1>4, StillMoves
<1> QED
  BY <1>1, <1>4, <1>5, NoRunMoves DEF RInv

\* A task that begins or ends leaves all but its own run alone.
LEMMA TasksKeep ==
    ASSUME RInv, PeriodicTick \/ PeriodicEnds \/ QueueTurns PROVE RInv'
<1>1. \E k \in Runs : \E r \in {Idle, [Idle EXCEPT !.at = "list"]} :
          run' = [run EXCEPT ![k] = r]
  BY DEF PeriodicTick, PeriodicEnds, QueueTurns, Began, Goes, Runs
<1>2. PICK k \in Runs : \E r \in {Idle, [Idle EXCEPT !.at = "list"]} :
          run' = [run EXCEPT ![k] = r]
  BY <1>1
<1>3. PICK r \in {Idle, [Idle EXCEPT !.at = "list"]} : run' = [run EXCEPT ![k] = r]
  BY <1>2
<1>4. RunOK(r, rows, lastRow, lastEntry, asked)
  BY <1>3, IdleOK DEF Places
<1>5. UNCHANGED <<rows, lastRow, tvh, lastEntry, asked, events>>
  BY DEF PeriodicTick, PeriodicEnds, QueueTurns, UnchangedDvr
<1> QED
  BY <1>3, <1>4, <1>5, QuietStep DEF RInv

-----------------------------------------------------------------------------
(* The steps of a run up to its first commit                                *)

\* The entries a run lists are entries TVHeadend has given out.
LEMMA ListKeeps ==
    ASSUME RInv, NEW k \in Runs, ListEntries(k), UNCHANGED asked PROVE RInv'
<1>1. PICK r \in {[run[k] EXCEPT !.at = "load", !.map = tvh], Ended,
                  [run[k] EXCEPT !.at = "load", !.map = <<>>]} :
          run' = [run EXCEPT ![k] = r]
  BY DEF ListEntries, Goes
<1>2. /\ RunOK(run[k], rows, lastRow, lastEntry, asked) /\ run[k] \in RunRecord
      /\ tvh \in Lists /\ DOMAIN tvh \subseteq 1..lastEntry
      /\ run[k].at = "list"
  BY RunFacts DEF RInv, ListEntries, At
<1>3. ASSUME NEW f \in Lists, DOMAIN f \subseteq 1..lastEntry
      PROVE  RunOK([run[k] EXCEPT !.at = "load", !.map = f],
                   rows, lastRow, lastEntry, asked)
  <2> DEFINE q == [run[k] EXCEPT !.at = "load", !.map = f]
  <2>1. /\ q \in RunRecord /\ q.at = "load" /\ q.map = f
        /\ q.base = run[k].base /\ q.new = run[k].new /\ q.doomed = run[k].doomed
        /\ q.todo = run[k].todo /\ q.unknown = run[k].unknown
    BY <1>2, <1>3 DEF RunRecord, Places
  <2>2. run[k].unknown = {}
    BY <1>2 DEF RunOK
  <2> QED
    BY <1>2, <1>3, <2>1, <2>2 DEF RunOK
<1>4. RunOK(r, rows, lastRow, lastEntry, asked)
  <2>1. RunOK(Ended, rows, lastRow, lastEntry, asked)
    BY IdleOK DEF Ended, Places
  <2>2. RunOK([run[k] EXCEPT !.at = "load", !.map = <<>>], rows, lastRow, lastEntry, asked)
    BY <1>3, EmptyIs
  <2>3. RunOK([run[k] EXCEPT !.at = "load", !.map = tvh], rows, lastRow, lastEntry, asked)
    BY <1>2, <1>3
  <2> QED
    BY <1>1, <2>1, <2>2, <2>3
<1>5. /\ UNCHANGED <<rows, lastRow, tvh, lastEntry>>
      /\ Fault \/ NoFault
  BY DEF ListEntries
<1> QED
  BY <1>1, <1>4, <1>5, FaultKept, QuietStep

\* What a run means to delete once it has loaded the rows, a user asked for.
LEMMA LoadKeeps ==
    ASSUME RInv, NEW k \in Runs, LoadRows(k), UNCHANGED asked PROVE RInv'
<1> DEFINE gone == {id \in DOMAIN rows : rows[id].status = "deleted"}
           r == [run[k] EXCEPT !.at = "prune", !.base = rows, !.new = rows,
                   !.todo = {id \in gone : Listed(k, rows[id])},
                   !.doomed = {id \in gone : ~Listed(k, rows[id])}]
<1>1. /\ run' = [run EXCEPT ![k] = r]
      /\ UNCHANGED <<rows, lastRow, tvh, lastEntry, events>>
      /\ run[k].at = "load"
  BY DEF LoadRows, Goes, At
<1>2. /\ run[k] \in RunRecord /\ RunOK(run[k], rows, lastRow, lastEntry, asked)
      /\ rows \in Tables /\ TableOK(rows, lastRow, asked) /\ DOMAIN rows \subseteq Nat
  BY RunFacts, TableIs DEF RInv, TableOK
<1>3. gone \subseteq DOMAIN rows /\ gone \subseteq asked
  BY <1>2 DEF TableOK
<1> HIDE DEF gone
<1>4. /\ r \in RunRecord /\ r.at = "prune" /\ r.base = rows /\ r.new = rows
      /\ r.map = run[k].map /\ r.unknown = run[k].unknown
      /\ r.todo \subseteq gone /\ r.doomed \subseteq gone
  <2>1. /\ {id \in gone : Listed(k, rows[id])} \in SUBSET Nat
        /\ {id \in gone : ~Listed(k, rows[id])} \in SUBSET Nat
    BY <1>2, <1>3
  <2> QED
    BY <1>2, <2>1 DEF RunRecord, Places
<1>5. RunOK(r, rows, lastRow, lastEntry, asked)
  BY <1>1, <1>2, <1>3, <1>4 DEF RunOK
<1>6. events' \in 0..MaxEvents
  BY <1>1 DEF RInv
<1> HIDE DEF r
<1> QED
  BY <1>1, <1>5, <1>6, QuietStep

\* A run may revise what it wants of one row, and do less.
LEMMA Revised ==
    ASSUME RInv, NEW k \in Runs, NEW r \in RunRecord, NEW id,
           r.at = run[k].at, r.map = run[k].map, r.unknown = run[k].unknown,
           r.base = run[k].base, DOMAIN r.new = DOMAIN run[k].new,
           r.doomed \subseteq run[k].doomed, r.todo \subseteq run[k].todo,
           \A i \in DOMAIN r.new : i # id => r.new[i] = run[k].new[i],
           r.new[id].status = "deleted" => id \in asked,
           id \in DOMAIN r.base /\ r.base[id].entry # NoEntry => r.new[id].entry # NoEntry
    PROVE  RunOK(r, rows, lastRow, lastEntry, asked)
<1>1. RunOK(run[k], rows, lastRow, lastEntry, asked)
  BY DEF RInv
<1>2. TableOK(r.new, lastRow, asked)
  <2>1. TableOK(run[k].new, lastRow, asked)
    BY <1>1 DEF RunOK
  <2>2. r.new \in Tables
    BY DEF RunRecord
  <2> QED
    BY <2>1, <2>2 DEF TableOK
<1>3. DOMAIN r.new = DOMAIN r.base /\ r.doomed \union r.todo \subseteq DOMAIN r.new
  BY <1>1 DEF RunOK
<1>4. \A i \in DOMAIN r.base :
          /\ r.base[i].entry # NoEntry => r.new[i].entry # NoEntry
          /\ r.base[i].entry # NoEntry /\ i \in DOMAIN rows => rows[i].entry # NoEntry
          /\ i \in r.doomed => i \in asked \/ r.base[i].entry # NoEntry
  BY <1>1, <1>3 DEF RunOK
<1>5. /\ DOMAIN r.map \subseteq 1..lastEntry /\ r.unknown \subseteq DOMAIN r.map
      /\ r.at # "add" => r.unknown = {}
      /\ TableOK(r.base, lastRow, asked)
  BY <1>1 DEF RunOK
<1> QED
  BY <1>2, <1>3, <1>4, <1>5 DEF RunOK

\* A table with one row replaced.
LEMMA NewRow ==
    ASSUME RInv, NEW k \in Runs, NEW id \in DOMAIN run[k].new, NEW row \in Row
    PROVE  LET g == [run[k].new EXCEPT ![id] = row]
           IN  /\ g \in Tables /\ DOMAIN g = DOMAIN run[k].new /\ g[id] = row
               /\ \A i \in DOMAIN g : i # id => g[i] = run[k].new[i]
<1>1. /\ run[k] \in RunRecord
      /\ run[k].new \in [DOMAIN run[k].new -> Row] /\ DOMAIN run[k].new \subseteq Nat
  BY RunFacts, TableIs DEF RunRecord
<1> DEFINE g == [run[k].new EXCEPT ![id] = row]
<1>2. /\ g \in [DOMAIN run[k].new -> Row] /\ DOMAIN g = DOMAIN run[k].new /\ g[id] = row
      /\ \A i \in DOMAIN g : i # id => g[i] = run[k].new[i]
  BY <1>1
<1>3. g \in Tables
  BY <1>1, <1>2 DEF Tables
<1> QED
  BY <1>2, <1>3

\* What marking a row makes of a run.
LEMMA MarksKeep ==
    ASSUME RInv, NEW k \in Runs, NEW id \in DOMAIN run[k].new, NEW row \in Row,
           row.status = "deleted" => id \in asked,
           run[k].base[id].entry # NoEntry => row.entry # NoEntry
    PROVE  RunOK([run[k] EXCEPT !.new[id] = row, !.todo = @ \ {id}],
                 rows, lastRow, lastEntry, asked)
<1> DEFINE g == [run[k].new EXCEPT ![id] = row]
           r == [run[k] EXCEPT !.new = g, !.todo = @ \ {id}]
<1>1. run[k] \in RunRecord
  BY RunFacts
<1>2. /\ g \in Tables /\ DOMAIN g = DOMAIN run[k].new /\ g[id] = row
      /\ \A i \in DOMAIN g : i # id => g[i] = run[k].new[i]
  BY NewRow
<1>3. r = [run[k] EXCEPT !.new[id] = row, !.todo = @ \ {id}]
  BY <1>1 DEF RunRecord
<1> HIDE DEF g
<1>4. /\ r \in RunRecord /\ r.at = run[k].at /\ r.map = run[k].map
      /\ r.unknown = run[k].unknown /\ r.base = run[k].base
      /\ r.new = g /\ r.todo \subseteq run[k].todo /\ r.doomed = run[k].doomed
  BY <1>1, <1>2 DEF RunRecord
<1> HIDE DEF r
<1>5. RunOK(r, rows, lastRow, lastEntry, asked)
  BY <1>2, <1>4, Revised
<1> QED
  BY <1>3, <1>5

\* A call to delete an entry revises the sync mark of its row.
LEMMA DeleteEntryKeeps ==
    ASSUME RInv, NEW k \in Runs, NEW id, DeleteEntry(k, id), UNCHANGED asked
    PROVE  RInv'
<1>1. /\ id \in run[k].todo /\ UNCHANGED <<rows, lastRow, lastEntry>>
      /\ Fault \/ NoFault
      /\ tvh' = tvh \/ \E S : tvh' = Less(tvh, S)
  BY DEF DeleteEntry
<1>2. PICK s \in BOOLEAN : Marks(k, id, [run[k].new[id] EXCEPT !.synced = s])
  BY DEF DeleteEntry
<1> DEFINE row == [run[k].new[id] EXCEPT !.synced = s]
           r == [run[k] EXCEPT !.new[id] = row, !.todo = @ \ {id}]
<1>3. /\ RunOK(run[k], rows, lastRow, lastEntry, asked)
      /\ id \in DOMAIN run[k].new /\ DOMAIN run[k].new = DOMAIN run[k].base
      /\ run[k].new[id] \in Row
  BY <1>1, RunFacts DEF RunOK
<1>4. row \in Row /\ row.status = run[k].new[id].status /\ row.entry = run[k].new[id].entry
  BY <1>3 DEF Row
<1>5. row.status = "deleted" => id \in asked
  BY <1>3, <1>4 DEF RunOK, TableOK
<1>6. run[k].base[id].entry # NoEntry => row.entry # NoEntry
  BY <1>3, <1>4 DEF RunOK
<1> HIDE DEF row
<1>7. RunOK(r, rows, lastRow, lastEntry, asked)
  BY <1>3, <1>4, <1>5, <1>6, MarksKeep
<1>8. run' = [run EXCEPT ![k] = r]
  BY <1>2 DEF Marks, Goes, row
<1> HIDE DEF r
<1>9. tvh' \in Lists /\ DOMAIN tvh' \subseteq 1..lastEntry'
  <2>1. tvh \in Lists /\ DOMAIN tvh \subseteq 1..lastEntry
    BY DEF RInv
  <2>2. \A S : Less(tvh, S) \in Lists /\ DOMAIN Less(tvh, S) \subseteq DOMAIN tvh
    BY <2>1, LessIs
  <2> QED
    BY <1>1, <2>1, <2>2
<1>10. Moves
  BY <1>1, StillMoves DEF RInv
<1>11. /\ TableOK(rows', lastRow', asked') /\ asked' \subseteq 1..lastRow'
       /\ RunOK(r, rows', lastRow', lastEntry', asked')
  BY <1>1, <1>7 DEF RInv
<1> QED
  BY <1>1, <1>8, <1>9, <1>10, <1>11, FaultKept, StepKeepsInvariant

-----------------------------------------------------------------------------
(* Commits                                                                  *)

\* A row that takes over from n what differs from b.
LEMMA RowMerge ==
    ASSUME NEW b \in Row, NEW n \in Row, NEW t \in Row
    PROVE  LET m == [x \in DOMAIN t |-> IF n[x] # b[x] THEN n[x] ELSE t[x]]
           IN  /\ m \in Row
               /\ m.status \in {n.status, t.status}
               /\ m.entry = IF n.entry # b.entry THEN n.entry ELSE t.entry
  BY DEF Row

\* What a commit writes: no entry lost, nothing dropped without a reason.
LEMMA MergedFacts ==
    ASSUME RInv, NEW k \in Runs, Changed(k) \subseteq DOMAIN rows
    PROVE  /\ TableOK(Merged(k), lastRow, asked)
           /\ DOMAIN Merged(k) = DOMAIN rows \ run[k].doomed
           /\ \A id \in DOMAIN Merged(k) :
                 rows[id].entry # NoEntry => Merged(k)[id].entry # NoEntry
           /\ \A id \in DOMAIN Merged(k) \intersect DOMAIN run[k].new :
                 run[k].new[id].entry # NoEntry => Merged(k)[id].entry # NoEntry
           /\ \A id \in DOMAIN rows \intersect run[k].doomed :
                 rows[id].entry # NoEntry \/ id \in asked
<1> DEFINE base == run[k].base
           new == run[k].new
           merged == Merged(k)
<1>1. /\ base \in [DOMAIN base -> Row] /\ new \in [DOMAIN base -> Row]
      /\ rows \in [DOMAIN rows -> Row] /\ DOMAIN rows \subseteq 1..lastRow
      /\ RunOK(run[k], rows, lastRow, lastEntry, asked) /\ lastRow \in Nat
  BY RunFacts
<1>2. TableOK(base, lastRow, asked) /\ TableOK(new, lastRow, asked) /\ DOMAIN new = DOMAIN base
  BY <1>1 DEF RunOK
<1>3. \A id \in DOMAIN base :
          /\ base[id].entry # NoEntry => new[id].entry # NoEntry
          /\ base[id].entry # NoEntry /\ id \in DOMAIN rows => rows[id].entry # NoEntry
          /\ id \in run[k].doomed => id \in asked \/ base[id].entry # NoEntry
  BY <1>1 DEF RunOK
<1>4. Changed(k) \subseteq DOMAIN base
  BY <1>2 DEF Changed
<1>5. DOMAIN merged = DOMAIN rows \ run[k].doomed
  BY DEF Merged
<1>6. ASSUME NEW id \in DOMAIN merged
      PROVE  /\ merged[id] \in Row
             /\ merged[id].status = "deleted" => id \in asked
             /\ rows[id].entry # NoEntry => merged[id].entry # NoEntry
             /\ id \in DOMAIN new /\ new[id].entry # NoEntry => merged[id].entry # NoEntry
  <2>1. id \in DOMAIN rows /\ id \notin run[k].doomed /\ rows[id] \in Row
    BY <1>1, <1>5
  <2>2. rows[id].status = "deleted" => id \in asked
    BY <2>1 DEF RInv, TableOK
  <2>3. CASE id \notin Changed(k)
    <3>1. merged[id] = rows[id]
      BY <2>1, <2>3 DEF Merged
    <3>2. id \in DOMAIN new => new[id] = base[id]
      BY <2>1, <2>3 DEF Changed
    <3> QED
      BY <1>2, <1>3, <2>1, <2>2, <3>1, <3>2
  <2>4. CASE id \in Changed(k)
    <3>1. merged[id] = [x \in DOMAIN rows[id] |->
                          IF new[id][x] # base[id][x] THEN new[id][x] ELSE rows[id][x]]
      BY <2>1, <2>4 DEF Merged
    <3>2. base[id] \in Row /\ new[id] \in Row /\ id \in DOMAIN base
      BY <1>1, <1>4, <2>4
    <3>3. /\ merged[id] \in Row
          /\ merged[id].status \in {new[id].status, rows[id].status}
          /\ merged[id].entry = IF new[id].entry # base[id].entry
                                THEN new[id].entry ELSE rows[id].entry
      BY <2>1, <3>1, <3>2, RowMerge
    <3>4. new[id].status = "deleted" => id \in asked
      BY <1>2, <3>2 DEF TableOK
    <3> HIDE DEF merged, new, base
    <3> QED
      BY <1>3, <2>1, <2>2, <3>2, <3>3, <3>4
  <2> QED
    BY <2>3, <2>4
<1>7. merged \in Tables
  <2>1. DOMAIN merged \subseteq Nat
    BY <1>1, <1>5
  <2>2. merged \in [DOMAIN rows \ run[k].doomed -> Row]
    <3>1. merged = [id \in DOMAIN rows \ run[k].doomed |-> merged[id]]
      BY DEF Merged
    <3> HIDE DEF merged
    <3> QED
      BY <1>5, <1>6, <3>1
  <2> QED
    BY <1>5, <2>1, <2>2 DEF Tables
<1>8. TableOK(merged, lastRow, asked)
  BY <1>1, <1>5, <1>6, <1>7 DEF TableOK
<1>9. ASSUME NEW id \in DOMAIN rows, id \in run[k].doomed
      PROVE  rows[id].entry # NoEntry \/ id \in asked
  <2>1. id \in DOMAIN base
    BY <1>1, <1>2, <1>9 DEF RunOK
  <2> QED
    BY <1>3, <1>9, <2>1
<1> QED
  BY <1>5, <1>6, <1>8, <1>9

\* A commit leaves a table that the runs can go on with.
LEMMA CommitMoves ==
    ASSUME RInv, NEW k \in Runs, NEW next, Commit(k, next),
           UNCHANGED <<lastRow, lastEntry, asked>>
    PROVE  /\ Moves /\ TableOK(rows', lastRow', asked')
           /\ \A id \in DOMAIN rows \ DOMAIN rows' :
                 rows[id].entry # NoEntry \/ id \in asked
<1>1. lastRow \in Nat /\ lastEntry \in Nat
  BY DEF RInv
<1>2. CASE Changed(k) \subseteq DOMAIN rows
  <2>1. rows' = Merged(k)
    BY <1>2 DEF Commit
  <2> QED
    <3>1. /\ TableOK(rows', lastRow, asked)
          /\ DOMAIN rows' = DOMAIN rows \ run[k].doomed
          /\ \A id \in DOMAIN rows' : rows[id].entry # NoEntry => rows'[id].entry # NoEntry
          /\ \A id \in DOMAIN rows \intersect run[k].doomed :
                rows[id].entry # NoEntry \/ id \in asked
      BY <1>2, <2>1, MergedFacts
    <3>2. Moves
      BY <1>1, <3>1 DEF Moves, Later
    <3> QED
      BY <3>1, <3>2
<1>3. CASE ~(Changed(k) \subseteq DOMAIN rows)
  <2>1. rows' = rows
    BY <1>3 DEF Commit
  <2> QED
    BY <1>1, <2>1, StillMoves DEF RInv
<1> QED
  BY <1>2, <1>3

\* A commit that is followed by a run in order keeps the invariant.
LEMMA CommitKeeps ==
    ASSUME RInv, NEW k \in Runs, NEW next, Commit(k, next),
           UNCHANGED <<lastRow, tvh, lastEntry, asked, events>>,
           Changed(k) \subseteq DOMAIN rows
              => RunOK(next, Merged(k), lastRow, lastEntry, asked)
    PROVE  RInv'
<1>1. Moves /\ TableOK(rows', lastRow', asked')
  BY CommitMoves
<1>2. PICK r : /\ run' = [run EXCEPT ![k] = r]
               /\ RunOK(r, rows', lastRow', lastEntry', asked')
  <2>1. CASE Changed(k) \subseteq DOMAIN rows
    BY <2>1 DEF Commit, Goes
  <2>2. CASE ~(Changed(k) \subseteq DOMAIN rows)
    <3>1. RunOK(Ended, rows', lastRow', lastEntry', asked')
      BY IdleOK DEF Ended, Places
    <3> QED
      BY <2>2, <3>1 DEF Commit, Goes
  <2> QED
    BY <2>1, <2>2
<1>3. /\ asked' \subseteq 1..lastRow' /\ tvh' \in Lists /\ DOMAIN tvh' \subseteq 1..lastEntry'
      /\ events' \in 0..MaxEvents
  BY DEF RInv
<1> QED
  BY <1>1, <1>2, <1>3, StepKeepsInvariant

\* The first commit: the run goes on with the rows it did not drop.
LEMMA PruneKeeps ==
    ASSUME RInv, NEW k \in Runs, PruneCommit(k), UNCHANGED asked PROVE RInv'
<1> DEFINE left == Less(run[k].new, run[k].doomed)
           r == [run[k] EXCEPT !.at = "add", !.doomed = {}, !.base = left,
                   !.new = left, !.unknown = Unknown(k, Merged(k))]
<1>1. Commit(k, r) /\ UNCHANGED <<lastRow, tvh, lastEntry, events>> /\ run[k].todo = {}
  BY DEF PruneCommit, Commit
<1>2. /\ RunOK(run[k], rows, lastRow, lastEntry, asked) /\ run[k] \in RunRecord
      /\ TableOK(run[k].new, lastRow, asked) /\ DOMAIN run[k].map \subseteq 1..lastEntry
      /\ lastEntry \in Nat
  BY RunFacts DEF RunOK
<1>3. /\ left \in Tables /\ DOMAIN left = DOMAIN run[k].new \ run[k].doomed
      /\ \A id \in DOMAIN left : left[id] = run[k].new[id]
  <2>1. run[k].new \in Tables
    BY <1>2 DEF TableOK
  <2>2. left \in Tables
    BY <2>1, LessIs
  <2>3. DOMAIN left = DOMAIN run[k].new \ run[k].doomed
    BY LessIs
  <2> QED
    BY <2>2, <2>3 DEF Less
<1>4. Unknown(k, Merged(k)) \subseteq DOMAIN run[k].map /\ Unknown(k, Merged(k)) \in SUBSET Nat
  BY <1>2 DEF Unknown
<1>5. ASSUME Changed(k) \subseteq DOMAIN rows
      PROVE  RunOK(r, Merged(k), lastRow, lastEntry, asked)
  <2>1. \A id \in DOMAIN Merged(k) \intersect DOMAIN left :
            left[id].entry # NoEntry => Merged(k)[id].entry # NoEntry
    BY <1>3, <1>5, MergedFacts
  <2>2. TableOK(left, lastRow, asked)
    BY <1>2, <1>3 DEF TableOK
  <2> DEFINE u == Unknown(k, Merged(k))
  <2>3. u \subseteq DOMAIN run[k].map /\ u \in SUBSET Nat
    BY <1>4
  <2> HIDE DEF left, u
  <2>4. /\ r \in RunRecord /\ r.at = "add" /\ r.base = left /\ r.new = left
        /\ r.doomed = {} /\ r.todo = {} /\ r.map = run[k].map /\ r.unknown = u
    <3>1. r = [run[k] EXCEPT !.at = "add", !.doomed = {}, !.base = left,
                  !.new = left, !.unknown = u]
      BY DEF u
    <3> HIDE DEF r
    <3> QED
      BY <1>1, <1>2, <1>3, <2>3, <3>1 DEF RunRecord, Places
  <2> HIDE DEF r
  <2> QED
    BY <1>2, <2>1, <2>2, <2>3, <2>4 DEF RunOK
<1> HIDE DEF r, left
<1> QED
  BY <1>1, <1>5, CommitKeeps

\* The last commit ends the run.
LEMMA PushKeeps ==
    ASSUME RInv, NEW k \in Runs, PushCommit(k), UNCHANGED asked PROVE RInv'
<1>1. Commit(k, Ended) /\ UNCHANGED <<lastRow, tvh, lastEntry, events>>
  BY DEF PushCommit
<1>2. RunOK(Ended, Merged(k), lastRow, lastEntry, asked)
  BY IdleOK DEF Ended, Places
<1> QED
  BY <1>1, <1>2, CommitKeeps

-----------------------------------------------------------------------------
(* The import of unknown entries                                            *)

\* The table once the unknown entries have rows.
LEMMA ImportedFacts ==
    ASSUME RInv, NEW k \in Runs
    PROVE  LET n == Cardinality(run[k].unknown)
           IN  /\ n \in Nat
               /\ DOMAIN Imported(k) = DOMAIN rows \union (lastRow + 1)..(lastRow + n)
               /\ \A id \in DOMAIN rows : Imported(k)[id] = rows[id]
               /\ Imported(k) \in Tables
               /\ TableOK(Imported(k), lastRow + n, asked)
<1> DEFINE S == run[k].unknown
           n == Cardinality(S)
           map == run[k].map
<1>1. /\ rows \in [DOMAIN rows -> Row] /\ DOMAIN rows \subseteq 1..lastRow
      /\ lastRow \in Nat /\ lastEntry \in Nat
      /\ map \in [DOMAIN map -> States]
      /\ RunOK(run[k], rows, lastRow, lastEntry, asked)
  BY RunFacts
<1>2. S \subseteq DOMAIN map /\ S \subseteq 1..lastEntry
  BY <1>1 DEF RunOK
<1>3. IsFiniteSet(S)
  <2>1. 1 \in Int /\ lastEntry \in Int
    BY <1>1
  <2>2. IsFiniteSet(1..lastEntry)
    BY <2>1, FS_Interval
  <2> QED
    BY <1>2, <2>2, FS_Subset
<1>4. n \in Nat /\ ExistsBijection(1..n, S)
  BY <1>3, FS_CardinalityType
<1> DEFINE found == CHOOSE f \in [1..n -> S] : \A e \in S : \E i \in 1..n : f[i] = e
<1>5. found \in [1..n -> S]
  <2>1. \E f \in [1..n -> S] : \A e \in S : \E i \in 1..n : f[i] = e
    BY <1>4 DEF ExistsBijection, Bijection, Surjection
  <2> QED
    BY <2>1
<1>6. Imported(k) = [id \in DOMAIN rows \union (lastRow + 1)..(lastRow + n) |->
                       IF id <= lastRow THEN rows[id]
                       ELSE [status |-> map[found[id - lastRow]],
                             entry |-> found[id - lastRow], synced |-> TRUE]]
  BY DEF Imported
<1> HIDE DEF found, n, map
<1>7. DOMAIN Imported(k) = DOMAIN rows \union (lastRow + 1)..(lastRow + n)
  BY <1>6
<1>8. \A id \in DOMAIN rows : Imported(k)[id] = rows[id]
  BY <1>1, <1>6
<1>9. ASSUME NEW id \in (lastRow + 1)..(lastRow + n)
      PROVE  Imported(k)[id] \in Row /\ Imported(k)[id].status # "deleted"
  <2>1. id - lastRow \in 1..n /\ ~(id <= lastRow) /\ id \in DOMAIN Imported(k)
    BY <1>1, <1>4, <1>7
  <2>2. found[id - lastRow] \in S
    BY <1>5, <2>1
  <2>3. found[id - lastRow] \in Nat /\ map[found[id - lastRow]] \in States
    BY <1>1, <1>2, <2>2
  <2>4. Imported(k)[id] = [status |-> map[found[id - lastRow]],
                           entry |-> found[id - lastRow], synced |-> TRUE]
    BY <1>6, <1>7, <2>1
  <2> QED
    BY <2>3, <2>4 DEF Row, Statuses, States
<1>10. Imported(k) \in Tables
  <2>1. DOMAIN Imported(k) \subseteq Nat
    BY <1>1, <1>4, <1>7
  <2>2. \A id \in DOMAIN Imported(k) : Imported(k)[id] \in Row
    BY <1>1, <1>7, <1>8, <1>9
  <2>3. Imported(k) = [id \in DOMAIN Imported(k) |-> Imported(k)[id]]
    BY <1>6, <1>7
  <2>4. Imported(k) \in [DOMAIN Imported(k) -> Row]
    BY <2>2, <2>3
  <2> QED
    BY <2>1, <2>4, TableIs
<1>11. TableOK(Imported(k), lastRow + n, asked)
  <2>1. DOMAIN Imported(k) \subseteq 1..(lastRow + n)
    BY <1>1, <1>4, <1>7
  <2>2. \A id \in DOMAIN Imported(k) : Imported(k)[id].status = "deleted" => id \in asked
    BY <1>7, <1>8, <1>9 DEF RInv, TableOK
  <2> QED
    BY <1>10, <2>1, <2>2 DEF TableOK
<1> QED
  BY <1>4, <1>7, <1>8, <1>10, <1>11 DEF n

\* Taking over an entry's state keeps the entry and deletes nothing.
LEMMA SyncedFacts ==
    ASSUME RInv, NEW k \in Runs, NEW row \in Row
    PROVE  /\ Synced(k, row) \in Row /\ Synced(k, row).entry = row.entry
           /\ Synced(k, row).status = "deleted" => row.status = "deleted"
<1>1. run[k].map \in [DOMAIN run[k].map -> States]
  BY RunFacts
<1>2. CASE row.status # "deleted" /\ Listed(k, row)
  <2>1. run[k].map[row.entry] \in States
    BY <1>1, <1>2 DEF Listed
  <2>2. Synced(k, row) = [row EXCEPT !.status = run[k].map[row.entry], !.synced = TRUE]
    BY <1>2 DEF Synced
  <2> QED
    BY <2>1, <2>2 DEF Row, Statuses, States
<1>3. CASE ~(row.status # "deleted" /\ Listed(k, row))
  BY <1>3 DEF Synced
<1> QED
  BY <1>2, <1>3

\* The rows queried again: those to be dropped have an entry.
LEMMA ImportKeeps ==
    ASSUME RInv, NEW k \in Runs, ImportAndReload(k), UNCHANGED asked PROVE RInv'
<1> DEFINE n == Cardinality(run[k].unknown)
           loaded == Reloaded(k)
           wanted == [id \in DOMAIN loaded |-> Synced(k, loaded[id])]
           gone == {id \in DOMAIN loaded : Vanished(k, loaded[id])}
           calls == {id \in DOMAIN loaded : Calls(loaded[id])}
           r == [run[k] EXCEPT !.at = "push", !.unknown = {}, !.base = loaded,
                   !.new = wanted, !.doomed = gone, !.todo = calls]
<1>1. /\ rows' = Imported(k) /\ lastRow' = lastRow + n
      /\ run' = [run EXCEPT ![k] = r] /\ UNCHANGED <<tvh, lastEntry, events>>
  BY DEF ImportAndReload, Goes
<1>2. /\ run[k].base \in [DOMAIN run[k].base -> Row] /\ DOMAIN run[k].base \subseteq 1..lastRow
      /\ RunOK(run[k], rows, lastRow, lastEntry, asked) /\ run[k] \in RunRecord
      /\ TableOK(run[k].base, lastRow, asked)
      /\ DOMAIN rows \subseteq 1..lastRow /\ lastRow \in Nat /\ lastEntry \in Nat
  BY RunFacts DEF RunOK
<1>3. /\ n \in Nat
      /\ DOMAIN rows' = DOMAIN rows \union (lastRow + 1)..(lastRow + n)
      /\ \A id \in DOMAIN rows : rows'[id] = rows[id]
      /\ rows' \in [DOMAIN rows' -> Row] /\ DOMAIN rows' \subseteq Nat
      /\ TableOK(rows', lastRow', asked')
  BY <1>1, ImportedFacts, TableIs
<1>4. Moves
  BY <1>1, <1>2, <1>3 DEF Moves, Later
<1>5. /\ DOMAIN loaded = DOMAIN rows'
      /\ \A id \in DOMAIN loaded :
            loaded[id] = IF id \in DOMAIN run[k].base THEN run[k].base[id] ELSE rows'[id]
  BY <1>1 DEF Reloaded
<1> HIDE DEF loaded
<1>6. /\ \A id \in DOMAIN loaded : loaded[id] \in Row
      /\ \A id \in DOMAIN loaded : loaded[id].status = "deleted" => id \in asked
  BY <1>1, <1>2, <1>3, <1>5 DEF TableOK
<1>7. loaded \in Tables
  <2>1. loaded = [id \in DOMAIN loaded |-> loaded[id]]
    BY DEF loaded, Reloaded
  <2>2. loaded \in [DOMAIN loaded -> Row]
    BY <1>6, <2>1
  <2> QED
    BY <1>3, <1>5, <2>2, TableIs
<1>8. /\ DOMAIN wanted = DOMAIN loaded
      /\ \A id \in DOMAIN loaded :
            /\ wanted[id] \in Row /\ wanted[id].entry = loaded[id].entry
            /\ wanted[id].status = "deleted" => id \in asked
  BY <1>6, SyncedFacts
<1>9. wanted \in Tables
  <2>1. wanted \in [DOMAIN loaded -> Row]
    BY <1>8
  <2> HIDE DEF wanted
  <2> QED
    BY <1>3, <1>5, <1>8, <2>1, TableIs
<1>10. /\ gone \subseteq DOMAIN loaded /\ calls \subseteq DOMAIN loaded
       /\ \A id \in gone : loaded[id].entry # NoEntry
  BY DEF Vanished
<1>11. gone \in SUBSET Nat /\ calls \in SUBSET Nat
  BY <1>3, <1>5, <1>10
<1> HIDE DEF wanted, gone, calls
<1>12. /\ r \in RunRecord /\ r.at = "push" /\ r.unknown = {} /\ r.base = loaded
       /\ r.new = wanted /\ r.doomed = gone /\ r.todo = calls /\ r.map = run[k].map
  BY <1>2, <1>7, <1>9, <1>11 DEF RunRecord, Places
<1>13. TableOK(loaded, lastRow', asked') /\ TableOK(wanted, lastRow', asked')
  BY <1>3, <1>5, <1>6, <1>7, <1>8, <1>9 DEF TableOK
<1>14. \A id \in DOMAIN loaded : loaded[id].entry # NoEntry => rows'[id].entry # NoEntry
  <2> SUFFICES ASSUME NEW id \in DOMAIN loaded, loaded[id].entry # NoEntry
               PROVE  rows'[id].entry # NoEntry
    OBVIOUS
  <2>1. CASE id \in DOMAIN run[k].base
    <3>1. loaded[id] = run[k].base[id] /\ id \in DOMAIN rows
      BY <1>2, <1>3, <1>5, <2>1
    <3>2. rows[id].entry # NoEntry
      BY <1>2, <2>1, <3>1 DEF RunOK
    <3> QED
      BY <1>3, <3>1, <3>2
  <2>2. CASE id \notin DOMAIN run[k].base
    BY <1>5, <2>2
  <2> QED
    BY <2>1, <2>2
<1> HIDE DEF r
<1>15. DOMAIN r.map \subseteq 1..lastEntry'
  BY <1>1, <1>2, <1>12 DEF RunOK
<1>16. RunOK(r, rows', lastRow', lastEntry', asked')
  BY <1>8, <1>10, <1>12, <1>13, <1>14, <1>15 DEF RunOK
<1>17. /\ asked' \subseteq 1..lastRow' /\ tvh' \in Lists
       /\ DOMAIN tvh' \subseteq 1..lastEntry' /\ events' \in 0..MaxEvents
  BY <1>1, <1>3 DEF RInv
<1> QED
  BY <1>1, <1>3, <1>4, <1>16, <1>17, StepKeepsInvariant
-----------------------------------------------------------------------------
(* The calls that stop and create entries                                   *)

\* A call to stop an entry, done or failed, keeps the row's entry.
LEMMA StopEntryKeeps ==
    ASSUME RInv, NEW k \in Runs, NEW id, StopEntry(k, id), UNCHANGED asked
    PROVE  RInv'
<1> DEFINE row == [run[k].base[id] EXCEPT !.synced = FALSE]
           g == [run[k].new EXCEPT ![id] = row]
           done == [run[k] EXCEPT !.todo = @ \ {id}]
           failed == [run[k] EXCEPT !.todo = @ \ {id}, !.doomed = @ \ {id}, !.new = g]
<1>1. id \in run[k].todo /\ UNCHANGED <<rows, lastRow, lastEntry>> /\ (Fault \/ NoFault)
  BY DEF StopEntry
<1>2. /\ RunOK(run[k], rows, lastRow, lastEntry, asked) /\ run[k] \in RunRecord
      /\ id \in DOMAIN run[k].new /\ DOMAIN run[k].new = DOMAIN run[k].base
      /\ run[k].base[id] \in Row
  BY <1>1, RunFacts DEF RunOK
<1>3. /\ row \in Row /\ row.status = run[k].base[id].status
      /\ row.entry = run[k].base[id].entry
  BY <1>2 DEF Row
<1>4. row.status = "deleted" => id \in asked
  BY <1>2, <1>3 DEF RunOK, TableOK
<1>5. /\ g \in Tables /\ DOMAIN g = DOMAIN run[k].new /\ g[id] = row
      /\ \A i \in DOMAIN g : i # id => g[i] = run[k].new[i]
  <2> HIDE DEF row
  <2> QED
    BY <1>2, <1>3, NewRow
<1>6. run' = [run EXCEPT ![k] = done] \/ run' = [run EXCEPT ![k] = failed]
  <2>1. [run[k] EXCEPT !.todo = @ \ {id}, !.doomed = @ \ {id}, !.new[id] = row] = failed
    BY <1>2 DEF RunRecord
  <2> QED
    BY <2>1 DEF StopEntry, Goes
<1> HIDE DEF row, g
<1>7. RunOK(done, rows, lastRow, lastEntry, asked)
  <2>1. /\ done \in RunRecord /\ done.at = run[k].at /\ done.map = run[k].map
        /\ done.unknown = run[k].unknown /\ done.base = run[k].base
        /\ done.new = run[k].new /\ done.todo \subseteq run[k].todo
        /\ done.doomed = run[k].doomed
    BY <1>2 DEF RunRecord
  <2>2. run[k].new[id].status = "deleted" => id \in asked
    BY <1>2 DEF RunOK, TableOK
  <2>3. run[k].base[id].entry # NoEntry => run[k].new[id].entry # NoEntry
    BY <1>2 DEF RunOK
  <2> HIDE DEF done
  <2> QED
    BY <2>1, <2>2, <2>3, Revised
<1>8. RunOK(failed, rows, lastRow, lastEntry, asked)
  <2>1. /\ failed \in RunRecord /\ failed.at = run[k].at /\ failed.map = run[k].map
        /\ failed.unknown = run[k].unknown /\ failed.base = run[k].base
        /\ failed.new = g /\ failed.todo \subseteq run[k].todo
        /\ failed.doomed \subseteq run[k].doomed
    BY <1>2, <1>5 DEF RunRecord
  <2> HIDE DEF failed
  <2> QED
    BY <1>3, <1>4, <1>5, <2>1, Revised
<1> HIDE DEF done, failed
<1>9. PICK r \in {done, failed} : run' = [run EXCEPT ![k] = r]
  BY <1>6
<1>10. tvh' \in Lists /\ DOMAIN tvh' \subseteq 1..lastEntry'
  <2>1. /\ tvh \in Lists /\ DOMAIN tvh \subseteq 1..lastEntry
        /\ tvh \in [DOMAIN tvh -> States] /\ DOMAIN tvh \subseteq Nat
    BY ListIs DEF RInv
  <2>2. tvh' \in [DOMAIN tvh -> States]
    BY <2>1 DEF StopEntry, States
  <2> QED
    BY <1>1, <2>1, <2>2 DEF Lists
<1>11. Moves
  BY <1>1, StillMoves DEF RInv
<1>12. RunOK(r, rows, lastRow, lastEntry, asked)
  BY <1>7, <1>8, <1>9
<1>13. /\ TableOK(rows', lastRow', asked') /\ asked' \subseteq 1..lastRow'
       /\ RunOK(r, rows', lastRow', lastEntry', asked')
  BY <1>1, <1>12 DEF RInv
<1> QED
  BY <1>1, <1>9, <1>10, <1>11, <1>13, FaultKept, StepKeepsInvariant

\* A row with another entry and another sync mark.
LEMMA Remarked ==
    ASSUME NEW b \in Row, NEW e \in Nat \union {NoEntry}, NEW s \in BOOLEAN
    PROVE  /\ [b EXCEPT !.entry = e, !.synced = s] \in Row
           /\ [b EXCEPT !.entry = e, !.synced = s].status = b.status
  BY DEF Row

\* A call to create an entry: whatever becomes of it, the run writes down an
\* entry or none in a row that had none.
LEMMA CreateEntryKeeps ==
    ASSUME RInv, NEW k \in Runs, NEW id, CreateEntry(k, id), UNCHANGED asked
    PROVE  RInv'
<1>1. /\ id \in run[k].todo /\ UNCHANGED <<rows, lastRow>> /\ (Fault \/ NoFault)
      /\ run[k].base[id].entry = NoEntry
  BY DEF CreateEntry
<1>2. /\ RunOK(run[k], rows, lastRow, lastEntry, asked)
      /\ id \in DOMAIN run[k].new /\ DOMAIN run[k].new = DOMAIN run[k].base
      /\ run[k].base[id] \in Row /\ lastRow \in Nat /\ lastEntry \in Nat
      /\ tvh \in Lists /\ DOMAIN tvh \subseteq 1..lastEntry
  <2>1. tvh \in Lists /\ DOMAIN tvh \subseteq 1..lastEntry
    BY DEF RInv
  <2> QED
    BY <1>1, <2>1, RunFacts DEF RunOK
<1>3. PICK e \in {NoEntry, lastEntry + 1}, s \in BOOLEAN :
          Marks(k, id, [run[k].base[id] EXCEPT !.entry = e, !.synced = s])
  <2> DEFINE b == run[k].base[id]
  <2>1. \A s \in BOOLEAN : [b EXCEPT !.synced = s] = [b EXCEPT !.entry = NoEntry, !.synced = s]
    BY <1>1, <1>2 DEF Row
  <2>2. \/ Marks(k, id, [b EXCEPT !.entry = lastEntry + 1, !.synced = TRUE])
        \/ Marks(k, id, [b EXCEPT !.synced = FALSE])
        \/ \E s \in BOOLEAN : Marks(k, id, [b EXCEPT !.synced = s])
    BY DEF CreateEntry
  <2> HIDE DEF b
  <2>3. \E e \in {NoEntry, lastEntry + 1}, s \in BOOLEAN :
            Marks(k, id, [b EXCEPT !.entry = e, !.synced = s])
    BY <2>1, <2>2
  <2> QED
    BY <2>3 DEF b
<1> DEFINE row == [run[k].base[id] EXCEPT !.entry = e, !.synced = s]
           r == [run[k] EXCEPT !.new[id] = row, !.todo = @ \ {id}]
<1>4. row \in Row /\ row.status = run[k].base[id].status
  <2>1. e \in Nat \union {NoEntry} /\ s \in BOOLEAN
    BY <1>2, <1>3
  <2> QED
    BY <1>2, <2>1, Remarked
<1>5. row.status = "deleted" => id \in asked
  BY <1>2, <1>4 DEF RunOK, TableOK
<1> HIDE DEF row
<1>6. RunOK(r, rows, lastRow, lastEntry, asked)
  BY <1>1, <1>2, <1>4, <1>5, MarksKeep
<1>7. run' = [run EXCEPT ![k] = r]
  BY <1>3 DEF Marks, Goes, row
<1> HIDE DEF r
<1>8. \/ UNCHANGED <<tvh, lastEntry>>
      \/ lastEntry' = lastEntry + 1 /\ tvh' = With(tvh, lastEntry + 1, "scheduled")
  BY DEF CreateEntry
<1>9. /\ tvh' \in Lists /\ DOMAIN tvh' \subseteq 1..lastEntry'
      /\ lastEntry' \in Nat /\ lastEntry' >= lastEntry
  <2>1. CASE UNCHANGED <<tvh, lastEntry>>
    BY <1>2, <2>1
  <2>2. CASE lastEntry' = lastEntry + 1 /\ tvh' = With(tvh, lastEntry + 1, "scheduled")
    <3>1. lastEntry + 1 \in Nat /\ "scheduled" \in States
      BY <1>2 DEF States
    <3>2. tvh' \in Lists /\ DOMAIN tvh' = DOMAIN tvh \union {lastEntry + 1}
      BY <1>2, <2>2, <3>1, WithIs, ZenonT(30)
    <3> QED
      BY <1>2, <2>2, <3>2
  <2> QED
    BY <1>8, <2>1, <2>2
<1>10. Moves
  BY <1>1, <1>9, StillMoves
<1>11. RunOK(r, rows', lastRow', lastEntry', asked')
  BY <1>2, <1>6, <1>10, RunKept DEF Moves
<1>12. TableOK(rows', lastRow', asked') /\ asked' \subseteq 1..lastRow'
  BY <1>1 DEF RInv
<1> QED
  BY <1>1, <1>7, <1>9, <1>10, <1>11, <1>12, FaultKept, StepKeepsInvariant

-----------------------------------------------------------------------------
(* The specification                                                        *)

\* Every step of a run keeps the invariant.
LEMMA RunStepKeeps ==
    ASSUME RInv, NEW k \in Runs, RunSteps(k) PROVE RInv'
<1>1. UNCHANGED asked
  BY DEF RunSteps
<1>2. CASE ListEntries(k)
  BY <1>1, <1>2, ListKeeps
<1>3. CASE LoadRows(k)
  BY <1>1, <1>3, LoadKeeps
<1>4. CASE PruneCommit(k)
  BY <1>1, <1>4, PruneKeeps
<1>5. CASE ImportAndReload(k)
  BY <1>1, <1>5, ImportKeeps
<1>6. CASE PushCommit(k)
  BY <1>1, <1>6, PushKeeps
<1>7. ASSUME NEW id \in run[k].todo, DeleteEntry(k, id) PROVE RInv'
  BY <1>1, <1>7, DeleteEntryKeeps
<1>8. ASSUME NEW id \in run[k].todo, StopEntry(k, id) PROVE RInv'
  BY <1>1, <1>8, StopEntryKeeps
<1>9. ASSUME NEW id \in run[k].todo, CreateEntry(k, id) PROVE RInv'
  BY <1>1, <1>9, CreateEntryKeeps
<1> QED
  BY <1>2, <1>3, <1>4, <1>5, <1>6, <1>7, <1>8, <1>9 DEF RunSteps

\* So does every step of the specification.
LEMMA EveryStepKeeps == ASSUME RInv, [DvrNext]_allVars PROVE RInv'
<1>1. CASE CreateRecording
  BY <1>1, CreateKeeps
<1>2. ASSUME NEW id \in DOMAIN rows, StopRecording(id) PROVE RInv'
  BY <1>2, StopKeeps
<1>3. ASSUME NEW id \in DOMAIN rows, DeleteRecording(id) PROVE RInv'
  BY <1>3, DeleteKeeps
<1>4. CASE TvhMoves
  BY <1>4, TvhKeeps
<1>5. CASE PeriodicTick \/ PeriodicEnds \/ QueueTurns
  BY <1>5, TasksKeep
<1>6. ASSUME NEW k \in Runs, RunSteps(k) PROVE RInv'
  BY <1>6, RunStepKeeps
<1>7. CASE UNCHANGED allVars
  <2>1. UNCHANGED dvrVars
    BY <1>7 DEF allVars
  <2> QED
    BY <2>1 DEF dvrVars, RInv
<1> QED
  BY <1>1, <1>2, <1>3, <1>4, <1>5, <1>6, <1>7 DEF DvrNext

\* The invariant of the recordings, whatever users, TVHeadend and the network do.
THEOREM DvrInvariant == DvrSpec => []RInv
<1>1. RInv /\ [DvrNext]_allVars => RInv'
  BY EveryStepKeeps
<1> QED
  BY <1>1, InitiallyOK, PTL DEF DvrSpec

\* Rows, entries and what the runs hold of them keep their types, and no run
\* means to drop or to call for a row it has not loaded.
THEOREM DvrTypeCorrect == DvrSpec => []DvrTypeOK
<1>1. ASSUME RInv PROVE DvrTypeOK
  <2>1. rows \in [DOMAIN rows -> Row] /\ DOMAIN rows \subseteq 1..lastRow
    BY <1>1, TableIs DEF RInv, TableOK
  <2>2. tvh \in [DOMAIN tvh -> States]
    BY <1>1, ListIs DEF RInv
  <2>3. ASSUME NEW k \in Runs
        PROVE  /\ DOMAIN run[k].new = DOMAIN run[k].base
               /\ run[k].doomed \union run[k].todo \subseteq DOMAIN run[k].new
               /\ \A id \in DOMAIN run[k].new : run[k].new[id] \in Row
    <3>1. RunOK(run[k], rows, lastRow, lastEntry, asked)
      BY <1>1 DEF RInv
    <3>2. run[k].new \in [DOMAIN run[k].base -> Row] /\ DOMAIN run[k].new = DOMAIN run[k].base
      BY <1>1, RunFacts
    <3> QED
      BY <3>1, <3>2 DEF RunOK
  <2> QED
    BY <1>1, <2>1, <2>2, <2>3 DEF RInv, DvrTypeOK
<1>2. RInv => DvrTypeOK
  BY <1>1
<1> QED
  BY <1>2, DvrInvariant, PTL

\* Only a commit drops rows.
LEMMA OnlyCommitsDrop ==
    ASSUME RInv, [DvrNext]_allVars,
           ~ \E k \in Runs : UNCHANGED asked /\ (PruneCommit(k) \/ PushCommit(k))
    PROVE  DOMAIN rows \subseteq DOMAIN rows'
<1>1. CASE CreateRecording
  BY <1>1 DEF CreateRecording, With
<1>2. ASSUME NEW id \in DOMAIN rows, StopRecording(id) \/ DeleteRecording(id)
      PROVE  DOMAIN rows \subseteq DOMAIN rows'
  BY <1>2 DEF StopRecording, DeleteRecording
<1>3. CASE TvhMoves
  BY <1>3 DEF TvhMoves
<1>4. CASE PeriodicTick \/ PeriodicEnds \/ QueueTurns
  BY <1>4 DEF PeriodicTick, PeriodicEnds, QueueTurns, UnchangedDvr
<1>5. ASSUME NEW k \in Runs, RunSteps(k) PROVE DOMAIN rows \subseteq DOMAIN rows'
  <2>1. CASE ListEntries(k)
    BY <2>1 DEF ListEntries
  <2>2. CASE LoadRows(k)
    BY <2>2 DEF LoadRows
  <2>3. CASE ImportAndReload(k)
    <3>1. rows' = Imported(k) /\ DOMAIN rows \subseteq DOMAIN Imported(k)
      BY <2>3, ImportedFacts DEF ImportAndReload
    <3> QED
      BY <3>1
  <2>4. ASSUME NEW id, DeleteEntry(k, id) \/ StopEntry(k, id) \/ CreateEntry(k, id)
        PROVE  DOMAIN rows \subseteq DOMAIN rows'
    BY <2>4 DEF DeleteEntry, StopEntry, CreateEntry
  <2> QED
    BY <1>5, <2>1, <2>2, <2>3, <2>4 DEF RunSteps
<1>6. CASE UNCHANGED allVars
  BY <1>6 DEF allVars, dvrVars
<1> QED
  BY <1>1, <1>2, <1>3, <1>4, <1>5, <1>6 DEF DvrNext

\* A recording that never reached TVHeadend leaves the table only if its user
\* deleted it, for any number of rows, requests and failures, and however the
\* queued and the periodic reconciliation overlap.
THEOREM UnsyncedSurvive == DvrSpec => UnsyncedRowsSurvive
<1> DEFINE Survive == \A id \in DOMAIN rows \ DOMAIN rows' :
                          rows[id].entry # NoEntry \/ id \in asked
<1>1. ASSUME RInv, [DvrNext]_allVars PROVE Survive
  <2>1. CASE \E k \in Runs : UNCHANGED asked /\ (PruneCommit(k) \/ PushCommit(k))
    <3>1. PICK k \in Runs : UNCHANGED asked /\ (PruneCommit(k) \/ PushCommit(k))
      BY <2>1
    <3>2. PICK next : Commit(k, next)
      BY <3>1 DEF PruneCommit, PushCommit
    <3>3. UNCHANGED <<lastRow, lastEntry, asked>>
      BY <3>1 DEF PruneCommit, PushCommit
    <3> QED
      BY <1>1, <3>2, <3>3, CommitMoves
  <2>2. CASE ~ \E k \in Runs : UNCHANGED asked /\ (PruneCommit(k) \/ PushCommit(k))
    BY <1>1, <2>2, OnlyCommitsDrop
  <2> QED
    BY <2>1, <2>2
<1>2. RInv /\ [DvrNext]_allVars => [Survive]_allVars
  BY <1>1
<1> QED
  BY <1>2, DvrInvariant, PTL DEF DvrSpec, UnsyncedRowsSurvive

-----------------------------------------------------------------------------
(* The task queue                                                            *)

QInv == QueueTypeOK /\ NamesMatchQueue

\* A task is placed within the queue or right behind it.
LEMMA PlaceInRange ==
    ASSUME QueueTypeOK, NEW k \in Serial
    PROVE  Place(k) \in 1..Len(queue) + 1
<1>1. queue \in Seq(Serial) /\ Len(queue) \in Nat /\ DOMAIN queue = 1..Len(queue)
  BY DEF QueueTypeOK
<1>2. IsFiniteSet(1..Len(queue)) /\ Cardinality(1..Len(queue)) = Len(queue)
  BY <1>1, FS_Interval, SMTT(20)
<1> DEFINE Before == {i \in DOMAIN queue : PriorityOf[queue[i]] <= PriorityOf[k]}
<1>3. Before \subseteq 1..Len(queue)
  BY <1>1
<1>4. Cardinality(Before) \in Nat /\ Cardinality(Before) <= Len(queue)
  BY <1>2, <1>3, FS_Subset, FS_CardinalityType
<1>5. Place(k) = 1 + Cardinality(Before)
  BY DEF Place
<1> QED
  BY <1>1, <1>4, <1>5

\* Adding a task puts it at its place and moves the rest of the queue up.
LEMMA QueueWithFacts ==
    ASSUME QueueTypeOK, NEW k \in Serial
    PROVE  /\ QueueWith(k) \in Seq(Serial)
           /\ DOMAIN QueueWith(k) = 1..Len(queue) + 1
           /\ QueueWith(k)[Place(k)] = k
           /\ \A i \in DOMAIN queue : \E j \in DOMAIN QueueWith(k) :
                 QueueWith(k)[j] = queue[i]
           /\ \A i \in DOMAIN QueueWith(k) :
                 i # Place(k) => \E j \in DOMAIN queue :
                                    /\ QueueWith(k)[i] = queue[j]
                                    /\ j = (IF i < Place(k) THEN i ELSE i - 1)
<1> DEFINE p == Place(k)
<1>1. /\ queue \in Seq(Serial) /\ Len(queue) \in Nat
      /\ DOMAIN queue = 1..Len(queue)
      /\ \A i \in 1..Len(queue) : queue[i] \in Serial
  BY DEF QueueTypeOK
<1>2. p \in 1..Len(queue) + 1
  BY PlaceInRange
<1> HIDE DEF p
<1>3. QueueWith(k) = [i \in 1..Len(queue) + 1 |->
                         IF i < p THEN queue[i] ELSE IF i = p THEN k ELSE queue[i - 1]]
  BY DEF QueueWith, p
<1>4. \A i \in 1..Len(queue) + 1 : QueueWith(k)[i] \in Serial
  <2> TAKE i \in 1..Len(queue) + 1
  <2>1. CASE i < p
    BY <1>1, <1>2, <1>3, <2>1
  <2>2. CASE i = p
    BY <1>3, <2>2
  <2>3. CASE i > p
    BY <1>1, <1>2, <1>3, <2>3
  <2> QED
    BY <1>1, <1>2, <2>1, <2>2, <2>3
<1>5. QueueWith(k) \in Seq(Serial)
  <2>1. Len(queue) + 1 \in Nat
    BY <1>1
  <2>2. QueueWith(k) \in [1..Len(queue) + 1 -> Serial]
    BY <1>3, <1>4
  <2> QED
    BY <2>1, <2>2
<1>6. DOMAIN QueueWith(k) = 1..Len(queue) + 1
  BY <1>3
<1>7. QueueWith(k)[p] = k
  BY <1>1, <1>2, <1>3
<1>8. ASSUME NEW i \in DOMAIN queue
      PROVE  \E j \in DOMAIN QueueWith(k) : QueueWith(k)[j] = queue[i]
  <2>1. CASE i < p
    BY <1>1, <1>2, <1>3, <1>6, <2>1
  <2>2. CASE i >= p
    <3>1. /\ i + 1 \in DOMAIN QueueWith(k)
          /\ QueueWith(k)[i + 1] = queue[i]
      BY <1>1, <1>2, <1>3, <1>6, <2>2
    <3> QED
      BY <3>1
  <2> QED
    BY <1>1, <1>2, <2>1, <2>2
<1>9. ASSUME NEW i \in DOMAIN QueueWith(k), i # p
      PROVE  \E j \in DOMAIN queue : /\ QueueWith(k)[i] = queue[j]
                                     /\ j = (IF i < p THEN i ELSE i - 1)
  <2>1. CASE i < p
    BY <1>1, <1>2, <1>3, <1>6, <2>1
  <2>2. CASE i > p
    BY <1>1, <1>2, <1>3, <1>6, <2>2
  <2> QED
    BY <1>1, <1>2, <1>6, <1>9, <2>1, <2>2
<1> QED
  BY <1>5, <1>6, <1>7, <1>8, <1>9 DEF p

\* What is queued after a task is added.
LEMMA QueuedWith ==
    ASSUME QueueTypeOK, NEW k \in Serial, queue' = QueueWith(k)
    PROVE  Queued' = Queued \union {k}
<1>1. DOMAIN queue' = 1..Len(queue) + 1 /\ queue'[Place(k)] = k
  BY QueueWithFacts
<1>2. Place(k) \in DOMAIN queue'
  BY <1>1, PlaceInRange
<1>3. ASSUME NEW x \in Queued' PROVE x \in Queued \union {k}
  <2>1. PICK i \in DOMAIN queue' : queue'[i] = x
    BY <1>3 DEF Queued
  <2>2. CASE i = Place(k)
    BY <1>1, <2>1, <2>2
  <2>3. CASE i # Place(k)
    <3>1. \E j \in DOMAIN queue : queue'[i] = queue[j]
      BY <2>1, <2>3, QueueWithFacts
    <3> QED
      BY <2>1, <3>1 DEF Queued
  <2> QED
    BY <2>2, <2>3
<1>4. ASSUME NEW x \in Queued PROVE x \in Queued'
  BY <1>4, QueueWithFacts DEF Queued
<1> QED
  BY <1>1, <1>2, <1>3, <1>4 DEF Queued

\* What is left when the head of the queue is taken.
LEMMA TailFacts ==
    ASSUME QueueTypeOK, queue # <<>>
    PROVE  /\ Head(queue) \in Serial /\ Tail(queue) \in Seq(Serial)
           /\ 1 \in DOMAIN queue /\ Head(queue) = queue[1]
           /\ \A i \in DOMAIN Tail(queue) :
                 i + 1 \in DOMAIN queue /\ i + 1 # 1 /\ Tail(queue)[i] = queue[i + 1]
           /\ \A i \in DOMAIN queue :
                 i # 1 => i - 1 \in DOMAIN Tail(queue) /\ Tail(queue)[i - 1] = queue[i]
  BY DEF QueueTypeOK

\* What is queued after the head is taken: all but the head, or the head too if
\* it was queued twice.
LEMMA QueuedTail ==
    ASSUME QueueTypeOK, queue # <<>>, queue' = Tail(queue)
    PROVE  /\ Queued = Queued' \union {Head(queue)}
           /\ \A x \in Queued' : \E i \in DOMAIN queue : i # 1 /\ queue[i] = x
<1>1. ASSUME NEW x \in Queued' PROVE \E i \in DOMAIN queue : i # 1 /\ queue[i] = x
  <2>1. PICK i \in DOMAIN Tail(queue) : Tail(queue)[i] = x
    BY <1>1 DEF Queued
  <2> QED
    BY <2>1, TailFacts
<1>2. ASSUME NEW x \in Queued PROVE x \in Queued' \union {Head(queue)}
  <2>1. PICK i \in DOMAIN queue : queue[i] = x
    BY <1>2 DEF Queued
  <2>2. CASE i = 1
    BY <2>1, <2>2, TailFacts
  <2>3. CASE i # 1
    BY <2>1, <2>3, TailFacts DEF Queued
  <2> QED
    BY <2>2, <2>3
<1>3. Head(queue) \in Queued
  BY TailFacts DEF Queued
<1> QED
  BY <1>1, <1>2, <1>3, ZenonT(30) DEF Queued

-----------------------------------------------------------------------------
\* Adding a task keeps the types and the names.
LEMMA AddKeeps ==
    ASSUME QInv, NEW k \in Kinds, AddTask(k)
    PROVE  QInv'
<1> USE DEF QInv
<1>1. CASE AddConcurrent(k)
  BY <1>1, QueueAssumption
     DEF AddConcurrent, QueueTypeOK, NamesMatchQueue, Queued, Serial
<1>2. CASE AddSerial(k)
  <2>1. k \in Serial
    BY <1>2 DEF AddSerial
  <2>2. CASE NameOf[k] \in names
    <3>1. /\ UNCHANGED <<queue, names, status, concurrent, runningTask>>
          /\ owed' = owed \union {k}
      BY <1>2, <2>2 DEF AddSerial
    <3>2. QueueTypeOK'
      BY <2>1, <3>1 DEF QueueTypeOK
    <3>3. NamesMatchQueue'
      BY <3>1 DEF NamesMatchQueue, Queued
    <3> QED  BY <3>2, <3>3
  <2>3. CASE NameOf[k] \notin names
    <3>1. /\ queue' = QueueWith(k)
          /\ names' = names \union {NameOf[k]}
          /\ owed' = owed \union {k}
          /\ UNCHANGED <<status, concurrent, runningTask>>
      BY <1>2, <2>3 DEF AddSerial
    <3>2. Queued' = Queued \union {k}
      BY <2>1, <3>1, QueuedWith
    <3>3. QueueTypeOK'
      BY <2>1, <3>1, QueueWithFacts DEF QueueTypeOK
    <3>4. (names = {NameOf[j] : j \in Queued})'
      BY <3>1, <3>2 DEF NamesMatchQueue
    <3>5. ASSUME NEW i \in DOMAIN queue', NEW j \in DOMAIN queue',
                 NameOf[queue'[i]] = NameOf[queue'[j]]
          PROVE  i = j
      <4> DEFINE p == Place(k)
      <4>1. p \in 1..Len(queue) + 1 /\ queue'[p] = k
        BY <2>1, <3>1, PlaceInRange, QueueWithFacts
      <4>2. \A h \in DOMAIN queue : NameOf[queue[h]] # NameOf[k]
        BY <2>3 DEF NamesMatchQueue, Queued
      <4>3. /\ i # p => \E h \in DOMAIN queue :
                           queue'[i] = queue[h] /\ h = (IF i < p THEN i ELSE i - 1)
            /\ j # p => \E h \in DOMAIN queue :
                           queue'[j] = queue[h] /\ h = (IF j < p THEN j ELSE j - 1)
        BY <2>1, <3>1, QueueWithFacts
      <4>4. i \in 1..Len(queue) + 1 /\ j \in 1..Len(queue) + 1 /\ Len(queue) \in Nat
        BY <2>1, <3>1, QueueWithFacts DEF QueueTypeOK
      <4> HIDE DEF p
      <4>5. CASE i = p /\ j # p
        BY <3>5, <4>1, <4>2, <4>3, <4>5
      <4>6. CASE i # p /\ j = p
        BY <3>5, <4>1, <4>2, <4>3, <4>6
      <4>7. CASE i # p /\ j # p
        <5>1. PICK g \in DOMAIN queue :
                 queue'[i] = queue[g] /\ g = (IF i < p THEN i ELSE i - 1)
          BY <4>3, <4>7
        <5>2. PICK h \in DOMAIN queue :
                 queue'[j] = queue[h] /\ h = (IF j < p THEN j ELSE j - 1)
          BY <4>3, <4>7
        <5>3. g = h
          BY <3>5, <5>1, <5>2 DEF NamesMatchQueue
        <5> QED
          BY <4>1, <4>4, <4>7, <5>1, <5>2, <5>3
      <4> QED
        BY <4>5, <4>6, <4>7
    <3> QED
      BY <3>3, <3>4, <3>5 DEF NamesMatchQueue
  <2> QED
    BY <2>2, <2>3
<1> QED
  BY <1>1, <1>2 DEF AddTask

\* So does a turn of the loop.
LEMMA TakeNextKeeps ==
    ASSUME QInv, TakeNext
    PROVE  QInv'
<1> USE DEF QInv
<1>1. CASE Leave
  BY <1>1 DEF TakeNext, Leave, QueueTypeOK, NamesMatchQueue, Queued
<1>2. CASE queue # <<>> /\ Begin
  <2>1. /\ runningTask' = Head(queue)
        /\ queue' = Tail(queue)
        /\ names' = names \ {NameOf[Head(queue)]}
        /\ owed' \subseteq owed
        /\ UNCHANGED <<status, concurrent>>
    BY <1>2 DEF Begin, TakeNext
  <2>2. QueueTypeOK'
    BY <1>2, <2>1, TailFacts DEF QueueTypeOK
  <2>3. \A x \in Queued' : NameOf[x] # NameOf[Head(queue)]
    <3> TAKE x \in Queued'
    <3>1. PICK i \in DOMAIN queue : i # 1 /\ queue[i] = x
      BY <1>2, <2>1, QueuedTail
    <3>2. 1 \in DOMAIN queue /\ Head(queue) = queue[1]
      BY <1>2, TailFacts
    <3> QED
      BY <3>1, <3>2 DEF NamesMatchQueue
  <2>4. (names = {NameOf[x] : x \in Queued})'
    <3>1. Queued = Queued' \union {Head(queue)}
      BY <1>2, <2>1, QueuedTail
    <3>2. names = {NameOf[x] : x \in Queued}
      BY DEF NamesMatchQueue
    <3> QED
      BY <2>1, <2>3, <3>1, <3>2
  <2>5. ASSUME NEW i \in DOMAIN queue', NEW j \in DOMAIN queue',
               NameOf[queue'[i]] = NameOf[queue'[j]]
        PROVE  i = j
    <3>1. /\ i + 1 \in DOMAIN queue /\ queue'[i] = queue[i + 1]
          /\ j + 1 \in DOMAIN queue /\ queue'[j] = queue[j + 1]
      BY <1>2, <2>1, TailFacts
    <3>2. i + 1 = j + 1
      BY <2>5, <3>1 DEF NamesMatchQueue
    <3>3. i \in Nat /\ j \in Nat
      BY <2>2 DEF QueueTypeOK
    <3> QED
      BY <3>2, <3>3
  <2> QED
    BY <2>2, <2>4, <2>5 DEF NamesMatchQueue
<1> QED
  BY <1>1, <1>2 DEF TakeNext

\* Every step keeps the types and the names.
LEMMA QueueStepKeeps ==
    ASSUME QInv, [QueueNext]_queueVars
    PROVE  QInv'
<1>1. ASSUME NEW k \in Kinds, AddTask(k) PROVE QInv'
  BY <1>1, AddKeeps
<1>2. ASSUME NEW k \in Kinds, ConcurrentEnds(k) PROVE QInv'
  BY <1>2 DEF ConcurrentEnds, QInv, QueueTypeOK, NamesMatchQueue, Queued
<1>3. CASE Tick \/ SerialEnds
  BY <1>3, TakeNextKeeps DEF Tick, SerialEnds
<1>4. CASE ToggleStatus
  BY <1>4 DEF ToggleStatus, QInv, QueueTypeOK, NamesMatchQueue, Queued
<1>5. CASE UNCHANGED queueVars
  BY <1>5 DEF queueVars, QInv, QueueTypeOK, NamesMatchQueue, Queued
<1> QED
  BY <1>1, <1>2, <1>3, <1>4, <1>5 DEF QueueNext

\* The types and the names hold always.
LEMMA QueueInvariant == QueueSafety => []QInv
<1>1. QueueInit => QInv
  <2> SUFFICES ASSUME QueueInit PROVE QInv
    OBVIOUS
  <2>1. DOMAIN queue = {} /\ queue \in Seq(Serial)
    BY DEF QueueInit
  <2> QED
    BY <2>1 DEF QueueInit, QInv, QueueTypeOK, NamesMatchQueue, Queued
<1>2. QInv /\ [QueueNext]_queueVars => QInv'
  BY QueueStepKeeps
<1> QED
  BY <1>1, <1>2, PTL DEF QueueSafety

\* The broker's state is well formed in every run (TaskQueueBroker).
THEOREM QueueTypeCorrect == QueueSafety => []QueueTypeOK
<1>1. QInv => QueueTypeOK
  BY DEF QInv
<1> QED
  BY <1>1, QueueInvariant, PTL

\* The name set of add_task always says exactly what is queued.
THEOREM NamesAgree == QueueSafety => []NamesMatchQueue
<1>1. QInv => NamesMatchQueue
  BY DEF QInv
<1> QED
  BY <1>1, QueueInvariant, PTL

\* A serial task asked for since one of its name last began has one of its name
\* in the queue: add_task ignores a request only while such a one is waiting.
THEOREM RequestsKept == QueueSafety => []OwedIsQueued
<1>1. QueueInit => OwedIsQueued
  BY DEF QueueInit, OwedIsQueued
<1>2. ASSUME QInv, OwedIsQueued, [QueueNext]_queueVars PROVE OwedIsQueued'
  <2>1. ASSUME NEW k \in Kinds, AddSerial(k), NameOf[k] \in names PROVE OwedIsQueued'
    <3>1. PICK j \in Queued : NameOf[k] = NameOf[j]
      BY <1>2, <2>1 DEF QInv, NamesMatchQueue
    <3> QED
      BY <1>2, <2>1, <3>1 DEF AddSerial, OwedIsQueued, Queued
  <2>2. ASSUME NEW k \in Kinds, AddSerial(k), NameOf[k] \notin names PROVE OwedIsQueued'
    <3>1. k \in Serial /\ queue' = QueueWith(k) /\ owed' = owed \union {k}
      BY <2>2 DEF AddSerial
    <3>2. Queued' = Queued \union {k}
      BY <1>2, <3>1, QueuedWith DEF QInv
    <3> QED
      BY <1>2, <3>1, <3>2 DEF OwedIsQueued
  <2>3. CASE TakeNext /\ Leave
    BY <1>2, <2>3 DEF TakeNext, Leave, OwedIsQueued, Queued
  <2>4. CASE queue # <<>> /\ Begin
    <3>1. queue' = Tail(queue) /\ owed' = {k \in owed : NameOf[k] # NameOf[Head(queue)]}
      BY <2>4 DEF Begin
    <3>2. Queued = Queued' \union {Head(queue)}
      BY <1>2, <2>4, <3>1, QueuedTail DEF QInv
    <3> QED
      BY <1>2, <3>1, <3>2 DEF OwedIsQueued
  <2>5. CASE UNCHANGED <<queue, owed>>
    BY <1>2, <2>5 DEF OwedIsQueued, Queued
  <2> QED
    BY <1>2, <2>1, <2>2, <2>3, <2>4, <2>5
       DEF QueueNext, AddTask, AddConcurrent, ConcurrentEnds, Tick, SerialEnds, TakeNext,
           ToggleStatus, queueVars
<1>3. QInv /\ OwedIsQueued /\ [QueueNext]_queueVars => OwedIsQueued'
  BY <1>2
<1> QED
  BY <1>1, <1>3, QueueInvariant, PTL DEF QueueSafety

\* A pause holds from the step after it, whatever drain was under way.
THEOREM PauseIsKept == QueueSafety => PauseHolds
<1>1. ASSUME [QueueNext]_queueVars, status = "paused"
      PROVE  runningTask' \in {runningTask, NoKind}
  <2>1. ASSUME TakeNext PROVE runningTask' = NoKind
    BY <1>1, <2>1 DEF TakeNext, Leave
  <2> QED
    BY <1>1, <2>1 DEF QueueNext, AddTask, AddConcurrent, AddSerial,
                      ConcurrentEnds, Tick, SerialEnds, ToggleStatus, queueVars
<1>2. [QueueNext]_queueVars
         => [status = "paused" => runningTask' \in {runningTask, NoKind}]_queueVars
  BY <1>1
<1> QED
  BY <1>2, PTL DEF QueueSafety, PauseHolds
=============================================================================
