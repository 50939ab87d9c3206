---------------------------- MODULE Channels_proofs ---------------------------
(* What becomes of channels, for any names, channels, sources, guides and      *)
(* bounds: a publish that is skipped hides no channel (SkipIsSafe), a publish  *)
(* of muxes leaves exactly those the channels need (MuxesMatch), the programme *)
(* guide at rest is that of the tables (GuideMatches), the tuners in Plex are  *)
(* those of the playlists (TunersMatch), no two channels come to share a       *)
(* number (MovesKeepNumbers), a rebuild of the programme of a 24/7 channel     *)
(* moves nothing (ScheduleIsStable), and a refresh leaves no source at an old  *)
(* address (RefreshedIsCurrent).  Each part has its invariant and a lemma for  *)
(* every action that can disturb it.                                           *)
EXTENDS ChannelLineup, ChannelMuxes, ChannelSources, Guide, PlexTuners, VodSchedule,
        FiniteSetTheorems, SequenceTheorems, WellFoundedInduction, TLAPS

-----------------------------------------------------------------------------
(* The lineup and its copy in TVHeadend                                     *)

Uuids == 0 .. (nextUuid - 1)
RowFields == {"name", "number", "enabled", "uuid"}
RowsBelow(rs, ids, uuids) ==
    \A c \in DOMAIN rs :
        /\ c \in 1 .. (ids - 1)
        /\ DOMAIN rs[c] = RowFields /\ rs[c].name \in Names /\ rs[c].uuid \in 0 .. (uuids - 1)
RowsOK(rs) == RowsBelow(rs, nextId, nextUuid)
BulkRow == [id : Nat, name : Names, uuid : Nat]

LineupTypeOK ==
    /\ nextId \in Nat \ {0} /\ nextUuid \in Nat \ {0}
    /\ RowsOK(lineup) /\ RowsOK(signed)
    /\ DOMAIN tvh \subseteq Uuids \ {0}
    /\ DOMAIN publish = {"step", "rows", "known", "uuids", "todo"}
    /\ RowsOK(publish.rows)
    /\ \A c \in DOMAIN publish.uuids : publish.uuids[c] \in Uuids
    /\ DOMAIN publish.known \subseteq Uuids
    /\ DOMAIN bulk = {"step", "names", "number", "rows", "known"}
    /\ bulk.rows \in Seq(BulkRow)
    /\ DOMAIN bulk.known \subseteq Uuids

LiveIn(copies, u) == u \in DOMAIN copies /\ copies[u] # Unnamed
Live(u) == LiveIn(tvh, u)

\* What a bulk addition holds for the copy of a channel is one, or is gone.
BulkCopies ==
    \A i \in DOMAIN bulk.rows :
        /\ bulk.rows[i].uuid \in Uuids
        /\ bulk.rows[i].uuid \in DOMAIN tvh => tvh[bulk.rows[i].uuid] # Unnamed

\* A row that is still as it was signed has its copy, but while one cleans up.
SignedLive ==
    ~shaken /\ publish.step # "clean" =>
        \A c \in DOMAIN lineup \intersect DOMAIN signed :
            signed[c].enabled /\ lineup[c].uuid = signed[c].uuid => Live(lineup[c].uuid)

\* Nothing that was listed goes while a publish copies.
Copying ==
    publish.step = "copy" =>
        /\ DOMAIN publish.known \subseteq DOMAIN tvh /\ DOMAIN publish.uuids = DOMAIN publish.rows
        /\ \A c \in DOMAIN publish.rows \ publish.todo : publish.rows[c].enabled =>
              /\ Live(publish.uuids[c])
              /\ publish.rows[c].uuid \in DOMAIN publish.known =>
                     publish.uuids[c] = publish.rows[c].uuid

\* What it deletes is not the copy a row was loaded with.
Cleaning ==
    publish.step = "clean" =>
        \A c \in DOMAIN publish.rows : publish.rows[c].enabled =>
            /\ publish.rows[c].uuid \notin publish.todo
            /\ ~shaken /\ c \in DOMAIN lineup /\ lineup[c].uuid = publish.rows[c].uuid =>
                 Live(lineup[c].uuid)

LineupInv == LineupTypeOK /\ BulkCopies /\ SignedLive /\ Copying /\ Cleaning

-----------------------------------------------------------------------------

LEMMA HavingIs ==
    ASSUME NEW f, NEW u, NEW x
    PROVE  /\ DOMAIN Having(f, u, x) = DOMAIN f \union {u}
           /\ Having(f, u, x)[u] = x
           /\ \A v \in DOMAIN f \ {u} : Having(f, u, x)[v] = f[v]
    BY DEF Having

SameRow(r, s) ==
    DOMAIN r = DOMAIN s /\ r.name = s.name /\ r.uuid = s.uuid /\ r.enabled = s.enabled

LEMMA NumberOnly ==
    ASSUME NEW r, DOMAIN r = RowFields, NEW n
    PROVE  SameRow([r EXCEPT !.number = n], r)
    BY DEF RowFields, SameRow

LEMMA ShiftedRows ==
    ASSUME NEW rs, \A c \in DOMAIN rs : DOMAIN rs[c] = RowFields, NEW moved, NEW by
    PROVE  /\ DOMAIN Shifted(rs, moved, by) = DOMAIN rs
           /\ \A c \in DOMAIN rs : SameRow(Shifted(rs, moved, by)[c], rs[c])
  <1>1. \A c \in DOMAIN rs : SameRow([rs[c] EXCEPT !.number = @ + by], rs[c])
    BY DEF RowFields, SameRow
  <1>2. \A c \in DOMAIN rs : SameRow(rs[c], rs[c])
    BY DEF SameRow
  <1> QED  BY <1>1, <1>2 DEF Shifted

\* No number given to a channel touches more than numbers.
LEMMA RenumberedRows ==
    ASSUME \A c \in DOMAIN lineup : DOMAIN lineup[c] = RowFields, NEW id \in DOMAIN lineup, NEW n
    PROVE  /\ DOMAIN Renumbered(id, n) = DOMAIN lineup
           /\ \A c \in DOMAIN lineup : SameRow(Renumbered(id, n)[c], lineup[c])
  <1>1. SameRow([lineup[id] EXCEPT !.number = n], lineup[id])
    BY NumberOnly
  <1> DEFINE new == [lineup[id] EXCEPT !.number = n]
  <1> HIDE DEF new
  <1>2. PICK moved, by : Renumbered(id, n) = Having(Shifted(lineup, moved, by), id, new)
    BY DEF Renumbered, new
  <1>3. /\ DOMAIN Shifted(lineup, moved, by) = DOMAIN lineup
        /\ \A c \in DOMAIN lineup : SameRow(Shifted(lineup, moved, by)[c], lineup[c])
    BY ShiftedRows
  <1>4. SameRow(new, lineup[id])
    BY <1>1 DEF new
  <1> DEFINE rs == Shifted(lineup, moved, by)
  <1> HIDE DEF rs
  <1>5. /\ DOMAIN Having(rs, id, new) = DOMAIN rs \union {id} /\ Having(rs, id, new)[id] = new
        /\ \A c \in DOMAIN rs \ {id} : Having(rs, id, new)[c] = rs[c]
    BY DEF Having
  <1>6. DOMAIN rs = DOMAIN lineup /\ \A c \in DOMAIN lineup : SameRow(rs[c], lineup[c])
    BY <1>3 DEF rs
  <1>7. Renumbered(id, n) = Having(rs, id, new)
    BY <1>2 DEF rs
  <1> QED  BY <1>4, <1>5, <1>6, <1>7

LEMMA InsertedRows ==
    ASSUME LineupTypeOK, NEW name \in Names, NEW n
    PROVE  /\ DOMAIN Inserted(name, n) = DOMAIN lineup \union {nextId} /\ nextId \notin DOMAIN lineup
           /\ \A c \in DOMAIN lineup : SameRow(Inserted(name, n)[c], lineup[c])
           /\ DOMAIN Inserted(name, n)[nextId] = RowFields
           /\ Inserted(name, n)[nextId].name = name /\ Inserted(name, n)[nextId].uuid = 0
  <1>1. nextId \notin DOMAIN lineup
    BY DEF LineupTypeOK, RowsOK, RowsBelow
  <1> DEFINE new == [name |-> name, number |-> n, enabled |-> TRUE, uuid |-> NoUuid]
             moved == {m \in Numbers : m >= n}
  <1>2. DOMAIN new = RowFields /\ new.name = name /\ new.uuid = 0
    BY DEF RowFields, NoUuid
  <1>3. Inserted(name, n) = Having(Shifted(lineup, moved, 1), nextId, new)
    BY DEF Inserted
  <1> HIDE DEF new, moved
  <1>4. /\ DOMAIN Shifted(lineup, moved, 1) = DOMAIN lineup
        /\ \A c \in DOMAIN lineup : SameRow(Shifted(lineup, moved, 1)[c], lineup[c])
    BY ShiftedRows DEF LineupTypeOK, RowsOK, RowsBelow
  <1> DEFINE rs == Shifted(lineup, moved, 1)
  <1> HIDE DEF rs
  <1>5. /\ DOMAIN Having(rs, nextId, new) = DOMAIN rs \union {nextId}
        /\ Having(rs, nextId, new)[nextId] = new
        /\ \A c \in DOMAIN rs \ {nextId} : Having(rs, nextId, new)[c] = rs[c]
    BY DEF Having
  <1>6. DOMAIN rs = DOMAIN lineup /\ \A c \in DOMAIN lineup : SameRow(rs[c], lineup[c])
    BY <1>4 DEF rs
  <1>7. Inserted(name, n) = Having(rs, nextId, new)
    BY <1>3 DEF rs
  <1> QED  BY <1>1, <1>2, <1>5, <1>6, <1>7

\* The requests that edit the lineup.
LineupEdits ==
    \/ \E name \in Names, n \in Places : AddNewChannel(name, n)
    \/ \E c \in DOMAIN lineup, name \in Names, n \in Places, b \in BOOLEAN :
         EditChannel(c, name, n, b)
    \/ \E order \in SetToSeqs(DOMAIN lineup) : \E k \in 1..Len(order) :
         UpdateChannelsOrder(SubSeq(order, 1, k))
    \/ \E c \in DOMAIN lineup : DeleteChannel(c)

ByBulk ==
    \/ \E names \in (SUBSET Names) \ {{}} : BulkStarts(names)
    \/ \E name \in Names : BulkAdds(name)
    \/ BulkLists \/ BulkFails \/ BulkEnds
    \/ \E i \in DOMAIN bulk.rows : BulkPublishes(i)

ByPublish ==
    \/ HourlyPublish \/ SkipsPublish \/ StartsPublish \/ PublishLists
    \/ \E c \in DOMAIN publish.rows : PublishesChannel(c)
    \/ PublishCommits \/ PublishSigns \/ PublishFails
    \/ \E u \in publish.todo : PublishDeletes(u)

LEMMA LineupSteps ==
    ASSUME [LineupNext]_lineupVars
    PROVE  \/ LineupEdits \/ ByBulk \/ ByPublish \/ MapAllServices \/ CleanupOldChannels
           \/ UNCHANGED lineupVars
    BY DEF LineupNext, LineupEdits, ByBulk, ByPublish

\* What an edit, or a channel added in bulk, makes of the rows.
LEMMA EditedRows ==
    ASSUME LineupTypeOK, LineupEdits \/ \E name \in Names : BulkAdds(name)
    PROVE  /\ nextId' \in Nat \ {0} /\ nextId <= nextId' /\ UNCHANGED nextUuid
           /\ RowsOK(lineup)'
           /\ \A c \in DOMAIN lineup' \intersect DOMAIN lineup : lineup'[c].uuid = lineup[c].uuid
           /\ \A c \in DOMAIN lineup' \ DOMAIN lineup : c = nextId
  <1>1. \A c \in DOMAIN lineup : DOMAIN lineup[c] = RowFields
    BY DEF LineupTypeOK, RowsOK, RowsBelow
  <1>2. ASSUME NEW name \in Names, NEW n, lineup' = Inserted(name, n), nextId' = nextId + 1,
               UNCHANGED nextUuid
        PROVE  /\ RowsOK(lineup)'
               /\ \A c \in DOMAIN lineup' \intersect DOMAIN lineup : lineup'[c].uuid = lineup[c].uuid
               /\ \A c \in DOMAIN lineup' \ DOMAIN lineup : c = nextId
    <2>1. /\ DOMAIN lineup' = DOMAIN lineup \union {nextId} /\ nextId \notin DOMAIN lineup
          /\ \A c \in DOMAIN lineup : SameRow(lineup'[c], lineup[c])
          /\ DOMAIN lineup'[nextId] = RowFields
          /\ lineup'[nextId].name = name /\ lineup'[nextId].uuid = 0
      BY <1>2, InsertedRows
    <2>2. nextId \in Nat /\ nextId >= 1 /\ nextUuid \in Nat \ {0}
      BY DEF LineupTypeOK
    <2>3. \A c \in DOMAIN lineup :
             /\ c \in 1 .. (nextId - 1) /\ DOMAIN lineup[c] = RowFields
             /\ lineup[c].name \in Names /\ lineup[c].uuid \in 0 .. (nextUuid - 1)
      BY DEF LineupTypeOK, RowsOK, RowsBelow
    <2>4. \A c \in DOMAIN lineup : c \in 1 .. (nextId' - 1)
      BY <1>2, <2>2, <2>3
    <2>5. nextId \in 1 .. (nextId' - 1) /\ 0 \in 0 .. (nextUuid' - 1)
      BY <1>2, <2>2
    <2>6. RowsOK(lineup)'
      BY <1>2, <2>1, <2>3, <2>4, <2>5 DEF RowsOK, RowsBelow, SameRow
    <2> QED  BY <2>1, <2>6 DEF SameRow
  <1>3. CASE \E name \in Names, n \in Places : AddNewChannel(name, n)
    BY <1>2, <1>3 DEF AddNewChannel, tvhVars, LineupTypeOK
  <1>4. ASSUME NEW c \in DOMAIN lineup, NEW name \in Names, NEW n, NEW b, EditChannel(c, name, n, b)
        PROVE  /\ UNCHANGED <<nextId, nextUuid>> /\ RowsOK(lineup)' /\ DOMAIN lineup' = DOMAIN lineup
               /\ \A d \in DOMAIN lineup : lineup'[d].uuid = lineup[d].uuid
    <2>1. lineup' = [Renumbered(c, n) EXCEPT ![c].name = name, ![c].enabled = b]
          /\ UNCHANGED <<nextId, nextUuid>>
      BY <1>4 DEF EditChannel, RequestOnly, tvhVars
    <2>2. /\ DOMAIN Renumbered(c, n) = DOMAIN lineup
          /\ \A d \in DOMAIN lineup : SameRow(Renumbered(c, n)[d], lineup[d])
      BY <1>1, RenumberedRows
    <2>3. DOMAIN lineup' = DOMAIN lineup
          /\ \A d \in DOMAIN lineup \ {c} : lineup'[d] = Renumbered(c, n)[d]
      BY <2>1, <2>2
    <2> DEFINE old == Renumbered(c, n)[c]
    <2>4. lineup'[c] = [[old EXCEPT !.name = name] EXCEPT !.enabled = b]
      BY <2>1, <2>2
    <2> HIDE DEF old
    <2>5. DOMAIN old = RowFields /\ old.uuid = lineup[c].uuid
      BY <1>1, <2>2 DEF old, SameRow
    <2>6. DOMAIN lineup'[c] = RowFields /\ lineup'[c].name = name /\ lineup'[c].uuid = lineup[c].uuid
      BY <2>4, <2>5 DEF RowFields
    <2> QED  BY <2>1, <2>2, <2>3, <2>6 DEF LineupTypeOK, RowsOK, RowsBelow, SameRow
  <1>5. ASSUME NEW order, UpdateChannelsOrder(order)
        PROVE  /\ UNCHANGED <<nextId, nextUuid>> /\ RowsOK(lineup)' /\ DOMAIN lineup' = DOMAIN lineup
               /\ \A d \in DOMAIN lineup : lineup'[d].uuid = lineup[d].uuid
    <2>1. DOMAIN lineup' = DOMAIN lineup /\ UNCHANGED <<nextId, nextUuid>>
      BY <1>5 DEF UpdateChannelsOrder, RequestOnly, tvhVars
    <2>2. \A d \in DOMAIN lineup : lineup'[d] = lineup[d] \/ \E n : lineup'[d] = [lineup[d] EXCEPT !.number = n]
      BY <1>5 DEF UpdateChannelsOrder
    <2>3. \A d \in DOMAIN lineup : SameRow(lineup'[d], lineup[d])
      <3> SUFFICES ASSUME NEW d \in DOMAIN lineup
                   PROVE  SameRow(lineup'[d], lineup[d])
        OBVIOUS
      <3>1. DOMAIN lineup[d] = RowFields
        BY <1>1
      <3>2. CASE lineup'[d] = lineup[d]
        BY <3>2 DEF SameRow
      <3>3. ASSUME NEW n, lineup'[d] = [lineup[d] EXCEPT !.number = n]
            PROVE  SameRow(lineup'[d], lineup[d])
        BY <3>1, <3>3, NumberOnly
      <3> QED  BY <2>2, <3>2, <3>3
    <2> QED  BY <2>1, <2>3 DEF LineupTypeOK, RowsOK, RowsBelow, SameRow
  <1>6. CASE \E c \in DOMAIN lineup : DeleteChannel(c)
    BY <1>6 DEF DeleteChannel, RequestOnly, tvhVars, LineupTypeOK, RowsOK, RowsBelow
  <1>7. CASE \E name \in Names : BulkAdds(name)
    <2>1. PICK name \in Names : BulkAdds(name)
      BY <1>7
    <2>2. UNCHANGED nextUuid
      BY <2>1 DEF BulkAdds, tvhVars
    <2>3. CASE UNCHANGED rowVars
      BY <2>2, <2>3 DEF rowVars, LineupTypeOK, RowsOK, RowsBelow
    <2>4. CASE lineup' = Inserted(name, bulk.number + 1) /\ nextId' = nextId + 1
      BY <1>2, <2>2, <2>4 DEF LineupTypeOK
    <2> QED  BY <2>1, <2>3, <2>4 DEF BulkAdds
  <1>8. nextId \in Nat \ {0}
    BY DEF LineupTypeOK
  <1> QED  BY <1>3, <1>4, <1>5, <1>6, <1>7, <1>8 DEF LineupEdits

LEMMA KnownStays ==
    ASSUME LineupTypeOK, nextId' \in Nat \ {0}, nextId <= nextId',
           nextUuid' \in Nat \ {0}, nextUuid <= nextUuid'
    PROVE  /\ RowsBelow(lineup, nextId', nextUuid') /\ RowsBelow(signed, nextId', nextUuid')
           /\ RowsBelow(publish.rows, nextId', nextUuid') /\ Uuids \subseteq Uuids'
  <1>1. nextId \in Int /\ nextUuid \in Int /\ nextId' \in Int /\ nextUuid' \in Int
    BY DEF LineupTypeOK
  <1> DEFINE i == nextId  j == nextId'  u == nextUuid  v == nextUuid'
  <1>a. i \in Int /\ j \in Int /\ u \in Int /\ v \in Int /\ i <= j /\ u <= v
    BY <1>1
  <1> HIDE DEF i, j, u, v
  <1>b. /\ \A x \in 1 .. (i - 1) : x \in 1 .. (j - 1)
        /\ \A x \in 0 .. (u - 1) : x \in 0 .. (v - 1)
    BY <1>a
  <1>2. /\ \A x \in 1 .. (nextId - 1) : x \in 1 .. (nextId' - 1)
        /\ \A x \in 0 .. (nextUuid - 1) : x \in 0 .. (nextUuid' - 1)
    BY <1>b DEF i, j, u, v
  <1>3. RowsBelow(lineup, nextId', nextUuid')
    BY <1>2 DEF RowsBelow, LineupTypeOK, RowsOK
  <1>4. RowsBelow(signed, nextId', nextUuid')
    BY <1>2 DEF RowsBelow, LineupTypeOK, RowsOK
  <1>5. RowsBelow(publish.rows, nextId', nextUuid')
    BY <1>2 DEF RowsBelow, LineupTypeOK, RowsOK
  <1> QED  BY <1>2, <1>3, <1>4, <1>5 DEF Uuids

LEMMA EditsKeepType ==
    ASSUME LineupTypeOK, LineupEdits
    PROVE  LineupTypeOK'
  <1>1. UNCHANGED <<tvh, nextUuid, signed, publish, bulk>>
    BY DEF LineupEdits, AddNewChannel, EditChannel, UpdateChannelsOrder, DeleteChannel, RequestOnly, tvhVars
  <1>2. nextId' \in Nat \ {0} /\ nextId <= nextId' /\ RowsOK(lineup)'
    BY EditedRows
  <1>3. nextUuid' \in Nat \ {0} /\ nextUuid <= nextUuid'
    BY <1>1 DEF LineupTypeOK
  <1> QED  BY <1>1, <1>2, <1>3, KnownStays DEF LineupTypeOK, RowsOK, Uuids

PublishFields == {"step", "rows", "known", "uuids", "todo"}
BulkFields == {"step", "names", "number", "rows", "known"}

\* The copy of a channel is one of those known, or a new one.
LEMMA CopyMade ==
    ASSUME LineupTypeOK, NEW u, NEW name \in Names, NEW isNew \in BOOLEAN,
           isNew => u = nextUuid, u \in Uuids \union {nextUuid},
           tvh' = IF isNew \/ u \in DOMAIN tvh THEN Having(tvh, u, name) ELSE tvh,
           nextUuid' = IF isNew THEN nextUuid + 1 ELSE nextUuid
    PROVE  /\ nextUuid' \in Nat \ {0} /\ nextUuid <= nextUuid'
           /\ DOMAIN tvh \subseteq DOMAIN tvh' /\ DOMAIN tvh' \subseteq Uuids' \ {0}
           /\ (isNew => u \in Uuids') /\ Uuids \subseteq Uuids'
           /\ \A v \in DOMAIN tvh' : \/ v \in DOMAIN tvh /\ tvh'[v] = tvh[v]
                                     \/ v = u /\ tvh'[v] = name
           /\ u \in DOMAIN tvh' => tvh'[u] = name
           /\ isNew \/ u \in DOMAIN tvh => u \in DOMAIN tvh'
  <1>1. nextUuid \in Nat \ {0} /\ DOMAIN tvh \subseteq Uuids \ {0}
    BY DEF LineupTypeOK
  <1>2. CASE isNew
    <2>1. DOMAIN tvh' = DOMAIN tvh \union {u} /\ tvh'[u] = name
          /\ \A v \in DOMAIN tvh \ {u} : tvh'[v] = tvh[v]
      BY <1>2 DEF Having
    <2>2. u = nextUuid /\ nextUuid' = nextUuid + 1
      BY <1>2
    <2> QED  BY <1>1, <1>2, <2>1, <2>2 DEF Uuids
  <1>3. CASE ~isNew /\ u \in DOMAIN tvh
    <2>1. DOMAIN tvh' = DOMAIN tvh /\ tvh'[u] = name
          /\ \A v \in DOMAIN tvh \ {u} : tvh'[v] = tvh[v]
      BY <1>3 DEF Having
    <2> QED  BY <1>1, <1>3, <2>1 DEF Uuids
  <1>4. CASE ~isNew /\ u \notin DOMAIN tvh
    BY <1>1, <1>4 DEF Uuids
  <1> QED  BY <1>2, <1>3, <1>4

LEMMA UuidsWritten ==
    ASSUME RowsOK(lineup), NEW us, \A c \in DOMAIN us : us[c] \in Uuids
    PROVE  /\ RowsOK(WithUuids(lineup, us)) /\ DOMAIN WithUuids(lineup, us) = DOMAIN lineup
           /\ \A c \in DOMAIN lineup :
                 WithUuids(lineup, us)[c].uuid = IF c \in DOMAIN us THEN us[c] ELSE lineup[c].uuid
  <1>1. DOMAIN WithUuids(lineup, us) = DOMAIN lineup
    BY DEF WithUuids
  <1> SUFFICES ASSUME NEW c \in DOMAIN lineup
               PROVE  /\ c \in 1 .. (nextId - 1)
                      /\ DOMAIN WithUuids(lineup, us)[c] = RowFields
                      /\ WithUuids(lineup, us)[c].name \in Names
                      /\ WithUuids(lineup, us)[c].uuid \in 0 .. (nextUuid - 1)
                      /\ WithUuids(lineup, us)[c].uuid =
                             IF c \in DOMAIN us THEN us[c] ELSE lineup[c].uuid
    BY <1>1 DEF RowsOK, RowsBelow
  <1>2. /\ c \in 1 .. (nextId - 1) /\ DOMAIN lineup[c] = RowFields
        /\ lineup[c].name \in Names /\ lineup[c].uuid \in 0 .. (nextUuid - 1)
    BY DEF RowsOK, RowsBelow
  <1>3. CASE c \in DOMAIN us
    <2>1. WithUuids(lineup, us)[c] = [lineup[c] EXCEPT !.uuid = us[c]]
      BY <1>3 DEF WithUuids
    <2> QED  BY <1>2, <1>3, <2>1 DEF RowFields, Uuids
  <1>4. CASE c \notin DOMAIN us
    BY <1>2, <1>4 DEF WithUuids
  <1> QED  BY <1>3, <1>4

\* A bulk addition writes the uuids it holds, and nothing else of the rows.
LEMMA BulkWrites ==
    ASSUME LineupTypeOK, BulkCopies, BulkEnds
    PROVE  /\ UNCHANGED <<nextId, tvhVars, signed, publish>> /\ bulk' = NoBulk
           /\ RowsOK(lineup)' /\ DOMAIN lineup' = DOMAIN lineup
           /\ \A c \in DOMAIN lineup :
                 \/ lineup'[c].uuid = lineup[c].uuid
                 \/ \E i \in DOMAIN bulk.rows : lineup'[c].uuid = bulk.rows[i].uuid
  <1> DEFINE ids == {bulk.rows[i].id : i \in DOMAIN bulk.rows}
             us == [c \in ids |-> (CHOOSE r \in ToSet(bulk.rows) : r.id = c).uuid]
  <1>1. UNCHANGED <<nextId, tvhVars, signed, publish>> /\ bulk' = NoBulk /\ lineup' = WithUuids(lineup, us)
    BY DEF BulkEnds
  <1>2. \A c \in ids : \E i \in DOMAIN bulk.rows : us[c] = bulk.rows[i].uuid
    <2> TAKE c \in ids
    <2>1. \E r \in ToSet(bulk.rows) : r.id = c
      BY DEF ToSet
    <2>2. (CHOOSE r \in ToSet(bulk.rows) : r.id = c) \in ToSet(bulk.rows)
      BY <2>1
    <2> QED  BY <2>2 DEF ToSet
  <1>3. DOMAIN us = ids
    OBVIOUS
  <1> HIDE DEF us
  <1>4. \A c \in DOMAIN us : us[c] \in Uuids
    BY <1>2, <1>3 DEF BulkCopies
  <1>5. RowsOK(lineup)
    BY DEF LineupTypeOK
  <1>6. /\ RowsOK(lineup') /\ DOMAIN lineup' = DOMAIN lineup
        /\ \A c \in DOMAIN lineup :
              lineup'[c].uuid = IF c \in DOMAIN us THEN us[c] ELSE lineup[c].uuid
    BY <1>1, <1>4, <1>5, UuidsWritten
  <1>7. RowsOK(lineup)'
    BY <1>1, <1>6 DEF RowsOK, tvhVars
  <1> QED  BY <1>1, <1>2, <1>3, <1>6, <1>7

LEMMA BulkKeepsType ==
    ASSUME LineupTypeOK, BulkCopies, ByBulk
    PROVE  LineupTypeOK'
  <1>1. UNCHANGED <<signed, publish>>
    BY DEF ByBulk, BulkStarts, BulkAdds, BulkLists, BulkFails, BulkEnds, BulkPublishes
  <1>2. /\ nextId \in Nat \ {0} /\ nextUuid \in Nat \ {0} /\ DOMAIN tvh \subseteq Uuids \ {0}
        /\ DOMAIN bulk = BulkFields /\ bulk.rows \in Seq(BulkRow) /\ DOMAIN bulk.known \subseteq Uuids
    BY DEF LineupTypeOK, BulkFields
  <1> DEFINE BulkOK == /\ DOMAIN bulk' = BulkFields /\ bulk'.rows \in Seq(BulkRow)
                       /\ DOMAIN bulk'.known \subseteq Uuids'
  <1>3. ASSUME nextId' \in Nat \ {0}, nextId <= nextId', nextUuid' \in Nat \ {0}, nextUuid <= nextUuid',
               RowsOK(lineup)', DOMAIN tvh' \subseteq Uuids' \ {0}, BulkOK
        PROVE  LineupTypeOK'
    BY <1>1, <1>3, KnownStays DEF LineupTypeOK, RowsOK, Uuids, BulkFields
  <1>4. ASSUME NEW names, BulkStarts(names)
        PROVE  LineupTypeOK'
    <2>1. UNCHANGED <<lineup, nextId, nextUuid, tvh>>
      BY <1>4 DEF BulkStarts, rowVars, tvhVars
    <2>2. PICK n : bulk' = [NoBulk EXCEPT !.step = "add", !.names = names, !.number = n]
      BY <1>4 DEF BulkStarts
    <2>3. DOMAIN NoBulk = BulkFields /\ NoBulk.rows = <<>> /\ NoBulk.known = <<>>
      BY DEF NoBulk, BulkFields
    <2>4. DOMAIN bulk' = BulkFields /\ bulk'.rows = <<>> /\ bulk'.known = <<>>
      BY <2>2, <2>3 DEF BulkFields
    <2>5. <<>> \in Seq(BulkRow) /\ DOMAIN <<>> = {}
      OBVIOUS
    <2> QED  BY <1>2, <1>3, <2>1, <2>4, <2>5 DEF LineupTypeOK, Uuids, RowsOK
  <1>5. ASSUME NEW name \in Names, BulkAdds(name)
        PROVE  LineupTypeOK'
    <2>1. UNCHANGED <<nextUuid, tvh>>
      BY <1>5 DEF BulkAdds, tvhVars
    <2>2. nextId' \in Nat \ {0} /\ nextId <= nextId' /\ RowsOK(lineup)'
      BY <1>5, EditedRows
    <2>3. DOMAIN bulk' = BulkFields /\ bulk'.known = bulk.known
      BY <1>2, <1>5 DEF BulkAdds, BulkFields
    <2>4. bulk'.rows = bulk.rows
          \/ bulk'.rows = Append(bulk.rows, [id |-> nextId, name |-> name, uuid |-> NoUuid])
      BY <1>2, <1>5 DEF BulkAdds, BulkFields
    <2>5. [id |-> nextId, name |-> name, uuid |-> NoUuid] \in BulkRow
      BY <1>2 DEF BulkRow, NoUuid
    <2>6. bulk'.rows \in Seq(BulkRow)
      <3> DEFINE e == [id |-> nextId, name |-> name, uuid |-> NoUuid]
      <3>1. e \in BulkRow /\ (bulk'.rows = bulk.rows \/ bulk'.rows = Append(bulk.rows, e))
        BY <2>4, <2>5
      <3> HIDE DEF e
      <3> QED  BY <1>2, <3>1
    <2> QED  BY <1>2, <1>3, <2>1, <2>2, <2>3, <2>6 DEF Uuids
  <1>6. CASE BulkLists \/ BulkFails
    <2>1. UNCHANGED <<lineup, nextId, nextUuid, tvh>>
      BY <1>6 DEF BulkLists, BulkFails, rowVars, tvhVars
    <2>2. DOMAIN bulk' = BulkFields /\ (bulk'.known = bulk.known \/ bulk'.known = tvh)
      BY <1>2, <1>6 DEF BulkLists, BulkFails, BulkFields
    <2>3. bulk'.rows = bulk.rows \/ \E i \in DOMAIN bulk.rows : bulk'.rows = RemoveAt(bulk.rows, i)
      BY <1>2, <1>6 DEF BulkLists, BulkFails, BulkFields
    <2>4. \A i \in DOMAIN bulk.rows : RemoveAt(bulk.rows, i) \in Seq(BulkRow)
      BY <1>2 DEF RemoveAt
    <2>5. bulk'.rows \in Seq(BulkRow)
      BY <1>2, <2>3, <2>4
    <2> QED  BY <1>2, <1>3, <2>1, <2>2, <2>5 DEF LineupTypeOK, Uuids, RowsOK
  <1>7. ASSUME NEW i \in DOMAIN bulk.rows, BulkPublishes(i)
        PROVE  LineupTypeOK'
    <2> DEFINE name == bulk.rows[i].name
               named == UuidsNamed(bulk.known, name)
               isNew == named = {}
    <2>0. bulk.rows[i] \in BulkRow /\ name \in Names
      <3>1. bulk.rows[i] \in BulkRow
        BY <1>2
      <3> QED  BY <3>1 DEF BulkRow
    <2>1. PICK u \in IF named = {} THEN {nextUuid} ELSE named :
             /\ bulk' = [bulk EXCEPT !.rows[i].uuid = u, !.known = Having(@, u, name)]
             /\ tvh' = IF named = {} \/ u \in DOMAIN tvh THEN Having(tvh, u, name) ELSE tvh
             /\ nextUuid' = IF named = {} THEN nextUuid + 1 ELSE nextUuid
      BY <1>7 DEF BulkPublishes
    <2>2. named \subseteq Uuids
      BY <1>2 DEF UuidsNamed
    <2>3. UNCHANGED <<lineup, nextId>>
      BY <1>7 DEF BulkPublishes, rowVars
    <2>4. bulk' = [[bulk EXCEPT !.rows = [bulk.rows EXCEPT ![i].uuid = u]]
                       EXCEPT !.known = Having(bulk.known, u, name)]
      BY <1>2, <2>1 DEF BulkFields
    <2>5. DOMAIN bulk' = BulkFields /\ bulk'.rows = [bulk.rows EXCEPT ![i].uuid = u]
          /\ bulk'.known = Having(bulk.known, u, name)
      BY <1>2, <2>4 DEF BulkFields
    <2> HIDE DEF name, named
    <2>6. u \in Uuids \union {nextUuid} /\ u \in Nat
      BY <1>2, <2>1, <2>2 DEF Uuids
    <2>7. bulk'.rows \in Seq(BulkRow)
      <3> DEFINE r == [bulk.rows[i] EXCEPT !.uuid = u]
      <3>1. r \in BulkRow /\ bulk'.rows = [bulk.rows EXCEPT ![i] = r]
        BY <2>0, <2>5, <2>6 DEF BulkRow
      <3> HIDE DEF r
      <3> QED  BY <1>2, <3>1
    <2>8. /\ nextUuid' \in Nat \ {0} /\ nextUuid <= nextUuid' /\ DOMAIN tvh' \subseteq Uuids' \ {0}
          /\ (isNew => u \in Uuids') /\ Uuids \subseteq Uuids'
      BY <2>0, <2>1, <2>6, CopyMade
    <2>9. DOMAIN bulk'.known \subseteq Uuids'
      BY <1>2, <2>1, <2>2, <2>5, <2>8 DEF Having
    <2>10. RowsOK(lineup)'
      BY <1>2, <2>3, <2>8, KnownStays DEF RowsOK
    <2> QED  BY <1>2, <1>3, <2>3, <2>5, <2>7, <2>8, <2>9, <2>10
  <1>8. CASE BulkEnds
    <2>1. UNCHANGED <<nextId, nextUuid, tvh>> /\ bulk' = NoBulk /\ RowsOK(lineup)'
      BY <1>8, BulkWrites DEF tvhVars
    <2>2. DOMAIN NoBulk = BulkFields /\ NoBulk.rows = <<>> /\ NoBulk.known = <<>>
      BY DEF NoBulk, BulkFields
    <2>3. <<>> \in Seq(BulkRow) /\ DOMAIN <<>> = {}
      OBVIOUS
    <2> QED  BY <1>2, <1>3, <2>1, <2>2, <2>3 DEF Uuids
  <1> QED  BY <1>4, <1>5, <1>6, <1>7, <1>8 DEF ByBulk

LEMMA PublishKeepsType ==
    ASSUME LineupTypeOK, ByPublish
    PROVE  LineupTypeOK'
  <1>1. UNCHANGED <<nextId, bulk>>
    BY DEF ByPublish, HourlyPublish, SkipsPublish, StartsPublish, PublishLists, PublishesChannel,
       PublishCommits, PublishSigns, PublishFails, PublishDeletes, rowVars
  <1>2. /\ nextId \in Nat \ {0} /\ nextUuid \in Nat \ {0} /\ DOMAIN tvh \subseteq Uuids \ {0}
        /\ DOMAIN publish = PublishFields
        /\ \A c \in DOMAIN publish.uuids : publish.uuids[c] \in Uuids
        /\ DOMAIN publish.known \subseteq Uuids
        /\ RowsOK(lineup) /\ RowsOK(signed) /\ RowsOK(publish.rows)
        /\ DOMAIN bulk.known \subseteq Uuids
    BY DEF LineupTypeOK, PublishFields
  <1> DEFINE PublishOK == /\ DOMAIN publish' = PublishFields /\ RowsOK(publish.rows)'
                          /\ \A c \in DOMAIN publish'.uuids : publish'.uuids[c] \in Uuids'
                          /\ DOMAIN publish'.known \subseteq Uuids'
  <1>3. ASSUME nextUuid' \in Nat \ {0}, Uuids \subseteq Uuids', RowsOK(lineup)', RowsOK(signed)',
               DOMAIN tvh' \subseteq Uuids' \ {0}, PublishOK
        PROVE  LineupTypeOK'
    BY <1>1, <1>2, <1>3 DEF LineupTypeOK, PublishFields
  <1>4. /\ DOMAIN NoPublish = PublishFields /\ NoPublish.rows = <<>>
        /\ NoPublish.uuids = <<>> /\ NoPublish.known = <<>> /\ DOMAIN <<>> = {}
    BY DEF NoPublish, PublishFields
  <1>5. CASE HourlyPublish \/ SkipsPublish
    BY <1>1, <1>2, <1>5 DEF HourlyPublish, SkipsPublish, rowVars, tvhVars, LineupTypeOK, RowsOK, Uuids
  <1>6. CASE StartsPublish
    <2>1. UNCHANGED <<lineup, nextUuid, tvh, signed>>
      BY <1>6 DEF StartsPublish, rowVars, tvhVars
    <2>2. /\ DOMAIN publish' = PublishFields /\ publish'.rows = lineup
          /\ publish'.uuids = <<>> /\ publish'.known = <<>>
      BY <1>4, <1>6 DEF StartsPublish, PublishFields
    <2> QED  BY <1>1, <1>2, <1>3, <1>4, <2>1, <2>2 DEF RowsOK, Uuids
  <1>7. CASE PublishLists
    <2>1. UNCHANGED <<lineup, nextUuid, tvh, signed>>
      BY <1>7 DEF PublishLists, rowVars, tvhVars
    <2> DEFINE us == [c \in DOMAIN publish.rows |-> publish.rows[c].uuid]
               on == {c \in DOMAIN publish.rows : publish.rows[c].enabled}
    <2>2. publish' = [publish EXCEPT !.step = "copy", !.known = tvh, !.uuids = us, !.todo = on]
      BY <1>7 DEF PublishLists
    <2>3. DOMAIN us = DOMAIN publish.rows /\ \A c \in DOMAIN us : us[c] \in Uuids
      BY <1>2 DEF RowsOK, RowsBelow, Uuids
    <2> HIDE DEF us, on
    <2>4. /\ DOMAIN publish' = PublishFields /\ publish'.rows = publish.rows
          /\ publish'.uuids = us /\ publish'.known = tvh
      BY <1>2, <2>2 DEF PublishFields
    <2> QED  BY <1>1, <1>2, <1>3, <2>1, <2>3, <2>4 DEF RowsOK, Uuids
  <1>8. ASSUME NEW id \in DOMAIN publish.rows, PublishesChannel(id)
        PROVE  LineupTypeOK'
    <2> DEFINE name == publish.rows[id].name
               isNew == CopiesOf(id) = {}
    <2>1. PICK u \in IF isNew THEN {nextUuid} ELSE CopiesOf(id) :
             /\ publish' = [publish EXCEPT !.todo = @ \ {id}, !.uuids[id] = u,
                              !.known = IF isNew THEN Having(@, u, name) ELSE @]
             /\ tvh' = IF isNew \/ u \in DOMAIN tvh THEN Having(tvh, u, name) ELSE tvh
             /\ nextUuid' = IF isNew THEN nextUuid + 1 ELSE nextUuid
      BY <1>8 DEF PublishesChannel
    <2>2. UNCHANGED <<lineup, signed>>
      BY <1>8 DEF PublishesChannel, rowVars
    <2>3. name \in Names /\ CopiesOf(id) \subseteq Uuids
      BY <1>2 DEF CopiesOf, UuidsNamed, RowsOK, RowsBelow, Uuids
    <2> DEFINE left == publish.todo \ {id}
               us == [publish.uuids EXCEPT ![id] = u]
               list == IF isNew THEN Having(publish.known, u, name) ELSE publish.known
    <2>4. publish' = [publish EXCEPT !.todo = left, !.uuids = us, !.known = list]
      BY <1>2, <2>1 DEF PublishFields
    <2> HIDE DEF name, isNew, left, us, list
    <2>5. /\ DOMAIN publish' = PublishFields /\ publish'.rows = publish.rows
          /\ publish'.uuids = us /\ publish'.known = list
      BY <1>2, <2>4 DEF PublishFields
    <2>6. u \in Uuids \union {nextUuid} /\ (isNew => u = nextUuid) /\ isNew \in BOOLEAN
      BY <2>1, <2>3 DEF isNew
    <2>7. /\ nextUuid' \in Nat \ {0} /\ nextUuid <= nextUuid' /\ DOMAIN tvh' \subseteq Uuids' \ {0}
          /\ (isNew => u \in Uuids') /\ Uuids \subseteq Uuids'
      BY <2>1, <2>3, <2>6, CopyMade
    <2>8. u \in Uuids'
      BY <2>1, <2>3, <2>7
    <2>9. \A c \in DOMAIN us : us[c] \in Uuids'
      BY <1>2, <2>7, <2>8 DEF us
    <2>10. DOMAIN list \subseteq Uuids'
      BY <1>2, <2>7, <2>8 DEF list, Having
    <2>11. RowsOK(lineup)' /\ RowsOK(signed)' /\ RowsOK(publish.rows)'
      BY <1>1, <1>2, <2>2, <2>5, <2>7, KnownStays DEF RowsOK
    <2> QED  BY <1>3, <2>5, <2>7, <2>9, <2>10, <2>11
  <1>9. CASE PublishCommits
    <2>1. /\ UNCHANGED <<nextUuid, tvh, signed>> /\ lineup' = WithUuids(lineup, publish.uuids)
      BY <1>9 DEF PublishCommits, tvhVars
    <2>2. DOMAIN publish' = PublishFields /\ publish'.rows = publish.rows
          /\ publish'.uuids = publish.uuids /\ publish'.known = publish.known
      BY <1>2, <1>9 DEF PublishCommits, PublishFields
    <2>3. RowsOK(lineup')
      BY <1>2, <2>1, UuidsWritten
    <2> QED  BY <1>1, <1>2, <1>3, <2>1, <2>2, <2>3 DEF RowsOK, Uuids
  <1>10. CASE PublishSigns \/ PublishFails
    <2>1. UNCHANGED <<lineup, nextUuid, tvh>> /\ publish' = NoPublish
          /\ (signed' = signed \/ signed' = publish.rows)
      BY <1>10 DEF PublishSigns, PublishFails, rowVars, tvhVars
    <2> QED  BY <1>1, <1>2, <1>3, <1>4, <2>1 DEF RowsOK, RowsBelow, Uuids
  <1>11. ASSUME NEW u, PublishDeletes(u)
         PROVE  LineupTypeOK'
    <2>1. UNCHANGED <<lineup, nextUuid, signed>> /\ DOMAIN tvh' \subseteq DOMAIN tvh
      BY <1>11 DEF PublishDeletes, rowVars
    <2>2. DOMAIN publish' = PublishFields /\ publish'.rows = publish.rows
          /\ publish'.uuids = publish.uuids /\ publish'.known = publish.known
      BY <1>2, <1>11 DEF PublishDeletes, PublishFields
    <2> QED  BY <1>1, <1>2, <1>3, <2>1, <2>2 DEF RowsOK, Uuids
  <1> QED  BY <1>5, <1>6, <1>7, <1>8, <1>9, <1>10, <1>11 DEF ByPublish

LEMMA LineupTypeKept ==
    ASSUME LineupTypeOK, BulkCopies, [LineupNext]_lineupVars
    PROVE  LineupTypeOK'
  <1>1. CASE MapAllServices
    <2>1. UNCHANGED <<lineup, nextId, signed, publish, bulk>> /\ nextUuid' = nextUuid + 1
          /\ DOMAIN tvh' = DOMAIN tvh \union {nextUuid}
      BY <1>1 DEF MapAllServices, rowVars, Having
    <2>2. nextId \in Nat \ {0} /\ nextUuid \in Nat \ {0} /\ DOMAIN tvh \subseteq Uuids \ {0}
      BY DEF LineupTypeOK
    <2>3. nextUuid' \in Nat \ {0} /\ nextUuid <= nextUuid' /\ DOMAIN tvh' \subseteq Uuids' \ {0}
      BY <2>1, <2>2 DEF Uuids
    <2> QED  BY <2>1, <2>2, <2>3, KnownStays DEF LineupTypeOK, RowsOK
  <1>2. CASE CleanupOldChannels
    BY <1>2 DEF CleanupOldChannels, rowVars, LineupTypeOK, RowsOK, Uuids
  <1>3. CASE UNCHANGED lineupVars
    BY <1>3 DEF lineupVars, LineupTypeOK, RowsOK, Uuids
  <1> QED  BY <1>1, <1>2, <1>3, LineupSteps, EditsKeepType, BulkKeepsType, PublishKeepsType

\* What a step does to TVHeadend's channels: one that was there keeps a name or
\* gets one, and one with a name goes only by the publish that cleans up.
LEMMA CopiesMove ==
    ASSUME LineupTypeOK, [LineupNext]_lineupVars
    PROVE  /\ \A v \in DOMAIN tvh' \intersect Uuids :
                 \/ v \in DOMAIN tvh /\ tvh'[v] = tvh[v]
                 \/ tvh'[v] # Unnamed
           /\ \A v \in DOMAIN tvh \ DOMAIN tvh' :
                 \/ tvh[v] = Unnamed /\ publish.step = "idle"
                 \/ publish.step = "clean" /\ v \in publish.todo
           /\ Uuids \subseteq Uuids'
  <1>1. nextUuid \in Nat \ {0} /\ DOMAIN tvh \subseteq Uuids \ {0} /\ RowsOK(publish.rows)
        /\ DOMAIN publish.known \subseteq Uuids /\ DOMAIN bulk.known \subseteq Uuids
        /\ bulk.rows \in Seq(BulkRow)
    BY DEF LineupTypeOK
  <1>2. CASE UNCHANGED <<tvh, nextUuid>>
    BY <1>2 DEF Uuids
  <1>3. CASE MapAllServices
    BY <1>1, <1>3 DEF MapAllServices, Having, Uuids
  <1>4. CASE CleanupOldChannels
    BY <1>1, <1>4 DEF CleanupOldChannels, UuidsNamed, Uuids
  <1>5. ASSUME NEW u, PublishDeletes(u)
        PROVE  /\ DOMAIN tvh' \subseteq DOMAIN tvh /\ \A v \in DOMAIN tvh' : tvh'[v] = tvh[v]
               /\ \A v \in DOMAIN tvh \ DOMAIN tvh' : publish.step = "clean" /\ v \in publish.todo
               /\ UNCHANGED nextUuid
    BY <1>5 DEF PublishDeletes
  <1>6. ASSUME NEW u, NEW name \in Names, NEW isNew \in BOOLEAN,
               isNew => u = nextUuid, u \in Uuids \union {nextUuid},
               tvh' = IF isNew \/ u \in DOMAIN tvh THEN Having(tvh, u, name) ELSE tvh,
               nextUuid' = IF isNew THEN nextUuid + 1 ELSE nextUuid
        PROVE  /\ \A v \in DOMAIN tvh' : \/ v \in DOMAIN tvh /\ tvh'[v] = tvh[v]
                                         \/ tvh'[v] # Unnamed
               /\ DOMAIN tvh \subseteq DOMAIN tvh' /\ Uuids \subseteq Uuids'
    <2>1. /\ DOMAIN tvh \subseteq DOMAIN tvh' /\ Uuids \subseteq Uuids'
          /\ \A v \in DOMAIN tvh' : \/ v \in DOMAIN tvh /\ tvh'[v] = tvh[v]
                                    \/ v = u /\ tvh'[v] = name
      BY <1>6, CopyMade
    <2> QED  BY <2>1, UnnamedAssumption
  <1>7. ASSUME NEW i \in DOMAIN bulk.rows, BulkPublishes(i)
        PROVE  /\ \A v \in DOMAIN tvh' : \/ v \in DOMAIN tvh /\ tvh'[v] = tvh[v]
                                         \/ tvh'[v] # Unnamed
               /\ DOMAIN tvh \subseteq DOMAIN tvh' /\ Uuids \subseteq Uuids'
    <2> DEFINE name == bulk.rows[i].name
               named == UuidsNamed(bulk.known, name)
               isNew == named = {}
    <2>1. PICK u \in IF named = {} THEN {nextUuid} ELSE named :
             /\ tvh' = IF named = {} \/ u \in DOMAIN tvh THEN Having(tvh, u, name) ELSE tvh
             /\ nextUuid' = IF named = {} THEN nextUuid + 1 ELSE nextUuid
      BY <1>7 DEF BulkPublishes
    <2>2. bulk.rows[i] \in BulkRow
      BY <1>1
    <2>3. name \in Names /\ named \subseteq Uuids
      BY <1>1, <2>2 DEF UuidsNamed, BulkRow
    <2> HIDE DEF name, named
    <2> QED  BY <1>6, <2>1, <2>3
  <1>8. ASSUME NEW id \in DOMAIN publish.rows, PublishesChannel(id)
        PROVE  /\ \A v \in DOMAIN tvh' : \/ v \in DOMAIN tvh /\ tvh'[v] = tvh[v]
                                         \/ tvh'[v] # Unnamed
               /\ DOMAIN tvh \subseteq DOMAIN tvh' /\ Uuids \subseteq Uuids'
    <2> DEFINE name == publish.rows[id].name
               isNew == CopiesOf(id) = {}
    <2>1. PICK u \in IF isNew THEN {nextUuid} ELSE CopiesOf(id) :
             /\ tvh' = IF isNew \/ u \in DOMAIN tvh THEN Having(tvh, u, name) ELSE tvh
             /\ nextUuid' = IF isNew THEN nextUuid + 1 ELSE nextUuid
      BY <1>8 DEF PublishesChannel
    <2>2. name \in Names /\ CopiesOf(id) \subseteq Uuids
      BY <1>1 DEF CopiesOf, UuidsNamed, RowsOK, RowsBelow, Uuids
    <2>3. isNew \in BOOLEAN
      OBVIOUS
    <2> HIDE DEF name, isNew
    <2>4. u \in Uuids \union {nextUuid} /\ (isNew => u = nextUuid)
      BY <2>1, <2>2 DEF isNew
    <2> QED  BY <1>6, <2>1, <2>2, <2>3, <2>4
  <1>9. CASE ~\E i \in DOMAIN bulk.rows : BulkPublishes(i)
    <2>1. CASE LineupEdits \/ ByBulk
      <3>1. UNCHANGED <<tvh, nextUuid>>
        BY <1>9, <2>1 DEF LineupEdits, AddNewChannel, EditChannel, UpdateChannelsOrder, DeleteChannel,
           RequestOnly, tvhVars, ByBulk, BulkStarts, BulkAdds, BulkLists, BulkFails, BulkEnds
      <3> QED  BY <1>2, <3>1
    <2>2. CASE ByPublish
      <3>1. \/ UNCHANGED <<tvh, nextUuid>> \/ \E id \in DOMAIN publish.rows : PublishesChannel(id)
            \/ \E u \in publish.todo : PublishDeletes(u)
        BY <2>2 DEF ByPublish, HourlyPublish, SkipsPublish, StartsPublish, PublishLists,
           PublishCommits, PublishSigns, PublishFails, tvhVars
      <3>2. CASE \E u \in publish.todo : PublishDeletes(u)
        BY <1>5, <3>2 DEF Uuids
      <3> QED  BY <1>2, <1>8, <3>1, <3>2
    <2>3. CASE UNCHANGED lineupVars
      BY <1>2, <2>3 DEF lineupVars
    <2> QED  BY <1>3, <1>4, <2>1, <2>2, <2>3, LineupSteps
  <1> QED  BY <1>7, <1>9

LEMMA BulkCopiesKept ==
    ASSUME LineupTypeOK, BulkCopies, [LineupNext]_lineupVars
    PROVE  BulkCopies'
  <1>1. bulk.rows \in Seq(BulkRow) /\ DOMAIN bulk = BulkFields
        /\ nextUuid \in Nat \ {0} /\ DOMAIN tvh \subseteq Uuids \ {0}
        /\ DOMAIN bulk.known \subseteq Uuids
    BY DEF LineupTypeOK, BulkFields
  <1>2. \A v \in Uuids : (v \in DOMAIN tvh => tvh[v] # Unnamed) =>
           v \in Uuids' /\ (v \in DOMAIN tvh' => tvh'[v] # Unnamed)
    BY CopiesMove
  <1>3. CASE \A j \in DOMAIN bulk'.rows :
                \/ \E i \in DOMAIN bulk.rows : bulk'.rows[j].uuid = bulk.rows[i].uuid
                \/ bulk'.rows[j].uuid = 0
    <2>1. 0 \in Uuids /\ 0 \notin DOMAIN tvh
      BY <1>1 DEF Uuids
    <2> QED  BY <1>2, <1>3, <2>1 DEF BulkCopies
  <1>4. CASE bulk'.rows = bulk.rows \/ bulk'.rows = <<>>
    BY <1>3, <1>4
  <1>5. CASE LineupEdits \/ ByPublish \/ MapAllServices \/ CleanupOldChannels \/ UNCHANGED lineupVars
    <2>1. UNCHANGED bulk
      BY <1>5 DEF LineupEdits, AddNewChannel, EditChannel, UpdateChannelsOrder, DeleteChannel,
       RequestOnly, ByPublish, HourlyPublish, SkipsPublish, StartsPublish, PublishLists, PublishesChannel,
       PublishCommits, PublishSigns, PublishFails, PublishDeletes, MapAllServices, CleanupOldChannels,
       lineupVars
    <2> QED  BY <1>4, <2>1
  <1>6. ASSUME NEW names, BulkStarts(names)
        PROVE  BulkCopies'
    <2>1. NoBulk.rows = <<>> /\ DOMAIN NoBulk = BulkFields
      BY DEF NoBulk, BulkFields
    <2>2. bulk'.rows = <<>>
      BY <1>6, <2>1 DEF BulkStarts, BulkFields
    <2> QED  BY <1>4, <2>2
  <1>7. ASSUME NEW name \in Names, BulkAdds(name)
        PROVE  BulkCopies'
    <2> DEFINE e == [id |-> nextId, name |-> name, uuid |-> NoUuid]
    <2>1. bulk'.rows = bulk.rows \/ bulk'.rows = Append(bulk.rows, e)
      BY <1>1, <1>7 DEF BulkAdds, BulkFields
    <2>2. e.uuid = 0 /\ e \in [id : {nextId}, name : Names, uuid : Nat]
      BY DEF NoUuid
    <2> HIDE DEF e
    <2>3. CASE bulk'.rows = Append(bulk.rows, e)
      <3>1. \A j \in DOMAIN bulk'.rows :
               (j \in DOMAIN bulk.rows /\ bulk'.rows[j] = bulk.rows[j]) \/ bulk'.rows[j] = e
        BY <1>1, <2>3
      <3> QED  BY <1>3, <2>2, <3>1
    <2> QED  BY <1>4, <2>1, <2>3
  <1>8. CASE BulkLists \/ BulkFails
    <2>1. bulk'.rows = bulk.rows \/ \E i \in DOMAIN bulk.rows : bulk'.rows = RemoveAt(bulk.rows, i)
      BY <1>1, <1>8 DEF BulkLists, BulkFails, BulkFields
    <2>2. ASSUME NEW i \in DOMAIN bulk.rows
          PROVE  \A j \in DOMAIN RemoveAt(bulk.rows, i) :
                    \E k \in DOMAIN bulk.rows : RemoveAt(bulk.rows, i)[j] = bulk.rows[k]
      <3>1. Len(bulk.rows) \in Nat /\ DOMAIN bulk.rows = 1 .. Len(bulk.rows) /\ i \in 1 .. Len(bulk.rows)
        BY <1>1
      <3> DEFINE a == SubSeq(bulk.rows, 1, i - 1)
                 b == SubSeq(bulk.rows, i + 1, Len(bulk.rows))
      <3>2. a \in Seq(BulkRow) /\ Len(a) = i - 1 /\ \A j \in 1 .. (i - 1) : a[j] = bulk.rows[j]
        BY <1>1, <3>1
      <3>3. b \in Seq(BulkRow) /\ Len(b) = Len(bulk.rows) - i
            /\ \A j \in 1 .. (Len(bulk.rows) - i) : b[j] = bulk.rows[i + j]
        BY <1>1, <3>1
      <3>4. RemoveAt(bulk.rows, i) = a \o b
        BY DEF RemoveAt
      <3> HIDE DEF a, b
      <3>5. DOMAIN (a \o b) = 1 .. (Len(bulk.rows) - 1)
            /\ \A j \in 1 .. (Len(bulk.rows) - 1) :
                  (a \o b)[j] = IF j <= i - 1 THEN a[j] ELSE b[j - (i - 1)]
        <4>1. Len(a) \in Nat /\ Len(b) \in Nat /\ Len(a) + Len(b) = Len(bulk.rows) - 1
          BY <3>1, <3>2, <3>3
        <4>2. DOMAIN (a \o b) = 1 .. (Len(a) + Len(b))
          BY <3>2, <3>3
        <4>3. \A j \in 1 .. (Len(a) + Len(b)) :
                 (a \o b)[j] = IF j <= Len(a) THEN a[j] ELSE b[j - Len(a)]
          <5> SUFFICES ASSUME NEW j \in 1 .. (Len(a) + Len(b))
                       PROVE  (a \o b)[j] = IF j <= Len(a) THEN a[j] ELSE b[j - Len(a)]
            OBVIOUS
          <5>1. a \in Seq(BulkRow) /\ b \in Seq(BulkRow) /\ j \in Int
            BY <3>2, <3>3, <4>1
          <5>2. CASE j <= Len(a)
            BY <4>1, <5>1, <5>2
          <5>3. CASE ~(j <= Len(a))
            BY <4>1, <5>1, <5>3
          <5> QED  BY <5>2, <5>3
        <4> QED  BY <3>2, <4>1, <4>2, <4>3
      <3>6. \A j \in 1 .. (Len(bulk.rows) - 1) :
               (a \o b)[j] = IF j <= i - 1 THEN bulk.rows[j] ELSE bulk.rows[j + 1]
        <4> TAKE j \in 1 .. (Len(bulk.rows) - 1)
        <4>1. CASE j <= i - 1
          BY <3>1, <3>2, <3>5, <4>1
        <4>2. CASE ~(j <= i - 1)
          <5>1. j - (i - 1) \in 1 .. (Len(bulk.rows) - i) /\ i + (j - (i - 1)) = j + 1
            BY <3>1, <4>2
          <5> QED  BY <3>3, <3>5, <4>2, <5>1
        <4> QED  BY <4>1, <4>2
      <3>7. \A j \in 1 .. (Len(bulk.rows) - 1) : j \in DOMAIN bulk.rows /\ j + 1 \in DOMAIN bulk.rows
        BY <3>1
      <3> QED  BY <3>4, <3>5, <3>6, <3>7
    <2>3. ASSUME NEW i \in DOMAIN bulk.rows, bulk'.rows = RemoveAt(bulk.rows, i)
          PROVE  BulkCopies'
      BY <1>3, <2>2, <2>3
    <2> QED  BY <1>4, <2>1, <2>3
  <1>9. CASE BulkEnds
    <2>1. bulk'.rows = <<>>
      BY <1>9 DEF BulkEnds, NoBulk
    <2> QED  BY <1>4, <2>1
  <1>10. ASSUME NEW i \in DOMAIN bulk.rows, BulkPublishes(i)
         PROVE  BulkCopies'
    <2> DEFINE name == bulk.rows[i].name
               named == UuidsNamed(bulk.known, name)
               isNew == named = {}
    <2>1. PICK u \in IF named = {} THEN {nextUuid} ELSE named :
             /\ bulk' = [bulk EXCEPT !.rows[i].uuid = u, !.known = Having(@, u, name)]
             /\ tvh' = IF named = {} \/ u \in DOMAIN tvh THEN Having(tvh, u, name) ELSE tvh
             /\ nextUuid' = IF named = {} THEN nextUuid + 1 ELSE nextUuid
      BY <1>10 DEF BulkPublishes
    <2>2. bulk.rows[i] \in BulkRow
      BY <1>1
    <2>3. name \in Names /\ named \subseteq Uuids
      BY <1>1, <2>2 DEF UuidsNamed, BulkRow
    <2>4. bulk' = [[bulk EXCEPT !.rows = [bulk.rows EXCEPT ![i].uuid = u]]
                       EXCEPT !.known = Having(bulk.known, u, name)]
      BY <1>1, <2>1 DEF BulkFields
    <2>5. bulk'.rows = [bulk.rows EXCEPT ![i].uuid = u]
      BY <1>1, <2>4 DEF BulkFields
    <2> HIDE DEF name, named
    <2>6. /\ (isNew => u \in Uuids') /\ Uuids \subseteq Uuids'
          /\ u \in DOMAIN tvh' => tvh'[u] = name
      <3>1. u \in Uuids \union {nextUuid} /\ (isNew => u = nextUuid)
        BY <2>1, <2>3
      <3> QED  BY <2>1, <2>3, <3>1, CopyMade
    <2>7. u \in Uuids' /\ (u \in DOMAIN tvh' => tvh'[u] # Unnamed)
      BY <2>1, <2>3, <2>6, UnnamedAssumption
    <2>8. DOMAIN bulk'.rows = DOMAIN bulk.rows /\ bulk'.rows[i].uuid = u
          /\ \A j \in DOMAIN bulk.rows \ {i} : bulk'.rows[j] = bulk.rows[j]
      <3> DEFINE r == [bulk.rows[i] EXCEPT !.uuid = u]
      <3>1. bulk'.rows = [bulk.rows EXCEPT ![i] = r] /\ r.uuid = u
        BY <2>2, <2>5 DEF BulkRow
      <3> HIDE DEF r
      <3> QED  BY <1>1, <3>1
    <2> QED  BY <1>2, <2>7, <2>8 DEF BulkCopies
  <1> QED  BY <1>5, <1>6, <1>7, <1>8, <1>9, <1>10, LineupSteps DEF ByBulk

LEMMA LiveStays ==
    ASSUME LineupTypeOK, [LineupNext]_lineupVars
    PROVE  \A u : LiveIn(tvh, u) /\ ~(publish.step = "clean" /\ u \in publish.todo) => LiveIn(tvh', u)
    BY CopiesMove DEF LiveIn, LineupTypeOK

\* The steps that leave the publish and its signature alone.
Elsewhere ==
    \/ LineupEdits \/ HourlyPublish \/ SkipsPublish \/ MapAllServices \/ CleanupOldChannels
    \/ UNCHANGED lineupVars
    \/ \E names \in (SUBSET Names) \ {{}} : BulkStarts(names)
    \/ \E name \in Names : BulkAdds(name)
    \/ BulkLists \/ BulkFails
    \/ \E i \in DOMAIN bulk.rows : BulkPublishes(i)

LEMMA PublishSteps ==
    ASSUME [LineupNext]_lineupVars
    PROVE  \/ Elsewhere \/ BulkEnds
           \/ StartsPublish \/ PublishLists
           \/ \E c \in DOMAIN publish.rows : PublishesChannel(c)
           \/ PublishCommits \/ PublishSigns \/ PublishFails
           \/ \E u \in publish.todo : PublishDeletes(u)
    BY LineupSteps DEF Elsewhere, ByBulk, ByPublish

LEMMA ElsewhereIs ==
    ASSUME LineupTypeOK, Elsewhere
    PROVE  /\ UNCHANGED <<publish, signed, shaken>>
           /\ \A c \in DOMAIN lineup' \intersect (DOMAIN signed \union DOMAIN publish.rows) :
                 c \in DOMAIN lineup /\ lineup'[c].uuid = lineup[c].uuid
  <1>1. UNCHANGED <<publish, signed, shaken>>
    BY DEF Elsewhere, LineupEdits, AddNewChannel, EditChannel, UpdateChannelsOrder, DeleteChannel,
       RequestOnly, HourlyPublish, SkipsPublish, MapAllServices, CleanupOldChannels, lineupVars,
       BulkStarts, BulkAdds, BulkLists, BulkFails, BulkPublishes
  <1>2. nextId \notin DOMAIN signed /\ nextId \notin DOMAIN publish.rows
    BY DEF LineupTypeOK, RowsOK, RowsBelow
  <1>3. CASE LineupEdits \/ \E name \in Names : BulkAdds(name)
    BY <1>1, <1>2, <1>3, EditedRows
  <1>4. CASE UNCHANGED lineup
    BY <1>1, <1>4
  <1>5. UNCHANGED lineup \/ LineupEdits \/ \E name \in Names : BulkAdds(name)
    BY DEF Elsewhere, HourlyPublish, SkipsPublish, MapAllServices, CleanupOldChannels, lineupVars,
       BulkStarts, BulkLists, BulkFails, BulkPublishes, rowVars
  <1> QED  BY <1>1, <1>3, <1>4, <1>5

LEMMA StartsListing ==
    ASSUME StartsPublish
    PROVE  publish'.step = "list"
  <1>1. publish' = [[NoPublish EXCEPT !.step = "list"] EXCEPT !.rows = lineup]
    BY DEF StartsPublish
  <1>2. DOMAIN NoPublish = PublishFields
    BY DEF NoPublish, PublishFields
  <1> QED  BY <1>1, <1>2 DEF PublishFields

LEMMA SignedLiveKept ==
    ASSUME LineupTypeOK, BulkCopies, SignedLive, Cleaning, [LineupNext]_lineupVars
    PROVE  SignedLive'
  <1>0. DOMAIN publish = PublishFields
    BY DEF LineupTypeOK, PublishFields
  <1>1. CASE Elsewhere
    <2>1. /\ UNCHANGED <<publish, signed, shaken>>
          /\ \A c \in DOMAIN lineup' \intersect DOMAIN signed :
                c \in DOMAIN lineup /\ lineup'[c].uuid = lineup[c].uuid
      BY <1>1, ElsewhereIs
    <2>2. publish.step # "clean" => \A u : LiveIn(tvh, u) => LiveIn(tvh', u)
      BY LiveStays
    <2> SUFFICES ASSUME ~shaken', publish'.step # "clean",
                        NEW c \in DOMAIN lineup' \intersect DOMAIN signed',
                        signed'[c].enabled, lineup'[c].uuid = signed'[c].uuid
                 PROVE  LiveIn(tvh', lineup'[c].uuid)
      BY DEF SignedLive, Live
    <2>3. LiveIn(tvh, lineup[c].uuid)
      BY <2>1 DEF SignedLive, Live
    <2> QED  BY <2>1, <2>2, <2>3 DEF Live, LiveIn
  <1>2. CASE BulkEnds
    <2>1. /\ UNCHANGED <<tvh, signed, publish>> /\ DOMAIN lineup' = DOMAIN lineup
          /\ \A c \in DOMAIN lineup :
                \/ lineup'[c].uuid = lineup[c].uuid
                \/ \E i \in DOMAIN bulk.rows : lineup'[c].uuid = bulk.rows[i].uuid
      BY <1>2, BulkWrites DEF tvhVars
    <2>2. ~shaken' => ~shaken /\ \A i \in DOMAIN bulk.rows : bulk.rows[i].uuid \in DOMAIN tvh
      BY <1>2 DEF BulkEnds, ToSet
    <2>3. ~shaken' => \A i \in DOMAIN bulk.rows : LiveIn(tvh, bulk.rows[i].uuid)
      BY <2>2 DEF BulkCopies, Live, LiveIn
    <2> QED  BY <2>1, <2>2, <2>3 DEF SignedLive, Live
  <1>3. CASE StartsPublish \/ PublishLists \/ \E c \in DOMAIN publish.rows : PublishesChannel(c)
    <2>1. UNCHANGED <<lineup, signed, shaken>> /\ publish.step # "clean"
      BY <1>3 DEF StartsPublish, PublishLists, PublishesChannel, rowVars
    <2>2. \A u : LiveIn(tvh, u) => LiveIn(tvh', u)
      BY <2>1, LiveStays
    <2> QED  BY <2>1, <2>2 DEF SignedLive, Live
  <1>4. CASE PublishCommits
    BY <1>0, <1>4 DEF PublishCommits, SignedLive, PublishFields, Live
  <1>5. CASE PublishSigns
    BY <1>5 DEF PublishSigns, NoPublish, SignedLive, Cleaning, Live, rowVars, tvhVars
  <1>6. CASE PublishFails
    BY <1>6 DEF PublishFails, NoPublish, SignedLive, Live, rowVars
  <1>7. CASE \E u \in publish.todo : PublishDeletes(u)
    BY <1>0, <1>7 DEF PublishDeletes, SignedLive, PublishFields, Live
  <1> QED  BY <1>1, <1>2, <1>3, <1>4, <1>5, <1>6, <1>7, PublishSteps

LEMMA CleaningKept ==
    ASSUME LineupTypeOK, BulkCopies, Copying, Cleaning, [LineupNext]_lineupVars
    PROVE  Cleaning'
  <1>0. DOMAIN publish = PublishFields
    BY DEF LineupTypeOK, PublishFields
  <1>1. CASE Elsewhere
    <2>1. /\ UNCHANGED <<publish, shaken>>
          /\ \A c \in DOMAIN lineup' \intersect DOMAIN publish.rows :
                c \in DOMAIN lineup /\ lineup'[c].uuid = lineup[c].uuid
      BY <1>1, ElsewhereIs
    <2>2. \A u : LiveIn(tvh, u) /\ u \notin publish.todo => LiveIn(tvh', u)
      BY LiveStays
    <2> SUFFICES ASSUME publish.step = "clean", NEW c \in DOMAIN publish.rows, publish.rows[c].enabled
                 PROVE  /\ publish.rows[c].uuid \notin publish.todo
                        /\ ~shaken /\ c \in DOMAIN lineup' /\ lineup'[c].uuid = publish.rows[c].uuid =>
                              LiveIn(tvh', lineup'[c].uuid)
      BY <2>1 DEF Cleaning, Live
    <2> QED  BY <2>1, <2>2 DEF Cleaning, Live
  <1>2. CASE BulkEnds
    <2>1. /\ UNCHANGED <<tvh, publish>> /\ DOMAIN lineup' = DOMAIN lineup
          /\ \A c \in DOMAIN lineup :
                \/ lineup'[c].uuid = lineup[c].uuid
                \/ \E i \in DOMAIN bulk.rows : lineup'[c].uuid = bulk.rows[i].uuid
      BY <1>2, BulkWrites DEF tvhVars
    <2>2. ~shaken' => ~shaken /\ \A i \in DOMAIN bulk.rows : bulk.rows[i].uuid \in DOMAIN tvh
      BY <1>2 DEF BulkEnds, ToSet
    <2>3. ~shaken' => \A i \in DOMAIN bulk.rows : LiveIn(tvh, bulk.rows[i].uuid)
      BY <2>2 DEF BulkCopies, Live, LiveIn
    <2> QED  BY <2>1, <2>2, <2>3 DEF Cleaning, Live
  <1>3. CASE StartsPublish \/ PublishLists \/ PublishSigns \/ PublishFails
    <2> DEFINE us == [c \in DOMAIN publish.rows |-> publish.rows[c].uuid]
               on == {c \in DOMAIN publish.rows : publish.rows[c].enabled}
    <2>1. publish'.step # "clean"
      <3>1. CASE StartsPublish
        BY <3>1, StartsListing
      <3>2. CASE PublishLists
        <4>1. publish' = [publish EXCEPT !.step = "copy", !.known = tvh, !.uuids = us, !.todo = on]
          BY <3>2 DEF PublishLists
        <4> HIDE DEF us, on
        <4> QED  BY <1>0, <4>1 DEF PublishFields
      <3>3. CASE PublishSigns \/ PublishFails
        BY <3>3 DEF PublishSigns, PublishFails, NoPublish
      <3> QED  BY <1>3, <3>1, <3>2, <3>3
    <2> QED  BY <2>1 DEF Cleaning, Live
  <1>4. ASSUME NEW c \in DOMAIN publish.rows, PublishesChannel(c)
        PROVE  Cleaning'
    <2> DEFINE left == publish.todo \ {c}
    <2>1. publish'.step = "copy"
      BY <1>0, <1>4 DEF PublishesChannel, PublishFields
    <2> QED  BY <2>1 DEF Cleaning, Live
  <1>5. CASE PublishCommits
    <2> DEFINE on == {c \in DOMAIN publish.rows : publish.rows[c].enabled}
               gone == DOMAIN publish.known \ {publish.uuids[c] : c \in on}
    <2>1. publish.step = "copy" /\ publish.todo = {} /\ UNCHANGED tvh
          /\ publish' = [publish EXCEPT !.step = "clean", !.todo = gone]
          /\ lineup' = WithUuids(lineup, publish.uuids)
      BY <1>5 DEF PublishCommits, tvhVars
    <2>2. publish'.rows = publish.rows /\ publish'.todo = gone
      BY <1>0, <2>1 DEF PublishFields
    <2>3. /\ DOMAIN publish.uuids = DOMAIN publish.rows
          /\ \A c \in on : /\ LiveIn(tvh, publish.uuids[c])
                           /\ publish.rows[c].uuid \in DOMAIN publish.known =>
                                  publish.uuids[c] = publish.rows[c].uuid
      BY <2>1 DEF Copying, Live
    <2>4. \A c \in on : publish.rows[c].uuid \notin gone
      BY <2>3
    <2>5. \A c \in DOMAIN lineup : lineup'[c].uuid =
             IF c \in DOMAIN publish.uuids THEN publish.uuids[c] ELSE lineup[c].uuid
      BY <2>1, UuidsWritten DEF LineupTypeOK
    <2>6. DOMAIN lineup' = DOMAIN lineup
      BY <2>1 DEF WithUuids
    <2> QED  BY <2>1, <2>2, <2>3, <2>4, <2>5, <2>6 DEF Cleaning, Live
  <1>6. ASSUME NEW u \in publish.todo, PublishDeletes(u)
        PROVE  Cleaning'
    <2>1. /\ UNCHANGED <<lineup, shaken>> /\ publish.step = "clean"
          /\ publish' = [publish EXCEPT !.todo = publish.todo \ {u}]
      BY <1>6 DEF PublishDeletes, rowVars
    <2>2. publish'.rows = publish.rows /\ publish'.todo = publish.todo \ {u}
      BY <1>0, <2>1 DEF PublishFields
    <2>3. \A v : LiveIn(tvh, v) /\ v \notin publish.todo => LiveIn(tvh', v)
      BY LiveStays
    <2> SUFFICES ASSUME NEW c \in DOMAIN publish.rows, publish.rows[c].enabled
                 PROVE  /\ publish.rows[c].uuid \notin publish.todo
                        /\ ~shaken /\ c \in DOMAIN lineup /\ lineup[c].uuid = publish.rows[c].uuid =>
                              LiveIn(tvh', lineup[c].uuid)
      BY <2>1, <2>2 DEF Cleaning, Live
    <2> QED  BY <2>1, <2>3 DEF Cleaning, Live
  <1> QED  BY <1>1, <1>2, <1>3, <1>4, <1>5, <1>6, PublishSteps

LEMMA CopyingKept ==
    ASSUME LineupTypeOK, Copying, [LineupNext]_lineupVars
    PROVE  Copying'
  <1>0. DOMAIN publish = PublishFields /\ RowsOK(publish.rows) /\ nextUuid \in Nat \ {0}
        /\ DOMAIN tvh \subseteq Uuids
    BY DEF LineupTypeOK, PublishFields
  <1>1. CASE Elsewhere \/ BulkEnds
    <2>1. UNCHANGED publish
      <3>1. CASE Elsewhere
        BY <3>1, ElsewhereIs
      <3> QED  BY <1>1, <3>1 DEF BulkEnds
    <2>2. publish.step = "copy" => DOMAIN tvh \subseteq DOMAIN tvh' /\ \A u : LiveIn(tvh, u) => LiveIn(tvh', u)
      BY CopiesMove, LiveStays
    <2> SUFFICES ASSUME publish.step = "copy"
                 PROVE  /\ DOMAIN publish.known \subseteq DOMAIN tvh'
                        /\ DOMAIN publish.uuids = DOMAIN publish.rows
                        /\ \A c \in DOMAIN publish.rows \ publish.todo : publish.rows[c].enabled =>
                              /\ LiveIn(tvh', publish.uuids[c])
                              /\ publish.rows[c].uuid \in DOMAIN publish.known =>
                                     publish.uuids[c] = publish.rows[c].uuid
      BY <2>1 DEF Copying, Live
    <2>3. \A c : LiveIn(tvh, publish.uuids[c]) => LiveIn(tvh', publish.uuids[c])
      BY <2>1, <2>2 DEF Live, LiveIn
    <2> QED  BY <2>1, <2>2, <2>3 DEF Copying, Live
  <1>2. CASE StartsPublish \/ PublishSigns \/ PublishFails \/ PublishCommits
    <2> DEFINE gone == DOMAIN publish.known
                 \ {publish.uuids[c] : c \in {c \in DOMAIN publish.rows : publish.rows[c].enabled}}
    <2>1. publish'.step # "copy"
      <3>1. CASE StartsPublish
        BY <3>1, StartsListing
      <3>2. CASE PublishCommits
        <4>1. publish' = [publish EXCEPT !.step = "clean", !.todo = gone]
          BY <3>2 DEF PublishCommits
        <4> HIDE DEF gone
        <4> QED  BY <1>0, <4>1 DEF PublishFields
      <3>3. CASE PublishSigns \/ PublishFails
        BY <3>3 DEF PublishSigns, PublishFails, NoPublish
      <3> QED  BY <1>2, <3>1, <3>2, <3>3
    <2> QED  BY <2>1 DEF Copying, Live
  <1>3. ASSUME NEW u \in publish.todo, PublishDeletes(u)
        PROVE  Copying'
    <2>1. publish'.step # "copy"
      BY <1>0, <1>3 DEF PublishDeletes, PublishFields
    <2> QED  BY <2>1 DEF Copying, Live
  <1>4. CASE PublishLists
    <2> DEFINE us == [c \in DOMAIN publish.rows |-> publish.rows[c].uuid]
               on == {c \in DOMAIN publish.rows : publish.rows[c].enabled}
    <2>1. publish' = [publish EXCEPT !.step = "copy", !.known = tvh, !.uuids = us, !.todo = on]
          /\ UNCHANGED tvh
      BY <1>4 DEF PublishLists, tvhVars
    <2>2. DOMAIN us = DOMAIN publish.rows
      OBVIOUS
    <2> HIDE DEF us
    <2>3. publish'.rows = publish.rows /\ publish'.uuids = us /\ publish'.known = tvh /\ publish'.todo = on
      BY <1>0, <2>1 DEF PublishFields
    <2> QED  BY <2>1, <2>2, <2>3 DEF Copying, Live
  <1>5. ASSUME NEW id \in DOMAIN publish.rows, PublishesChannel(id)
        PROVE  Copying'
    <2> DEFINE name == publish.rows[id].name
               isNew == CopiesOf(id) = {}
    <2>1. PICK u \in IF isNew THEN {nextUuid} ELSE CopiesOf(id) :
             /\ publish' = [publish EXCEPT !.todo = @ \ {id}, !.uuids[id] = u,
                              !.known = IF isNew THEN Having(@, u, name) ELSE @]
             /\ tvh' = IF isNew \/ u \in DOMAIN tvh THEN Having(tvh, u, name) ELSE tvh
             /\ nextUuid' = IF isNew THEN nextUuid + 1 ELSE nextUuid
      BY <1>5 DEF PublishesChannel
    <2>2. publish.step = "copy"
      BY <1>5 DEF PublishesChannel
    <2>3. /\ DOMAIN publish.known \subseteq DOMAIN tvh /\ DOMAIN publish.uuids = DOMAIN publish.rows
          /\ \A c \in DOMAIN publish.rows \ publish.todo : publish.rows[c].enabled =>
                /\ LiveIn(tvh, publish.uuids[c])
                /\ publish.rows[c].uuid \in DOMAIN publish.known =>
                       publish.uuids[c] = publish.rows[c].uuid
      BY <2>2 DEF Copying, Live
    <2> DEFINE left == publish.todo \ {id}
               us == [publish.uuids EXCEPT ![id] = u]
               list == IF isNew THEN Having(publish.known, u, name) ELSE publish.known
    <2>4. publish' = [publish EXCEPT !.todo = left, !.uuids = us, !.known = list]
      BY <1>0, <2>1 DEF PublishFields
    <2>5. name \in Names
      BY <1>0 DEF RowsOK, RowsBelow
    <2>6. CopiesOf(id) \subseteq DOMAIN publish.known
      BY DEF CopiesOf, UuidsNamed
    <2>7. publish.rows[id].uuid \in DOMAIN publish.known => ~isNew /\ u = publish.rows[id].uuid
      BY <2>1 DEF CopiesOf
    <2>8. isNew \in BOOLEAN
      OBVIOUS
    <2> HIDE DEF name, isNew, left, us, list
    <2>9. /\ publish'.step = "copy" /\ publish'.rows = publish.rows
          /\ publish'.uuids = us /\ publish'.known = list /\ publish'.todo = left
      BY <1>0, <2>2, <2>4 DEF PublishFields
    <2>10. u \in Uuids \union {nextUuid} /\ (isNew => u = nextUuid) /\ (~isNew => u \in DOMAIN publish.known)
      BY <1>0, <2>1, <2>3, <2>6 DEF isNew
    <2>11. /\ DOMAIN tvh \subseteq DOMAIN tvh' /\ u \in DOMAIN tvh' /\ tvh'[u] = name
      BY <2>1, <2>3, <2>5, <2>8, <2>10, CopyMade
    <2>12. LiveIn(tvh', u)
      BY <2>5, <2>11, UnnamedAssumption DEF Live, LiveIn
    <2>13. \A v : LiveIn(tvh, v) => LiveIn(tvh', v)
      BY <2>2, LiveStays
    <2>14. DOMAIN us = DOMAIN publish.rows /\ us[id] = u
           /\ \A c \in DOMAIN publish.rows \ {id} : us[c] = publish.uuids[c]
      BY <2>3 DEF us
    <2>15. DOMAIN list \subseteq DOMAIN publish.known \union (IF isNew THEN {u} ELSE {})
      BY DEF list, Having
    <2>16. \A c \in DOMAIN publish.rows : publish.rows[c].uuid # nextUuid
      BY <1>0 DEF RowsOK, RowsBelow
    <2>17. \A c \in DOMAIN publish.rows :
              publish.rows[c].uuid \in DOMAIN list => publish.rows[c].uuid \in DOMAIN publish.known
      BY <2>10, <2>15, <2>16
    <2>18. DOMAIN list \subseteq DOMAIN tvh'
      BY <2>3, <2>11, <2>15
    <2>19. \A c \in DOMAIN publish.rows \ left : publish.rows[c].enabled =>
              /\ LiveIn(tvh', us[c])
              /\ publish.rows[c].uuid \in DOMAIN list => us[c] = publish.rows[c].uuid
      <3> SUFFICES ASSUME NEW c \in DOMAIN publish.rows \ left, publish.rows[c].enabled
                   PROVE  /\ LiveIn(tvh', us[c])
                          /\ publish.rows[c].uuid \in DOMAIN list => us[c] = publish.rows[c].uuid
        OBVIOUS
      <3>1. CASE c = id
        BY <2>7, <2>12, <2>14, <2>17, <3>1 DEF Live, LiveIn
      <3>2. CASE c # id
        <4>1. c \notin publish.todo /\ us[c] = publish.uuids[c]
          BY <2>14, <3>2 DEF left
        <4>2. LiveIn(tvh, publish.uuids[c])
          BY <2>3, <4>1
        <4> QED  BY <2>3, <2>13, <2>17, <4>1, <4>2
      <3> QED  BY <3>1, <3>2
    <2> QED  BY <2>9, <2>14, <2>18, <2>19 DEF Copying, Live
  <1> QED  BY <1>1, <1>2, <1>3, <1>4, <1>5, PublishSteps

LEMMA LineupInvHolds == LineupInit /\ [][LineupNext]_lineupVars => []LineupInv
  <1>1. LineupInit => LineupInv
    <2> SUFFICES ASSUME LineupInit
                 PROVE  LineupInv
      OBVIOUS
    <2>1. /\ NoPublish.rows = <<>> /\ NoPublish.uuids = <<>> /\ NoPublish.known = <<>>
          /\ NoPublish.step = "idle" /\ DOMAIN <<>> = {}
          /\ DOMAIN NoPublish = {"step", "rows", "known", "uuids", "todo"}
      BY DEF NoPublish
    <2>2. /\ NoBulk.rows = <<>> /\ NoBulk.known = <<>> /\ <<>> \in Seq(BulkRow)
          /\ DOMAIN NoBulk = {"step", "names", "number", "rows", "known"}
      BY DEF NoBulk
    <2>3. LineupTypeOK
      BY <2>1, <2>2 DEF LineupInit, LineupTypeOK, RowsOK, RowsBelow, Uuids
    <2>4. BulkCopies /\ SignedLive /\ Copying /\ Cleaning
      BY <2>1, <2>2 DEF LineupInit, BulkCopies, SignedLive, Copying, Cleaning
    <2> QED  BY <2>3, <2>4 DEF LineupInv
  <1>2. LineupInv /\ [LineupNext]_lineupVars => LineupInv'
    BY LineupTypeKept, BulkCopiesKept, SignedLiveKept, CopyingKept, CleaningKept DEF LineupInv
  <1> QED  BY <1>1, <1>2, PTL

\* A publish that is skipped hides no channel, however edits, bulk additions and
\* publishes overlap and fail, for any names, numbers and bounds - but after a
\* publish that failed while it deleted copies, or a bulk addition that stored
\* the uuid of a copy which one had deleted.
THEOREM SkipsAreSafe == LineupInit /\ [][LineupNext]_lineupVars => SkipIsSafe
  <1>1. LineupInv /\ SkipsPublish =>
           shaken \/ \A c \in DOMAIN lineup : lineup[c].enabled => lineup[c].uuid \in DOMAIN tvh
    BY DEF LineupInv, SkipsPublish, SignedLive, Live, LiveIn
  <1>2. LineupInv /\ [LineupNext]_lineupVars =>
           [SkipsPublish => \/ shaken
                            \/ \A c \in DOMAIN lineup :
                                 lineup[c].enabled => lineup[c].uuid \in DOMAIN tvh]_lineupVars
    BY <1>1
  <1> QED  BY <1>2, LineupInvHolds, PTL DEF SkipIsSafe

-----------------------------------------------------------------------------
(* The muxes of channels                                                    *)

JobFields == {"step", "rows", "on", "uuids", "list", "current", "failed", "managed", "made", "todo"}
Below == 1 .. (nextMux - 1)
Published == muxJob # NoMuxJob

MuxJobTypeOK ==
    /\ DOMAIN muxJob = JobFields /\ muxJob.step \in {"write", "clean"}
    /\ muxJob.uuids \in [Feeds -> Below \union {NoMux}]
    /\ DOMAIN muxJob.list \subseteq Below
    /\ DOMAIN muxJob.made = Direct(muxJob.rows) \union Organised(muxJob.rows)
    /\ muxJob.made \in [DOMAIN muxJob.made -> Below \union {NoMux}]
    /\ muxJob.managed \subseteq Below
    /\ muxJob.todo \subseteq DOMAIN muxJob.made
    /\ muxJob.step = "clean" => muxJob.todo = {}
MuxTypeOK ==
    /\ nextMux \in Nat \ {0} /\ DOMAIN muxes \subseteq Below
    /\ feedMux \in [Feeds -> Below \union {NoMux}]
    /\ DOMAIN muxCache.list \subseteq Below
    /\ muxFails \in Nat
    /\ Published => MuxJobTypeOK

\* A stored uuid is that of a mux of the source, or of none; a list names the
\* muxes as they are, or had no name for them yet.
Fits(uuids, ms) == \A f \in Feeds : uuids[f] \in DOMAIN ms => ms[uuids[f]] = f
Agrees(list, ms) ==
    \A u \in DOMAIN list \intersect DOMAIN ms : list[u] # Placeholder => ms[u] = list[u]
OwnersStay ==
    /\ Fits(feedMux, muxes) /\ Agrees(muxCache.list, muxes)
    /\ Published => Fits(muxJob.uuids, muxes) /\ Agrees(muxJob.list, muxes)

\* While it writes, a publish loses neither the muxes it made nor, if the list
\* it works from was current, those of the list.
MadeAreThere ==
    Published /\ muxJob.step = "write" =>
        /\ muxJob.current => DOMAIN muxJob.list \subseteq DOMAIN muxes
        /\ \A x \in muxJob.todo : muxJob.made[x] # NoMux =>
              /\ muxJob.made[x] \in DOMAIN muxes /\ muxes[muxJob.made[x]] = Placeholder
              /\ \A y \in muxJob.todo : muxJob.made[y] = muxJob.made[x] => x = y

\* A mux it wrote is the only one it wrote for its source or channel, and when
\* nothing failed every one with something to play has such a mux.
Done == DOMAIN muxJob.made \ muxJob.todo
ManagedAreOwn ==
    Published =>
        /\ \A u \in muxJob.managed \intersect DOMAIN muxes :
              /\ muxes[u] \in Done
              /\ \A v \in muxJob.managed \intersect DOMAIN muxes : muxes[u] = muxes[v] => u = v
        /\ ~muxJob.failed /\ muxJob.current =>
              \A x \in Done : \/ Idle(x)
                              \/ \E u \in muxJob.managed \intersect DOMAIN muxes :
                                   muxes[u] = x /\ (x \in Feeds => muxJob.uuids[x] = u)

MuxInv == MuxTypeOK /\ OwnersStay /\ MadeAreThere /\ ManagedAreOwn

LEMMA MuxSteps ==
    ASSUME [MuxesNext]_tvhMuxVars
    PROVE  \/ UNCHANGED <<muxes, nextMux, muxJob, muxFails>> /\ UNCHANGED muxCache
              /\ (feedMux' = feedMux \/ \E g \in Feeds : feedMux' = [feedMux EXCEPT ![g] = NoMux])
           \/ CacheExpires
           \/ StartsMuxes \/ CommitsMuxes \/ CleansMuxes
           \/ \E x \in Feeds \union MuxedChannels :
                PassesOver(x) \/ CreatesMux(x) \/ WritesMux(x) \/ MuxCallFails(x)
  <1>1. ASSUME NEW c \in MuxedChannels, NEW md, SetMode(c, md)
        PROVE  UNCHANGED <<muxes, nextMux, muxJob, muxFails, muxCache, feedMux>>
    BY <1>1 DEF SetMode, MuxEdit
  <1>2. ASSUME NEW f \in Feeds, TogglePlaylist(f)
        PROVE  UNCHANGED <<muxes, nextMux, muxJob, muxFails, muxCache, feedMux>>
    BY <1>2 DEF TogglePlaylist, MuxEdit
  <1>3. ASSUME NEW f \in Feeds, ReplaceFeed(f)
        PROVE  /\ UNCHANGED <<muxes, nextMux, muxJob, muxFails, muxCache>>
               /\ feedMux' = [feedMux EXCEPT ![f] = NoMux]
    BY <1>3 DEF ReplaceFeed, MuxEdit
  <1>4. CASE UNCHANGED tvhMuxVars
    BY <1>4 DEF tvhMuxVars
  <1> QED  BY <1>1, <1>2, <1>3, <1>4 DEF MuxesNext

LEMMA NoMuxJobIs == /\ DOMAIN NoMuxJob = {"step"} /\ NoMuxJob.step = "idle"
               /\ \A r : DOMAIN r = JobFields => r # NoMuxJob
  BY DEF NoMuxJob, JobFields

\* LineupEdits of channels and the end of the list's 30 seconds disturb nothing.
LEMMA EditsKeepMuxes ==
    ASSUME MuxInv, UNCHANGED <<muxes, nextMux, muxJob, muxFails>>,
           \/ UNCHANGED muxCache /\ (feedMux' = feedMux \/ \E g \in Feeds : feedMux' = [feedMux EXCEPT ![g] = NoMux])
           \/ CacheExpires
    PROVE  MuxInv'
  <1>1. /\ feedMux' \in [Feeds -> Below \union {NoMux}]
        /\ \A f \in Feeds : feedMux'[f] \in {feedMux[f], NoMux}
    BY DEF MuxInv, MuxTypeOK, CacheExpires, configVars
  <1>2. muxCache' = muxCache \/ muxCache' = NoList
    BY DEF CacheExpires
  <1>3. NoList.list = <<>> /\ DOMAIN <<>> = {}
    BY DEF NoList
  <1>4. NoMux \notin DOMAIN muxes
    BY DEF MuxInv, MuxTypeOK, Below, NoMux
  <1>5. MuxTypeOK'
    BY <1>1, <1>2, <1>3 DEF MuxInv, MuxTypeOK, MuxJobTypeOK, Published, Below, Direct, Organised
  <1>6. OwnersStay'
    BY <1>1, <1>2, <1>3, <1>4 DEF MuxInv, OwnersStay, Fits, Agrees, Published
  <1>7. MadeAreThere'
    BY DEF MuxInv, MadeAreThere, Published
  <1>8. ManagedAreOwn'
    BY DEF MuxInv, ManagedAreOwn, Published, Done, Idle
  <1> QED  BY <1>5, <1>6, <1>7, <1>8 DEF MuxInv

LEMMA StartKeepsMuxes ==
    ASSUME MuxInv, StartsMuxes
    PROVE  MuxInv'
  <1> DEFINE list == IF muxCache.fresh THEN muxCache.list ELSE muxes
             D == Direct(modes) \union Organised(modes)
             start == [x \in D |-> NoMux]
  <1>1. /\ UNCHANGED <<muxes, nextMux, muxFails, feedMux, modes>>
        /\ muxCache' = [fresh |-> TRUE, list |-> list]
        /\ muxJob' = [step |-> "write", rows |-> modes, on |-> feedOn, uuids |-> feedMux,
                      list |-> list, current |-> list = muxes, failed |-> FALSE, managed |-> {},
                      made |-> start, todo |-> D]
    BY DEF StartsMuxes, configVars
  <1>2. /\ DOMAIN list \subseteq Below /\ Agrees(list, muxes)
    BY DEF MuxInv, MuxTypeOK, OwnersStay, Agrees
  <1>3. DOMAIN start = D /\ start \in [D -> Below \union {NoMux}] /\ \A x \in D : start[x] = NoMux
    OBVIOUS
  <1> HIDE DEF start, list
  <1>4. /\ DOMAIN muxJob' = JobFields
        /\ muxJob'.step = "write" /\ muxJob'.rows = modes /\ muxJob'.uuids = feedMux
        /\ muxJob'.list = list /\ muxJob'.managed = {}
        /\ muxJob'.made = start /\ muxJob'.todo = D /\ muxCache'.list = list
    BY <1>1 DEF JobFields
  <1>5. muxJob'.current => list = muxes
    BY <1>1
  <1>6. D = Direct(muxJob'.rows) \union Organised(muxJob'.rows)
    BY <1>4
  <1> HIDE DEF D
  <1>7. MuxTypeOK'
    BY <1>1, <1>2, <1>3, <1>4, <1>6 DEF MuxInv, MuxTypeOK, MuxJobTypeOK, Below, Direct, Organised
  <1>8. OwnersStay'
    BY <1>1, <1>2, <1>4 DEF MuxInv, OwnersStay, Fits, Agrees, Published
  <1>9. MadeAreThere'
    BY <1>1, <1>3, <1>4, <1>5 DEF MadeAreThere, Published
  <1>10. ManagedAreOwn'
    BY <1>3, <1>4 DEF ManagedAreOwn, Published, Done
  <1> QED  BY <1>7, <1>8, <1>9, <1>10 DEF MuxInv

\* What every step in the middle of a publish starts from.
LEMMA MidPublish ==
    ASSUME MuxInv, muxJob.step # "idle"
    PROVE  /\ Published /\ MuxJobTypeOK
           /\ Fits(muxJob.uuids, muxes) /\ Agrees(muxJob.list, muxes)
           /\ NoMux \notin DOMAIN muxes /\ nextMux \notin DOMAIN muxes
           /\ nextMux \notin Below /\ NoMux \notin Below /\ nextMux # NoMux
           /\ Below \subseteq 1 .. nextMux
  BY NoMuxJobIs DEF MuxInv, MuxTypeOK, OwnersStay, Published, Below, NoMux

LEMMA PassKeepsMuxes ==
    ASSUME MuxInv, NEW x, PassesOver(x)
    PROVE  MuxInv'
  <1> DEFINE left == muxJob.todo \ {x}
             us == [f \in Feeds |-> IF f = x THEN NoMux ELSE muxJob.uuids[f]]
  <1>0. muxJob.step = "write" /\ x \in muxJob.todo /\ Idle(x)
        /\ UNCHANGED <<muxes, nextMux, muxCache, muxFails, feedMux>>
    BY DEF PassesOver, configVars
  <1>1. /\ MuxJobTypeOK /\ Published /\ NoMux \notin DOMAIN muxes
        /\ Fits(muxJob.uuids, muxes) /\ Agrees(muxJob.list, muxes)
    BY <1>0, MidPublish
  <1>2. muxJob' = [muxJob EXCEPT !.todo = left, !.uuids = us]
    BY <1>1 DEF PassesOver, MuxJobTypeOK, JobFields
  <1>3. us \in [Feeds -> Below \union {NoMux}] /\ Fits(us, muxes)
        /\ \A f \in Feeds : f # x => us[f] = muxJob.uuids[f]
    BY <1>1 DEF MuxJobTypeOK, Fits
  <1> HIDE DEF us
  <1>4. /\ DOMAIN muxJob' = JobFields /\ muxJob'.todo = left /\ muxJob'.uuids = us
        /\ muxJob'.step = muxJob.step /\ muxJob'.rows = muxJob.rows /\ muxJob'.on = muxJob.on
        /\ muxJob'.list = muxJob.list /\ muxJob'.current = muxJob.current
        /\ muxJob'.failed = muxJob.failed /\ muxJob'.managed = muxJob.managed
        /\ muxJob'.made = muxJob.made
    BY <1>1, <1>2 DEF MuxJobTypeOK, JobFields
  <1>5. MuxTypeOK'
    BY <1>0, <1>1, <1>3, <1>4 DEF MuxInv, MuxTypeOK, MuxJobTypeOK, Below, Direct, Organised
  <1>6. OwnersStay'
    BY <1>0, <1>1, <1>3, <1>4 DEF MuxInv, OwnersStay, Fits, Agrees, Published
  <1>7. MadeAreThere'
    BY <1>0, <1>1, <1>4 DEF MuxInv, MadeAreThere, Published
  <1>8. ManagedAreOwn'
    <2>1. Done' = Done \union {x} /\ x \notin Done
      BY <1>0, <1>1, <1>4 DEF Done, MuxJobTypeOK
    <2>2. \A y : Idle(y)' <=> Idle(y)
      BY <1>4 DEF Idle
    <2> QED  BY <1>0, <1>1, <1>3, <1>4, <2>1, <2>2 DEF MuxInv, ManagedAreOwn, Published
  <1> QED  BY <1>5, <1>6, <1>7, <1>8 DEF MuxInv

LEMMA FailKeepsMuxes ==
    ASSUME MuxInv, NEW x, MuxCallFails(x)
    PROVE  MuxInv'
  <1> DEFINE left == muxJob.todo \ {x}
  <1>0. muxJob.step = "write" /\ x \in muxJob.todo
        /\ UNCHANGED <<muxes, nextMux, muxCache, feedMux>> /\ muxFails' = muxFails + 1
    BY DEF MuxCallFails, configVars
  <1>1. /\ MuxJobTypeOK /\ Published
        /\ Fits(muxJob.uuids, muxes) /\ Agrees(muxJob.list, muxes)
    BY <1>0, MidPublish
  <1>2. muxJob' = [muxJob EXCEPT !.todo = left, !.failed = TRUE]
    BY <1>1 DEF MuxCallFails, MuxJobTypeOK, JobFields
  <1>4. /\ DOMAIN muxJob' = JobFields /\ muxJob'.todo = left /\ muxJob'.uuids = muxJob.uuids
        /\ muxJob'.step = muxJob.step /\ muxJob'.rows = muxJob.rows /\ muxJob'.on = muxJob.on
        /\ muxJob'.list = muxJob.list /\ muxJob'.current = muxJob.current
        /\ muxJob'.failed = TRUE /\ muxJob'.managed = muxJob.managed
        /\ muxJob'.made = muxJob.made
    BY <1>1, <1>2 DEF MuxJobTypeOK, JobFields
  <1>5. MuxTypeOK'
    BY <1>0, <1>1, <1>4 DEF MuxInv, MuxTypeOK, MuxJobTypeOK, Below, Direct, Organised
  <1>6. OwnersStay'
    BY <1>0, <1>1, <1>4 DEF MuxInv, OwnersStay, Fits, Agrees, Published
  <1>7. MadeAreThere'
    BY <1>0, <1>1, <1>4 DEF MuxInv, MadeAreThere, Published
  <1>8. ManagedAreOwn'
    <2>1. Done \subseteq Done'
      BY <1>0, <1>1, <1>4 DEF Done, MuxJobTypeOK
    <2> QED  BY <1>0, <1>1, <1>4, <2>1 DEF MuxInv, ManagedAreOwn, Published
  <1> QED  BY <1>5, <1>6, <1>7, <1>8 DEF MuxInv

LEMMA CreateKeepsMuxes ==
    ASSUME MuxInv, NEW x, CreatesMux(x)
    PROVE  MuxInv'
  <1> DEFINE after == [muxJob.made EXCEPT ![x] = nextMux]
  <1>0. /\ muxJob.step = "write" /\ x \in muxJob.todo /\ muxJob.made[x] = NoMux
        /\ muxes' = [u \in DOMAIN muxes \union {nextMux} |->
                        IF u = nextMux THEN Placeholder ELSE muxes[u]]
        /\ nextMux' = nextMux + 1
        /\ UNCHANGED <<muxCache, muxFails, feedMux>>
    BY DEF CreatesMux, configVars
  <1>1. /\ MuxJobTypeOK /\ Published
        /\ Fits(muxJob.uuids, muxes) /\ Agrees(muxJob.list, muxes)
        /\ nextMux \notin DOMAIN muxes /\ nextMux \notin Below /\ nextMux # NoMux
    BY <1>0, MidPublish
  <1>2. muxJob' = [muxJob EXCEPT !.made = after]
    BY <1>1 DEF CreatesMux, MuxJobTypeOK, JobFields
  <1>3. /\ Below' = Below \union {nextMux} /\ nextMux' \in Nat \ {0}
        /\ DOMAIN muxes' = DOMAIN muxes \union {nextMux}
        /\ muxes'[nextMux] = Placeholder /\ \A u \in DOMAIN muxes : muxes'[u] = muxes[u]
    BY <1>0, <1>1 DEF MuxInv, MuxTypeOK, Below
  <1>4. /\ DOMAIN after = DOMAIN muxJob.made /\ after \in [DOMAIN after -> Below' \union {NoMux}]
        /\ after[x] = nextMux /\ \A y \in DOMAIN muxJob.made : y # x => after[y] = muxJob.made[y]
    BY <1>0, <1>1, <1>3 DEF MuxJobTypeOK
  <1> HIDE DEF after
  <1>5. /\ DOMAIN muxJob' = JobFields /\ muxJob'.todo = muxJob.todo /\ muxJob'.uuids = muxJob.uuids
        /\ muxJob'.step = muxJob.step /\ muxJob'.rows = muxJob.rows /\ muxJob'.on = muxJob.on
        /\ muxJob'.list = muxJob.list /\ muxJob'.current = muxJob.current
        /\ muxJob'.failed = muxJob.failed /\ muxJob'.managed = muxJob.managed
        /\ muxJob'.made = after
    BY <1>1, <1>2 DEF MuxJobTypeOK, JobFields
  <1>6. MuxTypeOK'
    <2>1. /\ feedMux' \in [Feeds -> Below' \union {NoMux}]
          /\ muxJob'.uuids \in [Feeds -> Below' \union {NoMux}]
      BY <1>0, <1>1, <1>3, <1>5 DEF MuxInv, MuxTypeOK, MuxJobTypeOK
    <2>2. /\ DOMAIN muxes' \subseteq Below' /\ DOMAIN muxCache'.list \subseteq Below'
          /\ DOMAIN muxJob'.list \subseteq Below' /\ muxJob'.managed \subseteq Below'
      BY <1>0, <1>1, <1>3, <1>5 DEF MuxInv, MuxTypeOK, MuxJobTypeOK
    <2>3. DOMAIN muxJob'.made = Direct(muxJob'.rows) \union Organised(muxJob'.rows)
      BY <1>1, <1>4, <1>5 DEF MuxJobTypeOK, Direct, Organised
    <2>4. MuxJobTypeOK'
      BY <1>0, <1>1, <1>4, <1>5, <2>1, <2>2, <2>3 DEF MuxJobTypeOK, Direct, Organised
    <2> QED  BY <1>0, <1>3, <2>1, <2>2, <2>4 DEF MuxInv, MuxTypeOK
  <1>7. OwnersStay'
    <2>1. Fits(feedMux, muxes') /\ Fits(muxJob.uuids, muxes')
      BY <1>1, <1>3 DEF MuxInv, MuxTypeOK, OwnersStay, MuxJobTypeOK, Fits
    <2>2. Agrees(muxCache.list, muxes') /\ Agrees(muxJob.list, muxes')
      <3>1. \A list : Agrees(list, muxes) /\ nextMux \notin DOMAIN list => Agrees(list, muxes')
        BY <1>3 DEF Agrees
      <3>2. /\ Agrees(muxCache.list, muxes) /\ nextMux \notin DOMAIN muxCache.list
            /\ Agrees(muxJob.list, muxes) /\ nextMux \notin DOMAIN muxJob.list
        BY <1>1 DEF MuxInv, MuxTypeOK, OwnersStay, MuxJobTypeOK
      <3> QED  BY <3>1, <3>2
    <2>3. /\ Fits(feedMux', muxes') /\ Fits(muxJob'.uuids, muxes')
          /\ Agrees(muxCache'.list, muxes') /\ Agrees(muxJob'.list, muxes')
      BY <1>0, <1>5, <2>1, <2>2
    <2> QED  BY <2>3 DEF OwnersStay
  <1>8. MadeAreThere'
    <2>1. /\ muxJob.current => DOMAIN muxJob.list \subseteq DOMAIN muxes
          /\ \A y \in muxJob.todo : muxJob.made[y] # NoMux =>
              /\ muxJob.made[y] \in DOMAIN muxes /\ muxes[muxJob.made[y]] = Placeholder
              /\ \A z \in muxJob.todo : muxJob.made[z] = muxJob.made[y] => z = y
      BY <1>0, <1>1 DEF MuxInv, MadeAreThere
    <2>2. muxJob.todo \subseteq DOMAIN muxJob.made
      BY <1>1 DEF MuxJobTypeOK
    <2>3. \A y \in muxJob.todo : y # x => after[y] = muxJob.made[y] /\ after[y] # nextMux
      BY <1>1, <1>4, <2>1, <2>2
    <2> SUFFICES /\ muxJob.current => DOMAIN muxJob.list \subseteq DOMAIN muxes'
                 /\ \A y \in muxJob.todo : after[y] # NoMux =>
                      /\ after[y] \in DOMAIN muxes' /\ muxes'[after[y]] = Placeholder
                      /\ \A z \in muxJob.todo : after[z] = after[y] => y = z
      BY <1>5 DEF MadeAreThere
    <2> QED  BY <1>3, <1>4, <2>1, <2>3
  <1>9. ManagedAreOwn'
    <2>1. Done' = Done
      BY <1>4, <1>5 DEF Done
    <2>2. \A y : Idle(y)' <=> Idle(y)
      BY <1>5 DEF Idle
    <2>3. muxJob.managed \intersect DOMAIN muxes' = muxJob.managed \intersect DOMAIN muxes
      BY <1>1, <1>3 DEF MuxJobTypeOK
    <2> QED  BY <1>1, <1>3, <1>5, <2>1, <2>2, <2>3 DEF MuxInv, ManagedAreOwn
  <1> QED  BY <1>6, <1>7, <1>8, <1>9 DEF MuxInv

\* Nobody's mux is written by another: it is the writer's or has no name yet.
LEMMA WriterOwns ==
    ASSUME MuxInv, muxJob.step = "write", NEW x \in muxJob.todo,
           NEW u \in IF muxJob.made[x] # NoMux THEN {muxJob.made[x]} ELSE Known(x)
    PROVE  /\ u \in Below
           /\ u \in DOMAIN muxes => muxes[u] \in {x, Placeholder}
           /\ muxJob.current => u \in DOMAIN muxes
           /\ \A f \in Feeds : muxJob.uuids[f] = u /\ u \in DOMAIN muxes => f = x
           /\ \A f \in Feeds : feedMux[f] = u /\ u \in DOMAIN muxes => f = x
           /\ \A y \in muxJob.todo : muxJob.made[y] = u => y = x
           /\ u \notin muxJob.managed \intersect DOMAIN muxes
  <1>1. /\ MuxJobTypeOK /\ Published
        /\ Fits(muxJob.uuids, muxes) /\ Agrees(muxJob.list, muxes) /\ Fits(feedMux, muxes)
    BY MidPublish DEF MuxInv, OwnersStay
  <1>2. /\ x \in Feeds \union MuxedChannels /\ x \in DOMAIN muxJob.made
    BY <1>1 DEF MuxJobTypeOK, Direct, Organised
  <1>3. /\ muxJob.current => DOMAIN muxJob.list \subseteq DOMAIN muxes
        /\ \A y \in muxJob.todo : muxJob.made[y] # NoMux =>
              /\ muxJob.made[y] \in DOMAIN muxes /\ muxes[muxJob.made[y]] = Placeholder
              /\ \A z \in muxJob.todo : muxJob.made[z] = muxJob.made[y] => y = z
    BY <1>1 DEF MuxInv, MadeAreThere
  <1>4. \A v \in muxJob.managed \intersect DOMAIN muxes : muxes[v] \in Done
    BY <1>1 DEF MuxInv, ManagedAreOwn
  <1>5. /\ Placeholder \notin Feeds /\ Placeholder \notin MuxedChannels /\ Placeholder # x
        /\ Placeholder \notin Done /\ x \notin Done
    BY <1>1, <1>2, FeedsAssumption DEF Done, MuxJobTypeOK, Direct, Organised
  <1>6. /\ u \in Below /\ u # NoMux
        /\ u \in DOMAIN muxes => muxes[u] \in {x, Placeholder}
        /\ muxJob.current => u \in DOMAIN muxes
    <2>1. CASE muxJob.made[x] # NoMux
      BY <1>1, <1>2, <1>3, <2>1 DEF MuxJobTypeOK, Below, NoMux, MuxInv, MuxTypeOK
    <2>2. CASE muxJob.made[x] = NoMux /\ x \in Feeds
      BY <1>1, <1>3, <2>2 DEF Known, MuxJobTypeOK, Fits, Below, NoMux
    <2>3. CASE muxJob.made[x] = NoMux /\ x \notin Feeds
      <3>1. u \in DOMAIN muxJob.list /\ muxJob.list[u] = x
        BY <2>3 DEF Known
      <3>2. u \in Below /\ u # NoMux
        BY <1>1, <3>1 DEF MuxJobTypeOK, Below, NoMux
      <3> QED  BY <1>1, <1>3, <1>5, <3>1, <3>2 DEF Agrees
    <2> QED  BY <2>1, <2>2, <2>3
  <1>7. \A y \in muxJob.todo : muxJob.made[y] = u => y = x
    <2> SUFFICES ASSUME NEW y \in muxJob.todo, muxJob.made[y] = u, y # x
                 PROVE  FALSE
      OBVIOUS
    <2>1. u \in DOMAIN muxes /\ muxes[u] = Placeholder
      BY <1>3, <1>6
    <2>2. muxJob.made[x] = NoMux /\ u \in Known(x)
      BY <1>3, <1>6
    <2>3. CASE x \in Feeds
      BY <1>1, <1>5, <2>1, <2>2, <2>3 DEF Known, Fits
    <2>4. CASE x \notin Feeds
      <3>1. u \in DOMAIN muxJob.list /\ muxJob.list[u] = x
        BY <2>2, <2>4 DEF Known
      <3> QED  BY <1>1, <1>5, <2>1, <3>1 DEF Agrees
    <2> QED  BY <2>3, <2>4
  <1> QED  BY <1>1, <1>4, <1>5, <1>6, <1>7 DEF Fits

LEMMA WriteKeepsMuxes ==
    ASSUME MuxInv, NEW x, WritesMux(x)
    PROVE  MuxInv'
  <1>0. /\ muxJob.step = "write" /\ x \in muxJob.todo
        /\ UNCHANGED <<muxCache, muxFails, feedMux, nextMux>>
    BY DEF WritesMux, configVars
  <1>1. /\ MuxJobTypeOK /\ Published
        /\ Fits(muxJob.uuids, muxes) /\ Agrees(muxJob.list, muxes)
    BY <1>0, MidPublish
  <1>2. PICK u \in IF muxJob.made[x] # NoMux THEN {muxJob.made[x]} ELSE Known(x) :
           /\ muxes' = [v \in DOMAIN muxes |-> IF v = u THEN x ELSE muxes[v]]
           /\ muxJob' = [muxJob EXCEPT !.todo = @ \ {x}, !.managed = @ \union {u}, !.uuids =
                           [f \in Feeds |-> IF f = x THEN u ELSE @[f]]]
    BY DEF WritesMux
  <1> DEFINE left == muxJob.todo \ {x}
             us == [f \in Feeds |-> IF f = x THEN u ELSE muxJob.uuids[f]]
             own == muxJob.managed \union {u}
  <1>3. muxJob' = [muxJob EXCEPT !.todo = left, !.managed = own, !.uuids = us]
    BY <1>1, <1>2 DEF MuxJobTypeOK, JobFields
  <1>4. /\ u \in Below
        /\ u \in DOMAIN muxes => muxes[u] \in {x, Placeholder}
        /\ muxJob.current => u \in DOMAIN muxes
        /\ \A f \in Feeds : muxJob.uuids[f] = u /\ u \in DOMAIN muxes => f = x
        /\ \A f \in Feeds : feedMux[f] = u /\ u \in DOMAIN muxes => f = x
        /\ \A y \in muxJob.todo : muxJob.made[y] = u => y = x
        /\ u \notin muxJob.managed \intersect DOMAIN muxes
    BY <1>0, WriterOwns
  <1>5. /\ DOMAIN muxes' = DOMAIN muxes /\ (u \in DOMAIN muxes => muxes'[u] = x)
        /\ \A v \in DOMAIN muxes : v # u => muxes'[v] = muxes[v]
    BY <1>2
  <1>6. /\ us \in [Feeds -> Below \union {NoMux}] /\ (x \in Feeds => us[x] = u)
        /\ \A f \in Feeds : f # x => us[f] = muxJob.uuids[f]
    BY <1>1, <1>4 DEF MuxJobTypeOK
  <1> HIDE DEF us, own, left
  <1>7. /\ DOMAIN muxJob' = JobFields /\ muxJob'.todo = left /\ muxJob'.uuids = us
        /\ muxJob'.step = muxJob.step /\ muxJob'.rows = muxJob.rows /\ muxJob'.on = muxJob.on
        /\ muxJob'.list = muxJob.list /\ muxJob'.current = muxJob.current
        /\ muxJob'.failed = muxJob.failed /\ muxJob'.managed = own
        /\ muxJob'.made = muxJob.made
    BY <1>1, <1>3 DEF MuxJobTypeOK, JobFields
  <1>8. MuxTypeOK'
    BY <1>0, <1>1, <1>4, <1>5, <1>6, <1>7
       DEF MuxInv, MuxTypeOK, MuxJobTypeOK, Below, Direct, Organised, own, left
  <1>9. OwnersStay'
    <2>1. Fits(feedMux, muxes') /\ Fits(us, muxes')
      BY <1>1, <1>4, <1>5, <1>6 DEF MuxInv, OwnersStay, Fits
    <2>2. \A list : Agrees(list, muxes) /\ (u \in DOMAIN list \intersect DOMAIN muxes => list[u] \in {x, Placeholder})
                       => Agrees(list, muxes')
      BY <1>5 DEF Agrees
    <2>3. \A list : Agrees(list, muxes) => Agrees(list, muxes')
      BY <1>4, <2>2 DEF Agrees
    <2> QED  BY <1>0, <1>1, <1>7, <2>1, <2>3 DEF MuxInv, OwnersStay, Fits, Agrees
  <1>10. MadeAreThere'
    <2>1. /\ muxJob.current => DOMAIN muxJob.list \subseteq DOMAIN muxes
          /\ \A y \in muxJob.todo : muxJob.made[y] # NoMux =>
              /\ muxJob.made[y] \in DOMAIN muxes /\ muxes[muxJob.made[y]] = Placeholder
              /\ \A z \in muxJob.todo : muxJob.made[z] = muxJob.made[y] => y = z
      BY <1>0, <1>1 DEF MuxInv, MadeAreThere
    <2> QED  BY <1>0, <1>4, <1>5, <1>7, <2>1 DEF MadeAreThere, left
  <1>11. ManagedAreOwn'
    <2>1. Done' = Done \union {x} /\ x \notin Done
      BY <1>0, <1>1, <1>7 DEF Done, MuxJobTypeOK, left
    <2>2. \A y : Idle(y)' <=> Idle(y)
      BY <1>7 DEF Idle
    <2>3. /\ \A v \in muxJob.managed \intersect DOMAIN muxes :
              /\ muxes[v] \in Done /\ v # u /\ muxes'[v] = muxes[v]
              /\ \A w \in muxJob.managed \intersect DOMAIN muxes : muxes[v] = muxes[w] => v = w
          /\ ~muxJob.failed /\ muxJob.current =>
              \A y \in Done : \/ Idle(y)
                              \/ \E v \in muxJob.managed \intersect DOMAIN muxes :
                                   muxes[v] = y /\ (y \in Feeds => muxJob.uuids[y] = v)
      BY <1>1, <1>4, <1>5 DEF MuxInv, ManagedAreOwn
    <2>4. \A v \in own \intersect DOMAIN muxes' :
              /\ muxes'[v] \in Done'
              /\ \A w \in own \intersect DOMAIN muxes' : muxes'[v] = muxes'[w] => v = w
      BY <1>5, <2>1, <2>3 DEF own
    <2>5. ~muxJob.failed /\ muxJob.current =>
              \A y \in Done' : \/ Idle(y)
                               \/ \E v \in own \intersect DOMAIN muxes' :
                                    muxes'[v] = y /\ (y \in Feeds => us[y] = v)
      <3> SUFFICES ASSUME ~muxJob.failed, muxJob.current, NEW y \in Done'
                   PROVE  \/ Idle(y)
                          \/ \E v \in own \intersect DOMAIN muxes' :
                               muxes'[v] = y /\ (y \in Feeds => us[y] = v)
        OBVIOUS
      <3>1. CASE y = x
        BY <1>4, <1>5, <1>6, <3>1 DEF own
      <3>2. CASE y # x
        BY <1>5, <1>6, <2>1, <2>3, <3>2 DEF own
      <3> QED  BY <3>1, <3>2
    <2> QED  BY <1>7, <2>2, <2>4, <2>5 DEF ManagedAreOwn
  <1> QED  BY <1>8, <1>9, <1>10, <1>11 DEF MuxInv

LEMMA CommitKeepsMuxes ==
    ASSUME MuxInv, CommitsMuxes
    PROVE  MuxInv'
  <1>0. /\ muxJob.step = "write" /\ muxJob.todo = {}
        /\ UNCHANGED <<muxes, nextMux, muxCache, muxFails>>
        /\ muxJob' = [muxJob EXCEPT !.step = "clean"]
    BY DEF CommitsMuxes
  <1>1. /\ MuxJobTypeOK /\ Published /\ NoMux \notin DOMAIN muxes
        /\ Fits(muxJob.uuids, muxes) /\ Agrees(muxJob.list, muxes)
    BY <1>0, MidPublish
  <1>2. /\ DOMAIN muxJob' = JobFields /\ muxJob'.todo = muxJob.todo /\ muxJob'.uuids = muxJob.uuids
        /\ muxJob'.step = "clean" /\ muxJob'.rows = muxJob.rows /\ muxJob'.on = muxJob.on
        /\ muxJob'.list = muxJob.list /\ muxJob'.current = muxJob.current
        /\ muxJob'.failed = muxJob.failed /\ muxJob'.managed = muxJob.managed
        /\ muxJob'.made = muxJob.made
    BY <1>0, <1>1 DEF MuxJobTypeOK, JobFields
  <1>3. /\ feedMux' \in [Feeds -> Below \union {NoMux}]
        /\ \A f \in Feeds : feedMux'[f] \in {feedMux[f], muxJob.uuids[f], NoMux}
    BY <1>1 DEF CommitsMuxes, MuxInv, MuxTypeOK, MuxJobTypeOK
  <1>4. MuxTypeOK'
    BY <1>0, <1>1, <1>2, <1>3 DEF MuxInv, MuxTypeOK, MuxJobTypeOK, Below, Direct, Organised
  <1>5. OwnersStay'
    BY <1>0, <1>1, <1>2, <1>3 DEF MuxInv, OwnersStay, Fits, Agrees
  <1>6. MadeAreThere'
    BY <1>2 DEF MadeAreThere
  <1>7. ManagedAreOwn'
    BY <1>0, <1>1, <1>2 DEF MuxInv, ManagedAreOwn, Done, Idle
  <1> QED  BY <1>4, <1>5, <1>6, <1>7 DEF MuxInv

LEMMA CleanKeepsMuxes ==
    ASSUME MuxInv, CleansMuxes
    PROVE  MuxInv'
  <1>1. PICK left \in SUBSET (DOMAIN muxes \ muxJob.managed) :
           /\ muxFails' = muxFails + Cardinality(left)
           /\ muxes' = [u \in DOMAIN muxes \intersect (muxJob.managed \union left) |-> muxes[u]]
    BY DEF CleansMuxes
  <1>2. /\ muxJob.step = "clean" /\ muxJob' = NoMuxJob
        /\ UNCHANGED <<feedMux, nextMux, muxCache>>
    BY DEF CleansMuxes, configVars
  <1>3. IsFiniteSet(left)
    <2>1. nextMux \in Nat \ {0} /\ left \subseteq Below
      BY DEF MuxInv, MuxTypeOK
    <2>2. 1 \in Int /\ nextMux - 1 \in Int
      BY <2>1
    <2>3. IsFiniteSet(1 .. (nextMux - 1))
      BY <2>2, FS_Interval
    <2> QED  BY <2>1, <2>3, FS_Subset DEF Below
  <1>4. Cardinality(left) \in Nat /\ muxFails' \in Nat
    <2>1. Cardinality(left) \in Nat
      BY <1>3, FS_CardinalityType
    <2>2. muxFails \in Nat
      BY DEF MuxInv, MuxTypeOK
    <2> QED  BY <1>1, <2>1, <2>2
  <1>5. DOMAIN muxes' \subseteq DOMAIN muxes /\ \A u \in DOMAIN muxes' : muxes'[u] = muxes[u]
    BY <1>1
  <1>6. ~Published'
    BY <1>2 DEF Published
  <1>7. MuxTypeOK'
    BY <1>2, <1>4, <1>5, <1>6 DEF MuxInv, MuxTypeOK, Below
  <1>8. OwnersStay'
    BY <1>2, <1>5, <1>6 DEF MuxInv, OwnersStay, Fits, Agrees
  <1>9. MadeAreThere' /\ ManagedAreOwn'
    BY <1>6 DEF MadeAreThere, ManagedAreOwn
  <1> QED  BY <1>7, <1>8, <1>9 DEF MuxInv

LEMMA MuxInvHolds == MuxesInit /\ [][MuxesNext]_tvhMuxVars => []MuxInv
  <1>1. MuxesInit => MuxInv
    <2> SUFFICES ASSUME MuxesInit
                 PROVE  MuxInv
      OBVIOUS
    <2>1. NoList.list = <<>> /\ DOMAIN <<>> = {} /\ ~Published
      BY DEF MuxesInit, NoList, Published
    <2>2. MuxTypeOK
      BY <2>1 DEF MuxesInit, MuxTypeOK, Below
    <2> QED  BY <2>1, <2>2 DEF MuxesInit, MuxInv, OwnersStay, Fits, Agrees, MadeAreThere, ManagedAreOwn
  <1>2. MuxInv /\ [MuxesNext]_tvhMuxVars => MuxInv'
    BY MuxSteps, EditsKeepMuxes, StartKeepsMuxes, PassKeepsMuxes, CreateKeepsMuxes,
       WriteKeepsMuxes, FailKeepsMuxes, CommitKeepsMuxes, CleanKeepsMuxes DEF CacheExpires, configVars
  <1> QED  BY <1>1, <1>2, PTL

\* A publish of muxes that met neither a failure nor an edit and worked from the
\* current list leaves exactly the muxes of the channels as they are, for any
\* channels and sources, whatever publishes before it failed half-way or worked
\* from an old list and whatever rows were deleted.
THEOREM MuxesAreTheirs == MuxesInit /\ [][MuxesNext]_tvhMuxVars => MuxesMatch
  <1>1. ASSUME MuxInv, CleansMuxes, Undisturbed
        PROVE  /\ \A f \in Direct(modes) \intersect feedOn :
                    feedMux[f] \in DOMAIN muxes' /\ muxes'[feedMux[f]] = f
               /\ \A c \in Organised(modes) : (\E f \in feedOn : FeedOf[f] = c) =>
                    \E u \in DOMAIN muxes' : muxes'[u] = c
               /\ \A u, v \in DOMAIN muxes' : muxes'[u] = muxes'[v] => u = v
               /\ \A u \in DOMAIN muxes' : muxes'[u] \in Direct(modes) \union Organised(modes)
    <2>0. muxJob.step = "clean"
      BY <1>1 DEF CleansMuxes
    <2>1. Published /\ MuxJobTypeOK
      BY <1>1, <2>0, MidPublish
    <2>2. PICK left \in SUBSET (DOMAIN muxes \ muxJob.managed) :
             /\ muxFails' = muxFails + Cardinality(left)
             /\ muxes' = [u \in DOMAIN muxes \intersect (muxJob.managed \union left) |-> muxes[u]]
      BY <1>1 DEF CleansMuxes
    <2>3. IsFiniteSet(left)
      <3>1. nextMux \in Nat \ {0} /\ left \subseteq Below
        BY <1>1 DEF MuxInv, MuxTypeOK
      <3>2. IsFiniteSet(Below)
        BY <3>1, FS_Interval DEF Below
      <3> QED  BY <3>1, <3>2, FS_Subset
    <2>4. muxFails \in Nat /\ Cardinality(left) \in Nat /\ muxFails' = muxFails
      BY <1>1, <2>3, FS_CardinalityType DEF MuxInv, MuxTypeOK, Undisturbed
    <2>5. Cardinality(left) = 0
      BY <2>2, <2>4
    <2>6. left = {}
      BY <2>3, <2>5, FS_EmptySet
    <2>7. /\ DOMAIN muxes' = muxJob.managed \intersect DOMAIN muxes
          /\ \A u \in DOMAIN muxes' : muxes'[u] = muxes[u]
      BY <2>2, <2>6
    <2>8. Done = Direct(modes) \union Organised(modes)
      BY <1>1, <2>0, <2>1 DEF Done, MuxJobTypeOK, Undisturbed
    <2>9. \A f \in Direct(modes) : f \in Feeds /\ feedMux[f] = muxJob.uuids[f]
      BY <1>1 DEF Undisturbed, Direct
    <2>10. /\ \A u \in muxJob.managed \intersect DOMAIN muxes :
                /\ muxes[u] \in Done
                /\ \A v \in muxJob.managed \intersect DOMAIN muxes : muxes[u] = muxes[v] => u = v
           /\ \A x \in Done : \/ Idle(x)
                              \/ \E u \in muxJob.managed \intersect DOMAIN muxes :
                                   muxes[u] = x /\ (x \in Feeds => muxJob.uuids[x] = u)
      BY <1>1, <2>1 DEF MuxInv, ManagedAreOwn, Undisturbed
    <2>11. \A f \in Direct(modes) \intersect feedOn : ~Idle(f)
      BY <1>1 DEF Idle, Undisturbed, Direct
    <2>12. \A c \in Organised(modes) : (\E f \in feedOn : FeedOf[f] = c) => ~Idle(c)
      BY <1>1, FeedsAssumption DEF Idle, Undisturbed, Organised
    <2> QED  BY <2>7, <2>8, <2>9, <2>10, <2>11, <2>12
  <1>2. MuxInv /\ [MuxesNext]_tvhMuxVars =>
           [CleansMuxes /\ Undisturbed =>
              /\ \A f \in Direct(modes) \intersect feedOn :
                    feedMux[f] \in DOMAIN muxes' /\ muxes'[feedMux[f]] = f
              /\ \A c \in Organised(modes) : (\E f \in feedOn : FeedOf[f] = c) =>
                    \E u \in DOMAIN muxes' : muxes'[u] = c
              /\ \A u, v \in DOMAIN muxes' : muxes'[u] = muxes'[v] => u = v
              /\ \A u \in DOMAIN muxes' : muxes'[u] \in Direct(modes) \union Organised(modes)]_tvhMuxVars
    BY <1>1
  <1> QED  BY <1>2, MuxInvHolds, PTL DEF MuxesMatch

-----------------------------------------------------------------------------
(* The guide                                                                *)

TaskFields == {"name", "left", "step", "updated", "guide", "version", "seen", "plan"}
Chores == {"enrich", "build", "periodic"}
AtWork == task # Resting
In(steps) == AtWork /\ task.step \in steps

StepsOf(name) ==
    CASE name = "enrich" -> {"enrich", "lookup"}
      [] name = "build" -> {"build", "load"}
      [] name = "periodic" -> {"import", "clear", "fill", "enrich", "lookup", "build", "load"}
      [] OTHER -> {"import", "clear", "fill"}
TaskTypeOK ==
    /\ DOMAIN task = TaskFields /\ task.name \in Guides \union Chores
    /\ task.step \in StepsOf(task.name)
    /\ task.left \subseteq Guides
    /\ task.updated \in BOOLEAN /\ (task.updated => task.name = "periodic")
    /\ task.step \in {"clear", "fill"} => task.guide \in Guides
GuideTypeOK ==
    /\ known \subseteq Guides
    /\ DOMAIN rows = Guides
    /\ \A g \in Guides : DOMAIN rows[g] = {"channels", "version", "batches", "rich"}
    /\ DOMAIN health = Guides
    /\ \A g \in Guides : DOMAIN health[g] = {"last", "succeeded"}
    /\ mapping \in [GuideChannels -> known \union {NoGuide}]
    /\ DOMAIN lookups = Titles
    /\ asked \subseteq Guides \union Chores
    /\ AtWork => TaskTypeOK

\* Whoever asks for an import asks for the enrichment and the build after it,
\* and the queue keeps to that order.
OrderKept ==
    /\ asked \intersect Guides # {} => "enrich" \in asked
    /\ "enrich" \in asked => "build" \in asked
    /\ AtWork =>
         /\ task.name \in Guides => "enrich" \in asked
         /\ task.name = "enrich" => "build" \in asked
         /\ task.name \in {"build", "periodic"} /\ "build" \in asked => "enrich" \in asked

\* The file is that of the tables, or another build is to come, or was given up.
Wanted(c) == IF mapping[c] = NoGuide THEN Empty ELSE rows[mapping[c]]
Coming ==
    \/ "build" \in asked \/ "xmltv" \in behind
    \/ In({"build"})
    \/ In({"clear", "fill", "enrich", "lookup"}) /\ task.name = "periodic"
    \/ In({"import"}) /\ task.updated
FileIsCurrent ==
    /\ In({"load"}) =>
                       \/ "build" \in asked \/ "xmltv" \in behind
                       \/ \A c \in GuideChannels : task.plan[c] = mapping[c]
    /\ \/ Coming \/ In({"load"})
       \/ \A c \in GuideChannels : xmltv[c] = Wanted(c)

\* A guide whose last import succeeded is whole, until the next clears it.
HealthIsTrue ==
    \A g \in known : health[g].last = "ok" =>
        \/ rows[g].batches = Batches
        \/ In({"clear", "fill"}) /\ task.guide = g

\* A mapped guide that is still bare is one the enrichment under way has seen,
\* or another was asked for.
Bare(g) == rows[g].batches > 0 /\ ~rows[g].rich
SeenOrAsked ==
    In({"lookup"}) => \A g \in Mapped : Bare(g) => g \in task.seen \/ "enrich" \in asked

\* A known match is in the rows, or an enrichment is to come, or was given up:
\* by one that failed, or by an import that failed and asked for no build.
Enriching(g) ==
    \/ "enrich" \in asked
    \/ In({"enrich"})
    \/ In({"lookup"}) /\ g \in task.seen
    \/ In({"clear", "fill"}) /\ task.name = "periodic"
    \/ In({"import"}) /\ task.updated
GivenUp ==
    \/ "lookups" \in behind
    \/ "xmltv" \in behind /\ "build" \notin asked /\ ~In({"build"})
MatchesAreIn ==
    \A g \in Mapped : Bare(g) /\ lookups[TitlesOf[g]] = "match" => Enriching(g) \/ GivenUp

GuideInv == GuideTypeOK /\ OrderKept /\ FileIsCurrent /\ HealthIsTrue /\ SeenOrAsked /\ MatchesAreIn

LEMMA GuideNames == /\ "enrich" \notin Guides /\ "build" \notin Guides /\ "periodic" \notin Guides
                    /\ "idle" \notin Guides /\ NoGuide \notin Guides
  BY GuidesAssumption

LEMMA StepsAre == /\ \A g \in Guides : StepsOf(g) = {"import", "clear", "fill"}
                  /\ StepsOf("enrich") = {"enrich", "lookup"}
                  /\ StepsOf("build") = {"build", "load"}
                  /\ StepsOf("periodic") =
                        {"import", "clear", "fill", "enrich", "lookup", "build", "load"}
  BY GuideNames DEF StepsOf

LEMMA WhoWorks ==
    ASSUME AtWork, TaskTypeOK
    PROVE  /\ task.name # "idle"
           /\ task.step \in {"import", "clear", "fill"} => task.name \in Guides \union {"periodic"}
           /\ task.step \in {"enrich", "lookup"} => task.name \in {"enrich", "periodic"}
           /\ task.step \in {"build", "load"} => task.name \in {"build", "periodic"}
  BY StepsAre, GuideNames DEF TaskTypeOK, Chores

LEMMA IdleIsResting ==
    ASSUME GuideTypeOK
    PROVE  task.name = "idle" <=> ~AtWork
  <1>1. Resting.name = "idle"
    BY DEF Resting
  <1> QED  BY <1>1, GuideNames DEF GuideTypeOK, AtWork, TaskTypeOK, Chores

LEMMA MappedAreKnown ==
    ASSUME GuideTypeOK
    PROVE  Mapped \subseteq known /\ Mapped \subseteq Guides
  BY DEF GuideTypeOK, Mapped

\* Clocks and users that change neither the rows, the mapping nor the task.
LEMMA AskingKept ==
    ASSUME GuideInv, UNCHANGED <<known, rows, xmltv, mapping, task, behind>>,
           \/ UNCHANGED <<health, lookups>> /\ (asked' = asked \/ asked' = asked \union {"periodic"}
                \/ \E g \in Guides : asked' = asked \union {g, "enrich", "build"})
           \/ UNCHANGED <<health, asked>> /\ \E t \in Titles : lookups' = [lookups EXCEPT ![t] = "none"]
           \/ UNCHANGED <<lookups, asked>> /\ \E g \in Guides : health' = [health EXCEPT ![g] = Unheard]
    PROVE  GuideInv'
  <1>1. /\ DOMAIN Unheard = {"last", "succeeded"} /\ Unheard.last # "ok"
    BY DEF Unheard
  <1>2. /\ DOMAIN health' = Guides
        /\ \A g \in Guides : /\ DOMAIN health'[g] = {"last", "succeeded"}
                             /\ health'[g].last = "ok" => health[g].last = "ok"
    BY <1>1 DEF GuideInv, GuideTypeOK
  <1>3. /\ DOMAIN lookups' = Titles
        /\ \A t \in Titles : lookups'[t] = "match" => lookups[t] = "match"
    BY DEF GuideInv, GuideTypeOK
  <1>4. /\ asked' \subseteq Guides \union Chores /\ asked \subseteq asked'
        /\ "build" \in asked' /\ "build" \notin asked => "enrich" \in asked'
        /\ "enrich" \in asked' => "build" \in asked'
        /\ asked' \intersect Guides # {} => "enrich" \in asked'
    BY GuideNames DEF GuideInv, GuideTypeOK, OrderKept, Chores
  <1>5. \A steps : In(steps)' <=> In(steps)
    BY DEF In, AtWork, Resting
  <1>6. GuideTypeOK'
    BY <1>2, <1>3, <1>4 DEF GuideInv, GuideTypeOK, TaskTypeOK, AtWork, Resting
  <1>7. OrderKept'
    BY <1>4 DEF GuideInv, OrderKept, AtWork, Resting
  <1>8. FileIsCurrent'
    BY <1>4, <1>5 DEF GuideInv, FileIsCurrent, Coming, Wanted
  <1>9. HealthIsTrue'
    BY <1>2, <1>5 DEF GuideInv, HealthIsTrue, GuideTypeOK
  <1>10. Mapped' = Mapped /\ \A g : Bare(g)' <=> Bare(g)
    BY DEF Mapped, Bare
  <1>11. SeenOrAsked'
    BY <1>4, <1>5, <1>10 DEF GuideInv, SeenOrAsked
  <1>12. MatchesAreIn'
    <2> SUFFICES ASSUME NEW g \in Mapped, Bare(g), lookups'[TitlesOf[g]] = "match"
                 PROVE  Enriching(g)' \/ GivenUp'
      BY <1>10 DEF MatchesAreIn
    <2>1. lookups[TitlesOf[g]] = "match"
      BY <1>3, MappedAreKnown DEF Titles, GuideInv
    <2>2. Enriching(g) \/ GivenUp
      BY <2>1 DEF GuideInv, MatchesAreIn
    <2> QED  BY <1>4, <1>5, <2>2 DEF Enriching, GivenUp
  <1> QED  BY <1>6, <1>7, <1>8, <1>9, <1>11, <1>12 DEF GuideInv

LEMMA MapKept ==
    ASSUME GuideInv, NEW c \in GuideChannels, NEW g \in Guides \union {NoGuide}, MapChannel(c, g)
    PROVE  GuideInv'
  <1>1. /\ mapping' = [mapping EXCEPT ![c] = IF g \in known THEN g ELSE NoGuide]
        /\ asked' = asked \union {"enrich", "build"}
        /\ UNCHANGED <<known, rows, health, lookups, xmltv, task, behind>>
    BY DEF MapChannel, tables
  <1>2. mapping' \in [GuideChannels -> known \union {NoGuide}]
    BY <1>1 DEF GuideInv, GuideTypeOK
  <1>3. \A steps : In(steps)' <=> In(steps)
    BY <1>1 DEF In, AtWork, Resting
  <1>4. GuideTypeOK'
    BY <1>1, <1>2 DEF GuideInv, GuideTypeOK, TaskTypeOK, AtWork, Resting, Chores
  <1>5. OrderKept' /\ FileIsCurrent' /\ SeenOrAsked' /\ MatchesAreIn'
    BY <1>1 DEF OrderKept, FileIsCurrent, Coming, SeenOrAsked, MatchesAreIn, Enriching
  <1>6. HealthIsTrue'
    BY <1>1, <1>3 DEF GuideInv, HealthIsTrue
  <1> QED  BY <1>4, <1>5, <1>6 DEF GuideInv

LEMMA EmptyIs == /\ DOMAIN Empty = {"channels", "version", "batches", "rich"}
                 /\ Empty.batches = 0 /\ ~(Empty.batches > 0)
  BY DEF Empty

LEMMA DeleteKept ==
    ASSUME GuideInv, NEW g \in Guides, DeleteGuide(g)
    PROVE  GuideInv'
  <1>1. /\ known' = known \ {g} /\ rows' = [rows EXCEPT ![g] = Empty]
        /\ mapping' = [c \in GuideChannels |-> IF mapping[c] = g THEN NoGuide ELSE mapping[c]]
        /\ behind' = behind \union {"xmltv"}
        /\ UNCHANGED <<health, lookups, xmltv, asked, task>>
    BY DEF DeleteGuide
  <1>2. /\ mapping' \in [GuideChannels -> known' \union {NoGuide}]
        /\ DOMAIN rows' = Guides
        /\ \A h \in Guides : DOMAIN rows'[h] = {"channels", "version", "batches", "rich"}
        /\ \A h \in Guides : h # g => rows'[h] = rows[h]
    BY <1>1, EmptyIs DEF GuideInv, GuideTypeOK
  <1>3. \A steps : In(steps)' <=> In(steps)
    BY <1>1 DEF In, AtWork, Resting
  <1>4. GuideTypeOK'
    BY <1>1, <1>2 DEF GuideInv, GuideTypeOK, TaskTypeOK, AtWork, Resting
  <1>5. OrderKept'
    BY <1>1 DEF GuideInv, OrderKept, AtWork, Resting
  <1>6. FileIsCurrent'
    BY <1>1 DEF FileIsCurrent, Coming
  <1>7. HealthIsTrue'
    BY <1>1, <1>2, <1>3 DEF GuideInv, GuideTypeOK, HealthIsTrue
  <1>8. /\ Mapped' \subseteq Mapped \ {g}
    BY <1>1 DEF Mapped
  <1>9. \A h \in Mapped' : h \in Mapped /\ (Bare(h)' <=> Bare(h))
    BY <1>2, <1>8, MappedAreKnown DEF GuideInv, Bare
  <1>10. SeenOrAsked'
    BY <1>1, <1>3, <1>9 DEF GuideInv, SeenOrAsked
  <1>11. MatchesAreIn'
    BY <1>1, <1>3, <1>9 DEF GuideInv, MatchesAreIn, Enriching, GivenUp
  <1> QED  BY <1>4, <1>5, <1>6, <1>7, <1>10, <1>11 DEF GuideInv

LEMMA BeginKept ==
    ASSUME GuideInv, TaskBegins
    PROVE  GuideInv'
  <1>0. PICK t \in Urgent :
           /\ asked' = asked \ {t}
           /\ \E left \in IF t = "periodic" THEN {s \in SUBSET known : Due \subseteq s}
                          ELSE {{t} \intersect known} :
                task' = [name |-> t, left |-> left,
                         step |-> IF t \in {"enrich", "build"} THEN t ELSE "import",
                         updated |-> FALSE, guide |-> NoGuide, version |-> 0, seen |-> {}, plan |-> <<>>]
    BY DEF TaskBegins
  <1>1. PICK left \in IF t = "periodic" THEN {s \in SUBSET known : Due \subseteq s}
                      ELSE {{t} \intersect known} :
           task' = [name |-> t, left |-> left,
                    step |-> IF t \in {"enrich", "build"} THEN t ELSE "import",
                    updated |-> FALSE, guide |-> NoGuide, version |-> 0, seen |-> {}, plan |-> <<>>]
    BY <1>0
  <1> DEFINE first == IF t \in {"enrich", "build"} THEN t ELSE "import"
  <1>2. /\ DOMAIN task' = TaskFields /\ task'.name = t /\ task'.left = left /\ task'.step = first
        /\ task'.updated = FALSE /\ task'.guide = NoGuide
    BY <1>1 DEF TaskFields
  <1>3. UNCHANGED <<known, rows, health, lookups, xmltv, mapping, behind>> /\ ~AtWork
    BY IdleIsResting DEF TaskBegins, taskOnly, tables, GuideInv
  <1>4. AtWork'
    BY <1>2 DEF AtWork, Resting, TaskFields
  <1>5. left \subseteq Guides
    BY <1>1 DEF GuideInv, GuideTypeOK
  <1>6. /\ t \in asked /\ t \in Guides \union Chores
        /\ asked \intersect Guides # {} => t \in Guides
        /\ t \notin Guides /\ "enrich" \in asked => t = "enrich"
        /\ t \notin Guides /\ "enrich" \notin asked /\ "build" \in asked => t = "build"
    BY DEF Urgent, GuideInv, GuideTypeOK
  <1>7. GuideTypeOK'
    <2>1. first \in StepsOf(t)
      BY <1>6, StepsAre, GuideNames DEF Chores
    <2>2. TaskTypeOK'
      BY <1>2, <1>5, <1>6, <2>1, GuideNames DEF TaskTypeOK, TaskFields
    <2> QED  BY <1>0, <1>3, <2>2 DEF GuideInv, GuideTypeOK
  <1>8. OrderKept'
    BY <1>0, <1>2, <1>6, GuideNames DEF GuideInv, OrderKept, Chores
  <1>9. /\ ("build" \in asked' <=> "build" \in asked /\ t # "build")
        /\ ("enrich" \in asked' <=> "enrich" \in asked /\ t # "enrich")
    BY <1>0
  <1>10. /\ t = "build" => In({"build"})' /\ ~In({"load"})'
         /\ t = "enrich" => In({"enrich"})' /\ ~In({"load"})' /\ ~In({"build"})'
         /\ t \notin {"enrich", "build"} => ~In({"load"})' /\ ~In({"build"})'
         /\ ~In({"lookup"})' /\ \A steps : ~In(steps)
    BY <1>2, <1>3, <1>4, <1>6 DEF In
  <1>11. FileIsCurrent'
    BY <1>3, <1>9, <1>10 DEF GuideInv, FileIsCurrent, Coming, Wanted
  <1>12. HealthIsTrue'
    BY <1>3, <1>10 DEF GuideInv, HealthIsTrue
  <1>13. SeenOrAsked'
    BY <1>10 DEF SeenOrAsked
  <1>14. MatchesAreIn'
    <2> SUFFICES ASSUME NEW g \in Mapped, Bare(g), lookups[TitlesOf[g]] = "match"
                 PROVE  Enriching(g)' \/ GivenUp'
      BY <1>3 DEF MatchesAreIn, Mapped, Bare
    <2>1. Enriching(g) \/ GivenUp
      BY DEF GuideInv, MatchesAreIn
    <2>2. "enrich" \in asked \/ GivenUp
      BY <1>10, <2>1 DEF Enriching
    <2>3. CASE "enrich" \in asked
      BY <1>9, <1>10, <2>3 DEF Enriching
    <2>4. CASE "enrich" \notin asked /\ GivenUp
      BY <1>3, <1>6, <1>9, <1>10, <2>4 DEF GivenUp
    <2> QED  BY <2>2, <2>3, <2>4
  <1> QED  BY <1>7, <1>8, <1>11, <1>12, <1>13, <1>14 DEF GuideInv

\* An import is the periodic task's, or was asked for with all that follows it.
LEMMA ImportersAsked ==
    ASSUME GuideInv, In({"import", "clear", "fill"})
    PROVE  /\ AtWork /\ TaskTypeOK
           /\ \/ task.name = "periodic"
              \/ task.name \in Guides /\ "enrich" \in asked /\ "build" \in asked /\ ~task.updated
           /\ ~In({"load"}) /\ ~In({"lookup"}) /\ ~In({"enrich"}) /\ ~In({"build"})
  <1>1. AtWork /\ TaskTypeOK
    BY DEF In, GuideInv, GuideTypeOK
  <1> QED  BY <1>1, WhoWorks, GuideNames DEF In, GuideInv, OrderKept, TaskTypeOK

LEMMA ImportBeginKept ==
    ASSUME GuideInv, NEW g \in Guides, ImportBegins(g)
    PROVE  GuideInv'
  <1> DEFINE left == task.left \ {g}
             now == published[g]
  <1>1. /\ AtWork /\ TaskTypeOK /\ task.step = "import"
        /\ UNCHANGED <<known, rows, health, lookups, xmltv, mapping, asked, behind>>
    BY DEF ImportBegins, taskOnly, tables, AtWork, GuideInv, GuideTypeOK
  <1>2. In({"import"}) /\ In({"import", "clear", "fill"}) /\ ~In({"clear", "fill"})
    BY <1>1 DEF In
  <1>3. task' = [task EXCEPT !.step = "clear", !.guide = g, !.left = left, !.version = now]
    BY <1>1 DEF ImportBegins, TaskTypeOK, TaskFields
  <1>4. /\ DOMAIN task' = TaskFields /\ task'.step = "clear" /\ task'.guide = g
        /\ task'.left = left /\ task'.name = task.name /\ task'.updated = task.updated
    BY <1>1, <1>3 DEF TaskTypeOK, TaskFields
  <1>5. AtWork'
    BY <1>4 DEF AtWork, Resting, TaskFields
  <1>6. task.name = "periodic" \/ (task.name \in Guides /\ "enrich" \in asked /\ "build" \in asked)
    BY <1>2, ImportersAsked
  <1>7. In({"clear", "fill"})' /\ ~In({"load"})' /\ ~In({"lookup"})' /\ ~In({"build"})'
    BY <1>4, <1>5 DEF In
  <1>8. task'.step \in StepsOf(task'.name)
    BY <1>4, <1>6, StepsAre
  <1>9. GuideTypeOK'
    <2>1. TaskTypeOK'
      BY <1>1, <1>4, <1>8 DEF TaskTypeOK
    <2> QED  BY <1>1, <2>1 DEF GuideInv, GuideTypeOK
  <1>10. OrderKept'
    BY <1>1, <1>4 DEF GuideInv, OrderKept
  <1>11. FileIsCurrent'
    BY <1>1, <1>4, <1>6, <1>7 DEF FileIsCurrent, Coming, In
  <1>12. HealthIsTrue'
    BY <1>1, <1>2 DEF GuideInv, HealthIsTrue
  <1>13. SeenOrAsked'
    BY <1>7 DEF SeenOrAsked
  <1>14. MatchesAreIn'
    BY <1>1, <1>4, <1>6, <1>7 DEF MatchesAreIn, Enriching
  <1> QED  BY <1>9, <1>10, <1>11, <1>12, <1>13, <1>14 DEF GuideInv

LEMMA ClearKept ==
    ASSUME GuideInv, ImportClears
    PROVE  GuideInv'
  <1>1. /\ AtWork /\ TaskTypeOK /\ task.step = "clear" /\ task.guide \in Guides
        /\ rows' = [rows EXCEPT ![task.guide] = Empty] /\ task' = [task EXCEPT !.step = "fill"]
        /\ UNCHANGED <<known, health, lookups, xmltv, mapping, asked, behind>>
    BY DEF ImportClears, taskOnly, AtWork, GuideInv, GuideTypeOK, TaskTypeOK
  <1>2. In({"import", "clear", "fill"})
    BY <1>1 DEF In
  <1>3. /\ DOMAIN task' = TaskFields /\ task'.step = "fill" /\ task'.guide = task.guide
        /\ task'.left = task.left /\ task'.name = task.name /\ task'.updated = task.updated
    BY <1>1 DEF TaskTypeOK, TaskFields
  <1>4. AtWork'
    BY <1>3 DEF AtWork, Resting, TaskFields
  <1>5. task.name = "periodic" \/ (task.name \in Guides /\ "enrich" \in asked /\ "build" \in asked)
    BY <1>2, ImportersAsked
  <1>6. In({"clear", "fill"})' /\ ~In({"load"})' /\ ~In({"lookup"})' /\ ~In({"build"})'
    BY <1>3, <1>4 DEF In
  <1>7. /\ DOMAIN rows' = Guides
        /\ \A h \in Guides : DOMAIN rows'[h] = {"channels", "version", "batches", "rich"}
        /\ \A h \in Guides : h # task.guide => rows'[h] = rows[h]
    BY <1>1, EmptyIs DEF GuideInv, GuideTypeOK
  <1>8. GuideTypeOK'
    <2>1. TaskTypeOK'
      BY <1>1, <1>3, <1>5, StepsAre DEF TaskTypeOK
    <2> QED  BY <1>1, <1>7, <2>1 DEF GuideInv, GuideTypeOK
  <1>9. OrderKept'
    BY <1>1, <1>3 DEF GuideInv, OrderKept
  <1>10. FileIsCurrent'
    BY <1>1, <1>3, <1>5, <1>6 DEF FileIsCurrent, Coming, In
  <1>11. HealthIsTrue'
    BY <1>1, <1>3, <1>6, <1>7 DEF GuideInv, GuideTypeOK, HealthIsTrue
  <1>12. SeenOrAsked'
    BY <1>6 DEF SeenOrAsked
  <1>13. MatchesAreIn'
    BY <1>1, <1>3, <1>5, <1>6 DEF MatchesAreIn, Enriching
  <1> QED  BY <1>8, <1>9, <1>10, <1>11, <1>12, <1>13 DEF GuideInv

LEMMA FillKept ==
    ASSUME GuideInv, ImportFills
    PROVE  GuideInv'
  <1>1. /\ AtWork /\ TaskTypeOK /\ task.step = "fill" /\ task.guide \in Guides
        /\ UNCHANGED <<known, health, lookups, xmltv, mapping, asked, task, behind>>
    BY DEF ImportFills, taskOnly, AtWork, GuideInv, GuideTypeOK, TaskTypeOK
  <1> DEFINE row == rows[task.guide]
             more == [row EXCEPT !.batches = @ + 1]
             begun == [[row EXCEPT !.channels = TRUE] EXCEPT !.version = task.version]
  <1>2. rows' = [rows EXCEPT ![task.guide] = more] \/ rows' = [rows EXCEPT ![task.guide] = begun]
    BY <1>1 DEF ImportFills, GuideInv, GuideTypeOK
  <1>3. DOMAIN more = DOMAIN row /\ DOMAIN begun = DOMAIN row
    OBVIOUS
  <1> HIDE DEF more, begun
  <1>4. /\ DOMAIN rows' = Guides
        /\ \A h \in Guides : DOMAIN rows'[h] = {"channels", "version", "batches", "rich"}
        /\ \A h \in Guides : h # task.guide => rows'[h] = rows[h]
    BY <1>1, <1>2, <1>3 DEF GuideInv, GuideTypeOK
  <1>5. In({"import", "clear", "fill"}) /\ In({"clear", "fill"})
    BY <1>1 DEF In
  <1>6. task.name = "periodic" \/ (task.name \in Guides /\ "enrich" \in asked /\ "build" \in asked)
    BY <1>5, ImportersAsked
  <1>7. \A steps : In(steps)' <=> In(steps)
    BY <1>1 DEF In, AtWork, Resting
  <1>8. ~In({"load"}) /\ ~In({"lookup"})
    BY <1>1 DEF In
  <1>9. GuideTypeOK'
    BY <1>1, <1>4 DEF GuideInv, GuideTypeOK, TaskTypeOK, AtWork, Resting
  <1>10. OrderKept'
    BY <1>1 DEF GuideInv, OrderKept, AtWork, Resting
  <1>11. FileIsCurrent'
    <2>1. Coming'
      BY <1>1, <1>6 DEF Coming, In, AtWork, Resting
    <2> QED  BY <1>7, <1>8, <2>1 DEF FileIsCurrent
  <1>12. HealthIsTrue'
    BY <1>1, <1>4, <1>5, <1>7 DEF GuideInv, GuideTypeOK, HealthIsTrue
  <1>13. SeenOrAsked'
    BY <1>7, <1>8 DEF SeenOrAsked
  <1>14. MatchesAreIn'
    BY <1>1, <1>5, <1>6, <1>7 DEF MatchesAreIn, Enriching
  <1> QED  BY <1>9, <1>10, <1>11, <1>12, <1>13, <1>14 DEF GuideInv

LEMMA SucceedKept ==
    ASSUME GuideInv, ImportSucceeds
    PROVE  GuideInv'
  <1> DEFINE good == [last |-> "ok", succeeded |-> TRUE]
  <1>1. /\ AtWork /\ TaskTypeOK /\ task.step = "fill" /\ task.guide \in Guides
        /\ rows[task.guide].batches = Batches
        /\ health' = [health EXCEPT ![task.guide] = good]
        /\ task' = IF task.name = "periodic" THEN [task EXCEPT !.step = "import", !.updated = TRUE]
                   ELSE Resting
        /\ UNCHANGED <<known, rows, lookups, xmltv, mapping, asked, behind>>
    BY DEF ImportSucceeds, taskOnly, AtWork, GuideInv, GuideTypeOK, TaskTypeOK
  <1>2. /\ DOMAIN good = {"last", "succeeded"}
    OBVIOUS
  <1> HIDE DEF good
  <1>3. In({"import", "clear", "fill"}) /\ In({"clear", "fill"})
    BY <1>1 DEF In
  <1>4. /\ DOMAIN health' = Guides
        /\ \A h \in Guides : DOMAIN health'[h] = {"last", "succeeded"}
        /\ \A h \in Guides : h # task.guide => health'[h] = health[h]
    BY <1>1, <1>2 DEF GuideInv, GuideTypeOK
  <1>5. CASE task.name = "periodic"
    <2>1. /\ DOMAIN task' = TaskFields /\ task'.step = "import" /\ task'.updated = TRUE
          /\ task'.left = task.left /\ task'.name = "periodic"
      BY <1>1, <1>5 DEF TaskTypeOK, TaskFields
    <2>2. AtWork'
      BY <2>1 DEF AtWork, Resting, TaskFields
    <2>3. In({"import"})' /\ ~In({"load"})' /\ ~In({"lookup"})' /\ ~In({"clear", "fill"})'
      BY <2>1, <2>2 DEF In
    <2>4. TaskTypeOK'
      BY <1>1, <2>1, StepsAre DEF TaskTypeOK, Chores
    <2>5. OrderKept'
      BY <1>1, <1>5, <2>1 DEF GuideInv, OrderKept
    <2>6. FileIsCurrent' /\ MatchesAreIn' /\ SeenOrAsked'
      BY <2>1, <2>3 DEF FileIsCurrent, Coming, MatchesAreIn, Enriching, SeenOrAsked
    <2>7. GuideTypeOK'
      BY <1>1, <1>4, <2>4 DEF GuideInv, GuideTypeOK
    <2>8. HealthIsTrue'
      BY <1>1, <1>4 DEF GuideInv, GuideTypeOK, HealthIsTrue
    <2> QED  BY <2>5, <2>6, <2>7, <2>8 DEF GuideInv
  <1>6. CASE task.name # "periodic"
    <2>1. "enrich" \in asked /\ "build" \in asked
      BY <1>3, <1>6, ImportersAsked
    <2>2. ~AtWork' /\ \A steps : ~In(steps)'
      BY <1>1, <1>6 DEF AtWork, In
    <2>3. OrderKept' /\ FileIsCurrent' /\ MatchesAreIn' /\ SeenOrAsked'
      BY <1>1, <2>1, <2>2 DEF OrderKept, FileIsCurrent, Coming, MatchesAreIn, Enriching, SeenOrAsked
    <2>4. GuideTypeOK'
      BY <1>1, <1>4, <2>2 DEF GuideInv, GuideTypeOK
    <2>5. HealthIsTrue'
      BY <1>1, <1>4 DEF GuideInv, GuideTypeOK, HealthIsTrue
    <2> QED  BY <2>3, <2>4, <2>5 DEF GuideInv
  <1> QED  BY <1>5, <1>6

LEMMA ImportFailKept ==
    ASSUME GuideInv, GuideImportFails
    PROVE  GuideInv'
  <1>1. /\ AtWork /\ TaskTypeOK /\ task.step \in {"clear", "fill"} /\ task.guide \in Guides
        /\ behind' = IF task.name = "periodic" THEN behind \union {"xmltv"} ELSE behind
        /\ health' = [health EXCEPT ![task.guide].last = "error"]
        /\ task' = GoesOn("import")
        /\ UNCHANGED <<known, rows, lookups, xmltv, mapping, asked>>
    BY DEF GuideImportFails, taskOnly, AtWork, GuideInv, GuideTypeOK, TaskTypeOK
  <1>3. In({"import", "clear", "fill"}) /\ In({"clear", "fill"})
    BY <1>1 DEF In
  <1>4. /\ DOMAIN health' = Guides
        /\ \A h \in Guides : DOMAIN health'[h] = {"last", "succeeded"}
        /\ \A h \in Guides : h # task.guide => health'[h] = health[h]
        /\ health'[task.guide].last = "error"
    BY <1>1 DEF GuideInv, GuideTypeOK
  <1>5. HealthIsTrue'
    BY <1>1, <1>4 DEF GuideInv, GuideTypeOK, HealthIsTrue
  <1>6. CASE task.name = "periodic"
    <2>1. /\ DOMAIN task' = TaskFields /\ task'.step = "import" /\ task'.updated = task.updated
          /\ task'.left = task.left /\ task'.name = "periodic"
      BY <1>1, <1>6 DEF TaskTypeOK, TaskFields, GoesOn
    <2>2. AtWork'
      BY <2>1 DEF AtWork, Resting, TaskFields
    <2>3. ~In({"build"})' /\ ~In({"load"})' /\ ~In({"lookup"})'
      BY <2>1, <2>2 DEF In
    <2>4. TaskTypeOK'
      BY <1>1, <2>1, StepsAre DEF TaskTypeOK, Chores
    <2>5. OrderKept' /\ ("build" \in asked => "enrich" \in asked)
      BY <1>1, <1>6, <2>1 DEF GuideInv, OrderKept
    <2>6. FileIsCurrent' /\ MatchesAreIn' /\ SeenOrAsked'
      BY <1>1, <1>6, <2>3, <2>5
         DEF FileIsCurrent, Coming, MatchesAreIn, Enriching, GivenUp, SeenOrAsked
    <2>7. GuideTypeOK'
      BY <1>1, <1>4, <2>4 DEF GuideInv, GuideTypeOK
    <2> QED  BY <1>5, <2>5, <2>6, <2>7 DEF GuideInv
  <1>7. CASE task.name # "periodic"
    <2>1. "enrich" \in asked /\ "build" \in asked
      BY <1>3, <1>7, ImportersAsked
    <2>2. ~AtWork' /\ \A steps : ~In(steps)'
      BY <1>1, <1>7 DEF AtWork, In, GoesOn
    <2>3. OrderKept' /\ FileIsCurrent' /\ MatchesAreIn' /\ SeenOrAsked'
      BY <1>1, <2>1, <2>2 DEF OrderKept, FileIsCurrent, Coming, MatchesAreIn, Enriching, SeenOrAsked
    <2>4. GuideTypeOK'
      BY <1>1, <1>4, <2>2 DEF GuideInv, GuideTypeOK
    <2> QED  BY <1>5, <2>3, <2>4 DEF GuideInv
  <1> QED  BY <1>6, <1>7

LEMMA ImportsEndKept ==
    ASSUME GuideInv, ImportsEnd
    PROVE  GuideInv'
  <1>1. /\ AtWork /\ TaskTypeOK /\ task.step = "import"
        /\ task' = IF task.updated THEN [task EXCEPT !.step = "enrich"] ELSE Resting
        /\ UNCHANGED <<known, rows, health, lookups, xmltv, mapping, asked, behind>>
    BY DEF ImportsEnd, taskOnly, tables, AtWork, GuideInv, GuideTypeOK
  <1>2. /\ ~In({"load"}) /\ ~In({"lookup"}) /\ ~In({"build"}) /\ ~In({"enrich"})
        /\ ~In({"clear", "fill"}) /\ ~In({"clear", "fill", "enrich", "lookup"})
    BY <1>1 DEF In
  <1>3. HealthIsTrue'
    BY <1>1, <1>2 DEF GuideInv, HealthIsTrue
  <1>4. CASE task.updated
    <2>1. /\ DOMAIN task' = TaskFields /\ task'.step = "enrich" /\ task'.updated = task.updated
          /\ task'.left = task.left /\ task'.name = "periodic" /\ task.name = "periodic"
      BY <1>1, <1>4 DEF TaskTypeOK, TaskFields
    <2>2. AtWork'
      BY <2>1 DEF AtWork, Resting, TaskFields
    <2>3. /\ In({"enrich"})' /\ In({"clear", "fill", "enrich", "lookup"})'
          /\ ~In({"load"})' /\ ~In({"lookup"})'
      BY <2>1, <2>2 DEF In
    <2>4. TaskTypeOK'
      BY <1>1, <2>1, StepsAre DEF TaskTypeOK, Chores
    <2>5. OrderKept'
      BY <1>1, <2>1 DEF GuideInv, OrderKept
    <2>6. FileIsCurrent' /\ MatchesAreIn' /\ SeenOrAsked'
      BY <2>1, <2>3 DEF FileIsCurrent, Coming, MatchesAreIn, Enriching, SeenOrAsked
    <2>7. GuideTypeOK'
      BY <1>1, <2>4 DEF GuideInv, GuideTypeOK
    <2> QED  BY <1>3, <2>5, <2>6, <2>7 DEF GuideInv
  <1>5. CASE ~task.updated
    <2>1. ~AtWork' /\ \A steps : ~In(steps)'
      BY <1>1, <1>5 DEF AtWork, In
    <2>2. OrderKept' /\ SeenOrAsked'
      BY <1>1, <2>1 DEF GuideInv, OrderKept, SeenOrAsked
    <2>3. FileIsCurrent'
      BY <1>1, <1>2, <1>5, <2>1 DEF GuideInv, FileIsCurrent, Coming, Wanted
    <2>4. MatchesAreIn'
      BY <1>1, <1>2, <1>5, <2>1 DEF GuideInv, MatchesAreIn, Enriching, GivenUp, Mapped, Bare
    <2>5. GuideTypeOK'
      BY <1>1, <2>1 DEF GuideInv, GuideTypeOK
    <2> QED  BY <1>3, <2>2, <2>3, <2>4, <2>5 DEF GuideInv
  <1> QED  BY <1>4, <1>5

LEMMA EnrichReadKept ==
    ASSUME GuideInv, EnrichReads
    PROVE  GuideInv'
  <1> DEFINE seen == {g \in Mapped : rows[g].batches > 0 /\ ~rows[g].rich}
  <1>1. /\ AtWork /\ TaskTypeOK /\ task.step = "enrich"
        /\ task' = [task EXCEPT !.step = "lookup", !.seen = seen]
        /\ UNCHANGED <<known, rows, health, lookups, xmltv, mapping, asked, behind>>
    BY DEF EnrichReads, taskOnly, tables, AtWork, GuideInv, GuideTypeOK
  <1>2. \A g \in Mapped : Bare(g) => g \in seen
    BY DEF Bare
  <1> HIDE DEF seen
  <1>3. /\ DOMAIN task' = TaskFields /\ task'.step = "lookup" /\ task'.updated = task.updated
        /\ task'.left = task.left /\ task'.name = task.name /\ task'.seen = seen
    BY <1>1 DEF TaskTypeOK, TaskFields
  <1>4. AtWork'
    BY <1>3 DEF AtWork, Resting, TaskFields
  <1>5. /\ In({"lookup"})' /\ In({"clear", "fill", "enrich", "lookup"})'
        /\ ~In({"load"})' /\ ~In({"clear", "fill"})
    BY <1>1, <1>3, <1>4 DEF In
  <1>6. task.name = "periodic" \/ (task.name = "enrich" /\ "build" \in asked)
    BY <1>1, WhoWorks DEF GuideInv, OrderKept
  <1>7. GuideTypeOK'
    <2>1. TaskTypeOK'
      BY <1>1, <1>3, <1>6, StepsAre DEF TaskTypeOK
    <2> QED  BY <1>1, <2>1 DEF GuideInv, GuideTypeOK
  <1>8. OrderKept'
    BY <1>1, <1>3 DEF GuideInv, OrderKept
  <1>9. FileIsCurrent'
    BY <1>1, <1>3, <1>5, <1>6 DEF FileIsCurrent, Coming
  <1>10. HealthIsTrue'
    BY <1>1, <1>5 DEF GuideInv, HealthIsTrue
  <1>11. SeenOrAsked' /\ MatchesAreIn'
    BY <1>1, <1>2, <1>3, <1>5 DEF SeenOrAsked, MatchesAreIn, Enriching, Mapped, Bare
  <1> QED  BY <1>7, <1>8, <1>9, <1>10, <1>11 DEF GuideInv

\* The end of an enrichment's step, by which the task rests or goes on to build.
LEMMA GoneOnToBuild ==
    ASSUME AtWork, TaskTypeOK, OrderKept, task.step = "lookup", task' = GoesOn("build"),
           UNCHANGED asked
    PROVE  /\ AtWork' => TaskTypeOK' /\ In({"build"})' /\ task'.name = task.name
           /\ AtWork' \/ "build" \in asked
           /\ ~In({"load"})' /\ ~In({"lookup"})' /\ ~In({"clear", "fill"})'
  <1>1. CASE task.name = "periodic"
    <2>1. /\ DOMAIN task' = TaskFields /\ task'.step = "build" /\ task'.updated = task.updated
          /\ task'.left = task.left /\ task'.name = "periodic"
      BY <1>1 DEF TaskTypeOK, TaskFields, GoesOn
    <2>2. AtWork'
      BY <2>1 DEF AtWork, Resting, TaskFields
    <2>3. TaskTypeOK'
      BY <1>1, <2>1, StepsAre DEF TaskTypeOK, Chores
    <2> QED  BY <1>1, <2>1, <2>2, <2>3 DEF In
  <1>2. CASE task.name # "periodic"
    BY <1>2, WhoWorks DEF GoesOn, AtWork, In, OrderKept
  <1> QED  BY <1>1, <1>2

LEMMA EnrichSaveKept ==
    ASSUME GuideInv, EnrichSaves
    PROVE  GuideInv'
  <1>1. /\ AtWork /\ TaskTypeOK /\ task.step = "lookup" /\ task' = GoesOn("build")
        /\ behind' = behind \ {"lookups"}
        /\ UNCHANGED <<known, health, xmltv, mapping, asked>>
    BY DEF EnrichSaves, taskOnly, AtWork, GuideInv, GuideTypeOK
  <1>2. /\ AtWork' => TaskTypeOK' /\ In({"build"})' /\ task'.name = task.name
        /\ AtWork' \/ "build" \in asked
        /\ ~In({"load"})' /\ ~In({"lookup"})' /\ ~In({"clear", "fill"})'
    BY <1>1, GoneOnToBuild DEF GuideInv
  <1>3. /\ DOMAIN lookups' = Titles
        /\ rows' = [g \in Guides |-> IF g \in task.seen /\ lookups'[TitlesOf[g]] = "match"
                                         /\ rows[g].batches > 0
                                     THEN [rows[g] EXCEPT !.rich = TRUE] ELSE rows[g]]
    BY DEF EnrichSaves
  <1>4. /\ DOMAIN rows' = Guides
        /\ \A g \in Guides : /\ DOMAIN rows'[g] = {"channels", "version", "batches", "rich"}
                             /\ rows'[g].batches = rows[g].batches
                             /\ rows[g].rich => rows'[g].rich
    BY <1>3 DEF GuideInv, GuideTypeOK
  <1>5. \A g \in Guides : g \in task.seen /\ lookups'[TitlesOf[g]] = "match" /\ rows[g].batches > 0
                             => rows'[g].rich
    BY <1>3 DEF GuideInv, GuideTypeOK
  <1>6. In({"lookup"}) /\ ~In({"clear", "fill"})
    BY <1>1 DEF In
  <1>7. GuideTypeOK'
    BY <1>1, <1>2, <1>3, <1>4 DEF GuideInv, GuideTypeOK
  <1>8. OrderKept'
    BY <1>1, <1>2 DEF GuideInv, OrderKept
  <1>9. FileIsCurrent'
    BY <1>1, <1>2 DEF FileIsCurrent, Coming
  <1>10. HealthIsTrue'
    BY <1>1, <1>4, <1>6 DEF GuideInv, GuideTypeOK, HealthIsTrue
  <1>11. SeenOrAsked'
    BY <1>2 DEF SeenOrAsked
  <1>12. MatchesAreIn'
    <2> SUFFICES ASSUME NEW g \in Mapped, Bare(g)', lookups'[TitlesOf[g]] = "match"
                 PROVE  "enrich" \in asked
      BY <1>1 DEF MatchesAreIn, Mapped, Enriching
    <2>1. g \in Guides
      BY MappedAreKnown DEF GuideInv
    <2>2. Bare(g) /\ ~rows'[g].rich
      BY <1>4, <2>1 DEF Bare
    <2>3. g \notin task.seen
      BY <1>5, <2>1, <2>2 DEF Bare
    <2> QED  BY <1>6, <2>2, <2>3 DEF GuideInv, SeenOrAsked
  <1> QED  BY <1>7, <1>8, <1>9, <1>10, <1>11, <1>12 DEF GuideInv

\* A task that ends and leaves the rows as they are.
LEMMA EndKept ==
    ASSUME GuideInv, AtWork, ~In({"clear", "fill"}), task' = Resting,
           UNCHANGED <<known, rows, health, lookups, mapping, asked>>,
           FileIsCurrent', MatchesAreIn'
    PROVE  GuideInv'
  <1>1. ~AtWork' /\ \A steps : ~In(steps)'
    BY DEF AtWork, In
  <1>2. GuideTypeOK'
    BY <1>1 DEF GuideInv, GuideTypeOK
  <1>3. OrderKept' /\ SeenOrAsked' /\ HealthIsTrue'
    BY <1>1 DEF GuideInv, OrderKept, SeenOrAsked, HealthIsTrue
  <1> QED  BY <1>2, <1>3 DEF GuideInv

LEMMA EnrichFailKept ==
    ASSUME GuideInv, EnrichFails
    PROVE  GuideInv'
  <1>1. /\ AtWork /\ TaskTypeOK /\ task.step = "lookup" /\ task' = Resting
        /\ "lookups" \in behind' /\ (task.name = "periodic" => "xmltv" \in behind')
        /\ UNCHANGED <<known, rows, health, lookups, xmltv, mapping, asked>>
    BY DEF EnrichFails, taskOnly, tables, AtWork, GuideInv, GuideTypeOK
  <1>2. ~In({"clear", "fill"}) /\ ~In({"load"})'
    BY <1>1 DEF In, AtWork
  <1>3. FileIsCurrent'
    BY <1>1, <1>2, WhoWorks DEF GuideInv, OrderKept, FileIsCurrent, Coming
  <1>4. MatchesAreIn'
    BY <1>1 DEF MatchesAreIn, GivenUp
  <1> QED  BY <1>1, <1>2, <1>3, <1>4, EndKept

LEMMA BuildReadKept ==
    ASSUME GuideInv, BuildReads
    PROVE  GuideInv'
  <1>1. /\ AtWork /\ TaskTypeOK /\ task.step = "build"
        /\ task' = [task EXCEPT !.step = "load", !.plan = mapping]
        /\ behind' = behind \ {"xmltv"}
        /\ UNCHANGED <<known, rows, health, lookups, xmltv, mapping, asked>>
    BY DEF BuildReads, taskOnly, tables, AtWork, GuideInv, GuideTypeOK
  <1>2. /\ DOMAIN task' = TaskFields /\ task'.step = "load" /\ task'.updated = task.updated
        /\ task'.left = task.left /\ task'.name = task.name /\ task'.plan = mapping
    BY <1>1 DEF TaskTypeOK, TaskFields
  <1>3. AtWork'
    BY <1>2 DEF AtWork, Resting, TaskFields
  <1>4. /\ In({"load"})' /\ ~In({"lookup"})' /\ ~In({"clear", "fill"}) /\ In({"build"})
        /\ ~In({"enrich"}) /\ ~In({"lookup"}) /\ ~In({"import"})
    BY <1>1, <1>2, <1>3 DEF In
  <1>5. GuideTypeOK'
    <2>1. TaskTypeOK'
      BY <1>1, <1>2, WhoWorks, StepsAre DEF TaskTypeOK
    <2> QED  BY <1>1, <2>1 DEF GuideInv, GuideTypeOK
  <1>6. OrderKept'
    BY <1>1, <1>2 DEF GuideInv, OrderKept
  <1>7. FileIsCurrent'
    BY <1>1, <1>2, <1>4 DEF FileIsCurrent
  <1>8. HealthIsTrue'
    BY <1>1, <1>4 DEF GuideInv, HealthIsTrue
  <1>9. SeenOrAsked'
    BY <1>4 DEF SeenOrAsked
  <1>10. MatchesAreIn'
    BY <1>1, <1>4 DEF GuideInv, MatchesAreIn, Enriching, GivenUp, Mapped, Bare
  <1> QED  BY <1>5, <1>6, <1>7, <1>8, <1>9, <1>10 DEF GuideInv

LEMMA BuildEndKept ==
    ASSUME GuideInv, BuildWrites \/ BuildFails
    PROVE  GuideInv'
  <1>1. /\ AtWork /\ task.step = "load" /\ task' = Resting
        /\ behind \subseteq behind'
        /\ UNCHANGED <<known, rows, health, lookups, mapping, asked>>
    BY DEF BuildWrites, BuildFails, taskOnly, tables, AtWork
  <1>2. /\ In({"load"}) /\ ~In({"clear", "fill"}) /\ ~In({"enrich"}) /\ ~In({"lookup"})
        /\ ~In({"import"}) /\ ~In({"build"}) /\ \A steps : ~In(steps)'
    BY <1>1 DEF In, AtWork
  <1>3. FileIsCurrent'
    <2>1. CASE "xmltv" \in behind' \/ "build" \in asked
      BY <1>1, <1>2, <2>1 DEF FileIsCurrent, Coming
    <2>2. CASE ~("xmltv" \in behind' \/ "build" \in asked)
      <3>1. \A c \in GuideChannels : task.plan[c] = mapping[c]
        BY <1>1, <1>2, <2>2 DEF GuideInv, FileIsCurrent
      <3>2. xmltv' = [c \in GuideChannels |-> IF task.plan[c] = NoGuide THEN Empty ELSE rows[task.plan[c]]]
        BY <2>2 DEF BuildWrites, BuildFails
      <3> QED  BY <1>1, <1>2, <3>1, <3>2 DEF FileIsCurrent, Wanted
    <2> QED  BY <2>1, <2>2
  <1>4. MatchesAreIn'
    BY <1>1, <1>2 DEF GuideInv, MatchesAreIn, Enriching, GivenUp, Mapped, Bare
  <1> QED  BY <1>1, <1>2, <1>3, <1>4, EndKept

LEMMA GuideInvHolds == GuideSpec => []GuideInv
  <1>1. GuideInit => GuideInv
    <2> SUFFICES ASSUME GuideInit
                 PROVE  GuideInv
      OBVIOUS
    <2>1. ~AtWork /\ \A steps : ~In(steps)
      BY DEF GuideInit, AtWork, In
    <2>2. /\ DOMAIN Unheard = {"last", "succeeded"} /\ Unheard.last = "none"
      BY DEF Unheard
    <2>3. GuideTypeOK
      BY <2>1, <2>2, EmptyIs DEF GuideInit, GuideTypeOK
    <2>4. OrderKept /\ SeenOrAsked
      BY <2>1 DEF GuideInit, OrderKept, SeenOrAsked
    <2>5. HealthIsTrue
      BY <2>2 DEF GuideInit, HealthIsTrue
    <2>6. FileIsCurrent
      BY <2>1 DEF GuideInit, FileIsCurrent, Wanted
    <2>7. MatchesAreIn
      BY <2>3, MappedAreKnown, EmptyIs DEF GuideInit, MatchesAreIn, Bare
    <2> QED  BY <2>3, <2>4, <2>5, <2>6, <2>7 DEF GuideInv
  <1>2. GuideInv /\ [GuideNext]_guideVars => GuideInv'
    <2> SUFFICES ASSUME GuideInv, [GuideNext]_guideVars
                 PROVE  GuideInv'
      OBVIOUS
    <2>1. CASE \/ UNCHANGED guideVars \/ PeriodicGuides
               \/ \E g \in Guides : Publishes(g) \/ UpdateGuide(g) \/ DeleteCleans(g)
               \/ \E t \in Titles : LookupExpires(t)
      BY <2>1, AskingKept DEF guideVars, tables, PeriodicGuides, Publishes, UpdateGuide,
         DeleteCleans, LookupExpires
    <2>2. ASSUME NEW g \in Guides, DeleteGuide(g) \/ ImportBegins(g)
          PROVE  GuideInv'
      BY <2>2, DeleteKept, ImportBeginKept
    <2>3. ASSUME NEW c \in GuideChannels, NEW g \in Guides \union {NoGuide}, MapChannel(c, g)
          PROVE  GuideInv'
      BY <2>3, MapKept
    <2>4. CASE \/ TaskBegins \/ ImportClears \/ ImportFills \/ ImportSucceeds
               \/ GuideImportFails \/ ImportsEnd
      BY <2>4, BeginKept, ClearKept, FillKept, SucceedKept, ImportFailKept, ImportsEndKept
    <2>5. CASE \/ EnrichReads \/ EnrichSaves \/ EnrichFails
               \/ BuildReads \/ BuildWrites \/ BuildFails
      BY <2>5, EnrichReadKept, EnrichSaveKept, EnrichFailKept, BuildReadKept, BuildEndKept
    <2> QED  BY <2>1, <2>2, <2>3, <2>4, <2>5 DEF GuideNext
  <1> QED  BY <1>1, <1>2, PTL DEF GuideSpec

\* Whatever users map and delete while imports, enrichments and builds run and
\* fail, for any guides, channels and batches: when nothing is queued or running
\* the file is what the tables say, whole and with the metadata that are known,
\* unless what was to bring it about failed or a guide was deleted.
THEOREM GuideIsBuilt == GuideSpec => []GuideMatches
  <1>1. GuideInv => GuideMatches
    <2> SUFFICES ASSUME GuideInv, task = Resting, asked = {}, behind = {}, NEW c \in GuideChannels
                 PROVE  LET g == mapping[c]
                        IN  IF g = NoGuide THEN xmltv[c] = Empty
                            ELSE /\ xmltv[c] = rows[g]
                                 /\ health[g].last = "ok" /\ g \notin deleting => xmltv[c].batches = Batches
                                 /\ lookups[TitlesOf[g]] = "match" /\ xmltv[c].batches > 0 => xmltv[c].rich
      BY DEF GuideMatches
    <2>1. ~AtWork /\ \A steps : ~In(steps)
      BY DEF AtWork, In
    <2>2. xmltv[c] = Wanted(c)
      BY <2>1 DEF GuideInv, FileIsCurrent, Coming
    <2>3. CASE mapping[c] = NoGuide
      BY <2>2, <2>3 DEF Wanted
    <2>4. CASE mapping[c] # NoGuide
      <3>1. mapping[c] \in known /\ mapping[c] \in Mapped
        BY <2>4 DEF GuideInv, GuideTypeOK, Mapped
      <3>2. xmltv[c] = rows[mapping[c]]
        BY <2>2, <2>4 DEF Wanted
      <3>3. health[mapping[c]].last = "ok" => rows[mapping[c]].batches = Batches
        BY <2>1, <3>1 DEF GuideInv, HealthIsTrue
      <3>4. ~Enriching(mapping[c]) /\ ~GivenUp
        BY <2>1 DEF Enriching, GivenUp
      <3>5. Bare(mapping[c]) => lookups[TitlesOf[mapping[c]]] # "match"
        BY <3>1, <3>4 DEF GuideInv, MatchesAreIn
      <3> QED  BY <2>4, <3>2, <3>3, <3>5 DEF Bare
    <2> QED  BY <2>3, <2>4
  <1> QED  BY <1>1, GuideInvHolds, PTL

-----------------------------------------------------------------------------
(* The tuners kept in Plex (PlexTuners).                                      *)

OnTarget == {"dvr", "lookDvrs", "enable", "attach", "map"}
Working == OnTarget \union {"look", "create", "lookAgain", "replace"}
Ending == {"sweep", "refresh", "done"}
DeviceFields == {"key", "model", "uri", "on", "dvr", "mapped"}
PassFields == {"step", "want", "todo", "uri", "clean", "calm", "tuner", "channels", "seen",
               "target", "stale", "replaced"}

DeviceOK(d) == DOMAIN d = DeviceFields /\ d.key \in Nat /\ d.key <= made /\ d.model \in Tuners \union {Foreign.model}
DevicesOK ==
  /\ made \in Nat /\ \A d \in devices : DeviceOK(d)
  /\ \A d, e \in devices : d.key = e.key => d = e

PassOK(r) ==
  /\ DOMAIN r = PassFields /\ r.step \in Working \union Ending \union {"next", "aborted"}
  /\ r.clean \in BOOLEAN /\ r.calm \in BOOLEAN
  /\ r.step \in Working \union {"next"} => r.todo \subseteq Tuners
  /\ r.step \in Working => r.tuner \in Tuners
PassesOK ==
  /\ pass = [p \in Passes |-> pass[p]]
  /\ \A p \in Passes : pass[p] = NoPass \/ PassOK(pass[p])

PlexTypeOK == DevicesOK /\ PassesOK /\ playlists \subseteq Sources /\ plexFails \in Nat

\* A calm pass is the only one.
CalmAlone ==
  \A p, q \in Passes : pass[p] # NoPass /\ pass[p].calm => p = q \/ pass[q] = NoPass

Served(t, u) ==
  tunerLineup[t] # 0 =>
     \E d \in devices : /\ d.model = t /\ d.on /\ d.dvr # Detached /\ d.mapped = tunerLineup[t]
                        /\ plexFails = 0 => d.uri = u

\* The tuner a pass works on is there, as it was read or as the pass has put it
\* since, and the DVRs it read are some tuner's.
TargetIs(r, d) ==
  /\ d.key = r.target.key /\ d.model = r.tuner /\ d.mapped = r.target.mapped
  /\ plexFails = 0 => d.uri = r.uri
  /\ r.target.on \/ r.step \in {"attach", "map"} => d.on
  /\ IF r.step = "map" THEN d.dvr # Detached
     ELSE r.target.dvr # Detached => d.dvr = r.target.dvr
TargetHolds(r) ==
  /\ \A v \in Dvrs(r.seen) : v # Detached
  /\ r.step = "dvr" /\ r.target.dvr # Detached => r.target.dvr \in Dvrs(r.seen)
  /\ \E d \in devices : TargetIs(r, d)

\* What is known in a calm pass: the tuners it is done with are served, and ...
SourcesServed(r) ==
  /\ r.step \in Working \union {"next"} /\ r.clean =>
        \A t \in r.want \ r.todo : Served(t, r.uri) \/ (r.step \in Working /\ t = r.tuner)
  /\ r.step \in Ending /\ r.clean => \A t \in r.want : Served(t, r.uri)
WorkHolds(r) ==
  /\ r.step \in Working => r.channels = tunerLineup[r.tuner]
  /\ r.step \in {"create", "lookAgain", "replace"} =>
        r.stale = NoDevice \/ \A d \in devices : d.key = r.stale.key => d.model = r.tuner
  /\ r.step = "replace" => r.stale # NoDevice
  /\ r.step = "lookAgain" /\ plexFails = 0 => \E d \in devices : d.uri = r.uri /\ d.model = r.tuner
  /\ r.step \in OnTarget => TargetHolds(r)
SweepHolds(r) ==
  /\ r.step \in {"sweep", "refresh"} =>
        \A d \in r.todo : d.model \notin r.want /\ \A e \in devices : e.key = d.key => e.model = d.model
  /\ r.step \in Ending /\ r.clean =>
        \A d \in Unwanted(r) : r.step # "done" /\ d \in r.todo
CalmHolds(r) == SourcesServed(r) /\ WorkHolds(r) /\ SweepHolds(r)

TunersInv ==
  /\ PlexTypeOK /\ CalmAlone
  /\ \A p \in Passes : pass[p] # NoPass /\ pass[p].calm => CalmHolds(pass[p])

LEMMA PlexInitially == PlexInit => TunersInv
  <1> SUFFICES ASSUME PlexInit  PROVE TunersInv
    OBVIOUS
  <1>1. \A p \in Passes : pass[p] = NoPass
    BY DEF PlexInit
  <1>2. \A d \in devices : d = Foreign
    BY DEF PlexInit
  <1>3. DevicesOK
    <2>1. Foreign.key = 0 /\ DOMAIN Foreign = DeviceFields
      BY DEF Foreign, DeviceFields
    <2> QED  BY <1>2, <2>1 DEF PlexInit, DevicesOK, DeviceOK
  <1>4. PlexTypeOK
    BY <1>1, <1>3 DEF PlexInit, PlexTypeOK, PassesOK
  <1> QED  BY <1>1, <1>4 DEF TunersInv, CalmAlone

\* A step of one pass leaves it as calm as it was; it has to see to its own.
LEMMA PassGoesOn ==
  ASSUME TunersInv, NEW p \in Passes, pass[p] # NoPass, NEW r, pass' = [pass EXCEPT ![p] = r],
         DevicesOK', plexFails' \in Nat, playlists' = playlists,
         PassOK(r), r.calm = pass[p].calm, r.calm => CalmHolds(r)'
  PROVE  TunersInv'
  <1>1. /\ pass'[p] = r /\ \A q \in Passes \ {p} : pass'[q] = pass[q]
        /\ pass' = [q \in Passes |-> pass'[q]]
    BY DEF TunersInv, PlexTypeOK, PassesOK
  <1>2. PlexTypeOK'
    BY <1>1 DEF TunersInv, PlexTypeOK, PassesOK, PassOK
  <1>3. CalmAlone'
    BY <1>1 DEF TunersInv, CalmAlone
  <1>4. ASSUME NEW q \in Passes, pass'[q] # NoPass, pass'[q].calm  PROVE q = p
    BY <1>1, <1>4 DEF TunersInv, CalmAlone
  <1>5. pass'[p].calm => CalmHolds(pass[p])'
    BY <1>1
  <1> QED  BY <1>2, <1>3, <1>4, <1>5 DEF TunersInv

\* What a pass that goes on looks like.
LEMMA PassTypes ==
  ASSUME TunersInv, NEW p \in Passes, pass[p].step # "idle"
  PROVE  /\ pass[p] # NoPass /\ PassOK(pass[p]) /\ DOMAIN pass = Passes
         /\ pass[p].calm => CalmHolds(pass[p])
         /\ DevicesOK /\ plexFails \in Nat
  BY DEF TunersInv, PlexTypeOK, PassesOK, NoPass

\* ... and while Plex is left alone.
LEMMA StepKeepsServed ==
  ASSUME NEW t, NEW u, Served(t, u), tunerLineup' = tunerLineup,
         plexFails \in Nat, plexFails' \in {plexFails, plexFails + 1},
         \A d \in devices : d.model = t => d \in devices'
  PROVE  Served(t, u)'
  <1>1. plexFails' = 0 => plexFails = 0
    OBVIOUS
  <1> HIDE DEF Served
  <1>2. CASE tunerLineup[t] # 0
    <2>1. PICK d \in devices : /\ d.model = t /\ d.on /\ d.dvr # Detached /\ d.mapped = tunerLineup[t]
                               /\ plexFails = 0 => d.uri = u
      BY <1>2 DEF Served
    <2> QED  BY <1>1, <2>1 DEF Served
  <1> QED  BY <1>2 DEF Served

\* A pass that begins, and what changes around it.
LEMMA DisturbedAre ==
  ASSUME TunersInv
  PROVE  /\ Disturbed = [p \in Passes |-> Disturbed[p]]
         /\ \A p \in Passes : /\ Disturbed[p] = NoPass \/ PassOK(Disturbed[p])
                              /\ Disturbed[p] = NoPass <=> pass[p] = NoPass
                              /\ Disturbed[p] # NoPass => ~Disturbed[p].calm
  <1> SUFFICES ASSUME NEW p \in Passes, pass[p] # NoPass
               PROVE  LET r == [pass[p] EXCEPT !.calm = FALSE] IN PassOK(r) /\ r # NoPass /\ ~r.calm
    BY DEF Disturbed
  <1>1. PassOK(pass[p])
    BY DEF TunersInv, PlexTypeOK, PassesOK
  <1> DEFINE r == [pass[p] EXCEPT !.calm = FALSE]
  <1>2. /\ DOMAIN r = PassFields /\ r.calm = FALSE /\ r.step = pass[p].step /\ r.clean = pass[p].clean
        /\ r.todo = pass[p].todo /\ r.tuner = pass[p].tuner
    BY <1>1 DEF PassOK, PassFields
  <1> HIDE DEF r
  <1>3. PassOK(r)
    BY <1>1, <1>2 DEF PassOK
  <1>4. r # NoPass
    BY <1>3 DEF PassOK, NoPass, Working, OnTarget, Ending
  <1> QED  BY <1>2, <1>3, <1>4 DEF r

LEMMA PassBeginsKept ==
  ASSUME TunersInv, NEW p \in Passes, PassBegins(p)  PROVE TunersInv'
  <1> PICK r : r = [step |-> "next", want |-> Desired, todo |-> Desired, uri |-> address,
                   clean |-> TRUE, calm |-> \A q \in Passes : pass[q] = NoPass,
                   tuner |-> Combined, channels |-> 0, seen |-> {}, target |-> NoDevice,
                   stale |-> NoDevice, replaced |-> FALSE]
    OBVIOUS
  <1>1. /\ pass' = [Disturbed EXCEPT ![p] = r] /\ pass[p] = NoPass
        /\ UNCHANGED <<playlists, devices, made, plexFails, tunerLineup>>
    BY DEF PassBegins, settingsVars
  <1>2. Desired \subseteq Tuners
    BY DEF Desired, Tuners, TunersInv, PlexTypeOK
  <1>3. r.calm \in BOOLEAN /\ (r.calm <=> \A q \in Passes : pass[q] = NoPass)
    OBVIOUS
  <1>4. /\ DOMAIN r = PassFields /\ r.step = "next" /\ r.clean = TRUE /\ r.todo = Desired /\ r.want = Desired
    BY DEF PassFields
  <1>5. PassOK(r) /\ r # NoPass
    <2>1. r # NoPass
      BY <1>4 DEF NoPass
    <2> QED  BY <1>2, <1>3, <1>4, <2>1 DEF PassOK, Working, OnTarget
  <1>6. CalmHolds(r)'
    BY <1>4 DEF CalmHolds, SourcesServed, WorkHolds, SweepHolds, Working, OnTarget, Ending
  <1>7. pass'[p] = r /\ \A q \in Passes \ {p} : pass'[q] = Disturbed[q]
    BY <1>1, DisturbedAre
  <1>8. pass' = [q \in Passes |-> pass'[q]]
    BY <1>1, DisturbedAre
  <1>9. PlexTypeOK'
    BY <1>1, <1>5, <1>7, <1>8, DisturbedAre
       DEF TunersInv, PlexTypeOK, PassesOK, DevicesOK, DeviceOK, PassOK
  <1>10. CalmAlone'
    BY <1>3, <1>7, DisturbedAre DEF CalmAlone
  <1>11. \A q \in Passes : pass'[q] # NoPass /\ pass'[q].calm => CalmHolds(pass[q])'
    BY <1>6, <1>7, DisturbedAre
  <1> QED  BY <1>9, <1>10, <1>11 DEF TunersInv

LEMMA WorldMoves ==
  ASSUME TunersInv, pass' = Disturbed, DevicesOK', plexFails' = plexFails, playlists' \subseteq Sources
  PROVE  TunersInv'
  <1>1. PlexTypeOK'
    BY DisturbedAre DEF TunersInv, PlexTypeOK, PassesOK, PassOK
  <1>2. CalmAlone' /\ \A q \in Passes : pass'[q] # NoPass /\ pass'[q].calm => CalmHolds(pass[q])'
    BY DisturbedAre DEF CalmAlone
  <1> QED  BY <1>1, <1>2 DEF TunersInv

\* Tuners of Plex are changed, each to one that is the same but for how it is
\* used; others go.
LEMMA DevicesChange ==
  ASSUME DevicesOK, made' = made,
         \A x \in devices' : \E d \in devices : DOMAIN x = DOMAIN d /\ x.key = d.key /\ x.model = d.model,
         \A x, y \in devices' : x.key = y.key => x = y
  PROVE  DevicesOK'
  BY DEF DevicesOK, DeviceOK

LEMMA OneChanges ==
  ASSUME DevicesOK, made' = made, NEW d \in devices, NEW e,
         devices' = devices \ {d} \/ devices' = (devices \ {d}) \union {e},
         DOMAIN e = DOMAIN d /\ e.key = d.key /\ e.model = d.model
  PROVE  DevicesOK'
  <1>1. \A x \in devices' : x \in devices \ {d} \/ x = e
    OBVIOUS
  <1>2. \A x, y \in devices' : x.key = y.key => x = y
    BY <1>1 DEF DevicesOK
  <1> QED  BY <1>1, <1>2, DevicesChange

LEMMA AroundKept ==
  ASSUME TunersInv, Changes \/ Meddles  PROVE TunersInv'
  <1>1. CASE Changes
    <2>1. DevicesOK' /\ playlists' \subseteq Sources
      BY <1>1 DEF Changes, SettingsSaved, KeyChanges, PlaylistsChange, LineupChanges, TunersInv, PlexTypeOK, DevicesOK, DeviceOK
    <2> QED  BY <1>1, <2>1, WorldMoves DEF Changes
  <1>2. CASE Meddles
    <2>1. DevicesOK /\ playlists \subseteq Sources
      BY DEF TunersInv, PlexTypeOK
    <2>2. PICK d \in devices :
             \E e : /\ devices' = devices \ {d} \/ devices' = (devices \ {d}) \union {e}
                    /\ DOMAIN e = DOMAIN d /\ e.key = d.key /\ e.model = d.model
      <3>1. PICK d \in devices : \/ devices' = devices \ {d}
                                 \/ \E e \in {[d EXCEPT !.on = FALSE], [d EXCEPT !.dvr = Detached], [d EXCEPT !.mapped = 0]} :
                                       devices' = (devices \ {d}) \union {e}
        BY <1>2 DEF Meddles
      <3>2. \A e \in {d, [d EXCEPT !.on = FALSE], [d EXCEPT !.dvr = Detached], [d EXCEPT !.mapped = 0]} :
               DOMAIN e = DOMAIN d /\ e.key = d.key /\ e.model = d.model
        BY <2>1 DEF DevicesOK, DeviceOK, DeviceFields
      <3> QED  BY <3>1, <3>2
    <2>3. DevicesOK'
      BY <1>2, <2>1, <2>2, OneChanges DEF Meddles
    <2> QED  BY <1>2, <2>1, <2>3, WorldMoves DEF Meddles, settingsVars
  <1> QED  BY <1>1, <1>2

\* A pass works on: what it works with is its own affair.
LEMMA WorkGoesOn ==
  ASSUME TunersInv, NEW p \in Passes, pass[p].step \in Working, NEW r, pass' = [pass EXCEPT ![p] = r],
         DOMAIN r = PassFields, r.step \in Working, r.want = pass[p].want, r.todo = pass[p].todo,
         r.uri = pass[p].uri, r.clean = pass[p].clean, r.calm = pass[p].calm, r.tuner = pass[p].tuner,
         DevicesOK', r.calm => \A d \in devices : d.model # pass[p].tuner => d \in devices',
         playlists' = playlists, tunerLineup' = tunerLineup, plexFails' \in {plexFails, plexFails + 1},
         r.calm => WorkHolds(r)'
  PROVE  TunersInv'
  <1>1. /\ pass[p] # NoPass /\ PassOK(pass[p]) /\ plexFails \in Nat
        /\ pass[p].calm => CalmHolds(pass[p])
    BY PassTypes DEF Working, OnTarget
  <1>2. PassOK(r)
    BY <1>1 DEF PassOK, Working, OnTarget, Ending
  <1>3. ASSUME r.calm  PROVE CalmHolds(r)'
    <2>1. \A t : t # r.tuner /\ Served(t, r.uri) => Served(t, r.uri)'
      BY <1>1, <1>3, StepKeepsServed
    <2>2. SourcesServed(pass[p])
      BY <1>1, <1>3 DEF CalmHolds
    <2>3. SourcesServed(r)'
      BY <2>1, <2>2 DEF SourcesServed, Working, OnTarget, Ending
    <2>4. SweepHolds(r)'
      BY DEF SweepHolds, Working, OnTarget, Ending
    <2> QED  BY <1>3, <2>3, <2>4 DEF CalmHolds
  <1>4. plexFails' \in Nat /\ (r.calm => CalmHolds(r)')
    BY <1>1, <1>3
  <1> QED  BY <1>1, <1>2, <1>4, PassGoesOn

LEMMA GoesIs ==
  ASSUME TunersInv, NEW p \in Passes, pass[p].step # "idle", NEW s, Goes(p, s)
  PROVE  \E r : /\ pass' = [pass EXCEPT ![p] = r] /\ DOMAIN r = PassFields /\ r.step = s
                /\ \A x \in PassFields \ {"step"} : r[x] = pass[p][x]
  <1>1. DOMAIN pass[p] = PassFields
    BY PassTypes DEF PassOK
  <1> WITNESS [pass[p] EXCEPT !.step = s]
  <1> QED  BY <1>1, PassTypes DEF Goes, PassFields

LEMMA ResultIs ==
  ASSUME NEW b, NEW c \in BOOLEAN, DOMAIN b = PassFields, b.clean \in BOOLEAN
  PROVE  /\ DOMAIN Result(b, c) = PassFields /\ Result(b, c).step = "next"
         /\ Result(b, c).clean \in BOOLEAN /\ (Result(b, c).clean => b.clean /\ c)
         /\ \A x \in {"want", "todo", "uri", "calm"} : Result(b, c)[x] = b[x]
  BY DEF Result, PassFields

\* A pass is done with a tuner: if all is well, it is served.
LEMMA SourceEnds ==
  ASSUME TunersInv, NEW p \in Passes, pass[p].step \in Working,
         NEW b, DOMAIN b = PassFields, \A x \in {"want", "todo", "uri", "clean", "calm"} : b[x] = pass[p][x],
         NEW c \in BOOLEAN, pass' = [pass EXCEPT ![p] = Result(b, c)],
         DevicesOK', c /\ pass[p].calm => \A d \in devices : d.model # pass[p].tuner => d \in devices',
         playlists' = playlists, tunerLineup' = tunerLineup, plexFails' \in {plexFails, plexFails + 1},
         NEW t0, NEW u, t0 = pass[p].tuner, u = pass[p].uri, c /\ pass[p].calm => Served(t0, u)'
  PROVE  TunersInv'
  <1>1. /\ pass[p] # NoPass /\ PassOK(pass[p]) /\ plexFails \in Nat
        /\ pass[p].calm => CalmHolds(pass[p])
    BY PassTypes DEF Working, OnTarget
  <1>2. PICK r : r = Result(b, c)
    OBVIOUS
  <1>3. /\ b.want = pass[p].want /\ b.todo = pass[p].todo /\ b.uri = pass[p].uri
        /\ b.clean = pass[p].clean /\ b.calm = pass[p].calm
    OBVIOUS
  <1>4. /\ DOMAIN r = PassFields /\ r.step = "next" /\ r.clean \in BOOLEAN /\ (r.clean => pass[p].clean /\ c)
        /\ r.want = pass[p].want /\ r.todo = pass[p].todo /\ r.uri = pass[p].uri /\ r.calm = pass[p].calm
    BY <1>1, <1>2, <1>3, ResultIs DEF PassOK
  <1>5. PassOK(r)
    BY <1>1, <1>4 DEF PassOK, Working, OnTarget, Ending
  <1>6. ASSUME r.calm  PROVE CalmHolds(r)'
    <2>2. c => \A t : t # t0 /\ Served(t, u) => Served(t, u)'
      BY <1>1, <1>4, <1>6, StepKeepsServed
    <2>3. c => Served(t0, u)'
      BY <1>4, <1>6
    <2>4. SourcesServed(pass[p])
      BY <1>1, <1>4, <1>6 DEF CalmHolds
    <2>5. SourcesServed(r)'
      BY <1>4, <2>2, <2>3, <2>4 DEF SourcesServed, Working, OnTarget, Ending
    <2>6. SweepHolds(r)' /\ WorkHolds(r)'
      BY <1>4 DEF SweepHolds, WorkHolds, Working, OnTarget, Ending
    <2> QED  BY <2>5, <2>6 DEF CalmHolds
  <1>7. plexFails' \in Nat /\ (r.calm => CalmHolds(r)')
    BY <1>1, <1>6
  <1>8. pass' = [pass EXCEPT ![p] = r]
    BY <1>2
  <1> QED  BY <1>1, <1>4, <1>5, <1>7, <1>8, PassGoesOn

LEMMA SourceFails ==
  ASSUME TunersInv, NEW p \in Passes, pass[p].step \in Working, SourceDone(p, FALSE),
         DevicesOK', playlists' = playlists, tunerLineup' = tunerLineup, plexFails' \in {plexFails, plexFails + 1}
  PROVE  TunersInv'
  <1>1. PICK b, t0, u : b = pass[p] /\ t0 = pass[p].tuner /\ u = pass[p].uri
    OBVIOUS
  <1>2. DOMAIN b = PassFields /\ pass' = [pass EXCEPT ![p] = Result(b, FALSE)]
    BY <1>1, PassTypes DEF SourceDone, PassOK, Working, OnTarget
  <1> QED  BY <1>1, <1>2, SourceEnds

\* Plex is asked nothing.
LEMMA QuietStep ==
  ASSUME TunersInv, UNCHANGED <<kept, devices, made, plexFails>>
  PROVE  /\ playlists' = playlists /\ tunerLineup' = tunerLineup /\ DevicesOK' /\ plexFails' = plexFails
         /\ \A t, u : Served(t, u) => Served(t, u)'
  BY DEF kept, settingsVars, TunersInv, PlexTypeOK, DevicesOK, DeviceOK, Served

LEMMA FailingStep ==
  ASSUME TunersInv, UNCHANGED <<kept, devices, made>>, Fails
  PROVE  /\ playlists' = playlists /\ tunerLineup' = tunerLineup /\ DevicesOK' /\ plexFails' = plexFails + 1
         /\ plexFails' \in Nat /\ \A t, u : Served(t, u) => Served(t, u)'
  <1>1. plexFails \in Nat /\ plexFails' = plexFails + 1
    BY DEF Fails, TunersInv, PlexTypeOK
  <1> QED  BY <1>1 DEF kept, settingsVars, TunersInv, PlexTypeOK, DevicesOK, DeviceOK, Served

\* An aborted pass has nothing to say.
LEMMA PassAbortsKept ==
  ASSUME TunersInv, NEW p \in Passes, PassAborts(p)  PROVE TunersInv'
  <1>1. PICK r : /\ pass' = [pass EXCEPT ![p] = r] /\ DOMAIN r = PassFields /\ r.step = "aborted"
                 /\ \A x \in PassFields \ {"step"} : r[x] = pass[p][x]
    BY GoesIs DEF PassAborts
  <1>2. /\ r.clean = pass[p].clean /\ r.calm = pass[p].calm
    BY <1>1 DEF PassFields
  <1>3. PassOK(pass[p]) /\ pass[p] # NoPass
    BY PassTypes DEF PassAborts
  <1>4. PassOK(r) /\ CalmHolds(r)'
    BY <1>1, <1>2, <1>3
       DEF PassOK, CalmHolds, SourcesServed, WorkHolds, SweepHolds, Working, OnTarget, Ending
  <1> QED  BY <1>1, <1>2, <1>3, <1>4, FailingStep, PassGoesOn DEF PassAborts

LEMMA PassEndsKept ==
  ASSUME TunersInv, NEW p \in Passes, PassEnds(p)  PROVE TunersInv'
  <1>1. pass' = [pass EXCEPT ![p] = NoPass]
    BY DEF PassEnds
  <1>2. UNCHANGED <<devices, made, plexFails, tunerLineup, playlists>>
    BY DEF PassEnds, kept, settingsVars
  <1>3. pass'[p] = NoPass /\ \A q \in Passes \ {p} : pass'[q] = pass[q]
    BY <1>1 DEF TunersInv, PlexTypeOK, PassesOK
  <1>4. PlexTypeOK'
    BY <1>1, <1>2, <1>3 DEF TunersInv, PlexTypeOK, PassesOK, PassOK, DevicesOK, DeviceOK
  <1>5. CalmAlone'
    BY <1>3 DEF TunersInv, CalmAlone
  <1>6. ASSUME NEW q \in Passes, pass'[q] # NoPass, pass'[q].calm  PROVE CalmHolds(pass[q])'
    <2>1. PICK r : r = pass[q]
      OBVIOUS
    <2>2. CalmHolds(r)
      BY <1>3, <1>6, <2>1 DEF TunersInv
    <2>3. CalmHolds(r)'
      BY <1>2, <2>2 DEF CalmHolds, SourcesServed, WorkHolds, SweepHolds, Unwanted, Served, TargetHolds, TargetIs
    <2> QED  BY <1>3, <1>6, <2>1, <2>3
  <1> QED  BY <1>4, <1>5, <1>6 DEF TunersInv

\* The channels of a tuner are read, or not.
LEMMA LineupsKept ==
  ASSUME TunersInv, NEW p \in Passes, ReadsLineup(p) \/ LineupFails(p)  PROVE TunersInv'
  <1>1. pass[p].step = "next" /\ PassOK(pass[p]) /\ pass[p] # NoPass /\ (pass[p].calm => CalmHolds(pass[p]))
    BY PassTypes DEF ReadsLineup, LineupFails, At
  <1>2. /\ playlists' = playlists /\ tunerLineup' = tunerLineup /\ DevicesOK' /\ plexFails' \in Nat
        /\ \A t, u : Served(t, u) => Served(t, u)'
    BY QuietStep, FailingStep DEF ReadsLineup, LineupFails, TunersInv, PlexTypeOK
  <1>3. CASE ReadsLineup(p)
    <2>1. PICK t \in pass[p].todo :
            pass' = [pass EXCEPT ![p].todo = @ \ {t}, ![p].tuner = t, ![p].channels = tunerLineup[t],
                                 ![p].step = "look"]
      BY <1>3 DEF ReadsLineup
    <2>2. PICK r : r = [pass[p] EXCEPT !.todo = @ \ {t}, !.tuner = t, !.channels = tunerLineup[t], !.step = "look"]
      OBVIOUS
    <2>3. pass' = [pass EXCEPT ![p] = r]
      BY <1>1, <2>1, <2>2, PassTypes DEF PassOK, PassFields
    <2>4. /\ DOMAIN r = PassFields /\ r.step = "look" /\ r.todo = pass[p].todo \ {t} /\ r.tuner = t
          /\ r.channels = tunerLineup[t] /\ r.want = pass[p].want /\ r.uri = pass[p].uri
          /\ r.clean = pass[p].clean /\ r.calm = pass[p].calm
      BY <1>1, <2>2 DEF PassOK, PassFields
    <2>5. PassOK(r)
      BY <1>1, <2>4 DEF PassOK, Working
    <2>6. ASSUME r.calm  PROVE CalmHolds(r)'
      <3>1. SourcesServed(pass[p])
        BY <1>1, <2>4, <2>6 DEF CalmHolds
      <3>2. SourcesServed(r)'
        BY <1>1, <1>2, <2>4, <3>1 DEF SourcesServed, Working, OnTarget, Ending
      <3>3. WorkHolds(r)' /\ SweepHolds(r)'
        BY <1>2, <2>4 DEF WorkHolds, SweepHolds, Working, OnTarget, Ending
      <3> QED  BY <3>2, <3>3 DEF CalmHolds
    <2> QED  BY <1>1, <1>2, <2>3, <2>4, <2>5, <2>6, PassGoesOn
  <1>4. CASE LineupFails(p)
    <2>1. PICK t \in pass[p].todo : pass' = [pass EXCEPT ![p] = Result([pass[p] EXCEPT !.todo = @ \ {t}], FALSE)]
      BY <1>4 DEF LineupFails
    <2>2. PICK b : b = [pass[p] EXCEPT !.todo = @ \ {t}]
      OBVIOUS
    <2>3. PICK r : r = Result(b, FALSE)
      OBVIOUS
    <2>4. /\ DOMAIN b = PassFields /\ b.clean \in BOOLEAN /\ b.todo = pass[p].todo \ {t}
          /\ b.calm = pass[p].calm
      BY <1>1, <2>2 DEF PassOK, PassFields
    <2>5. /\ DOMAIN r = PassFields /\ r.step = "next" /\ r.clean \in BOOLEAN /\ ~r.clean
          /\ r.todo = pass[p].todo \ {t} /\ r.calm = pass[p].calm /\ pass' = [pass EXCEPT ![p] = r]
      BY <2>1, <2>2, <2>3, <2>4, ResultIs
    <2>6. PassOK(r) /\ CalmHolds(r)'
      BY <1>1, <2>5 DEF PassOK, CalmHolds, SourcesServed, WorkHolds, SweepHolds, Working, OnTarget, Ending
    <2> QED  BY <1>1, <1>2, <2>5, <2>6, PassGoesOn
  <1> QED  BY <1>3, <1>4

LEMMA AttachedHave ==
  ASSUME NEW D
  PROVE  /\ \A v \in Dvrs(Attached(D)) : v # Detached
         /\ \A d \in D : d.dvr # Detached => d.dvr \in Dvrs(Attached(D))
  <1>1. ASSUME NEW v \in Dvrs(Attached(D))  PROVE v # Detached
    <2>1. PICK a \in Attached(D) : v = a.dvr
      BY DEF Dvrs
    <2>2. PICK e \in D : e.dvr # Detached /\ a = [key |-> e.key, dvr |-> e.dvr]
      BY DEF Attached
    <2> QED  BY <2>1, <2>2
  <1>2. ASSUME NEW d \in D, d.dvr # Detached  PROVE d.dvr \in Dvrs(Attached(D))
    <2>1. [key |-> d.key, dvr |-> d.dvr] \in Attached(D)
      BY <1>2 DEF Attached
    <2>2. [key |-> d.key, dvr |-> d.dvr].dvr \in Dvrs(Attached(D))
      BY <2>1 DEF Dvrs
    <2> QED  BY <2>2
  <1> QED  BY <1>1, <1>2

\* A tuner taken as it is.
LEMMA TargetTaken ==
  ASSUME NEW d \in devices, NEW r, r.step = "dvr", r.target = d, r.seen = Attached(devices),
         d.model = r.tuner, plexFails = 0 => d.uri = r.uri
  PROVE  TargetHolds(r)
  BY AttachedHave DEF TargetHolds, TargetIs

LEMMA LooksKept ==
  ASSUME TunersInv, NEW p \in Passes, Looks(p)  PROVE TunersInv'
  <1>1. /\ pass[p].step = "look" /\ PassOK(pass[p]) /\ pass[p] # NoPass /\ DOMAIN pass[p] = PassFields
        /\ pass[p].calm => WorkHolds(pass[p])
    BY PassTypes DEF Looks, At, CalmHolds, PassOK
  <1>2. /\ playlists' = playlists /\ tunerLineup' = tunerLineup /\ DevicesOK' /\ plexFails' = plexFails
        /\ \A t, u : Served(t, u) => Served(t, u)'
        /\ devices' = devices /\ plexFails \in Nat
    BY QuietStep DEF Looks, TunersInv, PlexTypeOK
  <1>3. PICK d \in Target(devices, pass[p].tuner) :
          LET stale == IsStale(d, pass[p].uri)
              new == [pass[p] EXCEPT !.seen = Attached(devices), !.target = IF stale THEN NoDevice ELSE d,
                                     !.stale = IF stale THEN d ELSE NoDevice]
          IN  pass' = [pass EXCEPT ![p] =
                  IF new.target # NoDevice THEN [new EXCEPT !.step = "dvr"]
                  ELSE IF new.channels # 0 THEN [new EXCEPT !.step = "create"]
                  ELSE IF stale THEN [new EXCEPT !.step = "replace"]
                  ELSE Result(new, TRUE)]
    BY DEF Looks
  <1>4. PICK b : b = [pass[p] EXCEPT !.seen = Attached(devices),
                                     !.target = IF IsStale(d, pass[p].uri) THEN NoDevice ELSE d,
                                     !.stale = IF IsStale(d, pass[p].uri) THEN d ELSE NoDevice]
    OBVIOUS
  <1>5. /\ DOMAIN b = PassFields /\ b.seen = Attached(devices)
        /\ b.target = (IF IsStale(d, pass[p].uri) THEN NoDevice ELSE d)
        /\ b.stale = (IF IsStale(d, pass[p].uri) THEN d ELSE NoDevice)
        /\ \A x \in PassFields \ {"seen", "target", "stale"} : b[x] = pass[p][x]
    BY <1>1, <1>4 DEF PassFields
  <1>6. /\ b.want = pass[p].want /\ b.todo = pass[p].todo /\ b.uri = pass[p].uri /\ b.clean = pass[p].clean
        /\ b.calm = pass[p].calm /\ b.tuner = pass[p].tuner /\ b.channels = pass[p].channels
    BY <1>5 DEF PassFields
  <1>7. /\ d # NoDevice => d \in devices /\ d.model = b.tuner
        /\ IsStale(d, pass[p].uri) => d # NoDevice
        /\ d # NoDevice /\ ~IsStale(d, pass[p].uri) => d.uri = b.uri
    BY <1>6 DEF Target, IsStale
  <1>8. \/ b.target # NoDevice /\ pass' = [pass EXCEPT ![p] = [b EXCEPT !.step = "dvr"]]
        \/ pass' = [pass EXCEPT ![p] = [b EXCEPT !.step = "create"]]
        \/ IsStale(d, pass[p].uri) /\ pass' = [pass EXCEPT ![p] = [b EXCEPT !.step = "replace"]]
        \/ b.channels = 0 /\ pass' = [pass EXCEPT ![p] = Result(b, TRUE)]
    BY <1>3, <1>4
  <1>9. DevicesOK
    BY DEF TunersInv, PlexTypeOK
  <1>10. ASSUME NEW s \in {"dvr", "create", "replace"}, pass' = [pass EXCEPT ![p] = [b EXCEPT !.step = s]],
                s = "dvr" => b.target # NoDevice, s = "replace" => IsStale(d, pass[p].uri)
         PROVE  TunersInv'
    <2>1. PICK r : r = [b EXCEPT !.step = s]
      OBVIOUS
    <2>2. /\ DOMAIN r = PassFields /\ r.step = s /\ r.want = b.want /\ r.todo = b.todo /\ r.uri = b.uri
          /\ r.clean = b.clean /\ r.calm = b.calm /\ r.tuner = b.tuner /\ r.channels = b.channels
          /\ r.seen = b.seen /\ r.target = b.target /\ r.stale = b.stale
      BY <1>5, <2>1 DEF PassFields
    <2>3. ASSUME r.calm  PROVE WorkHolds(r)
      <3>1. r.channels = tunerLineup[r.tuner]
        BY <1>1, <1>6, <2>2, <2>3 DEF WorkHolds, Working
      <3>2. CASE s = "dvr"
        <4>1. d \in devices /\ r.target = d /\ d.model = r.tuner /\ d.uri = r.uri
          BY <1>5, <1>7, <1>10, <2>2, <3>2
        <4>2. TargetHolds(r)
          BY <1>5, <2>2, <3>2, <4>1, TargetTaken
        <4> QED  BY <2>2, <3>1, <3>2, <4>2 DEF WorkHolds
      <3>3. CASE s # "dvr"
        <4>1. r.stale = NoDevice \/ (r.stale \in devices /\ r.stale.model = r.tuner)
          BY <1>5, <1>7, <2>2
        <4>2. s = "replace" => r.stale # NoDevice
          BY <1>5, <1>7, <1>10, <2>2
        <4> QED  BY <1>9, <2>2, <3>1, <3>3, <4>1, <4>2 DEF WorkHolds, OnTarget, DevicesOK
      <3> QED  BY <3>2, <3>3
    <2>4. r.calm => WorkHolds(r)'
      BY <1>2, <2>3 DEF WorkHolds, TargetHolds, TargetIs
    <2>5. pass' = [pass EXCEPT ![p] = r] /\ r.step \in Working /\ pass[p].step \in Working
      BY <1>1, <1>10, <2>1, <2>2 DEF Working, OnTarget
    <2> QED  BY <1>2, <1>6, <2>2, <2>4, <2>5, WorkGoesOn
  <1>11. ASSUME b.channels = 0, pass' = [pass EXCEPT ![p] = Result(b, TRUE)]  PROVE TunersInv'
    <2>1. PICK t0, u : t0 = pass[p].tuner /\ u = pass[p].uri
      OBVIOUS
    <2>2. pass[p].calm => Served(t0, u)'
      BY <1>1, <1>2, <1>6, <1>11, <2>1 DEF Served, WorkHolds, Working
    <2>3. pass[p].step \in Working /\ \A x \in {"want", "todo", "uri", "clean", "calm"} : b[x] = pass[p][x]
      BY <1>1, <1>5 DEF Working, PassFields
    <2>4. /\ TRUE \in BOOLEAN /\ plexFails' \in {plexFails, plexFails + 1} /\ DOMAIN b = PassFields
          /\ \A e \in devices : e.model # pass[p].tuner => e \in devices'
      BY <1>2, <1>5
    <2> QED  BY <1>2, <1>11, <2>1, <2>2, <2>3, <2>4, SourceEnds
  <1> QED  BY <1>7, <1>8, <1>10, <1>11

\* A tuner is made, or takes the new address; others stay.
LEMMA CreatesDeviceKept ==
  ASSUME TunersInv, NEW p \in Passes, CreatesDevice(p)  PROVE TunersInv'
  <1>1. /\ pass[p].step = "create" /\ PassOK(pass[p]) /\ DevicesOK /\ plexFails \in Nat
        /\ pass[p].calm => WorkHolds(pass[p])
    BY PassTypes DEF CreatesDevice, At, CalmHolds
  <1>2. PICK r : /\ pass' = [pass EXCEPT ![p] = r] /\ DOMAIN r = PassFields /\ r.step = "lookAgain"
                 /\ \A x \in PassFields \ {"step"} : r[x] = pass[p][x]
    BY <1>1, GoesIs DEF CreatesDevice
  <1>3. /\ r.want = pass[p].want /\ r.todo = pass[p].todo /\ r.uri = pass[p].uri /\ r.clean = pass[p].clean
        /\ r.calm = pass[p].calm /\ r.tuner = pass[p].tuner /\ r.channels = pass[p].channels
        /\ r.stale = pass[p].stale
    BY <1>2 DEF PassFields
  <1>4. playlists' = playlists /\ tunerLineup' = tunerLineup
    BY DEF CreatesDevice, kept, settingsVars
  <1> DEFINE Good ==
        /\ DevicesOK' /\ plexFails' \in {plexFails, plexFails + 1}
        /\ \A d \in devices : d.model # r.tuner => d \in devices'
        /\ \A e \in devices' : e.model = r.tuner \/ e \in devices
        /\ plexFails' = 0 => \E d \in devices' : d.uri = r.uri /\ d.model = r.tuner
  <1>5. Good
    <2>1. CASE made' = made + 1 /\ devices' = devices \union {NewDevice(made + 1, r.tuner, r.uri)} /\ plexFails' = plexFails
      <3>1. PICK n : n = NewDevice(made + 1, r.tuner, r.uri)
        OBVIOUS
      <3>2. DOMAIN n = DeviceFields /\ n.key = made + 1 /\ n.model = r.tuner /\ n.uri = r.uri
        BY <3>1 DEF NewDevice, DeviceFields
      <3>3. r.tuner \in Tuners
        BY <1>1, <1>3 DEF PassOK, Working
      <3>4. DevicesOK'
        BY <1>1, <2>1, <3>1, <3>2, <3>3 DEF DevicesOK, DeviceOK
      <3> QED  BY <2>1, <3>1, <3>2, <3>4
    <2>2. ASSUME NEW d \in devices, d.model = r.tuner, devices' = (devices \ {d}) \union {[d EXCEPT !.uri = r.uri]},
                 made' = made, plexFails' = plexFails
          PROVE  Good
      <3>1. PICK e : e = [d EXCEPT !.uri = r.uri]
        OBVIOUS
      <3>2. DOMAIN e = DOMAIN d /\ e.key = d.key /\ e.model = d.model /\ e.uri = r.uri
        BY <1>1, <3>1 DEF DevicesOK, DeviceOK, DeviceFields
      <3>3. DevicesOK'
        BY <1>1, <2>2, <3>1, <3>2, OneChanges
      <3> QED  BY <2>2, <3>1, <3>2, <3>3
    <2>3. CASE Fails /\ UNCHANGED <<devices, made>>
      BY <1>1, <2>3 DEF Fails, DevicesOK, DeviceOK
    <2> QED  BY <1>3, <2>1, <2>2, <2>3 DEF CreatesDevice
  <1>6. r.calm => WorkHolds(r)'
    <2>1. r.calm => tunerLineup[r.tuner] = r.channels
      BY <1>1, <1>3 DEF WorkHolds, Working
    <2>2. r.calm => r.stale = NoDevice \/ \A d \in devices : d.key = r.stale.key => d.model = r.tuner
      BY <1>1, <1>3 DEF WorkHolds
    <2> QED  BY <1>2, <1>4, <1>5, <2>1, <2>2 DEF WorkHolds, OnTarget
  <1>7. r.step \in Working /\ pass[p].step \in Working
    BY <1>1, <1>2 DEF Working
  <1> QED  BY <1>2, <1>3, <1>4, <1>5, <1>6, <1>7, WorkGoesOn

\* What is found the second time is in Plex, with its DVR or as if without.
LEMMA FoundAgain ==
  ASSUME TunersInv, NEW p \in Passes, At(p, "lookAgain"), NEW found, NEW seen, FindsAgain(p, found, seen),
         devices' = devices, playlists' = playlists, tunerLineup' = tunerLineup, DevicesOK',
         plexFails' \in {plexFails, plexFails + 1}, plexFails' = 0 => found = devices,
         \A t, u : Served(t, u) => Served(t, u)',
         \A v \in Dvrs(seen) : v # Detached,
         \A d \in found : /\ d.dvr # Detached => d.dvr \in Dvrs(seen)
                          /\ \E e \in devices : /\ e.key = d.key /\ e.model = d.model /\ e.mapped = d.mapped
                                                /\ e.uri = d.uri /\ e.on = d.on
                                                /\ d.dvr # Detached => e.dvr = d.dvr
  PROVE  TunersInv'
  <1>1. /\ pass[p].step = "lookAgain" /\ PassOK(pass[p]) /\ pass[p] # NoPass /\ DOMAIN pass[p] = PassFields
        /\ pass[p].calm => WorkHolds(pass[p])
    BY PassTypes DEF At, CalmHolds, PassOK
  <1>2. plexFails \in Nat /\ (plexFails' = 0 => plexFails = 0)
    BY DEF TunersInv, PlexTypeOK
  <1>3. PICK b : b = pass[p]
    OBVIOUS
  <1>4. /\ DOMAIN b = PassFields /\ \A x \in {"want", "todo", "uri", "clean", "calm"} : b[x] = pass[p][x]
        /\ b.calm => WorkHolds(b)
    BY <1>1, <1>3
  <1> DEFINE exact == {d \in found : d.uri = b.uri /\ d.model = b.tuner}
  <1>5. PICK d \in IF exact # {} THEN exact ELSE Target(found, b.tuner) :
          pass' = [pass EXCEPT ![p] =
              IF d # NoDevice THEN [b EXCEPT !.seen = seen, !.target = d, !.step = "dvr"]
              ELSE IF b.stale # NoDevice /\ ~b.replaced
                   THEN [b EXCEPT !.seen = seen, !.step = "replace"]
                   ELSE Result(b, b.channels = 0)]
    BY <1>3 DEF FindsAgain
  <1>6. CASE d # NoDevice
    <2>1. d \in found /\ d.model = b.tuner
      BY <1>5, <1>6 DEF Target
    <2>2. b.calm /\ plexFails' = 0 => d.uri = b.uri
      BY <1>1, <1>2, <1>3, <1>4, <1>5 DEF WorkHolds
    <2>3. PICK r : r = [b EXCEPT !.seen = seen, !.target = d, !.step = "dvr"]
      OBVIOUS
    <2>4. /\ DOMAIN r = PassFields /\ r.step = "dvr" /\ r.want = b.want /\ r.todo = b.todo /\ r.uri = b.uri
          /\ r.clean = b.clean /\ r.calm = b.calm /\ r.tuner = b.tuner /\ r.channels = b.channels
          /\ r.seen = seen /\ r.target = d
      BY <1>4, <2>3 DEF PassFields
    <2>5. ASSUME r.calm  PROVE WorkHolds(r)'
      <3>1. PICK e \in devices : /\ e.key = d.key /\ e.model = d.model /\ e.mapped = d.mapped
                                 /\ e.uri = d.uri /\ e.on = d.on /\ (d.dvr # Detached => e.dvr = d.dvr)
        BY <2>1
      <3>2. TargetIs(r, e)'
        BY <2>1, <2>2, <2>4, <2>5, <3>1 DEF TargetIs
      <3>3. (d.dvr # Detached => d.dvr \in Dvrs(seen)) /\ \A v \in Dvrs(seen) : v # Detached
        BY <2>1
      <3>4. TargetHolds(r)'
        BY <2>4, <3>2, <3>3 DEF TargetHolds
      <3>5. r.channels = tunerLineup[r.tuner]
        BY <1>1, <1>3, <1>4, <2>4, <2>5 DEF WorkHolds, Working
      <3> QED  BY <2>4, <3>4, <3>5 DEF WorkHolds
    <2>6. pass' = [pass EXCEPT ![p] = r] /\ r.step \in Working /\ pass[p].step \in Working
      BY <1>1, <1>5, <1>6, <2>3, <2>4 DEF Working, OnTarget
    <2> QED  BY <1>3, <2>4, <2>5, <2>6, WorkGoesOn
  <1>7. CASE d = NoDevice /\ b.stale # NoDevice /\ ~b.replaced
    <2>1. PICK r : r = [b EXCEPT !.seen = seen, !.step = "replace"]
      OBVIOUS
    <2>2. /\ DOMAIN r = PassFields /\ r.step = "replace" /\ r.want = b.want /\ r.todo = b.todo /\ r.uri = b.uri
          /\ r.clean = b.clean /\ r.calm = b.calm /\ r.tuner = b.tuner /\ r.channels = b.channels
          /\ r.stale = b.stale
      BY <1>4, <2>1 DEF PassFields
    <2>3. r.calm => WorkHolds(r)
      BY <1>1, <1>3, <1>4, <1>7, <2>2 DEF WorkHolds, Working, OnTarget
    <2>4. r.calm => WorkHolds(r)'
      BY <2>2, <2>3 DEF WorkHolds, OnTarget
    <2>5. pass' = [pass EXCEPT ![p] = r] /\ r.step \in Working /\ pass[p].step \in Working
      BY <1>1, <1>5, <1>7, <2>1, <2>2 DEF Working
    <2> QED  BY <1>3, <2>2, <2>4, <2>5, WorkGoesOn
  <1>8. CASE d = NoDevice /\ ~(b.stale # NoDevice /\ ~b.replaced)
    <2>1. PICK c \in BOOLEAN : c = (b.channels = 0)
      OBVIOUS
    <2>2. pass' = [pass EXCEPT ![p] = Result(b, c)]
      BY <1>5, <1>8, <2>1
    <2>3. PICK t0, u : t0 = pass[p].tuner /\ u = pass[p].uri
      OBVIOUS
    <2>4. c /\ pass[p].calm => Served(t0, u)'
      BY <1>1, <1>3, <2>1, <2>3 DEF Served, WorkHolds, Working
    <2>5. pass[p].step \in Working /\ \A e \in devices : e.model # pass[p].tuner => e \in devices'
      BY <1>1 DEF Working
    <2> QED  BY <1>4, <2>2, <2>3, <2>4, <2>5, SourceEnds
  <1> QED  BY <1>6, <1>7, <1>8

LEMMA LooksAgainKept ==
  ASSUME TunersInv, NEW p \in Passes, LooksAgain(p)  PROVE TunersInv'
  <1>1. At(p, "lookAgain") /\ UNCHANGED <<kept, devices, made>> /\ DevicesOK /\ plexFails \in Nat
    BY DEF LooksAgain, TunersInv, PlexTypeOK
  <1>2. CASE FindsAgain(p, devices, Attached(devices)) /\ UNCHANGED plexFails
    BY <1>1, <1>2, QuietStep, FoundAgain, AttachedHave
  <1>3. ASSUME NEW found, NEW seen, Fails, FindsAgain(p, found, seen), \A v \in Dvrs(seen) : v # Detached,
               \A d \in found : /\ d.dvr # Detached => d.dvr \in Dvrs(seen)
                                /\ \E e \in devices : /\ e.key = d.key /\ e.model = d.model /\ e.mapped = d.mapped
                                                      /\ e.uri = d.uri /\ e.on = d.on
                                                      /\ d.dvr # Detached => e.dvr = d.dvr
        PROVE  TunersInv'
    <2>1. plexFails' = plexFails + 1 /\ plexFails' # 0
      BY <1>1, <1>3 DEF Fails
    <2> QED  BY <1>1, <1>3, <2>1, FailingStep, FoundAgain
  <1>4. CASE Fails /\ FindsAgain(p, {d \in devices : d.dvr # Detached}, Attached(devices))
    BY <1>3, <1>4, AttachedHave
  <1>5. CASE Fails /\ FindsAgain(p, {[d EXCEPT !.dvr = Detached] : d \in devices}, {})
    <2>1. PICK f : f = [d \in devices |-> [d EXCEPT !.dvr = Detached]]
      OBVIOUS
    <2>2. \A d \in devices : /\ f[d].key = d.key /\ f[d].model = d.model /\ f[d].mapped = d.mapped
                             /\ f[d].uri = d.uri /\ f[d].on = d.on /\ f[d].dvr = Detached
      BY <1>1, <2>1 DEF DevicesOK, DeviceOK, DeviceFields
    <2>3. PICK found : found = {f[d] : d \in devices}
      OBVIOUS
    <2>4. Fails /\ FindsAgain(p, found, {})
      BY <1>5, <2>1, <2>3
    <2>5. Dvrs({}) = {}
      BY DEF Dvrs
    <2>6. ASSUME NEW d \in found
          PROVE  d.dvr = Detached /\ \E e \in devices : /\ e.key = d.key /\ e.model = d.model
                                                       /\ e.mapped = d.mapped /\ e.uri = d.uri /\ e.on = d.on
      BY <2>2, <2>3
    <2> QED  BY <1>3, <2>4, <2>5, <2>6
  <1> QED  BY <1>1, <1>2, <1>4, <1>5 DEF LooksAgain

\* What is dropped is gone, or there without its DVR.
LEMMA DroppedAre ==
  ASSUME DevicesOK, made' = made, NEW k, NEW v, Dropped(k, v)
  PROVE  /\ DevicesOK' /\ \A d \in devices : d.key # k => d \in devices'
         /\ \A e \in devices' : \E d \in devices : d.key = e.key /\ d.model = e.model
         /\ \A e \in devices' : e.dvr # Detached => e \in devices /\ ~(e.key = k /\ e.dvr = v)
  <1>1. PICK X : X = {d \in devices : d.key = k /\ d.dvr = v}
    OBVIOUS
  <1>2. PICK f : f = [d \in X |-> [d EXCEPT !.dvr = Detached]]
    OBVIOUS
  <1>3. \A d \in X : DOMAIN f[d] = DOMAIN d /\ f[d].key = d.key /\ f[d].model = d.model /\ f[d].dvr = Detached
    BY <1>1, <1>2 DEF DevicesOK, DeviceOK, DeviceFields
  <1>4. devices' = devices \ X \/ devices' = (devices \ X) \union {f[d] : d \in X}
    BY <1>1, <1>2 DEF Dropped
  <1>5. \A x \in devices' : x \in devices \ X \/ \E d \in X : x = f[d]
    BY <1>4
  <1>6. DevicesOK'
    <2>1. \A x \in devices' : \E d \in devices : DOMAIN x = DOMAIN d /\ x.key = d.key /\ x.model = d.model
      BY <1>1, <1>3, <1>5
    <2>2. \A x, y \in devices' : x.key = y.key => x = y
      BY <1>1, <1>3, <1>5 DEF DevicesOK
    <2> QED  BY <2>1, <2>2, DevicesChange
  <1> QED  BY <1>1, <1>3, <1>4, <1>6

LEMMA ReplacesKept ==
  ASSUME TunersInv, NEW p \in Passes, Replaces(p)  PROVE TunersInv'
  <1>1. /\ pass[p].step = "replace" /\ PassOK(pass[p]) /\ DevicesOK /\ plexFails \in Nat
        /\ DOMAIN pass[p] = PassFields /\ pass[p].step \in Working
        /\ pass[p].calm => WorkHolds(pass[p])
    BY PassTypes DEF Replaces, At, CalmHolds, PassOK, Working
  <1>2. playlists' = playlists /\ tunerLineup' = tunerLineup /\ made' = made
    BY DEF Replaces, kept, settingsVars
  <1>3. CASE SourceDone(p, FALSE) /\ devices' = devices /\ plexFails' \in {plexFails, plexFails + 1}
    <2>1. DevicesOK'
      BY <1>1, <1>2, <1>3 DEF DevicesOK, DeviceOK
    <2> QED  BY <1>1, <1>2, <1>3, <2>1, SourceFails
  <1>4. CASE Dropped(pass[p].stale.key, pass[p].stale.dvr) /\ plexFails' = plexFails
             /\ pass' = [pass EXCEPT ![p].step = "create", ![p].replaced = TRUE]
    <2>1. PICK r : r = [pass[p] EXCEPT !.step = "create", !.replaced = TRUE]
      OBVIOUS
    <2>2. /\ DOMAIN r = PassFields /\ r.step = "create" /\ r.want = pass[p].want /\ r.todo = pass[p].todo
          /\ r.uri = pass[p].uri /\ r.clean = pass[p].clean /\ r.calm = pass[p].calm /\ r.tuner = pass[p].tuner
          /\ r.channels = pass[p].channels /\ r.stale = pass[p].stale
      BY <1>1, <2>1 DEF PassFields
    <2>3. pass' = [pass EXCEPT ![p] = r]
      BY <1>1, <1>4, <2>1, PassTypes DEF PassFields, Working
    <2>4. /\ DevicesOK' /\ \A d \in devices : d.key # r.stale.key => d \in devices'
          /\ \A e \in devices' : \E d \in devices : d.key = e.key /\ d.model = e.model
      BY <1>1, <1>2, <1>4, <2>2, DroppedAre
    <2>5. r.calm => WorkHolds(pass[p])
      BY <1>1, <2>2
    <2>6. r.calm => r.channels = tunerLineup[r.tuner] /\ \A d \in devices : d.key = r.stale.key => d.model = r.tuner
      BY <1>1, <2>2, <2>5 DEF WorkHolds
    <2>7. r.calm => WorkHolds(r)'
      BY <1>2, <2>2, <2>4, <2>6 DEF WorkHolds, OnTarget
    <2>8. pass[p].calm => \A d \in devices : d.model # pass[p].tuner => d \in devices'
      BY <2>2, <2>4, <2>6
    <2>9. r.step \in Working /\ plexFails' \in {plexFails, plexFails + 1}
      BY <1>4, <2>2 DEF Working
    <2> QED  BY <1>1, <1>2, <2>2, <2>3, <2>4, <2>7, <2>8, <2>9, WorkGoesOn
  <1> QED  BY <1>1, <1>3, <1>4 DEF Replaces, Fails

\* A pass stays with its tuner ...
LEMMA TargetGoesOn ==
  ASSUME TunersInv, NEW p \in Passes, pass[p].step \in OnTarget, NEW r, pass' = [pass EXCEPT ![p] = r],
         DOMAIN r = PassFields, r.step \in OnTarget, \A x \in PassFields \ {"step", "seen"} : r[x] = pass[p][x],
         DevicesOK', playlists' = playlists, tunerLineup' = tunerLineup, plexFails' = plexFails,
         r.calm => \A d \in devices : d.model # pass[p].tuner => d \in devices',
         r.calm => TargetHolds(r)'
  PROVE  TunersInv'
  <1>1. /\ r.want = pass[p].want /\ r.todo = pass[p].todo /\ r.uri = pass[p].uri /\ r.clean = pass[p].clean
        /\ r.calm = pass[p].calm /\ r.tuner = pass[p].tuner /\ r.channels = pass[p].channels
    BY DEF PassFields
  <1>2. pass[p].step \in Working /\ r.step \in Working
    BY DEF Working
  <1>3. pass[p].calm => WorkHolds(pass[p])
    BY <1>2, PassTypes DEF CalmHolds, Working, OnTarget
  <1>4. r.calm => WorkHolds(r)'
    BY <1>1, <1>2, <1>3 DEF WorkHolds, OnTarget
  <1> QED  BY <1>1, <1>2, <1>4, WorkGoesOn

\* ... changes it, and no other.
LEMMA TargetPut ==
  ASSUME TunersInv, NEW p \in Passes, pass[p].step \in OnTarget, made' = made,
         NEW X, NEW f, X \subseteq devices, \A d \in devices : d \in X <=> d.key = pass[p].target.key,
         \A d \in X : DOMAIN f[d] = DOMAIN d /\ f[d].key = d.key /\ f[d].model = d.model,
         \A x \in devices' : x \in devices \ X \/ \E d \in X : x = f[d],
         \A d \in devices \ X : d \in devices', \A d \in X : f[d] \in devices'
  PROVE  /\ DevicesOK'
         /\ pass[p].calm => /\ \A d \in devices : d.model # pass[p].tuner => d \in devices'
                            /\ \E d \in X : TargetIs(pass[p], d) /\ f[d] \in devices'
  <1>1. DevicesOK /\ (pass[p].calm => TargetHolds(pass[p]))
    BY PassTypes DEF CalmHolds, WorkHolds, OnTarget
  <1>2. DevicesOK'
    <2>1. \A x \in devices' : \E d \in devices : DOMAIN x = DOMAIN d /\ x.key = d.key /\ x.model = d.model
      OBVIOUS
    <2>2. \A x, y \in devices' : x.key = y.key => x = y
      BY <1>1 DEF DevicesOK
    <2> QED  BY <1>1, <2>1, <2>2, DevicesChange
  <1>3. ASSUME pass[p].calm
        PROVE  /\ \A d \in devices : d.model # pass[p].tuner => d \in devices'
               /\ \E d \in X : TargetIs(pass[p], d) /\ f[d] \in devices'
    <2>1. PICK w \in devices : TargetIs(pass[p], w)
      BY <1>1, <1>3 DEF TargetHolds
    <2>2. w.key = pass[p].target.key /\ w.model = pass[p].tuner
      BY <2>1 DEF TargetIs
    <2>3. \A d \in X : d = w
      BY <1>1, <2>2 DEF DevicesOK
    <2> QED  BY <2>1, <2>2, <2>3
  <1> QED  BY <1>2, <1>3

LEMMA OnTargetIs ==
  ASSUME TunersInv, NEW p \in Passes, pass[p].step \in OnTarget
  PROVE  /\ pass[p].step \in Working /\ pass[p].step # "idle" /\ PassOK(pass[p]) /\ DOMAIN pass[p] = PassFields
         /\ DevicesOK /\ plexFails \in Nat
         /\ pass[p].calm => TargetHolds(pass[p]) /\ WorkHolds(pass[p])
  BY PassTypes DEF CalmHolds, WorkHolds, PassOK, OnTarget, Working

LEMMA CreatesDvrKept ==
  ASSUME TunersInv, NEW p \in Passes, CreatesDvr(p)  PROVE TunersInv'
  <1>1. pass[p].step = "dvr" /\ Dvrs(pass[p].seen) = {} /\ playlists' = playlists /\ tunerLineup' = tunerLineup /\ made' = made
    BY DEF CreatesDvr, At, kept, settingsVars
  <1>2. pass[p].step \in OnTarget
    BY <1>1 DEF OnTarget
  <1>3. CASE Fails /\ SourceDone(p, FALSE) /\ UNCHANGED devices
    <2>1. DevicesOK'
      BY <1>1, <1>2, <1>3, OnTargetIs DEF DevicesOK, DeviceOK
    <2> QED  BY <1>1, <1>2, <1>3, <2>1, OnTargetIs, SourceFails DEF Fails
  <1>4. CASE /\ devices' = {IF d.key = pass[p].target.key THEN [d EXCEPT !.dvr = "ours"] ELSE d : d \in devices}
             /\ Goes(p, "lookDvrs") /\ UNCHANGED plexFails
    <2>1. PICK X : X = {d \in devices : d.key = pass[p].target.key}
      OBVIOUS
    <2>2. PICK f : f = [d \in X |-> [d EXCEPT !.dvr = "ours"]]
      OBVIOUS
    <2>3. \A d \in X : /\ DOMAIN f[d] = DOMAIN d /\ f[d].key = d.key /\ f[d].model = d.model
                       /\ f[d].mapped = d.mapped /\ f[d].uri = d.uri /\ f[d].on = d.on
      BY <1>2, <2>1, <2>2, OnTargetIs DEF DevicesOK, DeviceOK, DeviceFields
    <2>4. /\ \A x \in devices' : x \in devices \ X \/ \E d \in X : x = f[d]
          /\ \A d \in devices \ X : d \in devices'
          /\ \A d \in X : f[d] \in devices'
      BY <1>4, <2>1, <2>2
    <2>5. /\ DevicesOK'
          /\ pass[p].calm => /\ \A d \in devices : d.model # pass[p].tuner => d \in devices'
                             /\ \E d \in X : TargetIs(pass[p], d) /\ f[d] \in devices'
      <3>1. X \subseteq devices /\ \A d \in devices : d \in X <=> d.key = pass[p].target.key
        BY <2>1
      <3>2. \A d \in X : DOMAIN f[d] = DOMAIN d /\ f[d].key = d.key /\ f[d].model = d.model
        BY <2>3
      <3>3. pass[p].step \in OnTarget /\ made' = made
        BY <1>1, <1>2
      <3> QED  BY <2>4, <3>1, <3>2, <3>3, TargetPut, ZenonT(30)
    <2>6. PICK r : /\ pass' = [pass EXCEPT ![p] = r] /\ DOMAIN r = PassFields /\ r.step = "lookDvrs"
                   /\ \A x \in PassFields \ {"step"} : r[x] = pass[p][x]
      BY <1>1, <1>4, GoesIs
    <2>7. /\ r.target = pass[p].target /\ r.seen = pass[p].seen /\ r.uri = pass[p].uri
          /\ r.tuner = pass[p].tuner /\ r.calm = pass[p].calm
      BY <2>6 DEF PassFields
    <2>8. ASSUME r.calm  PROVE TargetHolds(r)'
      <3>1. PICK d \in X : TargetIs(pass[p], d) /\ f[d] \in devices'
        BY <2>5, <2>7, <2>8
      <3>2. pass[p].target.dvr = Detached
        BY <1>1, <1>2, <2>7, <2>8, OnTargetIs DEF TargetHolds
      <3>3. TargetIs(r, f[d])
        BY <1>1, <2>3, <2>6, <2>7, <3>1, <3>2 DEF TargetIs
      <3>4. TargetIs(r, f[d])'
        BY <1>4, <3>3 DEF TargetIs
      <3> QED  BY <1>1, <2>6, <2>7, <3>1, <3>4 DEF TargetHolds
    <2>9. r.step \in OnTarget
      BY <2>6 DEF OnTarget
    <2> QED  BY <1>1, <1>2, <1>4, <2>5, <2>6, <2>7, <2>8, <2>9, TargetGoesOn
  <1> QED  BY <1>1, <1>3, <1>4 DEF CreatesDvr

LEMMA LooksForDvrKept ==
  ASSUME TunersInv, NEW p \in Passes, LooksForDvr(p)  PROVE TunersInv'
  <1>1. pass[p].step = "lookDvrs" /\ pass[p].step \in OnTarget
    BY DEF LooksForDvr, At, OnTarget
  <1>2. /\ playlists' = playlists /\ tunerLineup' = tunerLineup /\ DevicesOK' /\ plexFails' = plexFails
        /\ devices' = devices /\ plexFails \in Nat
    BY QuietStep DEF LooksForDvr, TunersInv, PlexTypeOK
  <1>3. PICK s \in {"aborted", "dvr"} : pass' = [pass EXCEPT ![p].seen = Attached(devices), ![p].step = s]
    BY DEF LooksForDvr
  <1>4. PICK r : r = [pass[p] EXCEPT !.seen = Attached(devices), !.step = s]
    OBVIOUS
  <1>5. /\ DOMAIN r = PassFields /\ r.step = s /\ r.seen = Attached(devices)
        /\ \A x \in PassFields \ {"step", "seen"} : r[x] = pass[p][x]
    BY <1>1, <1>4, OnTargetIs DEF PassFields
  <1>6. pass' = [pass EXCEPT ![p] = r] /\ pass[p] # NoPass
    BY <1>1, <1>3, <1>4, OnTargetIs, PassTypes DEF PassFields
  <1>7. /\ r.target = pass[p].target /\ r.uri = pass[p].uri /\ r.tuner = pass[p].tuner /\ r.calm = pass[p].calm
        /\ r.clean = pass[p].clean
    BY <1>5 DEF PassFields
  <1>8. CASE s = "aborted"
    <2>1. PassOK(r) /\ CalmHolds(r)'
      BY <1>1, <1>5, <1>7, <1>8, OnTargetIs
         DEF PassOK, CalmHolds, SourcesServed, WorkHolds, SweepHolds, Working, OnTarget, Ending
    <2> QED  BY <1>2, <1>6, <1>7, <2>1, PassGoesOn
  <1>9. CASE s = "dvr"
    <2>1. ASSUME r.calm  PROVE TargetHolds(r)'
      <3>1. PICK d \in devices : TargetIs(pass[p], d)
        BY <1>1, <1>7, <2>1, OnTargetIs DEF TargetHolds
      <3>2. TargetIs(r, d)
        BY <1>1, <1>5, <1>7, <1>9, <3>1 DEF TargetIs
      <3>3. TargetHolds(r)
        BY <1>5, <1>9, <3>2, AttachedHave DEF TargetHolds, TargetIs
      <3> QED  BY <1>2, <3>3 DEF TargetHolds, TargetIs
    <2>2. r.step \in OnTarget
      BY <1>5, <1>9 DEF OnTarget
    <2> QED  BY <1>1, <1>2, <1>5, <1>6, <2>1, <2>2, TargetGoesOn
  <1> QED  BY <1>8, <1>9

LEMMA HasDvrKept ==
  ASSUME TunersInv, NEW p \in Passes, HasDvr(p)  PROVE TunersInv'
  <1>1. pass[p].step = "dvr" /\ pass[p].step \in OnTarget
    BY DEF HasDvr, At, OnTarget
  <1>2. /\ playlists' = playlists /\ tunerLineup' = tunerLineup /\ DevicesOK' /\ plexFails' = plexFails
        /\ devices' = devices /\ plexFails \in Nat
    BY QuietStep DEF HasDvr, TunersInv, PlexTypeOK
  <1>3. CASE SourceDone(p, FALSE)
    BY <1>1, <1>2, <1>3, OnTargetIs, SourceFails
  <1>4. CASE Goes(p, "enable")
    <2>1. PICK r : /\ pass' = [pass EXCEPT ![p] = r] /\ DOMAIN r = PassFields /\ r.step = "enable"
                   /\ \A x \in PassFields \ {"step"} : r[x] = pass[p][x]
      BY <1>1, <1>4, GoesIs
    <2>2. /\ r.target = pass[p].target /\ r.seen = pass[p].seen /\ r.uri = pass[p].uri
          /\ r.tuner = pass[p].tuner /\ r.calm = pass[p].calm
      BY <2>1 DEF PassFields
    <2>3. ASSUME r.calm  PROVE TargetHolds(r)
      <3>1. PICK d \in devices : TargetIs(pass[p], d)
        BY <1>1, <2>2, <2>3, OnTargetIs DEF TargetHolds
      <3>2. TargetIs(r, d)
        BY <1>1, <2>1, <2>2, <3>1 DEF TargetIs
      <3>3. \A v \in Dvrs(r.seen) : v # Detached
        BY <1>1, <2>2, <2>3, OnTargetIs DEF TargetHolds
      <3> QED  BY <2>1, <3>2, <3>3 DEF TargetHolds
    <2>4. r.calm => TargetHolds(r)'
      BY <1>2, <2>3 DEF TargetHolds, TargetIs
    <2>5. r.step \in OnTarget
      BY <2>1 DEF OnTarget
    <2> QED  BY <1>1, <1>2, <2>1, <2>4, <2>5, TargetGoesOn
  <1> QED  BY <1>3, <1>4 DEF HasDvr

LEMMA PutKept ==
  ASSUME TunersInv, NEW p \in Passes, pass[p].step \in OnTarget, UNCHANGED <<kept, made>>,
         SourceDone(p, FALSE), devices' = devices, plexFails' = plexFails \/ Fails
  PROVE  TunersInv'
  <1>1. playlists' = playlists /\ tunerLineup' = tunerLineup /\ plexFails' \in {plexFails, plexFails + 1}
    BY DEF kept, settingsVars, Fails
  <1>2. DevicesOK'
    BY OnTargetIs DEF DevicesOK, DeviceOK
  <1> QED  BY <1>1, <1>2, OnTargetIs, SourceFails

LEMMA EnablesDeviceKept ==
  ASSUME TunersInv, NEW p \in Passes, EnablesDevice(p)  PROVE TunersInv'
  <1>1. /\ pass[p].step = "enable" /\ pass[p].step \in OnTarget /\ UNCHANGED <<kept, made>>
        /\ playlists' = playlists /\ tunerLineup' = tunerLineup /\ made' = made
    BY DEF EnablesDevice, At, OnTarget, kept, settingsVars
  <1>2. CASE SourceDone(p, FALSE) /\ devices' = devices /\ (plexFails' = plexFails \/ Fails)
    BY <1>1, <1>2, PutKept
  <1>3. ASSUME Goes(p, "attach"), plexFails' = plexFails, DevicesOK',
               pass[p].calm => /\ \A d \in devices : d.model # pass[p].tuner => d \in devices'
                               /\ \E d \in devices, e \in devices' :
                                     /\ TargetIs(pass[p], d) /\ e.on /\ e.key = d.key /\ e.model = d.model
                                     /\ e.uri = d.uri /\ e.mapped = d.mapped /\ e.dvr = d.dvr
        PROVE  TunersInv'
    <2>1. PICK r : /\ pass' = [pass EXCEPT ![p] = r] /\ DOMAIN r = PassFields /\ r.step = "attach"
                   /\ \A x \in PassFields \ {"step"} : r[x] = pass[p][x]
      BY <1>1, <1>3, GoesIs
    <2>2. /\ r.target = pass[p].target /\ r.seen = pass[p].seen /\ r.uri = pass[p].uri
          /\ r.tuner = pass[p].tuner /\ r.calm = pass[p].calm
      BY <2>1 DEF PassFields
    <2>3. ASSUME r.calm  PROVE TargetHolds(r)'
      <3>1. PICK d \in devices, e \in devices' :
                /\ TargetIs(pass[p], d) /\ e.on /\ e.key = d.key /\ e.model = d.model
                /\ e.uri = d.uri /\ e.mapped = d.mapped /\ e.dvr = d.dvr
        BY <1>3, <2>2, <2>3
      <3>2. TargetIs(r, e)
        BY <1>1, <2>1, <2>2, <3>1 DEF TargetIs
      <3>3. TargetIs(r, e)'
        BY <1>3, <3>2 DEF TargetIs
      <3>4. \A v \in Dvrs(r.seen) : v # Detached
        BY <1>1, <2>2, <2>3, OnTargetIs DEF TargetHolds
      <3> QED  BY <2>1, <3>1, <3>3, <3>4 DEF TargetHolds
    <2>4. r.step \in OnTarget
      BY <2>1 DEF OnTarget
    <2> QED  BY <1>1, <1>3, <2>1, <2>2, <2>3, <2>4, TargetGoesOn
  <1>4. CASE pass[p].target.on /\ Goes(p, "attach") /\ UNCHANGED <<devices, plexFails>>
    <2>1. DevicesOK'
      BY <1>1, <1>4, OnTargetIs DEF DevicesOK, DeviceOK
    <2>2. pass[p].calm => \E d \in devices : TargetIs(pass[p], d) /\ d.on
      BY <1>1, <1>4, OnTargetIs DEF TargetHolds, TargetIs
    <2> QED  BY <1>3, <1>4, <2>1, <2>2
  <1>5. CASE /\ Goes(p, "attach") /\ plexFails' = plexFails
             /\ devices' = (devices \ Targeted(p)) \union {[d EXCEPT !.on = TRUE] : d \in Targeted(p)}
    <2>1. PICK X : X = Targeted(p)
      OBVIOUS
    <2>2. PICK f : f = [d \in X |-> [d EXCEPT !.on = TRUE]]
      OBVIOUS
    <2>3. X \subseteq devices /\ \A d \in devices : d \in X <=> d.key = pass[p].target.key
      BY <2>1 DEF Targeted
    <2>4. \A d \in X : /\ DOMAIN f[d] = DOMAIN d /\ f[d].key = d.key /\ f[d].model = d.model /\ f[d].on = TRUE
                       /\ f[d].uri = d.uri /\ f[d].mapped = d.mapped /\ f[d].dvr = d.dvr
      BY <1>1, <2>2, <2>3, OnTargetIs DEF DevicesOK, DeviceOK, DeviceFields
    <2>5. /\ \A x \in devices' : x \in devices \ X \/ \E d \in X : x = f[d]
          /\ \A d \in devices \ X : d \in devices'
          /\ \A d \in X : f[d] \in devices'
      BY <1>5, <2>1, <2>2
    <2>6. \A d \in X : DOMAIN f[d] = DOMAIN d /\ f[d].key = d.key /\ f[d].model = d.model
      BY <2>4
    <2>7. /\ DevicesOK'
          /\ pass[p].calm => /\ \A d \in devices : d.model # pass[p].tuner => d \in devices'
                             /\ \E d \in X : TargetIs(pass[p], d) /\ f[d] \in devices'
      BY <1>1, <2>3, <2>5, <2>6, TargetPut
    <2>8. ASSUME pass[p].calm
          PROVE  \E d \in devices, e \in devices' :
                    /\ TargetIs(pass[p], d) /\ e.on /\ e.key = d.key /\ e.model = d.model
                    /\ e.uri = d.uri /\ e.mapped = d.mapped /\ e.dvr = d.dvr
      <3>1. PICK d \in X : TargetIs(pass[p], d) /\ f[d] \in devices'
        BY <2>7, <2>8
      <3> QED  BY <2>3, <2>4, <3>1
    <2> QED  BY <1>3, <1>5, <2>7, <2>8
  <1> QED  BY <1>2, <1>4, <1>5 DEF EnablesDevice, Puts

LEMMA ResolvedIsAttached ==
  ASSUME NEW seen, \A v \in Dvrs(seen) : v # Detached
  PROVE  ResolvedDvr(seen) # Detached
  <1>1. CASE Cardinality(Dvrs(seen)) = 1
    <2>1. Dvrs(seen) # {}
      BY <1>1, FS_EmptySet
    <2> QED  BY <1>1, <2>1 DEF ResolvedDvr
  <1> QED  BY <1>1 DEF ResolvedDvr, Detached

LEMMA AttachesKept ==
  ASSUME TunersInv, NEW p \in Passes, Attaches(p)  PROVE TunersInv'
  <1>1. /\ pass[p].step = "attach" /\ pass[p].step \in OnTarget /\ UNCHANGED <<kept, made>>
        /\ playlists' = playlists /\ tunerLineup' = tunerLineup /\ made' = made
    BY DEF Attaches, At, OnTarget, kept, settingsVars
  <1>2. CASE SourceDone(p, FALSE) /\ devices' = devices /\ (plexFails' = plexFails \/ Fails)
    BY <1>1, <1>2, PutKept
  <1>3. ASSUME Goes(p, "map"), plexFails' = plexFails, DevicesOK',
               pass[p].calm => /\ \A d \in devices : d.model # pass[p].tuner => d \in devices'
                               /\ \E d \in devices, e \in devices' :
                                     /\ TargetIs(pass[p], d) /\ e.on = d.on /\ e.key = d.key /\ e.model = d.model
                                     /\ e.uri = d.uri /\ e.mapped = d.mapped /\ e.dvr # Detached
        PROVE  TunersInv'
    <2>1. PICK r : /\ pass' = [pass EXCEPT ![p] = r] /\ DOMAIN r = PassFields /\ r.step = "map"
                   /\ \A x \in PassFields \ {"step"} : r[x] = pass[p][x]
      BY <1>1, <1>3, GoesIs
    <2>2. /\ r.target = pass[p].target /\ r.seen = pass[p].seen /\ r.uri = pass[p].uri
          /\ r.tuner = pass[p].tuner /\ r.calm = pass[p].calm
      BY <2>1 DEF PassFields
    <2>3. ASSUME r.calm  PROVE TargetHolds(r)'
      <3>1. PICK d \in devices, e \in devices' :
                /\ TargetIs(pass[p], d) /\ e.on = d.on /\ e.key = d.key /\ e.model = d.model
                /\ e.uri = d.uri /\ e.mapped = d.mapped /\ e.dvr # Detached
        BY <1>3, <2>2, <2>3
      <3>2. TargetIs(r, e)
        BY <1>1, <2>1, <2>2, <3>1 DEF TargetIs
      <3>3. TargetIs(r, e)'
        BY <1>3, <3>2 DEF TargetIs
      <3>4. \A v \in Dvrs(r.seen) : v # Detached
        BY <1>1, <2>2, <2>3, OnTargetIs DEF TargetHolds
      <3> QED  BY <2>1, <3>1, <3>3, <3>4 DEF TargetHolds
    <2>4. r.step \in OnTarget
      BY <2>1 DEF OnTarget
    <2> QED  BY <1>1, <1>3, <2>1, <2>2, <2>3, <2>4, TargetGoesOn
  <1>4. PICK dvr : dvr = ResolvedDvr(pass[p].seen)
    OBVIOUS
  <1>5. pass[p].calm => dvr # Detached
    BY <1>1, <1>4, OnTargetIs, ResolvedIsAttached DEF TargetHolds
  <1>6. CASE pass[p].target.dvr = dvr /\ Goes(p, "map") /\ UNCHANGED <<devices, plexFails>>
    <2>1. DevicesOK'
      BY <1>1, <1>6, OnTargetIs DEF DevicesOK, DeviceOK
    <2>2. pass[p].calm => \E d \in devices : TargetIs(pass[p], d) /\ d.dvr # Detached
      BY <1>1, <1>5, <1>6, OnTargetIs DEF TargetHolds, TargetIs
    <2> QED  BY <1>3, <1>6, <2>1, <2>2
  <1>7. CASE /\ Goes(p, "map") /\ plexFails' = plexFails
             /\ devices' = (devices \ Targeted(p)) \union {[d EXCEPT !.dvr = dvr] : d \in Targeted(p)}
    <2>1. PICK X : X = Targeted(p)
      OBVIOUS
    <2>2. PICK f : f = [d \in X |-> [d EXCEPT !.dvr = dvr]]
      OBVIOUS
    <2>3. X \subseteq devices /\ \A d \in devices : d \in X <=> d.key = pass[p].target.key
      BY <2>1 DEF Targeted
    <2>4. \A d \in X : /\ DOMAIN f[d] = DOMAIN d /\ f[d].key = d.key /\ f[d].model = d.model /\ f[d].on = d.on
                       /\ f[d].uri = d.uri /\ f[d].mapped = d.mapped /\ f[d].dvr = dvr
      BY <1>1, <2>2, <2>3, OnTargetIs DEF DevicesOK, DeviceOK, DeviceFields
    <2>5. /\ \A x \in devices' : x \in devices \ X \/ \E d \in X : x = f[d]
          /\ \A d \in devices \ X : d \in devices'
          /\ \A d \in X : f[d] \in devices'
      BY <1>7, <2>1, <2>2
    <2>6. \A d \in X : DOMAIN f[d] = DOMAIN d /\ f[d].key = d.key /\ f[d].model = d.model
      BY <2>4
    <2>7. /\ DevicesOK'
          /\ pass[p].calm => /\ \A d \in devices : d.model # pass[p].tuner => d \in devices'
                             /\ \E d \in X : TargetIs(pass[p], d) /\ f[d] \in devices'
      BY <1>1, <2>3, <2>5, <2>6, TargetPut
    <2>8. ASSUME pass[p].calm
          PROVE  \E d \in devices, e \in devices' :
                    /\ TargetIs(pass[p], d) /\ e.on = d.on /\ e.key = d.key /\ e.model = d.model
                    /\ e.uri = d.uri /\ e.mapped = d.mapped /\ e.dvr # Detached
      <3>1. PICK d \in X : TargetIs(pass[p], d) /\ f[d] \in devices'
        BY <2>7, <2>8
      <3> QED  BY <1>5, <2>3, <2>4, <2>8, <3>1
    <2> QED  BY <1>3, <1>7, <2>7, <2>8
  <1> QED  BY <1>2, <1>4, <1>6, <1>7 DEF Attaches, Puts

LEMMA MapsChannelsKept ==
  ASSUME TunersInv, NEW p \in Passes, MapsChannels(p)  PROVE TunersInv'
  <1>1. /\ pass[p].step = "map" /\ pass[p].step \in OnTarget /\ UNCHANGED <<kept, made>>
        /\ playlists' = playlists /\ tunerLineup' = tunerLineup /\ made' = made
    BY DEF MapsChannels, At, OnTarget, kept, settingsVars
  <1>2. CASE SourceDone(p, FALSE) /\ devices' = devices /\ (plexFails' = plexFails \/ Fails)
    BY <1>1, <1>2, PutKept
  <1>3. PICK t0, u, n : t0 = pass[p].tuner /\ u = pass[p].uri /\ n = pass[p].channels
    OBVIOUS
  <1>4. pass[p].calm => tunerLineup[t0] = n
    BY <1>1, <1>3, OnTargetIs DEF WorkHolds
  <1>5. ASSUME SourceDone(p, TRUE), plexFails' = plexFails, DevicesOK',
               pass[p].calm => /\ \A d \in devices : d.model # pass[p].tuner => d \in devices'
                               /\ \E d \in devices, e \in devices' :
                                     /\ TargetIs(pass[p], d) /\ e.on = d.on /\ e.model = d.model
                                     /\ e.uri = d.uri /\ e.mapped = n /\ e.dvr = d.dvr
        PROVE  TunersInv'
    <2>1. ASSUME pass[p].calm  PROVE Served(t0, u)'
      <3>1. PICK d \in devices, e \in devices' :
               /\ TargetIs(pass[p], d) /\ e.on = d.on /\ e.model = d.model
               /\ e.uri = d.uri /\ e.mapped = n /\ e.dvr = d.dvr
        BY <1>5, <2>1
      <3>2. e.model = t0 /\ e.on /\ e.dvr # Detached /\ (plexFails = 0 => e.uri = u)
        BY <1>1, <1>3, <3>1 DEF TargetIs
      <3>3. e \in devices' /\ e.mapped = tunerLineup'[t0] /\ plexFails' = plexFails
        BY <1>1, <1>4, <1>5, <2>1, <3>1
      <3> QED  BY <3>2, <3>3 DEF Served
    <2>2. PICK b : b = pass[p]
      OBVIOUS
    <2>3. /\ DOMAIN b = PassFields /\ pass' = [pass EXCEPT ![p] = Result(b, TRUE)]
          /\ \A x \in {"want", "todo", "uri", "clean", "calm"} : b[x] = pass[p][x]
          /\ pass[p].step \in Working /\ plexFails' \in {plexFails, plexFails + 1} /\ TRUE \in BOOLEAN
      BY <1>1, <1>5, <2>2, OnTargetIs DEF SourceDone
    <2> QED  BY <1>1, <1>3, <1>5, <2>1, <2>3, SourceEnds
  <1>6. CASE HasChannels(pass[p].target, n) /\ SourceDone(p, TRUE) /\ UNCHANGED <<devices, plexFails>>
    <2>1. DevicesOK'
      BY <1>1, <1>6, OnTargetIs DEF DevicesOK, DeviceOK
    <2>2. pass[p].calm => \E d \in devices : TargetIs(pass[p], d) /\ d.mapped = n
      BY <1>1, <1>6, OnTargetIs DEF TargetHolds, TargetIs, HasChannels
    <2> QED  BY <1>5, <1>6, <2>1, <2>2
  <1>7. CASE /\ SourceDone(p, TRUE) /\ plexFails' = plexFails
             /\ devices' = (devices \ Targeted(p)) \union {WithChannels(d, n) : d \in Targeted(p)}
    <2>1. PICK X : X = Targeted(p)
      OBVIOUS
    <2>2. PICK f : f = [d \in X |-> WithChannels(d, n)]
      OBVIOUS
    <2>3. X \subseteq devices /\ \A d \in devices : d \in X <=> d.key = pass[p].target.key
      BY <2>1 DEF Targeted
    <2>4. \A d \in X : /\ DOMAIN f[d] = DOMAIN d /\ f[d].key = d.key /\ f[d].model = d.model /\ f[d].on = d.on
                       /\ f[d].uri = d.uri /\ f[d].mapped = n /\ f[d].dvr = d.dvr
      BY <1>1, <2>2, <2>3, OnTargetIs DEF DevicesOK, DeviceOK, DeviceFields, WithChannels
    <2>5. /\ \A x \in devices' : x \in devices \ X \/ \E d \in X : x = f[d]
          /\ \A d \in devices \ X : d \in devices'
          /\ \A d \in X : f[d] \in devices'
      BY <1>7, <2>1, <2>2
    <2>6. \A d \in X : DOMAIN f[d] = DOMAIN d /\ f[d].key = d.key /\ f[d].model = d.model
      BY <2>4
    <2>7. /\ DevicesOK'
          /\ pass[p].calm => /\ \A d \in devices : d.model # pass[p].tuner => d \in devices'
                             /\ \E d \in X : TargetIs(pass[p], d) /\ f[d] \in devices'
      BY <1>1, <2>3, <2>5, <2>6, TargetPut
    <2>8. ASSUME pass[p].calm
          PROVE  \E d \in devices, e \in devices' :
                    /\ TargetIs(pass[p], d) /\ e.on = d.on /\ e.model = d.model
                    /\ e.uri = d.uri /\ e.mapped = n /\ e.dvr = d.dvr
      <3>1. PICK d \in X : TargetIs(pass[p], d) /\ f[d] \in devices'
        BY <2>7, <2>8
      <3> QED  BY <2>3, <2>4, <3>1
    <2> QED  BY <1>5, <1>7, <2>7, <2>8
  <1> QED  BY <1>2, <1>3, <1>6, <1>7 DEF MapsChannels, Puts

\* The sweep: what is not wanted goes, and nothing that is.
LEMMA SweepBeginsKept ==
  ASSUME TunersInv, NEW p \in Passes, SweepBegins(p)  PROVE TunersInv'
  <1>1. /\ pass[p].step = "next" /\ pass[p].todo = {} /\ PassOK(pass[p]) /\ pass[p] # NoPass
        /\ DOMAIN pass[p] = PassFields /\ pass[p].clean \in BOOLEAN /\ DevicesOK
        /\ pass[p].calm => SourcesServed(pass[p])
    BY PassTypes DEF SweepBegins, At, CalmHolds, PassOK
  <1>2. /\ playlists' = playlists /\ tunerLineup' = tunerLineup /\ DevicesOK' /\ plexFails' = plexFails
        /\ \A t, u : Served(t, u) => Served(t, u)'
        /\ devices' = devices /\ plexFails \in Nat
    BY QuietStep DEF SweepBegins, TunersInv, PlexTypeOK
  <1>3. CASE pass[p].clean
    <2>1. PICK D : D = Unwanted(pass[p])
      OBVIOUS
    <2>2. PICK r : r = [pass[p] EXCEPT !.step = "sweep", !.seen = Attached(devices), !.todo = D]
      OBVIOUS
    <2>3. pass' = [pass EXCEPT ![p] = r]
      BY <1>3, <2>1, <2>2 DEF SweepBegins
    <2>4. /\ DOMAIN r = PassFields /\ r.step = "sweep" /\ r.todo = D /\ r.want = pass[p].want
          /\ r.uri = pass[p].uri /\ r.clean = pass[p].clean /\ r.calm = pass[p].calm
      BY <1>1, <2>2 DEF PassFields
    <2>5. PassOK(r)
      BY <1>1, <2>4 DEF PassOK, Working, OnTarget, Ending
    <2>6. ASSUME r.calm  PROVE CalmHolds(r)'
      <3>1. SourcesServed(r)'
        BY <1>1, <1>2, <2>4, <2>6 DEF SourcesServed, Working, OnTarget, Ending
      <3>2. WorkHolds(r)'
        BY <2>4 DEF WorkHolds, Working, OnTarget
      <3>3. SweepHolds(r)'
        BY <1>1, <1>2, <2>1, <2>4 DEF SweepHolds, DevicesOK, Unwanted, SameKey
      <3> QED  BY <3>1, <3>2, <3>3 DEF CalmHolds
    <2> QED  BY <1>1, <1>2, <2>3, <2>4, <2>5, <2>6, PassGoesOn
  <1>4. CASE ~pass[p].clean
    <2>1. PICK r : r = [pass[p] EXCEPT !.step = "done"]
      OBVIOUS
    <2>2. pass' = [pass EXCEPT ![p] = r]
      BY <1>4, <2>1 DEF SweepBegins
    <2>3. DOMAIN r = PassFields /\ r.step = "done" /\ r.clean = pass[p].clean /\ r.calm = pass[p].calm
      BY <1>1, <2>1 DEF PassFields
    <2>4. PassOK(r)
      BY <1>1, <2>3 DEF PassOK, Working, OnTarget, Ending
    <2>5. CalmHolds(r)'
      BY <1>4, <2>3 DEF CalmHolds, SourcesServed, WorkHolds, SweepHolds, Working, OnTarget, Ending
    <2> QED  BY <1>1, <1>2, <2>2, <2>3, <2>4, <2>5, PassGoesOn
  <1> QED  BY <1>3, <1>4

\* What is known in a sweep.
LEMMA SweepIs ==
  ASSUME TunersInv, NEW p \in Passes, pass[p].step \in {"sweep", "refresh"}
  PROVE  /\ PassOK(pass[p]) /\ pass[p] # NoPass /\ DOMAIN pass[p] = PassFields
         /\ pass[p].clean \in BOOLEAN /\ pass[p].calm \in BOOLEAN /\ DevicesOK /\ plexFails \in Nat
         /\ pass[p].calm =>
              /\ \A d \in pass[p].todo : /\ d.model \notin pass[p].want
                                         /\ \A e \in devices : e.key = d.key => e.model = d.model
              /\ pass[p].clean =>
                   /\ \A t \in pass[p].want : Served(t, pass[p].uri)
                   /\ \A d \in devices : d.dvr # Detached /\ d.model \in Tuners \ pass[p].want
                                         /\ SameKey(d, pass[p].uri) => d \in pass[p].todo
  BY PassTypes DEF CalmHolds, PassOK, SourcesServed, SweepHolds, Unwanted, Ending

\* A pass that sweeps goes on to r.
LEMMA SweepGoesOn ==
  ASSUME TunersInv, NEW p \in Passes, pass[p].step \in {"sweep", "refresh"}, NEW r, pass' = [pass EXCEPT ![p] = r],
         DOMAIN r = PassFields, r.step \in {"sweep", "refresh", "done"}, r.calm = pass[p].calm, r.clean \in BOOLEAN,
         DevicesOK', playlists' = playlists, plexFails' \in Nat,
         r.calm => /\ r.step # "done" => \A d \in r.todo : /\ d.model \notin r.want
                                                           /\ \A e \in devices' : e.key = d.key => e.model = d.model
                   /\ r.clean => /\ \A t \in r.want : Served(t, r.uri)'
                                 /\ \A d \in devices' : /\ d.dvr # Detached /\ d.model \in Tuners \ r.want
                                                        /\ SameKey(d, r.uri)
                                                        => r.step # "done" /\ d \in r.todo
  PROVE  TunersInv'
  <1>1. PassOK(r)
    BY SweepIs DEF PassOK, Working, OnTarget, Ending
  <1>2. r.calm => CalmHolds(r)'
    BY DEF CalmHolds, SourcesServed, WorkHolds, SweepHolds, Unwanted, Working, OnTarget, Ending
  <1> QED  BY <1>1, <1>2, SweepIs, PassGoesOn

LEMMA SweepQuietKept ==
  ASSUME TunersInv, NEW p \in Passes, SweepLooks(p) \/ SweepEnds(p)  PROVE TunersInv'
  <1>1. pass[p].step \in {"sweep", "refresh"}
    BY DEF SweepLooks, SweepEnds, At
  <1>2. /\ playlists' = playlists /\ DevicesOK' /\ plexFails' = plexFails /\ plexFails' \in Nat
        /\ \A t, u : Served(t, u) => Served(t, u)'
        /\ devices' = devices
    BY QuietStep DEF SweepLooks, SweepEnds, TunersInv, PlexTypeOK
  <1>3. CASE SweepLooks(p)
    <2>1. PICK r : r = [pass[p] EXCEPT !.seen = Attached(devices), !.step = "sweep"]
      OBVIOUS
    <2>2. /\ DOMAIN r = PassFields /\ r.step = "sweep" /\ r.todo = pass[p].todo /\ r.want = pass[p].want
          /\ r.uri = pass[p].uri /\ r.clean = pass[p].clean /\ r.calm = pass[p].calm
      BY <1>1, <2>1, SweepIs DEF PassFields
    <2>3. pass' = [pass EXCEPT ![p] = r]
      BY <1>1, <1>3, <2>1, SweepIs, PassTypes DEF SweepLooks, PassFields
    <2> QED  BY <1>1, <1>2, <2>2, <2>3, SweepIs, SweepGoesOn
  <1>4. CASE SweepEnds(p)
    <2>1. PICK r : /\ pass' = [pass EXCEPT ![p] = r] /\ DOMAIN r = PassFields /\ r.step = "done"
                   /\ \A x \in PassFields \ {"step"} : r[x] = pass[p][x]
      BY <1>1, <1>4, GoesIs DEF SweepEnds
    <2>2. /\ r.want = pass[p].want /\ r.uri = pass[p].uri /\ r.clean = pass[p].clean /\ r.calm = pass[p].calm
      BY <2>1 DEF PassFields
    <2>3. pass[p].todo = {}
      BY <1>4 DEF SweepEnds
    <2> QED  BY <1>1, <1>2, <2>1, <2>2, <2>3, SweepIs, SweepGoesOn
  <1> QED  BY <1>3, <1>4

LEMMA SweepsDeviceKept ==
  ASSUME TunersInv, NEW p \in Passes, SweepsDevice(p)  PROVE TunersInv'
  <1>1. /\ pass[p].step = "sweep" /\ pass[p].step \in {"sweep", "refresh"}
        /\ playlists' = playlists /\ tunerLineup' = tunerLineup /\ made' = made
    BY DEF SweepsDevice, At, kept, settingsVars
  <1>2. PICK d \in pass[p].todo :
          \/ /\ Dropped(d.key, d.dvr) /\ plexFails' = plexFails
             /\ pass' = [[pass EXCEPT ![p].todo = @ \ {d}] EXCEPT ![p].step = "refresh"]
          \/ /\ devices' = devices /\ (plexFails' = plexFails \/ Fails)
             /\ pass' = [[pass EXCEPT ![p].todo = @ \ {d}] EXCEPT ![p].clean = FALSE]
    BY DEF SweepsDevice
  <1>3. CASE /\ devices' = devices /\ (plexFails' = plexFails \/ Fails)
             /\ pass' = [[pass EXCEPT ![p].todo = @ \ {d}] EXCEPT ![p].clean = FALSE]
    <2>1. PICK r : r = [pass[p] EXCEPT !.todo = @ \ {d}, !.clean = FALSE]
      OBVIOUS
    <2>2. /\ DOMAIN r = PassFields /\ r.step = "sweep" /\ r.todo = pass[p].todo \ {d} /\ r.want = pass[p].want
          /\ r.clean = FALSE /\ r.calm = pass[p].calm
      BY <1>1, <2>1, SweepIs DEF PassFields
    <2>3. pass' = [pass EXCEPT ![p] = r]
      BY <1>1, <1>3, <2>1, SweepIs, PassTypes DEF PassFields
    <2>4. DevicesOK' /\ plexFails' \in Nat
      BY <1>1, <1>3, SweepIs DEF DevicesOK, DeviceOK, Fails
    <2> QED  BY <1>1, <1>3, <2>2, <2>3, <2>4, SweepIs, SweepGoesOn
  <1>4. CASE /\ Dropped(d.key, d.dvr) /\ plexFails' = plexFails
             /\ pass' = [[pass EXCEPT ![p].todo = @ \ {d}] EXCEPT ![p].step = "refresh"]
    <2>1. PICK r : r = [pass[p] EXCEPT !.todo = @ \ {d}, !.step = "refresh"]
      OBVIOUS
    <2>2. /\ DOMAIN r = PassFields /\ r.step = "refresh" /\ r.todo = pass[p].todo \ {d} /\ r.want = pass[p].want
          /\ r.uri = pass[p].uri /\ r.clean = pass[p].clean /\ r.calm = pass[p].calm
      BY <1>1, <2>1, SweepIs DEF PassFields
    <2>3. pass' = [pass EXCEPT ![p] = r]
      BY <1>1, <1>4, <2>1, SweepIs, PassTypes DEF PassFields
    <2>4. PICK k, v : k = d.key /\ v = d.dvr /\ Dropped(k, v)
      BY <1>4
    <2>5. /\ DevicesOK' /\ \A e \in devices : e.key # k => e \in devices'
          /\ \A e \in devices' : \E x \in devices : x.key = e.key /\ x.model = e.model
          /\ \A e \in devices' : e.dvr # Detached => e \in devices /\ ~(e.key = k /\ e.dvr = v)
      BY <1>1, <2>4, SweepIs, DroppedAre
    <2>6. ASSUME r.calm
          PROVE  \A x \in r.todo : x.model \notin r.want /\ \A e \in devices' : e.key = x.key => e.model = x.model
      <3>1. \A x \in pass[p].todo : x.model \notin pass[p].want /\ \A e \in devices : e.key = x.key => e.model = x.model
        BY <1>1, <2>2, <2>6, SweepIs
      <3>2. ASSUME NEW x \in r.todo, NEW e \in devices', e.key = x.key  PROVE e.model = x.model
        <4>1. PICK y \in devices : y.key = e.key /\ y.model = e.model
          BY <2>5
        <4> QED  BY <2>2, <3>1, <3>2, <4>1
      <3>3. \A x \in r.todo : x.model \notin r.want
        BY <2>2, <3>1
      <3> QED  BY <3>2, <3>3
    <2>7. ASSUME r.calm, r.clean
          PROVE  /\ \A t \in r.want : Served(t, r.uri)'
                 /\ \A e \in devices' : e.dvr # Detached /\ e.model \in Tuners \ r.want /\ SameKey(e, r.uri)
                                         => e \in r.todo
      <3>1. ASSUME NEW e \in devices, e.model \in r.want  PROVE e \in devices'
        <4>1. d.model \notin pass[p].want /\ (e.key = d.key => e.model = d.model)
          BY <1>1, <2>2, <2>7, SweepIs
        <4>2. e.key # k
          BY <2>2, <2>4, <3>1, <4>1
        <4> QED  BY <2>5, <4>2
      <3>2. \A t \in r.want : Served(t, r.uri)
        BY <1>1, <2>2, <2>7, SweepIs
      <3>3. ASSUME NEW t \in r.want  PROVE Served(t, r.uri)'
        BY <1>1, <1>4, <3>1, <3>2, SweepIs, StepKeepsServed
      <3>4. \A e \in devices' : e.dvr # Detached /\ e.model \in Tuners \ r.want /\ SameKey(e, r.uri)
                               => e \in r.todo
        BY <1>1, <2>2, <2>4, <2>5, <2>7, SweepIs
      <3> QED  BY <3>3, <3>4
    <2>8. plexFails' \in Nat
      BY <1>1, <1>4, SweepIs
    <2> QED  BY <1>1, <2>2, <2>3, <2>5, <2>6, <2>7, <2>8, SweepIs, SweepGoesOn
  <1> QED  BY <1>2, <1>3, <1>4

LEMMA PlexStep == TunersInv /\ [PlexNext]_plexVars => TunersInv'
  <1> SUFFICES ASSUME TunersInv, [PlexNext]_plexVars  PROVE TunersInv'
    OBVIOUS
  <1>1. ASSUME NEW p \in Passes, PassBegins(p) \/ ReadsLineup(p) \/ LineupFails(p) \/ Looks(p)  PROVE TunersInv'
    BY <1>1, PassBeginsKept, LineupsKept, LooksKept
  <1>2. ASSUME NEW p \in Passes, CreatesDevice(p) \/ LooksAgain(p) \/ Replaces(p)  PROVE TunersInv'
    BY <1>2, CreatesDeviceKept, LooksAgainKept, ReplacesKept
  <1>3. ASSUME NEW p \in Passes, CreatesDvr(p) \/ LooksForDvr(p) \/ HasDvr(p)  PROVE TunersInv'
    BY <1>3, CreatesDvrKept, LooksForDvrKept, HasDvrKept
  <1>4. ASSUME NEW p \in Passes, EnablesDevice(p) \/ Attaches(p) \/ MapsChannels(p)  PROVE TunersInv'
    BY <1>4, EnablesDeviceKept, AttachesKept, MapsChannelsKept
  <1>5. ASSUME NEW p \in Passes, SweepBegins(p) \/ SweepsDevice(p) \/ SweepLooks(p) \/ SweepEnds(p)  PROVE TunersInv'
    BY <1>5, SweepBeginsKept, SweepsDeviceKept, SweepQuietKept
  <1>6. ASSUME NEW p \in Passes, PassAborts(p) \/ PassEnds(p)  PROVE TunersInv'
    BY <1>6, PassAbortsKept, PassEndsKept
  <1>7. CASE UNCHANGED plexVars
    BY <1>7 DEF plexVars, settingsVars, TunersInv, PlexTypeOK, DevicesOK, DeviceOK, PassesOK, PassOK, CalmAlone,
                CalmHolds, SourcesServed, WorkHolds, SweepHolds, Unwanted, Served, TargetHolds, TargetIs
  <1> QED  BY <1>1, <1>2, <1>3, <1>4, <1>5, <1>6, <1>7, AroundKept DEF PlexNext

\* A pass of the reconciler that reports success, with nobody else at Plex and
\* nothing changed under it, leaves every wanted tuner that has channels on,
\* attached and mapped to them, and no managed tuner that is not wanted but
\* those with another streaming key: for any number of playlists, tuners and
\* passes, whatever earlier passes that overlapped left in Plex and whichever
\* requests failed (plex/reconcile.py 741-742, 860-898).
THEOREM TunersAreReconciled == PlexSpec => []TunersMatch
  <1>1. TunersInv => TunersMatch
    <2> SUFFICES ASSUME TunersInv, NEW p \in Passes, pass[p] # NoPass, At(p, "done"), pass[p].clean, pass[p].calm
                 PROVE  /\ \A t \in pass[p].want : tunerLineup[t] # 0 =>
                             \E d \in devices : /\ d.model = t /\ d.on /\ d.dvr # Detached
                                                /\ d.mapped = tunerLineup[t]
                                                /\ plexFails = 0 => d.uri = pass[p].uri
                        /\ \A d \in devices : d.dvr # Detached =>
                              d.model \in pass[p].want \union {Foreign.model} \/ ~SameKey(d, pass[p].uri)
      BY DEF TunersMatch
    <2>1. SourcesServed(pass[p]) /\ SweepHolds(pass[p]) /\ DevicesOK /\ pass[p].step = "done"
      BY DEF TunersInv, CalmHolds, PlexTypeOK, At
    <2>2. \A t \in pass[p].want : Served(t, pass[p].uri)
      BY <2>1 DEF SourcesServed, Ending
    <2>3. \A d \in devices : d.dvr # Detached =>
             d.model \in pass[p].want \union {Foreign.model} \/ ~SameKey(d, pass[p].uri)
      BY <2>1 DEF SweepHolds, Unwanted, Ending, DevicesOK, DeviceOK
    <2> QED  BY <2>2, <2>3 DEF Served
  <1> QED  BY PlexInitially, PlexStep, <1>1, PTL DEF PlexSpec
-----------------------------------------------------------------------------
(* The numbers of the lineup                                                *)

NumbersOK == (\A c \in DOMAIN lineup : lineup[c].number \in Int) /\ bulk.number \in Int

LEMMA ShiftedNumbers ==
    ASSUME LineupTypeOK, NumbersOK, NEW moved, NEW by \in Int, NEW c \in DOMAIN lineup
    PROVE  Shifted(lineup, moved, by)[c].number =
             IF lineup[c].number \in moved THEN lineup[c].number + by ELSE lineup[c].number
  <1>1. DOMAIN lineup[c] = RowFields
    BY DEF LineupTypeOK, RowsOK, RowsBelow
  <1>2. [lineup[c] EXCEPT !.number = @ + by].number = lineup[c].number + by
    BY <1>1 DEF RowFields
  <1> QED  BY <1>2 DEF Shifted

\* A channel that is added gets its number, and those from there on move up.
LEMMA InsertedNumbers ==
    ASSUME LineupTypeOK, NumbersOK, NEW name \in Names, NEW n \in Int
    PROVE  /\ DOMAIN Inserted(name, n) = DOMAIN lineup \union {nextId} /\ nextId \notin DOMAIN lineup
           /\ Inserted(name, n)[nextId].number = n
           /\ \A c \in DOMAIN lineup : Inserted(name, n)[c].number =
                 IF lineup[c].number >= n THEN lineup[c].number + 1 ELSE lineup[c].number
  <1> DEFINE new == [name |-> name, number |-> n, enabled |-> TRUE, uuid |-> NoUuid]
             moved == {m \in Numbers : m >= n}
             rs == Shifted(lineup, moved, 1)
  <1>1. Inserted(name, n) = Having(rs, nextId, new) /\ new.number = n
    BY DEF Inserted
  <1>2. \A c \in DOMAIN lineup : lineup[c].number \in moved <=> lineup[c].number >= n
    BY DEF Numbers
  <1>3. \A c \in DOMAIN lineup : rs[c].number =
           IF lineup[c].number >= n THEN lineup[c].number + 1 ELSE lineup[c].number
    BY <1>2, ShiftedNumbers
  <1>4. DOMAIN rs = DOMAIN lineup
    BY DEF Shifted
  <1>5. nextId \notin DOMAIN lineup
    BY DEF LineupTypeOK, RowsOK, RowsBelow
  <1> HIDE DEF rs, new
  <1>6. /\ DOMAIN Having(rs, nextId, new) = DOMAIN rs \union {nextId} /\ Having(rs, nextId, new)[nextId] = new
        /\ \A c \in DOMAIN rs \ {nextId} : Having(rs, nextId, new)[c] = rs[c]
    BY DEF Having
  <1> QED  BY <1>1, <1>3, <1>4, <1>5, <1>6

LEMMA InsertedDistinct ==
    ASSUME LineupTypeOK, NumbersOK, NEW name \in Names, NEW n \in Int, lineup' = Inserted(name, n)
    PROVE  /\ \A c \in DOMAIN lineup' : lineup'[c].number \in Int
           /\ Distinct(lineup) => Distinct(lineup')
  <1>1. /\ DOMAIN lineup' = DOMAIN lineup \union {nextId} /\ nextId \notin DOMAIN lineup
        /\ lineup'[nextId].number = n
        /\ \A c \in DOMAIN lineup : lineup'[c].number =
                 IF lineup[c].number >= n THEN lineup[c].number + 1 ELSE lineup[c].number
    BY InsertedNumbers
  <1> QED  BY <1>1 DEF NumbersOK, Distinct

\* One that moves gets its number, and those between move by one.
LEMMA RenumberedNumbers ==
    ASSUME LineupTypeOK, NumbersOK, NEW id \in DOMAIN lineup, NEW n \in Int
    PROVE  LET old == lineup[id].number
           IN  /\ DOMAIN Renumbered(id, n) = DOMAIN lineup /\ Renumbered(id, n)[id].number = n
               /\ \A c \in DOMAIN lineup \ {id} : Renumbered(id, n)[c].number =
                     CASE n <= lineup[c].number /\ lineup[c].number < old -> lineup[c].number + 1
                       [] n >= lineup[c].number /\ lineup[c].number > old -> lineup[c].number - 1
                       [] OTHER -> lineup[c].number
  <1> DEFINE old == lineup[id].number
             new == [lineup[id] EXCEPT !.number = n]
             moved == IF n < old THEN n .. (old - 1) ELSE (old + 1) .. n
             by == IF n < old THEN 1 ELSE -1
             rs == Shifted(lineup, moved, by)
  <1>1. DOMAIN lineup[id] = RowFields /\ old \in Int
    BY DEF LineupTypeOK, RowsOK, RowsBelow, NumbersOK
  <1>2. new.number = n
    BY <1>1 DEF RowFields
  <1>3. Renumbered(id, n) = Having(rs, id, new)
    BY DEF Renumbered
  <1>4. by \in Int /\ DOMAIN rs = DOMAIN lineup
    BY DEF Shifted
  <1>5. \A c \in DOMAIN lineup : rs[c].number =
           IF lineup[c].number \in moved THEN lineup[c].number + by ELSE lineup[c].number
    <2> HIDE DEF by, moved
    <2> QED  BY <1>4, ShiftedNumbers
  <1>6. \A c \in DOMAIN lineup : lineup[c].number \in Int
    BY DEF NumbersOK
  <1> HIDE DEF rs, new
  <1>7. /\ DOMAIN Having(rs, id, new) = DOMAIN rs \union {id} /\ Having(rs, id, new)[id] = new
        /\ \A c \in DOMAIN rs \ {id} : Having(rs, id, new)[c] = rs[c]
    BY DEF Having
  <1>8. \A c \in DOMAIN lineup \ {id} : Renumbered(id, n)[c] = rs[c]
    BY <1>3, <1>4, <1>7
  <1>9. \A c \in DOMAIN lineup \ {id} : rs[c].number =
                     CASE n <= lineup[c].number /\ lineup[c].number < old -> lineup[c].number + 1
                       [] n >= lineup[c].number /\ lineup[c].number > old -> lineup[c].number - 1
                       [] OTHER -> lineup[c].number
    BY <1>1, <1>5, <1>6
  <1> QED  BY <1>2, <1>3, <1>4, <1>7, <1>8, <1>9

LEMMA RenumberedDistinct ==
    ASSUME LineupTypeOK, NumbersOK, NEW id \in DOMAIN lineup, NEW n \in Int, NEW rs,
           DOMAIN rs = DOMAIN lineup, \A c \in DOMAIN lineup : rs[c].number = Renumbered(id, n)[c].number
    PROVE  /\ \A c \in DOMAIN rs : rs[c].number \in Int
           /\ Distinct(lineup) => Distinct(rs)
  <1> DEFINE old == lineup[id].number
  <1>1. old \in Int /\ \A c \in DOMAIN lineup : lineup[c].number \in Int
    BY DEF NumbersOK
  <1>2. /\ rs[id].number = n
        /\ \A c \in DOMAIN lineup \ {id} : rs[c].number =
                     CASE n <= lineup[c].number /\ lineup[c].number < old -> lineup[c].number + 1
                       [] n >= lineup[c].number /\ lineup[c].number > old -> lineup[c].number - 1
                       [] OTHER -> lineup[c].number
    BY RenumberedNumbers
  <1>3. \A c \in DOMAIN rs : rs[c].number \in Int
    BY <1>1, <1>2
  <1>4. ASSUME Distinct(lineup), NEW c \in DOMAIN lineup, NEW d \in DOMAIN lineup, rs[c].number = rs[d].number
        PROVE  c = d
    <2>1. lineup[c].number = lineup[d].number => c = d
      BY <1>4 DEF Distinct
    <2>2. (c # id => lineup[c].number # old) /\ (d # id => lineup[d].number # old)
      BY <1>4 DEF Distinct
    <2>3. CASE c = id
      BY <1>1, <1>2, <1>4, <2>2, <2>3
    <2>4. CASE d = id
      BY <1>1, <1>2, <1>4, <2>2, <2>4
    <2>5. CASE c # id /\ d # id
      BY <1>1, <1>2, <1>4, <2>1, <2>2, <2>5
    <2> QED  BY <2>3, <2>4, <2>5
  <1> QED  BY <1>3, <1>4 DEF Distinct

\* What a page knew of has places in Nat.
LEMMA OrdersAre ==
    ASSUME LineupTypeOK, NEW order \in SetToSeqs(DOMAIN lineup), NEW k \in 1..Len(order)
    PROVE  DOMAIN SubSeq(order, 1, k) \subseteq Int
  <1> DEFINE n == Cardinality(DOMAIN lineup)
  <1>1. IsFiniteSet(1 .. (nextId - 1)) /\ DOMAIN lineup \subseteq 1 .. (nextId - 1)
    <2>1. 1 \in Int /\ nextId - 1 \in Int /\ DOMAIN lineup \subseteq 1 .. (nextId - 1)
      BY DEF LineupTypeOK, RowsOK, RowsBelow
    <2> QED  BY <2>1, FS_Interval
  <1>2. n \in Nat
    BY <1>1, FS_Subset, FS_CardinalityType
  <1> HIDE DEF n
  <1>3. order \in [1..n -> DOMAIN lineup]
    BY DEF SetToSeqs, n
  <1>4. order \in Seq(DOMAIN lineup)
    BY <1>2, <1>3
  <1>5. k \in Nat /\ \A i \in 1..k : order[i] \in DOMAIN lineup
    BY <1>4
  <1>6. SubSeq(order, 1, k) \in Seq(DOMAIN lineup)
    BY <1>5, SubSeqProperties
  <1> QED  BY <1>6

LEMMA OrderedNumbers ==
    ASSUME LineupTypeOK, NumbersOK, NEW order, DOMAIN order \subseteq Int, UpdateChannelsOrder(order)
    PROVE  \A c \in DOMAIN lineup' : lineup'[c].number \in Int
  <1>1. /\ DOMAIN lineup' = DOMAIN lineup
        /\ \A c \in DOMAIN lineup : DOMAIN lineup[c] = RowFields /\ lineup[c].number \in Int
    BY DEF UpdateChannelsOrder, LineupTypeOK, RowsOK, RowsBelow, NumbersOK
  <1>2. ASSUME NEW c \in DOMAIN lineup, c \in ToSet(order)  PROVE lineup'[c].number \in Int
    <2>1. PICK i \in DOMAIN order : order[i] = c
      BY <1>2 DEF ToSet
    <2>2. PICK p : p = CHOOSE j \in DOMAIN order : order[j] = c
      OBVIOUS
    <2>3. p \in DOMAIN order
      BY <2>1, <2>2
    <2>4. lineup'[c] = [lineup[c] EXCEPT !.number = p]
      BY <1>2, <2>2 DEF UpdateChannelsOrder
    <2>5. lineup'[c].number = p
      BY <1>1, <2>4 DEF RowFields
    <2> QED  BY <2>3, <2>5
  <1>3. ASSUME NEW c \in DOMAIN lineup, c \notin ToSet(order)  PROVE lineup'[c] = lineup[c]
    BY <1>3 DEF UpdateChannelsOrder
  <1> QED  BY <1>1, <1>2, <1>3

\* Who stores uuids leaves the numbers.
LEMMA WithUuidsNumbers ==
    ASSUME LineupTypeOK, NumbersOK, NEW us, lineup' = WithUuids(lineup, us)
    PROVE  /\ \A c \in DOMAIN lineup' : lineup'[c].number \in Int
           /\ Distinct(lineup) => Distinct(lineup')
  <1>1. DOMAIN lineup' = DOMAIN lineup /\ \A c \in DOMAIN lineup : DOMAIN lineup[c] = RowFields
    BY DEF WithUuids, LineupTypeOK, RowsOK, RowsBelow
  <1>2. \A c \in DOMAIN lineup : lineup'[c].number = lineup[c].number
    <2> SUFFICES ASSUME NEW c \in DOMAIN lineup  PROVE lineup'[c].number = lineup[c].number
      OBVIOUS
    <2>1. lineup'[c] = [lineup[c] EXCEPT !.uuid = us[c]] \/ lineup'[c] = lineup[c]
      BY DEF WithUuids
    <2> QED  BY <1>1, <2>1 DEF RowFields
  <1> QED  BY <1>1, <1>2 DEF NumbersOK, Distinct

OrderedAnew ==
    /\ bulk' = bulk /\ DOMAIN lineup' = DOMAIN lineup
    /\ \E order \in SetToSeqs(DOMAIN lineup) : \E k \in 1..Len(order) :
         UpdateChannelsOrder(SubSeq(order, 1, k))

LEMMA NumbersKept ==
    ASSUME LineupTypeOK, NumbersOK, [LineupNext]_lineupVars
    PROVE  NumbersOK' /\ (Distinct(lineup) => Distinct(lineup') \/ OrderedAnew)
  <1> DEFINE Goal == /\ \A c \in DOMAIN lineup' : lineup'[c].number \in Int
                     /\ Distinct(lineup) => Distinct(lineup') \/ OrderedAnew
  <1>0. ASSUME lineup' = lineup  PROVE Goal
    BY <1>0 DEF NumbersOK
  <1>1. ASSUME LineupEdits  PROVE Goal
    <2>1. ASSUME NEW name \in Names, NEW n \in Places, AddNewChannel(name, n)  PROVE Goal
      BY <2>1, InsertedDistinct DEF AddNewChannel, Places
    <2>2. ASSUME NEW c \in DOMAIN lineup, NEW name \in Names, NEW n \in Places, NEW b, EditChannel(c, name, n, b)
          PROVE  Goal
      <3>1. lineup' = [Renumbered(c, n) EXCEPT ![c].name = name, ![c].enabled = b] /\ n \in Int
        BY <2>2 DEF EditChannel, Places
      <3>2. /\ DOMAIN Renumbered(c, n) = DOMAIN lineup
            /\ \A d \in DOMAIN lineup : DOMAIN Renumbered(c, n)[d] = RowFields
        BY RenumberedRows DEF LineupTypeOK, RowsOK, RowsBelow, SameRow
      <3>3. /\ DOMAIN lineup' = DOMAIN lineup
            /\ \A d \in DOMAIN lineup : lineup'[d].number = Renumbered(c, n)[d].number
        <4> DEFINE rs == Renumbered(c, n)
                   row == rs[c]
        <4>1. DOMAIN lineup' = DOMAIN lineup /\ \A d \in DOMAIN lineup \ {c} : lineup'[d] = rs[d]
          BY <3>1, <3>2
        <4>2. lineup'[c] = [[row EXCEPT !.name = name] EXCEPT !.enabled = b]
          BY <3>1, <3>2
        <4>3. DOMAIN row = RowFields
          BY <3>2
        <4> HIDE DEF row
        <4>4. lineup'[c].number = row.number
          BY <4>2, <4>3 DEF RowFields
        <4> QED  BY <4>1, <4>4 DEF row
      <3>4. PICK rs : rs = lineup'
        OBVIOUS
      <3>5. (\A d \in DOMAIN rs : rs[d].number \in Int) /\ (Distinct(lineup) => Distinct(rs))
        BY <3>1, <3>3, <3>4, RenumberedDistinct
      <3> QED  BY <3>4, <3>5
    <2>3. ASSUME NEW order \in SetToSeqs(DOMAIN lineup), NEW k \in 1..Len(order), UpdateChannelsOrder(SubSeq(order, 1, k))
          PROVE  Goal
      <3>1. OrderedAnew
        BY <2>3 DEF OrderedAnew, UpdateChannelsOrder, RequestOnly
      <3>2. PICK s : s = SubSeq(order, 1, k) /\ UpdateChannelsOrder(s)
        BY <2>3
      <3>3. DOMAIN s \subseteq Int
        BY <3>2, OrdersAre
      <3> QED  BY <3>1, <3>2, <3>3, OrderedNumbers
    <2>4. ASSUME NEW c \in DOMAIN lineup, DeleteChannel(c)  PROVE Goal
      BY <2>4 DEF DeleteChannel, NumbersOK, Distinct
    <2> QED  BY <1>1, <2>1, <2>2, <2>3, <2>4 DEF LineupEdits
  <1>2. ASSUME ByBulk  PROVE Goal
    <2>1. ASSUME NEW name \in Names, BulkAdds(name)  PROVE Goal
      <3>1. bulk.number + 1 \in Int
        BY DEF NumbersOK
      <3> QED  BY <2>1, <3>1, <1>0, InsertedDistinct DEF BulkAdds, rowVars
    <2>2. ASSUME BulkEnds  PROVE Goal
      BY <2>2, WithUuidsNumbers DEF BulkEnds
    <2>3. ASSUME NEW i, BulkPublishes(i)  PROVE lineup' = lineup
      BY <2>3 DEF BulkPublishes, rowVars
    <2>4. ASSUME NEW names, BulkStarts(names)  PROVE lineup' = lineup
      BY <2>4 DEF BulkStarts, rowVars
    <2>5. ASSUME BulkLists \/ BulkFails  PROVE Goal
      BY <2>5, <1>0 DEF BulkLists, BulkFails, rowVars
    <2> QED  BY <1>0, <1>2, <2>1, <2>2, <2>3, <2>4, <2>5 DEF ByBulk
  <1>3. ASSUME ByPublish  PROVE Goal
    <2>1. ASSUME PublishCommits  PROVE Goal
      BY <2>1, WithUuidsNumbers DEF PublishCommits
    <2>2. ASSUME HourlyPublish \/ SkipsPublish \/ StartsPublish \/ PublishLists \/ PublishSigns \/ PublishFails  PROVE Goal
      BY <2>2, <1>0 DEF HourlyPublish, SkipsPublish, StartsPublish, PublishLists, PublishSigns, PublishFails, rowVars
    <2>3. ASSUME (\E c \in DOMAIN publish.rows : PublishesChannel(c)) \/ \E u \in publish.todo : PublishDeletes(u)  PROVE Goal
      BY <2>3, <1>0 DEF PublishesChannel, PublishDeletes, rowVars
    <2> QED  BY <1>3, <2>1, <2>2, <2>3 DEF ByPublish
  <1>4. ASSUME MapAllServices \/ CleanupOldChannels \/ UNCHANGED lineupVars  PROVE Goal
    BY <1>4, <1>0 DEF MapAllServices, CleanupOldChannels, rowVars, lineupVars
  <1>5. Goal
    BY <1>1, <1>2, <1>3, <1>4, LineupSteps
  <1>6. bulk'.number \in Int
    <2>1. DOMAIN bulk = {"step", "names", "number", "rows", "known"} /\ bulk.number \in Int
      BY DEF LineupTypeOK, NumbersOK
    <2>2. DOMAIN NoBulk = {"step", "names", "number", "rows", "known"} /\ NoBulk.number = 0
      BY DEF NoBulk
    <2>3. ASSUME NEW names, BulkStarts(names)  PROVE bulk'.number \in Int
      <3>1. PICK n \in Numbers \union {0} : bulk' = [NoBulk EXCEPT !.step = "add", !.names = names, !.number = n]
        BY <2>3 DEF BulkStarts
      <3>2. n \in Int
        BY DEF Numbers, NumbersOK
      <3> QED  BY <2>2, <3>1, <3>2
    <2>4. ASSUME NEW name, BulkAdds(name)  PROVE bulk'.number \in Int
      <3>1. CASE bulk' = [bulk EXCEPT !.names = @ \ {name}]
        BY <2>1, <3>1
      <3>2. CASE bulk' = [bulk EXCEPT !.names = @ \ {name}, !.number = @ + 1,
                   !.rows = Append(@, [id |-> nextId, name |-> name, uuid |-> NoUuid])]
        BY <2>1, <3>2
      <3> QED  BY <2>4, <3>1, <3>2 DEF BulkAdds
    <2>5. CASE BulkLists \/ BulkFails
      BY <2>1, <2>5 DEF BulkLists, BulkFails
    <2>6. ASSUME NEW i, BulkPublishes(i)  PROVE bulk'.number \in Int
      <3>1. PICK u, k : bulk' = [bulk EXCEPT !.rows[i].uuid = u, !.known = k]
        BY <2>6 DEF BulkPublishes
      <3> QED  BY <2>1, <3>1
    <2>7. CASE BulkEnds
      BY <2>2, <2>7 DEF BulkEnds
    <2>8. CASE LineupEdits
      BY <2>1, <2>8 DEF LineupEdits, AddNewChannel, EditChannel, UpdateChannelsOrder, DeleteChannel, RequestOnly
    <2>9. CASE ByPublish \/ MapAllServices \/ CleanupOldChannels \/ UNCHANGED lineupVars
      BY <2>1, <2>9 DEF ByPublish, HourlyPublish, SkipsPublish, StartsPublish, PublishLists, PublishesChannel,
           PublishCommits, PublishSigns, PublishFails, PublishDeletes, MapAllServices, CleanupOldChannels, lineupVars
    <2> QED  BY <2>3, <2>4, <2>5, <2>6, <2>7, <2>8, <2>9, LineupSteps DEF ByBulk
  <1> QED  BY <1>5, <1>6 DEF NumbersOK

\* No addition, move, deletion or publish gives a channel the number of another,
\* whatever numbers are asked for and however bulk additions overlap with them:
\* only a page that orders a part of the channels may (channels.py 126-195).
THEOREM NumbersStayApart == LineupInit /\ [][LineupNext]_lineupVars => MovesKeepNumbers
  <1>1. LineupInit => NumbersOK
    BY DEF LineupInit, NumbersOK, NoBulk
  <1>2. LineupInv => LineupTypeOK
    BY DEF LineupInv
  <1>3. LineupTypeOK /\ NumbersOK /\ [LineupNext]_lineupVars => NumbersOK'
    BY NumbersKept
  <1>4. LineupTypeOK /\ NumbersOK /\ [LineupNext]_lineupVars =>
          [Distinct(lineup) /\ ~Distinct(lineup') => bulk' = bulk /\ DOMAIN lineup' = DOMAIN lineup
             /\ \E order \in SetToSeqs(DOMAIN lineup) : \E k \in 1..Len(order) :
                  UpdateChannelsOrder(SubSeq(order, 1, k))]_lineupVars
    BY NumbersKept DEF OrderedAnew
  <1> QED  BY <1>1, <1>2, <1>3, <1>4, LineupInvHolds, PTL DEF MovesKeepNumbers
-----------------------------------------------------------------------------
(* Induction over numbers, by the least counterexample *)

LEMMA LeastOfNaturals ==
    ASSUME NEW T, T \subseteq Nat, T # {}
    PROVE  \E n \in T : \A m \in T : n <= m
  <1> DEFINE R == OpToRel(<, Nat)
  <1>1. IsWellFoundedOn(R, Nat)
    BY NatLessThanWellFounded
  <1>2. ASSUME NEW n \in Nat, NEW m \in Nat, n < m  PROVE <<n, m>> \in R
    BY <1>2 DEF OpToRel
  <1> HIDE DEF R
  <1>3. PICK n \in T : \A m \in T : ~ (<<m, n>> \in R)
    BY <1>1, WFMin
  <1>4. ASSUME NEW m \in T  PROVE n <= m
    <2>1. ~ (m < n)
      BY <1>2, <1>3
    <2> QED  BY <2>1
  <1> QED  BY <1>4

\* A set that holds 1, and with a number below the last the next, holds them all.
LEMMA UpTo ==
    ASSUME NEW n \in Int, NEW T, n >= 1 => 1 \in T, \A k \in 1..n : k < n /\ k \in T => k + 1 \in T
    PROVE  1..n \subseteq T
  <1> SUFFICES ASSUME ~(1..n \subseteq T) PROVE FALSE
    OBVIOUS
  <1>1. (1..n) \ T \subseteq Nat /\ (1..n) \ T # {}
    OBVIOUS
  <1>2. PICK k \in (1..n) \ T : \A m \in (1..n) \ T : k <= m
    BY <1>1, LeastOfNaturals
  <1>3. k # 1
    BY <1>2
  <1>4. k - 1 \in 1..n /\ k - 1 \in T /\ k - 1 < n
    BY <1>2, <1>3
  <1>5. (k - 1) + 1 = k
    BY <1>2
  <1> QED  BY <1>2, <1>4, <1>5

\* The recursive functions of the schedule exist: each value is made of the one
\* before it.

IsSum(s, first, d, n) == s = [k \in 1..n |-> IF k = 1 THEN first ELSE s[k - 1] + d[k - 1]]

LEMMA SumsExist ==
    ASSUME NEW n \in Int, NEW first \in Int, NEW d, \A k \in 1..n : k < n => d[k] \in Int
    PROVE  \E s \in [1..n -> Int] : IsSum(s, first, d, n)
  <1> DEFINE T == {m \in 1..n : \E s \in [1..m -> Int] : IsSum(s, first, d, m)}
  <1>1. n >= 1 => 1 \in T
    <2> DEFINE s == [k \in 1..1 |-> first]
    <2>1. s \in [1..1 -> Int] /\ IsSum(s, first, d, 1)
      BY DEF IsSum
    <2> QED  BY <2>1
  <1>2. ASSUME NEW m \in 1..n, m < n, m \in T PROVE m + 1 \in T
    <2>1. PICK s \in [1..m -> Int] : IsSum(s, first, d, m)
      BY <1>2
    <2> DEFINE t == [k \in 1..m + 1 |-> IF k = m + 1 THEN s[m] + d[m] ELSE s[k]]
    <2>2. m \in Nat \ {0} /\ m \in 1..m /\ d[m] \in Int /\ s[m] \in Int
      BY <1>2, <2>1
    <2>3. t \in [1..m + 1 -> Int]
      BY <2>2
    <2>4. \A k \in 1..m : t[k] = s[k]
      BY <2>2
    <2>5. \A k \in 1..m + 1 : t[k] = IF k = 1 THEN first ELSE t[k - 1] + d[k - 1]
      <3> SUFFICES ASSUME NEW k \in 1..m + 1
                   PROVE  t[k] = IF k = 1 THEN first ELSE t[k - 1] + d[k - 1]
        OBVIOUS
      <3>1. CASE k = m + 1
        <4>1. k # 1 /\ k - 1 = m /\ t[k - 1] = s[m]
          BY <2>2, <2>4, <3>1
        <4> QED  BY <3>1, <4>1
      <3>2. CASE k # m + 1
        <4>1. k \in 1..m /\ (k # 1 => k - 1 \in 1..m)
          BY <2>2, <3>2
        <4>2. s[k] = IF k = 1 THEN first ELSE s[k - 1] + d[k - 1]
          BY <2>1, <4>1 DEF IsSum
        <4> QED  BY <2>4, <4>1, <4>2
      <3> QED  BY <3>1, <3>2
    <2>6. IsSum(t, first, d, m + 1)
      BY <2>3, <2>5 DEF IsSum
    <2> QED  BY <1>2, <2>3, <2>6
  <1>3. 1..n \subseteq T
    <2> HIDE DEF T
    <2> QED  BY <1>1, <1>2, UpTo
  <1>4. CASE n >= 1
    BY <1>3, <1>4
  <1>5. CASE ~(n >= 1)
    <2>1. 1..n = {}
      BY <1>5
    <2> DEFINE s == [k \in 1..n |-> first]
    <2>2. s \in [1..n -> Int] /\ IsSum(s, first, d, n)
      BY <2>1 DEF IsSum
    <2> QED  BY <2>2
  <1> QED  BY <1>4, <1>5

LEMMA SumIs ==
    ASSUME NEW n \in Int, NEW first \in Int, NEW d, \A k \in 1..n : k < n => d[k] \in Int, NEW s, IsSum(s, first, d, n)
    PROVE  /\ s \in [1..n -> Int]
           /\ n >= 1 => s[1] = first
           /\ \A k \in 1..n : k < n => s[k + 1] = s[k] + d[k]
  <1>1. \A k \in 1..n : s[k] = IF k = 1 THEN first ELSE s[k - 1] + d[k - 1]
    BY DEF IsSum
  <1>2. \A k \in 1..n : k < n => s[k + 1] = s[k] + d[k]
    <2> SUFFICES ASSUME NEW k \in 1..n, k < n PROVE s[k + 1] = s[k] + d[k]
      OBVIOUS
    <2>1. k + 1 \in 1..n /\ k + 1 # 1 /\ (k + 1) - 1 = k
      OBVIOUS
    <2> QED  BY <1>1, <2>1
  <1> DEFINE T == {k \in 1..n : s[k] \in Int}
  <1>3. n >= 1 => s[1] = first
    BY <1>1
  <1>4. \A k \in 1..n : k < n /\ k \in T => k + 1 \in T
    BY <1>2
  <1>5. 1..n \subseteq T
    <2>1. n >= 1 => 1 \in T
      BY <1>3
    <2> HIDE DEF T
    <2> QED  BY <1>4, <2>1, UpTo
  <1>6. DOMAIN s = 1..n /\ s = [k \in 1..n |-> s[k]]
    BY DEF IsSum
  <1> QED  BY <1>2, <1>3, <1>5, <1>6
-----------------------------------------------------------------------------
(* Arithmetic *)

LEMMA TimesAtLeast ==
    ASSUME NEW a \in Int, NEW b \in Int, NEW n \in Nat, a <= b
    PROVE  a * n <= b * n
  OBVIOUS

LEMMA Division ==
    ASSUME NEW a \in Int, NEW n \in Nat \ {0}
    PROVE  a % n \in 0..n - 1 /\ a \div n \in Int /\ a = n * (a \div n) + (a % n)
  <1>1. a % n \in 0..n - 1
    OBVIOUS
  <1>2. a \div n \in Int
    OBVIOUS
  <1>3. a = n * (a \div n) + (a % n)
    OBVIOUS
  <1> QED  BY <1>1, <1>2, <1>3

LEMMA OneQuotient ==
    ASSUME NEW n \in Nat \ {0}, NEW p \in Int, NEW q \in Int, NEW r \in 0..n - 1, NEW s \in 0..n - 1,
           n * p + r = n * q + s
    PROVE  p = q /\ r = s
  <1>1. ~(p < q)
    <2> SUFFICES ASSUME p + 1 <= q PROVE FALSE
      OBVIOUS
    <2>1. (p + 1) * n <= q * n
      BY TimesAtLeast
    <2> QED  BY <2>1
  <1>2. ~(q < p)
    <2> SUFFICES ASSUME q + 1 <= p PROVE FALSE
      OBVIOUS
    <2>1. (q + 1) * n <= p * n
      BY TimesAtLeast
    <2> QED  BY <2>1
  <1> QED  BY <1>1, <1>2

LEMMA NextRemainder ==
    ASSUME NEW a \in Int, NEW n \in Nat \ {0}
    PROVE  (a + 1) % n = IF a % n = n - 1 THEN 0 ELSE (a % n) + 1
  <1> DEFINE q == a \div n
             r == a % n
             q1 == (a + 1) \div n
             r1 == (a + 1) % n
  <1>1. q \in Int /\ r \in 0..n - 1 /\ a = n * q + r
    BY Division
  <1>2. q1 \in Int /\ r1 \in 0..n - 1 /\ a + 1 = n * q1 + r1
    BY Division
  <1> HIDE DEF q, r, q1, r1
  <1>3. CASE r = n - 1
    <2>1. n * (q + 1) + 0 = n * q1 + r1 /\ 0 \in 0..n - 1 /\ q + 1 \in Int
      BY <1>1, <1>2, <1>3
    <2>2. r1 = 0
      BY <1>2, <2>1, OneQuotient
    <2> QED  BY <1>3, <2>2 DEF r, r1
  <1>4. CASE r # n - 1
    <2>1. n * q + (r + 1) = n * q1 + r1 /\ r + 1 \in 0..n - 1
      BY <1>1, <1>2, <1>4
    <2>2. r1 = r + 1
      BY <1>1, <1>2, <2>1, OneQuotient
    <2> QED  BY <1>4, <2>2 DEF r, r1
  <1> QED  BY <1>3, <1>4
-----------------------------------------------------------------------------
(* The cycle of an order *)

\* An order is a sequence of entries of items.
Ordered(order) == (\E S : order \in Seq(S)) /\ \A k \in 1..Len(order) : order[k].item \in Items

LEMMA SecondsPass ==
    ASSUME NEW i \in Items
    PROVE  Seconds(i) \in Int /\ Seconds(i) >= 1
  <1>1. Item[i].length.raw \in Nat
    BY LengthsAreDigits
  <1> QED  BY <1>1 DEF Seconds, AtLeast

LEMMA OffsetsSum ==
    ASSUME NEW order, Ordered(order)
    PROVE  /\ Len(order) \in Nat /\ Offsets(order) \in [1..Len(order) + 1 -> Int]
           /\ Offsets(order)[1] = 0
           /\ \A k \in 1..Len(order) : Offsets(order)[k + 1] = Offsets(order)[k] + Seconds(order[k].item)
  <1> DEFINE n == Len(order)
             d == [k \in 1..n |-> Seconds(order[k].item)]
             Is(s) == s = [k \in 1..n + 1 |-> IF k = 1 THEN 0 ELSE s[k - 1] + Seconds(order[k - 1].item)]
  <1>1. n \in Nat
    BY DEF Ordered
  <1>2. \A k \in 1..n + 1 : k < n + 1 => d[k] \in Int
    BY <1>1, SecondsPass DEF Ordered
  <1>3. \A k \in 1..n + 1 : k # 1 => d[k - 1] = Seconds(order[k - 1].item)
    BY <1>1
  <1> HIDE DEF d
  <1>4. ASSUME NEW s PROVE Is(s) <=> IsSum(s, 0, d, n + 1)
    BY <1>1, <1>3 DEF IsSum
  <1>5. \E s : Is(s)
    <2>1. n + 1 \in Int /\ 0 \in Int
      BY <1>1
    <2>2. \E s : IsSum(s, 0, d, n + 1)
      <3> HIDE DEF n, Is
      <3> QED  BY <1>2, <2>1, SumsExist
    <2> HIDE DEF Is
    <2> QED  BY <1>4, <2>2
  <1>6. Offsets(order) = CHOOSE s : Is(s)
    BY DEF Offsets
  <1>7. Is(Offsets(order))
    <2> HIDE DEF Is
    <2> QED  BY <1>5, <1>6
  <1>8. IsSum(Offsets(order), 0, d, n + 1)
    BY <1>4, <1>7
  <1>9. \A k \in 1..n : d[k] = Seconds(order[k].item)
    BY DEF d
  <1> DEFINE s == Offsets(order)
  <1>10. s \in [1..n + 1 -> Int] /\ s[1] = 0 /\ \A k \in 1..n + 1 : k < n + 1 => s[k + 1] = s[k] + d[k]
    <2>1. n + 1 \in Int /\ 0 \in Int /\ n + 1 >= 1
      BY <1>1
    <2> HIDE DEF n, Is, s
    <2> QED  BY <1>2, <1>8, <2>1, SumIs DEF s
  <1> HIDE DEF s, n, Is
  <1>11. ASSUME NEW k \in 1..n  PROVE s[k + 1] = s[k] + Seconds(order[k].item)
    <2>1. k \in 1..n + 1 /\ k < n + 1
      BY <1>1
    <2>2. s[k + 1] = s[k] + d[k]
      BY <1>10, <2>1
    <2> HIDE DEF d
    <2> QED  BY <1>9, <2>2
  <1> QED  BY <1>1, <1>10, <1>11 DEF s, n

CycleOf(order) == Offsets(order)[Len(order) + 1]

LEMMA OffsetsRise ==
    ASSUME NEW order, Ordered(order), NEW j \in 1..Len(order) + 1, NEW k \in 1..Len(order) + 1, j < k
    PROVE  Offsets(order)[j] < Offsets(order)[k]
  <1> DEFINE n == Len(order)
             s == Offsets(order)
             T == {m \in 1..n + 1 : j < m => s[j] < s[m]}
  <1>1. /\ n \in Nat /\ s \in [1..n + 1 -> Int]
        /\ \A m \in 1..n : s[m + 1] = s[m] + Seconds(order[m].item)
    BY OffsetsSum
  <1>2. j \in 1..n + 1 /\ k \in 1..n + 1
    OBVIOUS
  <1> HIDE DEF s, n, T
  <1>3. n \in Nat /\ n + 1 \in Nat
    BY <1>1
  <1>4. \A m \in 1..n + 1 : s[m] \in Int
    BY <1>1
  <1>5. \A m \in 1..n : m \in 1..n + 1 /\ m + 1 \in 1..n + 1
    BY <1>3
  <1>6. \A m \in 1..n : s[m] < s[m + 1]
    <2> SUFFICES ASSUME NEW m \in 1..n PROVE s[m] < s[m + 1]
      OBVIOUS
    <2>1. Seconds(order[m].item) \in Int /\ Seconds(order[m].item) >= 1
      BY SecondsPass DEF Ordered, n
    <2>2. s[m] \in Int
      BY <1>4, <1>5
    <2>3. s[m + 1] = s[m] + Seconds(order[m].item)
      BY <1>1
    <2> QED  BY <2>1, <2>2, <2>3
  <1>7. 1 \in T
    <2>1. 1 \in 1..n + 1 /\ ~(j < 1)
      BY <1>2, <1>3
    <2> QED  BY <2>1 DEF T
  <1>8. ASSUME NEW m \in 1..n + 1, m < n + 1, m \in T PROVE m + 1 \in T
    <2>1. m \in 1..n
      BY <1>3, <1>8
    <2>2. m + 1 \in 1..n + 1
      BY <1>5, <2>1
    <2>3. s[m] \in Int /\ s[m + 1] \in Int /\ s[j] \in Int
      BY <1>2, <1>4, <2>2
    <2>4. s[m] < s[m + 1]
      BY <1>6, <2>1
    <2>5. j < m => s[j] < s[m]
      BY <1>8 DEF T
    <2>6. ASSUME j < m + 1 PROVE s[j] < s[m + 1]
      <3>1. CASE j = m
        BY <2>4, <3>1
      <3>2. CASE j # m
        <4>1. j < m
          BY <1>2, <2>1, <2>6, <3>2
        <4> QED  BY <2>3, <2>4, <2>5, <4>1
      <3> QED  BY <3>1, <3>2
    <2> QED  BY <2>2, <2>6 DEF T
  <1>9. 1..n + 1 \subseteq T
    <2>1. n + 1 \in Int
      BY <1>3
    <2> QED  BY <1>7, <1>8, <2>1, UpTo
  <1>10. j < k => s[j] < s[k]
    BY <1>2, <1>9 DEF T
  <1> QED  BY <1>10 DEF s

LEMMA OneIsOn ==
    ASSUME NEW order, Ordered(order), NEW within \in Nat, within < CycleOf(order)
    PROVE  \E k \in 1..Len(order) : Offsets(order)[k] <= within /\ within < Offsets(order)[k + 1]
  <1> DEFINE n == Len(order)
             s == Offsets(order)
             T == {k \in 1..n : within < s[k + 1]}
  <1>1. n \in Nat /\ s \in [1..n + 1 -> Int] /\ s[1] = 0 /\ within < s[n + 1]
    BY OffsetsSum DEF CycleOf
  <1> HIDE DEF s, n
  <1>2. n # 0 /\ n \in T
    BY <1>1
  <1>3. T \subseteq Nat /\ T # {}
    <2>1. 1..n \subseteq Nat
      BY <1>1
    <2> QED  BY <1>2, <2>1
  <1>4. PICK k \in T : \A m \in T : k <= m
    <2> HIDE DEF T
    <2> QED  BY <1>3, LeastOfNaturals
  <1>5. k \in 1..n /\ within < s[k + 1]
    BY <1>4
  <1>6. s[k] <= within
    <2>1. CASE k = 1
      BY <1>1, <2>1
    <2>2. CASE k # 1
      <3>1. k - 1 \in 1..n /\ (k - 1) + 1 = k
        BY <1>1, <1>5, <2>2
      <3>2. k - 1 \notin T
        <4> HIDE DEF T
        <4> QED  BY <1>1, <1>4, <1>5
      <3>3. s[k] \in Int
        BY <1>1, <1>5
      <3> QED  BY <3>1, <3>2, <3>3
    <2> QED  BY <2>1, <2>2
  <1> QED  BY <1>5, <1>6 DEF s, n

\* The instant of the k-th entry of an order, in some turn of its cycle.
StartsAt(order, k, ts) == \E c \in Int : ts = CycleOf(order) * c + Offsets(order)[k]

LEMMA CycleLasts ==
    ASSUME NEW order, Ordered(order), Len(order) # 0
    PROVE  CycleOf(order) \in Nat \ {0}
  <1>1. Len(order) \in Nat /\ Offsets(order)[1] = 0 /\ CycleOf(order) \in Int
    BY OffsetsSum DEF CycleOf
  <1>2. 1 \in 1..Len(order) + 1 /\ Len(order) + 1 \in 1..Len(order) + 1 /\ 1 < Len(order) + 1
    BY <1>1
  <1>3. Offsets(order)[1] < Offsets(order)[Len(order) + 1]
    BY <1>2, OffsetsRise
  <1> QED  BY <1>1, <1>3 DEF CycleOf

LEMMA CycleStartsAt ==
    ASSUME NEW order, Ordered(order), Len(order) # 0, NEW begin \in Int
    PROVE  LET first == CycleStart(order, begin)
           IN /\ first.index \in 1..Len(order) /\ first.start \in Int
              /\ StartsAt(order, first.index, first.start)
  <1> DEFINE n == Len(order)
             s == Offsets(order)
             cycle == CycleOf(order)
             within == begin % cycle
             index == CHOOSE k \in 1..n : s[k] <= within /\ within < s[k + 1]
  <1>1. n \in Nat /\ n # 0 /\ s \in [1..n + 1 -> Int] /\ s[1] = 0
    BY OffsetsSum
  <1>2. cycle \in Nat \ {0}
    BY CycleLasts
  <1>3. CASE begin <= Anchor
    <2>1. CycleStart(order, begin) = [index |-> 1, start |-> Anchor]
      BY <1>3 DEF CycleStart
    <2>2. 0 = cycle * 0 + s[1] /\ 0 \in Int
      BY <1>1, <1>2
    <2>3. StartsAt(order, 1, 0)
      BY <2>2 DEF StartsAt
    <2> QED  BY <1>1, <2>1, <2>3 DEF Anchor
  <1>4. CASE ~(begin <= Anchor)
    <2>1. begin - Anchor = begin
      BY DEF Anchor
    <2>2. CycleStart(order, begin) = [index |-> index, start |-> begin - (within - s[index])]
      BY <1>4, <2>1 DEF CycleStart, CycleOf
    <2>3. within \in Nat /\ within < cycle /\ begin \div cycle \in Int /\ begin = cycle * (begin \div cycle) + within
      <3> HIDE DEF cycle
      <3> QED  BY <1>2, Division
    <2>4. index \in 1..n
      <3>1. \E k \in 1..n : s[k] <= within /\ within < s[k + 1]
        <4> HIDE DEF within
        <4> QED  BY <2>3, OneIsOn
      <3> HIDE DEF within, s, n
      <3> QED  BY <3>1
    <2>5. s[index] \in Int
      <3> HIDE DEF index, s
      <3> QED  BY <1>1, <2>4
    <2> DEFINE c == begin \div cycle
               at == begin - (within - s[index])
    <2>6. at \in Int /\ at = cycle * c + s[index] /\ c \in Int
      <3> HIDE DEF index, s, cycle
      <3>1. cycle * (begin \div cycle) \in Int
        BY <1>2, <2>3
      <3> HIDE DEF within
      <3> QED  BY <2>3, <2>5, <3>1
    <2>7. StartsAt(order, index, at)
      <3> HIDE DEF index, at, c
      <3> QED  BY <2>6 DEF StartsAt
    <2> HIDE DEF index, at
    <2> QED  BY <2>2, <2>4, <2>6, <2>7 DEF at
  <1> QED  BY <1>3, <1>4

\* A programme of an order: one of its entries, at an instant of its own.
Airs(order, p) ==
    \E k \in 1..Len(order), ts \in Int :
        StartsAt(order, k, ts) /\ p = [entry |-> order[k], start |-> ts, stop |-> ts + Seconds(order[k].item)]

\* After an entry the next is due, and after the last the first again.
LEMMA NextStartsAt ==
    ASSUME NEW order, Ordered(order), NEW k \in 1..Len(order), NEW ts, StartsAt(order, k, ts)
    PROVE  StartsAt(order, IF k = Len(order) THEN 1 ELSE k + 1, ts + Seconds(order[k].item))
  <1> DEFINE n == Len(order)
             s == Offsets(order)
             cycle == CycleOf(order)
             lasts == Seconds(order[k].item)
  <1>1. /\ n \in Nat /\ s \in [1..n + 1 -> Int] /\ s[1] = 0 /\ s[k + 1] = s[k] + lasts
        /\ cycle = s[n + 1]
    BY OffsetsSum DEF CycleOf
  <1>2. PICK c \in Int : ts = cycle * c + s[k]
    BY DEF StartsAt
  <1>3. lasts \in Int
    BY SecondsPass DEF Ordered
  <1>4. cycle \in Int /\ s[k] \in Int /\ k \in 1..n
    BY <1>1
  <1>5. cycle * c \in Int /\ cycle * (c + 1) = cycle * c + cycle /\ c + 1 \in Int
    BY <1>2, <1>4
  <1> HIDE DEF s, n, cycle, lasts
  <1>6. CASE k = n
    <2> DEFINE turn == cycle * c
               next == cycle * (c + 1)
    <2>1. turn \in Int /\ next = turn + cycle /\ ts = turn + s[k]
      BY <1>2, <1>5
    <2>2. cycle = s[k] + lasts /\ s[1] = 0
      BY <1>1, <1>6
    <2> HIDE DEF turn, next
    <2>3. ts + lasts = next + s[1]
      BY <1>3, <1>4, <2>1, <2>2, SMTT(20)
    <2>4. ts + lasts = cycle * (c + 1) + s[1]
      BY <2>3 DEF next
    <2> QED  BY <2>4, <1>5, <1>6 DEF StartsAt, s, n, cycle, lasts
  <1>7. CASE k # n
    <2> DEFINE turn == cycle * c
    <2>0. turn \in Int /\ ts = turn + s[k]
      BY <1>2, <1>5
    <2> HIDE DEF turn
    <2>1. ts + lasts = turn + s[k + 1]
      BY <1>1, <1>3, <1>4, <2>0
    <2> USE DEF turn
    <2> QED  BY <2>1, <1>2, <1>7 DEF StartsAt, s, n, cycle, lasts
  <1> QED  BY <1>6, <1>7

LEMMA ShortestLasts ==
    ASSUME NEW order, Ordered(order), Len(order) # 0
    PROVE  Min({Seconds(e.item) : e \in Range(order)}) \in Nat \ {0}
  <1> DEFINE T == {Seconds(e.item) : e \in Range(order)}
  <1>1. Range(order) = {order[k] : k \in 1..Len(order)} /\ 1 \in 1..Len(order)
    BY DEF Ordered, Range
  <1>2. T \subseteq Nat \ {0}
    BY <1>1, SecondsPass DEF Ordered
  <1>3. T \subseteq Nat /\ T # {}
    BY <1>1, <1>2
  <1> HIDE DEF T
  <1>4. \E n \in T : \A m \in T : n <= m
    BY <1>3, LeastOfNaturals
  <1>5. Min(T) \in T
    BY <1>4 DEF Min
  <1> QED  BY <1>2, <1>5 DEF T

LEMMA ListingAirs ==
    ASSUME NEW order, Ordered(order), NEW begin \in Int, NEW end \in Int, NEW p \in Range(Listing(order, begin, end))
    PROVE  Airs(order, p)
  <1> DEFINE n == Len(order)
             first == CycleStart(order, begin)
             shortest == Min({Seconds(e.item) : e \in Range(order)})
             last == (end - first.start) \div shortest + 2
             place(k) == ((first.index + k - 2) % n) + 1
             Is(s) == s = [k \in 1..last |-> IF k = 1 THEN first.start ELSE s[k - 1] + Seconds(order[place(k - 1)].item)]
             start == CHOOSE s : Is(s)
             d == [k \in 1..last |-> Seconds(order[place(k)].item)]
  <1>1. CASE order = <<>>
    BY <1>1 DEF Listing, Range
  <1>2. CASE order # <<>>
    <2>1. n \in Nat /\ n # 0
      BY <1>2 DEF Ordered
    <2>2. first.index \in 1..n /\ first.start \in Int /\ StartsAt(order, first.index, first.start)
      BY <2>1, CycleStartsAt
    <2>3. shortest \in Nat \ {0}
      BY <2>1, ShortestLasts
    <2>4. last \in Int
      <3> DEFINE gap == end - first.start
      <3>1. gap \in Int
        <4> HIDE DEF first
        <4> QED  BY <2>2
      <3> HIDE DEF gap, shortest
      <3>2. gap \div shortest \in Int
        BY <2>3, <3>1, Division
      <3>3. (gap \div shortest) + 2 \in Int
        BY <3>2
      <3> QED  BY <3>3 DEF gap
    <2>5. \A k \in Int : place(k) \in 1..n
      <3> SUFFICES ASSUME NEW k \in Int PROVE place(k) \in 1..n
        OBVIOUS
      <3> DEFINE a == first.index + k - 2
      <3>1. a \in Int
        <4> HIDE DEF first
        <4> QED  BY <2>1, <2>2
      <3>2. a % n \in 0..n - 1
        <4> HIDE DEF a, n
        <4> QED  BY <2>1, <3>1, Division
      <3> HIDE DEF n, first
      <3> QED  BY <2>1, <3>2
    <2>6. Is(start)
      <3>1. \A k \in 1..last : d[k] \in Int /\ (k # 1 => k - 1 \in 1..last /\ d[k - 1] = Seconds(order[place(k - 1)].item))
        <4>1. \A k \in 1..last : d[k] \in Int
          <5> SUFFICES ASSUME NEW k \in 1..last PROVE d[k] \in Int
            OBVIOUS
          <5>1. k \in Int
            <6> HIDE DEF last
            <6> QED  BY <2>4
          <5>2. place(k) \in 1..Len(order)
            <6> HIDE DEF place
            <6> QED  BY <2>5, <5>1
          <5>3. Seconds(order[place(k)].item) \in Int
            <6> HIDE DEF place
            <6> QED  BY <5>2, SecondsPass DEF Ordered
          <5> HIDE DEF place, last
          <5> QED  BY <5>3
        <4>2. \A k \in 1..last : k # 1 => k - 1 \in 1..last
          <5> HIDE DEF last
          <5> QED  BY <2>4
        <4> HIDE DEF last, place
        <4> QED  BY <4>1, <4>2
      <3> HIDE DEF d
      <3>2. ASSUME NEW s PROVE Is(s) <=> IsSum(s, first.start, d, last)
        <4> HIDE DEF last, place, first
        <4> QED  BY <3>1 DEF IsSum
      <3>3. \E s : IsSum(s, first.start, d, last)
        <4> HIDE DEF last, first, Is
        <4> QED  BY <2>2, <2>4, <3>1, SumsExist
      <3> HIDE DEF Is
      <3> QED  BY <3>2, <3>3
    <2> HIDE DEF start
    <2>7. /\ DOMAIN start = 1..last
          /\ \A k \in 1..last : start[k] = IF k = 1 THEN first.start ELSE start[k - 1] + Seconds(order[place(k - 1)].item)
      <3> HIDE DEF last, place, first
      <3> QED  BY <2>6
    <2>8. PICK k \in 1..last : p = [entry |-> order[place(k)], start |-> start[k], stop |-> start[k] + Seconds(order[place(k)].item)]
      <3> DEFINE programme(j) == [entry |-> order[place(j)], start |-> start[j], stop |-> start[j] + Seconds(order[place(j)].item)]
      <3>1. Listing(order, begin, end) = [j \in {j \in DOMAIN start : start[j] < end} |-> programme(j)]
        BY <1>2 DEF Listing, start
      <3> HIDE DEF programme, last
      <3>2. PICK k \in DOMAIN start : p = programme(k)
        BY <3>1 DEF Range
      <3> QED  BY <2>7, <3>2 DEF programme
    <2> DEFINE T == {j \in 1..last : start[j] \in Int /\ StartsAt(order, place(j), start[j])}
    <2>9. last >= 1 => 1 \in T
      <3>1. place(1) = first.index
        <4> DEFINE a == first.index + 1 - 2
        <4>1. a \in 0..n - 1 /\ a \in Int
          <5> HIDE DEF first, n
          <5> QED  BY <2>1, <2>2
        <4>2. a % n \in 0..n - 1 /\ a \div n \in Int /\ n * 0 + a = n * (a \div n) + (a % n) /\ 0 \in Int
          <5> HIDE DEF a, n
          <5>1. a % n \in 0..n - 1 /\ a \div n \in Int /\ a = n * (a \div n) + (a % n)
            BY <2>1, <4>1, Division
          <5>2. n * 0 + a = a
            BY <2>1, <4>1
          <5> QED  BY <5>1, <5>2
        <4>3. a % n = a
          <5> HIDE DEF a, n
          <5> QED  BY <2>1, <4>1, <4>2, OneQuotient
        <4> HIDE DEF first, n
        <4> QED  BY <2>2, <4>3
      <3> HIDE DEF place, first, last
      <3> QED  BY <2>2, <2>4, <2>7, <3>1
    <2>10. ASSUME NEW j \in 1..last, j < last, j \in T PROVE j + 1 \in T
      <3>1. j \in Int /\ j + 1 \in 1..last /\ j + 1 # 1 /\ (j + 1) - 1 = j
        <4> HIDE DEF last, T
        <4> QED  BY <2>4, <2>10
      <3>2. place(j + 1) = IF place(j) = n THEN 1 ELSE place(j) + 1
        <4> DEFINE a == first.index + j - 2
        <4>1. a \in Int /\ first.index + (j + 1) - 2 = a + 1
          <5> HIDE DEF first, n
          <5> QED  BY <2>1, <2>2, <3>1
        <4>2. (a + 1) % n = IF a % n = n - 1 THEN 0 ELSE (a % n) + 1
          <5> HIDE DEF a, n
          <5> QED  BY <2>1, <4>1, NextRemainder
        <4>3. a % n \in 0..n - 1
          <5> HIDE DEF a, n
          <5> QED  BY <2>1, <4>1, Division
        <4>4. place(j) = (a % n) + 1 /\ place(j + 1) = ((a + 1) % n) + 1
          <5> HIDE DEF n, first
          <5> QED  BY <4>1
        <4> HIDE DEF place, a, n
        <4> QED  BY <2>1, <4>2, <4>3, <4>4
      <3>3. place(j) \in 1..n /\ StartsAt(order, place(j), start[j]) /\ start[j] \in Int
        <4> HIDE DEF place
        <4> QED  BY <2>5, <2>10, <3>1
      <3> DEFINE lasts == Seconds(order[place(j)].item)
      <3>4. start[j + 1] = start[j] + lasts /\ lasts \in Int
        <4> HIDE DEF place, last
        <4> QED  BY <2>7, <3>1, <3>3, SecondsPass DEF Ordered
      <3>5. StartsAt(order, IF place(j) = n THEN 1 ELSE place(j) + 1, start[j] + lasts)
        <4> HIDE DEF place
        <4> QED  BY <3>3, NextStartsAt
      <3> HIDE DEF place, last
      <3> QED  BY <3>1, <3>2, <3>3, <3>4, <3>5
    <2>11. 1..last \subseteq T
      <3> HIDE DEF T, last
      <3> QED  BY <2>4, <2>9, <2>10, UpTo
    <2>12. start[k] \in Int /\ StartsAt(order, place(k), start[k]) /\ place(k) \in 1..n
      <3> HIDE DEF last, place
      <3> QED  BY <2>4, <2>5, <2>8, <2>11
    <2> HIDE DEF place, last
    <2> QED  BY <2>8, <2>12 DEF Airs
  <1> QED  BY <1>1, <1>2

\* Two programmes of an order that overlap are one.
LEMMA AirsOnce ==
    ASSUME NEW order, Ordered(order), NEW p, Airs(order, p), NEW q, Airs(order, q), Overlap(p, q)
    PROVE  p = q
  <1> DEFINE n == Len(order)
             s == Offsets(order)
             cycle == CycleOf(order)
  <1>1. PICK j \in 1..n, c \in Int : p = [entry |-> order[j], start |-> cycle * c + s[j], stop |-> cycle * c + s[j] + Seconds(order[j].item)]
    BY DEF Airs, StartsAt
  <1>2. PICK k \in 1..n, e \in Int : q = [entry |-> order[k], start |-> cycle * e + s[k], stop |-> cycle * e + s[k] + Seconds(order[k].item)]
    BY DEF Airs, StartsAt
  <1>3. /\ n \in Nat /\ s \in [1..n + 1 -> Int] /\ s[1] = 0 /\ cycle = s[n + 1]
        /\ s[j + 1] = s[j] + Seconds(order[j].item) /\ s[k + 1] = s[k] + Seconds(order[k].item)
    BY OffsetsSum DEF CycleOf
  <1>4. n # 0 /\ cycle \in Nat \ {0}
    BY <1>1, <1>3, CycleLasts
  <1>5. Seconds(order[j].item) \in Int /\ Seconds(order[k].item) \in Int
    BY SecondsPass DEF Ordered
  <1>6. \A i, m \in 1..n + 1 : i < m => s[i] < s[m]
    BY OffsetsRise
  <1> DEFINE pc == cycle * c
             qc == cycle * e
  <1> HIDE DEF s, n, cycle
  <1>7. pc \in Int /\ qc \in Int
    BY <1>4
  <1>8. (c + 1 <= e => pc + cycle <= qc) /\ (e + 1 <= c => qc + cycle <= pc) /\ (c = e => pc = qc)
    <2>1. c + 1 <= e => (c + 1) * cycle <= e * cycle
      BY <1>4, TimesAtLeast
    <2>2. e + 1 <= c => (e + 1) * cycle <= c * cycle
      BY <1>4, TimesAtLeast
    <2> QED  BY <1>4, <2>1, <2>2
  <1> HIDE DEF pc, qc
  <1>9. /\ p.start = pc + s[j] /\ p.stop = pc + s[j + 1] /\ q.start = qc + s[k] /\ q.stop = qc + s[k + 1]
        /\ s[j] \in Int /\ s[j + 1] \in Int /\ s[k] \in Int /\ s[k + 1] \in Int
    <2>1. p.start = pc + s[j] /\ p.stop = pc + s[j] + Seconds(order[j].item)
      BY <1>1 DEF pc
    <2>2. q.start = qc + s[k] /\ q.stop = qc + s[k] + Seconds(order[k].item)
      BY <1>2 DEF qc
    <2>3. j \in 1..n + 1 /\ j + 1 \in 1..n + 1 /\ k \in 1..n + 1 /\ k + 1 \in 1..n + 1
      BY <1>3
    <2>4. s[j] \in Int /\ s[j + 1] \in Int /\ s[k] \in Int /\ s[k + 1] \in Int
      BY <1>3, <2>3
    <2>5. pc + s[j] + Seconds(order[j].item) = pc + (s[j] + Seconds(order[j].item))
      BY <1>5, <1>7, <2>4
    <2>6. qc + s[k] + Seconds(order[k].item) = qc + (s[k] + Seconds(order[k].item))
      BY <1>5, <1>7, <2>4
    <2>7. s[j + 1] = s[j] + Seconds(order[j].item) /\ s[k + 1] = s[k] + Seconds(order[k].item)
      BY <1>3
    <2> QED  BY <2>1, <2>2, <2>4, <2>5, <2>6, <2>7
  <1>10. /\ 0 <= s[j] /\ 0 <= s[k] /\ s[j + 1] <= cycle /\ s[k + 1] <= cycle
         /\ j < k => s[j + 1] <= s[k]
         /\ k < j => s[k + 1] <= s[j]
    <2>1. 1 \in 1..n + 1 /\ j \in 1..n + 1 /\ k \in 1..n + 1 /\ j + 1 \in 1..n + 1 /\ k + 1 \in 1..n + 1 /\ n + 1 \in 1..n + 1
      BY <1>3
    <2>2. (1 = j \/ 1 < j) /\ (1 = k \/ 1 < k) /\ (j + 1 = n + 1 \/ j + 1 < n + 1) /\ (k + 1 = n + 1 \/ k + 1 < n + 1)
      BY <1>3
    <2>3. 0 <= s[j] /\ 0 <= s[k] /\ s[j + 1] <= cycle /\ s[k + 1] <= cycle
      BY <1>3, <1>4, <1>6, <1>9, <2>1, <2>2
    <2>4. (j < k => j + 1 = k \/ j + 1 < k) /\ (k < j => k + 1 = j \/ k + 1 < j)
      OBVIOUS
    <2>5. (j < k => s[j + 1] <= s[k]) /\ (k < j => s[k + 1] <= s[j])
      BY <1>6, <1>9, <2>1, <2>4
    <2> QED  BY <2>3, <2>5
  <1>11. pc + s[j] < qc + s[k + 1] /\ qc + s[k] < pc + s[j + 1]
    BY <1>9 DEF Overlap
  <1>12. c = e
    <2>1. ~(c + 1 <= e)
      BY <1>4, <1>7, <1>8, <1>9, <1>10, <1>11
    <2>2. ~(e + 1 <= c)
      BY <1>4, <1>7, <1>8, <1>9, <1>10, <1>11
    <2> QED  BY <2>1, <2>2
  <1>13. j = k
    <2>1. pc = qc
      BY <1>8, <1>12
    <2>2. ~(j < k) /\ ~(k < j)
      BY <1>7, <1>9, <1>10, <1>11, <2>1
    <2> QED  BY <2>2
  <1> QED  BY <1>1, <1>2, <1>12, <1>13
-----------------------------------------------------------------------------
(* The file and the guide *)

LEMMA ImagesAreFinite ==
    ASSUME NEW S, IsFiniteSet(S), NEW f
    PROVE  IsFiniteSet({f[k] : k \in S})
  <1> DEFINE g == [k \in S |-> f[k]]
             T == {f[k] : k \in S}
  <1>1. g \in Surjection(S, T)
    BY DEF Surjection
  <1> HIDE DEF g, T
  <1> QED  BY <1>1, FS_Surjection DEF T

LEMMA EntriesAreFinite ==
    ASSUME NEW p, NEW pool \in SUBSET Items, NEW answered \in SUBSET Items, episodes \in [Items -> Nat]
    PROVE  /\ IsFiniteSet(ScheduleEntries(p, pool, answered))
           /\ \A e \in ScheduleEntries(p, pool, answered) : e.item \in Items
  <1> DEFINE films == {j \in pool : ~Item[j].series}
             film == [i \in Items |-> [item |-> i, episode |-> 0, rule |-> RulePosition(p, i)]]
             part == [i \in Items |-> [e \in 1..episodes[i] |-> [item |-> i, episode |-> e, rule |-> RulePosition(p, i)]]]
             parts == [i \in Items |-> {part[i][e] : e \in 1..episodes[i]}]
  <1>1. IsFiniteSet(films) /\ IsFiniteSet(answered)
    <2>1. films \in SUBSET Items
      OBVIOUS
    <2> HIDE DEF films
    <2> QED  BY <2>1, ItemsAreFinite, FS_Subset
  <1>2. \A i \in Items : IsFiniteSet(parts[i])
    <2> SUFFICES ASSUME NEW i \in Items PROVE IsFiniteSet(parts[i])
      OBVIOUS
    <2>1. IsFiniteSet(1..episodes[i])
      <3>1. episodes[i] \in Int /\ 1 \in Int
        OBVIOUS
      <3> QED  BY <3>1, FS_Interval
    <2> HIDE DEF part
    <2>2. IsFiniteSet({part[i][e] : e \in 1..episodes[i]})
      BY <2>1, ImagesAreFinite
    <2> QED  BY <2>2
  <1>3. {[item |-> i, episode |-> 0, rule |-> RulePosition(p, i)] : i \in films} = {film[i] : i \in films}
    OBVIOUS
  <1> DEFINE block(i) == {[item |-> i, episode |-> e, rule |-> RulePosition(p, i)] : e \in 1..episodes[i]}
  <1>4. \A i \in answered : block(i) = parts[i]
    OBVIOUS
  <1>5. ScheduleEntries(p, pool, answered) = {film[i] : i \in films} \union UNION {parts[i] : i \in answered}
    <2> HIDE DEF film, parts, films, block
    <2>1. {block(i) : i \in answered} = {parts[i] : i \in answered}
      BY <1>4
    <2>2. UNION {block(i) : i \in answered} = UNION {parts[i] : i \in answered}
      BY <2>1
    <2> QED  BY <1>3, <2>2 DEF ScheduleEntries, films, block
  <1>6. \A i \in Items : film[i].item = i /\ \A e \in parts[i] : e.item = i
    <2> SUFFICES ASSUME NEW i \in Items PROVE film[i].item = i /\ \A e \in parts[i] : e.item = i
      OBVIOUS
    <2>1. film[i].item = i
      OBVIOUS
    <2>2. \A e \in 1..episodes[i] : part[i][e].item = i
      OBVIOUS
    <2>3. parts[i] = {part[i][e] : e \in 1..episodes[i]}
      OBVIOUS
    <2> HIDE DEF part, parts
    <2> QED  BY <2>1, <2>2, <2>3
  <1> HIDE DEF film, parts
  <1>7. IsFiniteSet({film[i] : i \in films})
    BY <1>1, ImagesAreFinite
  <1>8. IsFiniteSet({parts[i] : i \in answered}) /\ \A T \in {parts[i] : i \in answered} : IsFiniteSet(T)
    BY <1>1, <1>2, ImagesAreFinite
  <1>9. IsFiniteSet(UNION {parts[i] : i \in answered})
    BY <1>8, FS_UNION
  <1>10. IsFiniteSet(ScheduleEntries(p, pool, answered))
    <2> DEFINE A == {film[i] : i \in films}
               B == UNION {parts[i] : i \in answered}
    <2>1. IsFiniteSet(A \union B)
      <3> HIDE DEF A, B
      <3>1. IsFiniteSet(A) /\ IsFiniteSet(B)
        BY <1>7, <1>9 DEF A, B
      <3> QED  BY <3>1, FS_Union
    <2> QED  BY <1>5, <2>1
  <1> QED  BY <1>5, <1>6, <1>10

LEMMA SortedAreOrdered ==
    ASSUME NEW p, NEW entries, IsFiniteSet(entries), \A e \in entries : e.item \in Items,
           NEW order \in SortEntries(p, entries)
    PROVE  Ordered(order)
  <1> DEFINE n == Cardinality(entries)
  <1>1. n \in Nat
    BY FS_CardinalityType
  <1>2. order \in [1..n -> entries]
    BY DEF SortEntries
  <1>3. order \in Seq(entries) /\ Len(order) = n
    BY <1>1, <1>2
  <1> QED  BY <1>2, <1>3 DEF Ordered

\* A schedule that some build made, from some order of entries.
Made(s) == \E print, order, t : Ordered(order) /\ t \in Int /\ s = NewSchedule(print, order, t)

ScheduleInv ==
    /\ nowTs \in Int /\ episodes \in [Items -> Nat]
    /\ DOMAIN makers = Programmers
    /\ \A a \in Programmers : makers[a].at = "fetches" => makers[a].print.pool \in SUBSET Items
    /\ schedule \in {NoSchedule, Torn} \/ Made(schedule)
    /\ listed = NoSchedule \/ Made(listed)

LEMMA MadeAirs ==
    ASSUME NEW s, Made(s)
    PROVE  Ordered(s.order) /\ \A p \in Range(s.programmes) : Airs(s.order, p)
  <1>1. PICK print, order, t : Ordered(order) /\ t \in Int /\ s = NewSchedule(print, order, t)
    BY DEF Made
  <1> DEFINE begin == WindowBegin(t)
             end == t + TARGET_EPG_WINDOW_HOURS * Hour
  <1>2. s.order = order /\ s.programmes = Listing(order, begin, end)
    BY <1>1 DEF NewSchedule
  <1>3. end \in Int
    BY <1>1, InstantsAreSeconds DEF Hour
  <1>4. begin \in Int
    BY <1>1 DEF WindowBegin, Day, Hour
  <1> HIDE DEF begin, end
  <1> QED  BY <1>1, <1>2, <1>3, <1>4, ListingAirs

LEMMA BuildsKeep ==
    ASSUME ScheduleInv, NEW a \in Programmers, Builds(a)
    PROVE  /\ DOMAIN makers' = Programmers
           /\ \A b \in Programmers : makers'[b].at = "fetches" => makers'[b].print.pool \in SUBSET Items
           /\ listed' = NoSchedule \/ Made(listed')
  <1> DEFINE print == Fingerprint(plan, switchedOn)
             build == [at |-> "fetches", print |-> print]
  <1>1. CASE Usable(schedule, nowTs) /\ schedule.print = print
    <2>1. makers' = makers /\ listed' \in {listed, schedule}
      BY <1>1 DEF Builds, Given
    <2>2. schedule \notin {NoSchedule, Torn}
      BY <1>1 DEF Usable
    <2> QED  BY <2>1, <2>2 DEF ScheduleInv
  <1>2. CASE ~(Usable(schedule, nowTs) /\ schedule.print = print)
    <2>1. makers' = [makers EXCEPT ![a] = build] /\ listed' = listed
      BY <1>2 DEF Builds
    <2>2. build.print.pool \in SUBSET Items
      BY DEF Fingerprint, Pool
    <2> HIDE DEF build
    <2> QED  BY <2>1, <2>2 DEF ScheduleInv
  <1> QED  BY <1>1, <1>2

LEMMA BuildEndsKeeps ==
    ASSUME ScheduleInv, NEW a \in Programmers, BuildEnds(a)
    PROVE  ScheduleInv'
  <1> DEFINE print == makers[a].print
             series == {i \in print.pool : Item[i].series}
  <1>1. PICK answered \in SUBSET series : \E order \in SortEntries(print.plan, ScheduleEntries(print.plan, print.pool, answered)) :
           schedule' = NewSchedule(print, order, nowTs) /\ Given(a, NewSchedule(print, order, nowTs))
    BY DEF BuildEnds
  <1> DEFINE entries == ScheduleEntries(print.plan, print.pool, answered)
  <1>2. PICK order \in SortEntries(print.plan, entries) :
           schedule' = NewSchedule(print, order, nowTs) /\ Given(a, NewSchedule(print, order, nowTs))
    BY <1>1
  <1>3. print.pool \in SUBSET Items /\ answered \in SUBSET Items /\ episodes \in [Items -> Nat] /\ nowTs \in Int
    BY DEF BuildEnds, ScheduleInv
  <1>4. IsFiniteSet(entries) /\ \A e \in entries : e.item \in Items
    <2> HIDE DEF print
    <2> QED  BY <1>3, EntriesAreFinite
  <1>5. Ordered(order)
    <2> HIDE DEF print, entries
    <2> QED  BY <1>2, <1>4, SortedAreOrdered
  <1>6. Made(schedule')
    <2> HIDE DEF print
    <2> QED  BY <1>2, <1>3, <1>5 DEF Made
  <1>7. listed' \in {listed, schedule'}
    BY <1>2 DEF Given
  <1>8. /\ DOMAIN makers' = Programmers /\ nowTs' = nowTs /\ episodes' = episodes
        /\ \A b \in Programmers : makers'[b].at = "fetches" => makers'[b].print.pool \in SUBSET Items
    BY DEF BuildEnds, ScheduleInv, NoBuild
  <1> QED  BY <1>3, <1>6, <1>7, <1>8 DEF ScheduleInv

LEMMA ScheduleStarts == ScheduleInit => ScheduleInv
  BY InstantsAreSeconds DEF ScheduleInit, ScheduleInv, NoBuild

LEMMA ScheduleKept == ScheduleInv /\ [ScheduleNext]_scheduleVars => ScheduleInv'
  <1> SUFFICES ASSUME ScheduleInv, [ScheduleNext]_scheduleVars PROVE ScheduleInv'
    OBVIOUS
  <1>1. ASSUME NEW p \in Plans, ChannelSaved(p) PROVE ScheduleInv'
    <2> DEFINE build == [at |-> "fetches", print |-> Fingerprint(p, switchedOn)]
    <2>1. build.print.pool \in SUBSET Items
      BY DEF Fingerprint, Pool
    <2>2. makers' = [makers EXCEPT !["editor"] = build]
      BY <1>1 DEF ChannelSaved
    <2> HIDE DEF build
    <2> QED  BY <1>1, <2>1, <2>2 DEF ChannelSaved, ScheduleInv
  <1>2. CASE GuideAsks
    <2>1. "guide" \in Programmers /\ Builds("guide")
      BY <1>2 DEF GuideAsks, Programmers
    <2> QED  BY <1>2, <2>1, BuildsKeep DEF GuideAsks, ScheduleInv
  <1>3. ASSUME NEW a \in Players, PlayerAsks(a) PROVE ScheduleInv'
    <2>1. a \in Programmers
      BY DEF Programmers
    <2>2. CASE Builds(a)
      BY <1>3, <2>1, <2>2, BuildsKeep DEF PlayerAsks, ScheduleInv
    <2>3. CASE UNCHANGED <<makers, listed>>
      BY <1>3, <2>3 DEF PlayerAsks, ScheduleInv
    <2> QED  BY <1>3, <2>2, <2>3 DEF PlayerAsks
  <1>4. ASSUME NEW a \in Programmers, BuildEnds(a) PROVE ScheduleInv'
    BY <1>4, BuildEndsKeeps
  <1>5. CASE ScheduleTorn
    BY <1>5 DEF ScheduleTorn, ScheduleInv, NoBuild
  <1>6. ASSUME NEW l \in SchedulePlaylists, PlaylistToggled(l) PROVE ScheduleInv'
    BY <1>6 DEF PlaylistToggled, ScheduleInv
  <1>7. ASSUME NEW i \in Items, EpisodeAdded(i) PROVE ScheduleInv'
    BY <1>7 DEF EpisodeAdded, ScheduleInv
  <1>8. CASE TimeGoesOn
    BY <1>8, InstantsAreSeconds DEF TimeGoesOn, ScheduleInv
  <1>9. CASE UNCHANGED scheduleVars
    BY <1>9 DEF scheduleVars, ScheduleInv
  <1> QED  BY <1>1, <1>2, <1>3, <1>4, <1>5, <1>6, <1>7, <1>8, <1>9 DEF ScheduleNext

\* The guide and the file agree on what is on wherever they were made from the
\* same entries: for any library, rules, order, window and instants, a rebuild
\* moves no programme (vod_channels.py 160-182, 512-563).
THEOREM RebuildsMoveNothing == ScheduleSpec => []ScheduleIsStable
  <1>1. ScheduleInv => ScheduleIsStable
    <2> SUFFICES ASSUME ScheduleInv, listed # NoSchedule, schedule \notin {NoSchedule, Torn}, listed.order = schedule.order,
                        NEW p \in Range(listed.programmes), NEW q \in Range(schedule.programmes), Overlap(p, q)
                 PROVE  p = q
      BY DEF ScheduleIsStable
    <2>1. Made(listed) /\ Made(schedule)
      BY DEF ScheduleInv
    <2>2. Ordered(listed.order) /\ Airs(listed.order, p) /\ Airs(listed.order, q)
      BY <2>1, MadeAirs
    <2> QED  BY <2>2, AirsOnce
  <1> QED  BY <1>1, ScheduleStarts, ScheduleKept, PTL DEF ScheduleSpec
-----------------------------------------------------------------------------
(* The sources of a channel: a refresh leaves no address behind *)

\* What an entry of the dialog or of the refresh is, and a row with it.
PlaceOf == [id : Nat, playlist : Playlists \union {Manual}, account : Accounts \union {NoAccount},
            stream : Streams, url : Nat \X (Accounts \union {NoAccount}) \X Streams,
            auto : BOOLEAN, priority : Int]
SourceEntries == {e \in PlaceOf : e.url[3] = e.stream}

SourcesTypeOK ==
    /\ offered \in [Playlists -> [Streams -> Nat]]
    /\ imported \in [Playlists -> [Streams -> Nat]]
    /\ IsFiniteSet(sources) /\ sources \subseteq SourceEntries
    /\ job \in [step : {"idle", "import", "read", "save"}, todo : SUBSET Playlists,
                done : SUBSET Playlists, stops : BOOLEAN, payload : Seq(SourceEntries)]
    /\ dialog \in [open : BOOLEAN, entries : Seq(SourceEntries)]

\* An id stands for one stream of one playlist, wherever it is remembered.
IdsStay ==
    /\ \A r \in sources : r.id # 0
    /\ \A e, f \in Remembered :
          e.id = f.id /\ e.id # 0 => e.playlist = f.playlist /\ e.stream = f.stream

\* A refresh under way has something to refresh.
RefreshIsAsked ==
    job.step = "save" => \E e \in Range(job.payload) : e.auto /\ e.playlist \in job.done

SourcesInv == SourcesTypeOK /\ IdsStay /\ RefreshIsAsked

\* A finite set of numbers has a greatest.
LEMMA BoundedAbove ==
    ASSUME NEW S, IsFiniteSet(S), S \subseteq Nat
    PROVE  \E b \in Nat : \A s \in S : s <= b
  <1>1. Cardinality(S) \in Nat /\ ExistsBijection(1..Cardinality(S), S)
    BY FS_CardinalityType
  <1>2. PICK f : f \in Bijection(1..Cardinality(S), S)
    BY <1>1 DEF ExistsBijection
  <1> DEFINE n == Cardinality(S)
             Unbounded == {k \in 0..n : \A b \in Nat : \E i \in 1..k : ~(f[i] <= b)}
  <1>3. n \in Nat /\ \A i \in 1..n : f[i] \in Nat
    BY <1>1, <1>2 DEF Bijection, Injection, IsInjective
  <1>4. \A s \in S : \E i \in 1..n : f[i] = s
    BY <1>2 DEF Bijection, Surjection
  <1> HIDE DEF n
  <1>5. Unbounded = {}
    <2>1. SUFFICES ASSUME Unbounded # {}
                   PROVE  FALSE
      OBVIOUS
    <2>2. Unbounded \subseteq Nat
      BY <1>3
    <2>3. PICK k \in Unbounded : \A m \in Unbounded : k <= m
      BY <2>1, <2>2, LeastOfNaturals
    <2>4. k # 0 /\ k \in 1..n /\ k - 1 \in 0..n /\ ~(k <= k - 1)
      BY <2>3, <1>3
    <2>5. PICK b \in Nat : \A i \in 1..(k - 1) : f[i] <= b
      BY <2>3, <2>4
    <2>6. f[k] \in Nat
      BY <2>4, <1>3
    <2>7. \A i \in 1..k : f[i] <= (IF f[k] > b THEN f[k] ELSE b)
      <3> SUFFICES ASSUME NEW i \in 1..k
                   PROVE  f[i] <= (IF f[k] > b THEN f[k] ELSE b)
        OBVIOUS
      <3>1. CASE i = k
        BY <3>1, <2>6
      <3>2. CASE i # k
        <4>1. i \in 1..(k - 1) /\ i \in 1..n
          BY <3>2, <2>4, <1>3
        <4> QED
          BY <4>1, <2>5, <2>6, <1>3
      <3> QED
        BY <3>1, <3>2
    <2>8. (IF f[k] > b THEN f[k] ELSE b) \in Nat
      BY <2>6
    <2> QED
      BY <2>3, <2>7, <2>8
  <1>6. n \in 0..n
    BY <1>3
  <1>7. PICK b \in Nat : \A i \in 1..n : f[i] <= b
    BY <1>5, <1>6
  <1> QED
    BY <1>4, <1>7

LEMMA GreatestOfNaturals ==
    ASSUME NEW S, IsFiniteSet(S), S \subseteq Nat, S # {}
    PROVE  Max(S) \in S /\ \A s \in S : Max(S) >= s
  <1> DEFINE Bounds == {b \in Nat : \A s \in S : s <= b}
  <1>1. Bounds \subseteq Nat /\ Bounds # {}
    BY BoundedAbove
  <1>2. PICK b \in Bounds : \A c \in Bounds : b <= c
    BY <1>1, LeastOfNaturals
  <1>3. b \in S
    <2>1. SUFFICES ASSUME b \notin S
                   PROVE  FALSE
      OBVIOUS
    <2>2. \A s \in S : s \in Nat /\ s <= b /\ s # b
      BY <2>1, <1>2
    <2>3. b # 0 /\ b \in Nat
      <3>1. PICK s \in S : TRUE
        OBVIOUS
      <3> QED
        BY <3>1, <2>2, <1>2
    <2>4. b - 1 \in Bounds /\ ~(b <= b - 1)
      BY <2>2, <2>3
    <2> QED
      BY <2>4, <1>2
  <1>4. \A s \in S : b >= s
    BY <1>2
  <1> QED
    BY <1>3, <1>4 DEF Max

LEMMA PlacesAreOfEntries ==
    ASSUME NEW payload \in Seq(SourceEntries)
    PROVE  /\ IsFiniteSet(RowPlaces(payload))
           /\ \A x \in RowPlaces(payload) :
                 /\ x[1] \in 1..Len(payload) /\ payload[x[1]] \in SourceEntries
                 /\ x[2] \in 0..Len(AccountOrder) /\ x = <<x[1], x[2]>>
                 /\ x[2] # 0 => payload[x[1]].playlist \in XcPlaylists
  <1>1. AccountOrder \in Seq(Range(AccountOrder))
    BY AccountsAreListed
  <1>2. DOMAIN AccountOrder = 1..Len(AccountOrder) /\ Len(AccountOrder) \in Nat
    BY <1>1
  <1>3. DOMAIN payload = 1..Len(payload) /\ Len(payload) \in Nat
    OBVIOUS
  <1>4. ASSUME NEW e  PROVE AccountsOf(e) \subseteq 0..Len(AccountOrder)
    BY <1>2 DEF AccountsOf
  <1>5. RowPlaces(payload) \subseteq (1..Len(payload)) \X (0..Len(AccountOrder))
    BY <1>3, <1>4 DEF RowPlaces
  <1>6. IsFiniteSet((1..Len(payload)) \X (0..Len(AccountOrder)))
    <2>1. IsFiniteSet(1..Len(payload))
      BY <1>3, FS_Interval
    <2>2. IsFiniteSet(0..Len(AccountOrder))
      BY <1>2, FS_Interval
    <2> QED
      BY <2>1, <2>2, FS_Product
  <1>7. IsFiniteSet(RowPlaces(payload))
    BY <1>5, <1>6, FS_Subset
  <1>8. ASSUME NEW x \in RowPlaces(payload)
        PROVE  x[2] # 0 => payload[x[1]].playlist \in XcPlaylists
    <2>1. PICK i \in DOMAIN payload : x \in {i} \X AccountsOf(payload[i])
      BY DEF RowPlaces
    <2>2. x[1] = i /\ x[2] \in AccountsOf(payload[i])
      BY <2>1
    <2> QED
      BY <2>1, <2>2 DEF AccountsOf, Spread
  <1>9. ASSUME NEW x \in RowPlaces(payload)
        PROVE  /\ x[1] \in 1..Len(payload) /\ payload[x[1]] \in SourceEntries
               /\ x[2] \in 0..Len(AccountOrder) /\ x = <<x[1], x[2]>>
    BY <1>5, <1>3
  <1> QED
    BY <1>7, <1>8, <1>9

\* What is known of the rows and the entries an update works on.
KnownIds(existing, entries) ==
    /\ existing \subseteq SourceEntries
    /\ \A r \in existing : r.id # 0
    /\ \A e \in entries : \A r \in existing :
          e.id = r.id => e.playlist = r.playlist /\ e.stream = r.stream

\* The row an entry takes over is one of the entry's stream.
LEMMA TakenIsAlike ==
    ASSUME NEW existing, NEW e \in SourceEntries, NEW k \in 0..Len(AccountOrder),
           KnownIds(existing, {e}), NEW r \in Taken(e, k, existing)
    PROVE  r \in existing /\ r.playlist = e.playlist /\ r.stream = e.stream
  <1>1. CASE k # 0
    <2>1. r \in existing /\ r.playlist = e.playlist
          /\ r.url = Url(e.playlist, e.stream, AccountOrder[k])
      BY <1>1 DEF Taken
    <2>2. r.url[3] = r.stream
      BY <2>1 DEF KnownIds, SourceEntries
    <2> QED
      BY <2>1, <2>2 DEF Url
  <1>2. CASE k = 0
    <2>1. r \in RowsOf(e, existing)
      BY <1>2 DEF Taken
    <2>2. CASE r \in existing /\ r.id = e.id
      BY <2>2 DEF KnownIds
    <2>3. CASE r \in existing /\ r.playlist = e.playlist /\ r.url = e.url
      BY <2>3 DEF KnownIds, SourceEntries
    <2> QED
      BY <2>1, <2>2, <2>3 DEF RowsOf
  <1> QED
    BY <1>1, <1>2

\* The row of an entry is of its stream, and unless it is kept without a refresh
\* it has the address of the stream that was imported last.
RowFor(row, e, refresh) ==
    /\ row \in SourceEntries
    /\ row.playlist = e.playlist /\ row.stream = e.stream /\ row.auto = e.auto
    /\ <<e.playlist, e.stream>> \in refresh => row.url[1] = imported[e.playlist][e.stream]

LEMMA WithUrl ==
    ASSUME NEW e \in SourceEntries, NEW a \in Accounts \union {NoAccount},
           NEW url \in Nat \X (Accounts \union {NoAccount}) \X Streams, url[3] = e.stream,
           NEW auto \in BOOLEAN
    PROVE  /\ [e EXCEPT !.account = a, !.url = url] \in SourceEntries
           /\ [e EXCEPT !.auto = auto, !.url = url] \in SourceEntries
  BY DEF SourceEntries, PlaceOf

LEMMA RowOfEntry ==
    ASSUME imported \in [Playlists -> [Streams -> Nat]], NEW e \in SourceEntries,
           NEW k \in 0..Len(AccountOrder), k # 0 => e.playlist \in XcPlaylists,
           NEW taken \in SUBSET SourceEntries, NEW refresh \in SUBSET (Playlists \X Streams),
           \A r \in taken : r.playlist = e.playlist /\ r.stream = e.stream
    PROVE  RowFor(Entered(e, k, taken, refresh), e, refresh)
  <1>1. /\ e.playlist \in Playlists \union {Manual} /\ e.account \in Accounts \union {NoAccount}
        /\ e.stream \in Streams /\ e.auto \in BOOLEAN /\ e = [e EXCEPT !.url = @]
        /\ e.url \in Nat \X (Accounts \union {NoAccount}) \X Streams /\ e.url[3] = e.stream
    BY DEF SourceEntries, PlaceOf
  <1>2. ASSUME NEW p \in Playlists, NEW a \in Accounts \union {NoAccount}
        PROVE  /\ Url(p, e.stream, a) \in Nat \X (Accounts \union {NoAccount}) \X Streams
               /\ Url(p, e.stream, a)[1] = imported[p][e.stream]
               /\ Url(p, e.stream, a)[3] = e.stream
    BY <1>1 DEF Url
  <1>3. CASE k # 0
    <2> DEFINE a == AccountOrder[k]
               url == Url(e.playlist, e.stream, a)
               row == [e EXCEPT !.account = a, !.url = url]
    <2>1. a \in Accounts /\ e.playlist \in Playlists
      BY <1>3, AccountsAreListed, PlaylistsAreNamed DEF Accounts, Range
    <2>2. Entered(e, k, taken, refresh) = row
      BY <1>3 DEF Entered, Expanded
    <2>3. /\ url \in Nat \X (Accounts \union {NoAccount}) \X Streams
          /\ url[1] = imported[e.playlist][e.stream] /\ url[3] = e.stream
      BY <1>2, <2>1
    <2> HIDE DEF a, url
    <2>4. row \in SourceEntries
      BY <2>1, <2>3, WithUrl
    <2>5. row.playlist = e.playlist /\ row.stream = e.stream /\ row.auto = e.auto /\ row.url = url
      BY DEF SourceEntries, PlaceOf
    <2> QED
      BY <2>2, <2>3, <2>4, <2>5 DEF RowFor
  <1>4. CASE k = 0 /\ taken = {}
    <2> DEFINE url == IF e.playlist = Manual THEN e.url ELSE Url(e.playlist, e.stream, e.account)
               row == [e EXCEPT !.account = NoAccount, !.url = url]
    <2>1. Entered(e, k, taken, refresh) = row
      BY <1>1, <1>4 DEF Entered, Created, SourceEntries, PlaceOf
    <2>2. /\ url \in Nat \X (Accounts \union {NoAccount}) \X Streams /\ url[3] = e.stream
          /\ <<e.playlist, e.stream>> \in refresh => url[1] = imported[e.playlist][e.stream]
      BY <1>1, <1>2, PlaylistsAreNamed
    <2> HIDE DEF url
    <2>3. row \in SourceEntries
      BY <2>2, WithUrl
    <2>4. row.playlist = e.playlist /\ row.stream = e.stream /\ row.auto = e.auto /\ row.url = url
      BY DEF SourceEntries, PlaceOf
    <2> QED
      BY <2>1, <2>2, <2>3, <2>4 DEF RowFor
  <1>5. CASE k = 0 /\ taken # {}
    <2> DEFINE r == CHOOSE r \in taken : TRUE
               refreshed == <<e.playlist, e.stream>> \in refresh
               url == IF refreshed THEN Url(e.playlist, e.stream, e.account) ELSE r.url
               row == [r EXCEPT !.auto = e.auto, !.url = url]
    <2>1. r \in SourceEntries /\ r.playlist = e.playlist /\ r.stream = e.stream
      BY <1>5
    <2> HIDE DEF r
    <2>2. Entered(e, k, taken, refresh) = Kept(e, r, refreshed)
      BY <1>5 DEF Entered, r
    <2>3. Entered(e, k, taken, refresh) = row
      BY <2>1, <2>2 DEF Kept, SourceEntries, PlaceOf
    <2>4. r.url \in Nat \X (Accounts \union {NoAccount}) \X Streams /\ r.url[3] = e.stream
      BY <2>1 DEF SourceEntries, PlaceOf
    <2>5. /\ url \in Nat \X (Accounts \union {NoAccount}) \X Streams /\ url[3] = r.stream
          /\ refreshed => url[1] = imported[e.playlist][e.stream]
      BY <1>1, <1>2, <2>1, <2>4
    <2> HIDE DEF url
    <2>6. row \in SourceEntries
      BY <1>1, <2>1, <2>5, WithUrl
    <2>7. row.playlist = r.playlist /\ row.stream = r.stream /\ row.auto = e.auto /\ row.url = url
      BY <2>1 DEF SourceEntries, PlaceOf
    <2> QED
      BY <2>1, <2>3, <2>5, <2>6, <2>7 DEF RowFor
  <1> QED
    BY <1>3, <1>4, <1>5

\* Two places with rows are one, or one comes ahead of the other.
LEMMA AheadOrBehind ==
    ASSUME NEW payload \in Seq(SourceEntries),
           NEW x \in RowPlaces(payload), NEW y \in RowPlaces(payload), x # y
    PROVE  Ahead(x, y) \/ Ahead(y, x)
  <1>1. /\ x[1] \in Nat /\ x[2] \in Nat /\ x = <<x[1], x[2]>>
        /\ y[1] \in Nat /\ y[2] \in Nat /\ y = <<y[1], y[2]>>
    <2>1. Len(payload) \in Nat /\ Len(AccountOrder) \in Nat
      BY AccountsAreListed
    <2> QED
      BY <2>1, PlacesAreOfEntries
  <1>2. x[1] # y[1] \/ x[2] # y[2]
    BY <1>1
  <1> QED
    BY <1>1, <1>2 DEF Ahead

LEMMA WithId ==
    ASSUME NEW e \in SourceEntries, NEW id \in Nat, NEW priority \in Int, NEW f \in SourceEntries,
           NEW refresh, RowFor(e, f, refresh)
    PROVE  /\ RowFor([e EXCEPT !.id = id, !.priority = priority], f, refresh)
           /\ [e EXCEPT !.id = id, !.priority = priority].id = id
  <1> DEFINE row == [e EXCEPT !.id = id, !.priority = priority]
  <1>1. row \in SourceEntries /\ row.id = id
    BY DEF SourceEntries, PlaceOf
  <1>2. row.playlist = e.playlist /\ row.stream = e.stream /\ row.auto = e.auto /\ row.url = e.url
    BY DEF SourceEntries, PlaceOf
  <1> QED
    BY <1>1, <1>2 DEF RowFor

\* The rows of an update: each is of its entry's stream, and has the id of a row
\* there was of that stream or one from fresh on.
LEMMA ReconciledRows ==
    ASSUME imported \in [Playlists -> [Streams -> Nat]], NEW payload \in Seq(SourceEntries), NEW existing,
           KnownIds(existing, Range(payload)), NEW refresh \in SUBSET (Playlists \X Streams),
           NEW fresh \in Nat, fresh # 0
    PROVE  /\ DOMAIN Reconciled(payload, existing, refresh, fresh) = RowPlaces(payload)
           /\ \A x \in RowPlaces(payload) :
                LET row == Reconciled(payload, existing, refresh, fresh)[x] IN
                /\ payload[x[1]] \in Range(payload) /\ payload[x[1]] \in SourceEntries
                /\ RowFor(row, payload[x[1]], refresh)
                /\ row.id # 0
                /\ \/ row.id >= fresh
                   \/ \E r \in existing :
                         r.id = row.id /\ r.playlist = row.playlist /\ r.stream = row.stream
  <1> DEFINE places == RowPlaces(payload)
             taken == [x \in places |-> Taken(payload[x[1]], x[2], existing)]
             new(x) == {y \in places : Ahead(y, x) /\ taken[y] = {}}
             id(x) == IF taken[x] # {} THEN (CHOOSE r \in taken[x] : TRUE).id
                      ELSE fresh + Cardinality(new(x))
             ahead(x) == {y \in places : Ahead(y, x)}
             reconciled == [x \in places |->
                         [Entered(payload[x[1]], x[2], taken[x], refresh) EXCEPT
                             !.id = id(x), !.priority = Len(payload) - Cardinality(ahead(x))]]
  <1>1. Reconciled(payload, existing, refresh, fresh) = reconciled
    BY DEF Reconciled
  <1>2. ASSUME NEW x \in places
        PROVE  /\ payload[x[1]] \in Range(payload) /\ payload[x[1]] \in SourceEntries
               /\ RowFor(reconciled[x], payload[x[1]], refresh)
               /\ reconciled[x].id # 0
               /\ \/ reconciled[x].id >= fresh
                  \/ \E r \in existing :
                        r.id = reconciled[x].id /\ r.playlist = reconciled[x].playlist /\ r.stream = reconciled[x].stream
    <2> DEFINE e == payload[x[1]]
               entered == Entered(e, x[2], taken[x], refresh)
    <2>1. /\ x[1] \in 1..Len(payload) /\ e \in SourceEntries /\ x[2] \in 0..Len(AccountOrder)
          /\ x[2] # 0 => e.playlist \in XcPlaylists
      BY PlacesAreOfEntries
    <2>2. e \in Range(payload) /\ Len(payload) \in Nat
      BY <2>1 DEF Range
    <2>3. taken[x] = Taken(e, x[2], existing)
      OBVIOUS
    <2>4. \A r \in taken[x] : r \in existing /\ r.playlist = e.playlist /\ r.stream = e.stream
      <3> HIDE DEF e, taken
      <3>1. KnownIds(existing, {e})
        BY <2>2 DEF KnownIds
      <3>2. \A r \in Taken(e, x[2], existing) :
               r \in existing /\ r.playlist = e.playlist /\ r.stream = e.stream
        BY <2>1, <3>1, TakenIsAlike
      <3> QED
        BY <2>3, <3>2
    <2>5. taken[x] \subseteq SourceEntries /\ \A r \in existing : r.id \in Nat /\ r.id # 0
      BY <2>4 DEF KnownIds, SourceEntries, PlaceOf
    <2>6. IsFiniteSet(places)
      BY PlacesAreOfEntries
    <2>7. Cardinality(new(x)) \in Nat /\ Cardinality(ahead(x)) \in Nat
      BY <2>6, FS_Subset, FS_CardinalityType
    <2>8. reconciled[x] = [entered EXCEPT !.id = id(x), !.priority = Len(payload) - Cardinality(ahead(x))]
      OBVIOUS
    <2> HIDE DEF reconciled, places, taken, new, ahead, e
    <2>9. /\ id(x) \in Nat /\ id(x) # 0
          /\ \/ id(x) >= fresh
             \/ \E r \in taken[x] : r.id = id(x)
      <3>1. CASE taken[x] = {}
        BY <3>1, <2>7
      <3>2. CASE taken[x] # {}
        BY <3>2, <2>4, <2>5
      <3> QED
        BY <3>1, <3>2
    <2> HIDE DEF id
    <2>10. RowFor(entered, e, refresh)
      BY <2>1, <2>4, <2>5, RowOfEntry
    <2>11. entered \in SourceEntries
      BY <2>10 DEF RowFor
    <2> HIDE DEF entered
    <2>12. PICK i \in Nat, pr \in Int : i = id(x) /\ pr = Len(payload) - Cardinality(ahead(x))
      BY <2>2, <2>7, <2>9
    <2>13. RowFor(reconciled[x], e, refresh) /\ reconciled[x].id = id(x)
      <3>1. reconciled[x] = [entered EXCEPT !.id = i, !.priority = pr]
        BY <2>8, <2>12
      <3>2. RowFor([entered EXCEPT !.id = i, !.priority = pr], e, refresh)
            /\ [entered EXCEPT !.id = i, !.priority = pr].id = i
        BY <2>1, <2>10, <2>11, WithId
      <3> QED
        BY <2>12, <3>1, <3>2
    <2>14. reconciled[x].playlist = e.playlist /\ reconciled[x].stream = e.stream
      BY <2>13 DEF RowFor
    <2>15. \/ reconciled[x].id >= fresh
           \/ \E r \in existing :
                 r.id = reconciled[x].id /\ r.playlist = reconciled[x].playlist /\ r.stream = reconciled[x].stream
      BY <2>4, <2>9, <2>13, <2>14
    <2> QED
      BY <2>1, <2>2, <2>9, <2>13, <2>15 DEF e
  <1>3. DOMAIN reconciled = places
    OBVIOUS
  <1> HIDE DEF reconciled
  <1> QED
    BY <1>1, <1>2, <1>3

\* What an update stores: rows of the entries, each with an id of its own.
LEMMA StoredRows ==
    ASSUME imported \in [Playlists -> [Streams -> Nat]], NEW payload \in Seq(SourceEntries), NEW existing,
           KnownIds(existing, Range(payload)), NEW refresh \in SUBSET (Playlists \X Streams),
           NEW fresh \in Nat, fresh # 0
    PROVE  LET stored == Stored(Reconciled(payload, existing, refresh, fresh)) IN
           /\ IsFiniteSet(stored)
           /\ \A r \in stored :
                /\ \E e \in Range(payload) : RowFor(r, e, refresh)
                /\ r.id # 0
                /\ \/ r.id >= fresh
                   \/ \E q \in existing :
                         q.id = r.id /\ q.playlist = r.playlist /\ q.stream = r.stream
           /\ \A q, r \in stored : q.id = r.id => q = r
  <1> DEFINE reconciled == Reconciled(payload, existing, refresh, fresh)
             last == {x \in DOMAIN reconciled : \A y \in DOMAIN reconciled : Ahead(x, y) => reconciled[y].id # reconciled[x].id}
  <1>1. DOMAIN reconciled = RowPlaces(payload)
    BY ReconciledRows
  <1>2. \A x \in RowPlaces(payload) :
           /\ payload[x[1]] \in Range(payload) /\ RowFor(reconciled[x], payload[x[1]], refresh)
           /\ reconciled[x].id # 0
           /\ \/ reconciled[x].id >= fresh
              \/ \E r \in existing :
                    r.id = reconciled[x].id /\ r.playlist = reconciled[x].playlist /\ r.stream = reconciled[x].stream
    BY ReconciledRows
  <1> HIDE DEF reconciled
  <1>3. Stored(reconciled) = {reconciled[x] : x \in last}
    BY DEF Stored
  <1>4. last \subseteq RowPlaces(payload)
    BY <1>1
  <1>5. IsFiniteSet({reconciled[x] : x \in last})
    <2>1. IsFiniteSet(last)
      BY <1>4, PlacesAreOfEntries, FS_Subset
    <2> QED
      BY <2>1, ImagesAreFinite
  <1>6. ASSUME NEW x \in last, NEW y \in last, reconciled[x].id = reconciled[y].id
        PROVE  x = y
    <2>1. ~Ahead(x, y) /\ ~Ahead(y, x)
      BY <1>6
    <2> QED
      BY <1>4, <2>1, AheadOrBehind
  <1> HIDE DEF last
  <1> QED
    <2>1. \A q, r \in Stored(reconciled) : q.id = r.id => q = r
      BY <1>3, <1>6
    <2>2. ASSUME NEW r \in Stored(reconciled)
          PROVE  /\ \E e \in Range(payload) : RowFor(r, e, refresh)
                 /\ r.id # 0
                 /\ \/ r.id >= fresh
                    \/ \E q \in existing :
                          q.id = r.id /\ q.playlist = r.playlist /\ q.stream = r.stream
      <3>1. PICK x \in RowPlaces(payload) : r = reconciled[x]
        BY <1>3, <1>4
      <3>2. payload[x[1]] \in Range(payload) /\ RowFor(r, payload[x[1]], refresh) /\ r.id # 0
        BY <1>2, <3>1
      <3>3. r.id >= fresh \/ \E q \in existing : q.id = r.id /\ q.playlist = r.playlist /\ q.stream = r.stream
        BY <1>2, <3>1
      <3> QED  BY <3>2, <3>3
    <2> QED
      BY <1>3, <1>5, <2>1, <2>2 DEF reconciled

\* No id that is remembered is given out again.
LEMMA FreshIsFresh ==
    ASSUME SourcesTypeOK
    PROVE  /\ FreshId \in Nat /\ FreshId # 0
           /\ \A e \in Remembered : e \in SourceEntries /\ e.id < FreshId
  <1>1. job.payload \in Seq(SourceEntries) /\ dialog.entries \in Seq(SourceEntries)
    BY DEF SourcesTypeOK
  <1>2. ASSUME NEW s \in Seq(SourceEntries)
        PROVE  IsFiniteSet(Range(s)) /\ Range(s) \subseteq SourceEntries
    <2>1. Len(s) \in Nat /\ DOMAIN s = 1..Len(s) /\ \A i \in DOMAIN s : s[i] \in SourceEntries
      OBVIOUS
    <2>2. IsFiniteSet(DOMAIN s)
      BY <2>1, FS_Interval
    <2>3. IsFiniteSet({s[i] : i \in DOMAIN s})
      BY <2>2, ImagesAreFinite
    <2> QED
      BY <2>1, <2>3 DEF Range
  <1>3. IsFiniteSet(Remembered) /\ Remembered \subseteq SourceEntries
    <2>1. IsFiniteSet(sources \union Range(job.payload))
      BY <1>1, <1>2, FS_Union DEF SourcesTypeOK
    <2>2. IsFiniteSet(Remembered)
      BY <1>1, <1>2, <2>1, FS_Union DEF Remembered
    <2>3. Remembered \subseteq SourceEntries
      BY <1>1, <1>2 DEF Remembered, SourcesTypeOK
    <2> QED
      BY <2>2, <2>3
  <1> DEFINE idOf == [e \in Remembered |-> e.id]
             ids == {0} \union {e.id : e \in Remembered}
  <1>4. IsFiniteSet({idOf[e] : e \in Remembered})
    BY <1>3, ImagesAreFinite
  <1>5. {idOf[e] : e \in Remembered} = {e.id : e \in Remembered}
    OBVIOUS
  <1>6. IsFiniteSet(ids)
    BY <1>4, <1>5, FS_Singleton, FS_Union
  <1>7. ids \subseteq Nat /\ 0 \in ids /\ \A e \in Remembered : e.id \in ids
    BY <1>3 DEF SourceEntries, PlaceOf
  <1>8. FreshId = 1 + Max(ids)
    BY DEF FreshId
  <1> HIDE DEF ids
  <1>9. Max(ids) \in ids /\ \A n \in ids : Max(ids) >= n
    BY <1>6, <1>7, GreatestOfNaturals
  <1>10. PICK greatest \in Nat : greatest = Max(ids)
    BY <1>7, <1>9
  <1>11. ASSUME NEW e \in Remembered  PROVE e \in SourceEntries /\ e.id < 1 + greatest
    <2>1. e.id \in ids /\ e.id \in Nat
      BY <1>7
    <2>2. greatest >= e.id
      BY <1>9, <1>10, <2>1
    <2> QED
      BY <1>3, <2>1, <2>2
  <1> QED
    BY <1>8, <1>10, <1>11

\* After an update the rows are those of its payload, and every id still stands
\* for what it stood for.
LEMMA UpdateKeepsIds ==
    ASSUME SourcesTypeOK, IdsStay, NEW payload \in Seq(SourceEntries),
           \A e \in Range(payload) : e \in Remembered \/ e.id = 0,
           NEW refresh \in SUBSET (Playlists \X Streams), UpdateChannel(payload, refresh)
    PROVE  /\ IsFiniteSet(sources') /\ sources' \subseteq SourceEntries
           /\ \A r \in sources' : r.id # 0
           /\ \A r \in sources' : \A f \in Remembered \union sources' :
                 f.id = r.id => f.playlist = r.playlist /\ f.stream = r.stream
           /\ refresh # {} => \A r \in sources' : \E e \in Range(payload) : RowFor(r, e, refresh)
  <1>1. sources \subseteq Remembered /\ sources \subseteq SourceEntries /\ IsFiniteSet(sources)
    BY DEF Remembered, SourcesTypeOK
  <1>2. CASE refresh = {} /\ UNCHANGED sources
    BY <1>1, <1>2 DEF IdsStay
  <1>3. CASE sources' = Stored(Reconciled(payload, sources, refresh, FreshId))
    <2>1. KnownIds(sources, Range(payload))
      <3>1. \A r \in sources : r.id # 0 /\ r \in Remembered
        BY <1>1 DEF IdsStay
      <3>2. ASSUME NEW e \in Range(payload), NEW r \in sources, e.id = r.id
            PROVE  e.playlist = r.playlist /\ e.stream = r.stream
        BY <3>1, <3>2 DEF IdsStay
      <3> QED
        BY <1>1, <3>1, <3>2 DEF KnownIds
    <2>2. FreshId \in Nat /\ FreshId # 0 /\ \A e \in Remembered : e.id < FreshId /\ e.id \in Nat
      BY FreshIsFresh DEF SourceEntries, PlaceOf
    <2>3. /\ IsFiniteSet(sources')
          /\ \A r \in sources' :
               /\ \E e \in Range(payload) : RowFor(r, e, refresh)
               /\ r.id # 0
               /\ \/ r.id >= FreshId
                  \/ \E q \in sources :
                        q.id = r.id /\ q.playlist = r.playlist /\ q.stream = r.stream
          /\ \A q, r \in sources' : q.id = r.id => q = r
      BY <1>3, <2>1, <2>2, StoredRows DEF SourcesTypeOK
    <2>4. \A r \in sources' : r \in SourceEntries
      BY <2>3 DEF RowFor
    <2>5. ASSUME NEW r \in sources', NEW f \in Remembered, f.id = r.id
          PROVE  f.playlist = r.playlist /\ f.stream = r.stream
      <3>1. ~(r.id >= FreshId)
        BY <2>2, <2>5
      <3>2. PICK q \in sources : q.id = r.id /\ q.playlist = r.playlist /\ q.stream = r.stream
        BY <2>3, <3>1
      <3> QED
        BY <1>1, <2>3, <2>5, <3>2 DEF IdsStay
    <2> QED
      BY <2>3, <2>4, <2>5
  <1> QED
    BY <1>2, <1>3 DEF UpdateChannel

LEMMA NewEntryIsOne ==
    ASSUME imported \in [Playlists -> [Streams -> Nat]], NEW p \in Playlists \union {Manual},
           NEW s \in Streams, NEW auto \in BOOLEAN
    PROVE  NewEntry(p, s, auto) \in SourceEntries /\ NewEntry(p, s, auto).id = 0
  BY DEF NewEntry, SourceEntries, PlaceOf

\* What the user saves is what the dialog was opened with, or new.
LEMMA EditsAreOfEntries ==
    ASSUME SourcesTypeOK, NEW entries \in Edits(dialog.entries) \union {dialog.entries}
    PROVE  /\ entries \in Seq(SourceEntries)
           /\ \A e \in Range(entries) : e \in Remembered \/ e.id = 0
  <1> DEFINE was == dialog.entries
  <1>1. was \in Seq(SourceEntries) /\ imported \in [Playlists -> [Streams -> Nat]]
    BY DEF SourcesTypeOK
  <1>2. \A i \in 1..Len(was) : was[i] \in Remembered
    BY <1>1 DEF Remembered, Range
  <1>3. SUFFICES entries \in Seq(SourceEntries)
                 /\ \A i \in 1..Len(entries) : entries[i] \in Remembered \/ entries[i].id = 0
    BY DEF Range
  <1> HIDE DEF was
  <1>4. ASSUME NEW x \in Playlists \X Streams, entries = Append(was, NewEntry(x[1], x[2], TRUE))
        PROVE  /\ entries \in Seq(SourceEntries)
               /\ \A i \in 1..Len(entries) : entries[i] \in Remembered \/ entries[i].id = 0
    <2>1. NewEntry(x[1], x[2], TRUE) \in SourceEntries /\ NewEntry(x[1], x[2], TRUE).id = 0
      BY <1>1, NewEntryIsOne
    <2>2. PICK e \in SourceEntries : e = NewEntry(x[1], x[2], TRUE) /\ e.id = 0
      BY <2>1
    <2>3. entries = Append(was, e)
      BY <1>4, <2>2
    <2>4. /\ entries \in Seq(SourceEntries) /\ Len(entries) = Len(was) + 1 /\ Len(was) \in Nat
          /\ \A i \in 1..Len(was) : entries[i] = was[i]
          /\ entries[Len(was) + 1] = e
      BY <1>1, <2>3
    <2>5. ASSUME NEW i \in 1..Len(entries)  PROVE entries[i] \in Remembered \/ entries[i].id = 0
      <3>1. i \in 1..Len(was) \/ i = Len(was) + 1
        BY <2>4
      <3> QED
        BY <1>2, <2>4, <2>2, <3>1
    <2> QED
      BY <2>4, <2>5
  <1>5. ASSUME NEW k \in DOMAIN was, entries = RemoveAt(was, k)
        PROVE  /\ entries \in Seq(SourceEntries)
               /\ \A i \in 1..Len(entries) : entries[i] \in Remembered \/ entries[i].id = 0
    <2>1. entries = SubSeq(was, 1, k - 1) \o SubSeq(was, k + 1, Len(was))
      BY <1>5 DEF RemoveAt
    <2>2. k \in 1..Len(was) /\ Len(was) \in Nat
      BY <1>1
    <2>3. /\ SubSeq(was, 1, k - 1) \in Seq(SourceEntries) /\ Len(SubSeq(was, 1, k - 1)) = k - 1
          /\ \A i \in 1..(k - 1) : SubSeq(was, 1, k - 1)[i] = was[i]
      BY <1>1, <2>2
    <2>4. /\ SubSeq(was, k + 1, Len(was)) \in Seq(SourceEntries)
          /\ Len(SubSeq(was, k + 1, Len(was))) = Len(was) - k
          /\ \A i \in 1..(Len(was) - k) : SubSeq(was, k + 1, Len(was))[i] = was[k + i]
      BY <1>1, <2>2
    <2> DEFINE s == SubSeq(was, 1, k - 1)
               t == SubSeq(was, k + 1, Len(was))
    <2> HIDE DEF s, t
    <2>5. /\ entries \in Seq(SourceEntries) /\ Len(entries) = Len(s) + Len(t)
          /\ \A i \in 1..(Len(s) + Len(t)) : entries[i] = IF i <= Len(s) THEN s[i] ELSE t[i - Len(s)]
      <3>1. s \in Seq(SourceEntries) /\ t \in Seq(SourceEntries) /\ entries = s \o t
        BY <2>1, <2>3, <2>4 DEF s, t
      <3> QED  BY <3>1
    <2>6. ASSUME NEW i \in 1..Len(entries)  PROVE \E j \in 1..Len(was) : entries[i] = was[j]
      <3>1. Len(s) = k - 1 /\ Len(t) = Len(was) - k
        BY <2>3, <2>4 DEF s, t
      <3>2. CASE i <= k - 1
        <4>1. i \in 1..(k - 1) /\ i \in 1..Len(was) /\ i \in 1..(Len(s) + Len(t))
          BY <2>2, <2>5, <3>1, <3>2, SMTT(20)
        <4> QED
          BY <2>3, <2>5, <3>1, <3>2, <4>1 DEF s
      <3>3. CASE ~(i <= k - 1)
        <4>0. i \in Int /\ i >= k /\ i <= Len(was) - 1 /\ k \in Int /\ k >= 1 /\ Len(was) \in Int
          <5>1. Len(entries) = (k - 1) + (Len(was) - k)
            BY <2>5, <3>1
          <5>2. Len(entries) = Len(was) - 1
            BY <2>2, <5>1
          <5> QED  BY <2>2, <3>3, <5>2
        <4>1. i - (k - 1) \in 1..(Len(was) - k) /\ k + (i - (k - 1)) \in 1..Len(was)
          BY <4>0
        <4>2. i \in 1..(Len(s) + Len(t))
          BY <2>5
        <4> QED
          BY <2>4, <2>5, <3>1, <3>3, <4>1, <4>2 DEF t
      <3> QED
        BY <3>2, <3>3
    <2> QED
      BY <1>2, <2>5, <2>6
  <1>6. ASSUME NEW k \in 2..Len(was), entries = [was EXCEPT ![k] = was[k - 1], ![k - 1] = was[k]]
        PROVE  /\ entries \in Seq(SourceEntries)
               /\ \A i \in 1..Len(entries) : entries[i] \in Remembered \/ entries[i].id = 0
    <2>1. k \in 1..Len(was) /\ k - 1 \in 1..Len(was)
      BY <1>1
    <2>2. /\ entries \in [1..Len(was) -> SourceEntries] /\ Len(was) \in Nat
      BY <1>1, <1>6, <2>1
    <2>3. entries \in Seq(SourceEntries) /\ Len(entries) = Len(was)
      BY <2>2
    <2>4. \A i \in 1..Len(was) : entries[i] \in {was[i], was[k], was[k - 1]}
      BY <1>1, <1>6, <2>1
    <2> QED
      BY <1>2, <2>1, <2>3, <2>4
  <1>7. entries \in Edits(was) \/ entries = was
    BY DEF was
  <1> QED
    BY <1>1, <1>2, <1>4, <1>5, <1>6, <1>7 DEF Edits

\* A reading of the rows holds them all.
LEMMA ReadsHoldTheRows ==
    ASSUME SourcesTypeOK, NEW read \in Reads
    PROVE  read \in Seq(SourceEntries) /\ Range(read) = sources
  <1>1. Cardinality(sources) \in Nat
    BY FS_CardinalityType DEF SourcesTypeOK
  <1>2. read \in [1..Cardinality(sources) -> SourceEntries] /\ Range(read) = sources
    BY DEF Reads, SourcesTypeOK
  <1> QED
    BY <1>1, <1>2

LEMMA SourcesBegin ==
    ASSUME SourcesInit
    PROVE  SourcesInv
  <1>1. PICK p \in XcPlaylists, q \in Playlists \union {Manual}, s \in Streams :
           sources = Added(<<NewEntry(p, s, TRUE), NewEntry(q, s, q # Manual)>>)
    BY DEF SourcesInit
  <1> DEFINE entries == <<NewEntry(p, s, TRUE), NewEntry(q, s, q # Manual)>>
  <1>2. /\ offered \in [Playlists -> [Streams -> Nat]] /\ imported \in [Playlists -> [Streams -> Nat]]
        /\ job = NoJob /\ dialog = Closed
    BY DEF SourcesInit
  <1>3. entries \in Seq(SourceEntries)
    <2>1. NewEntry(p, s, TRUE) \in SourceEntries /\ NewEntry(q, s, q # Manual) \in SourceEntries
      BY <1>2, NewEntryIsOne, PlaylistsAreNamed
    <2> DEFINE e == NewEntry(p, s, TRUE)
               f == NewEntry(q, s, q # Manual)
    <2>2. e \in SourceEntries /\ f \in SourceEntries
      BY <2>1
    <2> HIDE DEF e, f
    <2>3. <<e, f>> \in Seq(SourceEntries)
      BY <2>2
    <2> QED
      BY <2>3 DEF e, f
  <1>4. KnownIds({}, Range(entries))
    BY DEF KnownIds
  <1> HIDE DEF entries
  <1>5. <<>> \in Seq(SourceEntries)
    OBVIOUS
  <1>6. /\ job \in [step : {"idle", "import", "read", "save"}, todo : SUBSET Playlists,
                    done : SUBSET Playlists, stops : BOOLEAN, payload : Seq(SourceEntries)]
        /\ dialog \in [open : BOOLEAN, entries : Seq(SourceEntries)]
        /\ job.step # "save" /\ Range(job.payload) = {} /\ Range(dialog.entries) = {}
    BY <1>2, <1>5 DEF NoJob, Closed, Range
  <1>7. /\ IsFiniteSet(sources)
        /\ \A r \in sources : r \in SourceEntries /\ r.id # 0
        /\ \A r, f \in sources : r.id = f.id => r = f
    <2> DEFINE refresh == {} \intersect (Playlists \X Streams)
               existing == {r \in {} : FALSE}
               stored == Stored(Reconciled(entries, existing, refresh, 1))
    <2>1. refresh = {} /\ existing = {} /\ refresh \in SUBSET (Playlists \X Streams)
      OBVIOUS
    <2> HIDE DEF refresh, existing
    <2>2. sources = stored
      BY <1>1, <2>1 DEF Added, entries
    <2>3. /\ IsFiniteSet(sources)
          /\ \A r \in sources : (\E e \in Range(entries) : RowFor(r, e, refresh)) /\ r.id # 0
          /\ \A r, f \in sources : r.id = f.id => r = f
      <3>1. KnownIds(existing, Range(entries))
        BY <1>4, <2>1
      <3>2. 1 \in Nat /\ 1 # 0
        OBVIOUS
      <3>3. /\ IsFiniteSet(stored)
            /\ \A r \in stored : (\E e \in Range(entries) : RowFor(r, e, refresh)) /\ r.id # 0
            /\ \A f, r \in stored : f.id = r.id => f = r
        BY <1>2, <1>3, <2>1, <3>1, <3>2, StoredRows
      <3> HIDE DEF stored
      <3> QED
        BY <2>2, <3>3
    <2> QED
      BY <2>3 DEF RowFor
  <1> QED
    BY <1>2, <1>6, <1>7 DEF SourcesInv, SourcesTypeOK, IdsStay, RefreshIsAsked, Remembered

\* What a step does not save stays what it was.
LEMMA SameSourcesKeepInv ==
    ASSUME SourcesInv, SourcesTypeOK', UNCHANGED sources,
           \A e \in Range(job.payload)' \union Range(dialog.entries)' : e \in Remembered,
           RefreshIsAsked'
    PROVE  SourcesInv'
  <1>1. Remembered' \subseteq Remembered
    BY DEF Remembered
  <1>2. \A r \in sources' : r.id # 0
    BY DEF SourcesInv, IdsStay
  <1> QED
    BY <1>1, <1>2 DEF SourcesInv, IdsStay

\* What a step saves is of the payload, and what is remembered besides was so before.
LEMMA UpdatesKeepInv ==
    ASSUME SourcesInv, NEW payload \in Seq(SourceEntries),
           \A e \in Range(payload) : e \in Remembered \/ e.id = 0,
           NEW refresh \in SUBSET (Playlists \X Streams), UpdateChannel(payload, refresh),
           UNCHANGED <<offered, imported>>,
           \A e \in Range(job.payload)' \union Range(dialog.entries)' : e \in Remembered,
           job' \in [step : {"idle", "import", "read", "save"}, todo : SUBSET Playlists,
                     done : SUBSET Playlists, stops : BOOLEAN, payload : Seq(SourceEntries)],
           dialog' \in [open : BOOLEAN, entries : Seq(SourceEntries)],
           RefreshIsAsked'
    PROVE  SourcesInv'
  <1>1. /\ IsFiniteSet(sources') /\ sources' \subseteq SourceEntries
        /\ \A r \in sources' : r.id # 0
        /\ \A r \in sources' : \A f \in Remembered \union sources' :
              f.id = r.id => f.playlist = r.playlist /\ f.stream = r.stream
    BY UpdateKeepsIds DEF SourcesInv
  <1>2. SourcesTypeOK'
    BY <1>1 DEF SourcesInv, SourcesTypeOK
  <1>3. Remembered' \subseteq Remembered \union sources'
    BY DEF Remembered
  <1>4. ASSUME NEW e \in Remembered', NEW f \in Remembered', e.id = f.id, e.id # 0
        PROVE  e.playlist = f.playlist /\ e.stream = f.stream
    <2>1. CASE e \in sources'
      BY <1>1, <1>3, <1>4, <2>1
    <2>2. CASE f \in sources'
      BY <1>1, <1>3, <1>4, <2>2
    <2>3. CASE e \in Remembered /\ f \in Remembered
      BY <1>4, <2>3 DEF SourcesInv, IdsStay
    <2> QED
      BY <1>3, <2>1, <2>2, <2>3
  <1>5. IdsStay'
    BY <1>1, <1>4 DEF IdsStay
  <1> QED
    BY <1>2, <1>5 DEF SourcesInv

LEMMA ToRefreshIsOfPlaylists ==
    ASSUME SourcesTypeOK
    PROVE  ToRefresh \in SUBSET (Playlists \X Streams)
  <1>1. job.payload \in Seq(SourceEntries) /\ job.done \subseteq Playlists
    BY DEF SourcesTypeOK
  <1>2. \A e \in Range(job.payload) : e \in SourceEntries
    BY <1>1 DEF Range
  <1> QED
    BY <1>1, <1>2 DEF ToRefresh, SourceEntries, PlaceOf

LEMMA SavesKeepInv ==
    ASSUME SourcesInv, Save
    PROVE  SourcesInv'
  <1>1. PICK entries \in Edits(dialog.entries) \union {dialog.entries} : UpdateChannel(entries, {})
    BY DEF Save
  <1>2. entries \in Seq(SourceEntries) /\ \A e \in Range(entries) : e \in Remembered \/ e.id = 0
    BY EditsAreOfEntries DEF SourcesInv
  <1>3. dialog' = Closed /\ UNCHANGED <<offered, imported, enabled, job, dialogs>>
    BY DEF Save
  <1>4. dialog' \in [open : BOOLEAN, entries : Seq(SourceEntries)] /\ Range(dialog'.entries) = {}
    <2>1. <<>> \in Seq(SourceEntries)
      OBVIOUS
    <2> QED
      BY <1>3, <2>1 DEF Closed, Range
  <1>5. \A e \in Range(job.payload)' \union Range(dialog.entries)' : e \in Remembered
    BY <1>3, <1>4 DEF Remembered
  <1>6. job' \in [step : {"idle", "import", "read", "save"}, todo : SUBSET Playlists,
                  done : SUBSET Playlists, stops : BOOLEAN, payload : Seq(SourceEntries)]
    BY <1>3 DEF SourcesInv, SourcesTypeOK
  <1>7. RefreshIsAsked'
    BY <1>3 DEF SourcesInv, RefreshIsAsked
  <1>8. {} \in SUBSET (Playlists \X Streams)
    OBVIOUS
  <1> QED
    BY <1>1, <1>2, <1>3, <1>4, <1>5, <1>6, <1>7, <1>8, UpdatesKeepInv

LEMMA RefreshesKeepInv ==
    ASSUME SourcesInv, RefreshChannel
    PROVE  SourcesInv'
  <1>1. UpdateChannel(job.payload, ToRefresh) /\ job' = NoJob
        /\ UNCHANGED <<offered, imported, enabled, dialog, dialogs>>
    BY DEF RefreshChannel
  <1>2. job.payload \in Seq(SourceEntries) /\ dialog \in [open : BOOLEAN, entries : Seq(SourceEntries)]
    BY DEF SourcesInv, SourcesTypeOK
  <1>3. \A e \in Range(job.payload) : e \in Remembered
    BY DEF Remembered
  <1>4. job' \in [step : {"idle", "import", "read", "save"}, todo : SUBSET Playlists,
                  done : SUBSET Playlists, stops : BOOLEAN, payload : Seq(SourceEntries)]
        /\ job'.step # "save" /\ Range(job'.payload) = {}
    <2>1. <<>> \in Seq(SourceEntries)
      OBVIOUS
    <2> QED
      BY <1>1, <2>1 DEF NoJob, Range
  <1>5. \A e \in Range(job.payload)' \union Range(dialog.entries)' : e \in Remembered
    BY <1>1, <1>4 DEF Remembered
  <1>6. RefreshIsAsked'
    BY <1>4 DEF RefreshIsAsked
  <1>7. ToRefresh \in SUBSET (Playlists \X Streams)
    BY ToRefreshIsOfPlaylists DEF SourcesInv
  <1> QED
    BY <1>1, <1>2, <1>3, <1>4, <1>5, <1>6, <1>7, UpdatesKeepInv

LEMMA SourcesStep ==
    ASSUME SourcesInv, SourcesNext
    PROVE  SourcesInv'
  <1> DEFINE Jobs == [step : {"idle", "import", "read", "save"}, todo : SUBSET Playlists,
                      done : SUBSET Playlists, stops : BOOLEAN, payload : Seq(SourceEntries)]
  <1>1. /\ offered \in [Playlists -> [Streams -> Nat]] /\ imported \in [Playlists -> [Streams -> Nat]]
        /\ job \in Jobs /\ job.payload \in Seq(SourceEntries) /\ <<>> \in Seq(SourceEntries)
        /\ dialog \in [open : BOOLEAN, entries : Seq(SourceEntries)]
    BY DEF SourcesInv, SourcesTypeOK
  <1>2. Range(<<>>) = {}
    BY DEF Range
  <1>3. ASSUME NEW p \in Playlists, NEW s \in Streams, ProviderChanges(p, s) \/ ProviderDrops(p, s)
        PROVE  SourcesInv'
    <2>1. offered[p][s] + 1 \in Nat /\ \E n \in {offered[p][s] + 1, 0} : offered' = [offered EXCEPT ![p][s] = n]
      BY <1>1, <1>3 DEF ProviderChanges, ProviderDrops
    <2>3. offered' \in [Playlists -> [Streams -> Nat]]
      BY <1>1, <2>1
    <2>2. UNCHANGED <<imported, enabled, sources, job, dialog, dialogs>>
      BY <1>3 DEF ProviderChanges, ProviderDrops
    <2> QED
      BY <2>2, <2>3 DEF SourcesInv, SourcesTypeOK, IdsStay, RefreshIsAsked, Remembered
  <1>4. ASSUME NEW a, ToggleAccount(a)
        PROVE  SourcesInv'
    BY <1>4 DEF ToggleAccount, SourcesInv, SourcesTypeOK, IdsStay, RefreshIsAsked, Remembered
  <1>5. ASSUME job' \in Jobs, job'.payload \in {<<>>, job.payload}, job'.step # "save",
               UNCHANGED <<offered, sources, dialog>>, imported' \in [Playlists -> [Streams -> Nat]]
        PROVE  SourcesInv'
    <2>1. SourcesTypeOK'
      BY <1>5 DEF SourcesInv, SourcesTypeOK
    <2>2. \A e \in Range(job.payload)' \union Range(dialog.entries)' : e \in Remembered
      BY <1>2, <1>5 DEF Remembered
    <2>3. RefreshIsAsked'
      BY <1>5 DEF RefreshIsAsked
    <2> QED
      BY <1>5, <2>1, <2>2, <2>3, SameSourcesKeepInv
  <1>6. ASSUME NEW todo \in SUBSET Playlists, PeriodicUpdate(todo)
        PROVE  SourcesInv'
    <2>1. job' \in Jobs /\ job'.payload = <<>> /\ job'.step # "save"
      BY <1>1, <1>6 DEF PeriodicUpdate, NoJob
    <2>2. UNCHANGED <<offered, imported, sources, dialog>>
      BY <1>6 DEF PeriodicUpdate
    <2> QED
      BY <1>1, <1>5, <2>1, <2>2
  <1>7. ASSUME NEW p \in Playlists, ManualUpdate(p)
        PROVE  SourcesInv'
    <2>1. job' \in Jobs /\ job'.payload = <<>> /\ job'.step # "save"
      BY <1>1, <1>7 DEF ManualUpdate, NoJob
    <2>2. UNCHANGED <<offered, imported, sources, dialog>>
      BY <1>7 DEF ManualUpdate
    <2> QED
      BY <1>1, <1>5, <2>1, <2>2
  <1>8. ASSUME NEW p \in Playlists, Import(p)
        PROVE  SourcesInv'
    <2>1. job' \in Jobs /\ job'.payload = job.payload /\ job'.step # "save"
      BY <1>1, <1>8 DEF Import
    <2>2. UNCHANGED <<offered, sources, dialog>> /\ imported' = [imported EXCEPT ![p] = offered[p]]
      BY <1>8 DEF Import
    <2>3. imported' \in [Playlists -> [Streams -> Nat]]
      BY <1>1, <2>2
    <2> QED
      BY <1>5, <2>1, <2>2, <2>3
  <1>9. ASSUME NEW p \in Playlists, ImportFails(p)
        PROVE  SourcesInv'
    <2>1. job' \in Jobs /\ job'.payload \in {<<>>, job.payload} /\ job'.step # "save"
      BY <1>1, <1>9 DEF ImportFails, NoJob
    <2>2. UNCHANGED <<offered, imported, sources, dialog>>
      BY <1>9 DEF ImportFails
    <2> QED
      BY <1>1, <1>5, <2>1, <2>2
  <1>10. CASE ReadChannel
    <2>1. UNCHANGED <<offered, imported, sources, dialog>>
      BY <1>10 DEF ReadChannel
    <2>2. CASE job' = NoJob
      BY <1>1, <1>5, <2>1, <2>2 DEF NoJob
    <2>3. ASSUME NEW read \in Reads, job' = [job EXCEPT !.step = "save", !.payload = read],
                 \E r \in sources : r.auto /\ r.playlist \in job.done
          PROVE  SourcesInv'
      <3>1. read \in Seq(SourceEntries) /\ Range(read) = sources
        BY ReadsHoldTheRows DEF SourcesInv
      <3>2. job' \in Jobs /\ job'.payload = read /\ job'.done = job.done
        BY <1>1, <2>3, <3>1
      <3>3. SourcesTypeOK'
        BY <2>1, <3>2 DEF SourcesInv, SourcesTypeOK
      <3>4. \A e \in Range(job.payload)' \union Range(dialog.entries)' : e \in Remembered
        BY <2>1, <3>1, <3>2 DEF Remembered
      <3>5. RefreshIsAsked'
        BY <2>3, <3>1, <3>2 DEF RefreshIsAsked
      <3> QED
        BY <2>1, <3>3, <3>4, <3>5, SameSourcesKeepInv
    <2> QED
      BY <1>10, <2>2, <2>3 DEF ReadChannel
  <1>11. CASE OpenDialog
    <2>1. PICK entries \in Reads : dialog' = [open |-> TRUE, entries |-> entries]
      BY <1>11 DEF OpenDialog
    <2>2. UNCHANGED <<offered, imported, enabled, sources, job>>
      BY <1>11 DEF OpenDialog
    <2>3. entries \in Seq(SourceEntries) /\ Range(entries) = sources
      BY ReadsHoldTheRows DEF SourcesInv
    <2>4. SourcesTypeOK' /\ RefreshIsAsked'
      BY <2>1, <2>2, <2>3 DEF SourcesInv, SourcesTypeOK, RefreshIsAsked
    <2>5. \A e \in Range(job.payload)' \union Range(dialog.entries)' : e \in Remembered
      BY <2>1, <2>2, <2>3 DEF Remembered
    <2> QED
      BY <2>2, <2>4, <2>5, SameSourcesKeepInv
  <1> QED
    BY <1>3, <1>4, <1>6, <1>7, <1>8, <1>9, <1>10, <1>11, SavesKeepInv, RefreshesKeepInv DEF SourcesNext

\* The refresh leaves no row of a playlist just imported at an older address.
LEMMA RefreshIsCurrent ==
    ASSUME SourcesInv, RefreshChannel, NEW r \in sources', r.auto, r.playlist \in job.done
    PROVE  r.url[1] = imported[r.playlist][r.stream]
  <1>1. UpdateChannel(job.payload, ToRefresh) /\ job.step = "save"
    BY DEF RefreshChannel
  <1>2. job.payload \in Seq(SourceEntries)
    BY DEF SourcesInv, SourcesTypeOK
  <1>3. \A e \in Range(job.payload) : e \in Remembered
    BY DEF Remembered
  <1>4. ToRefresh # {}
    BY <1>1 DEF SourcesInv, RefreshIsAsked, ToRefresh
  <1>5. ToRefresh \in SUBSET (Playlists \X Streams)
    BY ToRefreshIsOfPlaylists DEF SourcesInv
  <1>6. PICK e \in Range(job.payload) : RowFor(r, e, ToRefresh)
    BY <1>1, <1>2, <1>3, <1>4, <1>5, UpdateKeepsIds DEF SourcesInv
  <1>7. e.auto /\ e.playlist \in job.done
    BY <1>6 DEF RowFor
  <1>8. <<e.playlist, e.stream>> \in ToRefresh
    BY <1>7 DEF ToRefresh
  <1> QED
    BY <1>6, <1>8 DEF RowFor

LEMMA SourcesInvHolds == SourcesSpec => []SourcesInv
  <1>1. SourcesInit => SourcesInv
    BY SourcesBegin
  <1>2. SourcesInv /\ [SourcesNext]_sourceVars => SourcesInv'
    BY SourcesStep DEF sourceVars, SourcesInv, SourcesTypeOK, IdsStay, RefreshIsAsked, Remembered
  <1> QED
    BY <1>1, <1>2, PTL DEF SourcesSpec

\* A refresh leaves no source of a playlist just imported at an older address
\* (refresh_auto_update_sources_for_playlists).
THEOREM SourcesFollowImports == SourcesSpec => RefreshedIsCurrent
  <1>1. SourcesInv /\ [SourcesNext]_sourceVars =>
          [RefreshChannel => \A r \in sources' :
             r.auto /\ r.playlist \in job.done => r.url[1] = imported[r.playlist][r.stream]]_sourceVars
    BY RefreshIsCurrent
  <1> QED
    BY <1>1, SourcesInvHolds, PTL DEF SourcesSpec, RefreshedIsCurrent

=============================================================================
