-------------------------------- MODULE Guide --------------------------------
(* The programme guide (backend/epgs.py): imports that clear a guide and then  *)
(* commit it batch by batch, its enrichment from a cache of online lookups,    *)
(* and the XMLTV file built of the guides the channels are mapped to.  These   *)
(* are serial tasks, but users map channels and delete guides while they run,  *)
(* and an import works in a thread.  What the provider publishes is a version. *)
EXTENDS Integers, FiniteSets

CONSTANTS
    Guides, GuideChannels,
    NoGuide,
    TitlesOf,           \* what the programmes of a guide are looked up by
    Batches,            \* transactions an import's programmes take
    MaxGuideVersion,    \* bound: what a provider publishes anew
    MaxGuideEdits,      \* bound: mappings changed and guides deleted
    MaxGuideFails       \* bound: tasks that fail

\* Guides are rows of a table, tasks have names of their own.
ASSUME GuidesAssumption ==
    Guides \intersect {NoGuide, "enrich", "build", "periodic", "idle"} = {}

VARIABLES
    published,      \* the version at the provider
    known,          \* the rows of the guides table
    rows,           \* the rows under each guide: channels, programmes, enriched
    health,         \* of the imports: the last one, and whether one succeeded
    mapping,        \* the guide of each channel
    lookups,        \* the metadata cache, by title: "none", "match", "no_match"
    xmltv,          \* the file: what it has for each channel
    asked,          \* queued tasks
    task,           \* the task under way
    deleting,       \* guides committed as deleted whose files are still to go
    behind,         \* what was left undone and is not asked for again
    guideEdits, guideFails
guideVars == <<published, known, rows, health, mapping, lookups, xmltv, asked,
               task, deleting, behind, guideEdits, guideFails>>

Empty == [channels |-> FALSE, version |-> 0, batches |-> 0, rich |-> FALSE]
Unheard == [last |-> "none", succeeded |-> FALSE]
Resting == [name |-> "idle"]
Titles == {TitlesOf[g] : g \in Guides}

GuideInit ==
    /\ published = [g \in Guides |-> 1]
    /\ known = Guides
    /\ rows = [g \in Guides |-> Empty] /\ health = [g \in Guides |-> Unheard]
    /\ mapping \in [GuideChannels -> Guides \union {NoGuide}]
    /\ lookups = [t \in Titles |-> "none"]
    /\ xmltv = [c \in GuideChannels |-> Empty]
    /\ asked = {} /\ task = Resting /\ deleting = {} /\ behind = {}
    /\ guideEdits = 0 /\ guideFails = 0
-----------------------------------------------------------------------------
(* The provider, the clock, and requests *)

tables == <<rows, health, lookups, xmltv>>

Publishes(g) ==
    /\ published[g] < MaxGuideVersion
    /\ published' = [published EXCEPT ![g] = @ + 1]
    /\ UNCHANGED <<known, tables, mapping, asked, task, deleting, behind, guideEdits, guideFails>>

LookupExpires(t) ==
    /\ lookups[t] # "none" /\ lookups' = [lookups EXCEPT ![t] = "none"]
    /\ UNCHANGED <<published, known, rows, health, xmltv, mapping, asked, task, deleting, behind, guideEdits, guideFails>>

GuideEdit == guideEdits < MaxGuideEdits /\ guideEdits' = guideEdits + 1

\* Saving a channel queues what follows from it; a guide that is gone maps to none.
MapChannel(c, g) ==
    /\ GuideEdit /\ mapping[c] # g
    /\ mapping' = [mapping EXCEPT ![c] = IF g \in known THEN g ELSE NoGuide]
    /\ asked' = asked \union {"enrich", "build"}
    /\ UNCHANGED <<published, known, tables, task, deleting, behind, guideFails>>

UpdateGuide(g) ==
    /\ g \in known /\ g \notin asked
    /\ asked' = asked \union {g, "enrich", "build"}
    /\ UNCHANGED <<published, known, tables, mapping, task, deleting, behind, guideEdits, guideFails>>

\* One transaction; nothing is asked for, so the file keeps the guide.
DeleteGuide(g) ==
    /\ GuideEdit /\ g \in known
    /\ known' = known \ {g} /\ rows' = [rows EXCEPT ![g] = Empty]
    /\ mapping' = [c \in GuideChannels |-> IF mapping[c] = g THEN NoGuide ELSE mapping[c]]
    /\ deleting' = deleting \union {g} /\ behind' = behind \union {"xmltv"}
    /\ UNCHANGED <<published, health, lookups, xmltv, asked, task, guideFails>>

DeleteCleans(g) ==
    /\ g \in deleting /\ deleting' = deleting \ {g}
    /\ health' = [health EXCEPT ![g] = Unheard]
    /\ UNCHANGED <<published, known, rows, mapping, lookups, xmltv, asked, task, behind, guideEdits, guideFails>>

\* By an hourly job of the scheduler.
PeriodicGuides ==
    /\ asked' = asked \union {"periodic"} /\ "periodic" \notin asked
    /\ UNCHANGED <<published, known, tables, mapping, task, deleting, behind, guideEdits, guideFails>>
-----------------------------------------------------------------------------
(* The tasks, in the order of their priorities *)

taskOnly == <<published, known, mapping, deleting, guideEdits>>

Urgent == IF asked \intersect Guides # {} THEN asked \intersect Guides
          ELSE IF "enrich" \in asked THEN {"enrich"}
          ELSE IF "build" \in asked THEN {"build"} ELSE asked

\* Due are the guides that never succeeded and, by the clock, some of the others.
Due == {g \in known : ~health[g].succeeded}

TaskBegins ==
    /\ task.name = "idle"
    /\ \E t \in Urgent :
        /\ asked' = asked \ {t}
        /\ \E left \in IF t = "periodic" THEN {s \in SUBSET known : Due \subseteq s}
                       ELSE {{t} \intersect known} :
           task' = [name |-> t, left |-> left,
                    step |-> IF t \in {"enrich", "build"} THEN t ELSE "import",
                    updated |-> FALSE, guide |-> NoGuide, version |-> 0, seen |-> {}, plan |-> <<>>]
    /\ UNCHANGED <<taskOnly, tables, behind, guideFails>>

\* The task ends with its step, but for the periodic one.
GoesOn(step) == IF task.name = "periodic" THEN [task EXCEPT !.step = step] ELSE Resting

ImportBegins(g) ==
    /\ task # Resting /\ task.step = "import" /\ g \in task.left
    /\ task' = [task EXCEPT !.step = "clear", !.guide = g, !.left = @ \ {g},
                            !.version = published[g]]
    /\ UNCHANGED <<taskOnly, tables, asked, behind, guideFails>>

ImportClears ==
    /\ task # Resting /\ task.step = "clear"
    /\ rows' = [rows EXCEPT ![task.guide] = Empty]
    /\ task' = [task EXCEPT !.step = "fill"]
    /\ UNCHANGED <<taskOnly, health, lookups, xmltv, asked, behind, guideFails>>

\* The channels, then each batch of programmes, is a transaction; each needs
\* the row it refers to.
ImportFills ==
    /\ task # Resting /\ task.step = "fill"
    /\ LET g == task.guide row == rows[task.guide]
       IN  /\ row.batches < Batches
           /\ IF row.channels THEN rows' = [rows EXCEPT ![g].batches = @ + 1]
              ELSE g \in known /\ rows' = [rows EXCEPT ![g] =
                     [@ EXCEPT !.channels = TRUE, !.version = task.version]]
    /\ UNCHANGED <<taskOnly, health, lookups, xmltv, asked, task, behind, guideFails>>

ImportSucceeds ==
    /\ task # Resting /\ task.step = "fill" /\ rows[task.guide].batches = Batches
    /\ health' = [health EXCEPT ![task.guide] = [last |-> "ok", succeeded |-> TRUE]]
    /\ task' = IF task.name = "periodic" THEN [task EXCEPT !.step = "import", !.updated = TRUE]
               ELSE Resting
    /\ UNCHANGED <<taskOnly, rows, lookups, xmltv, asked, behind, guideFails>>

\* A download or a parse fails, or the guide is deleted under the import, which
\* leaves a record of its health; what was committed stays.
GuideImportFails ==
    /\ task # Resting /\ task.step \in {"clear", "fill"}
    /\ \/ guideFails < MaxGuideFails /\ guideFails' = guideFails + 1
       \/ task.step = "fill" /\ task.guide \notin known /\ UNCHANGED guideFails
    /\ behind' = IF task.name = "periodic" THEN behind \union {"xmltv"} ELSE behind
    /\ health' = [health EXCEPT ![task.guide].last = "error"]
    /\ task' = GoesOn("import")
    /\ UNCHANGED <<taskOnly, rows, lookups, xmltv, asked>>

\* Altered: having imported, it builds the file of the bare rows.
ImportsEnd_Bare ==
    /\ task # Resting /\ task.step = "import" /\ task.left = {}
    /\ task' = IF task.updated THEN [task EXCEPT !.step = "build"] ELSE Resting
    /\ UNCHANGED <<taskOnly, tables, asked, behind, guideFails>>
\* All imports tried: what was updated is enriched and the file built of it.
ImportsEnd ==
    /\ task # Resting /\ task.step = "import" /\ task.left = {}
    /\ task' = IF task.updated THEN [task EXCEPT !.step = "enrich"] ELSE Resting
    /\ UNCHANGED <<taskOnly, tables, asked, behind, guideFails>>

-----------------------------------------------------------------------------
(* Enrichment: candidates are read, looked up, and written in one commit *)

Mapped == {mapping[c] : c \in GuideChannels} \ {NoGuide}

EnrichReads ==
    /\ task # Resting /\ task.step = "enrich"
    /\ task' = [task EXCEPT !.step = "lookup",
                   !.seen = {g \in Mapped : rows[g].batches > 0 /\ ~rows[g].rich}]
    /\ UNCHANGED <<taskOnly, tables, asked, behind, guideFails>>

\* What the fresh part of the cache does not know is asked of the provider.  No
\* answer, as after an authorisation that failed, is not written down.  A
\* guide deleted meanwhile may fail the whole commit.
EnrichSaves ==
    /\ task # Resting /\ task.step = "lookup"
    /\ \E answers \in [{TitlesOf[g] : g \in task.seen} -> {"match", "no_match", "none"}] :
         /\ lookups' = [t \in Titles |-> IF t \in DOMAIN answers /\ lookups[t] = "none"
                                         THEN answers[t] ELSE lookups[t]]
         /\ rows' = [g \in Guides |-> IF g \in task.seen /\ lookups'[TitlesOf[g]] = "match"
                                         /\ rows[g].batches > 0
                                      THEN [rows[g] EXCEPT !.rich = TRUE] ELSE rows[g]]
    /\ behind' = behind \ {"lookups"}
    /\ task' = GoesOn("build")
    /\ UNCHANGED <<taskOnly, health, xmltv, asked, guideFails>>

\* The periodic task stops here, and the file is not built.
EnrichFails ==
    /\ task # Resting /\ task.step = "lookup"
    /\ \/ guideFails < MaxGuideFails /\ guideFails' = guideFails + 1
       \/ task.seen \ known # {} /\ UNCHANGED guideFails
    /\ behind' = behind \union (IF task.name = "periodic" THEN {"xmltv", "lookups"} ELSE {"lookups"})
    /\ task' = Resting
    /\ UNCHANGED <<taskOnly, tables, asked>>
-----------------------------------------------------------------------------
(* The XMLTV file, by a subprocess: channels, then programmes, then the file *)

BuildReads ==
    /\ task # Resting /\ task.step = "build"
    /\ task' = [task EXCEPT !.step = "load", !.plan = mapping]
    /\ behind' = behind \ {"xmltv"}
    /\ UNCHANGED <<taskOnly, tables, asked, guideFails>>

BuildWrites ==
    /\ task # Resting /\ task.step = "load"
    /\ xmltv' = [c \in GuideChannels |-> IF task.plan[c] = NoGuide THEN Empty ELSE rows[task.plan[c]]]
    /\ task' = Resting
    /\ UNCHANGED <<taskOnly, rows, health, lookups, asked, behind, guideFails>>

BuildFails ==
    /\ task # Resting /\ task.step = "load"
    /\ guideFails < MaxGuideFails /\ guideFails' = guideFails + 1
    /\ behind' = behind \union {"xmltv"} /\ task' = Resting
    /\ UNCHANGED <<taskOnly, tables, asked>>

GuideNext ==
    \/ \E g \in Guides : Publishes(g) \/ UpdateGuide(g) \/ DeleteGuide(g)
                         \/ DeleteCleans(g) \/ ImportBegins(g)
    \/ \E t \in Titles : LookupExpires(t)
    \/ \E c \in GuideChannels, g \in Guides \union {NoGuide} : MapChannel(c, g)
    \/ PeriodicGuides \/ TaskBegins \/ ImportClears \/ ImportFills \/ ImportSucceeds
    \/ GuideImportFails \/ ImportsEnd \/ EnrichReads \/ EnrichSaves \/ EnrichFails
    \/ BuildReads \/ BuildWrites \/ BuildFails

GuideSpec == GuideInit /\ [][GuideNext]_guideVars
-----------------------------------------------------------------------------
(* Properties *)

\* When nothing is queued or running, the file is the guide of the tables: each
\* channel has what is imported of its guide, all of it if the import succeeded,
\* with the metadata that are known - unless a task that was to bring it about
\* failed or a guide was deleted, after which nothing is asked for (update_epgs,
\* api_update_epg, delete_epg).
GuideMatches ==
    task = Resting /\ asked = {} /\ behind = {} =>
        \A c \in GuideChannels :
            LET g == mapping[c]
            IN  IF g = NoGuide THEN xmltv[c] = Empty
                ELSE /\ xmltv[c] = rows[g]
                     /\ health[g].last = "ok" /\ g \notin deleting => xmltv[c].batches = Batches
                     /\ lookups[TitlesOf[g]] = "match" /\ xmltv[c].batches > 0 => xmltv[c].rich
=============================================================================
