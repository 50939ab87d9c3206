------------------------------ MODULE VodLibrary -----------------------------
(* The VOD library (backend/vod.py, backend/scripts/sync_vod_library.py): the  *)
(* provider's catalogue as last imported, curated categories that gather       *)
(* titles from several upstream categories, and their outputs - a folder of    *)
(* .strm files and the HTTP library - which a subprocess writes.  One          *)
(* subprocess runs at a time; a request for another meanwhile is ignored.      *)
EXTENDS Integers, FiniteSets, TLC

CONSTANTS
    Curated,        \* curated categories
    UpCategories, UpItems,
    TitleOf,        \* the title an item is deduplicated to
    Nowhere,        \* the category of an item that is in none
    MaxLibEdits,    \* bound: changes of the provider and of the categories
    MaxLibFails     \* bound: imports, refreshes of episodes and writes that fail

ASSUME TitleOfAssumption == DOMAIN TitleOf = UpItems
ASSUME ItemsAssumption == IsFiniteSet(UpItems)

VARIABLES
    offer,          \* the provider's items and their categories
    upCats,         \* the upstream categories imported
    stock,          \* the items imported and their categories
    curated,        \* the curated categories: outputs and upstream categories
    shelves,        \* the titles of each, and their ids
    itemSources,    \* the items an id plays
    nextTitleId,
    strmFolders,    \* the .strm files of each: a title and the id in its URL
    strmRegistry,   \* the categories whose folder is registered
    httpLibrary,    \* what the HTTP library serves of each
    libJob,         \* the subprocess
    libEdits, libFails

libVars == <<offer, upCats, stock, curated, shelves, itemSources, nextTitleId,
             strmFolders, strmRegistry, httpLibrary, libJob, libEdits, libFails>>
shelfVars == <<shelves, itemSources, nextTitleId>>
outputVars == <<strmFolders, strmRegistry, httpLibrary>>

NoLibJob == [step |-> "idle"]
Deleted == [outputs |-> {}, links |-> {}]

LibraryInit ==
    /\ offer \in [UpItems -> UpCategories]
    /\ upCats = UpCategories /\ stock = offer
    /\ curated = [g \in Curated |-> [outputs |-> {"strm", "http"}, links |-> UpCategories]]
    /\ shelves = [g \in Curated |-> <<>>] /\ itemSources = <<>> /\ nextTitleId = 1
    /\ strmFolders = [g \in Curated |-> {}] /\ strmRegistry = {}
    /\ httpLibrary = [g \in Curated |-> {}]
    /\ libJob = NoLibJob /\ libEdits = 0 /\ libFails = 0

\* The subprocess is asked for: for some categories one after another - the
\* first is taken, the others find it running - or for the full library.
Asked(which) ==
    IF libJob.step # "idle" THEN {[libJob EXCEPT !.clean = FALSE]}
    ELSE {[step |-> "boot", only |-> o, clean |-> TRUE, fresh |-> {}] : o \in which}
OneOf(groups) == IF groups = {} /\ libJob.step = "idle" THEN {NoLibJob} ELSE Asked({{g} : g \in groups})
-----------------------------------------------------------------------------
(* The provider, the import, and edits *)

LibEdit == libEdits < MaxLibEdits /\ libEdits' = libEdits + 1 /\ UNCHANGED <<shelfVars, outputVars, libFails>>

ProviderMoves(i, c) ==
    /\ LibEdit /\ offer' = [offer EXCEPT ![i] = c]
    /\ UNCHANGED <<upCats, stock, curated, libJob>>

\* Categories and items the answer does not list are deleted, with the links
\* to those categories and the sources that were those items; a category that
\* comes back is a new one.  An answer that is no list counts as an empty one.
Imports(listed) ==
    LET cats == {listed[i] : i \in DOMAIN listed} \ {Nowhere}
        kept == upCats \intersect cats
        linked == [g \in Curated |-> [curated[g] EXCEPT !.links = @ \intersect kept]]
    IN  /\ upCats' = cats /\ stock' = listed /\ curated' = linked
        /\ itemSources' = [t \in DOMAIN itemSources |-> itemSources[t] \intersect DOMAIN listed]
        /\ libJob' \in OneOf({g \in Curated : linked[g].links # {}})
        /\ UNCHANGED <<offer, shelves, nextTitleId, outputVars>>
ImportCatalogue ==
    \/ Imports(offer) /\ UNCHANGED <<libEdits, libFails>>
    \/ libFails < MaxLibFails /\ libFails' = libFails + 1 /\ Imports(<<>>) /\ UNCHANGED libEdits

\* create_vod_group, update_vod_group: its links name categories that exist.
EditCurated(g, outputs, links) ==
    /\ LibEdit /\ links \subseteq upCats
    /\ curated' = [curated EXCEPT ![g] = [outputs |-> outputs, links |-> links]]
    /\ libJob' \in Asked({{g}})
    /\ UNCHANGED <<offer, upCats, stock>>

\* The full library is then synced.
DeleteCurated(g) ==
    /\ libEdits < MaxLibEdits /\ libEdits' = libEdits + 1
    /\ curated[g] # Deleted
    /\ curated' = [curated EXCEPT ![g] = Deleted]
    /\ shelves' = [shelves EXCEPT ![g] = <<>>]
    /\ libJob' \in Asked({Curated})
    /\ UNCHANGED <<offer, upCats, stock, itemSources, nextTitleId, outputVars, libFails>>
-----------------------------------------------------------------------------
(* The subprocess *)

Wanted(g) == curated[g].outputs # {}

LibMoves(to) == libJob' = to
libSourceVars == <<offer, upCats, stock, curated, libEdits>>

JobBoots ==
    /\ libJob.step = "boot"
    /\ LibMoves([step |-> "rebuild", clean |-> libJob.clean, fresh |-> {}, lost |-> {},
                 held |-> <<>>, todo |-> {g \in libJob.only : Wanted(g)}])
    /\ UNCHANGED <<libSourceVars, shelfVars, outputVars, libFails>>

Titled(g) == {TitleOf[i] : i \in {j \in DOMAIN stock : stock[j] \in curated[g].links}}
Gathered(g, t) == {i \in DOMAIN stock : stock[i] \in curated[g].links /\ TitleOf[i] = t}

\* rebuild_vod_group_cache: one row per title, its id kept while the title is
\* there, its sources written anew.  A category without upstream categories
\* keeps the rows it has.
JobRebuilds(g) ==
    /\ libJob.step = "rebuild" /\ g \in libJob.todo
    /\ IF curated[g].links = {} THEN UNCHANGED shelfVars
       ELSE \E new \in [Titled(g) \ DOMAIN shelves[g] -> nextTitleId..(nextTitleId + Cardinality(Titled(g)) - 1)] :
              LET ids == [t \in Titled(g) |-> IF t \in DOMAIN new THEN new[t] ELSE shelves[g][t]]
                  gone == {shelves[g][t] : t \in DOMAIN shelves[g] \ Titled(g)}
              IN  /\ \A t, u \in DOMAIN new : new[t] = new[u] => t = u
                  /\ {new[t] : t \in DOMAIN new} = nextTitleId..(nextTitleId + Cardinality(DOMAIN new) - 1)
                  /\ shelves' = [shelves EXCEPT ![g] = ids]
                  /\ nextTitleId' = nextTitleId + Cardinality(DOMAIN new)
                  /\ itemSources' = [n \in (DOMAIN itemSources \ gone) \union {ids[t] : t \in DOMAIN ids} |->
                        IF \E t \in DOMAIN ids : ids[t] = n
                        THEN Gathered(g, CHOOSE t \in DOMAIN ids : ids[t] = n) ELSE itemSources[n]]
    /\ LibMoves([libJob EXCEPT !.step = "load", !.held = g])
    /\ UNCHANGED <<libSourceVars, outputVars, libFails>>

\* The category and its titles are read.
JobLoads ==
    /\ libJob.step = "load"
    /\ LET g == libJob.held
       IN  LibMoves([libJob EXCEPT !.step = "write", !.held =
              [group |-> g, outputs |-> curated[g].outputs,
               titles |-> {<<t, shelves[g][t]>> : t \in DOMAIN shelves[g]}]])
    /\ UNCHANGED <<libSourceVars, shelfVars, outputVars, libFails>>

\* The folder is brought to the titles read and registered - or removed - and
\* then the HTTP library.  A series whose episodes the provider did not give, and
\* of which none were kept, is lost to both: the run goes on without it.
JobWrites ==
    /\ libJob.step = "write"
    /\ \E lost \in SUBSET {e[1] : e \in libJob.held.titles} :
          LET g == libJob.held.group
              for(output) == IF output \in libJob.held.outputs
                             THEN {e \in libJob.held.titles : e[1] \notin lost} ELSE {}
          IN  /\ strmFolders' = [strmFolders EXCEPT ![g] =
                   IF "strm" \in libJob.held.outputs \/ g \in strmRegistry THEN for("strm") ELSE @]
              /\ strmRegistry' = IF "strm" \in libJob.held.outputs THEN strmRegistry \union {g}
                                 ELSE strmRegistry \ {g}
              /\ httpLibrary' = [httpLibrary EXCEPT ![g] = for("http")]
              /\ LibMoves([libJob EXCEPT !.step = "rebuild", !.todo = @ \ {g}, !.held = <<>>,
                                         !.fresh = @ \union {g}, !.lost = @ \union ({g} \X lost)])
              /\ libFails' = (IF lost = {} THEN libFails ELSE libFails + 1) /\ libFails' <= MaxLibFails
    /\ UNCHANGED <<libSourceVars, shelfVars>>

\* A provider that answers too few requests for episodes, or a disk that
\* fails - some files written, none registered - ends the run.
JobFails ==
    /\ libJob.step = "write" /\ libFails < MaxLibFails /\ libFails' = libFails + 1
    /\ \/ UNCHANGED strmFolders
       \/ /\ "strm" \in libJob.held.outputs
          /\ strmFolders' = [strmFolders EXCEPT ![libJob.held.group] = @ \union libJob.held.titles]
    /\ LibMoves(NoLibJob)
    /\ UNCHANGED <<libSourceVars, shelfVars, strmRegistry, httpLibrary>>

\* Altered: only the folders are looked at.
JobCleans_Folders ==
    /\ libJob.step = "rebuild" /\ libJob.todo = {}
    /\ LET keep(output) == {g \in Curated : output \in curated[g].outputs}
       IN  /\ strmFolders' = [g \in Curated |-> IF g \in strmRegistry \ keep("strm") THEN {} ELSE strmFolders[g]]
           /\ strmRegistry' = strmRegistry \intersect keep("strm")
    /\ LibMoves(NoLibJob)
    /\ UNCHANGED <<libSourceVars, shelfVars, httpLibrary, libFails>>
\* What is registered for a category that wants no such output now goes.
JobCleans ==
    /\ libJob.step = "rebuild" /\ libJob.todo = {}
    /\ LET keep(output) == {g \in Curated : output \in curated[g].outputs}
       IN  /\ strmFolders' = [g \in Curated |-> IF g \in strmRegistry \ keep("strm") THEN {} ELSE strmFolders[g]]
           /\ strmRegistry' = strmRegistry \intersect keep("strm")
           /\ httpLibrary' = [g \in Curated |-> IF g \in keep("http") THEN httpLibrary[g] ELSE {}]
    /\ LibMoves(NoLibJob)
    /\ UNCHANGED <<libSourceVars, shelfVars, libFails>>

LibraryNext ==
    \/ \E i \in UpItems, c \in UpCategories \union {Nowhere} : ProviderMoves(i, c)
    \/ ImportCatalogue
    \/ \E g \in Curated, outputs \in SUBSET {"strm", "http"}, links \in SUBSET UpCategories : EditCurated(g, outputs, links)
    \/ \E g \in Curated : DeleteCurated(g) \/ JobRebuilds(g)
    \/ JobBoots \/ JobLoads \/ JobWrites \/ JobFails \/ JobCleans

LibrarySpec == LibraryInit /\ [][LibraryNext]_libVars
-----------------------------------------------------------------------------
(* Properties *)

\* The categories this run was for have, in each output they want, an entry for
\* each title their upstream categories have now - but for series this run could
\* not get the episodes of - each leading to items that are there.
FreshAreCurrent ==
    /\ \A g \in libJob.fresh : curated[g].links # {} =>
          LET entries == {<<t, shelves[g][t]>> : t \in Titled(g)}
              found == {e \in entries : <<g, e[1]>> \notin libJob.lost}
          IN  /\ "strm" \in curated[g].outputs => strmFolders'[g] = found
              /\ "http" \in curated[g].outputs => httpLibrary'[g] = found
              /\ \A e \in entries : itemSources[e[2]] # {} /\ itemSources[e[2]] \subseteq DOMAIN stock
    /\ \A g \in Curated : "http" \notin curated[g].outputs => httpLibrary'[g] = {}

\* A run of the subprocess that nothing disturbed leaves every category it was
\* for with an entry for each title its upstream categories have now (but for
\* series whose episodes it could not get), each leading to items that are there,
\* and no HTTP library for a category that does not want one - whatever earlier
\* runs, imports and edits left behind.
LibraryMatches == [][JobCleans /\ libJob.clean => FreshAreCurrent]_libVars
=============================================================================
