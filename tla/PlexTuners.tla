------------------------------ MODULE PlexTuners ------------------------------
(* The tuners kept in Plex (plex/reconcile.py): a pass reads the settings,    *)
(* makes or updates one tuner per desired source, then removes the managed     *)
(* tuners no longer wanted.  The passes asked for by a change of settings are  *)
(* serial; the periodic one runs beside them.                                  *)
EXTENDS Integers, FiniteSets

CONSTANTS
    Sources,        \* playlists that can have a tuner of their own
    Combined,       \* the tuner for all channels
    Passes,         \* "periodic" and "saved", which may overlap
    NoDevice,
    MaxTuners,      \* bound: devices ever made
    MaxAddresses,   \* bound: addresses of a tuner, each with a profile and a streaming key
    KeyOf,          \* per address: the streaming key in it
    MaxPlexEdits,   \* bound: changes of settings, playlists and channels
    MaxMeddles,     \* bound: changes made in Plex itself
    MaxPlexFails    \* bound: requests that fail

Tuners == Sources \union {Combined}

VARIABLES
    mode, address,  \* default_tuner_mode; the profile of the settings with the user's key
    playlists,      \* the enabled playlists
    tunerLineup,    \* per tuner: the version of its channels, 0 if it has none
    saved,          \* whether a pass for saved settings is queued
    devices,        \* Plex's tuners, with the DVR each is attached to
    made,           \* devices made so far
    pass,           \* the two passes
    plexEdits, meddles, plexFails
settingsVars == <<mode, address, playlists, tunerLineup, plexEdits>>
plexVars == <<settingsVars, saved, devices, made, pass, meddles, plexFails>>

NoPass == [step |-> "idle"]
Detached == "none"
Foreign == [key |-> 0, model |-> "theirs", uri |-> 0, on |-> TRUE, dvr |-> "theirs", mapped |-> 0]
NewDevice(k, t, u) == [key |-> k, model |-> t, uri |-> u, on |-> FALSE, dvr |-> Detached, mapped |-> 0]

\* A Plex without tuners, or with one of its owner's.
PlexInit ==
    /\ mode = "per_source" /\ address = 1 /\ playlists = Sources
    /\ tunerLineup = [t \in Tuners |-> 1] /\ saved = FALSE
    /\ devices \in {{}, {Foreign}} /\ made = 0
    /\ pass = [p \in Passes |-> NoPass]
    /\ plexEdits = 0 /\ meddles = 0 /\ plexFails = 0
-----------------------------------------------------------------------------
(* What a pass sees in what it read *)

Desired == IF mode = "combined" THEN {Combined} ELSE playlists

\* A DVR lasts as long as a tuner is attached to it.
Attached(ds) == {[key |-> d.key, dvr |-> d.dvr] : d \in {e \in ds : e.dvr # Detached}}
Dvrs(seen) == {d.dvr : d \in seen}
DevicesOf(seen, dvr) == {d \in seen : d.dvr = dvr}

\* The only DVR there is, whoever made it; else the one with Headendarr's guide.
ResolvedDvr(seen) == IF Cardinality(Dvrs(seen)) = 1 THEN CHOOSE v \in Dvrs(seen) : TRUE ELSE "ours"

\* The last tuner of a DVR stays.
CanRemove(seen, dvr, key) ==
    Cardinality(DevicesOf(seen, dvr)) > 1 /\ \E d \in DevicesOf(seen, dvr) : d.key = key

\* A tuner is known by its name or its id, which do not change with its address.
Target(seen, t) == LET found == {d \in seen : d.model = t}
                   IN  IF found = {} THEN {NoDevice} ELSE found

\* A tuner found by its name that has another address is not taken.
IsStale(d, uri) == d # NoDevice /\ d.uri # uri
-----------------------------------------------------------------------------
(* A pass *)

Disturbed == [p \in Passes |-> IF pass[p] = NoPass THEN NoPass ELSE [pass[p] EXCEPT !.calm = FALSE]]

\* A pass that was alone with unchanged settings stays calm to its end.
PassBegins(p) ==
    /\ pass[p] = NoPass /\ (p = "saved" => saved)
    /\ saved' = (IF p = "saved" THEN FALSE ELSE saved)
    /\ pass' = [Disturbed EXCEPT ![p] =
                   [step |-> "next", want |-> Desired, todo |-> Desired, uri |-> address,
                    clean |-> TRUE, calm |-> \A q \in Passes : pass[q] = NoPass,
                    tuner |-> Combined, channels |-> 0, seen |-> {}, target |-> NoDevice,
                    stale |-> NoDevice, replaced |-> FALSE]]
    /\ UNCHANGED <<settingsVars, devices, made, meddles, plexFails>>

At(p, step) == pass[p].step = step
Goes(p, step) == pass' = [pass EXCEPT ![p].step = step]
Fails == plexFails < MaxPlexFails /\ plexFails' = plexFails + 1

\* A source is done with; one that failed or was left alone spares all tuners.
Result(r, clean) == [r EXCEPT !.step = "next", !.clean = @ /\ clean, !.seen = {}, !.channels = 0,
                              !.tuner = Combined, !.target = NoDevice, !.stale = NoDevice, !.replaced = FALSE]
SourceDone(p, clean) == pass' = [pass EXCEPT ![p] = Result(@, clean)]
kept == <<settingsVars, saved, meddles>>

\* Headendarr's own discover.json and lineup.json.
ReadsLineup(p) ==
    /\ At(p, "next")
    /\ \E t \in pass[p].todo :
        pass' = [pass EXCEPT ![p].todo = @ \ {t}, ![p].tuner = t, ![p].channels = tunerLineup[t],
                             ![p].step = "look"]
    /\ UNCHANGED <<kept, devices, made, plexFails>>

LineupFails(p) ==
    /\ At(p, "next") /\ Fails
    /\ \E t \in pass[p].todo :
        pass' = [pass EXCEPT ![p] = Result([pass[p] EXCEPT !.todo = @ \ {t}], FALSE)]
    /\ UNCHANGED <<kept, devices, made>>

\* A tuner with another address is not taken; one is made if it has channels.
Looks(p) ==
    /\ At(p, "look")
    /\ \E d \in Target(devices, pass[p].tuner) :
        LET stale == IsStale(d, pass[p].uri)
            new == [pass[p] EXCEPT !.seen = Attached(devices), !.target = IF stale THEN NoDevice ELSE d,
                                   !.stale = IF stale THEN d ELSE NoDevice]
        IN  pass' = [pass EXCEPT ![p] =
                IF new.target # NoDevice THEN [new EXCEPT !.step = "dvr"]
                ELSE IF new.channels # 0 THEN [new EXCEPT !.step = "create"]
                ELSE IF stale THEN [new EXCEPT !.step = "replace"]
                ELSE Result(new, TRUE)]
    /\ UNCHANGED <<kept, devices, made, plexFails>>

\* Plex adds a tuner, or gives the one it knows the new address; or it refuses.
CreatesDevice(p) ==
    /\ At(p, "create") /\ Goes(p, "lookAgain")
    /\ LET t == pass[p].tuner  u == pass[p].uri  known == {d \in devices : d.model = t}
       IN  \/ /\ \A d \in known : d.uri # u
              /\ made < MaxTuners /\ made' = made + 1
              /\ devices' = devices \union {NewDevice(made + 1, t, u)} /\ UNCHANGED plexFails
           \/ /\ \E d \in known : devices' = (devices \ {d}) \union {[d EXCEPT !.uri = u]}
              /\ UNCHANGED <<made, plexFails>>
           \/ Fails /\ UNCHANGED <<devices, made>>
    /\ UNCHANGED kept

\* By its address first; else whatever has the name, be its address the old one.
FindsAgain(p, found, seen) ==
    LET r == pass[p]  exact == {d \in found : d.uri = r.uri /\ d.model = r.tuner}
    IN  \E d \in IF exact # {} THEN exact ELSE Target(found, r.tuner) :
            pass' = [pass EXCEPT ![p] =
                IF d # NoDevice THEN [r EXCEPT !.seen = seen, !.target = d, !.step = "dvr"]
                ELSE IF r.stale # NoDevice /\ ~r.replaced
                     THEN [r EXCEPT !.seen = seen, !.step = "replace"]
                     ELSE Result(r, r.channels = 0)]

\* Whether Plex answered is not looked at here: without its list of tuners those
\* of the DVRs are seen, and without its list of DVRs there seem to be none.
LooksAgain(p) ==
    /\ At(p, "lookAgain")
    /\ \/ FindsAgain(p, devices, Attached(devices)) /\ UNCHANGED plexFails
       \/ Fails /\ FindsAgain(p, {d \in devices : d.dvr # Detached}, Attached(devices))
       \/ Fails /\ FindsAgain(p, {[d EXCEPT !.dvr = Detached] : d \in devices}, {})
    /\ UNCHANGED <<kept, devices, made>>

\* Plex drops a tuner from its DVR, and forgets it or not.
Dropped(key, dvr) ==
    LET gone == {d \in devices : d.key = key /\ d.dvr = dvr}
    IN  \/ devices' = devices \ gone
        \/ gone # {} /\ devices' = (devices \ gone) \union {[d EXCEPT !.dvr = Detached] : d \in gone}

\* A tuner with the old address goes if its DVR has another; else both are kept.
Replaces(p) ==
    /\ At(p, "replace")
    /\ LET s == pass[p].stale
       IN  IF s.dvr # Detached /\ CanRemove(pass[p].seen, s.dvr, s.key)
           THEN \/ /\ Dropped(s.key, s.dvr) /\ UNCHANGED plexFails
                   /\ pass' = [pass EXCEPT ![p].step = "create", ![p].replaced = TRUE]
                \/ Fails /\ SourceDone(p, FALSE) /\ UNCHANGED devices
           ELSE SourceDone(p, FALSE) /\ UNCHANGED <<devices, plexFails>>
    /\ UNCHANGED <<kept, made>>

\* The first tuner makes the DVR.
CreatesDvr(p) ==
    /\ At(p, "dvr") /\ Dvrs(pass[p].seen) = {}
    /\ \/ /\ devices' = {IF d.key = pass[p].target.key THEN [d EXCEPT !.dvr = "ours"] ELSE d :
                         d \in devices}
          /\ Goes(p, "lookDvrs") /\ UNCHANGED plexFails
       \/ Fails /\ SourceDone(p, FALSE) /\ UNCHANGED devices
    /\ UNCHANGED <<kept, made>>

\* Only the DVRs are read again, not the tuner.
LooksForDvr(p) ==
    /\ At(p, "lookDvrs")
    /\ pass' = [pass EXCEPT ![p].seen = Attached(devices),
                            ![p].step = IF Attached(devices) = {} THEN "aborted" ELSE "dvr"]
    /\ UNCHANGED <<kept, devices, made, plexFails>>

\* A tuner without channels is left as it is.
HasDvr(p) ==
    /\ At(p, "dvr") /\ Dvrs(pass[p].seen) # {}
    /\ IF pass[p].channels = 0 THEN SourceDone(p, FALSE) ELSE Goes(p, "enable")
    /\ UNCHANGED <<kept, devices, made, plexFails>>

\* What differs in the tuner as it was read is put; a tuner gone since fails.
Targeted(p) == {d \in devices : d.key = pass[p].target.key}
\* Altered: what Plex answers to a put is not looked at.
Puts_Unchecked(p, needed, next, changed) ==
    \/ ~needed /\ next /\ UNCHANGED <<devices, plexFails>>
    \/ /\ needed /\ Targeted(p) # {} /\ next /\ UNCHANGED plexFails
       /\ devices' = (devices \ Targeted(p)) \union changed
    \/ needed /\ Targeted(p) = {} /\ next /\ UNCHANGED <<devices, plexFails>>
    \/ needed /\ Fails /\ next /\ UNCHANGED devices
Puts(p, needed, next, changed) ==
    \/ ~needed /\ next /\ UNCHANGED <<devices, plexFails>>
    \/ /\ needed /\ Targeted(p) # {} /\ next /\ UNCHANGED plexFails
       /\ devices' = (devices \ Targeted(p)) \union changed
    \/ needed /\ Targeted(p) = {} /\ SourceDone(p, FALSE) /\ UNCHANGED <<devices, plexFails>>
    \/ needed /\ Fails /\ SourceDone(p, FALSE) /\ UNCHANGED devices

EnablesDevice(p) ==
    /\ At(p, "enable")
    /\ Puts(p, ~pass[p].target.on, Goes(p, "attach"), {[d EXCEPT !.on = TRUE] : d \in Targeted(p)})
    /\ UNCHANGED <<kept, made>>

\* A DVR gone since cannot be attached to.
Attaches(p) ==
    /\ At(p, "attach")
    /\ LET dvr == ResolvedDvr(pass[p].seen)  needed == pass[p].target.dvr # dvr
       IN  IF needed /\ DevicesOf(devices, dvr) = {}
           THEN SourceDone(p, FALSE) /\ UNCHANGED <<devices, plexFails>>
           ELSE Puts(p, needed, Goes(p, "map"), {[d EXCEPT !.dvr = dvr] : d \in Targeted(p)})
    /\ UNCHANGED <<kept, made>>

\* The tuner's channels, each by the id of its number in the DVR's guide.
WithChannels(d, channels) == [d EXCEPT !.mapped = channels]
HasChannels(d, channels) == d.mapped = channels

MapsChannels(p) ==
    /\ At(p, "map")
    /\ LET r == pass[p]
       IN  Puts(p, ~HasChannels(r.target, r.channels), SourceDone(p, TRUE),
                {WithChannels(d, r.channels) : d \in Targeted(p)})
    /\ UNCHANGED <<kept, made>>

\* Managed tuners no longer wanted, but only those whose address has the key
\* this pass uses: after a change of the key the old ones are not touched.
SameKey(d, uri) == KeyOf[d.uri] = KeyOf[uri]
Unwanted(r) ==
    {d \in devices : d.dvr # Detached /\ d.model \in Tuners \ r.want /\ SameKey(d, r.uri)}

\* The sweep is for a pass in which every source went well.
SweepBegins(p) ==
    /\ At(p, "next") /\ pass[p].todo = {}
    /\ pass' = [pass EXCEPT ![p] =
                IF @.clean
                THEN [@ EXCEPT !.step = "sweep", !.seen = Attached(devices), !.todo = Unwanted(pass[p])]
                ELSE [@ EXCEPT !.step = "done"]]
    /\ UNCHANGED <<kept, devices, made, plexFails>>

\* The last tuner of a DVR, by what was read of the DVRs, is left where it is.
SweepsDevice(p) ==
    /\ At(p, "sweep")
    /\ \E d \in pass[p].todo :
        LET left == [pass EXCEPT ![p].todo = @ \ {d}]
        IN  IF CanRemove(pass[p].seen, d.dvr, d.key)
            THEN \/ /\ Dropped(d.key, d.dvr) /\ UNCHANGED plexFails
                    /\ pass' = [left EXCEPT ![p].step = "refresh"]
                 \/ Fails /\ UNCHANGED devices /\ pass' = [left EXCEPT ![p].clean = FALSE]
            ELSE pass' = [left EXCEPT ![p].clean = FALSE] /\ UNCHANGED <<devices, plexFails>>
    /\ UNCHANGED <<kept, made>>

SweepLooks(p) ==
    /\ At(p, "refresh")
    /\ pass' = [pass EXCEPT ![p].seen = Attached(devices), ![p].step = "sweep"]
    /\ UNCHANGED <<kept, devices, made, plexFails>>

SweepEnds(p) ==
    /\ At(p, "sweep") /\ pass[p].todo = {} /\ Goes(p, "done")
    /\ UNCHANGED <<kept, devices, made, plexFails>>

\* A request that gets no answer ends the pass for this server.
PassAborts(p) ==
    /\ pass[p].step \notin {"idle", "next", "done", "aborted"} /\ Fails /\ Goes(p, "aborted")
    /\ UNCHANGED <<kept, devices, made>>

PassEnds(p) ==
    /\ pass[p].step \in {"done", "aborted"} /\ pass' = [pass EXCEPT ![p] = NoPass]
    /\ UNCHANGED <<kept, devices, made, plexFails>>
-----------------------------------------------------------------------------
(* What changes around it *)

\* The mode, the profile, or the user whose key is used.
SettingsSaved ==
    /\ \E m \in {"per_source", "combined"}, u \in 1..MaxAddresses :
        /\ <<m, u>> # <<mode, address>> /\ mode' = m /\ address' = u
    /\ saved' = TRUE /\ UNCHANGED <<playlists, tunerLineup>>

\* The user gets a new key; no pass is asked for.
KeyChanges ==
    /\ \E u \in 1..MaxAddresses : KeyOf[u] # KeyOf[address] /\ address' = u
    /\ UNCHANGED <<mode, playlists, tunerLineup, saved>>

PlaylistsChange ==
    /\ \E s \in Sources : playlists' = IF s \in playlists THEN playlists \ {s} ELSE playlists \union {s}
    /\ saved' = TRUE /\ UNCHANGED <<mode, address, tunerLineup>>

\* A refreshed playlist changes a line-up without asking for a pass.
LineupChanges ==
    /\ \E t \in Tuners, v \in 0..2 : v # tunerLineup[t] /\ tunerLineup' = [tunerLineup EXCEPT ![t] = v]
    /\ saved' \in {saved, TRUE} /\ UNCHANGED <<mode, address, playlists>>

Changes ==
    /\ plexEdits < MaxPlexEdits /\ plexEdits' = plexEdits + 1 /\ pass' = Disturbed
    /\ SettingsSaved \/ KeyChanges \/ PlaylistsChange \/ LineupChanges
    /\ UNCHANGED <<devices, made, meddles, plexFails>>

\* Somebody disables, detaches or removes a tuner in Plex, or unmaps its channels.
Meddles ==
    /\ meddles < MaxMeddles /\ meddles' = meddles + 1 /\ pass' = Disturbed
    /\ \E d \in devices :
        \/ devices' = devices \ {d}
        \/ /\ d # Foreign
           /\ \E e \in {[d EXCEPT !.on = FALSE], [d EXCEPT !.dvr = Detached], [d EXCEPT !.mapped = 0]} :
                 devices' = (devices \ {d}) \union {e}
    /\ UNCHANGED <<settingsVars, saved, made, plexFails>>
-----------------------------------------------------------------------------
PlexNext ==
    \/ \E p \in Passes :
        \/ PassBegins(p) \/ ReadsLineup(p) \/ LineupFails(p) \/ Looks(p)
        \/ CreatesDevice(p) \/ LooksAgain(p) \/ Replaces(p)
        \/ CreatesDvr(p) \/ LooksForDvr(p) \/ HasDvr(p)
        \/ EnablesDevice(p) \/ Attaches(p) \/ MapsChannels(p)
        \/ SweepBegins(p) \/ SweepsDevice(p) \/ SweepLooks(p) \/ SweepEnds(p)
        \/ PassAborts(p) \/ PassEnds(p)
    \/ Changes \/ Meddles

PlexSpec == PlexInit /\ [][PlexNext]_plexVars
-----------------------------------------------------------------------------
(* Properties *)

\* Whatever passes that overlapped, were cut short or used other settings have
\* left in Plex, the next one that is alone, has nothing changed under it and
\* reports success has made it good: every desired tuner that has channels is
\* switched on, attached to a DVR and mapped to its channels (at its address,
\* unless a request failed), and no managed tuner is attached that is not
\* desired, but for those whose address has another streaming key
\* (reconcile_server 860-898, _delete_stale_managed_tuners 741-742).
TunersMatch ==
    \A p \in Passes :
        (pass[p] # NoPass /\ At(p, "done") /\ pass[p].clean /\ pass[p].calm) =>
            /\ \A t \in pass[p].want : tunerLineup[t] # 0 =>
                \E d \in devices : /\ d.model = t /\ d.on /\ d.dvr # Detached
                                   /\ d.mapped = tunerLineup[t]
                                   /\ plexFails = 0 => d.uri = pass[p].uri
            /\ \A d \in devices : d.dvr # Detached =>
                  d.model \in pass[p].want \union {Foreign.model} \/ ~SameKey(d, pass[p].uri)

\* Headendarr never removes the last tuner of the DVR it made, which would take
\* the DVR and its recordings with it (_can_remove_dvr_device 294-305).
DvrIsKept ==
    [][DevicesOf(devices, "ours") # {} => DevicesOf(devices', "ours") # {}]_plexVars
=============================================================================
