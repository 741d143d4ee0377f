---------------------------- MODULE SettingsPage ----------------------------
(***************************************************************************)
(* The discovery settings and their three holders: the fields of the       *)
(* settings pages (interface/src/pluginSettings.tsx), plugin.json, and the *)
(* running device finder (engine/src/modbus_device_discovery.cpp).         *)
(*                                                                         *)
(* A save is four operations of the engine, each awaited: find the plugin, *)
(* read plugin.json, write it, and configure the finder.  Any of them can  *)
(* fail or time out, another page or a restart of the engine can come in   *)
(* between, and a request to configure that the page has given up on still *)
(* waits for the finder, which holds mutex_ for a whole pass.              *)
(*                                                                         *)
(* Of the settings the model keeps the address range, whether the network  *)
(* is swept, and whether the engine can parse the subnets to sweep: the    *)
(* page accepts 192.168.010.0/24, which parseCidr does not.  The others    *)
(* travel with them.                                                       *)
(***************************************************************************)
EXTENDS Naturals, Sequences, FiniteSets

CONSTANTS Pages,            \* settings pages that are open at a time
          Hosts,            \* hosts of the targets in plugin.json
          NoObject,         \* an entry of the list of targets that is no object
          LocalHost,        \* 127.0.0.1, the host of a Target{}
          Ranges,           \* address ranges
          DefaultRange,     \* 0 to 255, the range of a Target{} and of the page
          InitialManifests, \* plugin.json as it may be found
          Edits,            \* bound: the settings an operator types
          NoManifest,       \* no copy of plugin.json
          MaxLate           \* bound: requests given up on and not yet executed

Settings == [range : Ranges, sweep : BOOLEAN, parses : BOOLEAN]

\* An entry of the list of targets in plugin.json; usable: it passes the checks of
\* the constructor.
Entry == [host : Hosts, range : Ranges, usable : BOOLEAN] \cup {NoObject}
Manifest == [enabled : BOOLEAN, sweep : BOOLEAN, parses : BOOLEAN, targets : Seq(Entry)]

\* A target of the finder is named by the place of its entry in plugin.json, which
\* gives the order of targets_.
Target == [at : Nat, host : Hosts, range : Ranges]
Finder == [targets : SUBSET Target, sweep : BOOLEAN, parses : BOOLEAN]

ASSUME DefaultsAssumption == LocalHost \in Hosts /\ DefaultRange \in Ranges
ASSUME ManifestsAssumption == InitialManifests \subseteq Manifest /\ NoManifest \notin Manifest
ASSUME NoObjectAssumption == NoObject \notin [host : Hosts, range : Ranges, usable : BOOLEAN]
ASSUME EditsAssumption == Edits \subseteq Settings
ASSUME LateAssumption == MaxLate \in Nat

VARIABLES
  file,        \* plugin.json
  finder,      \* the configured targets and the network scan of the finder
  pc,          \* where each page is
  fields,      \* the fields of each page
  manifest,    \* the copy of plugin.json a save works on
  late,        \* requests to configure whose page has given up
  written,     \* the settings written by the saves at work and those they overlap (history)
  undisturbed, \* pages whose last save no other one overlapped and whose request to
               \* configure did not get lost (history)
  settled,     \* no save has been at work since one that was undisturbed (history)
  mended       \* since the engine started a save has made an entry of plugin.json a
               \* target that was none (history)

pageVars == <<pc, fields, manifest>>
saveHistory == <<written, undisturbed, settled, mended>>
settingsVars == <<file, finder, pageVars, late, saveHistory>>

Saving == {"reading", "writing", "configuring"}
Places == {"loading", "ready"} \cup Saving

SettingsTypeOK ==
  /\ file \in Manifest
  /\ finder \in Finder
  /\ pc \in [Pages -> Places]
  /\ fields \in [Pages -> Settings]
  /\ manifest \in [Pages -> Manifest \cup {NoManifest}]
  /\ late \subseteq [page : Pages, settings : Settings]
  /\ written \subseteq Settings
  /\ undisturbed \subseteq Pages
  /\ settled \in BOOLEAN
  /\ mended \in BOOLEAN

-----------------------------------------------------------------------------
DefaultSettings == [range |-> DefaultRange, sweep |-> TRUE, parses |-> TRUE]
DefaultTarget == [at |-> 1, host |-> LocalHost, range |-> DefaultRange]

SetRange(ts, r) == {[t EXCEPT !.range = r] : t \in ts}

\* The entries the constructor makes targets of.
TargetEntries(m) == {i \in DOMAIN m.targets : m.targets[i] # NoObject /\ m.targets[i].usable}

\* The constructor: with device_discovery.enabled false it returns at once, with
\* no target and the network scan of a NetworkScan{}, which is enabled. It does
\* not parse the subnets.
Constructed(m) ==
  IF ~m.enabled THEN [targets |-> {}, sweep |-> TRUE, parses |-> TRUE]
  ELSE [targets |-> IF m.targets = <<>> THEN {DefaultTarget}
                    ELSE {[at |-> i, host |-> m.targets[i].host, range |-> m.targets[i].range] :
                            i \in TargetEntries(m)},
        sweep   |-> m.sweep,
        parses  |-> m.parses]

\* configureAddressRange, when it does not throw.
Configured(f, s) ==
  [targets |-> SetRange(f.targets, s.range), sweep |-> s.sweep, parses |-> s.parses]

\* settings(): the range is that of the first target.
Reported(f) ==
  [range  |-> IF f.targets = {} THEN DefaultRange
              ELSE (CHOOSE t \in f.targets : \A u \in f.targets : t.at <= u.at).range,
   sweep  |-> f.sweep,
   parses |-> f.parses]

\* The target the page makes up, and what becomes of an entry that is no object.
MadeUp(r) == [host |-> LocalHost, range |-> r, usable |-> TRUE]

\* Bug: a manifest without targets gets none.
InventsNoTarget(m, s) ==
  [m EXCEPT !.sweep = s.sweep, !.parses = s.parses,
            !.targets = [i \in DOMAIN m.targets |-> IF m.targets[i] = NoObject THEN MadeUp(s.range)
                                                   ELSE [m.targets[i] EXCEPT !.range = s.range]]]

\* What persistDiscovery writes: the range for every target, and a first target
\* where there is none.  The constructor finds its defaults in what becomes of an
\* entry that is no object, and takes it for a target.
Persisted(m, s) ==
  [enabled |-> m.enabled,
   sweep   |-> s.sweep,
   parses  |-> s.parses,
   targets |-> IF m.targets = <<>> THEN <<MadeUp(s.range)>>
               ELSE [i \in DOMAIN m.targets |-> IF m.targets[i] = NoObject THEN MadeUp(s.range)
                                               ELSE [m.targets[i] EXCEPT !.range = s.range]]]

Mends(m) == \E i \in DOMAIN m.targets : m.targets[i] = NoObject

SettingsInit ==
  /\ file \in InitialManifests
  /\ finder = Constructed(file)
  /\ pc = [p \in Pages |-> "loading"]
  /\ fields = [p \in Pages |-> DefaultSettings]
  /\ manifest = [p \in Pages |-> NoManifest]
  /\ late = {}
  /\ written = {}
  /\ undisturbed = {}
  /\ settled = TRUE
  /\ mended = FALSE

-----------------------------------------------------------------------------
Goto(p, place) == pc' = [pc EXCEPT ![p] = place]

\* The page ends an operation with a message or an error, which nothing reads.
EndOperation(p) ==
  /\ Goto(p, "ready")
  /\ manifest' = [manifest EXCEPT ![p] = NoManifest]

\* get_discovery_settings answers.
Load(p) ==
  /\ pc[p] = "loading"
  /\ Goto(p, "ready")
  /\ fields' = [fields EXCEPT ![p] = Reported(finder)]
  /\ UNCHANGED <<file, finder, manifest, late, saveHistory>>

\* It fails or times out: the fields keep their defaults, and can be saved.
LoadFails(p) ==
  /\ pc[p] = "loading"
  /\ EndOperation(p)
  /\ UNCHANGED <<file, finder, fields, late, saveHistory>>

\* The page is closed, and opened again.
Reopen(p) ==
  /\ pc[p] = "ready"
  /\ Goto(p, "loading")
  /\ fields' = [fields EXCEPT ![p] = DefaultSettings]
  /\ UNCHANGED <<file, finder, manifest, late, saveHistory>>

\* The operator types; the fields are disabled while loading and saving.
Edit(p, s) ==
  /\ pc[p] = "ready"
  /\ fields' = [fields EXCEPT ![p] = s]
  /\ UNCHANGED <<file, finder, pc, manifest, late, saveHistory>>

Alone(p) == late = {} /\ \A q \in Pages \ {p} : pc[q] \notin Saving

\* save() with valid fields, up to the answer to its first operation.
StartSave(p) ==
  /\ pc[p] = "ready"
  /\ Goto(p, "reading")
  /\ undisturbed' = IF Alone(p) THEN {p} ELSE {}
  /\ written' = IF Alone(p) THEN {} ELSE written
  /\ UNCHANGED <<file, finder, fields, manifest, late, settled, mended>>

\* get-file answers.
ReadManifest(p) ==
  /\ pc[p] = "reading"
  /\ manifest' = [manifest EXCEPT ![p] = file]
  /\ Goto(p, "writing")
  /\ UNCHANGED <<file, finder, fields, late, saveHistory>>

\* save-file writes what became of the copy.
WriteFile(p) ==
  /\ pc[p] = "writing"
  /\ file' = Persisted(manifest[p], fields[p])
  /\ written' = written \cup {fields[p]}
  /\ settled' = FALSE
  /\ mended' = (mended \/ Mends(manifest[p]))
  /\ UNCHANGED <<finder, fields, late, undisturbed>>

\* The page is told, and asks to configure the finder.
WriteManifest(p) ==
  /\ WriteFile(p)
  /\ manifest' = [manifest EXCEPT ![p] = NoManifest]
  /\ Goto(p, "configuring")

\* The answer of save-file is lost: the page gives up, the file is written.
WriteUnanswered(p) == WriteFile(p) /\ EndOperation(p)

\* Bug: an error of save-file does not end the save.
GoesOnAfterError(p) ==
  /\ pc[p] \in {"reading", "writing"}
  /\ Goto(p, "configuring")
  /\ manifest' = [manifest EXCEPT ![p] = NoManifest]
  /\ UNCHANGED <<file, finder, fields, late, saveHistory>>

\* An operation before the last one fails or times out without effect.
SaveFails(p) ==
  /\ pc[p] \in {"reading", "writing"}
  /\ EndOperation(p)
  /\ UNCHANGED <<file, finder, fields, late, saveHistory>>

\* The request to configure gets lost: the finder never hears of what is saved.
ConfigureFails(p) ==
  /\ pc[p] = "configuring"
  /\ EndOperation(p)
  /\ undisturbed' = undisturbed \ {p}
  /\ UNCHANGED <<file, finder, fields, late, written, settled, mended>>

\* The finder executes a request from page p, or throws, because it cannot parse a
\* subnet.
Execute(p, s) ==
  /\ finder' = IF s.parses THEN Configured(finder, s) ELSE finder
  /\ settled' = (s.parses /\ p \in undisturbed)
  /\ UNCHANGED <<file, fields, written, undisturbed, mended>>

\* configure_discovery is executed and the page is told in time. The fields have
\* not changed since the request was sent.
Configure(p) ==
  /\ pc[p] = "configuring"
  /\ Execute(p, fields[p])
  /\ EndOperation(p)
  /\ UNCHANGED late

\* No answer in 15 seconds; the request goes on waiting for mutex_, or has been
\* executed and its answer is lost.
ConfigureTimesOut(p) ==
  /\ pc[p] = "configuring"
  /\ Cardinality(late) < MaxLate
  /\ late' = late \cup {[page |-> p, settings |-> fields[p]]}
  /\ EndOperation(p)
  /\ UNCHANGED <<file, finder, fields, saveHistory>>

\* Bug: a request nobody waits for is not executed.
DropsLate(r) ==
  /\ r \in late
  /\ late' = late \ {r}
  /\ UNCHANGED <<file, finder, pageVars, saveHistory>>

\* The finder comes to a request after its page has given up. Requests that wait
\* for a mutex get it in any order.
ConfigureLate(r) ==
  /\ r \in late
  /\ late' = late \ {r}
  /\ Execute(r.page, r.settings)
  /\ UNCHANGED <<pc, manifest>>

\* The engine is restarted: the finder is constructed anew, and every operation
\* on its way fails.
Restart ==
  /\ finder' = Constructed(file)
  /\ late' = {}
  /\ pc' = [p \in Pages |-> "ready"]
  /\ manifest' = [p \in Pages |-> NoManifest]
  /\ undisturbed' = {}
  /\ settled' = TRUE
  /\ mended' = FALSE
  /\ written' = {}
  /\ UNCHANGED <<file, fields>>

SaveSteps(p) ==
  ReadManifest(p) \/ WriteManifest(p) \/ WriteUnanswered(p) \/ SaveFails(p) \/ Configure(p)
    \/ ConfigureFails(p) \/ ConfigureTimesOut(p)

SettingsNext ==
  \/ \E p \in Pages : \/ Load(p) \/ LoadFails(p) \/ Reopen(p) \/ StartSave(p) \/ SaveSteps(p)
                      \/ \E s \in Edits : Edit(p, s)
  \/ \E r \in late : ConfigureLate(r)
  \/ Restart

SettingsSpec == SettingsInit /\ [][SettingsNext]_settingsVars

\* Operations end, by their timeouts if not by an answer, and the finder's passes
\* end, so that of the requests that wait for mutex_ one gets it.
SettingsFairness ==
  /\ \A p \in Pages : WF_settingsVars(SaveSteps(p))
  /\ WF_settingsVars(\E r \in late : ConfigureLate(r))

-----------------------------------------------------------------------------
\* The running finder is given only settings that plugin.json was given before, by
\* a save still at work or one it overlaps, or what it would be constructed from:
\* whatever fails, no settings are in force that were never saved (pluginSettings.tsx:169-170).
RunningSettingsWereSaved ==
  [][finder' = finder \/ finder' = Constructed(file)
       \/ \E s \in written : finder' = Configured(finder, s)]_settingsVars

\* A restart now would construct the finder that is running: the same sweep, and
\* the same targets with the same ranges.  Entries that a save has mended since
\* the start become targets in addition.
RestartChangesNothing ==
  LET anew == Constructed(file)
  IN  /\ anew.sweep = finder.sweep /\ anew.parses = finder.parses
      /\ finder.targets \subseteq anew.targets
      /\ mended \/ anew.targets = finder.targets

\* After a save that no other one overlapped and that the finder accepted, whether
\* its page was told or had given up, a restart changes nothing, a target that
\* constructor and page made up included (pluginSettings.tsx:58-74,
\* discovery.cpp:306-326).
RestartKeepsEnabledSettings == settled /\ file.enabled => RestartChangesNothing

\* The same without the condition: what "Saved." announced outlives a restart.
RestartKeepsSettings == settled => RestartChangesNothing

\* Settings that an undisturbed save has written and whose subnets the engine can
\* parse reach the finder in the end, even if the page stops waiting while a pass
\* holds mutex_, unless the request got lost (discovery.cpp:467, 555).
SavedTakesEffect ==
  \A p \in Pages :
    p \in undisturbed /\ pc[p] = "configuring" /\ fields[p].parses
      ~> settled \/ p \notin undisturbed
=============================================================================
