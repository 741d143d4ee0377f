------------------------ MODULE SettingsPage_proofs ------------------------
(***************************************************************************)
(* Proofs about the discovery settings: for any number of pages, any       *)
(* ranges and any plugin.json, no settings are in force that were never    *)
(* saved, and a save that no other one overlapped survives a restart.      *)
(***************************************************************************)
EXTENDS SettingsPage, NaturalsInduction, WellFoundedInduction, TLAPS

USE NoObjectAssumption

\* Which targets there are, whatever their ranges.
HostsIn(ts) == {<<t.at, t.host>> : t \in ts}

\* One finder is the other, but for more targets.
Extends(c, f, more) ==
  /\ c.sweep = f.sweep /\ c.parses = f.parses
  /\ f.targets \subseteq c.targets
  /\ more \/ c.targets = f.targets

\* What is sent to the finder was written before.
SentIsWritten ==
  /\ \A p \in Pages : pc[p] = "configuring" => fields[p] \in written
  /\ \A r \in late : r.settings \in written

\* A manifest of an enabled discovery and the finder differ in ranges and in the
\* sweep, but not in what targets there are, unless entries were mended.
SameAs(m, f, more) ==
  m.enabled => /\ HostsIn(f.targets) \subseteq HostsIn(Constructed(m).targets)
               /\ more \/ HostsIn(f.targets) = HostsIn(Constructed(m).targets)

\* This is so of plugin.json and of the copies of it.
SameTargets ==
  /\ SameAs(file, finder, mended)
  /\ \A p \in Pages : pc[p] = "writing" =>
       /\ manifest[p] \in Manifest
       /\ manifest[p].enabled = file.enabled
       /\ SameAs(manifest[p], finder, mended)

\* While a save is undisturbed no other one is at work, its copy is current, and
\* what it has written is what the finder is going to be.
Undisturbed ==
  \A p \in undisturbed :
    /\ \A q \in Pages \ {p} : pc[q] \notin Saving
    /\ pc[p] \in Saving => late = {}
    /\ pc[p] = "writing" => manifest[p] = file
    /\ pc[p] = "configuring" /\ file.enabled =>
         Extends(Constructed(file), Configured(finder, fields[p]), mended)
    /\ \A r \in late : /\ r.page = p
                       /\ file.enabled =>
                            Extends(Constructed(file), Configured(finder, r.settings), mended)
    /\ \A r, o \in late : r = o

Kept == settled /\ file.enabled => Extends(Constructed(file), finder, mended)

SettingsInv == SettingsTypeOK /\ SentIsWritten /\ SameTargets /\ Undisturbed /\ Kept

-----------------------------------------------------------------------------
LEMMA SetRangeType ==
  ASSUME NEW ts \in SUBSET Target, NEW r \in Ranges
  PROVE  SetRange(ts, r) \in SUBSET Target
BY DEF SetRange, Target

\* Setting the range leaves nothing of a target but its place and host.
LEMMA RangeForgotten ==
  ASSUME NEW ts \in SUBSET Target, NEW us \in SUBSET Target, HostsIn(ts) \subseteq HostsIn(us),
         NEW r \in Ranges
  PROVE  SetRange(ts, r) \subseteq SetRange(us, r)
<1> SUFFICES ASSUME NEW t \in ts PROVE [t EXCEPT !.range = r] \in SetRange(us, r)
  BY DEF SetRange
<1>1. <<t.at, t.host>> \in HostsIn(us)
  BY DEF HostsIn
<1>2. PICK u \in us : <<u.at, u.host>> = <<t.at, t.host>>
  BY <1>1 DEF HostsIn
<1>3. u.at = t.at /\ u.host = t.host /\ u \in Target /\ t \in Target
  BY <1>2
<1>4. [t EXCEPT !.range = r] = [u EXCEPT !.range = r]
  BY <1>3 DEF Target
<1> QED
  BY <1>4 DEF SetRange

LEMMA HostsStay ==
  ASSUME NEW ts \in SUBSET Target, NEW r \in Ranges
  PROVE  HostsIn(SetRange(ts, r)) = HostsIn(ts)
<1>1. \A t \in ts : [t EXCEPT !.range = r].at = t.at /\ [t EXCEPT !.range = r].host = t.host
  BY DEF Target
<1> QED
  BY <1>1 DEF HostsIn, SetRange

\* An entry of a list of targets.
LEMMA EntryTypes ==
  ASSUME NEW m \in Manifest, NEW i \in TargetEntries(m)
  PROVE  /\ i \in Nat /\ m.targets[i] \in [host : Hosts, range : Ranges, usable : BOOLEAN]
         /\ m.targets[i].usable
<1>1. m.targets \in Seq(Entry)
  BY DEF Manifest
<1>2. i \in 1..Len(m.targets) /\ m.targets[i] # NoObject /\ m.targets[i].usable
  BY <1>1 DEF TargetEntries
<1>3. m.targets[i] \in Entry
  BY <1>1, <1>2
<1> QED
  BY <1>1, <1>2, <1>3 DEF Entry

LEMMA ConstructedType == ASSUME NEW m \in Manifest PROVE Constructed(m) \in Finder
<1>1. DefaultTarget \in Target
  BY DefaultsAssumption DEF DefaultTarget, Target
<1>2. m.sweep \in BOOLEAN /\ m.parses \in BOOLEAN
  BY DEF Manifest
<1>3. ASSUME NEW i \in TargetEntries(m)
      PROVE  [at |-> i, host |-> m.targets[i].host, range |-> m.targets[i].range] \in Target
  BY EntryTypes DEF Target
<1> QED
  BY <1>1, <1>2, <1>3 DEF Constructed, Finder

LEMMA ConfiguredType == ASSUME NEW f \in Finder, NEW s \in Settings PROVE Configured(f, s) \in Finder
<1>1. SetRange(f.targets, s.range) \in SUBSET Target
  BY SetRangeType DEF Finder, Settings
<1> QED
  BY <1>1 DEF Configured, Finder, Settings

LEMMA ReportedType == ASSUME NEW f \in Finder PROVE Reported(f) \in Settings
<1> DEFINE First(t) == t \in f.targets /\ \A u \in f.targets : t.at <= u.at
<1>1. f.targets \subseteq Target /\ f.sweep \in BOOLEAN /\ f.parses \in BOOLEAN
  BY DEF Finder
<1>2. ASSUME f.targets # {} PROVE \E t : First(t)
  <2> DEFINE S == {t.at : t \in f.targets}
  <2>1. S \subseteq Nat /\ S # {}
    BY <1>1, <1>2 DEF Target
  <2> HIDE DEF S
  <2>2. PICK n \in S : \A k \in S : ~(<<k, n>> \in OpToRel(<, Nat))
    BY <2>1, NatLessThanWellFounded, WFMin
  <2>3. \A k \in S : ~(k < n)
    BY <2>1, <2>2 DEF OpToRel
  <2>4. \A k \in S : n <= k
    BY <2>1, <2>3
  <2>5. PICK t \in f.targets : t.at = n
    BY DEF S
  <2>6. \A u \in f.targets : u.at \in S
    BY DEF S
  <2> QED
    BY <2>4, <2>5, <2>6
<1>3. f.targets # {} => (CHOOSE t \in f.targets : \A u \in f.targets : t.at <= u.at) \in Target
  BY <1>1, <1>2
<1>4. f.targets # {} => (CHOOSE t \in f.targets : \A u \in f.targets : t.at <= u.at).range \in Ranges
  BY <1>3 DEF Target
<1> QED
  BY <1>1, <1>4, DefaultsAssumption DEF Reported, Settings

\* What a save makes of a copy of plugin.json: the finder constructed from it is
\* the one constructed from the copy, configured as the page asks; mended entries
\* are targets in addition.
LEMMA PersistedIsConfigured ==
  ASSUME NEW m \in Manifest, NEW s \in Settings
  PROVE  /\ Persisted(m, s) \in Manifest
         /\ Persisted(m, s).enabled = m.enabled
         /\ m.enabled =>
              Extends(Constructed(Persisted(m, s)), Configured(Constructed(m), s), Mends(m))
<1> DEFINE new(i) == IF m.targets[i] = NoObject THEN MadeUp(s.range)
                     ELSE [m.targets[i] EXCEPT !.range = s.range]
           list == IF m.targets = <<>> THEN <<MadeUp(s.range)>>
                   ELSE [i \in DOMAIN m.targets |-> new(i)]
           P == Persisted(m, s)
           At(i) == [at |-> i, host |-> m.targets[i].host, range |-> m.targets[i].range]
           AtNew(i) == [at |-> i, host |-> list[i].host, range |-> list[i].range]
<1>1. s.range \in Ranges /\ s.sweep \in BOOLEAN /\ s.parses \in BOOLEAN
  BY DEF Settings
<1>2. m.targets \in Seq(Entry) /\ m.enabled \in BOOLEAN
  BY DEF Manifest
<1>3. MadeUp(s.range) \in Entry /\ MadeUp(s.range) # NoObject
        /\ MadeUp(s.range).usable /\ MadeUp(s.range).host = LocalHost /\ MadeUp(s.range).range = s.range
  <2>1. MadeUp(s.range) \in [host : Hosts, range : Ranges, usable : BOOLEAN]
    BY <1>1, DefaultsAssumption DEF MadeUp
  <2>2. MadeUp(s.range).usable /\ MadeUp(s.range).host = LocalHost /\ MadeUp(s.range).range = s.range
    BY DEF MadeUp
  <2> QED
    BY <2>1, <2>2 DEF Entry
<1>4. ASSUME NEW i \in DOMAIN m.targets
      PROVE  /\ new(i) \in Entry /\ new(i) # NoObject /\ new(i).range = s.range
             /\ m.targets[i] # NoObject =>
                  new(i).usable = m.targets[i].usable /\ new(i).host = m.targets[i].host
  <2>1. m.targets[i] \in Entry
    BY <1>2
  <2> QED
    BY <1>1, <1>3, <2>1 DEF Entry
<1>5. list \in Seq(Entry) /\ list # <<>>
  <2>1. ASSUME m.targets # <<>> PROVE [i \in DOMAIN m.targets |-> new(i)] \in Seq(Entry) \ {<<>>}
    <3> HIDE DEF new
    <3>1. Len(m.targets) \in Nat \ {0} /\ DOMAIN m.targets = 1..Len(m.targets)
      BY <1>2, <2>1
    <3>2. [i \in DOMAIN m.targets |-> new(i)] \in [1..Len(m.targets) -> Entry]
      BY <1>4, <3>1
    <3>3. [i \in DOMAIN m.targets |-> new(i)] \in Seq(Entry)
      BY <3>1, <3>2
    <3>4. 1 \in DOMAIN [i \in DOMAIN m.targets |-> new(i)]
      BY <3>1
    <3>5. 1 \notin DOMAIN <<>>
      OBVIOUS
    <3> QED
      BY <3>3, <3>4, <3>5
  <2>2. <<MadeUp(s.range)>> \in Seq(Entry) \ {<<>>}
    BY <1>3
  <2> QED
    BY <2>1, <2>2
<1>6. P = [enabled |-> m.enabled, sweep |-> s.sweep, parses |-> s.parses, targets |-> list]
  BY DEF Persisted
<1> HIDE DEF P
<1>7. P.enabled = m.enabled /\ P.sweep = s.sweep /\ P.parses = s.parses /\ P.targets = list
  BY <1>6
<1>8. P \in Manifest
  BY <1>1, <1>2, <1>5, <1>6 DEF Manifest
<1>9. ASSUME m.enabled PROVE Extends(Constructed(P), Configured(Constructed(m), s), Mends(m))
  <2>1. Constructed(P) = [targets |-> {AtNew(i) : i \in TargetEntries(P)}, sweep |-> s.sweep, parses |-> s.parses]
    BY <1>5, <1>7, <1>9 DEF Constructed
  <2>2. CASE m.targets = <<>>
    <3>1. list = <<MadeUp(s.range)>>
      BY <2>2
    <3> HIDE DEF list
    <3>2. TargetEntries(P) = {1}
      BY <1>3, <1>7, <3>1 DEF TargetEntries
    <3>3. AtNew(1) = [at |-> 1, host |-> LocalHost, range |-> s.range]
      BY <1>3, <3>1
    <3>4. {AtNew(i) : i \in TargetEntries(P)} = {[at |-> 1, host |-> LocalHost, range |-> s.range]}
      BY <3>2, <3>3
    <3>5. Constructed(m).targets = {DefaultTarget}
      BY <1>9, <2>2 DEF Constructed
    <3>6. SetRange({DefaultTarget}, s.range) = {[at |-> 1, host |-> LocalHost, range |-> s.range]}
      BY DEF SetRange, DefaultTarget
    <3> HIDE DEF AtNew
    <3> QED
      BY <2>1, <3>4, <3>5, <3>6 DEF Configured, Extends
  <2>3. CASE m.targets # <<>>
    <3>1. list = [i \in DOMAIN m.targets |-> new(i)]
      BY <2>3
    <3> HIDE DEF list, new
    <3>2. \A i \in DOMAIN m.targets : list[i] = new(i)
      BY <3>1
    <3>3. DOMAIN list = DOMAIN m.targets
      BY <3>1
    <3>4. TargetEntries(m) \subseteq TargetEntries(P)
      BY <1>4, <1>7, <3>2, <3>3 DEF TargetEntries
    <3>5. ~Mends(m) => TargetEntries(P) = TargetEntries(m)
      BY <1>4, <1>7, <3>2, <3>3 DEF TargetEntries, Mends
    <3>6. ASSUME NEW i \in TargetEntries(m) PROVE AtNew(i) = [At(i) EXCEPT !.range = s.range]
      BY <1>4, <3>2 DEF TargetEntries
    <3>7. Constructed(m).targets = {At(i) : i \in TargetEntries(m)}
      BY <1>9, <2>3 DEF Constructed
    <3> HIDE DEF At, AtNew
    <3>8. SetRange(Constructed(m).targets, s.range) = {AtNew(i) : i \in TargetEntries(m)}
      BY <3>6, <3>7 DEF SetRange
    <3> QED
      BY <2>1, <3>4, <3>5, <3>8 DEF Configured, Extends
  <2> QED
    BY <2>2, <2>3
<1> QED
  BY <1>7, <1>8, <1>9 DEF P

-----------------------------------------------------------------------------
LEMMA InitSettings == SettingsInit => SettingsInv
<1> SUFFICES ASSUME SettingsInit PROVE SettingsInv
  OBVIOUS
<1>1. file \in Manifest /\ finder = Constructed(file) /\ finder \in Finder
  BY ManifestsAssumption, ConstructedType DEF SettingsInit
<1>2. DefaultSettings \in Settings
  BY DefaultsAssumption DEF DefaultSettings, Settings
<1>3. SettingsTypeOK
  BY <1>1, <1>2 DEF SettingsInit, SettingsTypeOK, Places, Saving
<1>4. SentIsWritten /\ SameTargets /\ Undisturbed /\ Kept
  BY <1>1 DEF SettingsInit, SentIsWritten, SameTargets, SameAs, Undisturbed, Kept, Extends
<1> QED
  BY <1>3, <1>4 DEF SettingsInv

LEMMA TypeKept == SettingsTypeOK /\ SameTargets /\ [SettingsNext]_settingsVars => SettingsTypeOK'
<1> SUFFICES ASSUME SettingsTypeOK, SameTargets, [SettingsNext]_settingsVars PROVE SettingsTypeOK'
  OBVIOUS
<1> USE DEF SettingsTypeOK, pageVars, saveHistory, Goto, EndOperation
<1>1. \A s \in Settings : Configured(finder, s) \in Finder
  BY ConfiguredType
<1>2. ASSUME NEW p \in Pages, pc[p] = "writing" PROVE Persisted(manifest[p], fields[p]) \in Manifest
  BY <1>2, PersistedIsConfigured DEF SameTargets
<1>3. DefaultSettings \in Settings
  BY DefaultsAssumption DEF DefaultSettings, Settings
<1>4. ASSUME NEW p \in Pages, Load(p) PROVE SettingsTypeOK'
  BY <1>4, ReportedType DEF Load, Places
<1>5. ASSUME NEW p \in Pages, LoadFails(p) \/ Reopen(p) PROVE SettingsTypeOK'
  BY <1>3, <1>5 DEF LoadFails, Reopen, Places
<1>6. ASSUME NEW p \in Pages, StartSave(p) PROVE SettingsTypeOK'
  BY <1>6 DEF StartSave, Places, Saving
<1>7. ASSUME NEW p \in Pages, NEW s \in Edits, Edit(p, s) PROVE SettingsTypeOK'
  BY <1>7, EditsAssumption DEF Edit
<1>8. ASSUME NEW p \in Pages, ReadManifest(p) PROVE SettingsTypeOK'
  BY <1>8 DEF ReadManifest, Places, Saving
<1>9. ASSUME NEW p \in Pages, WriteManifest(p) PROVE SettingsTypeOK'
  BY <1>2, <1>9 DEF WriteManifest, WriteFile, Mends, Places, Saving
<1>10. ASSUME NEW p \in Pages, WriteUnanswered(p) PROVE SettingsTypeOK'
  BY <1>2, <1>10 DEF WriteUnanswered, WriteFile, Mends, Places
<1>11. ASSUME NEW p \in Pages, SaveFails(p) PROVE SettingsTypeOK'
  BY <1>11 DEF SaveFails, Places
<1>17. ASSUME NEW p \in Pages, ConfigureFails(p) PROVE SettingsTypeOK'
  BY <1>17 DEF ConfigureFails, Places
<1>12. ASSUME NEW p \in Pages, Configure(p) PROVE SettingsTypeOK'
  BY <1>1, <1>12 DEF Configure, Execute, Places, Settings
<1>13. ASSUME NEW p \in Pages, ConfigureTimesOut(p) PROVE SettingsTypeOK'
  BY <1>13 DEF ConfigureTimesOut, Places
<1>14. ASSUME NEW r \in late, ConfigureLate(r) PROVE SettingsTypeOK'
  <2>1. r.settings \in Settings
    OBVIOUS
  <2> QED
    BY <1>1, <1>14, <2>1 DEF ConfigureLate, Execute, Settings
<1>15. CASE Restart
  BY <1>15, ConstructedType DEF Restart, Places
<1>16. CASE UNCHANGED settingsVars
  BY <1>16 DEF settingsVars
<1> QED
  BY <1>4, <1>5, <1>6, <1>7, <1>8, <1>9, <1>10, <1>11, <1>12, <1>13, <1>14, <1>15, <1>16, <1>17
  DEF SettingsNext, SaveSteps

LEMMA SentKept == SettingsTypeOK /\ SentIsWritten /\ [SettingsNext]_settingsVars => SentIsWritten'
<1> SUFFICES ASSUME SettingsTypeOK, SentIsWritten, [SettingsNext]_settingsVars PROVE SentIsWritten'
  OBVIOUS
<1> USE DEF SettingsTypeOK, SentIsWritten, pageVars, saveHistory, Goto, EndOperation
<1>1. ASSUME NEW p \in Pages, Load(p) \/ LoadFails(p) \/ Reopen(p) \/ ReadManifest(p) \/ SaveFails(p) \/ ConfigureFails(p)
      PROVE  SentIsWritten'
  BY <1>1 DEF Load, LoadFails, Reopen, ReadManifest, SaveFails, ConfigureFails
<1>2. ASSUME NEW p \in Pages, NEW s \in Edits, Edit(p, s) PROVE SentIsWritten'
  BY <1>2 DEF Edit
<1>3. ASSUME NEW p \in Pages, WriteManifest(p) \/ WriteUnanswered(p) PROVE SentIsWritten'
  BY <1>3 DEF WriteManifest, WriteUnanswered, WriteFile
<1>4. ASSUME NEW p \in Pages, Configure(p) PROVE SentIsWritten'
  BY <1>4 DEF Configure, Execute
<1>5. ASSUME NEW p \in Pages, ConfigureTimesOut(p) PROVE SentIsWritten'
  BY <1>5 DEF ConfigureTimesOut
<1>6. ASSUME NEW r \in late, ConfigureLate(r) PROVE SentIsWritten'
  BY <1>6 DEF ConfigureLate, Execute
<1>7. CASE Restart
  BY <1>7 DEF Restart
<1>8. CASE UNCHANGED settingsVars
  BY <1>8 DEF settingsVars
\* A save that starts alone forgets what was written: no request is on its way.
<1>9. ASSUME NEW p \in Pages, StartSave(p) PROVE SentIsWritten'
  <2>1. CASE Alone(p)
    BY <1>9, <2>1 DEF StartSave, Alone, Saving
  <2>2. CASE ~Alone(p)
    BY <1>9, <2>2 DEF StartSave
  <2> QED
    BY <2>1, <2>2
<1> QED
  BY <1>1, <1>2, <1>3, <1>4, <1>5, <1>6, <1>7, <1>8, <1>9 DEF SettingsNext, SaveSteps

\* No step adds, removes or renames a target of the finder but a restart.
LEMMA ConfiguredHosts ==
  ASSUME NEW f \in Finder, NEW s \in Settings
  PROVE  HostsIn(Configured(f, s).targets) = HostsIn(f.targets)
<1>1. f.targets \in SUBSET Target /\ s.range \in Ranges
  BY DEF Finder, Settings
<1> QED
  BY <1>1, HostsStay DEF Configured

LEMMA SameTargetsKept ==
  SettingsTypeOK /\ SameTargets /\ [SettingsNext]_settingsVars => SameTargets'
<1> SUFFICES ASSUME SettingsTypeOK, SameTargets, [SettingsNext]_settingsVars PROVE SameTargets'
  OBVIOUS
<1>1. ASSUME NEW p \in Pages, WriteManifest(p) \/ WriteUnanswered(p) PROVE SameTargets'
  <2> DEFINE m == manifest[p]
  <2>1. /\ pc[p] = "writing" /\ file' = Persisted(m, fields[p]) /\ UNCHANGED finder
        /\ fields[p] \in Settings /\ m \in Manifest /\ m.enabled = file.enabled
        /\ SameAs(m, finder, mended) /\ mended' = (mended \/ Mends(m))
    BY <1>1 DEF WriteManifest, WriteUnanswered, WriteFile, SettingsTypeOK, SameTargets
  <2>2. file'.enabled = file.enabled
          /\ (m.enabled => Extends(Constructed(file'), Configured(Constructed(m), fields[p]), Mends(m)))
    BY <2>1, PersistedIsConfigured
  <2>3. SameAs(file', finder', mended')
    <3> SUFFICES ASSUME file'.enabled
                 PROVE  /\ HostsIn(finder.targets) \subseteq HostsIn(Constructed(file').targets)
                        /\ mended' \/ HostsIn(finder.targets) = HostsIn(Constructed(file').targets)
      BY <2>1 DEF SameAs
    <3>1. HostsIn(Configured(Constructed(m), fields[p]).targets) = HostsIn(Constructed(m).targets)
      BY <2>1, ConstructedType, ConfiguredHosts
    <3>2. /\ Configured(Constructed(m), fields[p]).targets \subseteq Constructed(file').targets
          /\ Mends(m) \/ Constructed(file').targets = Configured(Constructed(m), fields[p]).targets
      BY <2>1, <2>2 DEF Extends
    <3>3. HostsIn(Configured(Constructed(m), fields[p]).targets) \subseteq HostsIn(Constructed(file').targets)
      BY <3>2 DEF HostsIn
    <3>4. /\ HostsIn(finder.targets) \subseteq HostsIn(Constructed(m).targets)
          /\ mended \/ HostsIn(finder.targets) = HostsIn(Constructed(m).targets)
      BY <2>1, <2>2 DEF SameAs
    <3>5. CASE mended \/ Mends(m)
      BY <2>1, <3>1, <3>3, <3>4, <3>5
    <3>6. CASE ~mended /\ ~Mends(m)
      BY <3>1, <3>2, <3>4, <3>6
    <3> QED
      BY <3>5, <3>6
  <2>4. ASSUME NEW q \in Pages, pc'[q] = "writing" PROVE pc[q] = "writing" /\ manifest'[q] = manifest[q]
    BY <1>1, <2>4 DEF WriteManifest, WriteUnanswered, WriteFile, Goto, EndOperation, SettingsTypeOK
  <2>5. ASSUME NEW q \in Pages, pc[q] = "writing" PROVE SameAs(manifest[q], finder', mended')
    BY <2>1, <2>5 DEF SameTargets, SameAs
  <2> QED
    BY <2>1, <2>2, <2>3, <2>4, <2>5 DEF SameTargets
<1>2. ASSUME finder' = finder \/ \E s \in Settings : finder' = Configured(finder, s),
             UNCHANGED <<file, mended>>,
             \A q \in Pages : pc'[q] = "writing" =>
               manifest'[q] = file \/ (pc[q] = "writing" /\ manifest'[q] = manifest[q])
      PROVE  SameTargets'
  <2>1. HostsIn(finder'.targets) = HostsIn(finder.targets)
    BY <1>2, ConfiguredHosts DEF SettingsTypeOK
  <2>2. ASSUME NEW m, SameAs(m, finder, mended) PROVE SameAs(m, finder', mended')
    BY <1>2, <2>1, <2>2 DEF SameAs
  <2>3. file \in Manifest
    BY DEF SettingsTypeOK
  <2> QED
    BY <1>2, <2>2, <2>3 DEF SameTargets
<1>3. ASSUME NEW p \in Pages, Configure(p) PROVE SameTargets'
  <2>1. /\ finder' = finder \/ finder' = Configured(finder, fields[p])
        /\ UNCHANGED <<file, mended>> /\ fields[p] \in Settings
        /\ \A q \in Pages : pc'[q] = "writing" => pc[q] = "writing" /\ manifest'[q] = manifest[q]
    BY <1>3 DEF Configure, Execute, Goto, EndOperation, SettingsTypeOK
  <2> QED
    BY <1>2, <2>1
<1>4. ASSUME NEW r \in late, ConfigureLate(r) PROVE SameTargets'
  <2>1. /\ finder' = finder \/ finder' = Configured(finder, r.settings)
        /\ UNCHANGED <<file, pc, manifest, mended>> /\ r.settings \in Settings
    BY <1>4 DEF ConfigureLate, Execute, SettingsTypeOK
  <2> QED
    BY <1>2, <2>1
<1>5. CASE Restart
  BY <1>5 DEF Restart, SameTargets, SameAs
<1>6. ASSUME NEW p \in Pages, ReadManifest(p) PROVE SameTargets'
  <2>1. /\ UNCHANGED <<file, finder, mended>>
        /\ \A q \in Pages : pc'[q] = "writing" =>
             manifest'[q] = file \/ (pc[q] = "writing" /\ manifest'[q] = manifest[q])
    BY <1>6 DEF ReadManifest, Goto, SettingsTypeOK, saveHistory
  <2> QED
    BY <1>2, <2>1
<1>7. ASSUME NEW p \in Pages,
             Load(p) \/ LoadFails(p) \/ Reopen(p) \/ StartSave(p) \/ SaveFails(p)
               \/ ConfigureFails(p) \/ ConfigureTimesOut(p)
      PROVE  SameTargets'
  <2>1. \A q \in Pages : pc'[q] = "writing" => pc[q] = "writing" /\ manifest'[q] = manifest[q]
    BY <1>7 DEF Load, LoadFails, Reopen, StartSave, SaveFails, ConfigureFails, ConfigureTimesOut, Goto,
                EndOperation, SettingsTypeOK
  <2>2. UNCHANGED <<file, finder, mended>>
    BY <1>7 DEF Load, LoadFails, Reopen, StartSave, SaveFails, ConfigureFails, ConfigureTimesOut, saveHistory
  <2> QED
    BY <1>2, <2>1, <2>2
<1>8. ASSUME NEW p \in Pages, NEW s \in Edits, Edit(p, s) PROVE SameTargets'
  BY <1>2, <1>8 DEF Edit, saveHistory
<1>9. CASE UNCHANGED settingsVars
  BY <1>2, <1>9 DEF settingsVars, pageVars, saveHistory
<1> QED
  BY <1>1, <1>3, <1>4, <1>5, <1>6, <1>7, <1>8, <1>9 DEF SettingsNext, SaveSteps

\* Whoever is at a save while another one is undisturbed is that one.
LEMMA OnlyOneSaves ==
  ASSUME Undisturbed, NEW p \in Pages, pc[p] \in Saving, NEW u \in undisturbed
  PROVE  u = p /\ late = {}
BY DEF Undisturbed

LEMMA UndisturbedKept ==
  SettingsInv /\ [SettingsNext]_settingsVars => Undisturbed' /\ Kept'
<1> SUFFICES ASSUME SettingsInv, [SettingsNext]_settingsVars PROVE Undisturbed' /\ Kept'
  OBVIOUS
<1>1. SettingsTypeOK /\ SameTargets /\ Undisturbed /\ Kept
  BY DEF SettingsInv
<1>2. undisturbed \subseteq Pages /\ pc \in [Pages -> Places] /\ DOMAIN manifest = Pages /\ DOMAIN fields = Pages
  BY <1>1 DEF SettingsTypeOK
<1>3. ASSUME NEW p \in Pages, pc[p] \notin Saving, NEW place \in {"loading", "ready"}, Goto(p, place),
             UNCHANGED <<file, finder, late, undisturbed, settled, mended>>,
             \A q \in Pages \ {p} : manifest'[q] = manifest[q] /\ fields'[q] = fields[q]
      PROVE  Undisturbed' /\ Kept'
  BY <1>1, <1>2, <1>3 DEF Undisturbed, Kept, Goto, Saving
<1>4. ASSUME NEW p \in Pages, Load(p) \/ LoadFails(p) \/ Reopen(p)
      PROVE  Undisturbed' /\ Kept'
  <2>1. /\ pc[p] \notin Saving
        /\ Goto(p, "loading") \/ Goto(p, "ready")
        /\ UNCHANGED <<file, finder, late, undisturbed, settled, mended>>
        /\ \A q \in Pages \ {p} : manifest'[q] = manifest[q] /\ fields'[q] = fields[q]
    BY <1>2, <1>4 DEF Load, LoadFails, Reopen, EndOperation, saveHistory, Saving
  <2> QED
    BY <1>3, <2>1
<1>5. ASSUME NEW p \in Pages, NEW s \in Edits, Edit(p, s)
      PROVE  Undisturbed' /\ Kept'
  <2>1. /\ pc[p] = "ready" /\ UNCHANGED <<file, finder, pc, manifest, late, undisturbed, settled, mended>>
        /\ \A q \in Pages \ {p} : fields'[q] = fields[q]
    BY <1>2, <1>5 DEF Edit, saveHistory
  <2> QED
    BY <1>1, <1>2, <2>1 DEF Undisturbed, Kept, Saving
<1>6. ASSUME NEW p \in Pages, StartSave(p) PROVE Undisturbed' /\ Kept'
  <2>1. /\ UNCHANGED <<file, finder, late, settled, mended>> /\ pc' = [pc EXCEPT ![p] = "reading"]
        /\ undisturbed' = IF Alone(p) THEN {p} ELSE {}
    BY <1>6 DEF StartSave, Goto
  <2>2. CASE Alone(p)
    <3>1. undisturbed' = {p} /\ late' = {} /\ pc'[p] = "reading"
            /\ \A q \in Pages \ {p} : pc'[q] \notin Saving
      BY <1>2, <2>1, <2>2 DEF Alone
    <3> QED
      BY <1>1, <2>1, <3>1 DEF Undisturbed, Kept
  <2>3. CASE ~Alone(p)
    BY <1>1, <2>1, <2>3 DEF Undisturbed, Kept
  <2> QED
    BY <2>2, <2>3
<1>7. ASSUME NEW p \in Pages, ReadManifest(p) PROVE Undisturbed' /\ Kept'
  <2>1. /\ UNCHANGED <<file, finder, late, undisturbed, settled, mended, fields>>
        /\ pc[p] \in Saving /\ pc' = [pc EXCEPT ![p] = "writing"] /\ manifest'[p] = file
    BY <1>2, <1>7 DEF ReadManifest, saveHistory, Goto, Saving
  <2>2. \A u \in undisturbed : u = p /\ late = {}
    BY <1>1, <2>1, OnlyOneSaves
  <2>3. pc'[p] = "writing" /\ \A q \in Pages \ {p} : pc'[q] = pc[q]
    BY <1>2, <2>1
  <2> QED
    BY <1>1, <2>1, <2>2, <2>3 DEF Undisturbed, Kept
<1>8. ASSUME NEW p \in Pages, WriteManifest(p) \/ WriteUnanswered(p)
      PROVE  Undisturbed' /\ Kept'
  <2>1. /\ pc[p] = "writing" /\ file' = Persisted(manifest[p], fields[p]) /\ ~settled'
        /\ mended' = (mended \/ Mends(manifest[p]))
        /\ UNCHANGED <<finder, fields, late, undisturbed>>
        /\ pc'[p] \in {"ready", "configuring"} /\ \A q \in Pages \ {p} : pc'[q] = pc[q]
    BY <1>2, <1>8 DEF WriteManifest, WriteUnanswered, WriteFile, Goto, EndOperation
  <2>2. \A u \in undisturbed : u = p /\ late = {}
    BY <1>1, <2>1, OnlyOneSaves DEF Saving
  <2>3. ASSUME p \in undisturbed, file'.enabled
        PROVE  Extends(Constructed(file'), Configured(finder, fields[p]), mended')
    <3> DEFINE made == Configured(Constructed(file), fields[p])
               sent == Configured(finder, fields[p])
    <3>1. manifest[p] = file /\ file \in Manifest /\ finder \in Finder /\ fields[p] \in Settings
      BY <1>1, <2>1, <2>3 DEF Undisturbed, SettingsTypeOK
    <3>2. file.enabled /\ Extends(Constructed(file'), made, Mends(file))
      BY <2>1, <2>3, <3>1, PersistedIsConfigured
    <3>3. /\ HostsIn(finder.targets) \subseteq HostsIn(Constructed(file).targets)
          /\ mended \/ HostsIn(finder.targets) = HostsIn(Constructed(file).targets)
      BY <1>1, <3>2 DEF SameTargets, SameAs
    <3>4. /\ Constructed(file).targets \in SUBSET Target /\ finder.targets \in SUBSET Target
          /\ fields[p].range \in Ranges
      BY <3>1, ConstructedType DEF Finder, Settings
    <3>5. sent.targets \subseteq made.targets
      BY <3>3, <3>4, RangeForgotten DEF Configured
    <3>6. mended \/ made.targets \subseteq sent.targets
      BY <3>3, <3>4, RangeForgotten DEF Configured
    <3>7. made.sweep = sent.sweep /\ made.parses = sent.parses
      BY DEF Configured
    <3> HIDE DEF made, sent
    <3>8. Extends(Constructed(file'), sent, mended')
      BY <2>1, <3>1, <3>2, <3>5, <3>6, <3>7 DEF Extends
    <3> QED
      BY <3>8 DEF sent
  <2> QED
    BY <1>1, <2>1, <2>2, <2>3 DEF Undisturbed, Kept
<1>9. ASSUME NEW p \in Pages, SaveFails(p) PROVE Undisturbed' /\ Kept'
  <2>1. /\ UNCHANGED <<file, finder, late, undisturbed, settled, mended, fields>>
        /\ pc'[p] = "ready" /\ \A q \in Pages \ {p} : pc'[q] = pc[q] /\ manifest'[q] = manifest[q]
    BY <1>2, <1>9 DEF SaveFails, saveHistory, Goto, EndOperation
  <2> QED
    BY <1>1, <1>2, <2>1 DEF Undisturbed, Kept, Saving
<1>10. ASSUME NEW p \in Pages, Configure(p) PROVE Undisturbed' /\ Kept'
  <2>1. /\ pc[p] = "configuring"
        /\ UNCHANGED <<file, fields, late, undisturbed, mended>>
        /\ settled' => p \in undisturbed /\ finder' = Configured(finder, fields[p])
        /\ pc'[p] = "ready" /\ \A q \in Pages \ {p} : pc'[q] = pc[q]
    BY <1>2, <1>10 DEF Configure, Execute, Goto, EndOperation
  <2>2. \A u \in undisturbed : u = p /\ late = {}
    BY <1>1, <2>1, OnlyOneSaves DEF Saving
  <2>3. settled' /\ file.enabled => Extends(Constructed(file), finder', mended)
    BY <1>1, <2>1 DEF Undisturbed
  <2>4. Kept'
    BY <2>1, <2>3 DEF Kept
  <2>5. \A u \in undisturbed' : u = p /\ late' = {} /\ \A q \in Pages \ {p} : pc'[q] \notin Saving
    BY <1>1, <2>1, <2>2 DEF Undisturbed
  <2>6. Undisturbed'
    BY <2>1, <2>5 DEF Undisturbed, Saving
  <2> QED
    BY <2>4, <2>6
<1>11. ASSUME NEW p \in Pages, ConfigureTimesOut(p) PROVE Undisturbed' /\ Kept'
  <2>1. /\ pc[p] = "configuring" /\ late' = late \cup {[page |-> p, settings |-> fields[p]]}
        /\ UNCHANGED <<file, finder, fields, undisturbed, settled, mended>>
        /\ pc'[p] = "ready" /\ \A q \in Pages \ {p} : pc'[q] = pc[q]
    BY <1>2, <1>11 DEF ConfigureTimesOut, saveHistory, Goto, EndOperation
  <2>2. \A u \in undisturbed : u = p /\ late = {}
    BY <1>1, <2>1, OnlyOneSaves DEF Saving
  <2>3. p \in undisturbed /\ file.enabled =>
          Extends(Constructed(file), Configured(finder, fields[p]), mended)
    BY <1>1, <2>1 DEF Undisturbed
  <2> QED
    BY <1>1, <2>1, <2>2, <2>3 DEF Undisturbed, Kept, Saving
<1>12. ASSUME NEW r \in late, ConfigureLate(r) PROVE Undisturbed' /\ Kept'
  <2>1. /\ late' = late \ {r}
        /\ UNCHANGED <<file, pc, fields, manifest, undisturbed, mended>>
        /\ settled' => r.page \in undisturbed /\ finder' = Configured(finder, r.settings)
    BY <1>12 DEF ConfigureLate, Execute
  <2>2. ASSUME NEW u \in undisturbed
        PROVE  /\ late' = {} /\ pc[u] \notin Saving
               /\ settled' /\ file.enabled => Extends(Constructed(file), finder', mended)
    BY <1>1, <2>1 DEF Undisturbed
  <2> QED
    BY <1>1, <2>1, <2>2 DEF Undisturbed, Kept, Saving
<1>13. CASE Restart
  BY <1>13 DEF Restart, Undisturbed, Kept, Extends
<1>15. ASSUME NEW p \in Pages, ConfigureFails(p) PROVE Undisturbed' /\ Kept'
  <2>1. /\ UNCHANGED <<file, finder, late, settled, mended, fields>> /\ undisturbed' = undisturbed \ {p}
        /\ pc'[p] = "ready" /\ \A q \in Pages \ {p} : pc'[q] = pc[q] /\ manifest'[q] = manifest[q]
    BY <1>2, <1>15 DEF ConfigureFails, Goto, EndOperation
  <2> QED
    BY <1>1, <1>2, <2>1 DEF Undisturbed, Kept, Saving
<1>14. CASE UNCHANGED settingsVars
  BY <1>1, <1>14 DEF settingsVars, pageVars, saveHistory, Undisturbed, Kept
<1> QED
  BY <1>4, <1>5, <1>6, <1>7, <1>8, <1>9, <1>10, <1>11, <1>12, <1>13, <1>14, <1>15 DEF SettingsNext, SaveSteps

LEMMA SettingsKept == SettingsInv /\ [SettingsNext]_settingsVars => SettingsInv'
BY TypeKept, SentKept, SameTargetsKept, UndisturbedKept DEF SettingsInv

LEMMA AlwaysSettingsInv == SettingsSpec => []SettingsInv
BY InitSettings, SettingsKept, PTL DEF SettingsSpec

\* Type correctness, for any pages, ranges and plugin.json; in particular a save
\* never writes what the constructor could not read.
THEOREM TypesCorrect == SettingsSpec => []SettingsTypeOK
<1>1. SettingsInv => SettingsTypeOK
  BY DEF SettingsInv
<1> QED
  BY <1>1, AlwaysSettingsInv, PTL

\* However saves of several pages overlap, fail, time out and are cut short by
\* restarts, the finder is given nothing that was not saved.
THEOREM RunningWasSaved == SettingsSpec => RunningSettingsWereSaved
<1> DEFINE A == finder' = finder \/ finder' = Constructed(file)
                  \/ \E s \in written : finder' = Configured(finder, s)
<1>1. SettingsInv /\ [SettingsNext]_settingsVars => [A]_settingsVars
  <2> SUFFICES ASSUME SettingsInv, SettingsNext PROVE A
    BY DEF settingsVars
  <2>1. SentIsWritten
    BY DEF SettingsInv
  <2>2. ASSUME NEW p \in Pages, Configure(p) PROVE A
    BY <2>1, <2>2 DEF Configure, Execute, SentIsWritten
  <2>3. ASSUME NEW r \in late, ConfigureLate(r) PROVE A
    BY <2>1, <2>3 DEF ConfigureLate, Execute, SentIsWritten
  <2>4. CASE Restart
    BY <2>4 DEF Restart
  <2>5. ASSUME NEW p \in Pages,
               Load(p) \/ LoadFails(p) \/ Reopen(p) \/ StartSave(p) \/ ReadManifest(p) \/ WriteManifest(p)
                 \/ WriteUnanswered(p) \/ SaveFails(p) \/ ConfigureFails(p) \/ ConfigureTimesOut(p)
                 \/ (\E s \in Edits : Edit(p, s))
        PROVE  A
    BY <2>5 DEF Load, LoadFails, Reopen, StartSave, ReadManifest, WriteManifest, WriteUnanswered, WriteFile,
                SaveFails, ConfigureFails, ConfigureTimesOut, Edit
  <2> QED
    BY <2>2, <2>3, <2>4, <2>5 DEF SettingsNext, SaveSteps
<1> QED
  BY <1>1, AlwaysSettingsInv, PTL DEF SettingsSpec, RunningSettingsWereSaved

\* After a save that no other one overlapped and that the finder accepted a restart
\* constructs the finder that is running, while discovery is enabled, and besides
\* it only targets of entries that a save has mended since the start.
THEOREM EnabledSettingsKept == SettingsSpec => []RestartKeepsEnabledSettings
<1>1. SettingsInv => RestartKeepsEnabledSettings
  BY DEF SettingsInv, Kept, Extends, RestartKeepsEnabledSettings, RestartChangesNothing
<1> QED
  BY <1>1, AlwaysSettingsInv, PTL
=============================================================================
