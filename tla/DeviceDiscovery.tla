--------------------------- MODULE DeviceDiscovery ---------------------------
(***************************************************************************)
(* The device finder, engine/src/modbus_device_discovery.cpp: a loop that  *)
(* sweeps the network for open Modbus ports, scans the registers of one    *)
(* unit of one target per pass, and asks the operator, through the         *)
(* interface's request broker, to configure what answered.                 *)
(*                                                                         *)
(* tick() holds mutex_ from its first to its last step, so a settings      *)
(* request (configureAddressRange) falls between two passes; the module    *)
(* registry and the broker are other components and change at any step.    *)
(*                                                                         *)
(* targets_ is configured \o discovered: the constructor appends the       *)
(* configured targets, addNetworkTarget() the discovered ones behind them. *)
(***************************************************************************)
EXTENDS Naturals, Sequences, FiniteSets

CONSTANTS
  Endpoints,         \* host and port
  UnitIds,           \* Modbus unit identifiers
  AnyUnit,           \* what stands for the unit where it does not matter
  Ranges,            \* address ranges a request may set
  DefaultRange,      \* the range of a Target{}
  NoRange,           \* no range has been set yet
  ConfiguredTargets, \* device_discovery.targets as they may be, the valid ones
  InitialScan,       \* device_discovery.network_scan
  NetworkScans,      \* the network_scan objects a request may hold
  HostsPerTick,      \* network_scan_.hosts_per_tick
  Devices,           \* the endpoints at which a Modbus server answers
  Modules            \* the modules that may be configured: endpoint and unit

\* A network scan, with the subnets reduced to the endpoints they hold.
NetworkScan == [enabled : BOOLEAN, candidates : SUBSET Endpoints, units : Seq(UnitIds) \ {<<>>}]
AllRanges == Ranges \cup {DefaultRange}
Target == [endpoint : Endpoints, units : Seq(UnitIds) \ {<<>>}, scanAll : BOOLEAN, range : AllRanges]

ASSUME TargetsAssumption == ConfiguredTargets \subseteq Seq(Target)
ASSUME ScansAssumption == InitialScan \in NetworkScan /\ NetworkScans \subseteq NetworkScan
ASSUME RangesAssumption == NoRange \notin AllRanges
ASSUME DevicesAssumption == Devices \subseteq Endpoints
ASSUME HostsAssumption == HostsPerTick \in Nat \ {0}

VARIABLES
  configured,   \* the configured part of targets_
  discovered,   \* the part of targets_ that is network_discovered
  targetIndex,  \* target_index_, from 0
  unitIndex,    \* unit_index_, from 0
  announced,    \* announced_ids_
  requests,     \* the keys of request_ids_
  networkScan,  \* network_scan_
  waiting,      \* the endpoints of network_probe_queue_ from network_probe_index_ on
  rescanDue,    \* next_network_scan_ is unset or has passed
  pc,           \* where tick() is
  probed,       \* the local `processed` of probeNetworkEndpoints()
  modules,      \* the module instances of this plugin: endpoint and unit
  prompts,      \* the requests pending at the broker, by their request_key
  current,      \* those raised since the last reconfiguration (history)
  acceptedRange \* the range configureAddressRange() accepted last (history)

targetVars == <<configured, discovered, targetIndex, unitIndex>>
promptVars == <<announced, requests, prompts, current>>
sweepVars == <<networkScan, waiting, rescanDue, probed>>
vars == <<targetVars, promptVars, sweepVars, pc, modules, acceptedRange>>

Places == {"idle", "probing", "scanning"}
DiscoveryIds == Endpoints \X (UnitIds \cup {AnyUnit})
targets == configured \o discovered

TypeOK ==
  /\ configured \in Seq(Target)
  /\ discovered \in Seq(Target)
  /\ targetIndex \in Nat
  /\ unitIndex \in Nat
  /\ announced \subseteq DiscoveryIds
  /\ requests \subseteq DiscoveryIds
  /\ networkScan \in NetworkScan
  /\ waiting \subseteq Endpoints
  /\ rescanDue \in BOOLEAN
  /\ pc \in Places
  /\ probed \in 0..HostsPerTick
  /\ modules \subseteq Modules
  /\ prompts \subseteq DiscoveryIds
  /\ current \subseteq DiscoveryIds
  /\ acceptedRange \in AllRanges \cup {NoRange}

\* The constructor.
Init ==
  /\ configured \in ConfiguredTargets
  /\ discovered = <<>>
  /\ targetIndex = 0
  /\ unitIndex = 0
  /\ announced = {}
  /\ requests = {}
  /\ networkScan = InitialScan
  /\ waiting = {}
  /\ rescanDue = TRUE
  /\ pc = "idle"
  /\ probed = 0
  /\ modules \in SUBSET Modules
  /\ prompts = {}
  /\ current = {}
  /\ acceptedRange = NoRange

-----------------------------------------------------------------------------
CurrentTarget == targets[targetIndex + 1]
CurrentUnit == CurrentTarget.units[unitIndex + 1]

\* Without scan_all_unit_ids an endpoint is one device, whatever its units.
DiscoveryId(t, u) == <<t.endpoint, IF t.scanAll THEN u ELSE AnyUnit>>

HasConfiguredModule(t, u) ==
  \E m \in modules : m[1] = t.endpoint /\ (t.scanAll => m[2] = u)

\* Bug: the queue holds endpoints that are targets already.
ProbesKnownEndpoints == networkScan.candidates

\* The endpoints of the subnets that are no targets yet.
FreshEndpoints == networkScan.candidates \ {targets[i].endpoint : i \in DOMAIN targets}

\* Bug: a discovered target does not copy the settings of the first one.
IgnoresFirstTarget(e) ==
  [endpoint |-> e, units |-> networkScan.units, scanAll |-> FALSE, range |-> DefaultRange]

\* addNetworkTarget: settings come from the first target, if there is one.
NetworkTarget(e) ==
  [endpoint |-> e,
   units    |-> networkScan.units,
   scanAll  |-> targets # <<>> /\ targets[1].scanAll,
   range    |-> IF targets = <<>> THEN DefaultRange ELSE targets[1].range]

AddNetworkTarget(e) ==
  IF \E i \in DOMAIN targets : targets[i].endpoint = e
    THEN discovered
    ELSE Append(discovered, NetworkTarget(e))

\* Bug: an announcement is dropped when the broker fails to answer about it.
ForgetsOnFailure(answering) ==
  {id \in announced : id \notin requests \/ id \notin answering \/ id \notin prompts}

\* The announcements the broker reports as no longer pending, among those it
\* has an answer for, and those without a request.
Finished(answering) ==
  {id \in announced : id \notin requests \/ (id \in answering /\ id \notin prompts)}

\* The end of a pass: the next unit, and after the last one the next target.
Advance ==
  LET next == (unitIndex + 1) % Len(CurrentTarget.units)
  IN  /\ unitIndex' = next
      /\ targetIndex' = IF next = 0 THEN (targetIndex + 1) % Len(targets) ELSE targetIndex
      /\ pc' = "idle"
      /\ UNCHANGED <<configured, discovered>>

-----------------------------------------------------------------------------
\* tick() begins: reconcileAnnouncements(), for which the broker answers about
\* the requests `answering` and fails for the others, then the beginning of
\* probeNetworkEndpoints() with refreshNetworkProbeQueue().
BeginTick(answering) ==
  LET refresh == networkScan.enabled /\ waiting = {} /\ rescanDue
  IN  /\ pc = "idle"
      /\ announced' = announced \ Finished(answering)
      /\ requests' = requests \ Finished(answering)
      /\ waiting' = IF refresh THEN FreshEndpoints ELSE waiting
      /\ rescanDue' = (rescanDue /\ ~refresh)
      /\ probed' = 0
      /\ pc' = "probing"
      /\ UNCHANGED <<targetVars, networkScan, modules, prompts, current, acceptedRange>>

MoreToProbe == networkScan.enabled /\ waiting # {} /\ probed < HostsPerTick

\* One round of the loop in probeNetworkEndpoints().
ProbeNext(e) ==
  /\ pc = "probing" /\ MoreToProbe
  /\ waiting' = waiting \ {e}
  /\ probed' = probed + 1
  /\ UNCHANGED <<configured, targetIndex, unitIndex, promptVars, networkScan, rescanDue, pc,
                 modules, acceptedRange>>

PortOpen(e) == e \in waiting /\ ProbeNext(e) /\ discovered' = AddNetworkTarget(e)
PortClosed(e) == e \in waiting /\ ProbeNext(e) /\ UNCHANGED discovered

\* The probes of this pass are done.
NothingToScan ==
  /\ pc = "probing" /\ ~MoreToProbe
  /\ targets = <<>>
  /\ pc' = "idle"
  /\ UNCHANGED <<targetVars, promptVars, sweepVars, modules, acceptedRange>>

SkipTarget ==
  /\ pc = "probing" /\ ~MoreToProbe
  /\ targets # <<>>
  /\ \/ HasConfiguredModule(CurrentTarget, CurrentUnit)
     \/ DiscoveryId(CurrentTarget, CurrentUnit) \in announced
  /\ Advance
  /\ UNCHANGED <<promptVars, sweepVars, modules, acceptedRange>>

StartScan ==
  /\ pc = "probing" /\ ~MoreToProbe
  /\ targets # <<>>
  /\ ~HasConfiguredModule(CurrentTarget, CurrentUnit)
  /\ DiscoveryId(CurrentTarget, CurrentUnit) \notin announced
  /\ pc' = "scanning"
  /\ UNCHANGED <<targetVars, promptVars, sweepVars, modules, acceptedRange>>

\* Bug: a target that does not answer is tried again in the next pass.
StaysOnFailure ==
  /\ pc = "scanning"
  /\ pc' = "idle"
  /\ UNCHANGED <<targetVars, promptVars, sweepVars, modules, acceptedRange>>

\* scanModbusRegisters() throws, or requestInterfaceUi() does, or it returns no
\* request id: nothing is recorded.
ScanFails ==
  /\ pc = "scanning"
  /\ Advance
  /\ UNCHANGED <<promptVars, sweepVars, modules, acceptedRange>>

\* announce(): the broker opens, or opens again, the request with this key.
Announce(id) ==
  /\ pc = "scanning"
  /\ id = DiscoveryId(CurrentTarget, CurrentUnit)
  /\ announced' = announced \cup {id}
  /\ requests' = requests \cup {id}
  /\ prompts' = prompts \cup {id}
  /\ current' = current \cup {id}
  /\ Advance
  /\ UNCHANGED <<sweepVars, modules, acceptedRange>>

-----------------------------------------------------------------------------
SetRange(ts, r) == [i \in DOMAIN ts |-> [ts[i] EXCEPT !.range = r]]

ForgetAnnouncements == announced' = {} /\ requests' = {} /\ current' = {}

\* configureAddressRange() without a network_scan object.
ConfigureRange(r) ==
  /\ pc = "idle"
  /\ configured' = SetRange(configured, r)
  /\ discovered' = SetRange(discovered, r)
  /\ ForgetAnnouncements
  /\ acceptedRange' = r
  /\ UNCHANGED <<targetIndex, unitIndex, sweepVars, pc, modules, prompts>>

\* Bug: the pass goes on where it was, in a vector that has become shorter.
KeepsIndices(r, scan) ==
  /\ pc = "idle"
  /\ configured' = SetRange(configured, r)
  /\ discovered' = <<>>
  /\ UNCHANGED <<targetIndex, unitIndex>>
  /\ networkScan' = scan
  /\ waiting' = {}
  /\ rescanDue' = TRUE
  /\ ForgetAnnouncements
  /\ acceptedRange' = r
  /\ UNCHANGED <<probed, pc, modules, prompts>>

\* configureAddressRange() with a valid one: the sweep starts over.
ConfigureScan(r, scan) ==
  /\ pc = "idle"
  /\ configured' = SetRange(configured, r)
  /\ discovered' = <<>>
  /\ targetIndex' = 0
  /\ unitIndex' = 0
  /\ networkScan' = scan
  /\ waiting' = {}
  /\ rescanDue' = TRUE
  /\ ForgetAnnouncements
  /\ acceptedRange' = r
  /\ UNCHANGED <<probed, pc, modules, prompts>>

\* rescan_interval_seconds have passed.
RescanFallsDue ==
  /\ ~rescanDue
  /\ rescanDue' = TRUE
  /\ UNCHANGED <<targetVars, promptVars, networkScan, waiting, probed, pc, modules, acceptedRange>>

\* The operator accepts or dismisses a prompt.
PromptCloses(id) ==
  /\ id \in prompts
  /\ prompts' = prompts \ {id}
  /\ current' = current \ {id}
  /\ UNCHANGED <<targetVars, announced, requests, sweepVars, pc, modules, acceptedRange>>

\* A module instance is created or removed.
ModuleChanges(m) ==
  /\ modules' = IF m \in modules THEN modules \ {m} ELSE modules \cup {m}
  /\ UNCHANGED <<targetVars, promptVars, sweepVars, pc, acceptedRange>>

Reconfigure ==
  \E r \in Ranges : ConfigureRange(r) \/ \E scan \in NetworkScans : ConfigureScan(r, scan)

Tick ==
  \/ \E answering \in SUBSET announced : BeginTick(answering)
  \/ \E e \in Endpoints : PortOpen(e) \/ PortClosed(e)
  \/ NothingToScan
  \/ SkipTarget
  \/ StartScan
  \/ ScanFails
  \/ \E id \in DiscoveryIds : Announce(id)

Next ==
  \/ Tick
  \/ Reconfigure
  \/ RescanFallsDue
  \/ \E id \in DiscoveryIds : PromptCloses(id)
  \/ \E m \in Modules : ModuleChanges(m)

Spec == Init /\ [][Next]_vars

(***************************************************************************)
(* The engine calls tick() again and again and every call in it returns;   *)
(* the clock runs.  For the promises about a device: it is given infinitely*)
(* many chances, so its port is found open and its registers scanned and   *)
(* announced in the end, and the broker answers about the announcements    *)
(* now and then.  Of the endpoints that are no devices nothing is assumed. *)
(***************************************************************************)
FairSpec ==
  /\ Spec
  /\ WF_vars(Tick)
  /\ WF_vars(RescanFallsDue)
  /\ SF_vars(BeginTick(announced))
  /\ \A e \in Devices : SF_vars(PortOpen(e))
  /\ \A id \in DiscoveryIds : id[1] \in Devices => SF_vars(Announce(id))

-----------------------------------------------------------------------------
\* The target and the unit the next pass looks at exist: whatever settings
\* arrived and whatever the sweep found, targets_[target_index_] and
\* unit_ids[unit_index_] (lines 472 and 473) are inside their vectors.
IndicesInRange ==
  IF targets = <<>>
    THEN targetIndex = 0 /\ unitIndex = 0
    ELSE targetIndex < Len(targets) /\ unitIndex < Len(CurrentTarget.units)

\* A prompt the operator has not answered stays announced, whatever the broker
\* says about it in between, so that no second prompt is raised for the device:
\* the reason reconcileAnnouncements() gives for keeping an announcement when
\* the broker fails (line 444).
PendingStaysAnnounced == current \subseteq announced

\* Every announcement can be asked about: announced_ids_ and request_ids_ hold
\* the same devices (the branch at line 428 has nothing to do).
AnnouncementsHaveRequests == announced = requests

\* An endpoint the sweep found is one target, and is not probed again while it
\* is one (lines 348 and 382).
EndpointsOnce ==
  /\ \A i, j \in DOMAIN discovered : discovered[i].endpoint = discovered[j].endpoint => i = j
  /\ \A i \in DOMAIN configured, j \in DOMAIN discovered :
       configured[i].endpoint # discovered[j].endpoint
  /\ \A i \in DOMAIN targets : targets[i].endpoint \notin waiting

\* "Discovery settings updated. The next device finder pass will rescan them."
\* (line 630): once a range was set, every target is scanned over it, those the
\* sweep adds later included, which copy the range of the first target (line
\* 388).
RangeInForce ==
  acceptedRange # NoRange => \A i \in DOMAIN targets : targets[i].range = acceptedRange

\* That much is true where there is a configured target, which no settings take
\* away: the first target is there to be copied from (lines 387 and 608).
ConfiguredRangeInForce == configured # <<>> => RangeInForce

-----------------------------------------------------------------------------
\* A device is wanted while it is a target or in the subnets being swept and no
\* module is configured for its endpoint.
Wanted(e) ==
  /\ \/ \E i \in DOMAIN targets : targets[i].endpoint = e
     \/ networkScan.enabled /\ e \in networkScan.candidates
  /\ \A m \in modules : m[1] # e

Prompted(e) == \E id \in prompts : id[1] = e

\* A device that answers and that nobody configures is prompted for again and
\* again, however often the operator dismisses the prompt and however many other
\* targets do not answer ("A terminal UI request is not proof that the endpoint
\* is configured", line 439), as long as the settings are left alone.
DevicesArePrompted ==
  \A e \in Devices :
    (<>[]Wanted(e) /\ <>[][~Reconfigure]_vars) => []<>Prompted(e)
=============================================================================
