----------------------- MODULE DeviceDiscovery_proofs -----------------------
(***************************************************************************)
(* Proofs about the device finder, for any endpoints, targets and scans.   *)
(***************************************************************************)
EXTENDS DeviceDiscovery, TLAPS

ScanNeedsTarget == pc = "scanning" => targets # <<>>

\* Every announcement has a request, and a prompt raised under the present
\* settings is announced as long as it is open.
TrackingInv ==
  /\ AnnouncementsHaveRequests
  /\ PendingStaysAnnounced
  /\ current \subseteq prompts

\* There is a first target to copy from, and it has the range.
InRange(ts, r) == \A i \in DOMAIN ts : ts[i].range = r

RangeInv ==
  /\ configured # <<>>
  /\ acceptedRange # NoRange => InRange(configured, acceptedRange) /\ InRange(discovered, acceptedRange)

\* The inductive invariant for the indices.
IndexInv == TypeOK /\ ScanNeedsTarget /\ IndicesInRange

-----------------------------------------------------------------------------
LEMMA TargetsTyped ==
  ASSUME TypeOK
  PROVE  /\ targets \in Seq(Target)
         /\ Len(targets) = Len(configured) + Len(discovered)
         /\ Len(targets) \in Nat
         /\ targets # <<>> <=> Len(targets) # 0
         /\ \A i \in DOMAIN targets :
              /\ targets[i] \in Target
              /\ targets[i] = IF i <= Len(configured) THEN configured[i]
                                                      ELSE discovered[i - Len(configured)]
BY DEF TypeOK, targets

LEMMA NetworkTargetTyped ==
  ASSUME TypeOK, NEW e \in Endpoints
  PROVE  NetworkTarget(e) \in Target
<1>1. networkScan.units \in Seq(UnitIds) \ {<<>>}
  BY DEF TypeOK, NetworkScan
<1>2. (targets # <<>> /\ targets[1].scanAll) \in BOOLEAN
  OBVIOUS
<1>3. (IF targets = <<>> THEN DefaultRange ELSE targets[1].range) \in AllRanges
  <2>1. CASE targets = <<>>
    BY <2>1 DEF AllRanges
  <2>2. CASE targets # <<>>
    <3>1. 1 \in DOMAIN targets
      BY <2>2, TargetsTyped
    <3>2. targets[1] \in Target
      BY <3>1, TargetsTyped
    <3> QED
      BY <2>2, <3>2 DEF Target
  <2> QED
    BY <2>1, <2>2
<1> QED
  BY <1>1, <1>2, <1>3 DEF NetworkTarget, Target

LEMMA AddingTyped ==
  ASSUME TypeOK, NEW e \in Endpoints
  PROVE  AddNetworkTarget(e) \in Seq(Target)
<1>1. discovered \in Seq(Target)
  BY DEF TypeOK
<1>2. Append(discovered, NetworkTarget(e)) \in Seq(Target)
  BY <1>1, NetworkTargetTyped
<1> QED
  BY <1>1, <1>2 DEF AddNetworkTarget

LEMMA SetRangeTyped ==
  ASSUME NEW ts \in Seq(Target), NEW r \in AllRanges
  PROVE  /\ SetRange(ts, r) \in Seq(Target)
         /\ Len(SetRange(ts, r)) = Len(ts)
         /\ \A i \in DOMAIN ts : /\ SetRange(ts, r)[i].units = ts[i].units
                                 /\ SetRange(ts, r)[i].endpoint = ts[i].endpoint
                                 /\ SetRange(ts, r)[i].range = r
<1>1. \A i \in DOMAIN ts : ts[i] \in Target
  OBVIOUS
<1>2. \A i \in DOMAIN ts : /\ [ts[i] EXCEPT !.range = r] \in Target
                           /\ [ts[i] EXCEPT !.range = r].units = ts[i].units
                           /\ [ts[i] EXCEPT !.range = r].endpoint = ts[i].endpoint
                           /\ [ts[i] EXCEPT !.range = r].range = r
  BY <1>1 DEF Target
<1>3. DOMAIN ts = 1..Len(ts) /\ Len(ts) \in Nat
  OBVIOUS
<1> DEFINE new == [i \in 1..Len(ts) |-> [ts[i] EXCEPT !.range = r]]
<1>4. SetRange(ts, r) = new
  BY <1>3 DEF SetRange
<1>5. new \in [1..Len(ts) -> Target]
  BY <1>2, <1>3
<1>6. new \in Seq(Target)
  BY <1>3, <1>5
<1>7. Len(new) = Len(ts)
  BY <1>3, <1>5
<1>8. \A i \in DOMAIN ts : new[i] = [ts[i] EXCEPT !.range = r]
  BY <1>3
<1> HIDE DEF new
<1> QED
  BY <1>2, <1>4, <1>6, <1>7, <1>8

LEMMA Remainder ==
  ASSUME NEW a \in Nat, NEW n \in Nat \ {0}
  PROVE  a % n \in Nat /\ a % n < n
OBVIOUS

LEMMA IndexInDomain ==
  ASSUME NEW i \in Nat, NEW n \in Nat, i < n
  PROVE  i + 1 \in 1..n
OBVIOUS

\* The pass stays inside the vectors it walks through.
LEMMA AdvanceStaysInRange ==
  ASSUME TypeOK, IndicesInRange, targets # <<>>, Advance
  PROVE  /\ targetIndex' \in Nat /\ unitIndex' \in Nat
         /\ IndicesInRange'
         /\ targets' = targets
<1> DEFINE next == (unitIndex + 1) % Len(CurrentTarget.units)
<1>1. targets' = targets
  BY DEF Advance, targets
<1>2. CurrentTarget \in Target /\ targetIndex \in Nat /\ unitIndex \in Nat
  BY TargetsTyped DEF CurrentTarget, IndicesInRange, TypeOK
<1>3. Len(CurrentTarget.units) \in Nat \ {0}
  <2>1. CurrentTarget.units \in Seq(UnitIds) \ {<<>>}
    BY <1>2 DEF Target
  <2> QED
    BY <2>1
<1>4. next \in Nat /\ next < Len(CurrentTarget.units)
  <2>1. unitIndex + 1 \in Nat
    BY <1>2
  <2> QED
    BY <2>1, <1>3, Remainder
<1>5. Len(targets) \in Nat \ {0}
  BY TargetsTyped
<1>6. CASE next = 0
  <2>1. targetIndex' = (targetIndex + 1) % Len(targets) /\ unitIndex' = 0
    BY <1>6 DEF Advance
  <2>2. targetIndex' \in Nat /\ targetIndex' < Len(targets)
    <3>1. targetIndex + 1 \in Nat
      BY <1>2
    <3> QED
      BY <2>1, <3>1, <1>5, Remainder
  <2>3. targets[targetIndex' + 1] \in Target
    <3>1. targets \in Seq(Target)
      BY TargetsTyped
    <3>2. targetIndex' + 1 \in 1..Len(targets)
      BY <2>2, <1>5, IndexInDomain
    <3> QED
      BY <3>1, <3>2
  <2>4. targets[targetIndex' + 1].units \in Seq(UnitIds) \ {<<>>}
    BY <2>3 DEF Target
  <2>5. 0 < Len(targets[targetIndex' + 1].units)
    BY <2>4
  <2> QED
    BY <1>1, <2>1, <2>2, <2>5 DEF IndicesInRange, CurrentTarget
<1>7. CASE next # 0
  <2>1. targetIndex' = targetIndex /\ unitIndex' = next
    BY <1>7 DEF Advance
  <2>2. CurrentTarget' = CurrentTarget
    BY <2>1, <1>1 DEF CurrentTarget
  <2> QED
    BY <1>1, <1>2, <1>4, <2>1, <2>2 DEF IndicesInRange
<1> QED
  BY <1>6, <1>7

\* What a probe does to the targets: at most one more, at the end.
LEMMA ProbeKeepsIndices ==
  ASSUME IndexInv, NEW e \in Endpoints, PortOpen(e) \/ PortClosed(e)
  PROVE  IndexInv'
<1> USE DEF IndexInv
<1>1. pc' = "probing" /\ pc = "probing" /\ configured' = configured
        /\ targetIndex' = targetIndex /\ unitIndex' = unitIndex
        /\ discovered' \in {discovered, Append(discovered, NetworkTarget(e))}
  BY DEF PortOpen, PortClosed, ProbeNext, AddNetworkTarget
<1>2. TypeOK'
  <2>1. discovered' \in Seq(Target)
    BY <1>1, NetworkTargetTyped DEF TypeOK
  <2>2. waiting' \subseteq Endpoints /\ probed' \in 0..HostsPerTick
    <3>1. probed \in 0..HostsPerTick /\ probed < HostsPerTick /\ probed' = probed + 1
      BY DEF PortOpen, PortClosed, ProbeNext, MoreToProbe, TypeOK
    <3>2. probed' \in 0..HostsPerTick
      BY <3>1, HostsAssumption
    <3> QED
      BY <3>2 DEF PortOpen, PortClosed, ProbeNext, TypeOK
  <2> QED
    BY <1>1, <2>1, <2>2 DEF TypeOK, PortOpen, PortClosed, ProbeNext, promptVars
<1>3. ScanNeedsTarget'
  BY <1>1 DEF ScanNeedsTarget
<1>4. IndicesInRange'
  <2>1. CASE discovered' = discovered
    BY <1>1, <2>1 DEF IndicesInRange, targets, CurrentTarget
  <2>2. CASE discovered' = Append(discovered, NetworkTarget(e))
    <3>1. configured \in Seq(Target) /\ discovered \in Seq(Target) /\ NetworkTarget(e) \in Target
      BY NetworkTargetTyped DEF TypeOK
    <3>2. targets' = Append(targets, NetworkTarget(e))
      BY <1>1, <2>2, <3>1 DEF targets
    <3>3. targets \in Seq(Target) /\ targetIndex \in Nat /\ unitIndex \in Nat
      BY TargetsTyped DEF TypeOK
    <3>4. targets' # <<>> /\ Len(targets') = Len(targets) + 1
      BY <3>1, <3>2, <3>3
    <3>5. CASE targets = <<>>
      <4>1. targetIndex' = 0 /\ unitIndex' = 0
        BY <1>1, <3>5 DEF IndicesInRange
      <4>2. targets'[1] = NetworkTarget(e)
        BY <3>2, <3>3, <3>5
      <4>3. NetworkTarget(e).units \in Seq(UnitIds) \ {<<>>}
        BY <3>1 DEF Target
      <4>4. 0 < Len(NetworkTarget(e).units)
        BY <4>3
      <4>5. CurrentTarget' = NetworkTarget(e)
        BY <4>1, <4>2 DEF CurrentTarget
      <4>6. targetIndex' < Len(targets')
        BY <3>3, <3>4, <4>1
      <4> QED
        BY <3>4, <4>1, <4>4, <4>5, <4>6 DEF IndicesInRange
    <3>6. CASE targets # <<>>
      <4>1. targetIndex < Len(targets) /\ unitIndex < Len(CurrentTarget.units)
        BY <3>6 DEF IndicesInRange
      <4>2. targets'[targetIndex + 1] = targets[targetIndex + 1]
        BY <3>2, <3>3, <4>1
      <4>3. CurrentTarget' = CurrentTarget
        BY <1>1, <4>2 DEF CurrentTarget
      <4>4. targetIndex' < Len(targets')
        BY <1>1, <3>3, <3>4, <4>1
      <4> QED
        BY <1>1, <3>4, <4>1, <4>3, <4>4 DEF IndicesInRange
    <3> QED
      BY <3>5, <3>6
  <2> QED
    BY <1>1, <2>1, <2>2
<1> QED
  BY <1>2, <1>3, <1>4

LEMMA JoinTyped ==
  \A s, t \in Seq(Target) : s \o t \in Seq(Target) /\ Len(s \o t) = Len(s) + Len(t)
OBVIOUS

\* t has the targets of s, perhaps with other ranges.
SameUnits(s, t) == Len(t) = Len(s) /\ \A i \in DOMAIN s : t[i].units = s[i].units

LEMMA JoinedUnits ==
  ASSUME NEW c \in Seq(Target), NEW d \in Seq(Target), NEW cc \in Seq(Target), NEW dd \in Seq(Target),
         SameUnits(c, cc), SameUnits(d, dd)
  PROVE  SameUnits(c \o d, cc \o dd)
<1>0. /\ Len(cc) = Len(c) /\ Len(dd) = Len(d)
      /\ \A i \in DOMAIN c : cc[i].units = c[i].units
      /\ \A i \in DOMAIN d : dd[i].units = d[i].units
  BY DEF SameUnits
<1>1. Len(c) \in Nat /\ Len(d) \in Nat /\ DOMAIN c = 1..Len(c) /\ DOMAIN d = 1..Len(d)
  OBVIOUS
<1>2. c \o d \in Seq(Target) /\ cc \o dd \in Seq(Target)
        /\ Len(c \o d) = Len(c) + Len(d) /\ Len(cc \o dd) = Len(c) + Len(d)
  <2>1. c \o d \in Seq(Target) /\ Len(c \o d) = Len(c) + Len(d)
    BY JoinTyped
  <2>2. cc \o dd \in Seq(Target) /\ Len(cc \o dd) = Len(cc) + Len(dd)
    BY JoinTyped, Zenon
  <2> QED
    BY <2>1, <2>2, <1>0
<1>3. ASSUME NEW i \in DOMAIN (c \o d)
      PROVE  (cc \o dd)[i].units = (c \o d)[i].units
  <2>1. i \in 1..(Len(c) + Len(d))
    BY <1>2
  <2>2. CASE i <= Len(c)
    <3>1. (c \o d)[i] = c[i] /\ (cc \o dd)[i] = cc[i]
      BY <2>1, <2>2, <1>1, <1>0
    <3>2. i \in DOMAIN c
      BY <1>1, <2>1, <2>2
    <3> QED
      BY <3>1, <3>2, <1>0
  <2>3. CASE ~(i <= Len(c))
    <3>1. (c \o d)[i] = d[i - Len(c)] /\ (cc \o dd)[i] = dd[i - Len(c)]
      BY <2>1, <2>3, <1>1, <1>0
    <3>2. i - Len(c) \in DOMAIN d
      BY <1>1, <2>1, <2>3
    <3> QED
      BY <3>1, <3>2, <1>0
  <2> QED
    BY <2>2, <2>3
<1> QED
  BY <1>2, <1>3 DEF SameUnits

\* What new settings do to the targets.
LEMMA ReconfigureKeepsIndices ==
  ASSUME IndexInv, Reconfigure
  PROVE  IndexInv'
<1> USE DEF IndexInv
<1>1. ASSUME NEW r \in Ranges, ConfigureRange(r)
      PROVE  IndexInv'
  <2>1. configured \in Seq(Target) /\ discovered \in Seq(Target) /\ r \in AllRanges
    BY DEF TypeOK, AllRanges
  <2>2. configured' = SetRange(configured, r) /\ discovered' = SetRange(discovered, r)
          /\ targetIndex' = targetIndex /\ unitIndex' = unitIndex /\ pc' = "idle"
    BY <1>1 DEF ConfigureRange
  <2>3. TypeOK'
    <3>1. configured' \in Seq(Target) /\ discovered' \in Seq(Target)
      BY <2>1, <2>2, SetRangeTyped
    <3> QED
      BY <1>1, <2>1, <3>1 DEF TypeOK, ConfigureRange, ForgetAnnouncements, sweepVars, Places
  <2>4. Len(configured') = Len(configured) /\ Len(discovered') = Len(discovered)
    BY <2>1, <2>2, SetRangeTyped
  <2>5. /\ targets \in Seq(Target) /\ targets' \in Seq(Target)
        /\ Len(targets') = Len(targets)
        /\ \A i \in DOMAIN targets : targets'[i].units = targets[i].units
    <3>1. configured' \in Seq(Target) /\ discovered' \in Seq(Target)
      BY <2>3 DEF TypeOK
    <3>2. /\ \A i \in DOMAIN configured : configured'[i].units = configured[i].units
          /\ \A i \in DOMAIN discovered : discovered'[i].units = discovered[i].units
      BY <2>1, <2>2, SetRangeTyped
    <3>3. SameUnits(configured, configured') /\ SameUnits(discovered, discovered')
      BY <2>4, <3>2 DEF SameUnits
    <3>4. SameUnits(configured \o discovered, configured' \o discovered')
      BY <2>1, <3>1, <3>3, JoinedUnits
    <3>5. SameUnits(targets, targets')
      BY <3>4 DEF targets
    <3>6. targets \in Seq(Target) /\ targets' \in Seq(Target)
      BY <2>1, <3>1, JoinTyped DEF targets
    <3> QED
      BY <3>5, <3>6 DEF SameUnits
  <2>6. IndicesInRange'
    <3>1. CASE targets = <<>>
      <4>1. targets' = <<>>
        BY <2>5, <3>1
      <4> QED
        BY <2>2, <3>1, <4>1 DEF IndicesInRange
    <3>2. CASE targets # <<>>
      <4>1. targetIndex < Len(targets) /\ unitIndex < Len(CurrentTarget.units)
        BY <3>2 DEF IndicesInRange
      <4>2. targetIndex + 1 \in DOMAIN targets
        BY <2>5, <4>1 DEF TypeOK
      <4>3. CurrentTarget'.units = CurrentTarget.units
        BY <2>2, <2>5, <4>2 DEF CurrentTarget
      <4>4. targets' # <<>>
        BY <2>5, <3>2
      <4> QED
        BY <2>2, <2>5, <4>1, <4>3, <4>4 DEF IndicesInRange
    <3> QED
      BY <3>1, <3>2
  <2> QED
    BY <2>2, <2>3, <2>6 DEF ScanNeedsTarget
<1>2. ASSUME NEW r \in Ranges, NEW scan \in NetworkScans, ConfigureScan(r, scan)
      PROVE  IndexInv'
  <2>1. configured \in Seq(Target) /\ r \in AllRanges
    BY DEF TypeOK, AllRanges
  <2>2. configured' = SetRange(configured, r) /\ discovered' = <<>>
          /\ targetIndex' = 0 /\ unitIndex' = 0 /\ pc' = "idle"
    BY <1>2 DEF ConfigureScan
  <2>3. configured' \in Seq(Target) /\ discovered' \in Seq(Target)
    BY <2>1, <2>2, SetRangeTyped
  <2>4. TypeOK'
    <3>1. scan \in NetworkScan
      BY ScansAssumption
    <3> QED
      BY <1>2, <2>1, <2>2, <2>3, <3>1 DEF TypeOK, ConfigureScan, ForgetAnnouncements, Places
  <2>5. targets' \in Seq(Target)
    BY <2>3 DEF targets
  <2>6. IndicesInRange'
    <3>1. CASE targets' = <<>>
      BY <2>2, <3>1 DEF IndicesInRange
    <3>2. CASE targets' # <<>>
      <4>1. 0 < Len(targets') /\ targets'[1] \in Target
        BY <2>5, <3>2
      <4>2. targets'[1].units \in Seq(UnitIds) \ {<<>>}
        BY <4>1 DEF Target
      <4>3. 0 < Len(targets'[1].units)
        BY <4>2
      <4>4. CurrentTarget' = targets'[1]
        BY <2>2 DEF CurrentTarget
      <4> QED
        BY <2>2, <3>2, <4>1, <4>3, <4>4 DEF IndicesInRange
    <3> QED
      BY <3>1, <3>2
  <2> QED
    BY <2>2, <2>4, <2>6 DEF ScanNeedsTarget
<1> QED
  BY <1>1, <1>2 DEF Reconfigure

\* The steps of a pass that end it.
LEMMA PassKeepsIndices ==
  ASSUME IndexInv, SkipTarget \/ ScanFails \/ \E id \in DiscoveryIds : Announce(id)
  PROVE  IndexInv'
<1> USE DEF IndexInv
<1>1. targets # <<>> /\ Advance
  BY DEF SkipTarget, ScanFails, Announce, ScanNeedsTarget
<1>2. targetIndex' \in Nat /\ unitIndex' \in Nat /\ IndicesInRange'
  BY <1>1, AdvanceStaysInRange
<1>3. pc' = "idle" /\ configured' = configured /\ discovered' = discovered
  BY <1>1 DEF Advance
<1>4. ScanNeedsTarget'
  BY <1>3 DEF ScanNeedsTarget
<1>5. /\ announced' \subseteq DiscoveryIds /\ requests' \subseteq DiscoveryIds
      /\ prompts' \subseteq DiscoveryIds /\ current' \subseteq DiscoveryIds
  BY DEF SkipTarget, ScanFails, Announce, TypeOK, promptVars
<1>6. UNCHANGED <<sweepVars, modules, acceptedRange>>
  BY DEF SkipTarget, ScanFails, Announce
<1>7. TypeOK'
  BY <1>2, <1>3, <1>5, <1>6 DEF TypeOK, sweepVars, Places
<1> QED
  BY <1>2, <1>4, <1>7

LEMMA InitIndices == Init => IndexInv
<1> SUFFICES ASSUME Init PROVE IndexInv
  OBVIOUS
<1>1. configured \in Seq(Target) /\ discovered \in Seq(Target)
  BY TargetsAssumption DEF Init
<1>2. TypeOK
  BY <1>1, ScansAssumption, HostsAssumption DEF Init, TypeOK, Places
<1>3. targets \in Seq(Target)
  BY <1>2, TargetsTyped
<1>4. IndicesInRange
  <2>1. CASE targets # <<>>
    <3>1. 0 < Len(targets) /\ targets[1] \in Target
      BY <1>3, <2>1
    <3>2. targets[1].units \in Seq(UnitIds) \ {<<>>}
      BY <3>1 DEF Target
    <3>3. 0 < Len(targets[1].units)
      BY <3>2
    <3> QED
      BY <2>1, <3>1, <3>3 DEF Init, IndicesInRange, CurrentTarget
  <2> QED
    BY <2>1 DEF Init, IndicesInRange
<1> QED
  BY <1>2, <1>4 DEF Init, IndexInv, ScanNeedsTarget

\* Every step keeps the invariant.
LEMMA IndicesKept == IndexInv /\ [Next]_vars => IndexInv'
<1> SUFFICES ASSUME IndexInv, [Next]_vars PROVE IndexInv'
  OBVIOUS
<1>1. ASSUME NEW answering \in SUBSET announced, BeginTick(answering)
      PROVE  IndexInv'
  <2>1. UNCHANGED targetVars /\ pc' = "probing"
    BY <1>1 DEF BeginTick
  <2>2. waiting' \subseteq Endpoints
    BY <1>1 DEF BeginTick, FreshEndpoints, IndexInv, TypeOK, NetworkScan
  <2>3. probed' \in 0..HostsPerTick /\ rescanDue' \in BOOLEAN
    <3>1. probed' = 0 /\ rescanDue' \in BOOLEAN
      BY <1>1 DEF BeginTick, IndexInv, TypeOK
    <3> QED
      BY <3>1, HostsAssumption
  <2>4. TypeOK'
    BY <1>1, <2>1, <2>2, <2>3 DEF BeginTick, targetVars, IndexInv, TypeOK, Places
  <2> QED
    BY <2>1, <2>4 DEF IndexInv, ScanNeedsTarget, IndicesInRange, targetVars, targets, CurrentTarget
<1>2. ASSUME NEW e \in Endpoints, PortOpen(e) \/ PortClosed(e)
      PROVE  IndexInv'
  BY <1>2, ProbeKeepsIndices
<1>3. CASE SkipTarget \/ ScanFails \/ \E id \in DiscoveryIds : Announce(id)
  BY <1>3, PassKeepsIndices
<1>4. CASE Reconfigure
  BY <1>4, ReconfigureKeepsIndices
<1>5. CASE NothingToScan \/ StartScan
  <2>1. UNCHANGED <<targetVars, promptVars, sweepVars, modules, acceptedRange>>
          /\ pc' \in Places /\ (pc' = "scanning" => targets # <<>>)
    BY <1>5 DEF NothingToScan, StartScan, Places
  <2> QED
    BY <2>1 DEF targetVars, promptVars, sweepVars, IndexInv, TypeOK, ScanNeedsTarget,
                IndicesInRange, targets, CurrentTarget
<1>6. CASE RescanFallsDue
  BY <1>6 DEF RescanFallsDue, targetVars, promptVars, IndexInv, TypeOK, ScanNeedsTarget,
              IndicesInRange, targets, CurrentTarget
<1>7. ASSUME NEW id \in DiscoveryIds, PromptCloses(id)
      PROVE  IndexInv'
  BY <1>7 DEF PromptCloses, targetVars, sweepVars, IndexInv, TypeOK, ScanNeedsTarget,
              IndicesInRange, targets, CurrentTarget
<1>8. ASSUME NEW m \in Modules, ModuleChanges(m)
      PROVE  IndexInv'
  BY <1>8 DEF ModuleChanges, targetVars, promptVars, sweepVars, IndexInv, TypeOK,
              ScanNeedsTarget, IndicesInRange, targets, CurrentTarget
<1>9. CASE UNCHANGED vars
  BY <1>9 DEF vars, targetVars, promptVars, sweepVars, IndexInv, TypeOK, ScanNeedsTarget,
              IndicesInRange, targets, CurrentTarget
<1> QED
  BY <1>1, <1>2, <1>3, <1>4, <1>5, <1>6, <1>7, <1>8, <1>9 DEF Next, Tick

\* Every variable keeps its type.
THEOREM TypesCorrect == Spec => []TypeOK
<1>1. IndexInv => TypeOK
  BY DEF IndexInv
<1> QED
  BY <1>1, InitIndices, IndicesKept, PTL DEF Spec

\* tick() never reads behind the end of targets_ or of a target's unit_ids,
\* whatever requests and probes came in between.
THEOREM IndicesCorrect == Spec => []IndicesInRange
<1>1. IndexInv => IndicesInRange
  BY DEF IndexInv
<1> QED
  BY <1>1, InitIndices, IndicesKept, PTL DEF Spec
-----------------------------------------------------------------------------
LEMMA TrackingKept == TrackingInv /\ [Next]_vars => TrackingInv'
<1> SUFFICES ASSUME TrackingInv, [Next]_vars PROVE TrackingInv'
  OBVIOUS
<1> USE DEF TrackingInv, AnnouncementsHaveRequests, PendingStaysAnnounced
<1>1. ASSUME NEW answering \in SUBSET announced, BeginTick(answering)
      PROVE  TrackingInv'
  <2>1. UNCHANGED <<prompts, current>>
    BY <1>1 DEF BeginTick
  <2>2. current \cap Finished(answering) = {}
    BY DEF Finished
  <2> QED
    BY <1>1, <2>1, <2>2 DEF BeginTick
<1>2. ASSUME NEW e \in Endpoints, PortOpen(e) \/ PortClosed(e)
      PROVE  TrackingInv'
  BY <1>2 DEF PortOpen, PortClosed, ProbeNext, promptVars
<1>3. CASE NothingToScan \/ SkipTarget \/ StartScan \/ ScanFails
  BY <1>3 DEF NothingToScan, SkipTarget, StartScan, ScanFails, promptVars
<1>4. ASSUME NEW id \in DiscoveryIds, Announce(id)
      PROVE  TrackingInv'
  BY <1>4 DEF Announce
<1>5. CASE Reconfigure
  BY <1>5 DEF Reconfigure, ConfigureRange, ConfigureScan, ForgetAnnouncements
<1>6. ASSUME NEW id \in DiscoveryIds, PromptCloses(id)
      PROVE  TrackingInv'
  BY <1>6 DEF PromptCloses
<1>7. CASE RescanFallsDue \/ (\E m \in Modules : ModuleChanges(m)) \/ UNCHANGED vars
  BY <1>7 DEF RescanFallsDue, ModuleChanges, vars, promptVars
<1> QED
  BY <1>1, <1>2, <1>3, <1>4, <1>5, <1>6, <1>7 DEF Next, Tick

\* No second prompt for a device whose prompt is open: it is still announced.
THEOREM NoSecondPrompt == Spec => []PendingStaysAnnounced
<1>1. Init => TrackingInv
  BY DEF Init, TrackingInv, AnnouncementsHaveRequests, PendingStaysAnnounced
<1>2. TrackingInv => PendingStaysAnnounced
  BY DEF TrackingInv
<1> QED
  BY <1>1, <1>2, TrackingKept, PTL DEF Spec

\* announced_ids_ and request_ids_ never come apart.
THEOREM RequestsMatch == Spec => []AnnouncementsHaveRequests
<1>1. Init => TrackingInv
  BY DEF Init, TrackingInv, AnnouncementsHaveRequests, PendingStaysAnnounced
<1>2. TrackingInv => AnnouncementsHaveRequests
  BY DEF TrackingInv
<1> QED
  BY <1>1, <1>2, TrackingKept, PTL DEF Spec

-----------------------------------------------------------------------------
LEMMA RangeOfTargets ==
  ASSUME TypeOK, RangeInv
  PROVE  /\ RangeInForce
         /\ \A e \in Endpoints :
              acceptedRange # NoRange => NetworkTarget(e).range = acceptedRange
<1>1. ASSUME acceptedRange # NoRange, NEW i \in DOMAIN targets
      PROVE  targets[i].range = acceptedRange
  <2>1. InRange(configured, acceptedRange) /\ InRange(discovered, acceptedRange)
    BY <1>1 DEF RangeInv
  <2>2. configured \in Seq(Target) /\ discovered \in Seq(Target)
    BY DEF TypeOK
  <2>3. i \in 1..(Len(configured) + Len(discovered))
    BY <1>1, TargetsTyped
  <2>4. targets[i] = IF i <= Len(configured) THEN configured[i] ELSE discovered[i - Len(configured)]
    BY <1>1, TargetsTyped
  <2>5. CASE i <= Len(configured)
    <3>1. i \in DOMAIN configured
      BY <2>2, <2>3, <2>5
    <3> QED
      BY <2>1, <2>4, <2>5, <3>1 DEF InRange
  <2>6. CASE ~(i <= Len(configured))
    <3>1. i - Len(configured) \in DOMAIN discovered
      BY <2>2, <2>3, <2>6
    <3> QED
      BY <2>1, <2>4, <2>6, <3>1 DEF InRange
  <2> QED
    BY <2>5, <2>6
<1>2. targets # <<>> /\ 1 \in DOMAIN targets
  <2>1. configured \in Seq(Target) /\ discovered \in Seq(Target) /\ configured # <<>>
    BY DEF TypeOK, RangeInv
  <2>2. Len(configured) \in Nat /\ Len(configured) # 0 /\ Len(discovered) \in Nat
    BY <2>1
  <2>3. Len(targets) = Len(configured) + Len(discovered) /\ targets \in Seq(Target)
    BY TargetsTyped
  <2> QED
    BY <2>2, <2>3
<1> QED
  BY <1>1, <1>2 DEF RangeInForce, NetworkTarget

LEMMA RangeKept == TypeOK /\ RangeInv /\ [Next]_vars => RangeInv'
<1> SUFFICES ASSUME TypeOK, RangeInv, [Next]_vars PROVE RangeInv'
  OBVIOUS
<1>1. ASSUME NEW e \in Endpoints, PortOpen(e)
      PROVE  RangeInv'
  <2>1. configured' = configured /\ acceptedRange' = acceptedRange
          /\ discovered' \in {discovered, Append(discovered, NetworkTarget(e))}
    BY <1>1 DEF PortOpen, ProbeNext, AddNetworkTarget
  <2>2. discovered \in Seq(Target) /\ NetworkTarget(e) \in Target
    BY NetworkTargetTyped DEF TypeOK
  <2>3. ASSUME acceptedRange # NoRange
        PROVE  InRange(Append(discovered, NetworkTarget(e)), acceptedRange)
    <3>1. InRange(discovered, acceptedRange) /\ NetworkTarget(e).range = acceptedRange
      BY <2>3, RangeOfTargets DEF RangeInv
    <3> QED
      BY <2>2, <3>1 DEF InRange
  <2> QED
    BY <2>1, <2>3 DEF RangeInv
<1>2. ASSUME NEW r \in Ranges, ConfigureRange(r) \/ \E scan \in NetworkScans : ConfigureScan(r, scan)
      PROVE  RangeInv'
  <2>1. configured' = SetRange(configured, r) /\ discovered' \in {<<>>, SetRange(discovered, r)}
          /\ acceptedRange' = r
    BY <1>2 DEF ConfigureRange, ConfigureScan
  <2>2. configured \in Seq(Target) /\ discovered \in Seq(Target) /\ configured # <<>> /\ r \in AllRanges
    BY DEF TypeOK, RangeInv, AllRanges
  <2>3. ASSUME NEW ts \in Seq(Target)
        PROVE  /\ InRange(SetRange(ts, r), r)
               /\ ts # <<>> => SetRange(ts, r) # <<>>
    <3>1. SetRange(ts, r) \in Seq(Target) /\ Len(SetRange(ts, r)) = Len(ts)
            /\ \A i \in DOMAIN ts : SetRange(ts, r)[i].range = r
      BY <2>2, SetRangeTyped
    <3>2. DOMAIN SetRange(ts, r) = DOMAIN ts
      BY <3>1
    <3> QED
      BY <3>1, <3>2 DEF InRange
  <2>4. InRange(<<>>, r)
    BY DEF InRange
  <2> QED
    BY <2>1, <2>2, <2>3, <2>4 DEF RangeInv
<1>3. ASSUME NEW answering \in SUBSET announced, BeginTick(answering)
      PROVE  RangeInv'
  BY <1>3 DEF BeginTick, RangeInv, targetVars
<1>4. ASSUME NEW e \in Endpoints, PortClosed(e)
      PROVE  RangeInv'
  BY <1>4 DEF PortClosed, ProbeNext, RangeInv
<1>5. CASE NothingToScan \/ SkipTarget \/ StartScan \/ ScanFails \/ \E id \in DiscoveryIds : Announce(id)
  BY <1>5 DEF NothingToScan, SkipTarget, StartScan, ScanFails, Announce, Advance, targetVars, RangeInv
<1>6. CASE RescanFallsDue \/ (\E id \in DiscoveryIds : PromptCloses(id))
             \/ (\E m \in Modules : ModuleChanges(m)) \/ UNCHANGED vars
  BY <1>6 DEF RescanFallsDue, PromptCloses, ModuleChanges, vars, targetVars, RangeInv
<1> QED
  BY <1>1, <1>2, <1>3, <1>4, <1>5, <1>6 DEF Next, Tick, Reconfigure

\* Settings change the range of configured targets, never their number.
LEMMA NoTargetKept == TypeOK /\ configured = <<>> /\ [Next]_vars => configured' = <<>>
<1> SUFFICES ASSUME TypeOK, configured = <<>>, [Next]_vars PROVE configured' = <<>>
  OBVIOUS
<1>1. ASSUME NEW r \in Ranges, configured' = SetRange(configured, r)
      PROVE  configured' = <<>>
  <2>1. configured \in Seq(Target) /\ r \in AllRanges
    BY DEF TypeOK, AllRanges
  <2>2. configured' \in Seq(Target) /\ Len(configured') = Len(configured)
    BY <1>1, <2>1, SetRangeTyped
  <2> QED
    BY <2>2
<1>2. CASE Reconfigure
  BY <1>1, <1>2 DEF Reconfigure, ConfigureRange, ConfigureScan
<1>3. CASE UNCHANGED configured
  BY <1>3
<1> QED
  BY <1>2, <1>3 DEF Next, Tick, BeginTick, PortOpen, PortClosed, ProbeNext, NothingToScan, SkipTarget,
     StartScan, ScanFails, Announce, Advance, RescanFallsDue, PromptCloses, ModuleChanges, targetVars,
     vars

\* With at least one configured target, the accepted range is the range of every
\* target from then on.  Without one it is not: see the run discovery_range.
THEOREM RangeCorrect == Spec => []ConfiguredRangeInForce
<1>1. Init => configured = <<>> \/ RangeInv
  BY DEF Init, RangeInv
<1>2. TypeOK /\ (configured = <<>> \/ RangeInv) /\ [Next]_vars => (configured = <<>> \/ RangeInv)'
  BY RangeKept, NoTargetKept
<1>3. TypeOK /\ (configured = <<>> \/ RangeInv) => ConfiguredRangeInForce
  BY RangeOfTargets DEF ConfiguredRangeInForce
<1> QED
  BY <1>1, <1>2, <1>3, TypesCorrect, PTL DEF Spec

-----------------------------------------------------------------------------
\* The endpoints of a vector of targets, and when each of them has one target.
Ends(ts) == {ts[i].endpoint : i \in DOMAIN ts}
EachOnce(ts) == \A i, j \in DOMAIN ts : ts[i].endpoint = ts[j].endpoint => i = j

OnceInv ==
  /\ EachOnce(discovered)
  /\ Ends(configured) \cap Ends(discovered) = {}
  /\ waiting \cap (Ends(configured) \cup Ends(discovered)) = {}

LEMMA EndsOfTargets ==
  ASSUME TypeOK
  PROVE  Ends(targets) = Ends(configured) \cup Ends(discovered)
<1>1. configured \in Seq(Target) /\ discovered \in Seq(Target)
  BY DEF TypeOK
<1>2. /\ DOMAIN configured = 1..Len(configured) /\ Len(configured) \in Nat
      /\ DOMAIN discovered = 1..Len(discovered) /\ Len(discovered) \in Nat
      /\ DOMAIN targets = 1..(Len(configured) + Len(discovered))
  BY <1>1, TargetsTyped
<1>3. \A i \in DOMAIN configured : i \in DOMAIN targets /\ targets[i] = configured[i]
  BY <1>2, TargetsTyped
<1>4. ASSUME NEW i \in DOMAIN discovered
      PROVE  i + Len(configured) \in DOMAIN targets /\ targets[i + Len(configured)] = discovered[i]
  <2>1. i + Len(configured) \in DOMAIN targets /\ ~(i + Len(configured) <= Len(configured))
          /\ (i + Len(configured)) - Len(configured) = i
    BY <1>2
  <2> QED
    BY <2>1, TargetsTyped
<1>5. ASSUME NEW i \in DOMAIN targets
      PROVE  targets[i].endpoint \in Ends(configured) \cup Ends(discovered)
  <2>1. CASE i <= Len(configured)
    <3>1. i \in DOMAIN configured /\ targets[i] = configured[i]
      BY <1>2, <2>1, TargetsTyped
    <3> QED
      BY <3>1 DEF Ends
  <2>2. CASE ~(i <= Len(configured))
    <3>1. i - Len(configured) \in DOMAIN discovered
      BY <1>2, <2>2
    <3>2. targets[i] = discovered[i - Len(configured)]
      BY <2>2, TargetsTyped
    <3> QED
      BY <3>1, <3>2 DEF Ends
  <2> QED
    BY <2>1, <2>2
<1>6. Ends(configured) \subseteq Ends(targets)
  BY <1>3 DEF Ends
<1>7. Ends(discovered) \subseteq Ends(targets)
  BY <1>4 DEF Ends
<1>8. Ends(targets) \subseteq Ends(configured) \cup Ends(discovered)
  BY <1>5 DEF Ends
<1> QED
  BY <1>6, <1>7, <1>8

LEMMA OnceMeansOnce == TypeOK /\ OnceInv => EndpointsOnce
<1> SUFFICES ASSUME TypeOK, OnceInv PROVE EndpointsOnce
  OBVIOUS
<1>1. \A i \in DOMAIN configured, j \in DOMAIN discovered :
        configured[i].endpoint # discovered[j].endpoint
  BY DEF OnceInv, Ends
<1>2. \A i \in DOMAIN targets : targets[i].endpoint \notin waiting
  <2>1. \A i \in DOMAIN targets : targets[i].endpoint \in Ends(targets)
    BY DEF Ends
  <2> QED
    BY <2>1, EndsOfTargets DEF OnceInv
<1> QED
  BY <1>1, <1>2 DEF EndpointsOnce, OnceInv, EachOnce

LEMMA SetRangeEnds ==
  ASSUME NEW ts \in Seq(Target), NEW r \in AllRanges
  PROVE  Ends(SetRange(ts, r)) = Ends(ts) /\ (EachOnce(ts) => EachOnce(SetRange(ts, r)))
<1>1. SetRange(ts, r) \in Seq(Target) /\ Len(SetRange(ts, r)) = Len(ts)
        /\ \A i \in DOMAIN ts : SetRange(ts, r)[i].endpoint = ts[i].endpoint
  BY SetRangeTyped
<1>2. DOMAIN SetRange(ts, r) = DOMAIN ts
  BY <1>1
<1> QED
  BY <1>1, <1>2 DEF Ends, EachOnce

LEMMA AppendEnds ==
  ASSUME NEW ts \in Seq(Target), NEW t \in Target
  PROVE  /\ Ends(Append(ts, t)) = Ends(ts) \cup {t.endpoint}
         /\ EachOnce(ts) /\ t.endpoint \notin Ends(ts) => EachOnce(Append(ts, t))
<1>1. Len(ts) \in Nat /\ DOMAIN ts = 1..Len(ts) /\ DOMAIN Append(ts, t) = 1..(Len(ts) + 1)
  OBVIOUS
<1>2. Append(ts, t)[Len(ts) + 1] = t
  OBVIOUS
<1>3. \A i \in DOMAIN ts : Append(ts, t)[i] = ts[i]
  OBVIOUS
<1>4. DOMAIN Append(ts, t) = DOMAIN ts \cup {Len(ts) + 1}
  BY <1>1
<1> QED
  BY <1>2, <1>3, <1>4 DEF Ends, EachOnce

LEMMA OnceKept == TypeOK /\ OnceInv /\ [Next]_vars => OnceInv'
<1> SUFFICES ASSUME TypeOK, OnceInv, [Next]_vars PROVE OnceInv'
  OBVIOUS
<1>1. configured \in Seq(Target) /\ discovered \in Seq(Target)
  BY DEF TypeOK
<1>2. ASSUME NEW e \in Endpoints, PortOpen(e)
      PROVE  OnceInv'
  <2>1. e \in waiting /\ waiting' = waiting \ {e} /\ configured' = configured
          /\ discovered' = AddNetworkTarget(e)
    BY <1>2 DEF PortOpen, ProbeNext
  <2>2. CASE \E i \in DOMAIN targets : targets[i].endpoint = e
    BY <2>1, <2>2 DEF AddNetworkTarget, OnceInv
  <2>3. CASE ~ \E i \in DOMAIN targets : targets[i].endpoint = e
    <3>1. discovered' = Append(discovered, NetworkTarget(e))
      BY <2>1, <2>3 DEF AddNetworkTarget
    <3>2. NetworkTarget(e) \in Target /\ NetworkTarget(e).endpoint = e
      BY NetworkTargetTyped DEF NetworkTarget
    <3>3. e \notin Ends(configured) /\ e \notin Ends(discovered)
      BY <2>1 DEF OnceInv
    <3>4. Ends(discovered') = Ends(discovered) \cup {e} /\ EachOnce(discovered')
      BY <1>1, <3>1, <3>2, <3>3, AppendEnds DEF OnceInv
    <3> QED
      BY <2>1, <3>3, <3>4 DEF OnceInv
  <2> QED
    BY <2>2, <2>3
<1>3. ASSUME NEW r \in Ranges, ConfigureRange(r) \/ \E scan \in NetworkScans : ConfigureScan(r, scan)
      PROVE  OnceInv'
  <2>1. r \in AllRanges
    BY DEF AllRanges
  <2>2. Ends(configured') = Ends(configured)
    BY <1>1, <1>3, <2>1, SetRangeEnds DEF ConfigureRange, ConfigureScan
  <2>3. CASE ConfigureRange(r)
    <3>1. discovered' = SetRange(discovered, r) /\ waiting' = waiting
      BY <2>3 DEF ConfigureRange, sweepVars
    <3>2. Ends(discovered') = Ends(discovered) /\ EachOnce(discovered')
      BY <1>1, <2>1, <3>1, SetRangeEnds DEF OnceInv
    <3> QED
      BY <2>2, <3>1, <3>2 DEF OnceInv
  <2>4. CASE \E scan \in NetworkScans : ConfigureScan(r, scan)
    <3>1. discovered' = <<>> /\ waiting' = {}
      BY <2>4 DEF ConfigureScan
    <3>2. Ends(<<>>) = {} /\ EachOnce(<<>>)
      BY DEF Ends, EachOnce
    <3> QED
      BY <3>1, <3>2 DEF OnceInv
  <2> QED
    BY <1>3, <2>3, <2>4
<1>4. ASSUME NEW answering \in SUBSET announced, BeginTick(answering)
      PROVE  OnceInv'
  <2>1. UNCHANGED targetVars /\ waiting' \in {waiting, FreshEndpoints}
    BY <1>4 DEF BeginTick
  <2>2. FreshEndpoints \cap Ends(targets) = {}
    BY DEF FreshEndpoints, Ends
  <2> QED
    BY <2>1, <2>2, EndsOfTargets DEF OnceInv, targetVars
<1>5. ASSUME NEW e \in Endpoints, PortClosed(e)
      PROVE  OnceInv'
  BY <1>5 DEF PortClosed, ProbeNext, OnceInv
<1>6. CASE NothingToScan \/ SkipTarget \/ StartScan \/ ScanFails \/ \E id \in DiscoveryIds : Announce(id)
  BY <1>6 DEF NothingToScan, SkipTarget, StartScan, ScanFails, Announce, Advance, targetVars, sweepVars, OnceInv
<1>7. CASE RescanFallsDue \/ (\E id \in DiscoveryIds : PromptCloses(id))
             \/ (\E m \in Modules : ModuleChanges(m)) \/ UNCHANGED vars
  BY <1>7 DEF RescanFallsDue, PromptCloses, ModuleChanges, vars, targetVars, sweepVars, OnceInv
<1> QED
  BY <1>2, <1>3, <1>4, <1>5, <1>6, <1>7 DEF Next, Tick, Reconfigure

\* The sweep adds an endpoint once, and does not probe it again while it is a
\* target.
THEOREM TargetsOnce == Spec => []EndpointsOnce
<1>1. Init => OnceInv
  BY DEF Init, OnceInv, Ends, EachOnce
<1> QED
  BY <1>1, OnceKept, OnceMeansOnce, TypesCorrect, PTL DEF Spec
=============================================================================
