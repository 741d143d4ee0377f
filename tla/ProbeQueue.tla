----------------------------- MODULE ProbeQueue -----------------------------
(***************************************************************************)
(* Which endpoints a network sweep probes: parseCidr and                   *)
(* refreshNetworkProbeQueue in engine/src/modbus_device_discovery.cpp.     *)
(*                                                                         *)
(* An address is a number of Width bits, 32 in the code; with it scale the *)
(* longest prefix that is swept, 30, and the default one, 24.              *)
(***************************************************************************)
EXTENDS Integers, Sequences, FiniteSets

CONSTANTS
  Width,          \* bits of an address
  DefaultPrefix,  \* the prefix length of a subnet that states none
  NoPrefix,       \* a subnet that states none
  MinimumPrefix,  \* network_scan_.minimum_prefix_length
  MaxHosts,       \* network_scan_.max_hosts_per_subnet
  Ports,          \* network_scan_.ports
  Reserved,       \* addresses whose first octet is 0, 127, or 224 and above
  Cidrs,          \* entries of network_scan_.subnets
  MaxCidrs,       \* how many of them there are at most
  LocalSubnets,   \* what localIPv4Subnets() may return
  KnownEndpoints  \* endpoints that may be targets already

ASSUME WidthAssumption == Width \in Nat \ {0, 1}
ASSUME PrefixAssumption ==
  /\ DefaultPrefix \in 0..Width
  /\ NoPrefix \notin Int
  /\ MinimumPrefix \in 0..(Width - 2)
ASSUME HostsAssumption == MaxHosts \in Nat \ {0} /\ MaxCidrs \in Nat
ASSUME PortsAssumption == Ports \in Seq(Nat) /\ Ports # <<>>

Addresses == 0..(2^Width - 1)
Endpoints == Addresses \X Nat
Subnet == [address : Addresses, prefix : 0..Width]
Cidr == [address : Addresses, prefix : Int \cup {NoPrefix}]

ASSUME InputsAssumption ==
  /\ Reserved \subseteq Addresses
  /\ Cidrs \subseteq Cidr
  /\ LocalSubnets \subseteq Seq(Subnet)
  /\ KnownEndpoints \subseteq Endpoints

VARIABLES
  cidrs,          \* network_scan_.subnets
  includeLocal,   \* network_scan_.include_local_subnets
  local,          \* what localIPv4Subnets() returns
  known,          \* the endpoints of targets_
  phase,          \* how far refreshNetworkProbeQueue() has come
  subnets,        \* the local of that name
  index,          \* the setting, then the subnet it has come to
  offset,         \* the host of that subnet it has come to
  port,           \* the port of that host it has come to
  seenSubnets,    \* subnets by their key
  seenEndpoints,  \* endpoints by their key
  queue           \* network_probe_queue_

inputVars == <<cidrs, includeLocal, local, known>>
seenVars == <<seenSubnets, seenEndpoints>>
queueVars == <<inputVars, phase, subnets, index, offset, port, seenVars, queue>>

QueueInit ==
  /\ cidrs \in UNION {[1..n -> Cidrs] : n \in 0..MaxCidrs}
  /\ includeLocal \in BOOLEAN
  /\ local \in LocalSubnets
  /\ known \in SUBSET KnownEndpoints
  /\ phase = "collect"
  /\ subnets = <<>>
  /\ index = 1 /\ offset = 1 /\ port = 1
  /\ seenSubnets = {} /\ seenEndpoints = {}
  /\ queue = <<>>

-----------------------------------------------------------------------------
\* parseCidr: whether it returns true, and the subnet.
Parses(cidr) == cidr.prefix = NoPrefix \/ cidr.prefix \in 0..Width
Parsed(cidr) ==
  [address |-> cidr.address,
   prefix  |-> IF cidr.prefix = NoPrefix THEN DefaultPrefix ELSE cidr.prefix]

LocalAddresses == IF includeLocal THEN {local[i].address : i \in DOMAIN local} ELSE {}

\* A prefix shorter than the minimum is narrowed around the address.
PrefixOf(subnet) == IF subnet.prefix < MinimumPrefix THEN MinimumPrefix ELSE subnet.prefix
AddressCount(subnet) == 2^(Width - PrefixOf(subnet))

NetworkOf(subnet) == subnet.address - (subnet.address % AddressCount(subnet))

\* Bug: two subnets that begin alike are taken for one.
KeyWithoutPrefix(subnet) == <<NetworkOf(subnet), 0>>

SubnetKey(subnet) == <<NetworkOf(subnet), PrefixOf(subnet)>>

\* Bug: the last address of a subnet, its broadcast address, is a host.
CountsBroadcast(subnet) ==
  IF AddressCount(subnet) - 1 < MaxHosts THEN AddressCount(subnet) - 1 ELSE MaxHosts

HostCount(subnet) ==
  IF AddressCount(subnet) - 2 < MaxHosts THEN AddressCount(subnet) - 2 ELSE MaxHosts

Current == subnets[index]
Host == NetworkOf(Current) + offset
Endpoint == <<Host, Ports[port]>>
Skipped(address) == address \in Reserved \/ address \in LocalAddresses

-----------------------------------------------------------------------------
\* The subnets of the machine come first.
Collect ==
  /\ phase = "collect"
  /\ subnets' = IF includeLocal THEN local ELSE <<>>
  /\ phase' = "parse"
  /\ UNCHANGED <<inputVars, index, offset, port, seenVars, queue>>

\* An entry of the settings that does not parse is dropped.
ParseNext ==
  /\ phase = "parse" /\ index <= Len(cidrs)
  /\ subnets' = IF Parses(cidrs[index]) THEN Append(subnets, Parsed(cidrs[index])) ELSE subnets
  /\ index' = index + 1
  /\ UNCHANGED <<inputVars, phase, offset, port, seenVars, queue>>

\* Endpoints that are targets count as seen.
ParsedAll ==
  /\ phase = "parse" /\ index > Len(cidrs)
  /\ seenEndpoints' = known
  /\ index' = 1
  /\ phase' = "subnet"
  /\ UNCHANGED <<inputVars, subnets, offset, port, seenSubnets, queue>>

\* A prefix too long to hold a host, or a subnet that was there before.
SkipSubnet ==
  /\ phase = "subnet" /\ index <= Len(subnets)
  /\ PrefixOf(Current) > Width - 2 \/ SubnetKey(Current) \in seenSubnets
  /\ index' = index + 1
  /\ UNCHANGED <<inputVars, phase, subnets, offset, port, seenVars, queue>>

OpenSubnet ==
  /\ phase = "subnet" /\ index <= Len(subnets)
  /\ PrefixOf(Current) <= Width - 2 /\ SubnetKey(Current) \notin seenSubnets
  /\ seenSubnets' = seenSubnets \cup {SubnetKey(Current)}
  /\ phase' = "hosts"
  /\ offset' = 1 /\ port' = 1
  /\ UNCHANGED <<inputVars, subnets, index, seenEndpoints, queue>>

\* Bug: an endpoint is queued although it was seen.
QueuesAgain ==
  /\ phase = "hosts" /\ offset <= HostCount(Current) /\ ~Skipped(Host)
  /\ port <= Len(Ports)
  /\ queue' = Append(queue, Endpoint)
  /\ seenEndpoints' = seenEndpoints \cup {Endpoint}
  /\ port' = port + 1
  /\ UNCHANGED <<inputVars, phase, subnets, index, offset, seenSubnets>>

QueueEndpoint ==
  /\ phase = "hosts" /\ offset <= HostCount(Current) /\ ~Skipped(Host)
  /\ port <= Len(Ports)
  /\ queue' = IF Endpoint \in seenEndpoints THEN queue ELSE Append(queue, Endpoint)
  /\ seenEndpoints' = seenEndpoints \cup {Endpoint}
  /\ port' = port + 1
  /\ UNCHANGED <<inputVars, phase, subnets, index, offset, seenSubnets>>

NextHost ==
  /\ phase = "hosts" /\ offset <= HostCount(Current)
  /\ Skipped(Host) \/ port > Len(Ports)
  /\ offset' = offset + 1
  /\ port' = 1
  /\ UNCHANGED <<inputVars, phase, subnets, index, seenVars, queue>>

CloseSubnet ==
  /\ phase = "hosts" /\ offset > HostCount(Current)
  /\ index' = index + 1
  /\ phase' = "subnet"
  /\ UNCHANGED <<inputVars, subnets, offset, port, seenVars, queue>>

QueueIsReady ==
  /\ phase = "subnet" /\ index > Len(subnets)
  /\ phase' = "done"
  /\ UNCHANGED <<inputVars, subnets, index, offset, port, seenVars, queue>>

QueueNext ==
  \/ Collect \/ ParseNext \/ ParsedAll
  \/ SkipSubnet \/ OpenSubnet
  \/ QueueEndpoint \/ NextHost \/ CloseSubnet
  \/ QueueIsReady

QueueSpec == QueueInit /\ [][QueueNext]_queueVars

-----------------------------------------------------------------------------
Queued == {queue[i] : i \in DOMAIN queue}
PortSet == {Ports[i] : i \in DOMAIN Ports}

\* No endpoint is probed twice in a sweep, and none that is a target, however
\* the subnets overlap and whatever port is named twice.
EndpointsQueuedOnce ==
  /\ \A i, j \in DOMAIN queue : queue[i] = queue[j] => i = j
  /\ Queued \cap known = {}

\* What the settings ask for, from their own terms: the subnets, and the block
\* of addresses each of them is narrowed to.
Given ==
  (IF includeLocal THEN {local[i] : i \in DOMAIN local} ELSE {})
    \cup {Parsed(cidrs[i]) : i \in {n \in DOMAIN cidrs : Parses(cidrs[n])}}
SharesPrefix(a, b, length) == a \div 2^(Width - length) = b \div 2^(Width - length)
BlockAround(subnet) ==
  {a \in Addresses :
     SharesPrefix(a, subnet.address, IF subnet.prefix < MinimumPrefix THEN MinimumPrefix ELSE subnet.prefix)}
First(S) == CHOOSE a \in S : \A b \in S : a <= b
Final(S) == CHOOSE a \in S : \A b \in S : a >= b
HostsOf(block) == block \ {First(block), Final(block)}

\* Only hosts of the subnets asked for are probed, of each subnet no more than
\* the limit allows, and never a network address, a broadcast address, a reserved
\* address or an address of this machine.
OnlyHostsAskedFor ==
  \A e \in Queued :
    /\ \E s \in Given :
         /\ e[1] \in HostsOf(BlockAround(s))
         /\ Cardinality({g \in HostsOf(BlockAround(s)) : g < e[1]}) < MaxHosts
    /\ e[1] \notin Reserved \cup LocalAddresses
    /\ e[2] \in PortSet

\* A subnet with no more hosts than the limit is probed completely, and of a
\* larger one the first hosts: no subnet hides another that overlaps it.
SubnetsAreCovered ==
  phase = "done" =>
    \A s \in Given : \A h \in HostsOf(BlockAround(s)) :
      Cardinality({g \in HostsOf(BlockAround(s)) : g < h}) < MaxHosts =>
        h \in Reserved \cup LocalAddresses \/ \A p \in PortSet : <<h, p>> \in Queued \cup known
=============================================================================
