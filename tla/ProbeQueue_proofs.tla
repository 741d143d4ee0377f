-------------------------- MODULE ProbeQueue_proofs --------------------------
(***************************************************************************)
(* Proofs about the probe queue, for addresses of any width and any        *)
(* subnets, ports and targets.                                             *)
(***************************************************************************)
EXTENDS ProbeQueue, FiniteSetTheorems, FunctionTheorems, TLAPS

(***************************************************************************)
(* Powers of two count subsets, which gives what the masks of a prefix     *)
(* need to know of them.                                                   *)
(***************************************************************************)
LEMMA Powers ==
  ASSUME NEW n \in Nat
  PROVE  2^n \in Nat \ {0}
<1>1. IsFiniteSet(1..n) /\ Cardinality(1..n) = n
  BY FS_Interval
<1>2. IsFiniteSet(SUBSET (1..n)) /\ Cardinality(SUBSET (1..n)) = 2^n
  BY <1>1, FS_SUBSET
<1>3. SUBSET (1..n) # {}
  OBVIOUS
<1>4. Cardinality(SUBSET (1..n)) \in Nat
  BY <1>2, FS_CardinalityType
<1>5. Cardinality(SUBSET (1..n)) # 0
  BY <1>2, <1>3, FS_EmptySet
<1> QED
  BY <1>2, <1>4, <1>5

\* Division by a number that is not fixed.
LEMMA DivisionLaw ==
  ASSUME NEW a \in Nat, NEW c \in Nat \ {0}
  PROVE  /\ a % c \in 0..(c - 1) /\ a \div c \in Nat
         /\ a = c * (a \div c) + (a % c)
OBVIOUS

LEMMA QuotientIs ==
  ASSUME NEW a \in Nat, NEW c \in Nat \ {0}, NEW q \in Nat, q * c <= a, a < q * c + c
  PROVE  a \div c = q
<1>1. a = c * (a \div c) + (a % c) /\ a % c \in 0..(c - 1) /\ a \div c \in Nat
  BY DivisionLaw
<1> DEFINE d == a \div c
<1> HIDE DEF d
<1>2. d \in Nat /\ c * d <= a /\ a < c * d + c
  BY <1>1 DEF d
<1>3. ~(d < q)
  <2> SUFFICES ASSUME d < q PROVE FALSE
    OBVIOUS
  <2>1. d + 1 <= q
    BY <1>2
  <2>2. c * (d + 1) <= c * q
    BY <2>1, <1>2
  <2> QED
    BY <2>2, <1>2
<1>4. ~(q < d)
  <2> SUFFICES ASSUME q < d PROVE FALSE
    OBVIOUS
  <2>1. q + 1 <= d
    BY <1>2
  <2>2. c * (q + 1) <= c * d
    BY <2>1, <1>2
  <2> QED
    BY <2>2, <1>2
<1> QED
  BY <1>2, <1>3, <1>4 DEF d

\* A set of a + b elements has as many subsets as its two parts have pairs.
LEMMA PowerOfSum ==
  ASSUME NEW a \in Nat, NEW b \in Nat
  PROVE  2^(a + b) = 2^a * 2^b
<1> DEFINE A == 1..a
           B == (a + 1)..(a + b)
           Split == [X \in SUBSET (1..(a + b)) |-> <<X \cap A, X \cap B>>]
<1>1. /\ IsFiniteSet(A) /\ Cardinality(A) = a
      /\ IsFiniteSet(B) /\ Cardinality(B) = b
      /\ IsFiniteSet(1..(a + b)) /\ Cardinality(1..(a + b)) = a + b
  <2>1. IsFiniteSet(A) /\ Cardinality(A) = a
    BY FS_Interval
  <2>2. IsFiniteSet(1..(a + b)) /\ Cardinality(1..(a + b)) = a + b
    <3>1. a + b \in Int /\ (1 > a + b <=> a + b = 0)
      OBVIOUS
    <3> QED
      BY <3>1, FS_Interval
  <2>3. IsFiniteSet(B) /\ Cardinality(B) = b
    <3>1. a + 1 \in Int /\ a + b \in Int /\ (a + 1 > a + b <=> b = 0) /\ (a + b) - (a + 1) + 1 = b
      OBVIOUS
    <3>2. Cardinality((a + 1)..(a + b)) = IF a + 1 > a + b THEN 0 ELSE (a + b) - (a + 1) + 1
      BY <3>1, FS_Interval
    <3>3. IsFiniteSet((a + 1)..(a + b))
      BY <3>1, FS_Interval
    <3> QED
      BY <3>1, <3>2, <3>3
  <2> QED
    BY <2>1, <2>2, <2>3
<1>2. 1..(a + b) = A \cup B
  OBVIOUS
<1>3. A \cap B = {}
  OBVIOUS
<1> HIDE DEF A, B
<1>4. Split \in Bijection(SUBSET (1..(a + b)), (SUBSET A) \X (SUBSET B))
  <2>1. Split \in [SUBSET (1..(a + b)) -> (SUBSET A) \X (SUBSET B)]
    OBVIOUS
  <2>2. ASSUME NEW X \in SUBSET (1..(a + b)), NEW Y \in SUBSET (1..(a + b)), Split[X] = Split[Y]
        PROVE  X = Y
    BY <1>2, <2>2
  <2>3. ASSUME NEW p \in (SUBSET A) \X (SUBSET B)
        PROVE  \E X \in SUBSET (1..(a + b)) : Split[X] = p
    <3>1. p[1] \cup p[2] \in SUBSET (1..(a + b))
      BY <1>2
    <3>2. (p[1] \cup p[2]) \cap A = p[1] /\ (p[1] \cup p[2]) \cap B = p[2]
      BY <1>3
    <3>3. Split[p[1] \cup p[2]] = p
      BY <3>1, <3>2
    <3> QED
      BY <3>1, <3>3
  <2> QED
    BY <2>1, <2>2, <2>3, Fun_IsBij
<1>5. /\ IsFiniteSet(SUBSET A) /\ Cardinality(SUBSET A) = 2^a
      /\ IsFiniteSet(SUBSET B) /\ Cardinality(SUBSET B) = 2^b
      /\ IsFiniteSet(SUBSET (1..(a + b))) /\ Cardinality(SUBSET (1..(a + b))) = 2^(a + b)
  BY <1>1, FS_SUBSET
<1>6. ExistsBijection(SUBSET (1..(a + b)), (SUBSET A) \X (SUBSET B))
  BY <1>4 DEF ExistsBijection
<1>7. Cardinality((SUBSET A) \X (SUBSET B)) = 2^a * 2^b
  <2>1. Cardinality((SUBSET A) \X (SUBSET B)) = Cardinality(SUBSET A) * Cardinality(SUBSET B)
    <3> HIDE <1>1, <1>2, <1>3, <1>4
    <3> QED
      BY <1>5, FS_Product
  <2> QED
    BY <1>5, <2>1
<1> QED
  BY <1>5, <1>6, <1>7, FS_Bijection

(***************************************************************************)
(* The block of a subnet is an interval of as many addresses as its prefix *)
(* leaves, and what may be asked of it is the interval the loop counts.    *)
(***************************************************************************)
LEMMA Blocks ==
  ASSUME NEW s \in Subnet
  PROVE  /\ AddressCount(s) \in Nat \ {0}
         /\ NetworkOf(s) \in Nat
         /\ BlockAround(s) = NetworkOf(s)..(NetworkOf(s) + AddressCount(s) - 1)
<1> DEFINE p == PrefixOf(s)
           c == AddressCount(s)
           q == s.address \div c
           n == NetworkOf(s)
           a == s.address
           t == 2^p
<1>1. p \in 0..Width /\ Width \in Nat
  BY WidthAssumption, PrefixAssumption DEF Subnet, PrefixOf
<1>2. p \in Nat /\ Width - p \in Nat /\ p + (Width - p) = Width
  BY <1>1
<1>3. c = 2^(Width - p)
  BY DEF AddressCount
<1> HIDE DEF p
<1>4. c \in Nat \ {0} /\ t \in Nat \ {0}
  BY <1>2, <1>3, Powers
<1>5. 2^Width = t * c
  BY <1>2, <1>3, PowerOfSum
<1>6. a \in Nat /\ a < t * c
  <2>1. a \in Addresses
    BY DEF Subnet
  <2>2. t * c \in Nat
    BY <1>4
  <2> QED
    BY <2>1, <2>2, <1>5 DEF Addresses
<1>7. n = a - (a % c)
  BY DEF NetworkOf
<1> HIDE DEF c, t, a, n
<1>8. a % c \in 0..(c - 1) /\ q \in Nat /\ a = c * q + (a % c)
  BY <1>4, <1>6, DivisionLaw DEF a
<1> HIDE DEF q
<1>9. n = c * q /\ n \in Nat
  <2>1. c * q \in Nat
    BY <1>4, <1>8
  <2>2. a % c \in Nat /\ n = a - (a % c) /\ a = c * q + (a % c)
    BY <1>4, <1>7, <1>8
  <2> QED
    BY <2>1, <2>2
<1>10. n + c <= t * c
  <2>1. q < t
    <3> SUFFICES ASSUME t <= q PROVE FALSE
      BY <1>4, <1>8
    <3>1. c * t <= c * q
      BY <1>4, <1>8
    <3> QED
      BY <3>1, <1>4, <1>6, <1>8
  <2>2. c * (q + 1) <= c * t
    BY <2>1, <1>4, <1>8
  <2> QED
    BY <2>2, <1>4, <1>8, <1>9
<1>11. BlockAround(s) = {b \in Addresses : b \div c = q}
  BY DEF BlockAround, SharesPrefix, c, q, a, AddressCount, PrefixOf
<1>12. ASSUME NEW b \in Addresses, b \div c = q
       PROVE  b \in n..(n + c - 1)
  <2>1. b \in Nat
    BY <1>4, <1>5 DEF Addresses
  <2>2. b % c \in 0..(c - 1) /\ b = c * q + (b % c)
    BY <1>4, <1>12, <2>1, DivisionLaw
  <2> QED
    BY <1>4, <1>9, <2>1, <2>2
<1>13. ASSUME NEW b \in n..(n + c - 1)
       PROVE  b \in Addresses /\ b \div c = q
  <2>1. b \in Nat /\ q * c <= b /\ b < q * c + c
    BY <1>4, <1>8, <1>9
  <2>2. b \div c = q
    BY <1>4, <1>8, <2>1, QuotientIs
  <2>3. b < t * c /\ t * c \in Nat
    BY <1>4, <1>9, <1>10, <2>1
  <2> QED
    BY <1>5, <2>1, <2>2, <2>3 DEF Addresses
<1>14. BlockAround(s) = n..(n + c - 1)
  BY <1>11, <1>12, <1>13
<1> QED
  BY <1>4, <1>9, <1>14 DEF n, c

\* A block without its network and its broadcast address.
LEMMA HostsOfInterval ==
  ASSUME NEW n \in Nat, NEW c \in Nat \ {0}
  PROVE  HostsOf(n..(n + c - 1)) = (n + 1)..(n + c - 2)
<1> DEFINE B == n..(n + c - 1)
<1>1. First(B) = n
  <2>1. n \in B /\ \A b \in B : n <= b
    OBVIOUS
  <2>2. \A m \in B : (\A b \in B : m <= b) => m = n
    BY <2>1
  <2> QED
    BY <2>1, <2>2 DEF First
<1>2. Final(B) = n + c - 1
  <2>1. n + c - 1 \in B /\ \A b \in B : n + c - 1 >= b
    OBVIOUS
  <2>2. \A m \in B : (\A b \in B : m >= b) => m = n + c - 1
    BY <2>1
  <2> QED
    BY <2>1, <2>2 DEF Final
<1>3. HostsOf(B) = B \ {n, n + c - 1}
  BY <1>1, <1>2 DEF HostsOf
<1>4. \A h : h \in B \ {n, n + c - 1} <=> h \in (n + 1)..(n + c - 2)
  OBVIOUS
<1> QED
  BY <1>3, <1>4

\* The hosts of a subnet the limit leaves.
Asked(s) == {h \in HostsOf(BlockAround(s)) :
               Cardinality({g \in HostsOf(BlockAround(s)) : g < h}) < MaxHosts}

LEMMA AskedHosts ==
  ASSUME NEW s \in Subnet
  PROVE  /\ HostCount(s) \in Int
         /\ NetworkOf(s) \in Nat
         /\ Asked(s) = (NetworkOf(s) + 1)..(NetworkOf(s) + HostCount(s))
<1> DEFINE c == AddressCount(s)
           n == NetworkOf(s)
           m == HostCount(s)
<1>1. c \in Nat \ {0} /\ n \in Nat /\ BlockAround(s) = n..(n + c - 1)
  BY Blocks
<1>2. m = (IF c - 2 < MaxHosts THEN c - 2 ELSE MaxHosts) /\ m \in Int
  BY <1>1, HostsAssumption DEF HostCount
<1> HIDE DEF c, n, m
<1>3. HostsOf(BlockAround(s)) = (n + 1)..(n + c - 2)
  BY <1>1, HostsOfInterval
<1>4. ASSUME NEW h \in (n + 1)..(n + c - 2)
      PROVE  Cardinality({g \in (n + 1)..(n + c - 2) : g < h}) = h - n - 1
  <2>1. {g \in (n + 1)..(n + c - 2) : g < h} = (n + 1)..(h - 1)
    BY <1>1
  <2>2. n + 1 \in Int /\ h - 1 \in Int /\ h \in Int
    BY <1>1
  <2>3. Cardinality((n + 1)..(h - 1)) = IF n + 1 > h - 1 THEN 0 ELSE (h - 1) - (n + 1) + 1
    BY <2>2, FS_Interval
  <2>4. (IF n + 1 > h - 1 THEN 0 ELSE (h - 1) - (n + 1) + 1) = h - n - 1
    BY <1>1
  <2>5. Cardinality((n + 1)..(h - 1)) = h - n - 1
    BY <2>3, <2>4
  <2> QED
    BY <2>1, <2>5
<1>5. Asked(s) = {h \in (n + 1)..(n + c - 2) : h - n - 1 < MaxHosts}
  BY <1>3, <1>4 DEF Asked
<1>6. Asked(s) = (n + 1)..(n + m)
  BY <1>1, <1>2, <1>5, HostsAssumption
<1> QED
  BY <1>1, <1>2, <1>6 DEF n, m
-----------------------------------------------------------------------------
\* What is queued has been seen, and so have the targets from the start.
SeenInv ==
  /\ queue \in Seq(seenEndpoints)
  /\ phase \in {"collect", "parse"} => queue = <<>>
  /\ phase \notin {"collect", "parse"} => known \subseteq seenEndpoints
  /\ EndpointsQueuedOnce

LEMMA AppendingUnseen ==
  ASSUME NEW S, NEW q \in Seq(S), NEW e, e \notin S,
         \A i, j \in DOMAIN q : q[i] = q[j] => i = j
  PROVE  /\ Append(q, e) \in Seq(S \cup {e})
         /\ \A i, j \in DOMAIN Append(q, e) : Append(q, e)[i] = Append(q, e)[j] => i = j
         /\ \A i \in DOMAIN Append(q, e) : Append(q, e)[i] \in {q[j] : j \in DOMAIN q} \cup {e}
<1>1. \A i \in DOMAIN q : q[i] \in S /\ q[i] # e
  OBVIOUS
<1>2. q \in Seq(S \cup {e})
  OBVIOUS
<1>3. Append(q, e) \in Seq(S \cup {e})
  BY <1>2
<1>4. /\ DOMAIN Append(q, e) = 1..(Len(q) + 1)
      /\ DOMAIN q = 1..Len(q)
      /\ Len(q) \in Nat
      /\ \A i \in 1..Len(q) : Append(q, e)[i] = q[i]
      /\ Append(q, e)[Len(q) + 1] = e
  OBVIOUS
<1>5. \A i \in DOMAIN Append(q, e) : i \in DOMAIN q \/ i = Len(q) + 1
  BY <1>4
<1>6. \A i, j \in DOMAIN Append(q, e) : Append(q, e)[i] = Append(q, e)[j] => i = j
  BY <1>1, <1>4, <1>5
<1>7. \A i \in DOMAIN Append(q, e) : Append(q, e)[i] \in {q[j] : j \in DOMAIN q} \cup {e}
  BY <1>4, <1>5
<1> QED
  BY <1>3, <1>6, <1>7

LEMMA SeenInitially == QueueInit => SeenInv
<1> SUFFICES ASSUME QueueInit PROVE SeenInv
  OBVIOUS
<1>1. queue = <<>> /\ phase = "collect"
  BY DEF QueueInit
<1>2. queue \in Seq(seenEndpoints) /\ DOMAIN queue = {}
  BY <1>1
<1> QED
  BY <1>1, <1>2 DEF SeenInv, EndpointsQueuedOnce, Queued

LEMMA SeenStep == SeenInv /\ [QueueNext]_queueVars => SeenInv'
<1> SUFFICES ASSUME SeenInv, [QueueNext]_queueVars PROVE SeenInv'
  OBVIOUS
<1>1. CASE ParsedAll
  <2>1. queue' = <<>> /\ phase' = "subnet" /\ known' = known /\ seenEndpoints' = known
    BY <1>1 DEF ParsedAll, SeenInv, inputVars
  <2>2. queue' \in Seq(seenEndpoints') /\ DOMAIN queue' = {}
    BY <2>1
  <2> QED
    BY <2>1, <2>2 DEF SeenInv, EndpointsQueuedOnce, Queued
<1>2. CASE QueueEndpoint
  <2>1. /\ phase = "hosts" /\ phase' = "hosts" /\ known' = known
        /\ known \subseteq seenEndpoints
        /\ seenEndpoints' = seenEndpoints \cup {Endpoint}
    BY <1>2 DEF QueueEndpoint, SeenInv, inputVars
  <2>2. CASE Endpoint \in seenEndpoints
    BY <1>2, <2>1, <2>2 DEF QueueEndpoint, SeenInv, EndpointsQueuedOnce, Queued
  <2>3. CASE Endpoint \notin seenEndpoints
    <3>1. queue' = Append(queue, Endpoint)
      BY <1>2, <2>3 DEF QueueEndpoint
    <3>2. /\ queue \in Seq(seenEndpoints)
          /\ \A i, j \in DOMAIN queue : queue[i] = queue[j] => i = j
          /\ Queued \cap known = {}
      BY DEF SeenInv, EndpointsQueuedOnce
    <3>3. /\ queue' \in Seq(seenEndpoints')
          /\ \A i, j \in DOMAIN queue' : queue'[i] = queue'[j] => i = j
          /\ \A i \in DOMAIN queue' : queue'[i] \in Queued \cup {Endpoint}
      BY <2>1, <2>3, <3>1, <3>2, AppendingUnseen DEF Queued
    <3>4. Endpoint \notin known
      BY <2>1, <2>3
    <3>5. Queued' \cap known' = {}
      BY <2>1, <3>2, <3>3, <3>4 DEF Queued
    <3> QED
      BY <2>1, <3>3, <3>5 DEF SeenInv, EndpointsQueuedOnce
  <2> QED
    BY <2>2, <2>3
<1>3. CASE Collect \/ ParseNext \/ SkipSubnet \/ OpenSubnet \/ NextHost \/ CloseSubnet \/ QueueIsReady
             \/ UNCHANGED queueVars
  <2>1. /\ UNCHANGED <<queue, seenEndpoints, known>>
        /\ phase' \in {"collect", "parse"} <=> phase \in {"collect", "parse"}
    BY <1>3 DEF Collect, ParseNext, SkipSubnet, OpenSubnet, NextHost, CloseSubnet, QueueIsReady, queueVars, inputVars,
                seenVars
  <2> QED
    BY <2>1 DEF SeenInv, EndpointsQueuedOnce, Queued
<1> QED
  BY <1>1, <1>2, <1>3 DEF QueueNext

\* Whatever subnets, ports and targets there are, and however they overlap, a
\* sweep probes no endpoint twice and no target (lines 346-350 and 370-373).
THEOREM QueuedOnce == QueueSpec => []EndpointsQueuedOnce
<1>1. SeenInv => EndpointsQueuedOnce
  BY DEF SeenInv
<1> QED
  BY <1>1, SeenInitially, SeenStep, PTL DEF QueueSpec
-----------------------------------------------------------------------------
(***************************************************************************)
(* Where the loops of refreshNetworkProbeQueue have come to: the hosts of  *)
(* a subnet as they are counted, and what is covered before the indices.   *)
(***************************************************************************)
CountedHosts(s) == (NetworkOf(s) + 1)..(NetworkOf(s) + HostCount(s))

\* Every port of the host is queued or a target's, unless the host is skipped.
Covered(h) == Skipped(h) \/ \A p \in PortSet : <<h, p>> \in Queued \cup known

SweepTypes ==
  /\ cidrs \in Seq(Cidr)
  /\ includeLocal \in BOOLEAN
  /\ local \in Seq(Subnet)
  /\ phase \in {"collect", "parse", "subnet", "hosts", "done"}
  /\ subnets \in Seq(Subnet)
  /\ index \in Nat \ {0}
  /\ offset \in Nat \ {0}
  /\ port \in Nat \ {0}
  /\ queue \in Seq(seenEndpoints)

\* The subnets are those of the machine and of the settings read so far.
FromLocal == IF includeLocal THEN {local[i] : i \in DOMAIN local} ELSE {}
FromCidrs(n) == {Parsed(cidrs[i]) : i \in {k \in DOMAIN cidrs : Parses(cidrs[k]) /\ k < n}}
Collected == {subnets[i] : i \in DOMAIN subnets}

SubnetsSoFar ==
  /\ phase = "collect" => index = 1 /\ queue = <<>>
  /\ phase = "parse" => Collected = FromLocal \cup FromCidrs(index) /\ queue = <<>>
  /\ phase \in {"subnet", "hosts", "done"} => Collected = Given
  /\ phase \in {"collect", "parse"} => seenSubnets = {} /\ seenEndpoints = {}
  /\ phase = "hosts" => index <= Len(subnets)
  /\ phase = "done" => index > Len(subnets)

\* What is queued is a host of a subnet that was asked for.
QueuedAsked ==
  \A e \in Queued :
    /\ \E s \in Given : e[1] \in CountedHosts(s)
    /\ ~Skipped(e[1])
    /\ e[2] \in PortSet

\* The subnets before index are covered, whether they were opened or skipped,
\* and of the open one the hosts before offset and the ports before port.
CoveredSoFar ==
  /\ seenEndpoints \subseteq Queued \cup known
  /\ phase \in {"subnet", "hosts", "done"} =>
       \A i \in DOMAIN subnets : i < index => \A h \in CountedHosts(subnets[i]) : Covered(h)
  /\ \A key \in seenSubnets : \E i \in DOMAIN subnets :
       /\ SubnetKey(subnets[i]) = key
       /\ i < index \/ (phase = "hosts" /\ i = index)
  /\ phase = "hosts" =>
       /\ \A h \in (NetworkOf(Current) + 1)..(NetworkOf(Current) + offset - 1) : Covered(h)
       /\ port > 1 => ~Skipped(Host)
       /\ \A k \in DOMAIN Ports : k < port => <<Host, Ports[k]>> \in seenEndpoints

SweepInv == SweepTypes /\ SubnetsSoFar /\ QueuedAsked /\ CoveredSoFar

LEMMA AppendedRange ==
  ASSUME NEW S, NEW q \in Seq(S), NEW e
  PROVE  {Append(q, e)[i] : i \in DOMAIN Append(q, e)} = {q[i] : i \in DOMAIN q} \cup {e}
<1>1. /\ DOMAIN Append(q, e) = 1..(Len(q) + 1)
      /\ DOMAIN q = 1..Len(q)
      /\ Len(q) \in Nat
      /\ \A i \in 1..Len(q) : Append(q, e)[i] = q[i]
      /\ Append(q, e)[Len(q) + 1] = e
  OBVIOUS
<1>2. \A i \in DOMAIN Append(q, e) : i \in DOMAIN q \/ i = Len(q) + 1
  BY <1>1
<1>3. \A i \in DOMAIN q : i \in DOMAIN Append(q, e)
  BY <1>1
<1>4. Len(q) + 1 \in DOMAIN Append(q, e)
  BY <1>1
<1> QED
  BY <1>1, <1>2, <1>3, <1>4

\* What the sweep is given does not change while the queue is built.
LEMMA InputsKept ==
  ASSUME [QueueNext]_queueVars
  PROVE  /\ UNCHANGED inputVars
         /\ Given' = Given /\ FromLocal' = FromLocal
         /\ \A h : Skipped(h)' = Skipped(h)
<1>1. UNCHANGED inputVars
  BY DEF QueueNext, Collect, ParseNext, ParsedAll, SkipSubnet, OpenSubnet, QueueEndpoint, NextHost, CloseSubnet,
         QueueIsReady, queueVars
<1> QED
  BY <1>1 DEF inputVars, Given, FromLocal, Skipped, LocalAddresses

LEMMA ParsedType ==
  ASSUME NEW c \in Cidr, Parses(c)
  PROVE  Parsed(c) \in Subnet
BY PrefixAssumption DEF Cidr, Parses, Parsed, Subnet

\* What the step that tries one endpoint does to the queue.
LEMMA QueueStep ==
  ASSUME SweepTypes, QueueEndpoint
  PROVE  /\ queue' \in Seq(seenEndpoints')
         /\ Queued' = IF Endpoint \in seenEndpoints THEN Queued ELSE Queued \cup {Endpoint}
<1>1. CASE Endpoint \in seenEndpoints
  BY <1>1 DEF SweepTypes, QueueEndpoint, Queued
<1>2. CASE Endpoint \notin seenEndpoints
  <2>1. /\ queue' = Append(queue, Endpoint)
        /\ seenEndpoints' = seenEndpoints \cup {Endpoint}
        /\ queue \in Seq(seenEndpoints)
    BY <1>2 DEF SweepTypes, QueueEndpoint
  <2>2. queue \in Seq(seenEndpoints \cup {Endpoint})
    BY <2>1
  <2>3. queue' \in Seq(seenEndpoints')
    BY <2>1, <2>2
  <2>4. Queued' = Queued \cup {Endpoint}
    BY <2>1, AppendedRange DEF Queued
  <2> QED
    BY <1>2, <2>3, <2>4
<1> QED
  BY <1>1, <1>2

LEMMA SweepInitially == QueueInit => SweepInv
<1> SUFFICES ASSUME QueueInit PROVE SweepInv
  OBVIOUS
<1>1. cidrs \in Seq(Cidr)
  <2>1. PICK n \in 0..MaxCidrs : cidrs \in [1..n -> Cidrs]
    BY DEF QueueInit
  <2>2. n \in Nat /\ Cidrs \subseteq Cidr
    BY HostsAssumption, InputsAssumption
  <2>3. cidrs \in [1..n -> Cidr]
    BY <2>1, <2>2
  <2> QED
    BY <2>2, <2>3
<1>2. local \in Seq(Subnet)
  BY InputsAssumption DEF QueueInit
<1>3. /\ queue = <<>> /\ subnets = <<>> /\ seenSubnets = {} /\ seenEndpoints = {}
      /\ phase = "collect" /\ index = 1 /\ offset = 1 /\ port = 1 /\ includeLocal \in BOOLEAN
  BY DEF QueueInit
<1>4. queue \in Seq(seenEndpoints) /\ subnets \in Seq(Subnet) /\ Queued = {}
  BY <1>3 DEF Queued
<1>5. SweepTypes
  BY <1>1, <1>2, <1>3, <1>4 DEF SweepTypes
<1>6. SubnetsSoFar
  BY <1>3 DEF SubnetsSoFar
<1>7. QueuedAsked /\ CoveredSoFar
  BY <1>3, <1>4 DEF QueuedAsked, CoveredSoFar
<1> QED
  BY <1>5, <1>6, <1>7 DEF SweepInv

LEMMA TypesKept ==
  ASSUME SweepInv, [QueueNext]_queueVars
  PROVE  SweepTypes'
<1>1. SweepTypes /\ UNCHANGED inputVars
  BY InputsKept DEF SweepInv
<1> USE DEF SweepTypes, inputVars, seenVars
<1>2. CASE Collect
  <2>1. subnets' \in Seq(Subnet)
    BY <1>1, <1>2 DEF Collect
  <2> QED
    BY <1>1, <1>2, <2>1 DEF Collect
<1>3. CASE ParseNext
  <2>1. index \in DOMAIN cidrs /\ cidrs[index] \in Cidr
    BY <1>1, <1>3 DEF ParseNext
  <2>2. subnets' \in Seq(Subnet)
    <3>1. CASE Parses(cidrs[index])
      <4>1. Parsed(cidrs[index]) \in Subnet
        BY <2>1, <3>1, ParsedType
      <4>2. subnets' = Append(subnets, Parsed(cidrs[index]))
        BY <1>3, <3>1 DEF ParseNext
      <4> QED
        BY <1>1, <4>1, <4>2
    <3>2. CASE ~Parses(cidrs[index])
      BY <1>1, <1>3, <3>2 DEF ParseNext
    <3> QED
      BY <3>1, <3>2
  <2> QED
    BY <1>1, <1>3, <2>2 DEF ParseNext
<1>4. CASE ParsedAll
  <2>1. queue = <<>>
    BY <1>4 DEF SweepInv, SubnetsSoFar, ParsedAll
  <2>2. queue' \in Seq(seenEndpoints')
    BY <1>4, <2>1 DEF ParsedAll
  <2> QED
    BY <1>1, <1>4, <2>2 DEF ParsedAll
<1>5. CASE SkipSubnet
  BY <1>1, <1>5 DEF SkipSubnet
<1>6. CASE OpenSubnet
  BY <1>1, <1>6 DEF OpenSubnet
<1>7. CASE QueueEndpoint
  <2>1. queue' \in Seq(seenEndpoints')
    BY <1>1, <1>7, QueueStep
  <2> QED
    BY <1>1, <1>7, <2>1 DEF QueueEndpoint
<1>8. CASE NextHost
  BY <1>1, <1>8 DEF NextHost
<1>9. CASE CloseSubnet
  BY <1>1, <1>9 DEF CloseSubnet
<1>10. CASE QueueIsReady
  BY <1>1, <1>10 DEF QueueIsReady
<1>11. CASE UNCHANGED queueVars
  BY <1>1, <1>11 DEF queueVars
<1> QED
  BY <1>2, <1>3, <1>4, <1>5, <1>6, <1>7, <1>8, <1>9, <1>10, <1>11 DEF QueueNext

LEMMA SubnetsKept ==
  ASSUME SweepInv, [QueueNext]_queueVars
  PROVE  SubnetsSoFar'
<1>1. SweepTypes /\ SubnetsSoFar /\ UNCHANGED inputVars /\ Given' = Given /\ FromLocal' = FromLocal
  BY InputsKept DEF SweepInv
<1> USE DEF SubnetsSoFar, seenVars
<1>2. CASE Collect
  <2>1. /\ queue = <<>> /\ index = 1 /\ phase' = "parse" /\ UNCHANGED <<queue, index, seenVars>>
        /\ subnets' = IF includeLocal THEN local ELSE <<>>
        /\ seenSubnets = {} /\ seenEndpoints = {}
    BY <1>1, <1>2 DEF Collect
  <2>2. Collected' = FromLocal
    BY <2>1 DEF Collected, FromLocal
  <2>3. FromCidrs(1) = {} /\ FromCidrs(index)' = {}
    <3>1. DOMAIN cidrs \subseteq Nat \ {0} /\ cidrs' = cidrs /\ index' = 1
      BY <1>1, <2>1 DEF SweepTypes, inputVars
    <3> QED
      BY <3>1 DEF FromCidrs
  <2> QED
    BY <1>1, <2>1, <2>2, <2>3
<1>3. CASE ParseNext
  <2>1. /\ index \in DOMAIN cidrs /\ index' = index + 1 /\ phase = "parse" /\ phase' = "parse"
        /\ UNCHANGED <<queue, seenVars, cidrs>>
        /\ Collected = FromLocal \cup FromCidrs(index) /\ queue = <<>>
        /\ index \in Nat /\ DOMAIN cidrs \subseteq Nat
    BY <1>1, <1>3 DEF ParseNext, SweepTypes, inputVars
  <2>2. FromCidrs(index)' = FromCidrs(index)
                              \cup (IF Parses(cidrs[index]) THEN {Parsed(cidrs[index])} ELSE {})
    <3>1. \A k \in DOMAIN cidrs : k < index + 1 <=> k < index \/ k = index
      BY <2>1
    <3>2. FromCidrs(index)' = {Parsed(cidrs[i]) : i \in {k \in DOMAIN cidrs : Parses(cidrs[k]) /\ k < index + 1}}
      BY <2>1 DEF FromCidrs
    <3> QED
      BY <2>1, <3>1, <3>2 DEF FromCidrs
  <2>3. Collected' = Collected \cup (IF Parses(cidrs[index]) THEN {Parsed(cidrs[index])} ELSE {})
    <3>1. CASE Parses(cidrs[index])
      <4>1. subnets' = Append(subnets, Parsed(cidrs[index])) /\ subnets \in Seq(Subnet)
        BY <1>1, <1>3, <3>1 DEF ParseNext, SweepTypes
      <4> QED
        BY <3>1, <4>1, AppendedRange DEF Collected
    <3>2. CASE ~Parses(cidrs[index])
      BY <1>3, <3>2 DEF ParseNext, Collected
    <3> QED
      BY <3>1, <3>2
  <2>4. Collected' = FromLocal' \cup FromCidrs(index)'
    BY <1>1, <2>1, <2>2, <2>3
  <2> QED
    BY <1>1, <2>1, <2>4
<1>4. CASE ParsedAll
  <2>1. /\ phase = "parse" /\ phase' = "subnet" /\ UNCHANGED <<subnets, cidrs>>
        /\ Collected = FromLocal \cup FromCidrs(index)
        /\ index > Len(cidrs) /\ DOMAIN cidrs = 1..Len(cidrs) /\ Len(cidrs) \in Nat /\ index \in Nat
    BY <1>1, <1>4 DEF ParsedAll, SweepTypes, inputVars
  <2>2. \A k \in DOMAIN cidrs : k < index
    BY <2>1
  <2>3. FromLocal \cup FromCidrs(index) = Given
    BY <2>2 DEF FromLocal, FromCidrs, Given
  <2>4. Collected' = Given'
    BY <1>1, <2>1, <2>3 DEF Collected
  <2> QED
    BY <2>1, <2>4
<1>5. CASE SkipSubnet
  BY <1>1, <1>5 DEF SkipSubnet, Collected
<1>6. CASE OpenSubnet
  BY <1>1, <1>6 DEF OpenSubnet, Collected
<1>7. CASE QueueEndpoint
  BY <1>1, <1>7 DEF QueueEndpoint, Collected
<1>8. CASE NextHost
  BY <1>1, <1>8 DEF NextHost, Collected
<1>9. CASE CloseSubnet
  BY <1>1, <1>9 DEF CloseSubnet, Collected
<1>10. CASE QueueIsReady
  BY <1>1, <1>10 DEF QueueIsReady, Collected
<1>11. CASE UNCHANGED queueVars
  BY <1>1, <1>11 DEF queueVars, inputVars, Collected, FromCidrs
<1> QED
  BY <1>2, <1>3, <1>4, <1>5, <1>6, <1>7, <1>8, <1>9, <1>10, <1>11 DEF QueueNext

LEMMA QueuedKept ==
  ASSUME SweepInv, [QueueNext]_queueVars
  PROVE  QueuedAsked'
<1>1. /\ SweepTypes /\ SubnetsSoFar /\ QueuedAsked
      /\ Given' = Given /\ \A h : Skipped(h)' = Skipped(h)
  BY InputsKept DEF SweepInv
<1>2. CASE QueueEndpoint
  <2>1. /\ phase = "hosts" /\ index \in DOMAIN subnets /\ Current \in Given /\ Current \in Subnet
    <3>1. phase = "hosts" /\ index <= Len(subnets) /\ Collected = Given
      BY <1>1, <1>2 DEF QueueEndpoint, SubnetsSoFar
    <3>2. index \in DOMAIN subnets
      BY <1>1, <3>1 DEF SweepTypes
    <3>3. Current \in Collected /\ Current \in Subnet
      BY <1>1, <3>2 DEF SweepTypes, Current, Collected
    <3> QED
      BY <3>1, <3>2, <3>3
  <2>2. Host \in CountedHosts(Current)
    <3>1. NetworkOf(Current) \in Nat /\ HostCount(Current) \in Int
      BY <2>1, AskedHosts
    <3>2. offset \in Nat \ {0} /\ offset <= HostCount(Current)
      BY <1>1, <1>2 DEF QueueEndpoint, SweepTypes
    <3> QED
      BY <3>1, <3>2 DEF Host, CountedHosts
  <2>3. ~Skipped(Host) /\ Ports[port] \in PortSet
    <3>1. port \in DOMAIN Ports
      BY <1>1, <1>2, PortsAssumption DEF QueueEndpoint, SweepTypes
    <3> QED
      BY <1>2, <3>1 DEF QueueEndpoint, PortSet
  <2>4. Endpoint[1] = Host /\ Endpoint[2] = Ports[port]
    BY DEF Endpoint
  <2>5. Queued' \subseteq Queued \cup {Endpoint}
    BY <1>1, <1>2, QueueStep
  <2>6. ASSUME NEW e \in Queued'
        PROVE  /\ \E s \in Given : e[1] \in CountedHosts(s)
               /\ ~Skipped(e[1])
               /\ e[2] \in PortSet
    <3>1. CASE e = Endpoint
      BY <2>1, <2>2, <2>3, <2>4, <3>1
    <3>2. CASE e \in Queued
      BY <1>1, <3>2 DEF QueuedAsked
    <3> QED
      BY <2>5, <3>1, <3>2
  <2> QED
    BY <1>1, <2>6 DEF QueuedAsked, CountedHosts
<1>3. CASE Collect \/ ParseNext \/ ParsedAll \/ SkipSubnet \/ OpenSubnet \/ NextHost \/ CloseSubnet
             \/ QueueIsReady \/ UNCHANGED queueVars
  <2>1. queue' = queue
    BY <1>3 DEF Collect, ParseNext, ParsedAll, SkipSubnet, OpenSubnet, NextHost, CloseSubnet, QueueIsReady, queueVars
  <2>2. Queued' = Queued
    BY <2>1 DEF Queued
  <2> QED
    BY <1>1, <2>2 DEF QueuedAsked, CountedHosts
<1> QED
  BY <1>2, <1>3 DEF QueueNext

\* A host that is covered stays covered.
LEMMA CoveredStays ==
  ASSUME SweepInv, [QueueNext]_queueVars
  PROVE  /\ Queued \cup known \subseteq (Queued \cup known)'
         /\ \A h : Covered(h) => Covered(h)'
<1>1. SweepTypes /\ known' = known /\ \A h : Skipped(h)' = Skipped(h)
  BY InputsKept DEF SweepInv, inputVars
<1>2. Queued \subseteq Queued'
  <2>1. CASE QueueEndpoint
    BY <1>1, <2>1, QueueStep
  <2>2. CASE Collect \/ ParseNext \/ ParsedAll \/ SkipSubnet \/ OpenSubnet \/ NextHost \/ CloseSubnet
               \/ QueueIsReady \/ UNCHANGED queueVars
    <3>1. queue' = queue
      BY <2>2 DEF Collect, ParseNext, ParsedAll, SkipSubnet, OpenSubnet, NextHost, CloseSubnet, QueueIsReady, queueVars
    <3> QED
      BY <3>1 DEF Queued
  <2> QED
    BY <2>1, <2>2 DEF QueueNext
<1>3. Queued \cup known \subseteq (Queued \cup known)'
  BY <1>1, <1>2
<1> QED
  BY <1>1, <1>3 DEF Covered

\* Subnets of the same key have the same hosts.
LEMMA SameKeySameHosts ==
  ASSUME NEW s, NEW t, SubnetKey(s) = SubnetKey(t)
  PROVE  CountedHosts(s) = CountedHosts(t)
<1>1. NetworkOf(s) = NetworkOf(t) /\ PrefixOf(s) = PrefixOf(t)
  BY DEF SubnetKey
<1>2. AddressCount(s) = AddressCount(t)
  BY <1>1 DEF AddressCount
<1> QED
  BY <1>1, <1>2 DEF CountedHosts, HostCount

\* A subnet that is too long has no host to count.
LEMMA TooLongHasNoHost ==
  ASSUME NEW s \in Subnet, PrefixOf(s) > Width - 2
  PROVE  CountedHosts(s) = {}
<1>1. PrefixOf(s) \in 0..Width /\ Width \in Nat
  BY WidthAssumption, PrefixAssumption DEF Subnet, PrefixOf
<1>2. Width - PrefixOf(s) = 0 \/ Width - PrefixOf(s) = 1
  BY <1>1
<1>3. 2^0 = 1 /\ 2^1 = 2
  OBVIOUS
<1>4. AddressCount(s) \in {1, 2}
  BY <1>2, <1>3 DEF AddressCount
<1>5. HostCount(s) <= 0 /\ HostCount(s) \in Int
  BY <1>4, HostsAssumption DEF HostCount
<1>6. NetworkOf(s) \in Nat
  BY AskedHosts
<1> QED
  BY <1>5, <1>6 DEF CountedHosts

LEMMA CoveredKept ==
  ASSUME SweepInv, [QueueNext]_queueVars
  PROVE  CoveredSoFar'
<1>1. /\ SweepTypes /\ SubnetsSoFar /\ CoveredSoFar /\ known' = known
      /\ \A h : Skipped(h)' = Skipped(h)
      /\ \A h : Covered(h) => Covered(h)'
  BY InputsKept, CoveredStays DEF SweepInv, inputVars
<1>2. CASE Collect \/ ParseNext
  <2>1. /\ phase' = "parse" /\ seenSubnets' = {} /\ seenEndpoints' = {}
    BY <1>1, <1>2 DEF Collect, ParseNext, SubnetsSoFar, seenVars
  <2> QED
    BY <2>1 DEF CoveredSoFar
<1>3. CASE ParsedAll
  <2>1. /\ phase' = "subnet" /\ seenSubnets' = {} /\ seenEndpoints' = known' /\ index' = 1
        /\ subnets' \in Seq(Subnet)
    BY <1>1, <1>3 DEF ParsedAll, SubnetsSoFar, SweepTypes
  <2>2. \A i \in DOMAIN subnets' : ~(i < 1)
    BY <2>1
  <2> QED
    BY <2>1, <2>2 DEF CoveredSoFar
<1>4. CASE SkipSubnet
  <2>1. /\ phase = "subnet" /\ phase' = "subnet" /\ index' = index + 1
        /\ UNCHANGED <<subnets, seenSubnets, seenEndpoints, queue>>
        /\ index \in DOMAIN subnets /\ DOMAIN subnets \subseteq Nat /\ Current \in Subnet /\ index \in Nat
    BY <1>1, <1>4 DEF SkipSubnet, SweepTypes, seenVars, Current
  <2>2. \A h \in CountedHosts(Current) : Covered(h)
    <3>1. CASE PrefixOf(Current) > Width - 2
      BY <2>1, <3>1, TooLongHasNoHost
    <3>2. CASE SubnetKey(Current) \in seenSubnets
      <4>1. PICK i \in DOMAIN subnets : SubnetKey(subnets[i]) = SubnetKey(Current) /\ i < index
        BY <1>1, <2>1, <3>2 DEF CoveredSoFar
      <4>2. \A h \in CountedHosts(subnets[i]) : Covered(h)
        BY <1>1, <2>1, <4>1 DEF CoveredSoFar
      <4> QED
        BY <4>1, <4>2, SameKeySameHosts
    <3> QED
      BY <1>4, <3>1, <3>2 DEF SkipSubnet
  <2>3. \A i \in DOMAIN subnets : i < index + 1 => \A h \in CountedHosts(subnets[i]) : Covered(h)
    <3>1. \A i \in DOMAIN subnets : i < index + 1 => i < index \/ i = index
      BY <2>1
    <3> QED
      BY <1>1, <2>1, <2>2, <3>1 DEF CoveredSoFar, Current
  <2>4. \A key \in seenSubnets : \E i \in DOMAIN subnets : SubnetKey(subnets[i]) = key /\ i < index + 1
    BY <1>1, <2>1 DEF CoveredSoFar
  <2>5. seenEndpoints' \subseteq (Queued \cup known)'
    BY <1>1, <2>1 DEF CoveredSoFar, Queued
  <2> QED
    BY <1>1, <2>1, <2>3, <2>4, <2>5 DEF CoveredSoFar, CountedHosts
<1>5. CASE OpenSubnet
  <2>1. /\ phase = "subnet" /\ phase' = "hosts" /\ offset' = 1 /\ port' = 1
        /\ seenSubnets' = seenSubnets \cup {SubnetKey(Current)}
        /\ UNCHANGED <<subnets, index, seenEndpoints, queue>>
        /\ index \in DOMAIN subnets /\ Current \in Subnet
    BY <1>1, <1>5 DEF OpenSubnet, SweepTypes, Current
  <2>2. \A key \in seenSubnets' : \E i \in DOMAIN subnets :
          SubnetKey(subnets[i]) = key /\ (i < index \/ i = index)
    BY <1>1, <2>1 DEF CoveredSoFar, Current
  <2>3. NetworkOf(Current) \in Nat /\ (NetworkOf(Current) + 1)..(NetworkOf(Current) + 1 - 1) = {}
    <3>1. NetworkOf(Current) \in Nat
      BY <2>1, AskedHosts
    <3> QED
      BY <3>1
  <2>4. DOMAIN Ports \subseteq Nat \ {0}
    BY PortsAssumption
  <2>5. Current' = Current
    BY <2>1 DEF Current
  <2>6. /\ \A h \in ((NetworkOf(Current) + 1)..(NetworkOf(Current) + offset - 1))' : Covered(h)'
        /\ ~(port' > 1) /\ \A k \in DOMAIN Ports : ~(k < port')
    BY <2>1, <2>3, <2>4, <2>5 DEF NetworkOf, AddressCount, PrefixOf
  <2>7. seenEndpoints' \subseteq (Queued \cup known)'
    BY <1>1, <2>1 DEF CoveredSoFar, Queued
  <2>8. \A i \in DOMAIN subnets : i < index => \A h \in CountedHosts(subnets[i]) : Covered(h)'
    BY <1>1, <2>1 DEF CoveredSoFar
  <2> QED
    BY <2>1, <2>2, <2>6, <2>7, <2>8 DEF CoveredSoFar, CountedHosts
<1>6. CASE QueueEndpoint
  <2>1. /\ phase = "hosts" /\ phase' = "hosts" /\ port' = port + 1
        /\ UNCHANGED <<subnets, index, offset, seenSubnets>>
        /\ seenEndpoints' = seenEndpoints \cup {Endpoint}
        /\ ~Skipped(Host) /\ port \in Nat /\ DOMAIN Ports \subseteq Nat
    BY <1>1, <1>6, PortsAssumption DEF QueueEndpoint, SweepTypes
  <2>2. Current' = Current /\ Host' = Host
    BY <2>1 DEF Current, Host
  <2>3. seenEndpoints' \subseteq (Queued \cup known)'
    <3>1. \/ Queued' = Queued \cup {Endpoint}
          \/ Endpoint \in seenEndpoints /\ Queued' = Queued
      BY <1>1, <1>6, QueueStep
    <3> QED
      BY <1>1, <2>1, <3>1 DEF CoveredSoFar
  <2>4. \A k \in DOMAIN Ports : k < port + 1 => <<Host, Ports[k]>> \in seenEndpoints'
    <3>1. \A k \in DOMAIN Ports : k < port + 1 => k < port \/ k = port
      BY <2>1
    <3>2. \A k \in DOMAIN Ports : k < port => <<Host, Ports[k]>> \in seenEndpoints
      BY <1>1, <2>1 DEF CoveredSoFar
    <3> QED
      BY <2>1, <3>1, <3>2 DEF Endpoint
  <2>5. /\ \A i \in DOMAIN subnets : i < index => \A h \in CountedHosts(subnets[i]) : Covered(h)'
        /\ \A h \in (NetworkOf(Current) + 1)..(NetworkOf(Current) + offset - 1) : Covered(h)'
    BY <1>1, <2>1 DEF CoveredSoFar
  <2>6. \A key \in seenSubnets : \E i \in DOMAIN subnets :
          SubnetKey(subnets[i]) = key /\ (i < index \/ i = index)
    BY <1>1, <2>1 DEF CoveredSoFar
  <2> QED
    BY <1>1, <2>1, <2>2, <2>3, <2>4, <2>5, <2>6 DEF CoveredSoFar, CountedHosts
<1>7. CASE NextHost
  <2>1. /\ phase = "hosts" /\ phase' = "hosts" /\ port' = 1 /\ offset' = offset + 1
        /\ UNCHANGED <<subnets, index, seenSubnets, seenEndpoints, queue>>
        /\ offset \in Nat \ {0} /\ port \in Nat
        /\ Skipped(Host) \/ port > Len(Ports)
    BY <1>1, <1>7 DEF NextHost, SweepTypes, seenVars
  <2>2. Current' = Current
    BY <2>1 DEF Current
  <2>3. NetworkOf(Current) \in Nat
    <3>1. index \in DOMAIN subnets
      BY <1>1, <2>1 DEF SweepTypes, SubnetsSoFar
    <3>2. Current \in Subnet
      BY <1>1, <3>1 DEF SweepTypes, Current
    <3> QED
      BY <3>2, AskedHosts
  <2>4. Covered(Host)
    <3>1. CASE Skipped(Host)
      BY <3>1 DEF Covered
    <3>2. CASE port > Len(Ports)
      <4>1. \A k \in DOMAIN Ports : k < port
        BY <2>1, <3>2, PortsAssumption
      <4>2. \A k \in DOMAIN Ports : <<Host, Ports[k]>> \in Queued \cup known
        BY <1>1, <2>1, <4>1 DEF CoveredSoFar
      <4> QED
        BY <4>2 DEF Covered, PortSet
    <3> QED
      BY <2>1, <3>1, <3>2
  <2>5. \A h \in (NetworkOf(Current) + 1)..(NetworkOf(Current) + (offset + 1) - 1) : Covered(h)
    <3>1. \A h \in (NetworkOf(Current) + 1)..(NetworkOf(Current) + (offset + 1) - 1) :
            h \in (NetworkOf(Current) + 1)..(NetworkOf(Current) + offset - 1) \/ h = Host
      BY <2>1, <2>3 DEF Host
    <3> QED
      BY <1>1, <2>1, <2>4, <3>1 DEF CoveredSoFar
  <2>6. DOMAIN Ports \subseteq Nat \ {0}
    BY PortsAssumption
  <2>7. ~(port' > 1) /\ \A k \in DOMAIN Ports : ~(k < port')
    BY <2>1, <2>6
  <2>8. seenEndpoints' \subseteq (Queued \cup known)'
    BY <1>1, <2>1 DEF CoveredSoFar, Queued
  <2>9. \A i \in DOMAIN subnets : i < index => \A h \in CountedHosts(subnets[i]) : Covered(h)'
    BY <1>1, <2>1 DEF CoveredSoFar
  <2>10. \A key \in seenSubnets : \E i \in DOMAIN subnets :
           SubnetKey(subnets[i]) = key /\ (i < index \/ i = index)
    BY <1>1, <2>1 DEF CoveredSoFar
  <2> QED
    BY <1>1, <2>1, <2>2, <2>5, <2>7, <2>8, <2>9, <2>10 DEF CoveredSoFar, CountedHosts
<1>8. CASE CloseSubnet
  <2>1. /\ phase = "hosts" /\ phase' = "subnet" /\ index' = index + 1
        /\ UNCHANGED <<subnets, seenSubnets, seenEndpoints, queue>>
        /\ offset > HostCount(Current) /\ offset \in Nat /\ index \in Nat
        /\ index \in DOMAIN subnets /\ Current \in Subnet /\ DOMAIN subnets \subseteq Nat
    <3>1. index \in DOMAIN subnets
      BY <1>1, <1>8 DEF CloseSubnet, SweepTypes, SubnetsSoFar
    <3> QED
      BY <1>1, <1>8, <3>1 DEF CloseSubnet, SweepTypes, seenVars, Current
  <2>2. \A h \in CountedHosts(Current) : Covered(h)
    <3>1. NetworkOf(Current) \in Nat /\ HostCount(Current) \in Int
      BY <2>1, AskedHosts
    <3>2. CountedHosts(Current) \subseteq (NetworkOf(Current) + 1)..(NetworkOf(Current) + offset - 1)
      BY <2>1, <3>1 DEF CountedHosts
    <3> QED
      BY <1>1, <2>1, <3>2 DEF CoveredSoFar
  <2>3. \A i \in DOMAIN subnets : i < index + 1 => \A h \in CountedHosts(subnets[i]) : Covered(h)
    <3>1. \A i \in DOMAIN subnets : i < index + 1 => i < index \/ i = index
      BY <2>1
    <3> QED
      BY <1>1, <2>1, <2>2, <3>1 DEF CoveredSoFar, Current
  <2>4. \A key \in seenSubnets : \E i \in DOMAIN subnets : SubnetKey(subnets[i]) = key /\ i < index + 1
    BY <1>1, <2>1 DEF CoveredSoFar
  <2>5. seenEndpoints' \subseteq (Queued \cup known)'
    BY <1>1, <2>1 DEF CoveredSoFar, Queued
  <2> QED
    BY <1>1, <2>1, <2>3, <2>4, <2>5 DEF CoveredSoFar, CountedHosts
<1>9. CASE QueueIsReady \/ UNCHANGED queueVars
  <2>1. /\ UNCHANGED <<subnets, index, offset, port, seenSubnets, seenEndpoints, queue>>
        /\ phase' = phase \/ (phase = "subnet" /\ phase' = "done")
    BY <1>9 DEF QueueIsReady, queueVars, seenVars
  <2>2. Queued' = Queued /\ Current' = Current /\ Host' = Host
    BY <2>1 DEF Queued, Current, Host
  <2> QED
    BY <1>1, <2>1, <2>2 DEF CoveredSoFar, CountedHosts
<1> QED
  BY <1>2, <1>3, <1>4, <1>5, <1>6, <1>7, <1>8, <1>9 DEF QueueNext

LEMMA SweepKept == SweepInv /\ [QueueNext]_queueVars => SweepInv'
  BY TypesKept, SubnetsKept, QueuedKept, CoveredKept DEF SweepInv

LEMMA SweepAlways == QueueSpec => []SweepInv
  BY SweepInitially, SweepKept, PTL DEF QueueSpec

\* Whatever subnets the settings and the machine name, a sweep probes hosts of
\* theirs only, of each no more than the limit, and neither a network or
\* broadcast address nor a reserved one nor one of this machine (lines 351-368).
THEOREM HostsAskedFor == QueueSpec => []OnlyHostsAskedFor
<1>1. ASSUME SweepInv PROVE OnlyHostsAskedFor
  <2>1. /\ QueuedAsked /\ Given \subseteq Subnet
    <3>1. Given \subseteq Subnet
      <4>1. \A c \in Cidr : Parses(c) => Parsed(c) \in Subnet
        BY ParsedType
      <4>2. local \in Seq(Subnet) /\ cidrs \in Seq(Cidr)
        BY <1>1 DEF SweepInv, SweepTypes
      <4>3. (\A i \in DOMAIN local : local[i] \in Subnet) /\ (\A i \in DOMAIN cidrs : cidrs[i] \in Cidr)
        BY <4>2
      <4> QED
        BY <4>1, <4>3 DEF Given
    <3> QED
      BY <1>1, <3>1 DEF SweepInv
  <2>2. ASSUME NEW e \in Queued
        PROVE  /\ \E s \in Given :
                    /\ e[1] \in HostsOf(BlockAround(s))
                    /\ Cardinality({g \in HostsOf(BlockAround(s)) : g < e[1]}) < MaxHosts
               /\ e[1] \notin Reserved \cup LocalAddresses
               /\ e[2] \in PortSet
    <3>1. PICK s \in Given : e[1] \in CountedHosts(s)
      BY <2>1 DEF QueuedAsked
    <3>2. e[1] \in Asked(s)
      BY <2>1, <3>1, AskedHosts DEF CountedHosts
    <3> QED
      BY <2>1, <3>1, <3>2 DEF QueuedAsked, Asked, Skipped
  <2> QED
    BY <2>2 DEF OnlyHostsAskedFor
<1> QED
  BY <1>1, SweepAlways, PTL

\* When the queue is ready, every host of every subnet asked for is in it, up to
\* the limit of each subnet: none is lost to a subnet that overlaps it, to one
\* that is skipped as seen, or to the bounds of the loops (lines 351-376).
THEOREM EverySubnetCovered == QueueSpec => []SubnetsAreCovered
<1>1. ASSUME SweepInv PROVE SubnetsAreCovered
  <2> SUFFICES ASSUME phase = "done",
                      NEW s \in Given, NEW h \in HostsOf(BlockAround(s)),
                      Cardinality({g \in HostsOf(BlockAround(s)) : g < h}) < MaxHosts
               PROVE  h \in Reserved \cup LocalAddresses
                        \/ \A p \in PortSet : <<h, p>> \in Queued \cup known
    BY DEF SubnetsAreCovered
  <2>1. PICK i \in DOMAIN subnets : subnets[i] = s
    BY <1>1 DEF SweepInv, SubnetsSoFar, Collected
  <2>2. i < index /\ s \in Subnet
    BY <1>1, <2>1 DEF SweepInv, SweepTypes, SubnetsSoFar
  <2>3. h \in CountedHosts(s)
    <3>1. h \in Asked(s)
      BY DEF Asked
    <3> QED
      BY <2>2, <3>1, AskedHosts DEF CountedHosts
  <2>4. Covered(h)
    BY <1>1, <2>1, <2>2, <2>3 DEF SweepInv, CoveredSoFar
  <2> QED
    BY <2>4 DEF Covered, Skipped
<1> QED
  BY <1>1, SweepAlways, PTL
====
