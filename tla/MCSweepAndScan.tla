--------------------------- MODULE MCSweepAndScan ---------------------------
EXTENDS SweepAndScan

\* One port is named twice.
SomePorts == <<1, 2, 1>>

\* Subnets that overlap, that begin alike, that are wider than the minimum,
\* that hold no host, that state no prefix and that do not parse.
SomeCidrs ==
  {[address |-> a, prefix |-> p] : a \in {9, 17}, p \in {0, 2, 3, 4, 6, NoPrefix}}
    \cup {[address |-> 30, prefix |-> 3]}

\* This machine, alone or with a second address.
SomeLocalSubnets ==
  {<<>>,
   <<[address |-> 10, prefix |-> 3]>>,
   <<[address |-> 18, prefix |-> 1], [address |-> 9, prefix |-> 5]>>}

SomeTargets == {<<11, 1>>, <<17, 2>>}
=============================================================================
