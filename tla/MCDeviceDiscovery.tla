-------------------------- MODULE MCDeviceDiscovery --------------------------
EXTENDS DeviceDiscovery

CONSTANTS e1, e2, e3

\* One configured target with two units that are told apart; the sweep adds up
\* to two more, with the units of the scan in force.
OneTarget == <<[endpoint |-> e1, units |-> <<1, 255>>, scanAll |-> TRUE, range |-> "default"]>>
NoTarget == {<<>>}
Either == {OneTarget, <<>>}

WideScan == [enabled |-> TRUE, candidates |-> {e1, e2, e3}, units |-> <<1>>]
PairScan == [enabled |-> TRUE, candidates |-> {e1, e2}, units |-> <<1, 255>>]
NoScan == [enabled |-> FALSE, candidates |-> {}, units |-> <<1>>]
SomeScans == {WideScan, PairScan, NoScan}

SomeModules == {<<e1, 1>>}
=============================================================================
