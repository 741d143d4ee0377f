--------------------------- MODULE MCSettingsPage ---------------------------
EXTENDS SettingsPage

PlcEntry == [host |-> "plc", range |-> "narrow", usable |-> TRUE]
UnusableEntry == [host |-> "local", range |-> "default", usable |-> FALSE]

Enabled(targets) == [enabled |-> TRUE, sweep |-> FALSE, parses |-> TRUE, targets |-> targets]

\* Discovery off; on with no target; on with one that the constructor accepts and
\* one that it does not or finds to be no object.
SomeManifests ==
  {[enabled |-> FALSE, sweep |-> FALSE, parses |-> TRUE, targets |-> <<>>],
   [enabled |-> TRUE, sweep |-> TRUE, parses |-> TRUE, targets |-> <<>>],
   Enabled(<<PlcEntry, UnusableEntry>>), Enabled(<<NoObject, PlcEntry>>)}

\* What is not typed is loaded from the finder or is the default of a field.
SomeEdits == {[range |-> "narrow", sweep |-> FALSE, parses |-> TRUE],
              [range |-> "default", sweep |-> TRUE, parses |-> FALSE]}
=============================================================================
