---------------------------- MODULE RegisterScan ----------------------------
(***************************************************************************)
(* The read-only scan of a device and what the operator is offered for it: *)
(* scanTable, compactRanges and scanModbusRegisters in                     *)
(* engine/src/modbus_register_scanner.cpp, suggestionGroup, appendChannels *)
(* and announce in engine/src/modbus_device_discovery.cpp.                 *)
(*                                                                         *)
(* The scan asks for every address of a range in each of the four tables,  *)
(* one at a time.  The device answers as it likes and may change in        *)
(* between.                                                                *)
(***************************************************************************)
EXTENDS Integers, Sequences, FiniteSets, Functions

CONSTANTS StartAddress, EndAddress,  \* the range scanned
          MaxChannels,               \* 4096: at most so many channels are suggested
          AutoMap                    \* auto_map_responding_addresses

ASSUME RangeAssumption ==
  /\ StartAddress \in Nat /\ EndAddress \in Nat /\ StartAddress <= EndAddress
ASSUME ChannelsAssumption == MaxChannels \in Nat \ {0}
ASSUME AutoMapAssumption == AutoMap \in BOOLEAN

\* In the order of the scan, and of the groups of a suggestion.
Tables == <<"coils", "discrete_inputs", "holding_registers", "input_registers">>
TableNames == {Tables[i] : i \in DOMAIN Tables}
Writable == {"coils", "holding_registers"}
AddressRange == StartAddress..EndAddress

\* What modbus_read_... returns: a value, one of two exceptions, or any other
\* error, a timeout for instance.
Outcomes == {"value", "illegal_address", "illegal_function", "error"}

VARIABLES
  stage,      \* how far the scan and the announcement have come, or failed with an exception
  table,      \* the position in Tables of the table they have come to
  address,    \* the next address of it
  addresses,  \* TableScan::addresses of each table
  supported,  \* TableScan::supported of each table
  replies,    \* what the device answered so far (history)
  position,   \* of compactRanges in the addresses, of appendChannels in the ranges
  open,       \* the range that compactRanges has not closed: its start and end
  ranges,     \* what compactRanges returns for each table
  channels,   \* the suggested channels: table and address
  read,       \* those among them for a read task
  write       \* those among them for a write task

scanVars == <<addresses, supported, replies>>
suggestionVars == <<channels, read, write>>
scannerVars == <<stage, table, address, scanVars, position, open, ranges, suggestionVars>>

NoRange == [start |-> 0, end |-> -1]

ScanInit ==
  /\ stage = "connecting"
  /\ table = 1
  /\ address = StartAddress
  /\ addresses = [t \in TableNames |-> <<>>]
  /\ supported = [t \in TableNames |-> TRUE]
  /\ replies = [x \in TableNames \X AddressRange |-> "unasked"]
  /\ position = 1
  /\ open = NoRange
  /\ ranges = [t \in TableNames |-> <<>>]
  /\ channels = <<>>
  /\ read = <<>>
  /\ write = <<>>

-----------------------------------------------------------------------------
Connect ==
  /\ stage = "connecting"
  /\ stage' = "scanning"
  /\ UNCHANGED <<table, address, scanVars, position, open, ranges, suggestionVars>>

\* scanModbusRegisters refuses the request or cannot connect.
ConnectFails ==
  /\ stage = "connecting"
  /\ stage' = "failed"
  /\ UNCHANGED <<table, address, scanVars, position, open, ranges, suggestionVars>>

CurrentTable == Tables[table]
Asking == stage = "scanning" /\ table <= Len(Tables) /\ address <= EndAddress
Reply(outcome) == replies' = [replies EXCEPT ![<<CurrentTable, address>>] = outcome]

AddressAnswers ==
  /\ Asking
  /\ Reply("value")
  /\ addresses' = [addresses EXCEPT ![CurrentTable] = Append(@, address)]
  /\ address' = address + 1
  /\ UNCHANGED <<stage, table, supported, position, open, ranges, suggestionVars>>

AddressIsIllegal ==
  /\ Asking
  /\ Reply("illegal_address")
  /\ address' = address + 1
  /\ UNCHANGED <<stage, table, addresses, supported, position, open, ranges, suggestionVars>>

\* Bug: what answered before the exception stays in the result.
KeepsAddresses ==
  /\ Asking
  /\ Reply("illegal_function")
  /\ supported' = [supported EXCEPT ![CurrentTable] = FALSE]
  /\ UNCHANGED addresses
  /\ table' = table + 1
  /\ address' = StartAddress
  /\ UNCHANGED <<stage, position, open, ranges, suggestionVars>>

\* The device does not know the function: the table is left.
FunctionIsIllegal ==
  /\ Asking
  /\ Reply("illegal_function")
  /\ supported' = [supported EXCEPT ![CurrentTable] = FALSE]
  /\ addresses' = [addresses EXCEPT ![CurrentTable] = <<>>]
  /\ table' = table + 1
  /\ address' = StartAddress
  /\ UNCHANGED <<stage, position, open, ranges, suggestionVars>>

\* Any other error throws away the whole scan, the other tables included.
ReadFails ==
  /\ Asking
  /\ Reply("error")
  /\ stage' = "failed"
  /\ UNCHANGED <<table, address, addresses, supported, position, open, ranges, suggestionVars>>

NextTable ==
  /\ stage = "scanning" /\ table <= Len(Tables) /\ address > EndAddress
  /\ table' = table + 1
  /\ address' = StartAddress
  /\ UNCHANGED <<stage, scanVars, position, open, ranges, suggestionVars>>

ScanIsDone ==
  /\ stage = "scanning" /\ table > Len(Tables)
  /\ stage' = "compacting"
  /\ table' = 1
  /\ UNCHANGED <<address, scanVars, position, open, ranges, suggestionVars>>

-----------------------------------------------------------------------------
Found == addresses[CurrentTable]
Compacting == stage = "compacting" /\ table <= Len(Tables)

\* compactRanges returns at once for a table in which nothing was found.
NothingFound ==
  /\ Compacting /\ Found = <<>>
  /\ table' = table + 1
  /\ UNCHANGED <<stage, address, scanVars, position, open, ranges, suggestionVars>>

FirstFound ==
  /\ Compacting /\ Found # <<>> /\ position = 1
  /\ open' = [start |-> Found[1], end |-> Found[1]]
  /\ position' = 2
  /\ UNCHANGED <<stage, table, address, scanVars, ranges, suggestionVars>>

\* Bug: a range goes on over an address that did not answer.
SkipsOne == Found[position] <= open.end + 2

\* The next address goes on where the open range ends.
Continues == Found[position] = open.end + 1

ExtendRange ==
  /\ Compacting /\ position \in 2..Len(Found) /\ Continues
  /\ open' = [open EXCEPT !.end = Found[position]]
  /\ position' = position + 1
  /\ UNCHANGED <<stage, table, address, scanVars, ranges, suggestionVars>>

NextRange ==
  /\ Compacting /\ position \in 2..Len(Found) /\ ~Continues
  /\ ranges' = [ranges EXCEPT ![CurrentTable] = Append(@, open)]
  /\ open' = [start |-> Found[position], end |-> Found[position]]
  /\ position' = position + 1
  /\ UNCHANGED <<stage, table, address, scanVars, suggestionVars>>

LastRange ==
  /\ Compacting /\ position > 1 /\ position > Len(Found)
  /\ ranges' = [ranges EXCEPT ![CurrentTable] = Append(@, open)]
  /\ open' = NoRange
  /\ position' = 1
  /\ table' = table + 1
  /\ UNCHANGED <<stage, address, scanVars, suggestionVars>>

\* scanModbusRegisters returns, and announce() begins.
ScanReturns ==
  /\ stage = "compacting" /\ table > Len(Tables)
  /\ stage' = "groups"
  /\ table' = 1
  /\ UNCHANGED <<address, scanVars, position, open, ranges, suggestionVars>>

-----------------------------------------------------------------------------
\* The groups for which suggestionGroup() enables a task by default.
Suggested == AutoMap /\ supported[CurrentTable] /\ Found # <<>>

\* Bug: the task of a group does not depend on whether it can be written.
WritesEverything(t) == TRUE

\* The first enabled task of a group: the write task where there is one.
ForWriting(t) == t \in Writable

\* appendChannels comes to the next range of a group.
OpenRange ==
  /\ stage = "groups" /\ table <= Len(Tables) /\ Suggested
  /\ position <= Len(ranges[CurrentTable])
  /\ address' = ranges[CurrentTable][position].start
  /\ stage' = "range"
  /\ UNCHANGED <<table, scanVars, position, open, ranges, suggestionVars>>

\* There is room for another channel, and another address in the range.
Room == Len(channels) < MaxChannels
InRange == address <= ranges[CurrentTable][position].end

SuggestChannel ==
  LET channel == <<CurrentTable, address>>
  IN  /\ stage = "range" /\ InRange /\ Room
      /\ channels' = Append(channels, channel)
      /\ read' = IF ForWriting(CurrentTable) THEN read ELSE Append(read, channel)
      /\ write' = IF ForWriting(CurrentTable) THEN Append(write, channel) ELSE write
      /\ address' = address + 1
      /\ UNCHANGED <<stage, table, scanVars, position, open, ranges>>

CloseRange ==
  /\ stage = "range" /\ ~(InRange /\ Room)
  /\ position' = position + 1
  /\ stage' = "groups"
  /\ UNCHANGED <<table, address, scanVars, open, ranges, suggestionVars>>

\* A group for which no task is enabled, or the ranges of one are over.
NextGroup ==
  /\ stage = "groups" /\ table <= Len(Tables)
  /\ ~Suggested \/ position > Len(ranges[CurrentTable])
  /\ table' = table + 1
  /\ position' = 1
  /\ UNCHANGED <<stage, address, scanVars, open, ranges, suggestionVars>>

SuggestionIsReady ==
  /\ stage = "groups" /\ table > Len(Tables)
  /\ stage' = "suggested"
  /\ UNCHANGED <<table, address, scanVars, position, open, ranges, suggestionVars>>

ScanNext ==
  \/ Connect \/ ConnectFails
  \/ AddressAnswers \/ AddressIsIllegal \/ FunctionIsIllegal \/ ReadFails
  \/ NextTable \/ ScanIsDone
  \/ NothingFound \/ FirstFound \/ ExtendRange \/ NextRange \/ LastRange \/ ScanReturns
  \/ OpenRange \/ SuggestChannel \/ CloseRange \/ NextGroup \/ SuggestionIsReady

ScanSpec == ScanInit /\ [][ScanNext]_scannerVars

-----------------------------------------------------------------------------
Answered(t) == {a \in AddressRange : replies[<<t, a>>] = "value"}
Complete == stage \in {"groups", "range", "suggested"}

\* A scan that returns tells the whole truth about every table: a supported one
\* was asked address by address and lists what answered, an unsupported one
\* lists nothing although addresses may have answered before the exception.
ScanTellsWhatAnswered ==
  Complete => \A t \in TableNames :
    IF supported[t]
      THEN /\ \A a \in AddressRange : replies[<<t, a>>] \in {"value", "illegal_address"}
           /\ Range(addresses[t]) = Answered(t)
      ELSE /\ \E a \in AddressRange : replies[<<t, a>>] = "illegal_function"
           /\ addresses[t] = <<>>

\* The ranges reported hold the addresses found and no other, and no two of them
\* could be one.
RangesAreExact ==
  Complete => \A t \in TableNames :
    /\ UNION {r.start..r.end : r \in Range(ranges[t])} = Range(addresses[t])
    /\ \A i \in DOMAIN ranges[t] : ranges[t][i].start <= ranges[t][i].end
    /\ \A i, j \in DOMAIN ranges[t] : i < j => ranges[t][i].end + 1 < ranges[t][j].start

\* What is suggested can be done: a write task writes only to coils and holding
\* registers, a read task does not repeat them, and every channel is an address
\* that answered, suggested once. Until the maximum is reached, which is counted
\* over the four tables, nothing that answered is left out.
SuggestionsAreSound ==
  stage = "suggested" =>
    /\ \A c \in Range(channels) : supported[c[1]] /\ c[2] \in Answered(c[1])
    /\ IsInjective(channels)
    /\ Range(write) \subseteq Writable \X AddressRange
    /\ Range(read) \cap (Writable \X AddressRange) = {}
    /\ Len(read) + Len(write) = Len(channels)
    /\ AutoMap /\ Len(channels) < MaxChannels =>
         \A t \in TableNames : supported[t] => {t} \X Answered(t) \subseteq Range(channels)

\* "The finder probes this inclusive range in all four Modbus address spaces and
\* suggests every responding address" (pluginSettings.tsx:192).
EveryAnswerSuggested ==
  stage = "suggested" /\ AutoMap =>
    \A t \in TableNames : supported[t] => {t} \X Answered(t) \subseteq Range(channels)
=============================================================================
