----------------------- MODULE RegisterScan_proofs -----------------------
(***************************************************************************)
(* Proofs about the scan and the suggestion, for any range of addresses    *)
(* and whatever the device answers: what a scan returns is what was        *)
(* answered, compactRanges loses and invents nothing, and the channels     *)
(* suggested are addresses that answered, as many as the maximum allows.   *)
(***************************************************************************)
EXTENDS RegisterScan, FiniteSetTheorems, FunctionTheorems, TLAPS

Bounds == [start : Nat, end : Int]

ScanTypes ==
  /\ stage \in {"connecting", "scanning", "compacting", "groups", "range", "suggested", "failed"}
  /\ table \in 1..5
  /\ address \in Nat
  /\ addresses \in [TableNames -> Seq(AddressRange)]
  /\ supported \in [TableNames -> BOOLEAN]
  /\ replies \in [TableNames \X AddressRange -> Outcomes \cup {"unasked"}]
  /\ position \in Nat \ {0}
  /\ open \in Bounds
  /\ ranges \in [TableNames -> Seq(Bounds)]

-----------------------------------------------------------------------------
(***************************************************************************)
(* The scan: tables before the current one are told, those after it are    *)
(* untouched, and the current one is told up to the next address.          *)
(***************************************************************************)
Told(t) ==
  IF supported[t]
    THEN /\ \A a \in AddressRange : replies[<<t, a>>] \in {"value", "illegal_address"}
         /\ Range(addresses[t]) = Answered(t)
    ELSE /\ \E a \in AddressRange : replies[<<t, a>>] = "illegal_function"
         /\ addresses[t] = <<>>

ToldSoFar ==
  /\ supported[CurrentTable]
  /\ address \in StartAddress..(EndAddress + 1)
  /\ \A a \in AddressRange : a < address => replies[<<CurrentTable, a>>] \in {"value", "illegal_address"}
  /\ Range(addresses[CurrentTable]) = {a \in AddressRange : a < address /\ replies[<<CurrentTable, a>>] = "value"}

ScanInv ==
  /\ stage = "connecting" => table = 1 /\ address = StartAddress
  /\ stage \in {"connecting", "scanning"} =>
       /\ \A i \in DOMAIN Tables : i < table => Told(Tables[i])
       /\ \A i \in DOMAIN Tables : table < i => supported[Tables[i]] /\ addresses[Tables[i]] = <<>>
       /\ table <= Len(Tables) => ToldSoFar
  /\ stage \in {"compacting", "groups", "range", "suggested"} => \A t \in TableNames : Told(t)

Increasing(list) == \A i, j \in DOMAIN list : i < j => list[i] < list[j]

Ordered == \A t \in TableNames : Increasing(addresses[t])

-----------------------------------------------------------------------------
LEMMA TableFacts ==
  /\ Len(Tables) = 4 /\ DOMAIN Tables = 1..4
  /\ \A i, j \in 1..4 : Tables[i] = Tables[j] => i = j
  /\ \A i \in 1..4 : Tables[i] \in TableNames
  /\ \A t \in TableNames : \E i \in 1..4 : t = Tables[i]
<1>1. Len(Tables) = 4 /\ DOMAIN Tables = 1..4
  BY DEF Tables
<1>2. /\ Tables[1] = "coils" /\ Tables[2] = "discrete_inputs"
      /\ Tables[3] = "holding_registers" /\ Tables[4] = "input_registers"
  BY DEF Tables
<1>3. ASSUME NEW i \in 1..4, NEW j \in 1..4, Tables[i] = Tables[j] PROVE i = j
  BY <1>2, <1>3
<1> QED
  BY <1>1, <1>3 DEF TableNames

LEMMA RangeOfAppend ==
  ASSUME NEW S, NEW list \in Seq(S), NEW e
  PROVE  Range(Append(list, e)) = Range(list) \cup {e}
<1> DEFINE longer == Append(list, e)
<1>1. DOMAIN longer = 1..(Len(list) + 1) /\ DOMAIN list = 1..Len(list) /\ Len(list) \in Nat
  OBVIOUS
<1>2. longer[Len(list) + 1] = e /\ \A i \in 1..Len(list) : longer[i] = list[i]
  OBVIOUS
<1>3. Len(list) + 1 \in DOMAIN longer /\ \A i \in DOMAIN list : i \in DOMAIN longer
  BY <1>1
<1> HIDE DEF longer
<1>4. Range(longer) \subseteq Range(list) \cup {e}
  <2> SUFFICES ASSUME NEW i \in DOMAIN longer PROVE longer[i] \in Range(list) \cup {e}
    BY DEF Range
  <2>1. CASE i = Len(list) + 1
    BY <1>2, <2>1
  <2>2. CASE i \in 1..Len(list)
    BY <1>1, <1>2, <2>2 DEF Range
  <2> QED
    BY <1>1, <2>1, <2>2
<1>5. Range(list) \subseteq Range(longer)
  BY <1>1, <1>2, <1>3 DEF Range
<1>6. e \in Range(longer)
  BY <1>2, <1>3 DEF Range
<1> QED
  BY <1>4, <1>5, <1>6 DEF longer

LEMMA RangeOfEmpty == Range(<<>>) = {}
  BY DEF Range

LEMMA RangeInside ==
  ASSUME NEW S, NEW list \in Seq(S) PROVE Range(list) \subseteq S
  BY DEF Range

LEMMA AddressFacts ==
  /\ AddressRange \subseteq Nat /\ StartAddress \in Nat /\ EndAddress \in Nat /\ StartAddress <= EndAddress
  /\ \A a \in Int : a \in AddressRange <=> StartAddress <= a /\ a <= EndAddress
  /\ IsFiniteSet(AddressRange)
<1>1. IsFiniteSet(StartAddress..EndAddress)
  BY RangeAssumption, FS_Interval
<1> QED
  BY <1>1, RangeAssumption DEF AddressRange

-----------------------------------------------------------------------------
LEMMA InitScan == ScanInit => ScanTypes /\ ScanInv /\ Ordered
<1> SUFFICES ASSUME ScanInit PROVE ScanTypes /\ ScanInv /\ Ordered
  OBVIOUS
<1>1. ScanTypes
  BY AddressFacts DEF ScanInit, ScanTypes, Outcomes, Bounds, NoRange
<1>2. ScanInv
  <2>1. CurrentTable \in TableNames /\ Range(addresses[CurrentTable]) = {}
    BY TableFacts, RangeOfEmpty DEF ScanInit, CurrentTable
  <2>2. \A a \in AddressRange : ~(a < address)
    BY AddressFacts DEF ScanInit
  <2>3. ToldSoFar
    BY <2>1, <2>2, AddressFacts DEF ScanInit, ToldSoFar
  <2> QED
    BY <2>3, TableFacts DEF ScanInit, ScanInv
<1>3. Ordered
  BY DEF ScanInit, Ordered, Increasing
<1> QED
  BY <1>1, <1>2, <1>3

\* One request answered, nothing else of the history changes.
LEMMA Replied ==
  ASSUME NEW outcome, ScanTypes, CurrentTable \in TableNames, Reply(outcome)
  PROVE  \A t \in TableNames, a \in AddressRange :
           replies'[<<t, a>>] = IF t = CurrentTable /\ a = address THEN outcome ELSE replies[<<t, a>>]
  BY DEF ScanTypes, Reply

\* Where the scan asks: an address of the range in one of the tables.
LEMMA WhereAsking ==
  ASSUME ScanTypes, ScanInv, Asking
  PROVE  /\ table \in 1..4 /\ CurrentTable \in TableNames /\ address \in AddressRange
         /\ stage = "scanning" /\ ToldSoFar
<1>1. stage = "scanning" /\ table \in 1..4
  BY TableFacts DEF ScanTypes, Asking
<1>2. CurrentTable \in TableNames /\ ToldSoFar
  BY <1>1, TableFacts DEF CurrentTable, ScanInv
<1>3. address \in AddressRange
  BY <1>2, AddressFacts DEF ToldSoFar, Asking, ScanTypes
<1> QED
  BY <1>1, <1>2, <1>3

\* The other tables are told, or untouched, as before.
LEMMA OthersAsBefore ==
  ASSUME ScanTypes, ScanInv, Asking, NEW outcome, Reply(outcome), table' \in {table, table + 1},
         \A t \in TableNames : t # CurrentTable => addresses'[t] = addresses[t] /\ supported'[t] = supported[t]
  PROVE  /\ \A i \in DOMAIN Tables : i < table => Told(Tables[i])'
         /\ \A i \in DOMAIN Tables : table < i => supported'[Tables[i]] /\ addresses'[Tables[i]] = <<>>
<1>1. ASSUME NEW i \in DOMAIN Tables, i < table PROVE Told(Tables[i])'
  <2>1. Tables[i] \in TableNames /\ Tables[i] # CurrentTable
    BY <1>1, TableFacts, WhereAsking DEF CurrentTable
  <2>2. \A a \in AddressRange : replies'[<<Tables[i], a>>] = replies[<<Tables[i], a>>]
    BY <2>1, Replied, WhereAsking
  <2>3. Told(Tables[i])
    BY <1>1, WhereAsking DEF ScanInv
  <2>4. Answered(Tables[i])' = Answered(Tables[i])
    BY <2>2 DEF Answered
  <2> QED
    BY <2>1, <2>2, <2>3, <2>4 DEF Told
<1>2. ASSUME NEW i \in DOMAIN Tables, table < i
      PROVE  supported'[Tables[i]] /\ addresses'[Tables[i]] = <<>>
  <2>1. Tables[i] \in TableNames /\ Tables[i] # CurrentTable
    BY <1>2, TableFacts, WhereAsking DEF CurrentTable
  <2> QED
    BY <1>2, <2>1, WhereAsking DEF ScanInv
<1> QED
  BY <1>1, <1>2

LEMMA AddressAnswersKeepsScan ==
  ASSUME ScanTypes, ScanInv, Ordered, AddressAnswers
  PROVE  ScanTypes' /\ ScanInv' /\ Ordered'
<1> USE DEF AddressAnswers
<1>0. /\ table \in 1..4 /\ CurrentTable \in TableNames /\ address \in AddressRange
      /\ stage = "scanning" /\ ToldSoFar
  BY WhereAsking
<1>1. /\ addresses' \in [TableNames -> Seq(AddressRange)]
      /\ addresses'[CurrentTable] = Append(addresses[CurrentTable], address)
      /\ \A t \in TableNames : t # CurrentTable => addresses'[t] = addresses[t]
  BY <1>0 DEF ScanTypes
<1>2. replies' \in [TableNames \X AddressRange -> Outcomes \cup {"unasked"}]
  BY <1>0 DEF ScanTypes, Reply, Outcomes
<1>3. ScanTypes'
  BY <1>0, <1>1, <1>2 DEF ScanTypes
<1>4. CurrentTable' = CurrentTable
  BY <1>0 DEF CurrentTable
<1>5. Range(addresses'[CurrentTable]) = Range(addresses[CurrentTable]) \cup {address}
  BY <1>0, <1>1, RangeOfAppend DEF ScanTypes
<1>6. \A a \in AddressRange : a < address + 1 <=> a < address \/ a = address
  BY <1>0, AddressFacts
<1>7. \A a \in AddressRange : replies'[<<CurrentTable, a>>] = IF a = address THEN "value" ELSE replies[<<CurrentTable, a>>]
  BY <1>0, Replied
<1>8. ToldSoFar'
  <2>1. address + 1 \in StartAddress..(EndAddress + 1) /\ ~(address < address)
    BY <1>0, AddressFacts DEF Asking
  <2>2. Range(addresses'[CurrentTable])
          = {a \in AddressRange : a < address + 1 /\ replies'[<<CurrentTable, a>>] = "value"}
    BY <1>0, <1>5, <1>6, <1>7, <2>1 DEF ToldSoFar
  <2> QED
    BY <1>0, <1>4, <1>6, <1>7, <2>1, <2>2 DEF ToldSoFar
<1>9. ScanInv'
  BY <1>0, <1>1, <1>8, OthersAsBefore DEF ScanInv
<1>10. Ordered'
  <2> SUFFICES ASSUME NEW t \in TableNames PROVE Increasing(addresses'[t])
    BY <1>0 DEF Ordered
  <2>1. CASE t # CurrentTable
    BY <1>0, <1>1, <2>1 DEF Ordered
  <2>2. CASE t = CurrentTable
    <3> DEFINE old == addresses[CurrentTable]
    <3>1. old \in Seq(AddressRange) /\ Increasing(old)
      BY <1>0 DEF ScanTypes, Ordered
    <3>2. \A i \in DOMAIN old : old[i] < address
      BY <1>0 DEF ToldSoFar, Range
    <3>3. ASSUME NEW i \in DOMAIN Append(old, address), NEW j \in DOMAIN Append(old, address), i < j
          PROVE  Append(old, address)[i] < Append(old, address)[j]
      BY <1>0, <3>1, <3>2, <3>3 DEF Increasing
    <3> QED
      BY <1>0, <1>1, <2>2, <3>3 DEF Increasing
  <2> QED
    BY <1>0, <2>1, <2>2
<1> QED
  BY <1>0, <1>3, <1>9, <1>10

LEMMA AddressIsIllegalKeepsScan ==
  ASSUME ScanTypes, ScanInv, Ordered, AddressIsIllegal
  PROVE  ScanTypes' /\ ScanInv' /\ Ordered'
<1> USE DEF AddressIsIllegal
<1>0. /\ table \in 1..4 /\ CurrentTable \in TableNames /\ address \in AddressRange
      /\ stage = "scanning" /\ ToldSoFar
  BY WhereAsking
<1>1. replies' \in [TableNames \X AddressRange -> Outcomes \cup {"unasked"}]
  BY <1>0 DEF ScanTypes, Reply, Outcomes
<1>2. ScanTypes'
  BY <1>0, <1>1 DEF ScanTypes
<1>3. CurrentTable' = CurrentTable
  BY <1>0 DEF CurrentTable
<1>4. \A a \in AddressRange : a < address + 1 <=> a < address \/ a = address
  BY <1>0, AddressFacts
<1>5. \A a \in AddressRange :
        replies'[<<CurrentTable, a>>] = IF a = address THEN "illegal_address" ELSE replies[<<CurrentTable, a>>]
  BY <1>0, Replied
<1>6. ToldSoFar'
  <2>1. address + 1 \in StartAddress..(EndAddress + 1) /\ ~(address < address)
    BY <1>0, AddressFacts DEF Asking
  <2>2. {a \in AddressRange : a < address /\ replies[<<CurrentTable, a>>] = "value"}
          = {a \in AddressRange : a < address + 1 /\ replies'[<<CurrentTable, a>>] = "value"}
    BY <1>0, <1>4, <1>5, <2>1
  <2> QED
    BY <1>0, <1>3, <1>4, <1>5, <2>1, <2>2 DEF ToldSoFar
<1>7. ScanInv'
  BY <1>0, <1>6, OthersAsBefore DEF ScanInv
<1> QED
  BY <1>0, <1>2, <1>7 DEF Ordered

\* The next table is untouched, hence told up to its first address.
LEMMA NextIsUntouched ==
  ASSUME ScanTypes, table \in 1..4, table' = table + 1, address' = StartAddress, stage' = "scanning",
         \A i \in DOMAIN Tables : i <= table => Told(Tables[i])',
         \A i \in DOMAIN Tables : table < i => supported'[Tables[i]] /\ addresses'[Tables[i]] = <<>>
  PROVE  ScanInv'
<1>1. ASSUME NEW i \in DOMAIN Tables, i < table + 1 PROVE Told(Tables[i])'
  <2>1. i <= table
    BY <1>1, TableFacts
  <2> QED
    BY <2>1
<1>2. ASSUME table + 1 <= 4 PROVE ToldSoFar'
  <2>1. supported'[Tables[table + 1]] /\ addresses'[Tables[table + 1]] = <<>>
    BY <1>2, TableFacts
  <2>2. CurrentTable' = Tables[table + 1]
    BY DEF CurrentTable
  <2>3. \A a \in AddressRange : ~(a < StartAddress)
    BY AddressFacts
  <2>4. {a \in AddressRange : a < StartAddress /\ replies'[<<Tables[table + 1], a>>] = "value"} = {}
    BY <2>3
  <2>5. Range(addresses'[Tables[table + 1]]) = {}
    BY <2>1, RangeOfEmpty
  <2>6. StartAddress \in StartAddress..(EndAddress + 1)
    BY AddressFacts
  <2> QED
    BY <2>1, <2>2, <2>3, <2>4, <2>5, <2>6 DEF ToldSoFar
<1>3. \A i \in DOMAIN Tables : table + 1 < i => table < i
  BY TableFacts
<1> QED
  BY <1>1, <1>2, <1>3, TableFacts DEF ScanInv

LEMMA FunctionIsIllegalKeepsScan ==
  ASSUME ScanTypes, ScanInv, Ordered, FunctionIsIllegal
  PROVE  ScanTypes' /\ ScanInv' /\ Ordered'
<1> USE DEF FunctionIsIllegal
<1>0. /\ table \in 1..4 /\ CurrentTable \in TableNames /\ address \in AddressRange
      /\ stage = "scanning" /\ ToldSoFar
  BY WhereAsking
<1>1. /\ addresses' \in [TableNames -> Seq(AddressRange)] /\ addresses'[CurrentTable] = <<>>
      /\ \A t \in TableNames : t # CurrentTable => addresses'[t] = addresses[t]
  BY <1>0 DEF ScanTypes
<1>2. /\ supported' \in [TableNames -> BOOLEAN] /\ ~supported'[CurrentTable]
      /\ \A t \in TableNames : t # CurrentTable => supported'[t] = supported[t]
  BY <1>0 DEF ScanTypes
<1>3. replies' \in [TableNames \X AddressRange -> Outcomes \cup {"unasked"}]
  BY <1>0 DEF ScanTypes, Reply, Outcomes
<1>4. ScanTypes'
  BY <1>0, <1>1, <1>2, <1>3, AddressFacts DEF ScanTypes
<1>5. ~supported'[Tables[table]] /\ addresses'[Tables[table]] = <<>>
      /\ \E a \in AddressRange : replies'[<<Tables[table], a>>] = "illegal_function"
  BY <1>0, <1>1, <1>2, Replied DEF CurrentTable
<1>6. ASSUME NEW i \in DOMAIN Tables, i <= table PROVE Told(Tables[i])'
  <2>1. CASE i = table
    BY <1>5, <2>1 DEF Told
  <2>2. CASE i < table
    BY <1>0, <1>1, <1>2, <2>2, OthersAsBefore
  <2> QED
    BY <1>0, <1>6, <2>1, <2>2, TableFacts
<1>7. \A i \in DOMAIN Tables : table < i => supported'[Tables[i]] /\ addresses'[Tables[i]] = <<>>
  BY <1>0, <1>1, <1>2, OthersAsBefore
<1>8. ScanInv'
  BY <1>0, <1>6, <1>7, NextIsUntouched
<1>9. Ordered'
  <2>1. Increasing(addresses'[CurrentTable])
    BY <1>0, <1>1 DEF Increasing
  <2> QED
    BY <1>0, <1>1, <2>1 DEF Ordered
<1> QED
  BY <1>4, <1>8, <1>9

LEMMA NextTableKeepsScan ==
  ASSUME ScanTypes, ScanInv, Ordered, NextTable
  PROVE  ScanTypes' /\ ScanInv' /\ Ordered'
<1> USE DEF NextTable, scanVars
<1>1. table \in 1..4 /\ CurrentTable \in TableNames
  BY TableFacts DEF ScanTypes, CurrentTable
<1>2. ScanTypes'
  BY <1>1, AddressFacts DEF ScanTypes
<1>3. \A a \in AddressRange : a < address
  BY AddressFacts DEF ScanTypes
<1>4. Told(Tables[table])
  <2>1. ToldSoFar
    BY <1>1, TableFacts DEF ScanInv
  <2>2. Range(addresses[Tables[table]]) = Answered(Tables[table])
    BY <2>1, <1>3 DEF ToldSoFar, Answered, CurrentTable
  <2> QED
    BY <2>1, <2>2, <1>3 DEF ToldSoFar, Told, CurrentTable
<1>5. ASSUME NEW i \in DOMAIN Tables, i <= table PROVE Told(Tables[i])'
  <2>1. i = table \/ i < table
    BY <1>1, <1>5, TableFacts
  <2>2. Told(Tables[i])
    BY <1>4, <2>1 DEF ScanInv
  <2> QED
    BY <2>2 DEF Told, Answered
<1>6. \A i \in DOMAIN Tables : table < i => supported'[Tables[i]] /\ addresses'[Tables[i]] = <<>>
  BY DEF ScanInv
<1>7. ScanInv'
  BY <1>1, <1>5, <1>6, NextIsUntouched
<1> QED
  BY <1>2, <1>7 DEF Ordered

\* What the scan has found does not change once it is over.
LEMMA ScanIsKept ==
  ASSUME ScanTypes, ScanInv, Ordered, UNCHANGED scanVars, ScanTypes',
         \/ stage' = "failed"
         \/ stage = "connecting" /\ stage' = "scanning" /\ UNCHANGED <<table, address>>
         \/ /\ stage \in {"compacting", "groups", "range", "suggested"}
            /\ stage' \in {"compacting", "groups", "range", "suggested"}
  PROVE  ScanInv' /\ Ordered'
<1>1. Ordered'
  BY DEF Ordered, scanVars
<1>2. \A t \in TableNames : Told(t)' = Told(t)
  BY DEF Told, Answered, scanVars
<1>3. CASE stage' = "failed"
  BY <1>1, <1>3 DEF ScanInv
<1>4. CASE stage = "connecting" /\ stage' = "scanning" /\ UNCHANGED <<table, address>>
  <2>1. \A i \in DOMAIN Tables : Told(Tables[i])' = Told(Tables[i])
    BY <1>2, TableFacts
  <2>2. ToldSoFar' = ToldSoFar
    BY <1>4 DEF ToldSoFar, CurrentTable, scanVars
  <2> QED
    BY <1>4, <2>1, <2>2, <1>1, TableFacts DEF ScanInv, scanVars
<1>5. CASE /\ stage \in {"compacting", "groups", "range", "suggested"}
           /\ stage' \in {"compacting", "groups", "range", "suggested"}
  BY <1>1, <1>2, <1>5 DEF ScanInv
<1> QED
  BY <1>1, <1>3, <1>4, <1>5

LEMMA ScanIsDoneKeepsScan ==
  ASSUME ScanTypes, ScanInv, Ordered, ScanIsDone
  PROVE  ScanTypes' /\ ScanInv' /\ Ordered'
<1> USE DEF ScanIsDone, scanVars
<1>1. ScanTypes'
  BY DEF ScanTypes
<1>2. ASSUME NEW t \in TableNames PROVE Told(t)'
  <2>1. PICK i \in 1..4 : t = Tables[i]
    BY TableFacts
  <2>2. Told(Tables[i])
    BY TableFacts DEF ScanInv, ScanTypes
  <2> QED
    BY <2>1, <2>2 DEF Told, Answered
<1> QED
  BY <1>1, <1>2 DEF ScanInv, Ordered

LEMMA ReadFailsKeepsScan ==
  ASSUME ScanTypes, ScanInv, Ordered, ReadFails
  PROVE  ScanTypes' /\ ScanInv' /\ Ordered'
<1>1. replies' \in [TableNames \X AddressRange -> Outcomes \cup {"unasked"}]
  BY WhereAsking DEF ReadFails, ScanTypes, Reply, Outcomes
<1> QED
  BY <1>1 DEF ReadFails, ScanTypes, ScanInv, Ordered

-----------------------------------------------------------------------------
(***************************************************************************)
(* The scan alone: its types, what it told, and the order of the addresses.*)
(***************************************************************************)
Scanned == ScanTypes /\ ScanInv /\ Ordered

\* The steps after the scan: compactRanges and announce() only read its result.
AfterScan ==
  \/ NothingFound \/ FirstFound \/ ExtendRange \/ NextRange \/ LastRange \/ ScanReturns
  \/ OpenRange \/ SuggestChannel \/ CloseRange \/ NextGroup \/ SuggestionIsReady

LEMMA AppendOpen ==
  ASSUME ScanTypes, ranges' = [ranges EXCEPT ![CurrentTable] = Append(@, open)]
  PROVE  ranges' \in [TableNames -> Seq(Bounds)]
<1>1. CASE CurrentTable \in TableNames
  BY <1>1 DEF ScanTypes
<1>2. CASE CurrentTable \notin TableNames
  BY <1>2 DEF ScanTypes
<1> QED
  BY <1>1, <1>2

LEMMA ExtendBounds ==
  ASSUME NEW o \in Bounds, NEW e \in Int
  PROVE  /\ [o EXCEPT !.end = e] \in Bounds
         /\ [o EXCEPT !.end = e].start = o.start /\ [o EXCEPT !.end = e].end = e
BY DEF Bounds

LEMMA CompactingTypes ==
  ASSUME ScanTypes, Compacting PROVE table \in 1..4 /\ CurrentTable \in TableNames /\ Found \in Seq(AddressRange)
<1>1. table \in 1..4 /\ CurrentTable \in TableNames
  BY TableFacts DEF ScanTypes, Compacting, CurrentTable
<1> QED
  BY <1>1 DEF ScanTypes, Found

LEMMA FoundIsAddress ==
  ASSUME ScanTypes, Compacting, NEW i \in 1..Len(Found) PROVE Found[i] \in AddressRange /\ Found[i] \in Nat
<1>1. Found \in Seq(AddressRange)
  BY CompactingTypes
<1>2. Found[i] \in AddressRange
  BY <1>1
<1> QED
  BY <1>2, AddressFacts

LEMMA AfterScanTypes == ScanTypes /\ AfterScan => ScanTypes'
<1> SUFFICES ASSUME ScanTypes, AfterScan PROVE ScanTypes'
  OBVIOUS
<1>1. CASE NothingFound
  <2>1. table \in 1..4
    BY <1>1, CompactingTypes DEF NothingFound
  <2> QED
    BY <1>1, <2>1 DEF NothingFound, ScanTypes, scanVars
<1>2. CASE FirstFound
  <2>1. Found \in Seq(AddressRange) /\ Found # <<>>
    BY <1>2, CompactingTypes DEF FirstFound
  <2>2. Found[1] \in Nat
    BY <1>2, <2>1, FoundIsAddress DEF FirstFound
  <2>3. open' \in Bounds
    BY <1>2, <2>2 DEF FirstFound, Bounds
  <2> QED
    BY <1>2, <2>3 DEF FirstFound, ScanTypes, scanVars
<1>3. CASE ExtendRange
  <2>1. Found[position] \in Nat
    BY <1>3, FoundIsAddress, CompactingTypes DEF ExtendRange
  <2>2. open' \in Bounds
    BY <1>3, <2>1, ExtendBounds DEF ExtendRange, ScanTypes
  <2> QED
    BY <1>3, <2>2 DEF ExtendRange, ScanTypes, scanVars
<1>4. CASE NextRange
  <2>1. Found[position] \in Nat
    BY <1>4, FoundIsAddress, CompactingTypes DEF NextRange
  <2>2. open' \in Bounds
    BY <1>4, <2>1 DEF NextRange, Bounds
  <2>3. ranges' \in [TableNames -> Seq(Bounds)]
    BY <1>4, AppendOpen DEF NextRange
  <2> QED
    BY <1>4, <2>2, <2>3 DEF NextRange, ScanTypes, scanVars
<1>5. CASE LastRange
  <2>1. table \in 1..4
    BY <1>5, CompactingTypes DEF LastRange
  <2>2. ranges' \in [TableNames -> Seq(Bounds)]
    BY <1>5, AppendOpen DEF LastRange
  <2>3. open' \in Bounds
    BY <1>5 DEF LastRange, NoRange, Bounds
  <2> QED
    BY <1>5, <2>1, <2>2, <2>3 DEF LastRange, ScanTypes, scanVars
<1>6. CASE ScanReturns
  BY <1>6 DEF ScanReturns, ScanTypes, scanVars
<1>7. CASE OpenRange
  <2>1. table \in 1..4 /\ CurrentTable \in TableNames
    BY <1>7, TableFacts DEF OpenRange, CurrentTable, ScanTypes
  <2>2. ranges[CurrentTable] \in Seq(Bounds) /\ position \in 1..Len(ranges[CurrentTable])
    BY <1>7, <2>1 DEF OpenRange, ScanTypes
  <2>3. ranges[CurrentTable][position] \in Bounds
    BY <2>2
  <2>4. address' \in Nat
    BY <1>7, <2>3 DEF OpenRange, Bounds
  <2> QED
    BY <1>7, <2>4 DEF OpenRange, ScanTypes, scanVars
<1>8. CASE SuggestChannel
  BY <1>8 DEF SuggestChannel, ScanTypes, scanVars
<1>9. CASE CloseRange
  BY <1>9 DEF CloseRange, ScanTypes, scanVars
<1>10. CASE NextGroup
  <2>1. table \in 1..4
    BY <1>10, TableFacts DEF NextGroup, ScanTypes
  <2> QED
    BY <1>10, <2>1 DEF NextGroup, ScanTypes, scanVars
<1>11. CASE SuggestionIsReady
  BY <1>11 DEF SuggestionIsReady, ScanTypes, scanVars
<1> QED
  BY <1>1, <1>2, <1>3, <1>4, <1>5, <1>6, <1>7, <1>8, <1>9, <1>10, <1>11 DEF AfterScan

LEMMA AfterScanPhases ==
  AfterScan =>
    /\ UNCHANGED scanVars
    /\ stage \in {"compacting", "groups", "range", "suggested"}
    /\ stage' \in {"compacting", "groups", "range", "suggested"}
BY DEF AfterScan, NothingFound, FirstFound, ExtendRange, NextRange, LastRange, ScanReturns, OpenRange,
   SuggestChannel, CloseRange, NextGroup, SuggestionIsReady, Compacting

LEMMA NextKeepsScan == Scanned /\ [ScanNext]_scannerVars => Scanned'
<1> SUFFICES ASSUME ScanTypes, ScanInv, Ordered, [ScanNext]_scannerVars PROVE ScanTypes' /\ ScanInv' /\ Ordered'
  BY DEF Scanned
<1>1. CASE Connect
  <2>1. ScanTypes'
    BY <1>1 DEF Connect, ScanTypes, scanVars
  <2> QED
    BY <1>1, <2>1, ScanIsKept DEF Connect
<1>2. CASE ConnectFails
  <2>1. ScanTypes'
    BY <1>2 DEF ConnectFails, ScanTypes, scanVars
  <2> QED
    BY <1>2, <2>1, ScanIsKept DEF ConnectFails
<1>3. CASE AddressAnswers
  BY <1>3, AddressAnswersKeepsScan
<1>4. CASE AddressIsIllegal
  BY <1>4, AddressIsIllegalKeepsScan
<1>5. CASE FunctionIsIllegal
  BY <1>5, FunctionIsIllegalKeepsScan
<1>6. CASE ReadFails
  BY <1>6, ReadFailsKeepsScan
<1>7. CASE NextTable
  BY <1>7, NextTableKeepsScan
<1>8. CASE ScanIsDone
  BY <1>8, ScanIsDoneKeepsScan
<1>9. CASE AfterScan
  BY <1>9, AfterScanTypes, AfterScanPhases, ScanIsKept
<1>10. CASE UNCHANGED scannerVars
  <2> USE <1>10 DEF scannerVars, scanVars
  <2>1. ScanTypes' /\ Ordered'
    BY DEF ScanTypes, Ordered
  <2>2. \A t \in TableNames : Told(t)' = Told(t)
    BY DEF Told, Answered
  <2>3. ToldSoFar' = ToldSoFar
    BY DEF ToldSoFar, CurrentTable
  <2>4. \A i \in DOMAIN Tables : Told(Tables[i])' = Told(Tables[i])
    BY <2>2, TableFacts
  <2>5. ScanInv'
    BY <2>2, <2>3, <2>4 DEF ScanInv
  <2> QED
    BY <2>1, <2>5
<1> QED
  BY <1>1, <1>2, <1>3, <1>4, <1>5, <1>6, <1>7, <1>8, <1>9, <1>10 DEF ScanNext, AfterScan

LEMMA AlwaysScanned == ScanSpec => []Scanned
<1>1. ScanInit => Scanned
  BY InitScan DEF Scanned
<1> QED
  BY <1>1, NextKeepsScan, PTL DEF ScanSpec

\* scanTable: whatever the device answers, and although it may change between
\* two requests, a scan that returns lists for every table it supports exactly
\* the addresses that answered, and nothing for a table it does not.
THEOREM ToldWhatAnswered == ScanSpec => []ScanTellsWhatAnswered
<1>1. Scanned => ScanTellsWhatAnswered
  BY DEF Scanned, ScanInv, ScanTellsWhatAnswered, Complete, Told
<1> QED
  BY <1>1, AlwaysScanned, PTL

-----------------------------------------------------------------------------
(***************************************************************************)
(* compactRanges: of the first n addresses of found, what the closed       *)
(* ranges of the list and the open range hold.                             *)
(***************************************************************************)
Union(list) == UNION {r.start..r.end : r \in Range(list)}

Apart(list) ==
  /\ \A i \in DOMAIN list : list[i].start <= list[i].end
  /\ \A i, j \in DOMAIN list : i < j => list[i].end + 1 < list[j].start

Gathered(list, last, found, n) ==
  /\ last.start <= last.end /\ last.end = found[n]
  /\ Union(list) \cup (last.start..last.end) = {found[i] : i \in 1..n}
  /\ Apart(list)
  /\ \A i \in DOMAIN list : list[i].end + 1 < last.start

LEMMA UnionOfAppend ==
  ASSUME NEW list \in Seq(Bounds), NEW last \in Bounds
  PROVE  Union(Append(list, last)) = Union(list) \cup (last.start..last.end)
<1>1. Range(Append(list, last)) = Range(list) \cup {last}
  BY RangeOfAppend
<1> QED
  BY <1>1 DEF Union

LEMMA UnionOfNone == Union(<<>>) = {} /\ Apart(<<>>)
  BY RangeOfEmpty DEF Union, Apart

LEMMA ApartAppend ==
  ASSUME NEW list \in Seq(Bounds), NEW last \in Bounds, Apart(list), last.start <= last.end,
         \A i \in DOMAIN list : list[i].end + 1 < last.start
  PROVE  Apart(Append(list, last))
<1> DEFINE longer == Append(list, last)
<1>1. DOMAIN longer = 1..(Len(list) + 1) /\ DOMAIN list = 1..Len(list) /\ Len(list) \in Nat
  OBVIOUS
<1>2. longer[Len(list) + 1] = last /\ \A i \in 1..Len(list) : longer[i] = list[i]
  OBVIOUS
<1> HIDE DEF longer
<1>3. ASSUME NEW i \in DOMAIN longer PROVE longer[i].start <= longer[i].end
  <2>1. CASE i \in 1..Len(list)
    BY <1>1, <1>2, <2>1 DEF Apart
  <2>2. CASE i = Len(list) + 1
    BY <1>2, <2>2
  <2> QED
    BY <1>1, <2>1, <2>2
<1>4. ASSUME NEW i \in DOMAIN longer, NEW j \in DOMAIN longer, i < j
      PROVE  longer[i].end + 1 < longer[j].start
  <2>1. i \in 1..Len(list) /\ longer[i] = list[i]
    BY <1>1, <1>2, <1>4
  <2>2. CASE j \in 1..Len(list)
    BY <1>1, <1>2, <1>4, <2>1, <2>2 DEF Apart
  <2>3. CASE j = Len(list) + 1
    BY <1>1, <1>2, <2>1, <2>3
  <2> QED
    BY <1>1, <2>2, <2>3
<1> QED
  BY <1>3, <1>4 DEF Apart, longer

\* The first n + 1 of a list are the first n and one more.
LEMMA OneMore ==
  ASSUME NEW found, NEW n \in Nat
  PROVE  {found[i] : i \in 1..(n + 1)} = {found[i] : i \in 1..n} \cup {found[n + 1]}
<1>1. 1..(n + 1) = (1..n) \cup {n + 1}
  OBVIOUS
<1> QED
  BY <1>1

LEMMA GatherFirst ==
  ASSUME NEW found \in Seq(Nat), found # <<>>
  PROVE  Gathered(<<>>, [start |-> found[1], end |-> found[1]], found, 1)
<1>1. found[1] \in Nat /\ 1..1 = {1}
  OBVIOUS
<1>2. {found[i] : i \in 1..1} = {found[1]} /\ found[1]..found[1] = {found[1]}
  BY <1>1
<1> QED
  BY <1>1, <1>2, UnionOfNone DEF Gathered, Apart

LEMMA GatherMore ==
  ASSUME NEW list \in Seq(Bounds), NEW last \in Bounds, NEW found \in Seq(Nat), NEW n \in Nat \ {0},
         n < Len(found), Gathered(list, last, found, n), found[n + 1] = last.end + 1
  PROVE  Gathered(list, [last EXCEPT !.end = found[n + 1]], found, n + 1)
<1> DEFINE longer == [last EXCEPT !.end = found[n + 1]]
<1>1. last.start \in Nat /\ last.end \in Int
  BY DEF Bounds
<1>2. longer.start = last.start /\ longer.end = last.end + 1 /\ longer.end = found[n + 1]
  BY <1>1, ExtendBounds
<1> HIDE DEF longer
<1>3. last.start <= last.end
  BY DEF Gathered
<1>4. longer.start..longer.end = (last.start..last.end) \cup {found[n + 1]}
  BY <1>1, <1>2, <1>3
<1>5. Union(list) \cup (longer.start..longer.end) = {found[i] : i \in 1..(n + 1)}
  <2>1. Union(list) \cup (last.start..last.end) = {found[i] : i \in 1..n}
    BY DEF Gathered
  <2>2. {found[i] : i \in 1..(n + 1)} = {found[i] : i \in 1..n} \cup {found[n + 1]}
    BY OneMore
  <2> QED
    BY <1>4, <2>1, <2>2
<1>6. longer.start <= longer.end
  BY <1>1, <1>2, <1>3
<1> QED
  BY <1>2, <1>5, <1>6 DEF Gathered, longer

\* Who ends before a range begins ends before what comes after it.
LEMMA EndsBefore ==
  ASSUME NEW a \in Int, NEW b \in Int, NEW c \in Int, NEW d \in Int,
         a + 1 < b, b <= c, c + 1 < d
  PROVE  a + 1 < d
  OBVIOUS

LEMMA GatherNext ==
  ASSUME NEW list \in Seq(Bounds), NEW last \in Bounds, NEW found \in Seq(Nat), NEW n \in Nat \ {0},
         n < Len(found), Gathered(list, last, found, n), Increasing(found), found[n + 1] # last.end + 1
  PROVE  Gathered(Append(list, last), [start |-> found[n + 1], end |-> found[n + 1]], found, n + 1)
<1> DEFINE next == [start |-> found[n + 1], end |-> found[n + 1]]
           longer == Append(list, last)
<1>1. found[n + 1] \in Nat /\ last.end \in Int /\ last.start \in Nat /\ last.end = found[n] /\ last.start <= last.end
  BY DEF Gathered, Bounds
<1>2. last.end + 1 < found[n + 1]
  <2>1. found[n] < found[n + 1]
    BY DEF Increasing
  <2> QED
    BY <1>1, <2>1
<1>3. next.start = found[n + 1] /\ next.end = found[n + 1]
  OBVIOUS
<1>4. found[n + 1]..found[n + 1] = {found[n + 1]}
  BY <1>1
<1>5. Union(longer) \cup (found[n + 1]..found[n + 1]) = {found[i] : i \in 1..(n + 1)}
  <2>1. Union(longer) = Union(list) \cup (last.start..last.end)
    BY UnionOfAppend
  <2>2. Union(longer) = {found[i] : i \in 1..n}
    BY <2>1 DEF Gathered
  <2> HIDE DEF longer
  <2> QED
    BY <1>4, <2>2, OneMore
<1>6. Apart(longer)
  BY ApartAppend DEF Gathered
<1>7. \A i \in DOMAIN longer : longer[i].end + 1 < found[n + 1]
  <2> SUFFICES ASSUME NEW i \in DOMAIN longer PROVE longer[i].end + 1 < found[n + 1]
    OBVIOUS
  <2>1. CASE i = Len(list) + 1
    BY <1>2, <2>1
  <2>2. CASE i \in DOMAIN list
    <3>1. longer[i] = list[i] /\ list[i] \in Bounds
      BY <2>2
    <3>2. list[i].end \in Int
      BY <3>1 DEF Bounds
    <3>3. list[i].end + 1 < last.start
      BY <2>2 DEF Gathered
    <3> HIDE DEF longer, next
    <3>4. last.end \in Int /\ last.start \in Int /\ found[n + 1] \in Int /\ last.start <= last.end
      BY <1>1
    <3>5. list[i].end + 1 < found[n + 1]
      BY <1>2, <3>2, <3>3, <3>4, EndsBefore
    <3> QED
      BY <3>1, <3>5
  <2> QED
    BY <2>1, <2>2
<1> HIDE DEF next, longer
<1>8. Gathered(longer, next, found, n + 1)
  <2>1. next.start <= next.end /\ next.end = found[n + 1]
    BY <1>1, <1>3
  <2>2. Union(longer) \cup (next.start..next.end) = {found[i] : i \in 1..(n + 1)}
    BY <1>3, <1>5
  <2>3. \A i \in DOMAIN longer : longer[i].end + 1 < next.start
    BY <1>3, <1>7
  <2> QED
    BY <1>6, <2>1, <2>2, <2>3 DEF Gathered
<1> QED
  BY <1>8 DEF next, longer

LEMMA GatherAll ==
  ASSUME NEW list \in Seq(Bounds), NEW last \in Bounds, NEW found \in Seq(Nat), found # <<>>,
         Gathered(list, last, found, Len(found))
  PROVE  Union(Append(list, last)) = Range(found) /\ Apart(Append(list, last))
<1>1. {found[i] : i \in 1..Len(found)} = Range(found)
  BY DEF Range
<1> QED
  BY <1>1, UnionOfAppend, ApartAppend DEF Gathered

-----------------------------------------------------------------------------
(***************************************************************************)
(* The ranges of the tables before the current one are exact, those of the *)
(* current one hold what was passed.                                       *)
(***************************************************************************)
Exact(t) == Union(ranges[t]) = Range(addresses[t]) /\ Apart(ranges[t])

OpenSoFar ==
  /\ position \in 1..(Len(Found) + 1)
  /\ position = 1 => ranges[CurrentTable] = <<>>
  /\ position > 1 => Gathered(ranges[CurrentTable], open, Found, position - 1)

RangeInv ==
  /\ stage \in {"connecting", "scanning"} => position = 1 /\ \A t \in TableNames : ranges[t] = <<>>
  /\ stage = "compacting" =>
       /\ \A i \in DOMAIN Tables : i < table => Exact(Tables[i])
       /\ \A i \in DOMAIN Tables : table < i => ranges[Tables[i]] = <<>>
       /\ IF table <= Len(Tables) THEN OpenSoFar ELSE position = 1
  /\ stage \in {"groups", "range", "suggested"} => \A t \in TableNames : Exact(t)

LEMMA CompactingFacts ==
  ASSUME Scanned, Compacting
  PROVE  /\ table \in 1..4 /\ CurrentTable \in TableNames /\ CurrentTable = Tables[table] /\ DOMAIN Tables = 1..4
         /\ \A i \in DOMAIN Tables : i # table => Tables[i] # CurrentTable /\ Tables[i] \in TableNames
         /\ Found \in Seq(Nat) /\ Found = addresses[CurrentTable] /\ Increasing(Found)
         /\ open \in Bounds /\ ranges[CurrentTable] \in Seq(Bounds) /\ position \in Nat \ {0}
<1>1. table \in 1..4 /\ CurrentTable \in TableNames /\ Found \in Seq(AddressRange)
  BY CompactingTypes DEF Scanned
<1>2. \A i \in DOMAIN Tables : i # table => Tables[i] # CurrentTable /\ Tables[i] \in TableNames
  BY <1>1, TableFacts DEF CurrentTable
<1>3. Found \in Seq(Nat)
  <2>1. Len(Found) \in Nat /\ DOMAIN Found = 1..Len(Found) /\ Found = [i \in 1..Len(Found) |-> Found[i]]
    BY <1>1
  <2>2. \A i \in 1..Len(Found) : Found[i] \in Nat
    BY FoundIsAddress DEF Scanned
  <2>3. Found \in [1..Len(Found) -> Nat]
    BY <2>1, <2>2
  <2> QED
    BY <2>1, <2>3
<1> QED
  BY <1>1, <1>2, <1>3, TableFacts DEF Scanned, ScanTypes, Ordered, Found, CurrentTable

\* compactRanges goes to the next table.
LEMMA NextTableOpen ==
  ASSUME Scanned, Compacting, stage' = "compacting", table' = table + 1, position' = 1,
         \A i \in DOMAIN Tables : i <= table => Exact(Tables[i])',
         \A i \in DOMAIN Tables : table < i => ranges'[Tables[i]] = <<>>,
         addresses' = addresses
  PROVE  RangeInv'
<1>1. table \in 1..4 /\ DOMAIN Tables = 1..4 /\ Len(Tables) = 4
  BY CompactingFacts, TableFacts
<1>2. \A i \in DOMAIN Tables : i < table + 1 => i <= table
  BY <1>1
<1>3. \A i \in DOMAIN Tables : table + 1 < i => table < i
  BY <1>1
<1>4. ASSUME table + 1 <= 4 PROVE OpenSoFar'
  <2>1. CurrentTable' = Tables[table + 1] /\ table < table + 1 /\ table + 1 \in DOMAIN Tables
    BY <1>1, <1>4 DEF CurrentTable
  <2>2. ranges'[Tables[table + 1]] = <<>>
    BY <2>1
  <2>3. Tables[table + 1] \in TableNames
    BY <1>1, <1>4, TableFacts
  <2>4. Len(addresses[Tables[table + 1]]) \in Nat
    BY <2>3 DEF Scanned, ScanTypes
  <2> QED
    BY <2>1, <2>2, <2>4 DEF OpenSoFar, Found
<1> QED
  BY <1>1, <1>2, <1>3, <1>4 DEF RangeInv

\* One of the addresses is passed: the other tables are as before.
LEMMA PassedOne ==
  ASSUME Scanned, RangeInv, Compacting, UNCHANGED <<stage, table, addresses>>,
         \A t \in TableNames : t # CurrentTable => ranges'[t] = ranges[t], OpenSoFar'
  PROVE  RangeInv'
<1>1. \A i \in DOMAIN Tables : i < table => i # table
  BY CompactingFacts
<1>2. ASSUME NEW i \in DOMAIN Tables, i < table PROVE Exact(Tables[i])'
  <2>1. Exact(Tables[i]) /\ ranges'[Tables[i]] = ranges[Tables[i]]
    BY <1>1, <1>2, CompactingFacts DEF RangeInv, Compacting
  <2> QED
    BY <2>1 DEF Exact
<1>3. ASSUME NEW i \in DOMAIN Tables, table < i PROVE ranges'[Tables[i]] = <<>>
  <2>1. i # table
    BY <1>3, CompactingFacts
  <2> QED
    BY <1>3, <2>1, CompactingFacts DEF RangeInv, Compacting
<1> QED
  BY <1>2, <1>3 DEF RangeInv, Compacting

LEMMA CompactingKeepsRanges ==
  ASSUME Scanned, RangeInv,
         NothingFound \/ FirstFound \/ ExtendRange \/ NextRange \/ LastRange
  PROVE  RangeInv'
<1>0. Compacting /\ OpenSoFar /\ stage = "compacting"
  BY DEF NothingFound, FirstFound, ExtendRange, NextRange, LastRange, Compacting, RangeInv
<1>1. ASSUME NEW i \in DOMAIN Tables, i < table, UNCHANGED addresses,
             \A t \in TableNames : t # CurrentTable => ranges'[t] = ranges[t]
      PROVE  Exact(Tables[i])'
  <2>1. Exact(Tables[i]) /\ i # table
    BY <1>0, <1>1, CompactingFacts DEF RangeInv
  <2>2. ranges'[Tables[i]] = ranges[Tables[i]]
    BY <1>0, <1>1, <2>1, CompactingFacts
  <2> QED
    BY <1>1, <2>1, <2>2 DEF Exact
<1>2. ASSUME NEW i \in DOMAIN Tables, table < i,
             \A t \in TableNames : t # CurrentTable => ranges'[t] = ranges[t]
      PROVE  ranges'[Tables[i]] = <<>>
  <2>1. i # table
    BY <1>0, <1>2, CompactingFacts
  <2> QED
    BY <1>0, <1>2, <2>1, CompactingFacts DEF RangeInv
<1>3. CASE NothingFound
  <2> USE <1>3 DEF NothingFound, scanVars
  <2>1. position = 1 /\ ranges[Tables[table]] = <<>>
    BY <1>0, CompactingFacts DEF OpenSoFar
  <2>2. addresses[Tables[table]] = <<>>
    BY <1>0, CompactingFacts
  <2>3. ASSUME NEW i \in DOMAIN Tables, i <= table PROVE Exact(Tables[i])'
    <3>1. CASE i = table
      BY <2>1, <2>2, <3>1, UnionOfNone, RangeOfEmpty DEF Exact
    <3>2. CASE i < table
      BY <1>1, <3>2
    <3> QED
      BY <1>0, <2>3, <3>1, <3>2, CompactingFacts
  <2> QED
    BY <1>0, <1>2, <2>1, <2>3, NextTableOpen
<1>4. CASE FirstFound
  <2> USE <1>4 DEF FirstFound, scanVars
  <2>1. Gathered(<<>>, [start |-> Found[1], end |-> Found[1]], Found, 1)
    BY <1>0, CompactingFacts, GatherFirst
  <2>2. ranges[CurrentTable] = <<>> /\ CurrentTable' = CurrentTable /\ Found' = Found
    BY <1>0 DEF OpenSoFar, Found, CurrentTable
  <2>3. Len(Found) \in Nat \ {0}
    BY <1>0, CompactingFacts
  <2>4. OpenSoFar'
    BY <1>0, <2>1, <2>2, <2>3 DEF OpenSoFar
  <2> QED
    BY <1>0, <2>4, PassedOne
<1>5. CASE ExtendRange
  <2> USE <1>5 DEF ExtendRange, scanVars
  <2>1. position - 1 \in Nat \ {0} /\ position - 1 < Len(Found) /\ position - 1 + 1 = position
    BY <1>0, CompactingFacts
  <2>2. Gathered(ranges[CurrentTable], open, Found, position - 1)
    BY <1>0, <2>1 DEF OpenSoFar
  <2>3. Gathered(ranges[CurrentTable], [open EXCEPT !.end = Found[position]], Found, position)
    BY <1>0, <2>1, <2>2, CompactingFacts, GatherMore DEF Continues
  <2>4. CurrentTable' = CurrentTable /\ Found' = Found /\ position + 1 - 1 = position /\ position + 1 \in 1..(Len(Found) + 1)
    BY <1>0, <2>1, CompactingFacts DEF Found, CurrentTable
  <2>5. OpenSoFar'
    BY <2>1, <2>3, <2>4 DEF OpenSoFar
  <2> QED
    BY <1>0, <2>5, PassedOne
<1>6. CASE NextRange
  <2> USE <1>6 DEF NextRange, scanVars
  <2>0. position \in Nat /\ position <= Len(Found) /\ Len(Found) \in Nat
    BY <1>0, CompactingFacts
  <2>1. position - 1 \in Nat \ {0} /\ position - 1 < Len(Found) /\ position - 1 + 1 = position
    BY <1>0, CompactingFacts
  <2>2. Gathered(ranges[CurrentTable], open, Found, position - 1)
    BY <1>0, <2>1 DEF OpenSoFar
  <2>3. Gathered(Append(ranges[CurrentTable], open), [start |-> Found[position], end |-> Found[position]], Found, position)
    BY <1>0, <2>1, <2>2, CompactingFacts, GatherNext DEF Continues
  <2>4. CurrentTable' = CurrentTable /\ Found' = Found /\ position + 1 - 1 = position /\ position + 1 \in 1..(Len(Found) + 1)
    <3>1. CurrentTable' = CurrentTable /\ Found' = Found
      BY <1>0 DEF Found, CurrentTable
    <3>2. position + 1 - 1 = position /\ position + 1 \in 1..(Len(Found) + 1)
      BY <2>0
    <3> QED
      BY <3>1, <3>2
  <2>5. ranges'[CurrentTable] = Append(ranges[CurrentTable], open)
        /\ \A t \in TableNames : t # CurrentTable => ranges'[t] = ranges[t]
    BY <1>0, CompactingFacts DEF Scanned, ScanTypes
  <2>6. OpenSoFar'
    BY <2>1, <2>3, <2>4, <2>5 DEF OpenSoFar
  <2> QED
    BY <1>0, <2>5, <2>6, PassedOne
<1>7. CASE LastRange
  <2> USE <1>7 DEF LastRange, scanVars
  <2>1. position - 1 = Len(Found) /\ position > 1
    BY <1>0, CompactingFacts DEF OpenSoFar
  <2>2. Gathered(ranges[CurrentTable], open, Found, Len(Found))
    BY <1>0, <2>1 DEF OpenSoFar
  <2>3. Found # <<>>
    BY <1>0, <2>1, CompactingFacts
  <2>4. /\ Union(Append(ranges[CurrentTable], open)) = Range(Found)
        /\ Apart(Append(ranges[CurrentTable], open))
    BY <1>0, <2>2, <2>3, CompactingFacts, GatherAll
  <2>5. ranges'[CurrentTable] = Append(ranges[CurrentTable], open)
        /\ \A t \in TableNames : t # CurrentTable => ranges'[t] = ranges[t]
    BY <1>0, CompactingFacts DEF Scanned, ScanTypes
  <2>6. ASSUME NEW i \in DOMAIN Tables, i <= table PROVE Exact(Tables[i])'
    <3>1. CASE i = table
      BY <2>4, <2>5, <3>1 DEF Exact, Found, CurrentTable
    <3>2. CASE i < table
      BY <1>1, <2>5, <3>2
    <3> QED
      BY <1>0, <2>6, <3>1, <3>2, CompactingFacts
  <2> QED
    BY <1>0, <1>2, <2>5, <2>6, NextTableOpen
<1> QED
  BY <1>3, <1>4, <1>5, <1>6, <1>7

LEMMA ScanReturnsKeepsRanges ==
  ASSUME Scanned, RangeInv, ScanReturns PROVE RangeInv'
<1>1. ASSUME NEW t \in TableNames PROVE Exact(t)'
  <2>1. PICK i \in 1..4 : t = Tables[i]
    BY TableFacts
  <2>2. i < table /\ i \in DOMAIN Tables
    BY TableFacts DEF ScanReturns, Scanned, ScanTypes
  <2>3. Exact(Tables[i])
    BY <2>2 DEF RangeInv, ScanReturns
  <2> QED
    BY <2>1, <2>3 DEF Exact, ScanReturns, scanVars
<1> QED
  BY <1>1 DEF RangeInv, ScanReturns

\* The scan finds nothing for compactRanges until it is done.
LEMMA ScanKeepsRanges ==
  ASSUME Scanned, RangeInv,
         \/ Connect \/ ConnectFails \/ AddressAnswers \/ AddressIsIllegal \/ FunctionIsIllegal
         \/ ReadFails \/ NextTable \/ ScanIsDone
  PROVE  RangeInv'
<1>1. UNCHANGED <<position, ranges>> /\ stage \in {"connecting", "scanning"}
  BY DEF Connect, ConnectFails, AddressAnswers, AddressIsIllegal, FunctionIsIllegal, ReadFails, NextTable,
     ScanIsDone, Asking
<1>2. position = 1 /\ \A t \in TableNames : ranges[t] = <<>>
  BY <1>1 DEF RangeInv
<1>3. CASE stage' \in {"scanning", "failed"}
  BY <1>1, <1>2, <1>3 DEF RangeInv
<1>4. CASE ScanIsDone
  <2>1. table' = 1 /\ stage' = "compacting" /\ addresses' = addresses
    BY <1>4 DEF ScanIsDone, scanVars
  <2>2. CurrentTable' = Tables[1] /\ Tables[1] \in TableNames
    BY <2>1, TableFacts DEF CurrentTable
  <2>3. Len(addresses[Tables[1]]) \in Nat
    BY <2>2 DEF Scanned, ScanTypes
  <2>4. OpenSoFar'
    BY <1>1, <1>2, <2>1, <2>2, <2>3 DEF OpenSoFar, Found
  <2>5. \A i \in DOMAIN Tables : ~(i < 1) /\ ranges'[Tables[i]] = <<>>
    BY <1>1, <1>2, TableFacts
  <2> QED
    BY <2>1, <2>4, <2>5, TableFacts DEF RangeInv
<1> QED
  BY <1>3, <1>4 DEF Connect, ConnectFails, AddressAnswers, AddressIsIllegal, FunctionIsIllegal, ReadFails,
     NextTable, Asking

\* announce() only reads the ranges.
LEMMA RangesAreKept ==
  ASSUME Scanned, RangeInv, UNCHANGED <<addresses, ranges>>,
         stage \in {"groups", "range", "suggested"}, stage' \in {"groups", "range", "suggested"}
  PROVE  RangeInv'
<1>1. \A t \in TableNames : Exact(t)' = Exact(t)
  BY DEF Exact
<1> QED
  BY <1>1 DEF RangeInv

LEMMA NextKeepsRanges == Scanned /\ RangeInv /\ [ScanNext]_scannerVars => RangeInv'
<1> SUFFICES ASSUME Scanned, RangeInv, [ScanNext]_scannerVars PROVE RangeInv'
  OBVIOUS
<1>1. CASE \/ Connect \/ ConnectFails \/ AddressAnswers \/ AddressIsIllegal \/ FunctionIsIllegal
           \/ ReadFails \/ NextTable \/ ScanIsDone
  BY <1>1, ScanKeepsRanges
<1>2. CASE NothingFound \/ FirstFound \/ ExtendRange \/ NextRange \/ LastRange
  BY <1>2, CompactingKeepsRanges
<1>3. CASE ScanReturns
  BY <1>3, ScanReturnsKeepsRanges
<1>4. CASE OpenRange \/ SuggestChannel \/ CloseRange \/ NextGroup \/ SuggestionIsReady
  BY <1>4, RangesAreKept DEF OpenRange, SuggestChannel, CloseRange, NextGroup, SuggestionIsReady, scanVars
<1>5. CASE UNCHANGED scannerVars
  <2> USE <1>5 DEF scannerVars, scanVars
  <2>1. \A i \in DOMAIN Tables : Exact(Tables[i])' = Exact(Tables[i])
    BY DEF Exact
  <2>2. \A t \in TableNames : Exact(t)' = Exact(t)
    BY DEF Exact
  <2>3. OpenSoFar' = OpenSoFar
    BY DEF OpenSoFar, Found, CurrentTable
  <2> QED
    BY <2>1, <2>2, <2>3 DEF RangeInv
<1> QED
  BY <1>1, <1>2, <1>3, <1>4, <1>5 DEF ScanNext

LEMMA AlwaysRanges == ScanSpec => [](Scanned /\ RangeInv)
<1>1. ScanInit => RangeInv
  BY DEF ScanInit, RangeInv
<1> QED
  BY <1>1, AlwaysScanned, NextKeepsRanges, PTL DEF ScanSpec

\* compactRanges: the ranges reported of a table hold every address found and
\* no other, none is empty, and no two could be one.
THEOREM ExactRanges == ScanSpec => []RangesAreExact
<1>1. Scanned /\ RangeInv => RangesAreExact
  BY DEF RangeInv, RangesAreExact, Complete, Exact, Union, Apart
<1> QED
  BY <1>1, AlwaysRanges, PTL

-----------------------------------------------------------------------------
(***************************************************************************)
(* announce(): the channels are what its loops have passed, all of it as   *)
(* long as there is room.                                                  *)
(***************************************************************************)
PassedHere(a) ==
  \E k \in DOMAIN ranges[CurrentTable] :
    /\ a \in ranges[CurrentTable][k].start..ranges[CurrentTable][k].end
    /\ k < position \/ (stage = "range" /\ k = position /\ a < address)

PassedBefore(t) == \E i \in DOMAIN Tables : i < table /\ Tables[i] = t

Passed(t, a) ==
  /\ AutoMap /\ supported[t] /\ a \in Range(addresses[t])
  /\ PassedBefore(t) \/ (table <= Len(Tables) /\ t = CurrentTable /\ PassedHere(a))

AllPassed == {x \in TableNames \X AddressRange : Passed(x[1], x[2])}

SuggestionTypes ==
  /\ channels \in Seq(TableNames \X AddressRange)
  /\ Len(channels) <= MaxChannels
  /\ IsInjective(channels)
  /\ read \in Seq((TableNames \ Writable) \X AddressRange)
  /\ write \in Seq(Writable \X AddressRange)
  /\ Len(read) + Len(write) = Len(channels)

InGroup ==
  stage = "range" =>
    /\ table \in 1..4 /\ Suggested
    /\ position \in DOMAIN ranges[CurrentTable]
    /\ address \in ranges[CurrentTable][position].start..(ranges[CurrentTable][position].end + 1)

ChannelsArePassed ==
  stage \in {"groups", "range", "suggested"} =>
    /\ Range(channels) \subseteq AllPassed
    /\ Len(channels) < MaxChannels => AllPassed \subseteq Range(channels)

SuggestionInv ==
  /\ SuggestionTypes
  /\ stage \notin {"groups", "range", "suggested"} => channels = <<>>
  /\ stage = "suggested" => table > Len(Tables)
  /\ InGroup
  /\ ChannelsArePassed

Ranged == Scanned /\ RangeInv

-----------------------------------------------------------------------------
LEMMA InitSuggestion == ScanInit => SuggestionInv
<1> SUFFICES ASSUME ScanInit PROVE SuggestionInv
  OBVIOUS
<1>1. channels = <<>> /\ read = <<>> /\ write = <<>> /\ stage = "connecting"
  BY DEF ScanInit
<1>2. SuggestionTypes
  BY <1>1, ChannelsAssumption DEF SuggestionTypes, IsInjective
<1> QED
  BY <1>1, <1>2 DEF SuggestionInv, InGroup, ChannelsArePassed

\* Where announce() is: in one of the four tables.
LEMMA AnnouncingFacts ==
  ASSUME Ranged, table <= Len(Tables), stage \in {"groups", "range"}
  PROVE  /\ table \in 1..4 /\ CurrentTable \in TableNames /\ CurrentTable = Tables[table]
         /\ ranges[CurrentTable] \in Seq(Bounds) /\ Exact(CurrentTable)
         /\ Found = addresses[CurrentTable] /\ Found \in Seq(AddressRange)
         /\ position \in Nat \ {0} /\ address \in Nat
         /\ supported[CurrentTable] \in BOOLEAN
<1>1. table \in 1..4 /\ CurrentTable \in TableNames
  BY TableFacts DEF Ranged, Scanned, ScanTypes, CurrentTable
<1> QED
  BY <1>1 DEF Ranged, Scanned, ScanTypes, RangeInv, CurrentTable, Found

LEMMA BoundsFacts ==
  ASSUME NEW list \in Seq(Bounds), NEW k \in DOMAIN list
  PROVE  list[k].start \in Nat /\ list[k].end \in Int
<1>1. list[k] \in Bounds
  OBVIOUS
<1> QED
  BY <1>1 DEF Bounds

\* An address of the list is in one of its ranges.
LEMMA InUnion ==
  ASSUME NEW list \in Seq(Bounds), NEW a
  PROVE  a \in Union(list) <=> \E k \in DOMAIN list : a \in list[k].start..list[k].end
  BY DEF Union, Range

\* The current table is not one of those before it.
LEMMA NotBefore ==
  ASSUME table \in 1..4 PROVE ~PassedBefore(CurrentTable)
<1> SUFFICES ASSUME NEW i \in DOMAIN Tables, i < table, Tables[i] = CurrentTable PROVE FALSE
  BY DEF PassedBefore
<1> QED
  BY TableFacts DEF CurrentTable

LEMMA AppendInjective ==
  ASSUME NEW S, NEW list \in Seq(S), IsInjective(list), NEW e \in S, e \notin Range(list)
  PROVE  IsInjective(Append(list, e))
<1> DEFINE longer == Append(list, e)
<1>1. DOMAIN longer = 1..(Len(list) + 1) /\ DOMAIN list = 1..Len(list) /\ Len(list) \in Nat
  OBVIOUS
<1>2. longer[Len(list) + 1] = e /\ \A i \in 1..Len(list) : longer[i] = list[i]
  OBVIOUS
<1>3. \A i \in 1..Len(list) : list[i] # e
  BY DEF Range
<1> HIDE DEF longer
<1>4. \A i \in DOMAIN longer : i \in 1..Len(list) \/ i = Len(list) + 1
  BY <1>1
<1>5. ASSUME NEW i \in DOMAIN longer, NEW j \in DOMAIN longer, longer[i] = longer[j] PROVE i = j
  BY <1>1, <1>2, <1>3, <1>4, <1>5 DEF IsInjective
<1> QED
  BY <1>5 DEF IsInjective, longer

-----------------------------------------------------------------------------
(***************************************************************************)
(* The steps of announce().                                                *)
(***************************************************************************)
LEMMA ScanReturnsKeepsSuggestion ==
  ASSUME Ranged, SuggestionInv, ScanReturns PROVE SuggestionInv'
<1> USE DEF ScanReturns, scanVars, suggestionVars
<1>1. SuggestionTypes' /\ channels = <<>>
  BY DEF SuggestionInv, SuggestionTypes
<1>2. position = 1
  BY TableFacts DEF Ranged, RangeInv, Scanned, ScanTypes
<1>3. AllPassed' = {}
  <2> SUFFICES ASSUME NEW t \in TableNames, NEW a \in AddressRange, Passed(t, a)' PROVE FALSE
    BY DEF AllPassed
  <2>1. ~PassedBefore(t)'
    BY TableFacts DEF PassedBefore
  <2>2. PassedHere(a)' /\ CurrentTable' = Tables[1] /\ Tables[1] \in TableNames
    BY <2>1, TableFacts DEF Passed, CurrentTable
  <2>3. PICK k \in DOMAIN ranges[Tables[1]] : k < 1
    BY <1>2, <2>2 DEF PassedHere
  <2>4. ranges[Tables[1]] \in Seq(Bounds)
    BY <2>2 DEF Ranged, Scanned, ScanTypes
  <2> QED
    BY <2>3, <2>4
<1>4. Range(channels') = {}
  BY <1>1, RangeOfEmpty
<1> QED
  BY <1>1, <1>3, <1>4 DEF SuggestionInv, InGroup, ChannelsArePassed

\* A step that passes nothing and suggests nothing.
LEMMA NothingPassed ==
  ASSUME SuggestionInv, UNCHANGED suggestionVars, AllPassed' = AllPassed, InGroup',
         stage \in {"groups", "range"}, stage' \in {"groups", "range", "suggested"},
         stage' = "suggested" => table' > Len(Tables)
  PROVE  SuggestionInv'
  BY DEF SuggestionInv, SuggestionTypes, ChannelsArePassed, suggestionVars

LEMMA OpenRangeKeepsSuggestion ==
  ASSUME Ranged, SuggestionInv, OpenRange PROVE SuggestionInv'
<1> USE DEF OpenRange, scanVars
<1>0. /\ table \in 1..4 /\ CurrentTable = Tables[table] /\ ranges[CurrentTable] \in Seq(Bounds)
      /\ Exact(CurrentTable) /\ position \in DOMAIN ranges[CurrentTable]
  BY AnnouncingFacts
<1>1. CurrentTable' = CurrentTable /\ Suggested' = Suggested
  BY DEF CurrentTable, Suggested, Found
<1> DEFINE range == ranges[CurrentTable][position]
<1>2. range.start \in Nat /\ range.end \in Int /\ range.start <= range.end
  BY <1>0, BoundsFacts DEF Exact, Apart
<1>3. InGroup'
  BY <1>0, <1>1, <1>2 DEF InGroup
<1>4. \A a \in AddressRange : PassedHere(a)' = PassedHere(a)
  <2> SUFFICES ASSUME NEW a \in AddressRange PROVE PassedHere(a)' = PassedHere(a)
    OBVIOUS
  <2>1. a \in Nat
    BY AddressFacts
  <2>2. a \in range.start..range.end => ~(a < range.start)
    BY <1>2, <2>1
  <2> QED
    BY <1>1, <2>2 DEF PassedHere
<1>5. AllPassed' = AllPassed
  <2>1. \A t \in TableNames, a \in AddressRange : Passed(t, a)' = Passed(t, a)
    BY <1>1, <1>4 DEF Passed, PassedBefore
  <2> QED
    BY <2>1 DEF AllPassed
<1> QED
  BY <1>3, <1>5, NothingPassed

LEMMA SuggestionIsReadyKeepsSuggestion ==
  ASSUME Ranged, SuggestionInv, SuggestionIsReady PROVE SuggestionInv'
<1> USE DEF SuggestionIsReady, scanVars
<1>1. ~(table <= Len(Tables))
  BY TableFacts DEF Ranged, Scanned, ScanTypes
<1>2. \A t \in TableNames, a \in AddressRange : Passed(t, a)' = Passed(t, a)
  BY <1>1 DEF Passed, PassedBefore
<1>3. AllPassed' = AllPassed
  BY <1>2 DEF AllPassed
<1> QED
  BY <1>3, NothingPassed DEF InGroup

LEMMA NextGroupKeepsSuggestion ==
  ASSUME Ranged, SuggestionInv, NextGroup PROVE SuggestionInv'
<1> USE DEF NextGroup, scanVars
<1>0. /\ table \in 1..4 /\ CurrentTable = Tables[table] /\ CurrentTable \in TableNames
      /\ ranges[CurrentTable] \in Seq(Bounds) /\ Exact(CurrentTable) /\ position \in Nat \ {0}
      /\ Found = addresses[CurrentTable]
  BY AnnouncingFacts
<1>1. ASSUME NEW t \in TableNames, NEW a \in AddressRange, Passed(t, a) PROVE Passed(t, a)'
  <2>1. PassedBefore(t)'
    BY <1>0, <1>1, TableFacts DEF Passed, PassedBefore
  <2> QED
    BY <1>1, <2>1 DEF Passed
<1>2. ASSUME NEW t \in TableNames, NEW a \in AddressRange, Passed(t, a)' PROVE Passed(t, a)
  <2>1. AutoMap /\ supported[t] /\ a \in Range(addresses[t])
    BY <1>2 DEF Passed
  <2>2. ~(PassedHere(a)' /\ table + 1 <= Len(Tables))
    <3> SUFFICES ASSUME PassedHere(a)', table + 1 <= Len(Tables) PROVE FALSE
      BY DEF Passed
    <3>1. Tables[table + 1] \in TableNames /\ CurrentTable' = Tables[table + 1]
      BY <1>0, TableFacts DEF CurrentTable
    <3>2. ranges[Tables[table + 1]] \in Seq(Bounds)
      BY <3>1 DEF Ranged, Scanned, ScanTypes
    <3>3. PICK k \in DOMAIN ranges[Tables[table + 1]] : k < 1
      BY <3>1 DEF PassedHere
    <3> QED
      BY <3>2, <3>3
  <2>3. PassedBefore(t)'
    BY <1>2, <2>2 DEF Passed
  <2>4. PICK i \in DOMAIN Tables : i < table + 1 /\ Tables[i] = t
    BY <2>3 DEF PassedBefore
  <2>5. CASE i < table
    BY <2>1, <2>4, <2>5 DEF Passed, PassedBefore
  <2>6. CASE i = table
    <3>1. t = CurrentTable /\ Found # <<>>
      BY <1>0, <2>1, <2>4, <2>6, RangeOfEmpty
    <3>2. position > Len(ranges[CurrentTable])
      BY <2>1, <3>1 DEF Suggested
    <3>3. PICK k \in DOMAIN ranges[CurrentTable] : a \in ranges[CurrentTable][k].start..ranges[CurrentTable][k].end
      BY <1>0, <2>1, <3>1, InUnion DEF Exact
    <3>4. k < position
      BY <1>0, <3>2, <3>3
    <3> QED
      BY <1>0, <2>1, <3>1, <3>3, <3>4, TableFacts DEF Passed, PassedHere
  <2> QED
    BY <1>0, <2>4, <2>5, <2>6, TableFacts
<1>3. AllPassed' = AllPassed
  BY <1>1, <1>2 DEF AllPassed
<1> QED
  BY <1>3, NothingPassed DEF InGroup

LEMMA CloseRangeKeepsSuggestion ==
  ASSUME Ranged, SuggestionInv, CloseRange PROVE SuggestionInv'
<1> USE DEF CloseRange, scanVars, suggestionVars
<1>0. /\ table \in 1..4 /\ position \in DOMAIN ranges[CurrentTable]
      /\ address \in ranges[CurrentTable][position].start..(ranges[CurrentTable][position].end + 1)
  BY DEF SuggestionInv, InGroup
<1>1. /\ CurrentTable = Tables[table] /\ CurrentTable \in TableNames /\ ranges[CurrentTable] \in Seq(Bounds)
      /\ position \in Nat \ {0} /\ address \in Nat
  BY <1>0, AnnouncingFacts, TableFacts
<1> DEFINE range == ranges[CurrentTable][position]
<1>2. range.start \in Nat /\ range.end \in Int
  BY <1>0, <1>1, BoundsFacts
<1>3. CurrentTable' = CurrentTable /\ \A t : PassedBefore(t)' = PassedBefore(t)
  BY DEF CurrentTable, PassedBefore
<1>4. ASSUME NEW a \in AddressRange, PassedHere(a) PROVE PassedHere(a)'
  <2>1. PICK k \in DOMAIN ranges[CurrentTable] :
          /\ a \in ranges[CurrentTable][k].start..ranges[CurrentTable][k].end
          /\ k < position \/ k = position
    BY <1>4 DEF PassedHere
  <2>2. k < position + 1
    BY <1>1, <2>1
  <2> QED
    BY <1>3, <2>1, <2>2 DEF PassedHere
<1>5. ASSUME NEW a \in AddressRange, PassedHere(a)', ~InRange PROVE PassedHere(a)
  <2>1. PICK k \in DOMAIN ranges[CurrentTable] :
          a \in ranges[CurrentTable][k].start..ranges[CurrentTable][k].end /\ k < position + 1
    BY <1>3, <1>5 DEF PassedHere
  <2>2. k < position \/ k = position
    BY <1>1, <2>1
  <2>3. CASE k = position
    <3>1. a < address
      BY <1>1, <1>2, <1>5, <2>1, <2>3 DEF InRange
    <3> QED
      BY <2>1, <2>3, <3>1 DEF PassedHere
  <2> QED
    BY <2>1, <2>2, <2>3 DEF PassedHere
<1>6. AllPassed \subseteq AllPassed'
  BY <1>3, <1>4 DEF AllPassed, Passed
<1>7. ~InRange => AllPassed' \subseteq AllPassed
  BY <1>3, <1>5 DEF AllPassed, Passed
<1>8. SuggestionTypes' /\ InGroup'
  BY DEF SuggestionInv, SuggestionTypes, InGroup
<1>9. ChannelsArePassed'
  <2>1. Range(channels) \subseteq AllPassed /\ (Len(channels) < MaxChannels => AllPassed \subseteq Range(channels))
    BY DEF SuggestionInv, ChannelsArePassed
  <2>2. CASE ~InRange
    BY <1>6, <1>7, <2>1, <2>2 DEF ChannelsArePassed
  <2>3. CASE ~Room
    BY <1>6, <2>1, <2>3 DEF ChannelsArePassed, Room
  <2> QED
    BY <2>2, <2>3
<1> QED
  BY <1>8, <1>9 DEF SuggestionInv

LEMMA SuggestChannelKeepsSuggestion ==
  ASSUME Ranged, SuggestionInv, SuggestChannel PROVE SuggestionInv'
<1> DEFINE channel == <<CurrentTable, address>>
<1> USE DEF scanVars
<1>0. /\ table \in 1..4 /\ position \in DOMAIN ranges[CurrentTable] /\ Suggested
      /\ address \in ranges[CurrentTable][position].start..(ranges[CurrentTable][position].end + 1)
      /\ stage = "range" /\ stage' = "range" /\ InRange /\ Room
      /\ UNCHANGED <<table, position, ranges, addresses, supported>> /\ address' = address + 1
  BY DEF SuggestionInv, InGroup, SuggestChannel
<1>1. /\ CurrentTable = Tables[table] /\ CurrentTable \in TableNames /\ ranges[CurrentTable] \in Seq(Bounds)
      /\ position \in Nat \ {0} /\ address \in Nat /\ Exact(CurrentTable) /\ Found = addresses[CurrentTable]
      /\ Found \in Seq(AddressRange)
  BY <1>0, AnnouncingFacts, TableFacts
<1> DEFINE range == ranges[CurrentTable][position]
<1>2. range.start \in Nat /\ range.end \in Int
  BY <1>0, <1>1, BoundsFacts
<1>3. address \in range.start..range.end
  BY <1>0, <1>1, <1>2 DEF InRange
<1>4. address \in Range(Found) /\ address \in AddressRange
  <2>1. address \in Range(Found)
    BY <1>0, <1>1, <1>3, InUnion DEF Exact
  <2> QED
    BY <1>1, <2>1, RangeInside
<1>5. CurrentTable' = CurrentTable /\ Suggested' = Suggested /\ \A t : PassedBefore(t)' = PassedBefore(t)
  BY <1>0 DEF CurrentTable, Suggested, Found, PassedBefore
<1>6. ~PassedHere(address)
  <2> SUFFICES ASSUME NEW k \in DOMAIN ranges[CurrentTable], k < position,
                      address \in ranges[CurrentTable][k].start..ranges[CurrentTable][k].end
               PROVE  FALSE
    BY <1>1 DEF PassedHere
  <2>1. ranges[CurrentTable][k].end + 1 < range.start
    BY <1>0, <1>1 DEF Exact, Apart
  <2>2. ranges[CurrentTable][k].start \in Nat /\ ranges[CurrentTable][k].end \in Int
    BY <1>1, BoundsFacts
  <2> HIDE DEF range
  <2>3. range.start <= address
    BY <1>2, <1>3
  <2> QED
    BY <1>1, <1>2, <2>1, <2>2, <2>3
<1>7. channel \notin AllPassed
  BY <1>0, <1>6, NotBefore DEF AllPassed, Passed
<1>8. channel \in AllPassed'
  <2> SUFFICES ASSUME NEW t \in TableNames, NEW a \in AddressRange, t = CurrentTable, a = address
               PROVE  Passed(t, a)'
    BY <1>1, <1>4 DEF AllPassed
  <2>1. a \in range.start..range.end /\ a < address'
    BY <1>0, <1>1, <1>3
  <2>2. PassedHere(a)'
    BY <1>0, <1>1, <1>5, <2>1 DEF PassedHere
  <2>3. table' <= Len(Tables) /\ t = CurrentTable'
    BY <1>0, <1>5, TableFacts
  <2>4. AutoMap /\ supported'[t] /\ a \in Range(addresses'[t])
    BY <1>0, <1>1, <1>4 DEF Suggested
  <2> QED
    BY <2>2, <2>3, <2>4 DEF Passed
<1>9. ASSUME NEW a \in AddressRange PROVE PassedHere(a)' <=> PassedHere(a) \/ a = address
  <2>1. a \in Nat /\ (a < address + 1 <=> a < address \/ a = address)
    BY <1>1, AddressFacts
  <2> QED
    BY <1>0, <1>1, <1>3, <1>5, <2>1 DEF PassedHere
<1>10. AllPassed' = AllPassed \cup {channel}
  <2>1. ASSUME NEW t \in TableNames, NEW a \in AddressRange
        PROVE  Passed(t, a)' => Passed(t, a) \/ <<t, a>> = channel
    BY <1>0, <1>5, <1>9 DEF Passed
  <2>2. ASSUME NEW t \in TableNames, NEW a \in AddressRange, Passed(t, a)
        PROVE  Passed(t, a)'
    BY <1>0, <1>5, <1>9, <2>2 DEF Passed
  <2>3. AllPassed' \subseteq AllPassed \cup {channel}
    BY <2>1 DEF AllPassed
  <2>4. AllPassed \subseteq AllPassed'
    BY <2>2 DEF AllPassed
  <2> QED
    BY <1>8, <2>3, <2>4
<1>11. /\ Range(channels) \subseteq AllPassed
       /\ Len(channels) < MaxChannels => AllPassed \subseteq Range(channels)
       /\ channels \in Seq(TableNames \X AddressRange) /\ IsInjective(channels)
  BY <1>0 DEF SuggestionInv, ChannelsArePassed, SuggestionTypes
<1>12. channels' = Append(channels, channel) /\ channel \in TableNames \X AddressRange
  BY <1>1, <1>4 DEF SuggestChannel
<1>13. Range(channels') = Range(channels) \cup {channel}
  BY <1>11, <1>12, RangeOfAppend
<1>14. ChannelsArePassed'
  BY <1>0, <1>10, <1>11, <1>13 DEF ChannelsArePassed, Room
<1>15. IsInjective(channels')
  <2>1. channel \notin Range(channels)
    BY <1>7, <1>11
  <2> HIDE DEF channel
  <2> QED
    BY <1>11, <1>12, <2>1, AppendInjective
<1>16. SuggestionTypes'
  <2>1. /\ Len(channels) <= MaxChannels /\ read \in Seq((TableNames \ Writable) \X AddressRange)
        /\ write \in Seq(Writable \X AddressRange) /\ Len(read) + Len(write) = Len(channels)
    BY DEF SuggestionInv, SuggestionTypes
  <2>2. Len(channels) < MaxChannels /\ MaxChannels \in Nat
    BY <1>0, ChannelsAssumption DEF Room
  <2>3. channels' \in Seq(TableNames \X AddressRange) /\ Len(channels') = Len(channels) + 1 /\ Len(channels) \in Nat
    BY <1>11, <1>12
  <2>4. CASE CurrentTable \in Writable
    <3>1. read' = read /\ write' = Append(write, channel) /\ channel \in Writable \X AddressRange
      BY <1>4, <2>4 DEF SuggestChannel, ForWriting
    <3>2. write' \in Seq(Writable \X AddressRange) /\ Len(write') = Len(write) + 1 /\ Len(write) \in Nat /\ Len(read) \in Nat
      BY <2>1, <3>1
    <3> QED
      BY <1>15, <2>1, <2>2, <2>3, <3>1, <3>2 DEF SuggestionTypes
  <2>5. CASE CurrentTable \notin Writable
    <3>1. write' = write /\ read' = Append(read, channel) /\ channel \in (TableNames \ Writable) \X AddressRange
      BY <1>1, <1>4, <2>5 DEF SuggestChannel, ForWriting
    <3>2. read' \in Seq((TableNames \ Writable) \X AddressRange) /\ Len(read') = Len(read) + 1 /\ Len(write) \in Nat /\ Len(read) \in Nat
      BY <2>1, <3>1
    <3> QED
      BY <1>15, <2>1, <2>2, <2>3, <3>1, <3>2 DEF SuggestionTypes
  <2> QED
    BY <2>4, <2>5
<1>17. InGroup'
  <2>1. address + 1 \in range.start..(range.end + 1)
    BY <1>1, <1>2, <1>3
  <2> QED
    BY <1>0, <1>5, <2>1 DEF InGroup
<1> QED
  BY <1>0, <1>14, <1>16, <1>17 DEF SuggestionInv

-----------------------------------------------------------------------------
\* Nothing is suggested before announce() begins.
LEMMA BeforeAnnounce ==
  ASSUME SuggestionInv, UNCHANGED suggestionVars, stage \notin {"groups", "range", "suggested"},
         stage' \notin {"groups", "range", "suggested"}
  PROVE  SuggestionInv'
  BY DEF SuggestionInv, SuggestionTypes, InGroup, ChannelsArePassed, suggestionVars

LEMMA NextKeepsSuggestion == Ranged /\ SuggestionInv /\ [ScanNext]_scannerVars => SuggestionInv'
<1> SUFFICES ASSUME Ranged, SuggestionInv, [ScanNext]_scannerVars PROVE SuggestionInv'
  OBVIOUS
<1>1. CASE \/ Connect \/ ConnectFails \/ AddressAnswers \/ AddressIsIllegal \/ FunctionIsIllegal
           \/ ReadFails \/ NextTable \/ ScanIsDone
  BY <1>1, BeforeAnnounce DEF Connect, ConnectFails, AddressAnswers, AddressIsIllegal, FunctionIsIllegal,
     ReadFails, NextTable, ScanIsDone, Asking
<1>2. CASE NothingFound \/ FirstFound \/ ExtendRange \/ NextRange \/ LastRange
  BY <1>2, BeforeAnnounce DEF NothingFound, FirstFound, ExtendRange, NextRange, LastRange, Compacting
<1>3. CASE ScanReturns
  BY <1>3, ScanReturnsKeepsSuggestion
<1>4. CASE OpenRange
  BY <1>4, OpenRangeKeepsSuggestion
<1>5. CASE SuggestChannel
  BY <1>5, SuggestChannelKeepsSuggestion
<1>6. CASE CloseRange
  BY <1>6, CloseRangeKeepsSuggestion
<1>7. CASE NextGroup
  BY <1>7, NextGroupKeepsSuggestion
<1>8. CASE SuggestionIsReady
  BY <1>8, SuggestionIsReadyKeepsSuggestion
<1>9. CASE UNCHANGED scannerVars
  <2> USE <1>9 DEF scannerVars, scanVars, suggestionVars
  <2>1. AllPassed' = AllPassed
    BY DEF AllPassed, Passed, PassedBefore, PassedHere, CurrentTable
  <2>2. InGroup' = InGroup
    BY DEF InGroup, CurrentTable, Suggested, Found
  <2> QED
    BY <2>1, <2>2 DEF SuggestionInv, SuggestionTypes, ChannelsArePassed
<1> QED
  BY <1>1, <1>2, <1>3, <1>4, <1>5, <1>6, <1>7, <1>8, <1>9 DEF ScanNext

LEMMA AlwaysSuggestion == ScanSpec => [](Ranged /\ SuggestionInv)
<1>1. Ranged <=> Scanned /\ RangeInv
  BY DEF Ranged
<1> QED
  BY <1>1, InitSuggestion, AlwaysRanges, NextKeepsSuggestion, PTL DEF ScanSpec

\* suggestionGroup, appendChannels, announce: a suggested channel is an address
\* that answered, in a group whose first enabled task can use it, and none comes
\* twice; and until the maximum is reached, counted over all groups, none that
\* answered is missing.
THEOREM SoundSuggestions == ScanSpec => []SuggestionsAreSound
<1>1. Ranged /\ SuggestionInv => SuggestionsAreSound
  <2> SUFFICES ASSUME Ranged, SuggestionInv, stage = "suggested" PROVE SuggestionsAreSound
    BY DEF SuggestionsAreSound
  <2>0. /\ channels \in Seq(TableNames \X AddressRange) /\ Len(channels) <= MaxChannels
        /\ IsInjective(channels) /\ read \in Seq((TableNames \ Writable) \X AddressRange)
        /\ write \in Seq(Writable \X AddressRange) /\ Len(read) + Len(write) = Len(channels)
        /\ table > Len(Tables) /\ Range(channels) \subseteq AllPassed
        /\ Len(channels) < MaxChannels => AllPassed \subseteq Range(channels)
    BY DEF SuggestionInv, SuggestionTypes, ChannelsArePassed
  <2>1. \A t \in TableNames : supported[t] => Range(addresses[t]) = Answered(t)
    BY DEF Ranged, Scanned, ScanInv, Told
  <2>2. \A t \in TableNames : PassedBefore(t)
    <3> SUFFICES ASSUME NEW t \in TableNames PROVE PassedBefore(t)
      OBVIOUS
    <3>1. PICK i \in 1..4 : t = Tables[i]
      BY TableFacts
    <3>2. i < table
      BY <2>0, TableFacts DEF Ranged, Scanned, ScanTypes
    <3> QED
      BY <3>1, <3>2, TableFacts DEF PassedBefore
  <2>3. \A c \in AllPassed : supported[c[1]] /\ c[2] \in Answered(c[1])
    BY <2>1 DEF AllPassed, Passed
  <2>4. ASSUME AutoMap, NEW t \in TableNames, supported[t] PROVE {t} \X Answered(t) \subseteq AllPassed
    BY <2>1, <2>2, <2>4 DEF AllPassed, Passed, Answered
  <2>5. \A c \in Range(channels) : supported[c[1]] /\ c[2] \in Answered(c[1])
    BY <2>0, <2>3
  <2>6. Range(write) \subseteq Writable \X AddressRange /\ Range(read) \subseteq (TableNames \ Writable) \X AddressRange
    BY <2>0, RangeInside
  <2>7. Range(read) \cap (Writable \X AddressRange) = {}
    BY <2>6
  <2>8. ASSUME AutoMap, Len(channels) < MaxChannels, NEW t \in TableNames, supported[t]
        PROVE  {t} \X Answered(t) \subseteq Range(channels)
    BY <2>0, <2>4, <2>8
  <2> QED
    BY <2>0, <2>5, <2>6, <2>7, <2>8 DEF SuggestionsAreSound
<1> QED
  BY <1>1, AlwaysSuggestion, PTL

=============================================================================
