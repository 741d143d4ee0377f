----------------------- MODULE RegisterMapping_proofs -----------------------
(***************************************************************************)
(* Proofs about buildBlocks and the cycles of a task: for any mappings,    *)
(* however many and in whatever order, the blocks partition them, every    *)
(* offset of a block is the register its mapping names, and what a cycle   *)
(* moves goes to the channel, or comes from the command, of that mapping.  *)
(***************************************************************************)
EXTENDS RegisterMapping, FiniteSetTheorems, FunctionTheorems, TLAPS

BuildTypes ==
  /\ arguments \in Seq(Items) /\ Len(arguments) <= MaxItems
  /\ phase \in Phases
  /\ mappings \in Seq(Mapping)
  /\ index \in Nat \ {0} /\ end \in Nat \ {0}
  /\ blocks \in Seq(Block)

\* The mappings from index to before end are consecutive registers.
RunSoFar ==
  phase = "extend" =>
    /\ index < end /\ end <= Len(mappings) + 1
    /\ \A k \in index..(end - 1) :
         /\ mappings[k].type = mappings[index].type
         /\ mappings[k].address = mappings[index].address + (k - index)

BuildInv ==
  /\ BuildTypes
  /\ index <= Len(mappings) + 1
  /\ phase \in {"parse", "rejected"} \/ Built \/ phase \in {"block", "extend"}
  /\ phase = "parse" => mappings = <<>> /\ blocks = <<>>
  /\ RunSoFar
  /\ OffsetsAreAddresses
  /\ BlocksPartitionMappings

-----------------------------------------------------------------------------
LEMMA InitBuild == Init => BuildInv
<1> SUFFICES ASSUME Init PROVE BuildInv
  OBVIOUS
<1>1. arguments \in Seq(Items) /\ Len(arguments) <= MaxItems
  <2>1. PICK n \in 0..MaxItems : arguments \in [1..n -> Items]
    BY DEF Init
  <2>2. n \in Nat /\ n <= MaxItems
    BY BoundsAssumption
  <2> QED
    BY <2>1, <2>2
<1>2. mappings = <<>> /\ blocks = <<>> /\ index = 1 /\ end = 1 /\ phase = "parse"
  BY DEF Init
<1>3. Len(mappings) = 0 /\ mappings \in Seq(Mapping) /\ blocks \in Seq(Block) /\ DOMAIN blocks = {}
  BY <1>2
<1> QED
  BY <1>1, <1>2, <1>3 DEF BuildInv, BuildTypes, Phases, Built, RunSoFar, OffsetsAreAddresses,
     BlocksPartitionMappings

\* Sorting gives as many mappings as there are arguments, each with a type and
\* an address.
LEMMA ParseKept == BuildInv /\ Parse => BuildInv'
<1> SUFFICES ASSUME BuildInv, Parse PROVE BuildInv'
  OBVIOUS
<1>1. PICK p \in [DOMAIN arguments -> DOMAIN arguments] :
        mappings' = [i \in DOMAIN arguments |->
                       [type |-> arguments[p[i]].type, address |-> arguments[p[i]].address, channel |-> p[i]]]
  BY DEF Parse
<1>2. arguments \in Seq(Items) /\ Len(arguments) \in Nat /\ Len(arguments) <= MaxItems
        /\ DOMAIN arguments = 1..Len(arguments)
  BY DEF BuildInv, BuildTypes
<1>3. ASSUME NEW i \in DOMAIN arguments
      PROVE  [type |-> arguments[p[i]].type, address |-> arguments[p[i]].address, channel |-> p[i]] \in Mapping
  <2>1. p[i] \in DOMAIN arguments
    BY <1>1, <1>3
  <2>2. Acceptable(arguments[p[i]]) /\ arguments[p[i]] \in Item
    BY <1>2, <2>1, ItemsAssumption DEF Parse
  <2>3. arguments[p[i]].type \in Types /\ arguments[p[i]].address \in Nat
    BY <2>2 DEF Acceptable, Item
  <2>4. p[i] \in 1..MaxItems
    BY <1>2, <2>1, BoundsAssumption
  <2> QED
    BY <2>3, <2>4 DEF Mapping
<1>4. mappings' \in [1..Len(arguments) -> Mapping]
  BY <1>1, <1>2, <1>3
<1>5. mappings' \in Seq(Mapping) /\ Len(mappings') \in Nat
  BY <1>2, <1>4
<1>6. blocks = <<>> /\ index = 1
  BY DEF Parse, BuildInv, BlocksPartitionMappings
<1>7. UNCHANGED <<arguments, index, end, blocks>> /\ phase' = "block"
  BY DEF Parse, inputVars
<1>8. BuildTypes'
  BY <1>5, <1>7 DEF BuildInv, BuildTypes, Phases
<1>9. OffsetsAreAddresses' /\ BlocksPartitionMappings'
  BY <1>6, <1>7 DEF OffsetsAreAddresses, BlocksPartitionMappings, Built
<1> QED
  BY <1>5, <1>6, <1>7, <1>8, <1>9 DEF BuildInv, RunSoFar

LEMMA StartKept == BuildInv /\ StartBlock => BuildInv'
<1> SUFFICES ASSUME BuildInv, StartBlock PROVE BuildInv'
  OBVIOUS
<1>1. UNCHANGED <<arguments, mappings, index, blocks>> /\ phase' = "extend" /\ end' = index + 1
        /\ index <= Len(mappings)
  BY DEF StartBlock, inputVars
<1>2. mappings \in Seq(Mapping) /\ index \in Nat \ {0} /\ Len(mappings) \in Nat
  BY DEF BuildInv, BuildTypes
<1>3. end' \in Nat \ {0} /\ end' - 1 = index /\ index < end' /\ end' <= Len(mappings) + 1
  BY <1>1, <1>2
<1>4. mappings[index] \in Mapping
  BY <1>1, <1>2
<1>5. mappings[index].address \in Nat
  BY <1>4 DEF Mapping
<1>6. \A k \in index..(end' - 1) : /\ mappings[k].type = mappings[index].type
                                  /\ mappings[k].address = mappings[index].address + (k - index)
  BY <1>2, <1>3, <1>5
<1>7. RunSoFar'
  BY <1>1, <1>3, <1>6 DEF RunSoFar
<1>8. BuildTypes'
  BY <1>1, <1>3 DEF BuildInv, BuildTypes, Phases
<1>9. OffsetsAreAddresses' /\ BlocksPartitionMappings'
  BY <1>1 DEF BuildInv, OffsetsAreAddresses, BlocksPartitionMappings, Built, Positions, RegisterAt
<1> QED
  BY <1>1, <1>7, <1>8, <1>9 DEF BuildInv

LEMMA ExtendKept == BuildInv /\ ExtendBlock => BuildInv'
<1> SUFFICES ASSUME BuildInv, ExtendBlock PROVE BuildInv'
  OBVIOUS
<1>1. UNCHANGED <<arguments, mappings, index, blocks, phase>> /\ phase = "extend" /\ end' = end + 1
        /\ end <= Len(mappings) /\ Follows(end)
  BY DEF ExtendBlock, inputVars
<1>2. mappings \in Seq(Mapping) /\ index \in Nat \ {0} /\ end \in Nat \ {0} /\ Len(mappings) \in Nat
  BY DEF BuildInv, BuildTypes
<1>3. index < end /\ \A k \in index..(end - 1) :
        /\ mappings[k].type = mappings[index].type
        /\ mappings[k].address = mappings[index].address + (k - index)
  BY <1>1 DEF BuildInv, RunSoFar
<1>4. end - 1 \in index..(end - 1)
  BY <1>2, <1>3
<1>5. mappings[index] \in Mapping
  BY <1>1, <1>2, <1>3
<1>6. mappings[index].address \in Nat
  BY <1>5 DEF Mapping
<1>7. mappings[end].type = mappings[index].type
        /\ mappings[end].address = mappings[end - 1].address + 1
  BY <1>1 DEF Follows
<1>8. mappings[end - 1].address = mappings[index].address + ((end - 1) - index)
  BY <1>3, <1>4
<1>9. mappings[end].address = mappings[index].address + (end - index)
  BY <1>2, <1>6, <1>7, <1>8
<1>10. ASSUME NEW k \in index..(end' - 1)
       PROVE  /\ mappings[k].type = mappings[index].type
              /\ mappings[k].address = mappings[index].address + (k - index)
  <2>1. k = end \/ k \in index..(end - 1)
    BY <1>1, <1>2, <1>3
  <2> QED
    BY <2>1, <1>3, <1>7, <1>9
<1>11. RunSoFar'
  <2>1. index < end' /\ end' <= Len(mappings) + 1
    BY <1>1, <1>2, <1>3
  <2> QED
    BY <1>1, <1>10, <2>1 DEF RunSoFar
<1>12. BuildTypes'
  BY <1>1, <1>2 DEF BuildInv, BuildTypes
<1>13. OffsetsAreAddresses' /\ BlocksPartitionMappings'
  BY <1>1 DEF BuildInv, OffsetsAreAddresses, BlocksPartitionMappings, Built, Positions, RegisterAt
<1> QED
  BY <1>1, <1>11, <1>12, <1>13 DEF BuildInv

LEMMA CloseKept == BuildInv /\ CloseBlock => BuildInv'
<1> SUFFICES ASSUME BuildInv, CloseBlock PROVE BuildInv'
  OBVIOUS
<1>1. UNCHANGED <<arguments, mappings, end>> /\ phase = "extend" /\ phase' = "block"
        /\ index' = end /\ blocks' = Append(blocks, NewBlock)
  BY DEF CloseBlock, inputVars
<1>2. mappings \in Seq(Mapping) /\ index \in Nat \ {0} /\ end \in Nat \ {0} /\ Len(mappings) \in Nat
        /\ blocks \in Seq(Block) /\ Len(blocks) \in Nat
  BY DEF BuildInv, BuildTypes
<1>3. index < end /\ end <= Len(mappings) + 1 /\ \A k \in index..(end - 1) :
        /\ mappings[k].type = mappings[index].type
        /\ mappings[k].address = mappings[index].address + (k - index)
  BY <1>1 DEF BuildInv, RunSoFar
<1>4. NewBlock = [type |-> mappings[index].type, start |-> mappings[index].address,
                  first |-> index, last |-> end - 1]
  BY DEF NewBlock
<1>5. mappings[index] \in Mapping
  BY <1>2, <1>3
<1>6. NewBlock \in Block
  <2>1. mappings[index].type \in Types /\ mappings[index].address \in Nat
    BY <1>5 DEF Mapping
  <2>2. end - 1 \in Nat
    BY <1>2
  <2> QED
    BY <1>2, <1>4, <2>1, <2>2 DEF Block
<1>7. blocks' \in Seq(Block) /\ Len(blocks') = Len(blocks) + 1
        /\ blocks'[Len(blocks) + 1] = NewBlock
        /\ \A n \in 1..Len(blocks) : blocks'[n] = blocks[n]
        /\ DOMAIN blocks = 1..Len(blocks) /\ DOMAIN blocks' = 1..(Len(blocks) + 1)
  BY <1>1, <1>2, <1>6
<1>8. BuildTypes'
  BY <1>1, <1>2, <1>7 DEF BuildInv, BuildTypes, Phases
<1>9. OffsetsAreAddresses'
  <2>1. ASSUME NEW n \in DOMAIN blocks', NEW k \in Positions(blocks'[n])
        PROVE  /\ k \in DOMAIN mappings
               /\ RegisterAt(blocks'[n], k) = <<mappings[k].type, mappings[k].address>>
    <3>1. CASE n \in 1..Len(blocks)
      BY <1>7, <2>1, <3>1 DEF BuildInv, OffsetsAreAddresses
    <3>2. CASE n = Len(blocks) + 1
      <4>1. k \in index..(end - 1)
        BY <1>4, <1>7, <2>1, <3>2 DEF Positions
      <4>2. k \in DOMAIN mappings
        BY <1>2, <1>3, <4>1
      <4>3. RegisterAt(NewBlock, k) = <<mappings[index].type, mappings[index].address + (k - index)>>
        BY <1>4 DEF RegisterAt
      <4> QED
        BY <1>3, <1>7, <3>2, <4>1, <4>2, <4>3
    <3>3. n \in 1..Len(blocks) \/ n = Len(blocks) + 1
      BY <1>2, <1>7, <2>1
    <3> QED
      BY <3>1, <3>2, <3>3
  <2> QED
    BY <1>1, <2>1 DEF OffsetsAreAddresses, Positions, RegisterAt
<1>10. BlocksPartitionMappings'
  <2>1. /\ \A n \in DOMAIN blocks :
            /\ blocks[n].first <= blocks[n].last
            /\ blocks[n].first = IF n = 1 THEN 1 ELSE blocks[n - 1].last + 1
        /\ index = IF blocks = <<>> THEN 1 ELSE blocks[Len(blocks)].last + 1
    BY DEF BuildInv, BlocksPartitionMappings
  <2>2. NewBlock.first = index /\ NewBlock.last = end - 1 /\ index <= end - 1
    BY <1>2, <1>3, <1>4
  <2>3. index = IF Len(blocks) + 1 = 1 THEN 1 ELSE blocks[Len(blocks)].last + 1
    BY <1>2, <2>1
  <2>4. ASSUME NEW n \in DOMAIN blocks'
        PROVE  /\ blocks'[n].first <= blocks'[n].last
               /\ blocks'[n].first = IF n = 1 THEN 1 ELSE blocks'[n - 1].last + 1
    <3>1. CASE n \in 1..Len(blocks)
      <4>1. blocks'[n] = blocks[n] /\ (n # 1 => blocks'[n - 1] = blocks[n - 1])
        BY <1>2, <1>7, <3>1
      <4> QED
        BY <1>7, <2>1, <3>1, <4>1
    <3>2. CASE n = Len(blocks) + 1
      <4>1. n # 1 => blocks'[n - 1] = blocks[Len(blocks)]
        BY <1>2, <1>7, <3>2
      <4> QED
        BY <1>7, <2>2, <2>3, <3>2, <4>1
    <3>3. n \in 1..Len(blocks) \/ n = Len(blocks) + 1
      BY <1>2, <1>7, <2>4
    <3> QED
      BY <3>1, <3>2, <3>3
  <2>5. index' = IF blocks' = <<>> THEN 1 ELSE blocks'[Len(blocks')].last + 1
    <3>1. blocks' # <<>> /\ blocks'[Len(blocks')] = NewBlock
      BY <1>2, <1>7
    <3>2. index' = NewBlock.last + 1
      BY <1>1, <1>2, <2>2
    <3> QED
      BY <3>1, <3>2
  <2> QED
    BY <1>1, <2>4, <2>5 DEF BlocksPartitionMappings, Built
<1> QED
  BY <1>1, <1>3, <1>8, <1>9, <1>10 DEF BuildInv, RunSoFar

\* The other steps leave the mappings and the blocks alone.
LEMMA OthersKept ==
  BuildInv /\ (RejectMapping \/ BlocksBuilt \/ TransferBlock \/ StartReadback \/ ReadbackBlock
                 \/ EndCycle \/ ServerApplies \/ NextCycle \/ UNCHANGED vars) => BuildInv'
<1> SUFFICES ASSUME BuildInv,
                    RejectMapping \/ BlocksBuilt \/ TransferBlock \/ StartReadback \/ ReadbackBlock
                      \/ EndCycle \/ ServerApplies \/ NextCycle \/ UNCHANGED vars
             PROVE  BuildInv'
  OBVIOUS
<1>1. UNCHANGED <<arguments, mappings, index, end, blocks>>
  BY DEF RejectMapping, BlocksBuilt, TransferBlock, StartReadback, ReadbackBlock, EndCycle,
         ServerApplies, NextCycle, vars, inputVars, buildVars
<1>2. phase' \in Phases /\ (phase' = "extend" => phase = "extend") /\ (phase' = "parse" => phase = "parse")
        /\ (Built' => Built \/ index > Len(mappings))
  BY DEF RejectMapping, BlocksBuilt, TransferBlock, StartReadback, ReadbackBlock, EndCycle,
         ServerApplies, NextCycle, vars, Built, Phases, BuildInv, BuildTypes
<1>3. index > Len(mappings) => index = Len(mappings) + 1
  BY DEF BuildInv, BuildTypes
<1>4. BlocksPartitionMappings'
  <2>1. Built' => index = Len(mappings) + 1
    BY <1>2, <1>3 DEF BuildInv, BlocksPartitionMappings
  <2> QED
    BY <1>1, <2>1 DEF BuildInv, BlocksPartitionMappings
<1>5. OffsetsAreAddresses' /\ RunSoFar' /\ BuildTypes'
  BY <1>1, <1>2 DEF BuildInv, OffsetsAreAddresses, RunSoFar, BuildTypes, Positions, RegisterAt
<1> QED
  BY <1>1, <1>2, <1>4, <1>5 DEF BuildInv, Phases, Built

LEMMA BuildKept == BuildInv /\ [Next]_vars => BuildInv'
BY ParseKept, StartKept, ExtendKept, CloseKept, OthersKept DEF Next

\* For any mappings: what a request moves at an offset of a block is the register
\* the mapping at that offset names.
THEOREM OffsetsCorrect == Spec => []OffsetsAreAddresses
<1>1. BuildInv => OffsetsAreAddresses
  BY DEF BuildInv
<1> QED
  BY <1>1, InitBuild, BuildKept, PTL DEF Spec

\* For any mappings: the blocks take them all, each once and in order.
THEOREM PartitionCorrect == Spec => []BlocksPartitionMappings
<1>1. BuildInv => BlocksPartitionMappings
  BY DEF BuildInv
<1> QED
  BY <1>1, InitBuild, BuildKept, PTL DEF Spec

-----------------------------------------------------------------------------
(***************************************************************************)
(* The cycles.                                                             *)
(***************************************************************************)

\* Every mapping is an argument and every argument is a mapping; those that
\* buildBlocks has passed are in a block.
MappingsInv ==
  phase \notin {"parse", "rejected"} =>
    /\ \A k \in DOMAIN mappings :
         /\ mappings[k].channel \in DOMAIN arguments
         /\ mappings[k].type = arguments[mappings[k].channel].type
         /\ mappings[k].address = arguments[mappings[k].channel].address
         /\ kind = "write" => mappings[k].type \in {"coil", "holding_register"}
    /\ \A i \in DOMAIN arguments : \E k \in DOMAIN mappings : mappings[k].channel = i
    /\ \A k \in DOMAIN mappings : k < index => \E n \in DOMAIN blocks : k \in Positions(blocks[n])

CycleTypes ==
  /\ kind \in {"read", "write"}
  /\ command \in [1..MaxItems -> Int]
  /\ next \in Nat \ {0}
  /\ device \in [Registers -> Int]
  /\ published \in [1..MaxItems -> Int]
  /\ failed \in BOOLEAN

Untransferred ==
  phase \in {"parse", "block", "extend", "rejected"} =>
    /\ next = 1
    /\ device = [r \in Registers |-> Factory(r)]
    /\ published = [c \in 1..MaxItems |-> Nothing]
    /\ unanswered = {}

AllBlocks ==
  /\ phase = "done" => next > Len(blocks)
  /\ phase = "readback" => kind = "write"

\* The channels of the blocks a read cycle has passed show their registers.
ChannelsSoFar ==
  kind = "read" /\ ~failed /\ phase \in {"transfer", "done"} =>
    \A n \in DOMAIN blocks : n < next =>
      \A k \in Positions(blocks[n]) :
        published[mappings[k].channel] = device[Target(arguments[mappings[k].channel])]

\* A channel of a read task shows its register or nothing.
ChannelsOwn ==
  kind = "read" =>
    \A i \in DOMAIN arguments :
      published[i] # Nothing => published[i] = device[Target(arguments[i])]

\* The register of an argument holds the command of one that names it.
Commanded(i) ==
  \E j \in DOMAIN arguments :
    /\ Target(arguments[j]) = Target(arguments[i])
    /\ device[Target(arguments[i])] = ToWire(arguments[i].type, command[j])

\* The registers of the blocks a write cycle has passed are commanded, if no late
\* write came after.
RegistersSoFar ==
  kind = "write" /\ ~failed /\ phase \in {"transfer", "readback", "done"} =>
    \A n \in DOMAIN blocks : (phase = "transfer" => n < next) =>
      \A k \in Positions(blocks[n]) :
        Commanded(mappings[k].channel) \/ Target(arguments[mappings[k].channel]) \in overtaken

\* A write that is to come is one the task may make.
Lawful(w) == \A r \in DOMAIN w : w[r] \in Int /\ Writable(r)

LateInv == \A w \in unanswered : kind = "write" /\ Lawful(w)

CycleInv ==
  /\ MappingsInv /\ CycleTypes /\ Untransferred /\ AllBlocks
  /\ ChannelsSoFar /\ ChannelsOwn /\ RegistersSoFar /\ LateInv
  /\ ReadbackShowsRegisters /\ OnlyMappedRegistersWritten

-----------------------------------------------------------------------------
\* The address a request holds for an offset of a block, if it is not past the
\* last one, is the one it would hold for that address itself.
LEMMA WireOfOffset ==
  ASSUME NEW a \in Nat, NEW d \in Nat, OnWire(a) + d <= MaxAddress
  PROVE  OnWire(a) \in 0..MaxAddress /\ OnWire(a + d) = OnWire(a) + d
<1> DEFINE A == MaxAddress + 1
           q == a \div A
           r == a % A
<1>1. A \in Nat \ {0}
  BY BoundsAssumption
<1>2. r \in 0..(A - 1) /\ q \in Nat /\ a = (A * q) + r
  BY <1>1
<1>3. r + d \in 0..(A - 1)
  BY <1>1, <1>2, BoundsAssumption DEF OnWire
<1> HIDE DEF q
<1>4. ((A * q) + (r + d)) % A = r + d
  <2> HIDE DEF A, r
  <2> QED
    BY <1>1, <1>2, <1>3
<1>5. a + d = (A * q) + (r + d)
  <2> HIDE DEF A, r
  <2> QED
    BY <1>1, <1>2
<1>6. OnWire(a) = r /\ OnWire(a + d) = (a + d) % A
  BY DEF OnWire
<1>7. A - 1 = MaxAddress
  BY BoundsAssumption
<1> HIDE DEF A, r
<1> QED
  BY <1>2, <1>4, <1>5, <1>6, <1>7

\* What a request that is served exchanges with a position of a block is the
\* target of the argument of that position.
LEMMA ServedIsTarget ==
  ASSUME BuildInv, MappingsInv, phase \notin {"parse", "rejected"},
         NEW limit, NEW n \in DOMAIN blocks, Served(blocks[n], limit),
         NEW k \in Positions(blocks[n])
  PROVE  /\ k \in DOMAIN mappings
         /\ mappings[k].channel \in DOMAIN arguments
         /\ mappings[k].channel \in 1..MaxItems
         /\ blocks[n].type = arguments[mappings[k].channel].type
         /\ ServedAt(blocks[n], k) = Target(arguments[mappings[k].channel])
         /\ ServedAt(blocks[n], k) \in Registers
<1> DEFINE b == blocks[n]
           c == mappings[k].channel
<1>1. b \in Block
  BY DEF BuildInv, BuildTypes
<1>2. b.type \in Types /\ b.start \in Nat /\ b.first \in Nat \ {0} /\ b.last \in Nat
  BY <1>1 DEF Block
<1>3. k \in b.first..b.last
  BY DEF Positions
<1>4. k \in DOMAIN mappings /\ <<b.type, b.start + (k - b.first)>> = <<mappings[k].type, mappings[k].address>>
  BY DEF BuildInv, OffsetsAreAddresses, RegisterAt
<1>5. c \in DOMAIN arguments /\ mappings[k].type = arguments[c].type /\ mappings[k].address = arguments[c].address
  BY <1>4 DEF MappingsInv
<1>6. c \in 1..MaxItems
  BY <1>5, BoundsAssumption DEF BuildInv, BuildTypes
<1>7. k - b.first \in Nat /\ k - b.first <= b.last - b.first
  BY <1>2, <1>3
<1>8. OnWire(b.start) + (b.last - b.first) <= MaxAddress
  BY DEF Served
<1>9. OnWire(b.start) \in Nat
  BY <1>2, BoundsAssumption DEF OnWire
<1>10. OnWire(b.start) + (k - b.first) <= MaxAddress
  BY <1>2, <1>7, <1>8, <1>9, BoundsAssumption
<1>11. OnWire(b.start) + (k - b.first) = OnWire(arguments[c].address)
  BY <1>2, <1>4, <1>5, <1>7, <1>10, WireOfOffset
<1>12. OnWire(b.start) + (k - b.first) \in 0..MaxAddress
  BY <1>7, <1>9, <1>10, BoundsAssumption
<1> QED
  BY <1>2, <1>4, <1>5, <1>6, <1>11, <1>12 DEF ServedAt, Target, Registers

\* The commands of a cycle are whole numbers.
LEMMA CommandTypes ==
  ASSUME NEW k \in {"read", "write"}, NEW c \in CommandsOf(k)
  PROVE  c \in [1..MaxItems -> Int]
BY CommandsAssumption DEF CommandsOf

LEMMA InitCycle == Init => CycleInv
<1> SUFFICES ASSUME Init PROVE CycleInv
  OBVIOUS
<1>1. /\ kind \in {"read", "write"} /\ phase = "parse" /\ next = 1 /\ failed = FALSE /\ blocks = <<>>
      /\ device = [r \in Registers |-> Factory(r)]
      /\ published = [c \in 1..MaxItems |-> Nothing] /\ unanswered = {}
  BY DEF Init
<1>2. command \in [1..MaxItems -> Int]
  BY <1>1, CommandTypes DEF Init
<1>3. ASSUME NEW r \in Registers PROVE Factory(r) \in Int
  <2>1. RegisterType[r[1]] \in Int /\ r[2] \in Int
    <3>1. r[1] \in Types /\ r[2] \in 0..MaxAddress
      BY DEF Registers
    <3> QED
      BY <3>1, BoundsAssumption DEF Types, RegisterType
  <2> QED
    BY <2>1 DEF Factory
<1>4. Nothing \in Int
  BY DEF Nothing
<1>5. CycleTypes
  <2>1. device \in [Registers -> Int]
    BY <1>1, <1>3
  <2>2. published \in [1..MaxItems -> Int]
    BY <1>1, <1>4
  <2>3. next = 1 /\ failed = FALSE /\ kind \in {"read", "write"}
    BY <1>1
  <2>4. next \in Nat \ {0}
    BY <2>3
  <2>5. failed \in BOOLEAN
    BY <2>3
  <2> QED
    BY <1>2, <2>1, <2>2, <2>3, <2>4, <2>5, Zenon DEF CycleTypes
<1>6. \A i \in DOMAIN arguments : i \in 1..MaxItems
  BY InitBuild, BoundsAssumption DEF BuildInv, BuildTypes
<1>7. ReadbackShowsRegisters /\ OnlyMappedRegistersWritten /\ ChannelsOwn
  BY <1>1, <1>6 DEF ReadbackShowsRegisters, OnlyMappedRegistersWritten, ChannelsOwn
<1> QED
  BY <1>1, <1>5, <1>7 DEF CycleInv, MappingsInv, Untransferred, AllBlocks, ChannelsSoFar,
     RegistersSoFar, LateInv

\* As long as nothing is transferred, nothing is shown and nothing written.
LEMMA NothingNext ==
  ASSUME BuildInv, UNCHANGED <<kind, arguments, device, published, unanswered>>,
         device = [r \in Registers |-> Factory(r)],
         published = [c \in 1..MaxItems |-> Nothing], unanswered = {}
  PROVE  ReadbackShowsRegisters' /\ OnlyMappedRegistersWritten' /\ ChannelsOwn' /\ LateInv'
<1>1. \A i \in DOMAIN arguments : i \in 1..MaxItems
  BY BoundsAssumption DEF BuildInv, BuildTypes
<1> QED
  BY <1>1 DEF ReadbackShowsRegisters, OnlyMappedRegistersWritten, ChannelsOwn, LateInv

\* Sorting keeps every argument, with its channel.
LEMMA ParseCycle == BuildInv /\ CycleInv /\ Parse => CycleInv'
<1> SUFFICES ASSUME BuildInv, CycleInv, Parse PROVE CycleInv'
  OBVIOUS
<1>1. PICK p \in [DOMAIN arguments -> DOMAIN arguments] :
        /\ IsSorting(p)
        /\ mappings' = [i \in DOMAIN arguments |->
                         [type |-> arguments[p[i]].type, address |-> arguments[p[i]].address, channel |-> p[i]]]
  BY DEF Parse
<1>2. UNCHANGED <<kind, arguments, command, index, end, blocks, next, device, published, failed, unanswered>>
        /\ phase = "parse" /\ phase' = "block"
  BY DEF Parse, inputVars, cycleVars
<1>3. index = 1
  BY <1>2 DEF BuildInv, BlocksPartitionMappings
<1>4. DOMAIN mappings' = DOMAIN arguments
  BY <1>1
<1>5. DOMAIN arguments \subseteq Nat \ {0}
  BY DEF BuildInv, BuildTypes
<1>6. ASSUME NEW k \in DOMAIN mappings'
      PROVE  /\ mappings'[k].channel \in DOMAIN arguments
             /\ mappings'[k].type = arguments[mappings'[k].channel].type
             /\ mappings'[k].address = arguments[mappings'[k].channel].address
             /\ kind = "write" => mappings'[k].type \in {"coil", "holding_register"}
  <2>1. p[k] \in DOMAIN arguments /\ mappings'[k] =
          [type |-> arguments[p[k]].type, address |-> arguments[p[k]].address, channel |-> p[k]]
    BY <1>1, <1>4
  <2>2. Acceptable(arguments[p[k]])
    BY <2>1 DEF Parse
  <2>3. kind = "write" => arguments[p[k]].type \in {"coil", "holding_register"}
    BY <2>2 DEF Acceptable, Types, RegisterType
  <2> QED
    BY <2>1, <2>3
<1>7. ASSUME NEW i \in DOMAIN arguments PROVE \E k \in DOMAIN mappings' : mappings'[k].channel = i
  BY <1>1, <1>4 DEF IsSorting
<1>8. MappingsInv'
  BY <1>2, <1>3, <1>4, <1>5, <1>6, <1>7 DEF MappingsInv
<1>9. Untransferred' /\ CycleTypes'
  BY <1>2 DEF CycleInv, Untransferred, CycleTypes
<1>10. ReadbackShowsRegisters' /\ OnlyMappedRegistersWritten' /\ ChannelsOwn' /\ LateInv'
  BY <1>2, NothingNext DEF CycleInv, Untransferred
<1> QED
  BY <1>2, <1>8, <1>9, <1>10 DEF CycleInv, AllBlocks, ChannelsSoFar, RegistersSoFar

\* The steps of buildBlocks move nothing; a block it closes takes the mappings
\* up to the new index.
LEMMA BuildCycle ==
  BuildInv /\ CycleInv /\ (RejectMapping \/ StartBlock \/ ExtendBlock \/ CloseBlock \/ BlocksBuilt)
    => CycleInv'
<1> SUFFICES ASSUME BuildInv, CycleInv,
                    RejectMapping \/ StartBlock \/ ExtendBlock \/ CloseBlock \/ BlocksBuilt
             PROVE  CycleInv'
  OBVIOUS
<1>1. UNCHANGED <<kind, arguments, command, mappings, next, device, published, failed, unanswered>>
        /\ phase \in {"parse", "block", "extend"}
        /\ phase' \in {"block", "extend", "rejected", "transfer"}
  BY DEF RejectMapping, StartBlock, ExtendBlock, CloseBlock, BlocksBuilt, inputVars, buildVars, cycleVars
<1>2. phase' \notin {"parse", "rejected"} => phase \notin {"parse", "rejected"}
  BY DEF RejectMapping, StartBlock, ExtendBlock, CloseBlock, BlocksBuilt
<1>3. mappings \in Seq(Mapping) /\ index \in Nat \ {0} /\ end \in Nat \ {0} /\ blocks \in Seq(Block)
  BY DEF BuildInv, BuildTypes
<1>4. ASSUME phase' \notin {"parse", "rejected"}, NEW k \in DOMAIN mappings, k < index'
      PROVE  \E n \in DOMAIN blocks' : k \in Positions(blocks'[n])
  <2>1. k < index => \E n \in DOMAIN blocks : k \in Positions(blocks[n])
    BY <1>2, <1>4 DEF CycleInv, MappingsInv
  <2>2. CASE CloseBlock
    <3>1. blocks' = Append(blocks, NewBlock) /\ index' = end
      BY <2>2 DEF CloseBlock
    <3>2. Len(blocks) \in Nat /\ DOMAIN blocks = 1..Len(blocks)
            /\ DOMAIN blocks' = 1..(Len(blocks) + 1) /\ blocks'[Len(blocks) + 1] = NewBlock
            /\ \A n \in DOMAIN blocks : blocks'[n] = blocks[n]
      BY <1>3, <3>1
    <3>3. CASE k < index
      BY <2>1, <3>2, <3>3
    <3>4. CASE ~(k < index)
      <4>1. k \in index..(end - 1)
        BY <1>3, <1>4, <3>1, <3>4
      <4>2. k \in Positions(NewBlock)
        BY <4>1 DEF Positions, NewBlock
      <4>3. Len(blocks) + 1 \in DOMAIN blocks'
        BY <3>2
      <4> QED
        BY <3>2, <4>2, <4>3
    <3> QED
      BY <3>3, <3>4
  <2>3. CASE ~CloseBlock
    <3>1. UNCHANGED <<blocks, index>>
      BY <2>3 DEF RejectMapping, StartBlock, ExtendBlock, BlocksBuilt, buildVars
    <3> QED
      BY <1>4, <2>1, <3>1
  <2> QED
    BY <2>2, <2>3
<1>5. MappingsInv'
  BY <1>1, <1>2, <1>4 DEF CycleInv, MappingsInv
<1>6. Untransferred
  BY DEF CycleInv
<1>7. next = 1 /\ published = [c \in 1..MaxItems |-> Nothing]
  BY <1>1, <1>6 DEF Untransferred
<1>8. Untransferred' /\ CycleTypes'
  BY <1>1, <1>6 DEF CycleInv, Untransferred, CycleTypes
<1>9. ReadbackShowsRegisters' /\ OnlyMappedRegistersWritten' /\ ChannelsOwn' /\ LateInv'
  BY <1>1, <1>6, <1>7, NothingNext DEF Untransferred
<1>10. \A n \in DOMAIN blocks' : ~(n < next')
  <2>1. blocks' \in Seq(Block)
    BY BuildKept DEF BuildInv, BuildTypes, Next
  <2> QED
    BY <1>1, <1>7, <2>1
<1>11. ChannelsSoFar' /\ RegistersSoFar' /\ AllBlocks'
  BY <1>1, <1>10 DEF ChannelsSoFar, RegistersSoFar, AllBlocks
<1> QED
  BY <1>5, <1>8, <1>9, <1>11 DEF CycleInv

\* A channel of a block that is read shows the register of its argument, if it is
\* to show anything; the channels of other blocks stay.
LEMMA ShownIsHeld ==
  ASSUME BuildInv, CycleInv, phase \notin {"parse", "rejected"},
         NEW n \in DOMAIN blocks, Served(blocks[n], ReadLimit), NEW c \in 1..MaxItems
  PROVE  LET P == \E k \in Positions(blocks[n]) : mappings[k].channel = c
         IN  /\ P /\ (kind = "write" => c \in WithReadback) =>
                  Shown(blocks[n])[c] = device[Target(arguments[c])]
             /\ ~(P /\ (kind = "write" => c \in WithReadback)) => Shown(blocks[n])[c] = published[c]
             /\ Shown(blocks[n])[c] \in Int
<1> DEFINE P == \E k \in Positions(blocks[n]) : mappings[k].channel = c
           q == CHOOSE k \in Positions(blocks[n]) : mappings[k].channel = c
<1>1. DOMAIN published = 1..MaxItems /\ published[c] \in Int /\ device \in [Registers -> Int]
  BY DEF CycleInv, CycleTypes
<1>2. Shown(blocks[n])[c] = IF P /\ (kind = "write" => c \in WithReadback)
                              THEN device[ServedAt(blocks[n], q)] ELSE published[c]
  BY <1>1 DEF Shown
<1>3. ASSUME P PROVE ServedAt(blocks[n], q) = Target(arguments[c]) /\ ServedAt(blocks[n], q) \in Registers
  <2>1. q \in Positions(blocks[n]) /\ mappings[q].channel = c
    BY <1>3
  <2> HIDE DEF q
  <2> QED
    BY <2>1, ServedIsTarget DEF CycleInv
<1> HIDE DEF P, q
<1>4. Shown(blocks[n])[c] \in Int
  BY <1>1, <1>2, <1>3
<1>5. /\ P /\ (kind = "write" => c \in WithReadback) => Shown(blocks[n])[c] = device[Target(arguments[c])]
      /\ ~(P /\ (kind = "write" => c \in WithReadback)) => Shown(blocks[n])[c] = published[c]
  BY <1>2, <1>3
<1> QED
  BY <1>4, <1>5 DEF P

\* ToWire is a whole number.
LEMMA WireInt == ASSUME NEW type, NEW q \in Int PROVE ToWire(type, q) \in Int
BY DEF ToWire, ToRegister

LEMMA ArgumentsAreChannels == ASSUME BuildInv, NEW i \in DOMAIN arguments PROVE i \in 1..MaxItems
BY BoundsAssumption DEF BuildInv, BuildTypes

\* Once the arguments are accepted each of them has a target.
LEMMA TargetIsRegister ==
  ASSUME BuildInv, MappingsInv, phase \notin {"parse", "rejected"}, NEW i \in DOMAIN arguments
  PROVE  Target(arguments[i]) \in Registers /\ Target(arguments[i])[1] = arguments[i].type
<1>1. PICK k \in DOMAIN mappings : mappings[k].channel = i
  BY DEF MappingsInv
<1>2. mappings[k] \in Mapping
  BY DEF BuildInv, BuildTypes
<1>3. arguments[i].type \in Types /\ arguments[i].address \in Nat
  BY <1>1, <1>2 DEF MappingsInv, Mapping
<1>4. OnWire(arguments[i].address) \in 0..MaxAddress
  BY <1>3, BoundsAssumption DEF OnWire
<1> QED
  BY <1>3, <1>4 DEF Target, Registers

\* A block that is served is not too long.
LEMMA ServedIsShort ==
  ASSUME BuildInv, NEW n \in DOMAIN blocks, NEW limit \in [Types -> Nat], Served(blocks[n], limit)
  PROVE  ~TooLong(blocks[n], limit)
<1>1. blocks[n] \in Block
  BY DEF BuildInv, BuildTypes
<1>2. blocks[n].type \in Types /\ blocks[n].first \in Nat /\ blocks[n].last \in Nat
  BY <1>1 DEF Block
<1>3. limit[blocks[n].type] \in Nat
  BY <1>2
<1> QED
  BY <1>2, <1>3 DEF Served, TooLong

\* A request that is served asks for the target of each of its arguments, and
\* for nothing else; for each the command of an argument with that target.
LEMMA RequestIsCommanded ==
  ASSUME BuildInv, CycleInv, phase \notin {"parse", "rejected"}, kind = "write",
         NEW n \in DOMAIN blocks, Served(blocks[n], WriteLimit)
  PROVE  /\ \A k \in Positions(blocks[n]) :
              Target(arguments[mappings[k].channel]) \in DOMAIN Request(blocks[n])
         /\ \A r \in DOMAIN Request(blocks[n]) : \E j \in DOMAIN arguments :
              Target(arguments[j]) = r /\ Request(blocks[n])[r] = ToWire(r[1], command[j])
         /\ Lawful(Request(blocks[n]))
<1> DEFINE b == blocks[n]
           S == {ServedAt(b, k) : k \in Positions(b)}
           q(r) == CHOOSE k \in Positions(b) : ServedAt(b, k) = r
<1>1. DOMAIN Request(b) = S
      /\ \A r \in S : Request(b)[r] = ToWire(b.type, command[mappings[q(r)].channel])
  BY DEF Request
<1>2. \A k \in Positions(b) : Target(arguments[mappings[k].channel]) \in S
  BY ServedIsTarget DEF CycleInv
<1>3. ASSUME NEW r \in S
      PROVE  /\ mappings[q(r)].channel \in DOMAIN arguments
             /\ Target(arguments[mappings[q(r)].channel]) = r
             /\ Request(b)[r] = ToWire(r[1], command[mappings[q(r)].channel])
             /\ Request(b)[r] \in Int
             /\ Writable(r)
  <2> DEFINE k == q(r)
  <2>1. k \in Positions(b) /\ ServedAt(b, k) = r
    BY <1>3
  <2>2. Request(b)[r] = ToWire(b.type, command[mappings[k].channel])
    BY <1>1, <1>3
  <2> HIDE DEF k, q
  <2>3. /\ mappings[k].channel \in DOMAIN arguments /\ k \in DOMAIN mappings
        /\ b.type = arguments[mappings[k].channel].type
        /\ Target(arguments[mappings[k].channel]) = r
    BY <2>1, ServedIsTarget DEF CycleInv
  <2>4. r[1] = b.type
    BY <2>1 DEF ServedAt
  <2>5. r[1] \in {"coil", "holding_register"}
    BY <2>3, <2>4 DEF CycleInv, MappingsInv
  <2>6. ~TooLong(b, WriteLimit)
    BY LimitsAssumption, ServedIsShort
  <2>7. Writable(r)
    BY <2>1, <2>3, <2>5, <2>6 DEF Writable
  <2>8. command[mappings[k].channel] \in Int
    BY <2>3, ArgumentsAreChannels DEF CycleInv, CycleTypes
  <2> QED
    BY <2>2, <2>3, <2>4, <2>7, <2>8, WireInt DEF k
<1>4. Lawful(Request(b))
  BY <1>1, <1>3 DEF Lawful
<1> HIDE DEF S, q
<1> QED
  BY <1>1, <1>2, <1>3, <1>4

\* A lawful write, whenever it is applied, touches registers that may be written
\* alone, and what was read back of them is outdated from then on.
LEMMA AppliedIsLawful ==
  ASSUME BuildInv, CycleInv, phase \notin {"parse", "rejected"}, kind = "write",
         NEW w, Lawful(w), device' = Applied(w),
         outdated' = outdated \cup ReadbacksOf(DOMAIN w),
         UNCHANGED <<kind, arguments, mappings, blocks, published>>
  PROVE  /\ device' \in [Registers -> Int]
         /\ \A r \in Registers : device'[r] = IF r \in DOMAIN w THEN w[r] ELSE device[r]
         /\ OnlyMappedRegistersWritten' /\ ReadbackShowsRegisters' /\ ChannelsOwn'
<1>1. \A r \in Registers : device'[r] = IF r \in DOMAIN w THEN w[r] ELSE device[r]
  BY DEF Applied
<1>2. device' \in [Registers -> Int]
  BY DEF Applied, Lawful, CycleInv, CycleTypes
<1>3. \A r : Writable(r)' = Writable(r)
  BY DEF Writable, Positions, TooLong, Target
<1>4. OnlyMappedRegistersWritten'
  BY <1>1, <1>3 DEF OnlyMappedRegistersWritten, CycleInv, Lawful
<1>5. ASSUME NEW i \in DOMAIN arguments, published[i] # Nothing
      PROVE  i \in WithReadback /\ (published[i] = device'[Target(arguments[i])] \/ i \in outdated')
  <2>1. Target(arguments[i]) \in Registers
    BY TargetIsRegister DEF CycleInv
  <2>2. i \in WithReadback /\ (published[i] = device[Target(arguments[i])] \/ i \in outdated)
    BY <1>5 DEF CycleInv, ReadbackShowsRegisters
  <2>3. CASE Target(arguments[i]) \in DOMAIN w
    BY <2>2, <2>3 DEF ReadbacksOf
  <2>4. CASE Target(arguments[i]) \notin DOMAIN w
    BY <1>1, <2>1, <2>2, <2>4
  <2> QED
    BY <2>3, <2>4
<1>6. ReadbackShowsRegisters' /\ ChannelsOwn'
  BY <1>5 DEF ReadbackShowsRegisters, ChannelsOwn, Target
<1> QED
  BY <1>1, <1>2, <1>4, <1>6

\* The next block is read, or fails to be: in a cycle of a read task, or in the
\* readback of a write task.
LEMMA ReadKept ==
  ASSUME BuildInv, CycleInv, phase \in {"transfer", "readback"}, next <= Len(blocks), next' = next + 1,
         kind = "read" \/ phase = "readback",
         UNCHANGED <<kind, arguments, command, phase, mappings, index, blocks>>,
         ReadAnswered(blocks[next]) \/ ReadFails
  PROVE  CycleInv'
<1> DEFINE b == blocks[next]
<1>1. next \in Nat \ {0} /\ blocks \in Seq(Block) /\ Len(blocks) \in Nat /\ DOMAIN blocks = 1..Len(blocks)
        /\ next \in DOMAIN blocks /\ next' \in Nat \ {0}
        /\ \A n \in DOMAIN blocks : n < next' => n < next \/ n = next
  BY DEF BuildInv, BuildTypes, CycleInv, CycleTypes
<1>2. UNCHANGED <<device, unanswered, overtaken>>
  BY DEF ReadAnswered, ReadFails
<1>3. MappingsInv' /\ Untransferred' /\ AllBlocks' /\ OnlyMappedRegistersWritten' /\ LateInv'
  <2>1. \A r : Writable(r)' = Writable(r)
    BY DEF Writable, Positions, TooLong, Target
  <2> QED
    BY <1>2, <2>1 DEF CycleInv, MappingsInv, Untransferred, AllBlocks, Positions, LateInv, Lawful,
       OnlyMappedRegistersWritten
<1>4. failed' \in BOOLEAN /\ (~failed' => ~failed)
  <2>1. failed \in BOOLEAN /\ (failed' = failed \/ failed' = TRUE)
    BY DEF ReadAnswered, ReadFails, CycleInv, CycleTypes
  <2> QED
    BY <2>1, Zenon
<1>5. RegistersSoFar'
  BY <1>2, <1>4 DEF CycleInv, RegistersSoFar, Commanded, Positions, Target
<1>6. CASE ReadAnswered(b)
  <2>1. Served(b, ReadLimit) /\ published' = Shown(b) /\ UNCHANGED failed
          /\ outdated' = outdated \ {mappings[k].channel : k \in Positions(b)}
    BY <1>6 DEF ReadAnswered
  <2> DEFINE P(c) == (\E k \in Positions(b) : mappings[k].channel = c) /\ (kind = "write" => c \in WithReadback)
  <2>2. ASSUME NEW c \in 1..MaxItems
        PROVE  /\ published'[c] \in Int
               /\ P(c) => published'[c] = device[Target(arguments[c])]
               /\ ~P(c) => published'[c] = published[c]
    BY <1>1, <2>1, ShownIsHeld
  <2>3. published' \in [1..MaxItems -> Int]
    <3>1. published' = [c \in DOMAIN published |-> published'[c]] /\ DOMAIN published = 1..MaxItems
      BY <2>1 DEF Shown, CycleInv, CycleTypes
    <3> QED
      BY <2>2, <3>1
  <2>4. CycleTypes'
    BY <1>1, <1>2, <1>4, <2>3 DEF CycleInv, CycleTypes
  <2>5. ASSUME NEW i \in DOMAIN arguments, published'[i] # Nothing
        PROVE  /\ kind = "read" => published'[i] = device[Target(arguments[i])]
               /\ kind = "write" => /\ i \in WithReadback
                                    /\ published'[i] = device[Target(arguments[i])] \/ i \in outdated'
    <3>1. i \in 1..MaxItems
      BY ArgumentsAreChannels
    <3>2. CASE P(i)
      BY <2>2, <3>1, <3>2
    <3>3. CASE ~P(i)
      <4>1. published'[i] = published[i]
        BY <2>2, <3>1, <3>3
      <4>2. CASE kind = "read"
        BY <2>5, <4>1, <4>2 DEF CycleInv, ChannelsOwn
      <4>3. CASE kind = "write"
        <5>1. i \in WithReadback /\ (published[i] = device[Target(arguments[i])] \/ i \in outdated)
          BY <2>5, <4>1, <4>3 DEF CycleInv, ReadbackShowsRegisters
        <5>2. i \notin {mappings[k].channel : k \in Positions(b)}
          BY <3>3, <5>1
        <5> QED
          BY <2>1, <4>1, <4>3, <5>1, <5>2
      <4> QED
        BY <4>2, <4>3
    <3> QED
      BY <3>2, <3>3
  <2>6. ReadbackShowsRegisters' /\ ChannelsOwn'
    BY <1>2, <2>5 DEF ReadbackShowsRegisters, ChannelsOwn, Target
  <2>7. ASSUME kind = "read", phase = "transfer", ~failed, NEW n \in DOMAIN blocks, n < next',
               NEW k \in Positions(blocks[n])
        PROVE  published'[mappings[k].channel] = device[Target(arguments[mappings[k].channel])]
    <3>1. mappings[k].channel \in 1..MaxItems
      <4>1. k \in DOMAIN mappings
        BY <2>7 DEF BuildInv, OffsetsAreAddresses
      <4> QED
        BY <2>7, <4>1, ArgumentsAreChannels DEF CycleInv, MappingsInv
    <3>2. CASE n = next
      BY <2>2, <2>7, <3>1, <3>2
    <3>3. CASE n < next
      <4>1. published[mappings[k].channel] = device[Target(arguments[mappings[k].channel])]
        BY <2>7, <3>3 DEF CycleInv, ChannelsSoFar
      <4> QED
        BY <2>2, <3>1, <4>1
    <3> QED
      BY <1>1, <2>7, <3>2, <3>3
  <2>8. ChannelsSoFar'
    BY <1>2, <2>1, <2>7 DEF ChannelsSoFar, Positions, Target
  <2> QED
    BY <1>3, <1>5, <2>4, <2>6, <2>8 DEF CycleInv
<1>7. CASE ReadFails
  <2>1. failed' = TRUE /\ UNCHANGED <<published, outdated>>
    BY <1>7 DEF ReadFails
  <2>2. CycleTypes' /\ ChannelsSoFar'
    BY <1>1, <1>2, <2>1 DEF CycleInv, CycleTypes, ChannelsSoFar
  <2>3. ReadbackShowsRegisters' /\ ChannelsOwn'
    BY <1>2, <2>1 DEF CycleInv, ReadbackShowsRegisters, ChannelsOwn, Target
  <2> QED
    BY <1>3, <1>5, <2>2, <2>3 DEF CycleInv
<1> QED
  BY <1>6, <1>7

LEMMA ReadbackCycle == BuildInv /\ CycleInv /\ ReadbackBlock => CycleInv'
BY ReadKept DEF ReadbackBlock, inputVars, buildVars

\* The next block is written, or fails to be: then its write may come later.
LEMMA WriteKept ==
  ASSUME BuildInv, CycleInv, phase = "transfer", next <= Len(blocks), next' = next + 1, kind = "write",
         UNCHANGED <<kind, arguments, command, phase, mappings, index, blocks>>,
         WriteAnswered(blocks[next]) \/ WriteFails(blocks[next])
  PROVE  CycleInv'
<1> DEFINE b == blocks[next]
<1>1. next \in Nat \ {0} /\ blocks \in Seq(Block) /\ Len(blocks) \in Nat /\ DOMAIN blocks = 1..Len(blocks)
        /\ next \in DOMAIN blocks /\ next' \in Nat \ {0}
        /\ \A n \in DOMAIN blocks : n < next' => n < next \/ n = next
  BY DEF BuildInv, BuildTypes, CycleInv, CycleTypes
<1>2. MappingsInv' /\ Untransferred' /\ AllBlocks' /\ ChannelsSoFar'
  BY DEF CycleInv, MappingsInv, Untransferred, AllBlocks, Positions, ChannelsSoFar
<1>3. \A w : Lawful(w)' = Lawful(w)
  BY DEF Lawful, Writable, Positions, TooLong, Target
<1>4. CASE WriteAnswered(b)
  <2> DEFINE w == Request(b)
  <2>1. /\ Served(b, WriteLimit) /\ device' = Applied(w) /\ overtaken' = overtaken \ DOMAIN w
        /\ outdated' = outdated \cup ReadbacksOf(DOMAIN w) /\ UNCHANGED <<published, failed, unanswered>>
    BY <1>4 DEF WriteAnswered
  <2>2. /\ \A k \in Positions(b) : Target(arguments[mappings[k].channel]) \in DOMAIN w
        /\ \A r \in DOMAIN w : \E j \in DOMAIN arguments :
             Target(arguments[j]) = r /\ w[r] = ToWire(r[1], command[j])
        /\ Lawful(w)
    BY <1>1, <2>1, RequestIsCommanded
  <2> HIDE DEF w
  <2>3. /\ device' \in [Registers -> Int]
        /\ \A r \in Registers : device'[r] = IF r \in DOMAIN w THEN w[r] ELSE device[r]
        /\ OnlyMappedRegistersWritten' /\ ReadbackShowsRegisters' /\ ChannelsOwn'
    BY <2>1, <2>2, AppliedIsLawful
  <2>4. CycleTypes' /\ LateInv'
    BY <1>1, <1>3, <2>1, <2>3 DEF CycleInv, CycleTypes, LateInv
  <2>5. ASSUME ~failed, NEW n \in DOMAIN blocks, n < next', NEW k \in Positions(blocks[n])
        PROVE  \/ \E j \in DOMAIN arguments :
                    /\ Target(arguments[j]) = Target(arguments[mappings[k].channel])
                    /\ device'[Target(arguments[mappings[k].channel])]
                         = ToWire(arguments[mappings[k].channel].type, command[j])
               \/ Target(arguments[mappings[k].channel]) \in overtaken'
    <3> DEFINE c == mappings[k].channel
               r == Target(arguments[c])
    <3>1. r \in Registers /\ r[1] = arguments[c].type
      <4>1. k \in DOMAIN mappings
        BY <2>5 DEF BuildInv, OffsetsAreAddresses
      <4>2. c \in DOMAIN arguments
        BY <4>1 DEF CycleInv, MappingsInv
      <4> QED
        BY <4>2, TargetIsRegister DEF CycleInv
    <3>2. CASE r \in DOMAIN w
      BY <2>2, <2>3, <3>1, <3>2
    <3>3. CASE r \notin DOMAIN w
      <4>1. n < next
        BY <1>1, <2>2, <2>5, <3>3
      <4>2. Commanded(c) \/ r \in overtaken
        BY <2>5, <4>1 DEF CycleInv, RegistersSoFar
      <4>3. device'[r] = device[r]
        BY <2>3, <3>1, <3>3
      <4> QED
        BY <2>1, <3>3, <4>2, <4>3 DEF Commanded
    <3> QED
      BY <3>2, <3>3
  <2>6. RegistersSoFar'
    BY <2>1, <2>5 DEF RegistersSoFar, Commanded, Positions, Target
  <2> QED
    BY <1>2, <2>3, <2>4, <2>6 DEF CycleInv
<1>5. CASE WriteFails(b)
  <2>1. failed' = TRUE /\ UNCHANGED <<device, published, overtaken, outdated>>
    BY <1>5 DEF WriteFails
  <2>2. \/ unanswered' = unanswered
        \/ Served(b, WriteLimit) /\ unanswered' = unanswered \cup {Request(b)}
    BY <1>5 DEF WriteFails
  <2>3. Served(b, WriteLimit) => Lawful(Request(b))
    BY <1>1, RequestIsCommanded
  <2>4. LateInv'
    BY <1>3, <2>2, <2>3 DEF CycleInv, LateInv
  <2>5. CycleTypes' /\ RegistersSoFar'
    BY <1>1, <2>1 DEF CycleInv, CycleTypes, RegistersSoFar
  <2>6. OnlyMappedRegistersWritten' /\ ReadbackShowsRegisters' /\ ChannelsOwn'
    BY <2>1 DEF CycleInv, OnlyMappedRegistersWritten, Writable, Positions, TooLong, Target,
       ReadbackShowsRegisters, ChannelsOwn
  <2> QED
    BY <1>2, <2>4, <2>5, <2>6 DEF CycleInv
<1> QED
  BY <1>4, <1>5

LEMMA TransferCycle == BuildInv /\ CycleInv /\ TransferBlock => CycleInv'
BY ReadKept, WriteKept DEF TransferBlock, inputVars, buildVars

\* A late write, whenever it comes.
LEMMA ServerCycle == BuildInv /\ CycleInv /\ ServerApplies => CycleInv'
<1> SUFFICES ASSUME BuildInv, CycleInv, ServerApplies PROVE CycleInv'
  OBVIOUS
<1>1. PICK w \in unanswered :
        /\ device' = Applied(w)
        /\ unanswered' \in {unanswered, unanswered \ {w}}
        /\ overtaken' = overtaken \cup DOMAIN w
        /\ outdated' = outdated \cup ReadbacksOf(DOMAIN w)
  BY DEF ServerApplies
<1>2. UNCHANGED <<kind, arguments, command, phase, mappings, index, blocks, next, published, failed>>
  BY DEF ServerApplies, inputVars, buildVars
<1>3. phase \notin {"parse", "block", "extend", "rejected"} /\ kind = "write" /\ Lawful(w)
  BY <1>1 DEF CycleInv, Untransferred, LateInv
<1>4. /\ device' \in [Registers -> Int]
      /\ \A r \in Registers : device'[r] = IF r \in DOMAIN w THEN w[r] ELSE device[r]
      /\ OnlyMappedRegistersWritten' /\ ReadbackShowsRegisters' /\ ChannelsOwn'
  BY <1>1, <1>2, <1>3, AppliedIsLawful
<1>5. MappingsInv' /\ Untransferred' /\ AllBlocks' /\ ChannelsSoFar'
  BY <1>2, <1>3 DEF CycleInv, MappingsInv, Untransferred, AllBlocks, Positions, ChannelsSoFar
<1>6. LateInv'
  <2>1. \A x : Lawful(x)' = Lawful(x)
    BY <1>2 DEF Lawful, Writable, Positions, TooLong, Target
  <2> QED
    BY <1>1, <1>2, <2>1 DEF CycleInv, LateInv
<1>7. CycleTypes'
  BY <1>2, <1>4 DEF CycleInv, CycleTypes
<1>8. ASSUME ~failed, phase \in {"transfer", "readback", "done"},
             NEW n \in DOMAIN blocks, phase = "transfer" => n < next, NEW k \in Positions(blocks[n])
      PROVE  \/ \E j \in DOMAIN arguments :
                  /\ Target(arguments[j]) = Target(arguments[mappings[k].channel])
                  /\ device'[Target(arguments[mappings[k].channel])]
                       = ToWire(arguments[mappings[k].channel].type, command[j])
             \/ Target(arguments[mappings[k].channel]) \in overtaken'
  <2> DEFINE c == mappings[k].channel
             r == Target(arguments[c])
  <2>1. r \in Registers
    <3>1. k \in DOMAIN mappings
      BY <1>8 DEF BuildInv, OffsetsAreAddresses
    <3>2. c \in DOMAIN arguments
      BY <1>3, <3>1 DEF CycleInv, MappingsInv
    <3> QED
      BY <1>3, <3>2, TargetIsRegister DEF CycleInv
  <2>2. Commanded(c) \/ r \in overtaken
    BY <1>3, <1>8 DEF CycleInv, RegistersSoFar
  <2>3. r \in DOMAIN w \/ device'[r] = device[r]
    BY <1>4, <2>1
  <2> QED
    BY <1>1, <2>2, <2>3 DEF Commanded
<1>9. RegistersSoFar'
  BY <1>2, <1>8 DEF RegistersSoFar, Commanded, Positions, Target
<1> QED
  BY <1>4, <1>5, <1>6, <1>7, <1>9 DEF CycleInv

\* What is left changes the phase and, for the next cycle, the commands alone; a
\* cycle passes on when it has come to the last block.
LEMMA PhaseCycle ==
  BuildInv /\ CycleInv /\ (StartReadback \/ EndCycle \/ NextCycle \/ UNCHANGED vars) => CycleInv'
<1> SUFFICES ASSUME BuildInv, CycleInv, StartReadback \/ EndCycle \/ NextCycle \/ UNCHANGED vars
             PROVE CycleInv'
  OBVIOUS
<1>1. UNCHANGED <<kind, arguments, mappings, index, blocks, device, published, unanswered, overtaken, outdated>>
  BY DEF StartReadback, EndCycle, NextCycle, vars, inputVars, buildVars, cycleVars
<1>2. OnlyMappedRegistersWritten' /\ ReadbackShowsRegisters' /\ ChannelsOwn' /\ LateInv'
  <2>1. \A r : Writable(r)' = Writable(r)
    BY <1>1 DEF Writable, Positions, TooLong, Target
  <2>2. OnlyMappedRegistersWritten' /\ LateInv'
    BY <1>1, <2>1 DEF CycleInv, OnlyMappedRegistersWritten, LateInv, Lawful
  <2>3. ReadbackShowsRegisters' /\ ChannelsOwn'
    BY <1>1 DEF CycleInv, ReadbackShowsRegisters, ChannelsOwn, Target
  <2> QED
    BY <2>2, <2>3
<1>3. blocks \in Seq(Block) /\ Len(blocks) \in Nat /\ DOMAIN blocks = 1..Len(blocks) /\ next \in Nat \ {0}
  BY DEF BuildInv, BuildTypes, CycleInv, CycleTypes
<1>4. CASE StartReadback \/ EndCycle
  <2>1. /\ phase \in {"transfer", "readback"} /\ phase' \in {"readback", "done"} /\ next > Len(blocks)
        /\ next' \in {1, next} /\ (phase' = "done" => next' = next) /\ (phase' = "readback" => kind = "write")
        /\ UNCHANGED <<command, failed>>
    BY <1>4 DEF StartReadback, EndCycle, cycleVars, inputVars
  <2>2. MappingsInv' /\ CycleTypes' /\ Untransferred' /\ AllBlocks'
    BY <1>1, <1>3, <2>1 DEF CycleInv, MappingsInv, CycleTypes, Untransferred, AllBlocks, Positions
  <2>3. ChannelsSoFar'
    BY <1>1, <1>3, <2>1 DEF CycleInv, AllBlocks, ChannelsSoFar, Positions, Target
  <2>4. \A n \in DOMAIN blocks : n < next \/ phase # "transfer"
    BY <1>3, <2>1
  <2>5. RegistersSoFar'
    BY <1>1, <2>1, <2>4 DEF CycleInv, RegistersSoFar, Commanded, Positions, Target
  <2> QED
    BY <1>2, <2>2, <2>3, <2>5 DEF CycleInv
<1>5. CASE NextCycle
  <2>1. /\ phase = "done" /\ phase' = "transfer" /\ next' = 1 /\ failed' = FALSE
        /\ command' \in CommandsOf(kind)
    BY <1>5 DEF NextCycle
  <2>2. command' \in [1..MaxItems -> Int]
    BY <2>1, CommandTypes DEF CycleInv, CycleTypes
  <2>3. MappingsInv' /\ CycleTypes' /\ Untransferred' /\ AllBlocks'
    <3>1. MappingsInv'
      BY <1>1, <2>1 DEF CycleInv, MappingsInv, Positions
    <3>2. CycleTypes'
      <4>1. failed' \in BOOLEAN
        BY <2>1, Zenon
      <4>2. next' \in Nat \ {0}
        BY <2>1
      <4>3. (kind \in {"read", "write"} /\ device \in [Registers -> Int] /\ published \in [1..MaxItems -> Int])'
        BY <1>1 DEF CycleInv, CycleTypes
      <4> QED
        BY <2>2, <4>1, <4>2, <4>3, Zenon DEF CycleTypes
    <3> QED
      BY <2>1, <3>1, <3>2 DEF Untransferred, AllBlocks
  <2>4. \A n \in DOMAIN blocks' : ~(n < next')
    BY <1>1, <1>3, <2>1
  <2>5. ChannelsSoFar' /\ RegistersSoFar'
    BY <2>1, <2>4 DEF ChannelsSoFar, RegistersSoFar
  <2> QED
    BY <1>2, <2>3, <2>5 DEF CycleInv
<1>6. CASE UNCHANGED vars
  <2>1. UNCHANGED <<phase, next, command, failed>>
    BY <1>6 DEF vars, cycleVars, inputVars
  <2> QED
    BY <1>1, <1>2, <2>1 DEF CycleInv, MappingsInv, CycleTypes, Untransferred, AllBlocks, ChannelsSoFar,
       RegistersSoFar, Commanded, Positions, Target
<1> QED
  BY <1>4, <1>5, <1>6

LEMMA CycleKept == BuildInv /\ CycleInv /\ [Next]_vars => CycleInv'
BY ParseCycle, BuildCycle, TransferCycle, ReadbackCycle, ServerCycle, PhaseCycle DEF Next

LEMMA AllInv == Spec => [](BuildInv /\ CycleInv)
<1>1. BuildInv /\ CycleInv /\ [Next]_vars => (BuildInv /\ CycleInv)'
  BY BuildKept, CycleKept
<1> QED
  BY <1>1, InitBuild, InitCycle, PTL DEF Spec

\* Every argument is in a block once the blocks are built.
LEMMA EveryArgumentInBlock ==
  ASSUME BuildInv, CycleInv, phase \in {"transfer", "readback", "done"}, NEW i \in DOMAIN arguments
  PROVE  \E n \in DOMAIN blocks : \E k \in Positions(blocks[n]) : mappings[k].channel = i
<1>1. PICK k \in DOMAIN mappings : mappings[k].channel = i
  BY DEF CycleInv, MappingsInv
<1>2. index = Len(mappings) + 1
  BY DEF BuildInv, BlocksPartitionMappings, Built
<1>3. k < index
  BY <1>1, <1>2 DEF BuildInv, BuildTypes
<1> QED
  BY <1>1, <1>3 DEF CycleInv, MappingsInv

\* toRegister: a register is given the value nearest to its command.
LEMMA ToRegisterIsNearest == ASSUME NEW q \in Int PROVE IsNearest(ToRegister(q), q)
<1> DEFINE v == (q + 2) \div 4
<1>1. CASE q <= 0
  BY <1>1 DEF IsNearest, ToRegister
<1>2. CASE q >= 262140
  BY <1>2 DEF IsNearest, ToRegister
<1>3. CASE q > 0 /\ q < 262140
  <2>1. v \in Int /\ 4 * v <= q + 2 /\ q + 2 < 4 * v + 4
    BY <1>3
  <2>2. ToRegister(q) = v
    BY <1>3 DEF ToRegister
  <2> HIDE DEF v
  <2>3. IsNearest(v, q)
    BY <1>3, <2>1 DEF IsNearest
  <2> QED
    BY <2>2, <2>3
<1> QED
  BY <1>1, <1>2, <1>3

LEMMA WireHolds == ASSUME NEW type, NEW q \in Int PROVE Holds(type, ToWire(type, q), q)
BY ToRegisterIsNearest DEF Holds, ToWire

\* For any mappings, whatever fails and whenever the server applies what: a write
\* task shows only what a register with a readback channel holds or held before
\* it was written again.
THEOREM ReadbackCorrect == Spec => []ReadbackShowsRegisters
<1>1. CycleInv => ReadbackShowsRegisters
  BY DEF CycleInv
<1> QED
  BY <1>1, AllInv, PTL

\* For any mappings, whatever fails and whenever the server applies what: no
\* register that is not mapped for writing, in a block that is not too long, is
\* ever changed.
THEOREM WritesContained == Spec => []OnlyMappedRegistersWritten
<1>1. CycleInv => OnlyMappedRegistersWritten
  BY DEF CycleInv
<1> QED
  BY <1>1, AllInv, PTL

\* For any mappings and commands: after a write cycle without a failure every
\* mapped register no late write has reached holds the value nearest to a command
\* it was mapped to.
THEOREM WritesCorrect == Spec => []RegistersHoldTheirCommands
<1>1. BuildInv /\ CycleInv => RegistersHoldTheirCommands
  <2> SUFFICES ASSUME BuildInv, CycleInv, phase \in {"readback", "done"}, kind = "write", ~failed,
                      NEW i \in DOMAIN arguments, Target(arguments[i]) \notin overtaken
               PROVE  \E j \in DOMAIN arguments :
                        /\ Target(arguments[j]) = Target(arguments[i])
                        /\ Holds(arguments[i].type, device[Target(arguments[i])], command[j])
    BY DEF RegistersHoldTheirCommands
  <2>1. Commanded(i)
    BY EveryArgumentInBlock DEF CycleInv, RegistersSoFar
  <2>2. PICK j \in DOMAIN arguments :
          /\ Target(arguments[j]) = Target(arguments[i])
          /\ device[Target(arguments[i])] = ToWire(arguments[i].type, command[j])
    BY <2>1 DEF Commanded
  <2>3. command \in [1..MaxItems -> Int]
    BY DEF CycleInv, CycleTypes
  <2>4. arguments \in Seq(Items) /\ Len(arguments) <= MaxItems
    BY DEF BuildInv, BuildTypes
  <2>5. DOMAIN arguments = 1..Len(arguments) /\ Len(arguments) \in Nat /\ MaxItems \in Nat
    BY <2>4, BoundsAssumption
  <2>6. j \in 1..MaxItems
    BY <2>4, <2>5
  <2>7. command[j] \in Int
    BY <2>3, <2>6
  <2> QED
    BY <2>2, <2>7, WireHolds
<1> QED
  BY <1>1, AllInv, PTL

-----------------------------------------------------------------------------
(***************************************************************************)
(* As few requests as possible.  The sort and the loop are needed          *)
(* together: the mappings are in order, a block ends where its run ends.   *)
(***************************************************************************)
InOrder ==
  phase \notin {"parse", "rejected"} =>
    /\ Len(mappings) = Len(arguments)
    /\ \A i, j \in DOMAIN mappings : i < j => ~Before(mappings[j], mappings[i])

\* The mapping after a block is not the next register of its run.
Ends(b) ==
  b.last + 1 \in DOMAIN mappings =>
    ~(mappings[b.last + 1].type = b.type /\ mappings[b.last + 1].address = mappings[b.last].address + 1)

BlocksEnd ==
  /\ \A n \in DOMAIN blocks : blocks[n].last < index /\ Ends(blocks[n])
  /\ \A i, j \in DOMAIN blocks : i < j => blocks[i].last < blocks[j].first

RunInv == InOrder /\ BlocksEnd

LEMMA BlockTypes ==
  ASSUME BuildInv, NEW n \in DOMAIN blocks
  PROVE  /\ blocks[n].type \in Types /\ blocks[n].start \in Nat
         /\ blocks[n].first \in Nat \ {0} /\ blocks[n].last \in Nat
<1>1. blocks[n] \in Block
  BY DEF BuildInv, BuildTypes
<1> QED
  BY <1>1 DEF Block

LEMMA MappingTypes ==
  ASSUME BuildInv, NEW k \in DOMAIN mappings
  PROVE  mappings[k].type \in Types /\ mappings[k].address \in Nat
<1>1. mappings[k] \in Mapping
  BY DEF BuildInv, BuildTypes
<1> QED
  BY <1>1 DEF Mapping

LEMMA InitRuns == Init => RunInv
<1> SUFFICES ASSUME Init PROVE RunInv
  OBVIOUS
<1>1. blocks = <<>> /\ phase = "parse"
  BY DEF Init
<1> QED
  BY <1>1 DEF RunInv, InOrder, BlocksEnd

LEMMA ParseRuns == BuildInv /\ RunInv /\ Parse => RunInv'
<1> SUFFICES ASSUME BuildInv, RunInv, Parse PROVE RunInv'
  OBVIOUS
<1>1. PICK p \in [DOMAIN arguments -> DOMAIN arguments] :
        /\ IsSorting(p)
        /\ mappings' = [i \in DOMAIN arguments |->
                         [type |-> arguments[p[i]].type, address |-> arguments[p[i]].address, channel |-> p[i]]]
  BY DEF Parse
<1>2. blocks = <<>> /\ blocks' = blocks /\ arguments' = arguments /\ phase' = "block"
  BY DEF Parse, inputVars, BuildInv
<1>3. DOMAIN arguments = 1..Len(arguments) /\ Len(arguments) \in Nat
  BY DEF BuildInv, BuildTypes
<1>4. Len(mappings') = Len(arguments) /\ DOMAIN mappings' = DOMAIN arguments
  <2>1. mappings' \in Seq(Mapping)'
    BY ParseKept DEF BuildInv, BuildTypes
  <2>2. DOMAIN mappings' = 1..Len(mappings') /\ Len(mappings') \in Nat
    BY <2>1
  <2> QED
    BY <1>1, <1>3, <2>2
<1>5. ASSUME NEW i \in DOMAIN mappings', NEW j \in DOMAIN mappings', i < j
      PROVE  ~Before(mappings'[j], mappings'[i])
  <2>1. ~Before(arguments[p[j]], arguments[p[i]])
    BY <1>1, <1>4, <1>5 DEF IsSorting
  <2>2. /\ mappings'[i].type = arguments[p[i]].type /\ mappings'[i].address = arguments[p[i]].address
        /\ mappings'[j].type = arguments[p[j]].type /\ mappings'[j].address = arguments[p[j]].address
    BY <1>1, <1>4
  <2> QED
    BY <2>1, <2>2 DEF Before
<1>6. InOrder'
  BY <1>2, <1>4, <1>5 DEF InOrder, Before
<1>7. BlocksEnd'
  BY <1>2 DEF BlocksEnd
<1> QED
  BY <1>6, <1>7 DEF RunInv

LEMMA CloseRuns == BuildInv /\ RunInv /\ CloseBlock => RunInv'
<1> SUFFICES ASSUME BuildInv, RunInv, CloseBlock PROVE RunInv'
  OBVIOUS
<1>1. UNCHANGED <<arguments, mappings>> /\ phase = "extend" /\ phase' = "block"
        /\ index' = end /\ blocks' = Append(blocks, NewBlock)
        /\ ~(end <= Len(mappings) /\ Follows(end))
  BY DEF CloseBlock, inputVars
<1>2. mappings \in Seq(Mapping) /\ index \in Nat \ {0} /\ end \in Nat \ {0} /\ Len(mappings) \in Nat
        /\ blocks \in Seq(Block) /\ Len(blocks) \in Nat
  BY DEF BuildInv, BuildTypes
<1>3. index < end
  BY <1>1 DEF BuildInv, RunSoFar
<1>4. /\ NewBlock.type = mappings[index].type /\ NewBlock.first = index /\ NewBlock.last = end - 1
      /\ NewBlock.last + 1 = end
  BY <1>2 DEF NewBlock
<1>5. blocks' \in Seq(Block) /\ Len(blocks') = Len(blocks) + 1
        /\ blocks'[Len(blocks) + 1] = NewBlock
        /\ \A n \in 1..Len(blocks) : blocks'[n] = blocks[n]
        /\ DOMAIN blocks = 1..Len(blocks) /\ DOMAIN blocks' = 1..(Len(blocks) + 1)
  <2>1. blocks' \in Seq(Block)'
    BY CloseKept DEF BuildInv, BuildTypes
  <2> QED
    BY <1>1, <1>2, <2>1 DEF Block
<1>6. ASSUME NEW n \in DOMAIN blocks'
      PROVE  \/ n \in DOMAIN blocks /\ blocks'[n] = blocks[n]
             \/ n = Len(blocks) + 1 /\ blocks'[n] = NewBlock
  BY <1>2, <1>5
<1>7. Ends(NewBlock)
  <2> SUFFICES ASSUME end \in DOMAIN mappings
               PROVE  ~(mappings[end].type = NewBlock.type /\ mappings[end].address = mappings[end - 1].address + 1)
    BY <1>4 DEF Ends
  <2>1. end <= Len(mappings)
    BY <1>2
  <2> QED
    BY <1>1, <1>4, <2>1 DEF Follows
<1>8. \A n \in DOMAIN blocks' : blocks'[n].last < index' /\ Ends(blocks'[n])
  <2>1. ASSUME NEW n \in DOMAIN blocks PROVE blocks[n].last < end /\ Ends(blocks[n])
    <3>1. blocks[n].last \in Nat /\ blocks[n].last < index /\ Ends(blocks[n])
      BY BlockTypes DEF RunInv, BlocksEnd
    <3> QED
      BY <1>2, <1>3, <3>1
  <2>2. NewBlock.last < end
    BY <1>2, <1>4
  <2> QED
    BY <1>1, <1>6, <1>7, <2>1, <2>2
<1>9. \A i, j \in DOMAIN blocks' : i < j => blocks'[i].last < blocks'[j].first
  <2> SUFFICES ASSUME NEW i \in DOMAIN blocks', NEW j \in DOMAIN blocks', i < j
               PROVE  blocks'[i].last < blocks'[j].first
    OBVIOUS
  <2>1. i \in DOMAIN blocks /\ blocks'[i] = blocks[i]
    BY <1>2, <1>5
  <2>2. CASE j \in DOMAIN blocks /\ blocks'[j] = blocks[j]
    BY <2>1, <2>2 DEF RunInv, BlocksEnd
  <2>3. CASE blocks'[j] = NewBlock
    BY <1>4, <2>1, <2>3 DEF RunInv, BlocksEnd
  <2> QED
    BY <1>6, <2>2, <2>3
<1>10. InOrder'
  BY <1>1 DEF RunInv, InOrder
<1>11. BlocksEnd'
  BY <1>1, <1>8, <1>9 DEF BlocksEnd, Ends
<1> QED
  BY <1>10, <1>11 DEF RunInv

LEMMA RunKept == BuildInv /\ RunInv /\ [Next]_vars => RunInv'
<1> SUFFICES ASSUME BuildInv, RunInv, [Next]_vars PROVE RunInv'
  OBVIOUS
<1>1. CASE Parse
  BY <1>1, ParseRuns
<1>2. CASE CloseBlock
  BY <1>2, CloseRuns
<1>3. CASE RejectMapping \/ StartBlock \/ ExtendBlock \/ BlocksBuilt \/ TransferBlock \/ StartReadback
             \/ ReadbackBlock \/ EndCycle \/ ServerApplies \/ NextCycle \/ UNCHANGED vars
  <2>1. /\ UNCHANGED <<arguments, mappings, index, blocks>>
        /\ phase' \in {"parse", "rejected"} \/ phase \notin {"parse", "rejected"}
    BY <1>3 DEF RejectMapping, StartBlock, ExtendBlock, BlocksBuilt, TransferBlock, StartReadback, ReadbackBlock,
                EndCycle, ServerApplies, NextCycle, vars, inputVars, buildVars
  <2> QED
    BY <2>1 DEF RunInv, InOrder, BlocksEnd, Ends
<1> QED
  BY <1>1, <1>2, <1>3 DEF Next

LEMMA RunAlways == Spec => [](BuildInv /\ CycleInv /\ RunInv)
<1>1. BuildInv /\ CycleInv /\ RunInv /\ [Next]_vars => (BuildInv /\ CycleInv /\ RunInv)'
  BY BuildKept, CycleKept, RunKept
<1> QED
  BY <1>1, InitBuild, InitCycle, InitRuns, PTL DEF Spec

\* The register a mapping names.
Key(k) == <<mappings[k].type, mappings[k].address>>

\* The channels of the mappings are the arguments, each once.
LEMMA ChannelsOnce ==
  ASSUME BuildInv, MappingsInv, InOrder, phase \notin {"parse", "rejected"}
  PROVE  LET n == Len(arguments)
         IN  /\ n \in Nat /\ DOMAIN arguments = 1..n /\ DOMAIN mappings = 1..n
             /\ \A k \in 1..n : mappings[k].channel \in 1..n
             /\ \A j, k \in 1..n : mappings[j].channel = mappings[k].channel => j = k
<1> DEFINE n == Len(arguments)
           Channel == [k \in 1..n |-> mappings[k].channel]
<1>1. n \in Nat /\ DOMAIN arguments = 1..n /\ DOMAIN mappings = 1..n
  BY DEF BuildInv, BuildTypes, InOrder
<1>2. /\ \A k \in 1..n : mappings[k].channel \in 1..n
      /\ \A i \in 1..n : \E k \in 1..n : mappings[k].channel = i
  BY <1>1 DEF MappingsInv
<1>3. IsFiniteSet(1..n) /\ Cardinality(1..n) = n
  <2> HIDE DEF n, Channel
  <2>1. n \in Nat /\ (1..n = {}) = (n = 0)
    BY <1>1
  <2> QED
    BY <2>1, FS_Interval
<1>4. Channel \in Surjection(1..n, 1..n)
  <2>1. Channel \in [1..n -> 1..n]
    BY <1>2
  <2> QED
    BY <1>2, <2>1, Fun_IsSurj
<1>5. \A j, k \in 1..n : mappings[j].channel = mappings[k].channel => j = k
  <2>1. Channel \in Injection(1..n, 1..n)
    BY <1>3, <1>4, FS_Surjection
  <2>2. \A j \in 1..n : Channel[j] = mappings[j].channel
    OBVIOUS
  <2> HIDE DEF Channel
  <2>3. \A j, k \in 1..n : Channel[j] = Channel[k] => j = k
    BY <2>1, Fun_InjectionProperties
  <2> QED
    BY <2>2, <2>3
<1> QED
  BY <1>1, <1>2, <1>5

\* A block that is too long shows nothing and fails its cycle.
LongInv ==
  kind = "read" =>
    \A n \in DOMAIN blocks : TooLong(blocks[n], ReadLimit) =>
      /\ \A k \in Positions(blocks[n]) : published[mappings[k].channel] = Nothing
      /\ phase \in {"transfer", "done"} /\ n < next => failed

LEMMA LongKept == BuildInv /\ CycleInv /\ RunInv /\ LongInv /\ [Next]_vars => LongInv'
<1> SUFFICES ASSUME BuildInv, CycleInv, RunInv, LongInv, [Next]_vars, kind' = "read",
                    NEW n \in DOMAIN blocks', TooLong(blocks'[n], ReadLimit)
             PROVE  /\ \A k \in Positions(blocks'[n]) : published'[mappings'[k].channel] = Nothing
                    /\ phase' \in {"transfer", "done"} /\ n < next' => failed'
  BY DEF LongInv, TooLong, Positions
<1>1. kind' = kind
  BY DEF Next, Parse, RejectMapping, StartBlock, ExtendBlock, CloseBlock, BlocksBuilt, TransferBlock,
     StartReadback, ReadbackBlock, EndCycle, ServerApplies, NextCycle, vars, inputVars
<1>2. ASSUME NEW k \in Positions(blocks'[n]) PROVE mappings'[k].channel \in 1..MaxItems
  <2>1. BuildInv'
    BY BuildKept
  <2>2. k \in DOMAIN mappings' /\ mappings' \in Seq(Mapping)
    BY <2>1 DEF BuildInv, OffsetsAreAddresses, BuildTypes, Mapping, Positions
  <2>3. mappings'[k] \in Mapping
    BY <2>2
  <2> QED
    BY <2>3 DEF Mapping
<1>3. n \in Nat \ {0}
  <2>1. BuildInv'
    BY BuildKept
  <2>2. blocks' \in Seq(Block)
    BY <2>1 DEF BuildInv, BuildTypes, Block, Types
  <2> QED
    BY <2>2
<1>4. CASE Parse \/ RejectMapping \/ StartBlock \/ ExtendBlock \/ CloseBlock \/ BlocksBuilt
  <2>1. phase \in {"parse", "block", "extend"} /\ UNCHANGED <<next, published>>
    BY <1>4 DEF Parse, RejectMapping, StartBlock, ExtendBlock, CloseBlock, BlocksBuilt, cycleVars
  <2>2. next = 1 /\ published = [c \in 1..MaxItems |-> Nothing]
    BY <2>1 DEF CycleInv, Untransferred
  <2> QED
    BY <1>2, <1>3, <2>1, <2>2
<1>5. ASSUME UNCHANGED <<blocks, mappings>>
      PROVE  /\ n \in DOMAIN blocks /\ blocks'[n] = blocks[n] /\ TooLong(blocks[n], ReadLimit)
             /\ \A k \in Positions(blocks[n]) : published[mappings[k].channel] = Nothing
             /\ phase \in {"transfer", "done"} /\ n < next => failed
  BY <1>1, <1>5 DEF LongInv
<1>6. CASE TransferBlock
  <2>1. /\ UNCHANGED <<blocks, mappings, phase>> /\ phase = "transfer" /\ next' = next + 1 /\ next <= Len(blocks)
        /\ ReadAnswered(blocks[next]) \/ ReadFails
    BY <1>1, <1>6 DEF TransferBlock, buildVars
  <2>2. next \in DOMAIN blocks /\ next \in Nat
    BY <2>1 DEF BuildInv, BuildTypes, CycleInv, CycleTypes
  <2>3. CASE ReadFails
    BY <1>5, <2>1, <2>3 DEF ReadFails
  <2>4. CASE ReadAnswered(blocks[next])
    <3>1. Served(blocks[next], ReadLimit) /\ published' = Shown(blocks[next]) /\ UNCHANGED failed
      BY <2>4 DEF ReadAnswered
    <3>2. n # next
      BY <1>5, <2>1, <2>2, <3>1, LimitsAssumption, ServedIsShort
    <3>3. n < next' => n < next
      BY <1>3, <2>1, <2>2, <3>2
    <3>4. ASSUME NEW k \in Positions(blocks[n]) PROVE published'[mappings[k].channel] = Nothing
      <4>1. ASSUME NEW m \in Positions(blocks[next]), mappings[m].channel = mappings[k].channel
            PROVE  FALSE
        <5>1. k \in DOMAIN mappings /\ m \in DOMAIN mappings
          BY <1>5, <2>1, <2>2 DEF BuildInv, OffsetsAreAddresses
        <5>2. k = m
          BY <2>1, <4>1, <5>1, ChannelsOnce DEF CycleInv, RunInv
        <5>3. /\ n < next => blocks[n].last < blocks[next].first
              /\ next < n => blocks[next].last < blocks[n].first
          BY <1>5, <2>1, <2>2 DEF RunInv, BlocksEnd
        <5>4. /\ blocks[n].first \in Nat /\ blocks[n].last \in Nat
              /\ blocks[next].first \in Nat /\ blocks[next].last \in Nat
          BY <1>5, <2>1, <2>2, BlockTypes
        <5> QED
          BY <1>3, <2>2, <3>2, <5>2, <5>3, <5>4 DEF Positions
      <4>2. mappings[k].channel \in 1..MaxItems
        BY <1>2, <1>5, <2>1 DEF Positions
      <4>3. published'[mappings[k].channel] = published[mappings[k].channel]
        BY <2>1, <2>2, <3>1, <4>1, <4>2, ShownIsHeld
      <4> QED
        BY <1>5, <2>1, <4>3
    <3> QED
      BY <1>5, <2>1, <3>1, <3>3, <3>4 DEF Positions
  <2> QED
    BY <2>1, <2>3, <2>4
<1>7. CASE NextCycle
  BY <1>3, <1>5, <1>7 DEF NextCycle, buildVars, Positions
<1>8. CASE EndCycle
  <2>1. /\ UNCHANGED <<blocks, mappings, published, next, failed>>
        /\ phase \in {"transfer", "readback"} /\ phase' = "done"
    BY <1>8 DEF EndCycle, buildVars, cycleVars
  <2>2. phase = "transfer"
    BY <1>1, <2>1 DEF CycleInv, AllBlocks
  <2> QED
    BY <1>5, <2>1, <2>2 DEF Positions
<1>9. CASE StartReadback \/ ReadbackBlock
  BY <1>1, <1>9 DEF StartReadback, ReadbackBlock, CycleInv, AllBlocks
<1>10. CASE ServerApplies
  BY <1>1, <1>10 DEF ServerApplies, CycleInv, LateInv
<1>11. CASE UNCHANGED vars
  <2>1. UNCHANGED <<blocks, mappings, published, next, failed, phase>>
    BY <1>11 DEF vars, buildVars, cycleVars
  <2> QED
    BY <1>5, <2>1 DEF Positions
<1> QED
  BY <1>4, <1>6, <1>7, <1>8, <1>9, <1>10, <1>11 DEF Next

\* For any mappings: a channel of a read task shows its own register or nothing,
\* its register after a cycle without a failure, and nothing, with a failure, in
\* a block that is too long.
THEOREM ReadsCorrect == Spec => []ChannelsShowTheirRegisters
<1>1. Init => LongInv
  <2> SUFFICES ASSUME Init PROVE LongInv
    OBVIOUS
  <2>1. blocks = <<>>
    BY DEF Init
  <2> QED
    BY <2>1 DEF LongInv
<1>2. (BuildInv /\ CycleInv /\ RunInv) /\ LongInv /\ [Next]_vars => LongInv'
  BY LongKept
<1>3. BuildInv /\ CycleInv /\ LongInv => ChannelsShowTheirRegisters
  <2> SUFFICES ASSUME BuildInv, CycleInv, LongInv, kind = "read" PROVE ChannelsShowTheirRegisters
    BY DEF ChannelsShowTheirRegisters
  <2>1. \A i \in DOMAIN arguments : published[i] # Nothing => published[i] = device[Target(arguments[i])]
    BY DEF CycleInv, ChannelsOwn
  <2>2. ASSUME phase = "done", ~failed, NEW i \in DOMAIN arguments
        PROVE  published[i] = device[Target(arguments[i])]
    <3>1. PICK n \in DOMAIN blocks : \E k \in Positions(blocks[n]) : mappings[k].channel = i
      BY <2>2, EveryArgumentInBlock
    <3>2. n < next
      BY <2>2, <3>1 DEF CycleInv, AllBlocks, CycleTypes, BuildInv, BuildTypes
    <3> QED
      BY <2>2, <3>1, <3>2 DEF CycleInv, ChannelsSoFar
  <2>3. ASSUME NEW n \in DOMAIN blocks, TooLong(blocks[n], ReadLimit)
        PROVE  /\ \A k \in Positions(blocks[n]) : published[mappings[k].channel] = Nothing
               /\ phase = "done" => failed
    <3>1. phase = "done" => n < next
      BY <2>3 DEF CycleInv, AllBlocks, CycleTypes, BuildInv, BuildTypes
    <3> QED
      BY <2>3, <3>1 DEF LongInv
  <2> QED
    BY <2>1, <2>2, <2>3 DEF ChannelsShowTheirRegisters
<1> QED
  BY <1>1, <1>2, <1>3, RunAlways, PTL DEF Spec

\* Without duplicates the mappings are strictly in order of type and address.
LEMMA StrictOrder ==
  ASSUME BuildInv, CycleInv, RunInv, Built, NoDuplicates
  PROVE  /\ Named = {Key(k) : k \in DOMAIN mappings}
         /\ \A i, j \in DOMAIN mappings : Key(i) = Key(j) => i = j
         /\ \A i, j \in DOMAIN mappings : i < j /\ mappings[i].type = mappings[j].type =>
              mappings[i].address < mappings[j].address
         /\ \A i, j, k \in DOMAIN mappings : i < j /\ j < k /\ mappings[i].type = mappings[k].type =>
              mappings[j].type = mappings[i].type
<1> DEFINE n == Len(arguments)
           Register == [i \in 1..n |-> <<arguments[i].type, arguments[i].address>>]
<1>1. /\ n \in Nat /\ DOMAIN arguments = 1..n /\ DOMAIN mappings = 1..n
      /\ mappings \in Seq(Mapping)
      /\ \A i, j \in DOMAIN mappings : i < j => ~Before(mappings[j], mappings[i])
  <2>1. phase \notin {"parse", "rejected"}
    BY DEF Built
  <2> QED
    BY <2>1 DEF BuildInv, BuildTypes, RunInv, InOrder
<1>2. /\ \A k \in 1..n : /\ mappings[k].channel \in 1..n
                         /\ mappings[k].type = arguments[mappings[k].channel].type
                         /\ mappings[k].address = arguments[mappings[k].channel].address
      /\ \A i \in 1..n : \E k \in 1..n : mappings[k].channel = i
  <2>1. phase \notin {"parse", "rejected"}
    BY DEF Built
  <2> QED
    BY <1>1, <2>1 DEF CycleInv, MappingsInv
<1>3. IsFiniteSet(1..n) /\ Cardinality(1..n) = n
  BY <1>1, FS_Interval
<1>5. \A j, k \in 1..n : mappings[j].channel = mappings[k].channel => j = k
  <2>1. phase \notin {"parse", "rejected"}
    BY DEF Built
  <2> QED
    BY <2>1, ChannelsOnce DEF CycleInv, RunInv
<1>6. Named = {Register[i] : i \in 1..n}
  BY <1>1 DEF Named
<1>7. Register \in Surjection(1..n, Named)
  <2>1. Register \in [1..n -> Named]
    BY <1>1 DEF Named
  <2> QED
    BY <1>6, <2>1, Fun_IsSurj
<1>8. \A i, j \in 1..n : Register[i] = Register[j] => i = j
  <2>1. Cardinality(Named) = Cardinality(1..n)
    BY <1>3 DEF NoDuplicates
  <2>2. Register \in Injection(1..n, Named)
    BY <1>3, <1>7, <2>1, FS_Surjection
  <2> HIDE DEF Register
  <2> QED
    BY <2>2, Fun_InjectionProperties
<1>9. \A k \in 1..n : Key(k) = Register[mappings[k].channel]
  BY <1>2 DEF Key
<1> HIDE DEF Register
<1> HIDE DEF n
<1>10. Named = {Key(k) : k \in DOMAIN mappings}
  <2>1. ASSUME NEW x \in Named PROVE \E k \in DOMAIN mappings : x = Key(k)
    <3>1. PICK i \in 1..n : x = Register[i]
      BY <1>6
    <3>2. PICK k \in 1..n : mappings[k].channel = i
      BY <1>2
    <3> QED
      BY <1>1, <1>9, <3>1, <3>2
  <2>2. ASSUME NEW k \in DOMAIN mappings PROVE Key(k) \in Named
    <3>1. k \in 1..n /\ mappings[k].channel \in 1..n
      BY <1>1, <1>2
    <3>2. Key(k) = Register[mappings[k].channel]
      BY <1>9, <3>1
    <3> QED
      BY <1>6, <3>1, <3>2
  <2> QED
    BY <2>1, <2>2
<1>11. ASSUME NEW i \in DOMAIN mappings, NEW j \in DOMAIN mappings, Key(i) = Key(j)
       PROVE  i = j
  <2>1. Register[mappings[i].channel] = Register[mappings[j].channel]
    BY <1>1, <1>9, <1>11
  <2>2. mappings[i].channel \in 1..n /\ mappings[j].channel \in 1..n
    BY <1>1, <1>2
  <2>3. mappings[i].channel = mappings[j].channel
    BY <1>8, <2>1, <2>2
  <2> QED
    BY <1>1, <1>5, <2>3
<1>12. \A k \in DOMAIN mappings : mappings[k].type \in Types /\ mappings[k].address \in Nat
  BY MappingTypes
<1>13. \A i, j \in DOMAIN mappings : i < j /\ mappings[i].type = mappings[j].type =>
         mappings[i].address < mappings[j].address
  BY <1>1, <1>11, <1>12 DEF Before, Key
<1>14. ASSUME NEW i \in DOMAIN mappings, NEW j \in DOMAIN mappings, NEW k \in DOMAIN mappings,
              i < j, j < k, mappings[i].type = mappings[k].type
       PROVE  mappings[j].type = mappings[i].type
  <2>1. \A t \in Types : RegisterType[t] \in Nat
    BY DEF Types, RegisterType
  <2>2. \A t, u \in Types : RegisterType[t] = RegisterType[u] => t = u
    BY DEF Types, RegisterType
  <2>3. ~(RegisterType[mappings[j].type] < RegisterType[mappings[i].type])
    BY <1>1, <1>14 DEF Before
  <2>4. ~(RegisterType[mappings[k].type] < RegisterType[mappings[j].type])
    BY <1>1, <1>14 DEF Before
  <2>5. RegisterType[mappings[j].type] = RegisterType[mappings[i].type]
    BY <1>12, <1>14, <2>1, <2>3, <2>4
  <2> QED
    BY <1>12, <2>2, <2>5
<1> QED
  BY <1>10, <1>11, <1>13, <1>14

\* The registers a block begins and ends with.
BlockRun(n) == <<RegisterAt(blocks[n], blocks[n].first), RegisterAt(blocks[n], blocks[n].last)>>

\* What is known of a block: its place in the mappings and its registers.
LEMMA BlockPlace ==
  ASSUME BuildInv, NEW n \in DOMAIN blocks
  PROVE  LET b == blocks[n]
         IN  /\ b.type \in Types /\ b.start \in Nat
             /\ b.first \in DOMAIN mappings /\ b.last \in DOMAIN mappings /\ b.first <= b.last
             /\ \A k \in b.first..b.last :
                  k \in DOMAIN mappings /\ mappings[k].type = b.type
                    /\ mappings[k].address = b.start + (k - b.first)
             /\ BlockRun(n) = <<Key(b.first), Key(b.last)>>
<1> DEFINE b == blocks[n]
<1>1. b \in Block /\ b.first <= b.last
  BY DEF BuildInv, BuildTypes, BlocksPartitionMappings
<1>2. b.type \in Types /\ b.start \in Nat /\ b.first \in Nat \ {0} /\ b.last \in Nat
  BY <1>1 DEF Block
<1>3. b.first \in b.first..b.last /\ b.last \in b.first..b.last
  BY <1>1, <1>2
<1>4. \A k \in b.first..b.last : k \in DOMAIN mappings /\ RegisterAt(b, k) = Key(k)
  BY DEF BuildInv, OffsetsAreAddresses, Positions, Key
<1>5. \A k \in b.first..b.last : mappings[k].type = b.type /\ mappings[k].address = b.start + (k - b.first)
  BY <1>4 DEF RegisterAt, Key
<1>6. BlockRun(n) = <<Key(b.first), Key(b.last)>>
  BY <1>3, <1>4 DEF BlockRun
<1> HIDE DEF b
<1> QED
  BY <1>1, <1>2, <1>3, <1>4, <1>5, <1>6 DEF b

LEMMA BlockIsRun ==
  ASSUME BuildInv, CycleInv, RunInv, Built, NoDuplicates, NEW n \in DOMAIN blocks
  PROVE  BlockRun(n) \in Runs(Named)
<1> DEFINE b == blocks[n]
           from == b.start
           to == b.start + (b.last - b.first)
           N == DOMAIN mappings
<1>1. /\ b.type \in Types /\ from \in Nat
      /\ b.first \in N /\ b.last \in N /\ b.first <= b.last
      /\ \A k \in b.first..b.last :
           k \in N /\ mappings[k].type = b.type /\ mappings[k].address = from + (k - b.first)
      /\ BlockRun(n) = <<Key(b.first), Key(b.last)>>
  BY BlockPlace
<1>2. mappings \in Seq(Mapping) /\ N = 1..Len(mappings) /\ Len(mappings) \in Nat /\ N \subseteq Nat
  BY DEF BuildInv, BuildTypes
<1>3. /\ Named = {Key(k) : k \in N}
      /\ \A i, j \in N : i < j /\ mappings[i].type = mappings[j].type => mappings[i].address < mappings[j].address
      /\ \A i, j, k \in N : i < j /\ j < k /\ mappings[i].type = mappings[k].type =>
           mappings[j].type = mappings[i].type
  BY StrictOrder
<1>4. \A k \in N : mappings[k].address \in Nat
  BY MappingTypes
<1>5. Ends(b)
  BY DEF RunInv, BlocksEnd
<1>6. b.first \in Nat /\ b.last \in Nat /\ b.first \in b.first..b.last /\ b.last \in b.first..b.last
  BY <1>1, <1>2
<1>7. Key(b.first) = <<b.type, from>> /\ Key(b.last) = <<b.type, to>> /\ to \in Nat /\ from <= to
  <2>1. mappings[b.first].address = from + (b.first - b.first)
    BY <1>1, <1>6
  <2>2. mappings[b.first].address = from
    BY <1>1, <1>6, <2>1
  <2> QED
    BY <1>1, <1>6, <2>2 DEF Key
<1>8. \A a \in from..to : <<b.type, a>> \in Named
  <2> SUFFICES ASSUME NEW a \in from..to PROVE <<b.type, a>> \in Named
    OBVIOUS
  <2>1. b.first + (a - from) \in b.first..b.last /\ from + ((b.first + (a - from)) - b.first) = a
    BY <1>1, <1>6
  <2>2. Key(b.first + (a - from)) = <<b.type, a>>
    BY <1>1, <2>1 DEF Key
  <2> QED
    BY <1>1, <1>3, <2>1, <2>2
<1>9. <<b.type, to + 1>> \notin Named
  <2> SUFFICES ASSUME NEW j \in N, Key(j) = <<b.type, to + 1>> PROVE FALSE
    BY <1>3
  <2>1. mappings[j].type = b.type /\ mappings[j].address = to + 1
    BY DEF Key
  <2>2. mappings[b.last].type = b.type /\ mappings[b.last].address = to
    BY <1>7 DEF Key
  <2>3. b.last < j
    <3>1. ~(j < b.last)
      BY <1>1, <1>3, <1>7, <2>1, <2>2
    <3>2. j # b.last
      BY <1>7, <2>1, <2>2
    <3> QED
      BY <1>2, <1>6, <3>1, <3>2
  <2>4. CASE j = b.last + 1
    BY <1>5, <2>1, <2>2, <2>4 DEF Ends
  <2>5. CASE b.last + 1 < j
    <3>1. b.last + 1 \in N /\ b.last < b.last + 1
      BY <1>2, <1>6, <2>5
    <3>2. mappings[b.last + 1].type = b.type
      BY <1>1, <1>3, <2>1, <2>2, <2>5, <3>1
    <3>3. to < mappings[b.last + 1].address /\ mappings[b.last + 1].address < to + 1
      BY <1>1, <1>3, <2>1, <2>2, <2>5, <3>1, <3>2
    <3> QED
      BY <1>4, <1>7, <3>1, <3>3
  <2> QED
    BY <1>2, <1>6, <2>3, <2>4, <2>5
<1>10. <<b.type, from - 1>> \notin Named
  <2> SUFFICES ASSUME NEW j \in N, Key(j) = <<b.type, from - 1>> PROVE FALSE
    BY <1>3
  <2>1. mappings[j].type = b.type /\ mappings[j].address = from - 1
    BY DEF Key
  <2>2. mappings[b.first].type = b.type /\ mappings[b.first].address = from
    BY <1>7 DEF Key
  <2>3. j < b.first
    <3>1. ~(b.first < j)
      BY <1>1, <1>3, <1>7, <2>1, <2>2
    <3>2. j # b.first
      BY <1>1, <2>1, <2>2
    <3> QED
      BY <1>2, <1>6, <3>1, <3>2
  <2>4. b.first - 1 \in N /\ b.first # 1
    BY <1>1, <1>2, <1>6, <2>3
  <2>5. CASE j = b.first - 1
    <3>1. n # 1 /\ blocks[n - 1].last = j /\ n - 1 \in DOMAIN blocks
      <4>1. b.first = IF n = 1 THEN 1 ELSE blocks[n - 1].last + 1
        BY DEF BuildInv, BlocksPartitionMappings
      <4>2. n # 1 /\ b.first = blocks[n - 1].last + 1
        BY <2>4, <4>1
      <4>3. n - 1 \in DOMAIN blocks
        BY <4>2 DEF BuildInv, BuildTypes
      <4>4. blocks[n - 1].last \in Nat
        BY <4>3, BlockTypes
      <4> QED
        BY <1>6, <2>5, <4>2, <4>3, <4>4
    <3>2. blocks[n - 1].type = b.type
      <4>1. blocks[n - 1].last \in blocks[n - 1].first..blocks[n - 1].last
        <5>1. /\ blocks[n - 1].first \in Nat /\ blocks[n - 1].last \in Nat
              /\ blocks[n - 1].first <= blocks[n - 1].last
          BY <3>1, BlockTypes DEF BuildInv, BlocksPartitionMappings
        <5> QED
          BY <5>1
      <4>2. mappings[j].type = blocks[n - 1].type
        BY <3>1, <4>1, BlockPlace
      <4> QED
        BY <2>1, <4>2
    <3>3. Ends(blocks[n - 1])
      BY <3>1 DEF RunInv, BlocksEnd
    <3>4. j + 1 = b.first
      BY <1>6, <2>5
    <3> QED
      BY <1>1, <2>1, <2>2, <3>1, <3>2, <3>3, <3>4 DEF Ends
  <2>6. CASE j < b.first - 1
    <3>1. b.first - 1 < b.first
      BY <1>6
    <3>2. mappings[b.first - 1].type = b.type
      BY <1>1, <1>3, <2>1, <2>2, <2>4, <2>6, <3>1
    <3>3. from - 1 < mappings[b.first - 1].address /\ mappings[b.first - 1].address < from
      BY <1>1, <1>3, <2>1, <2>2, <2>4, <2>6, <3>1, <3>2
    <3> QED
      BY <1>1, <1>4, <2>4, <3>3
  <2> QED
    BY <1>2, <1>6, <2>3, <2>5, <2>6
<1>11. Key(b.first) \in Named /\ Key(b.last) \in Named
  BY <1>1, <1>3
<1> HIDE DEF b, from, to, N
<1> QED
  BY <1>1, <1>7, <1>8, <1>9, <1>10, <1>11 DEF Runs

LEMMA RunIsBlock ==
  ASSUME BuildInv, CycleInv, RunInv, Built, NoDuplicates, NEW run \in Runs(Named)
  PROVE  \E n \in DOMAIN blocks : BlockRun(n) = run
<1> DEFINE type == run[1][1]
           from == run[1][2]
           to == run[2][2]
           N == DOMAIN mappings
<1>1. /\ Named = {Key(k) : k \in N}
      /\ \A i, j \in N : Key(i) = Key(j) => i = j
  BY StrictOrder
<1>2. /\ run \in Named \X Named /\ run[2][1] = type /\ from <= to
      /\ \A a \in from..to : <<type, a>> \in Named
      /\ <<type, from - 1>> \notin Named /\ <<type, to + 1>> \notin Named
  BY DEF Runs
<1>3. PICK i \in N : Key(i) = run[1]
  BY <1>1, <1>2
<1>4. PICK j \in N : Key(j) = run[2]
  BY <1>1, <1>2
<1>5. mappings \in Seq(Mapping) /\ N = 1..Len(mappings) /\ Len(mappings) \in Nat /\ N \subseteq Nat
  BY DEF BuildInv, BuildTypes
<1>6. run = <<<<type, from>>, <<type, to>>>> /\ from \in Nat /\ to \in Nat
  <2>1. run = <<run[1], run[2]>>
    BY <1>2
  <2>2. run[1] = <<type, from>> /\ run[2] = <<type, to>>
    BY <1>2, <1>3, <1>4 DEF Key
  <2>3. mappings[i].address = from /\ mappings[j].address = to
    BY <1>3, <1>4 DEF Key
  <2>4. mappings[i].address \in Nat /\ mappings[j].address \in Nat
    BY MappingTypes
  <2> QED
    BY <2>1, <2>2, <2>3, <2>4
<1>7. PICK n \in DOMAIN blocks : i \in blocks[n].first..blocks[n].last
  <2>1. phase \notin {"parse", "rejected"} /\ index = Len(mappings) + 1
    BY DEF Built, BuildInv, BlocksPartitionMappings
  <2>2. i < index
    BY <1>5, <2>1
  <2> QED
    BY <2>1, <2>2 DEF CycleInv, MappingsInv, Positions
<1> DEFINE b == blocks[n]
           end_of == b.start + (b.last - b.first)
<1>8. /\ b.type \in Types /\ b.start \in Nat
      /\ b.first \in N /\ b.last \in N /\ b.first <= b.last
      /\ \A k \in b.first..b.last :
           k \in N /\ mappings[k].type = b.type /\ mappings[k].address = b.start + (k - b.first)
      /\ BlockRun(n) = <<Key(b.first), Key(b.last)>>
  BY BlockPlace
<1>9. b.first \in Nat /\ b.last \in Nat /\ i \in Nat /\ b.first <= i /\ i <= b.last
  BY <1>5, <1>7, <1>8
<1>10. b.type = type /\ from = b.start + (i - b.first)
  BY <1>3, <1>7, <1>8 DEF Key
<1>11. i = b.first
  <2> SUFFICES ASSUME b.first < i PROVE FALSE
    BY <1>9
  <2>1. i - 1 \in b.first..b.last /\ b.start + ((i - 1) - b.first) = from - 1
    BY <1>8, <1>9, <1>10
  <2>2. Key(i - 1) = <<type, from - 1>> /\ i - 1 \in N
    BY <1>8, <1>10, <2>1 DEF Key
  <2> QED
    BY <1>1, <1>2, <2>2
<1>12. from = b.start
  BY <1>8, <1>9, <1>10, <1>11
<1>13. Key(b.last) = <<type, end_of>> /\ end_of \in Nat /\ from <= end_of
  <2>1. b.last \in b.first..b.last
    BY <1>8, <1>9
  <2>2. Key(b.last) = <<type, end_of>>
    BY <1>8, <1>10, <2>1 DEF Key
  <2> QED
    BY <1>8, <1>9, <1>12, <2>2
<1>14. ~(to < end_of)
  <2> SUFFICES ASSUME to < end_of PROVE FALSE
    OBVIOUS
  <2>1. b.first + (to + 1 - from) \in b.first..b.last
         /\ b.start + ((b.first + (to + 1 - from)) - b.first) = to + 1
    BY <1>2, <1>6, <1>8, <1>9, <1>12
  <2>2. Key(b.first + (to + 1 - from)) = <<type, to + 1>> /\ b.first + (to + 1 - from) \in N
    BY <1>8, <1>10, <2>1 DEF Key
  <2> QED
    BY <1>1, <1>2, <2>2
<1>15. ~(end_of < to)
  <2> SUFFICES ASSUME end_of < to PROVE FALSE
    OBVIOUS
  <2>1. end_of + 1 \in from..to
    BY <1>6, <1>13
  <2>2. <<type, end_of + 1>> \in Named
    BY <1>2, <2>1
  <2>3. <<type, end_of + 1>> \notin Named
    <3>1. BlockRun(n) \in Runs(Named)
      BY BlockIsRun
    <3>2. BlockRun(n)[2] = <<type, end_of>> /\ BlockRun(n)[1] = <<type, from>>
      BY <1>3, <1>6, <1>8, <1>11, <1>13
    <3> HIDE DEF type, from, to, end_of
    <3> QED
      BY <3>1, <3>2 DEF Runs
  <2> QED
    BY <2>2, <2>3
<1>16. to = end_of
  BY <1>6, <1>13, <1>14, <1>15
<1>17. BlockRun(n) = run
  BY <1>3, <1>6, <1>8, <1>11, <1>13, <1>16
<1> QED
  BY <1>17

\* For any mappings, in whatever order they were configured and as long as none is
\* there twice: there is one request for every run of consecutive registers, and
\* no other (the sort of parseMappings and the loop of buildBlocks together).
THEOREM FewestRequests == Spec => []OneRequestPerRun
<1>1. BuildInv /\ CycleInv /\ RunInv => OneRequestPerRun
  <2> SUFFICES ASSUME BuildInv, CycleInv, RunInv, Built, NoDuplicates
               PROVE  /\ {BlockRun(n) : n \in DOMAIN blocks} = Runs(Named)
                      /\ Len(blocks) = Cardinality(Runs(Named))
    BY DEF OneRequestPerRun, BlockRun
  <2>1. {BlockRun(n) : n \in DOMAIN blocks} = Runs(Named)
    BY BlockIsRun, RunIsBlock
  <2>2. Len(blocks) \in Nat /\ DOMAIN blocks = 1..Len(blocks) /\ blocks \in Seq(Block)
    BY DEF BuildInv, BuildTypes
  <2>3. ASSUME NEW i \in DOMAIN blocks, NEW j \in DOMAIN blocks, BlockRun(i) = BlockRun(j)
        PROVE  i = j
    <3>1. /\ BlockRun(i)[1] = Key(blocks[i].first) /\ BlockRun(j)[1] = Key(blocks[j].first)
          /\ blocks[i].first \in DOMAIN mappings /\ blocks[j].first \in DOMAIN mappings
          /\ blocks[i].first <= blocks[i].last /\ blocks[j].first <= blocks[j].last
      BY BlockPlace
    <3>2. blocks[i].first = blocks[j].first
      BY <2>3, <3>1, StrictOrder
    <3>3. /\ i < j => blocks[i].last < blocks[j].first
          /\ j < i => blocks[j].last < blocks[i].first
      BY DEF RunInv, BlocksEnd
    <3>4. blocks[i].first \in Nat /\ blocks[i].last \in Nat /\ blocks[j].first \in Nat /\ blocks[j].last \in Nat
      BY BlockTypes
    <3> QED
      BY <2>2, <3>1, <3>2, <3>3, <3>4
  <2>4. [n \in 1..Len(blocks) |-> BlockRun(n)] \in Bijection(1..Len(blocks), Runs(Named))
    <3> DEFINE F == [n \in 1..Len(blocks) |-> BlockRun(n)]
    <3>1. F \in [1..Len(blocks) -> Runs(Named)]
      BY <2>1, <2>2
    <3>2. \A i, j \in 1..Len(blocks) : F[i] = F[j] => i = j
      BY <2>2, <2>3
    <3>3. \A r \in Runs(Named) : \E n \in 1..Len(blocks) : F[n] = r
      BY <2>1, <2>2
    <3> HIDE DEF F
    <3>4. F \in Bijection(1..Len(blocks), Runs(Named))
      BY <3>1, <3>2, <3>3, Fun_IsBij
    <3> QED
      BY <3>4 DEF F
  <2>5. Cardinality(Runs(Named)) = Len(blocks)
    BY <2>2, <2>4, FS_CountingElements DEF ExistsBijection
  <2> QED
    BY <2>1, <2>5
<1> QED
  BY <1>1, RunAlways, PTL
=============================================================================
