--------------------------- MODULE RegisterMapping ---------------------------
(***************************************************************************)
(* From the mappings of a task to Modbus requests and back to channels:    *)
(* parseMappings, buildBlocks, toRegister, readBlock and publishBlock in   *)
(* engine/src/modbus_tcp_client_module.cpp, and the transfer loops of      *)
(* on_task.                                                                *)
(*                                                                         *)
(* A mapping is a register type, an address and a channel; channels are    *)
(* the positions in the arguments, so that every mapping has its own.  A   *)
(* command is a double, held here as a number of quarters.                 *)
(*                                                                         *)
(* An exchange may fail at any time.  A write that fails may all the same  *)
(* have reached the server: the reply is late or lost, the client closes   *)
(* the socket (handleOperationFailure in modbus_tcp_client.cpp), and the   *)
(* server applies the write now, in a later cycle, or never.               *)
(***************************************************************************)
EXTENDS Integers, Sequences, FiniteSets

CONSTANTS Items,        \* entries of read_mappings or write_mappings
          MaxItems,     \* how many of them a task has at most
          MaxAddress,   \* the last address a request can name, 65535
          ReadLimit,    \* the most registers of a type libmodbus reads at a time
          WriteLimit,   \* and the most it writes
          WithReadback, \* the mappings of a write task that have a readback_channel
          Commands,     \* what the command channels may hold together, in quarters
          MaxLate       \* bound: writes at a time the server may still apply

\* The order of enum class RegisterType.
RegisterType == [input_register |-> 0, discrete_input |-> 1, coil |-> 2, holding_register |-> 3]
Types == DOMAIN RegisterType
Item == [type : Types \cup {"unsupported"}, address : Int]
Registers == Types \X (0..MaxAddress)

ASSUME ItemsAssumption == Items \subseteq Item
ASSUME BoundsAssumption == MaxItems \in Nat /\ MaxAddress \in Nat /\ MaxLate \in Nat
ASSUME LimitsAssumption == ReadLimit \in [Types -> Nat] /\ WriteLimit \in [Types -> Nat]
ASSUME CommandsAssumption == Commands \subseteq [1..MaxItems -> Int]
ASSUME ReadbackAssumption == WithReadback \subseteq 1..MaxItems

VARIABLES
  kind,       \* read task or write task
  arguments,  \* the mappings as configured
  command,    \* the value of each command channel
  phase,      \* how far the task has come
  mappings,   \* what parseMappings() returns
  index,      \* of buildBlocks(), from 1
  end,        \* of buildBlocks(), from 1
  blocks,     \* what buildBlocks() returns: positions in mappings
  next,       \* the block the cycle has come to
  device,     \* the registers of the server
  published,  \* what each channel, or readback channel, shows
  failed,     \* some exchange of the cycle failed
  unanswered, \* writes that failed and that the server may still apply
  overtaken,  \* registers such a write reached after the last answered one (history)
  outdated    \* readback channels whose register was written since (history)

inputVars == <<kind, arguments, command>>
buildVars == <<mappings, index, end, blocks>>
cycleVars == <<next, device, published, failed, unanswered, overtaken, outdated>>
vars == <<inputVars, phase, buildVars, cycleVars>>

Phases == {"parse", "block", "extend", "transfer", "readback", "done", "rejected"}
Mapping == [type : Types, address : Nat, channel : 1..MaxItems]
Block == [type : Types, start : Nat, first : Nat \ {0}, last : Nat]
Nothing == -1

\* Registers the task has not written differ from each other and from what it
\* writes.
Factory(r) == 1000 + 10 * RegisterType[r[1]] + r[2]

\* A read task has no commands.
CommandsOf(k) == IF k = "write" THEN Commands ELSE {[c \in 1..MaxItems |-> 0]}

Init ==
  /\ kind \in {"read", "write"}
  /\ arguments \in UNION {[1..n -> Items] : n \in 0..MaxItems}
  /\ command \in CommandsOf(kind)
  /\ phase = "parse"
  /\ mappings = <<>>
  /\ index = 1 /\ end = 1
  /\ blocks = <<>>
  /\ next = 1
  /\ device = [r \in Registers |-> Factory(r)]
  /\ published = [c \in 1..MaxItems |-> Nothing]
  /\ failed = FALSE
  /\ unanswered = {} /\ overtaken = {} /\ outdated = {}

-----------------------------------------------------------------------------
\* Bug: the order ignores the register type.
BeforeByAddress(x, y) == x.address < y.address

Before(x, y) ==
  \/ RegisterType[x.type] < RegisterType[y.type]
  \/ x.type = y.type /\ x.address < y.address

\* Bug: an input register can be mapped for writing.
AcceptsInputs(item) == item.type \in Types /\ item.address >= 0

Acceptable(item) ==
  /\ item.type \in Types
  /\ kind = "write" => item.type \notin {"input_register", "discrete_input"}
  /\ item.address >= 0

\* std::sort leaves open how equal mappings are ordered: p says which argument
\* comes where, and every one comes somewhere.
IsSorting(p) ==
  /\ \A i \in DOMAIN arguments : \E j \in DOMAIN arguments : p[j] = i
  /\ \A i, j \in DOMAIN arguments : i < j => ~Before(arguments[p[j]], arguments[p[i]])

\* Bug: the channels keep the order of the arguments.
ChannelsStayInPlace ==
  /\ phase = "parse"
  /\ \A i \in DOMAIN arguments : Acceptable(arguments[i])
  /\ \E p \in [DOMAIN arguments -> DOMAIN arguments] :
       /\ IsSorting(p)
       /\ mappings' = [i \in DOMAIN arguments |->
                         [type |-> arguments[p[i]].type, address |-> arguments[p[i]].address,
                          channel |-> i]]
  /\ phase' = "block"
  /\ UNCHANGED <<inputVars, index, end, blocks, cycleVars>>

\* parseMappings.
Parse ==
  /\ phase = "parse"
  /\ \A i \in DOMAIN arguments : Acceptable(arguments[i])
  /\ \E p \in [DOMAIN arguments -> DOMAIN arguments] :
       /\ IsSorting(p)
       /\ mappings' = [i \in DOMAIN arguments |->
                         [type |-> arguments[p[i]].type, address |-> arguments[p[i]].address,
                          channel |-> p[i]]]
  /\ phase' = "block"
  /\ UNCHANGED <<inputVars, index, end, blocks, cycleVars>>

\* parseMappings throws, and with it createRuntime.
RejectMapping ==
  /\ phase = "parse"
  /\ \E i \in DOMAIN arguments : ~Acceptable(arguments[i])
  /\ phase' = "rejected"
  /\ UNCHANGED <<inputVars, buildVars, cycleVars>>

-----------------------------------------------------------------------------
\* Bug: the register type is not compared.
FollowsAnyType(k) == mappings[k].address = mappings[k - 1].address + 1

\* The mapping at k goes on where the one before it ends.
Follows(k) ==
  /\ mappings[k].type = mappings[index].type
  /\ mappings[k].address = mappings[k - 1].address + 1

StartBlock ==
  /\ phase = "block"
  /\ index <= Len(mappings)
  /\ end' = index + 1
  /\ phase' = "extend"
  /\ UNCHANGED <<inputVars, mappings, index, blocks, cycleVars>>

ExtendBlock ==
  /\ phase = "extend"
  /\ end <= Len(mappings) /\ Follows(end)
  /\ end' = end + 1
  /\ UNCHANGED <<inputVars, phase, mappings, index, blocks, cycleVars>>

\* Bug: the block also takes the mapping that ended it.
TakesOneMore ==
  [type |-> mappings[index].type, start |-> mappings[index].address, first |-> index,
   last |-> IF end <= Len(mappings) THEN end ELSE end - 1]

NewBlock ==
  [type |-> mappings[index].type, start |-> mappings[index].address, first |-> index, last |-> end - 1]

CloseBlock ==
  /\ phase = "extend"
  /\ ~(end <= Len(mappings) /\ Follows(end))
  /\ blocks' = Append(blocks, NewBlock)
  /\ index' = end
  /\ phase' = "block"
  /\ UNCHANGED <<inputVars, mappings, end, cycleVars>>

\* The loop is over: the task starts, unless it has no block.
BlocksBuilt ==
  /\ phase = "block"
  /\ index > Len(mappings)
  /\ phase' = IF blocks = <<>> THEN "rejected" ELSE "transfer"
  /\ UNCHANGED <<inputVars, buildVars, cycleVars>>

-----------------------------------------------------------------------------
\* Bug: a command is cut off instead of rounded.
CutsOff(q) == IF q <= 0 THEN 0 ELSE IF q >= 262140 THEN 65535 ELSE q \div 4

\* q quarters to a register: clamped, then rounded half away from zero (llround).
ToRegister(q) == IF q <= 0 THEN 0 ELSE IF q >= 262140 THEN 65535 ELSE (q + 2) \div 4

ToWire(type, q) == IF type = "coil" THEN (IF q # 0 THEN 1 ELSE 0) ELSE ToRegister(q)

Positions(b) == b.first..b.last

\* The register the element at position k of a block stands for.
RegisterAt(b, k) == <<b.type, b.start + (k - b.first)>>

\* A request holds the low 16 bits of an address.
OnWire(address) == address % (MaxAddress + 1)

\* The register of the server that element is exchanged with.
ServedAt(b, k) == <<b.type, OnWire(b.start) + (k - b.first)>>

\* libmodbus refuses to exchange more than limit registers, and a server to go
\* past the last address.
Served(b, limit) ==
  /\ b.last - b.first < limit[b.type]
  /\ OnWire(b.start) + (b.last - b.first) <= MaxAddress

\* Bug: a read back value is published where no channel was named for it.
ShowsEverything(b) ==
  [c \in DOMAIN published |->
     IF \E k \in Positions(b) : mappings[k].channel = c
       THEN device[ServedAt(b, CHOOSE k \in Positions(b) : mappings[k].channel = c)]
       ELSE published[c]]

\* readBlock and publishBlock.
Shown(b) ==
  [c \in DOMAIN published |->
     IF /\ \E k \in Positions(b) : mappings[k].channel = c
        /\ kind = "write" => c \in WithReadback
       THEN device[ServedAt(b, CHOOSE k \in Positions(b) : mappings[k].channel = c)]
       ELSE published[c]]

\* What writeCoils or writeHoldingRegisters asks for, after the commands are read:
\* the registers of a block and the value for each.
Request(b) ==
  [r \in {ServedAt(b, k) : k \in Positions(b)} |->
     ToWire(b.type, command[mappings[CHOOSE k \in Positions(b) : ServedAt(b, k) = r].channel])]

\* The registers of the server after a write.
Applied(w) == [r \in Registers |-> IF r \in DOMAIN w THEN w[r] ELSE device[r]]

\* The register of the server a mapping is served by: the one it names, if that
\* is not past the last address.
Target(item) == <<item.type, OnWire(item.address)>>

\* The readback channels of some registers.
ReadbacksOf(S) == {c \in WithReadback \cap DOMAIN arguments : Target(arguments[c]) \in S}

\* A block is read and shown.
ReadAnswered(b) ==
  /\ Served(b, ReadLimit)
  /\ published' = Shown(b)
  /\ outdated' = outdated \ {mappings[k].channel : k \in Positions(b)}
  /\ UNCHANGED <<device, failed, unanswered, overtaken>>

WriteAnswered(b) ==
  /\ Served(b, WriteLimit)
  /\ device' = Applied(Request(b))
  /\ overtaken' = overtaken \ DOMAIN Request(b)
  /\ outdated' = outdated \cup ReadbacksOf(DOMAIN Request(b))
  /\ UNCHANGED <<published, failed, unanswered>>

\* A read that fails shows nothing.
ReadFails ==
  /\ failed' = TRUE
  /\ UNCHANGED <<device, published, unanswered, overtaken, outdated>>

\* A write that fails has been refused, or never left, or is on its way yet.
WriteFails(b) ==
  /\ failed' = TRUE
  /\ \/ UNCHANGED unanswered
     \/ /\ Served(b, WriteLimit) /\ Cardinality(unanswered) < MaxLate
        /\ unanswered' = unanswered \cup {Request(b)}
  /\ UNCHANGED <<device, published, overtaken, outdated>>

\* The server applies a write the client has given up.  An equal one may follow.
ServerApplies ==
  \E w \in unanswered :
    /\ device' = Applied(w)
    /\ unanswered' \in {unanswered, unanswered \ {w}}
    /\ overtaken' = overtaken \cup DOMAIN w
    /\ outdated' = outdated \cup ReadbacksOf(DOMAIN w)
    /\ UNCHANGED <<inputVars, phase, buildVars, next, published, failed>>

\* One exchange of the transfer loop.
TransferBlock ==
  /\ phase = "transfer" /\ next <= Len(blocks)
  /\ next' = next + 1
  /\ \/ kind = "read" /\ (ReadAnswered(blocks[next]) \/ ReadFails)
     \/ kind = "write" /\ (WriteAnswered(blocks[next]) \/ WriteFails(blocks[next]))
  /\ UNCHANGED <<inputVars, phase, buildVars>>

\* A write task reads its blocks back when the interval has passed.
StartReadback ==
  /\ phase = "transfer" /\ next > Len(blocks)
  /\ kind = "write"
  /\ phase' = "readback"
  /\ next' = 1
  /\ UNCHANGED <<inputVars, buildVars, device, published, failed, unanswered, overtaken, outdated>>

ReadbackBlock ==
  /\ phase = "readback" /\ next <= Len(blocks)
  /\ next' = next + 1
  /\ ReadAnswered(blocks[next]) \/ ReadFails
  /\ UNCHANGED <<inputVars, phase, buildVars>>

EndCycle ==
  /\ phase \in {"transfer", "readback"} /\ next > Len(blocks)
  /\ phase' = "done"
  /\ UNCHANGED <<inputVars, buildVars, cycleVars>>

\* on_task runs again, with what the command channels hold by then.
NextCycle ==
  /\ phase = "done"
  /\ command' \in CommandsOf(kind)
  /\ phase' = "transfer" /\ next' = 1 /\ failed' = FALSE
  /\ UNCHANGED <<kind, arguments, buildVars, device, published, unanswered, overtaken, outdated>>

Next ==
  \/ Parse \/ RejectMapping
  \/ StartBlock \/ ExtendBlock \/ CloseBlock \/ BlocksBuilt
  \/ TransferBlock \/ StartReadback \/ ReadbackBlock \/ EndCycle
  \/ ServerApplies \/ NextCycle

Spec == Init /\ [][Next]_vars

-----------------------------------------------------------------------------
Built == phase \in {"transfer", "readback", "done"}

\* The element at an offset of a block is the register its mapping names: what
\* a request moves to or from that offset is what the mapping asked for
\* (buildBlocks gives a block the address of its first mapping only).
OffsetsAreAddresses ==
  \A n \in DOMAIN blocks : \A k \in Positions(blocks[n]) :
    /\ k \in DOMAIN mappings
    /\ RegisterAt(blocks[n], k) = <<mappings[k].type, mappings[k].address>>

\* No mapping is lost and none is in two blocks: one block begins where the one
\* before it ends, and the last one ends with the last mapping.
BlocksPartitionMappings ==
  /\ \A n \in DOMAIN blocks :
       /\ blocks[n].first <= blocks[n].last
       /\ blocks[n].first = IF n = 1 THEN 1 ELSE blocks[n - 1].last + 1
  /\ index = IF blocks = <<>> THEN 1 ELSE blocks[Len(blocks)].last + 1
  /\ Built => index = Len(mappings) + 1

Named == {<<arguments[i].type, arguments[i].address>> : i \in DOMAIN arguments}
NoDuplicates == Cardinality(Named) = Len(arguments)

\* The first and the last register of every run of addresses in a set of
\* registers, whatever order it was given in.
Runs(S) ==
  {run \in S \X S :
     LET type == run[1][1]  from == run[1][2]  to == run[2][2]
     IN  /\ run[2][1] = type /\ from <= to
         /\ \A a \in from..to : <<type, a>> \in S
         /\ <<type, from - 1>> \notin S /\ <<type, to + 1>> \notin S}

\* As few requests as possible: however the mappings were ordered, there is one
\* block for every run of mapped registers, and no other (sort and loop together).
OneRequestPerRun ==
  Built /\ NoDuplicates =>
    /\ {<<RegisterAt(blocks[n], blocks[n].first), RegisterAt(blocks[n], blocks[n].last)>> :
          n \in DOMAIN blocks} = Runs(Named)
    /\ Len(blocks) = Cardinality(Runs(Named))

\* More registers than one request may hold: such a block is never exchanged.
TooLong(b, limit) == b.last - b.first >= limit[b.type]

\* A channel of a read task shows its own register or, as long as every exchange
\* of it failed, nothing; after a cycle without a failure it shows it.  A block
\* that is too long shows nothing and fails its cycle (module.cpp:382-387,
\* buildBlocks has no limit).
ChannelsShowTheirRegisters ==
  kind = "read" =>
    /\ \A i \in DOMAIN arguments :
         published[i] # Nothing => published[i] = device[Target(arguments[i])]
    /\ phase = "done" /\ ~failed =>
         \A i \in DOMAIN arguments : published[i] = device[Target(arguments[i])]
    /\ \A n \in DOMAIN blocks : TooLong(blocks[n], ReadLimit) =>
         /\ \A k \in Positions(blocks[n]) : published[mappings[k].channel] = Nothing
         /\ phase = "done" => failed

\* A write task shows, where a readback channel was named and nowhere else, what
\* its register holds, or held before it was written again: whatever fails on the
\* way, and whenever the server applies a write that was given up.
ReadbackShowsRegisters ==
  kind = "write" =>
    \A i \in DOMAIN arguments : published[i] # Nothing =>
      /\ i \in WithReadback
      /\ published[i] = device[Target(arguments[i])] \/ i \in outdated

\* A write task may write a register that can be written and that is mapped, in
\* a block that is not too long.
Writable(r) ==
  /\ r[1] \in {"coil", "holding_register"}
  /\ \E n \in DOMAIN blocks : \E k \in Positions(blocks[n]) :
       /\ ~TooLong(blocks[n], WriteLimit)
       /\ r = Target(arguments[mappings[k].channel])

\* Nothing else on the server ever changes, whatever fails on the way and
\* whenever the server applies what.
OnlyMappedRegistersWritten ==
  \A r \in Registers : device[r] # Factory(r) => kind = "write" /\ Writable(r)

\* The command as the nearest value a register can hold.
IsNearest(v, q) == \A u \in {0, 65535, v - 1, v + 1} \cap (0..65535) :
  LET distance(x) == IF 4 * x >= q THEN 4 * x - q ELSE q - 4 * x
  IN  distance(v) <= distance(u)

Holds(type, v, q) == IF type = "coil" THEN v = 1 <=> q # 0 ELSE IsNearest(v, q)

\* After a write cycle without a failure every mapped register holds the value
\* nearest to the command of a mapping it serves, of its only one where there is
\* one, and a coil holds whether it is not zero: unless a write of an earlier
\* cycle, given up by then, has come later than this cycle's.
RegistersHoldTheirCommands ==
  phase \in {"readback", "done"} /\ kind = "write" /\ ~failed =>
    \A i \in DOMAIN arguments : Target(arguments[i]) \notin overtaken =>
      \E j \in DOMAIN arguments :
        /\ Target(arguments[j]) = Target(arguments[i])
        /\ Holds(arguments[i].type, device[Target(arguments[i])], command[j])
=============================================================================
