# Verification of dartwic-modbus-tcp-client

TLA+ models of the DARTWIC Modbus TCP plugin, TLC configurations that check them
on small instances, and TLAPS proofs of the properties that matter most. The
models are translated from the C++ under `src/engine` and the TypeScript under
`src/interface`; `PROJECT.json` says for
every definition which lines it stands for.

File names below are short for `client.cpp` = `src/engine/src/modbus_tcp_client.cpp`,
`module.cpp` = `src/engine/src/modbus_tcp_client_module.cpp`, `discovery.cpp` =
`src/engine/src/modbus_device_discovery.cpp`, `scanner.cpp` =
`src/engine/src/modbus_register_scanner.cpp`; the pages are those of
`src/interface/src`.

## 1. The system

| Component | State it keeps | Operations | What makes it correct |
|---|---|---|---|
| **Client** (`ModbusTCPClient`, client.cpp) | libmodbus context, connection and health flags, failure counter, reconnect deadline, event throttle, event identifier | `ensureConnected`, `monitorConnection`, four reads, two writes, destruction | the published state is the real one; an alarm fires only during an outage, and every outage gets one; no late reply answers the next request; attempts are spaced, and a server that is back is connected |
| **Module instance** (`ModbusTCPClientModule`, module.cpp) | one client, `connection_mutex_`, the monitor thread; per task a `RuntimeContext` and the stale flag | monitor turn, read cycle, write cycle with readback | transactions are serialized; the stale flag tells the truth about a cycle; nobody waits for ever |
| **Task ownership** (module.cpp:50-58, 165-252, 291-299) | two owner maps, the association map, fixed inputs | configure, start, stop, remove | one read task and one write task per connection, whatever races and whatever is refused |
| **Register mapping** (module.cpp:23-155, 254-274, 417-436) | mappings, blocks | parse, sort, group, convert, transfer, read back | every register meets its own channel; no request more than needed |
| **Device finder** (discovery.cpp:277-516, 542-758) | targets, indices, announcements, request identifiers, scan settings, probe queue | `tick`, `configureAddressRange`, `settings` | indices stay inside; one prompt per device; the range set is the range scanned; every device is found |
| **Probe queue** (discovery.cpp:34-74, 329-379) | the queue | parse subnets, expand | the hosts asked for, once each, within the limit |
| **Register scanner** (scanner.cpp, discovery.cpp:212-274, 640-699) | one scan, the suggestion made of it | scan a table, compact, suggest | the result is what answered; what is suggested can be done |
| **Settings page** (pluginSettings.tsx, discovery.cpp:277-327, 542-632) | fields, a copy of `plugin.json`; `plugin.json`; the finder's settings | load, edit, save in four operations, restart | what was saved is in force, stays so after a restart, and nothing else gets in force |
| **Task editor** (taskConfigs.tsx, shared.ts) | the form of one task | open, edit, save | the form and the arguments mean the same to the engine |
| **Module editor** (moduleConfigs.tsx) | fields and a copy of what was saved | show, edit, save | "nothing to save" is true |
| **Task cards, registration** (`src/interface`) | none | display | not modelled, see 5 |
| **Scripts** (`src/scripts`) | files | version, package, deploy | not modelled, see 5 |

How they interact:

- The engine (outside of this repository) calls the plugin: it configures, starts
  and removes tasks from several threads, runs `on_task` periodically and calls
  `tick()` about once a second. The plugin calls back for channels
  (`upsertChannelField`), events (`recordEvent`, `updateEventStatus`), module
  instances and the interface's request broker.
- A module instance's client is *shared state* of three threads: the monitor
  thread, the read task and the write task; `connection_mutex_` is held for a whole
  turn of each.
- The owner maps are shared by all tasks of the plugin and guarded by
  `ownership_mutex`, which `configureTask` holds twice and not in between.
- The device finder is called from its loop and from settings requests, under
  `mutex_`; the module registry and the broker change at any moment.
- The settings page talks to the engine in four requests, each with a timeout, and
  nothing ties them together: `plugin.json` is shared with other pages and with the
  finder's constructor, which reads it when the engine starts.
- The editors hand arguments to the engine as JSON, which both sides normalize,
  each in its own way.

What is hard: blocking calls during which the peer, the socket and the clock go
on; replies that come late; a backoff, a throttle and a deadline that interact;
several threads on one connection; check-then-commit with a gap; vectors that
change between two passes that share an index; a broker that fails now and then;
positions in three orders (configured, sorted, on the wire); writes that were given
up and are applied all the same; settings in three places (page, file, finder) and a
restart between any two steps. `PROJECT.json` lists
each hazard at its line, with the properties that would catch it going wrong.

## 2. The modules

| Module | Kind | Models |
|---|---|---|
| `ConnectionHealth` | abstract specification | what a connection promises to the rest of DARTWIC: a link and an alarm |
| `ModbusTCPClient` | detailed specification | the client; implements `ConnectionHealth` |
| `ModbusModule` | composition | monitor, read task and write task over one client; EXTENDS `ModbusTCPClient` |
| `TaskOwnership`, `MCTaskOwnership` | specification, instance | configuration and ownership of tasks |
| `RegisterMapping`, `MCRegisterMapping` | specification, instance | mappings, blocks, conversion, transfer of data |
| `DeviceDiscovery`, `MCDeviceDiscovery` | specification, instance | the device finder's loop and settings |
| `ProbeQueue` | specification | from subnets to endpoints |
| `RegisterScan` | specification | a register scan and the suggestion |
| `SweepAndScan`, `MCSweepAndScan` | composition, instance | the two computations side by side |
| `SettingsPage`, `MCSettingsPage` | composition, instance | settings pages, `plugin.json` and the finder's settings |
| `TaskEditor`, `ModuleEditor` | specifications | the two editors of the interface |
| `InterfaceEditors`, `MCInterfaceEditors` | composition, instance | the settings pages and the editors side by side |
| `*_proofs` | proofs | theorems of the module they are named after; those of the client are in `ModbusModule_proofs`, those of both editors in `InterfaceEditors_proofs` |

Definitions whose comment begins with "Bug:" are no part of a specification:
each is a plausible mistake in the definition that follows it, and with it in
place TLC reports the property that `PROJECT.json` pairs it with ("mutants").

### ModbusTCPClient

One variable per member (`connected_`, `context_`, `protocol_healthy_`,
`consecutive_connection_failures_`, `next_reconnect_attempt_`, ...), and what the
rest of the system sees (`infoConnected`, `event`). `steady_clock` deadlines are
the ticks that are left until them; a tick is `1/Second` of a second.
`modbus_connect` and a request/response exchange block: an operation is one
action up to the first of them (`OpenConnection`, `SendWhileConnected`, ...) and
one action per outcome (`ConnectSucceeds`, `ReplyCompletes`, `ResponseTimesOut`,
`ConnectionIsLost`, `FramingIsLost`, `ReplyIsException`, `ReplyFallsShort`).
While a call blocks, `PeerChanges`, `PeerCloses` and `Tick` go on. The private
member functions are operators of the same name (`MarkProtocolResponsive`,
`ScheduleReconnect`, `PublishConnectionError`, ...). `owed` is the set of replies
the server may still send on the open socket; a reply to an earlier request comes
before that to the current one. `Recreate` is the destruction of an instance and
the construction of its successor, which knows nothing of the alarm; `orphaned`
records that.

History variables, which no action of the code reads: `orphaned`, `sinceAttempt`.

### ModbusModule

A thread enters by taking the mutex and leaves by releasing it; in between it is
at a place `pc[th]` of its program. The calls it makes are the client's actions:
the composition conjoins `MonitorConnection`, `EnsureConnected` or `Transact` with
the step of the thread, and lets `LibmodbusReturns` and the environment happen in
between. `StaleTellsTheCycle` compares the code's local `succeeded` with history
variables that count, exchange by exchange, what the server answered in full.

### TaskOwnership

A slot is an instance and a kind, which makes the two owner maps one function.
`CheckOwnership`, `CreateChannels` and `Commit` are the three stages of
`configureTask`, which throws in the first (`RefuseCheck`) or the last
(`RefuseCommit`); between them other tasks do the same. `arguments` is the slot the
arguments of a task name. What the engine does with the arguments of a configuration
that threw is nowhere in this repository (`sdk_api.h` declares no more than
`getArguments()`), so `RefusedArguments` leaves it open: they stay, or those accepted
last come back. `StartTask` takes its slot from the arguments, as `createRuntime` does,
and looks at no owner. The engine is assumed to configure and to remove a task only
while it is stopped. History: `refusals`, where a task was refused since it was
last accepted.

### RegisterMapping

The loops of `buildBlocks` are state machines over `index` and `end`. The sort is
"some permutation without inversions", so that the order of equal mappings is open
as it is for `std::sort`. Commands are numbers of quarters, enough for `llround`
and the two clamps. The registers of the device are data. A task goes through cycle
after cycle (`NextCycle`), each with other commands. An exchange may fail at
any time. A write that fails (`WriteFails`) may have reached the server all the same:
the client gives up when a reply is late or the connection lost, and closes the
socket (client.cpp:334-345), but what is on its way it cannot take back. Such a write
is kept in `unanswered`, and `ServerApplies` may apply it at once, after the readback, in
a later cycle, more than once (of equal writes the set holds one) or never. History:
`overtaken`, `outdated`. An exchange must fail (`Served`) when the block is longer than libmodbus exchanges
at a time or goes past the last address, which no code checks before. An address is
cut to 16 bits on the wire (`OnWire`), so that a register is that of its mapping
(`Target`) only up to the last address; the properties say what is true beyond it.

### DeviceDiscovery

`tick()` is several actions: `BeginTick` (reconcile, refresh the queue), one
`PortOpen` or `PortClosed` per probe, `NothingToScan`, `SkipTarget` or `StartScan`,
then `Announce` or `ScanFails`. `mutex_` keeps settings requests to `pc = "idle"`.
`targets` is `configured \o discovered`; `configured` is any of
`ConfiguredTargets`, with none of them as a case of its own. The broker answers for
an arbitrary subset of the announcements in each pass. `current` and
`acceptedRange` are history.

### ProbeQueue

One pass through `refreshNetworkProbeQueue`. `Collect` takes the local subnets,
`ParseNext` and `ParsedAll` those of the settings that `parseCidr` accepts, one by
one. Then, per subnet, `SkipSubnet` (the block has no hosts, or was expanded before) or
`OpenSubnet`, `QueueEndpoint` for every host and port, `NextHost` and
`CloseSubnet`; `QueueIsReady` ends the pass. Addresses have
`Width` bits and the constants 30 and 24 scale with it. The properties are stated
from the settings (`BlockAround` shares a prefix), not with the arithmetic of the
code (masks and offsets). The set of endpoints in `queue` is what `DeviceDiscovery`
calls `FreshEndpoints`.

### RegisterScan

The scan asks address by address and table by table; any answer is possible at
any address (`AddressAnswers`, `AddressIsIllegal`, `FunctionIsIllegal`,
`ReadFails`). The loop of `compactRanges` is `FirstFound`, `ExtendRange`, `NextRange`
and `LastRange`, with the open range in `open` and the position in the sorted
addresses in `position`; `NothingFound` is its early return. `announce` goes
through the ranges of the four tables once more, channel by channel (`OpenRange`,
`SuggestChannel`, `CloseRange`, `NextGroup`), because the maximum may end it within a
range: that count is over all tables. `replies` is history: what the device
answered to the last request for an address.

### SettingsPage

Three holders of the settings: the `fields` of each page, the `file`, the `finder`. A
save is `StartSave`, `ReadManifest`, `WriteManifest` and `Configure`; each of its
requests can fail without effect (`SaveFails`, `ConfigureFails`) or lose its answer
(`WriteUnanswered`, `ConfigureTimesOut`), and the finder refuses the last one when it
cannot parse a subnet (`Execute`), which is after the file was written. The finder
executes a request its page has given up on, when it gets to it (`ConfigureLate`):
`mutex_` is held during a pass. `Constructed` is the constructor of the finder,
`Persisted` the function of the page that makes the file, and what they do with a file
without targets, and with entries that are no objects (`NoObject`) or that the constructor
does not accept, has to agree. `Restart` comes at any moment. History: `written`,
`undisturbed`, `settled`, `mended`.

Of the settings the model keeps the range, the sweep, and whether the engine can
parse the subnets; the ports, unit identifiers and intervals are saved and configured with
them in the same requests.

### TaskEditor, ModuleEditor

`TaskEditor` goes from the arguments of a task to a form (`Normalized`), through
every change of it, to a payload (`CleanMappings`, whose filter is `KeptRows`), and compares what the engine
makes of the arguments before and after (`Parsed`, `ReadbackInterval`). The text of
an address field is an address or one of the words `Blank`, `Fraction`, `Negative`;
`Number(Blank)` is 0, as in JavaScript. `ModuleEditor` has the copy by which the
page decides whether there is something to save, while fields and instance change
during a save.

### SweepAndScan, InterfaceEditors

Components that share no state, each followed by itself: a behaviour is one of one of
them (`computation`, `subject`), and the others stay as they are at first.

## 3. What is checked

| Run | Instance | Shows |
|---|---|---|
| `client` | quarter-second ticks, backoff to 30 s, 30 failures, every kind of endpoint: the constants of the code; with fairness | channel, alarm, stream, context, backoff and spacing; a responsive server is connected again and again; every outage gets its alarm (refinement of `ConnectionHealth`, liveness included) |
| `module` | two blocks per task, readback, half-second ticks; with fairness | serialization, truth of the stale flag; turns end; tasks get fresh, and stale for good against silence |
| `task_ownership` | three tasks, one connection, both kinds | consistency, exclusiveness, inputs |
| `mapping` | all lists of up to three of ten mappings; one address past the last; commands below 0, at 0, a quarter below 65535 and above it; at most two registers, or three coils, at a time; one write at a time that was given up and may still be applied | offsets, partition, fewest requests, channels, readback, untouched registers, registers that hold the nearest value |
| `discovery` | a configured target with two units or none, up to two discovered; with fairness | indices, prompts, endpoints, range; a device among targets that never answer is prompted for again and again |
| `sweep_and_scan` | five-bit addresses, all pairs of thirteen subnets; four tables of three addresses, at most three channels | each host asked for once, within the limit; result, ranges, suggestions |
| `interface` | two rows, two registers; two instances, two values; two pages, one request at a time given up on, four manifests; with fairness | an untouched save keeps the task, complete rows are stored, a clean page is true; file and finder agree after an undisturbed save, only saved settings get in force, and in the end they do |
| `task_ownership_refused`, `discovery_range`, `scan_suggests_all`, `settings_restart`, `editors_blank_row` | violations | see below |

### Why the bounds are enough

- The client is finite as it is; `Second = 4` is the least for which 750 ms is a
  whole number of ticks. With `ModbusModule` the time constants are shortened
  (a backoff of one and two seconds), because the interplay of backoff and throttle
  is checked in the client's own run, which the module's steps are steps of
  (`ModuleImplementsClient`).
- Two blocks are the fewest of which one can fail and the other succeed, in
  either order; three tasks the fewest of which two race for the slot the third
  leaves. One connection has two slots, one of each kind, to move between; a second
  one adds slots of the same two kinds, and the proofs are for any number.
- Three mappings give a block of two before or after another block, one block of three
  and every mixture with gaps, duplicates and changes of type; with a limit of two a
  block of three is too long, as one of 126 registers is. One address past the last
  is enough for a block that ends past it and for a mapping that is cut to address 0.
  `MaxLate`: one write given up on can already come after the readback of its cycle, after
  the next cycle's write of the same register, and twice.
- The finder needs a target with two units, so that both indices move, and two
  discovered ones, so that an index can be left behind when they go away; without a
  configured target all of them can go. More ranges than two distinguish nothing.
- Two pages are the fewest that overlap. The settings they save are those that are
  typed (one the engine can parse and one it cannot), what was loaded and the defaults.
  The manifests are those that constructor and page might read differently: discovery
  off, no target, an entry that is not accepted behind one that is, an entry that is no
  object before one that is. `MaxLate`: one request given up on can
  already overtake a later save. The proofs are for any number of all three.
- `MaxRows`: two rows show what one does to the other when it is removed or left out.
- Five bits leave two prefix lengths with hosts between the minimum and the
  longest one, one above and one below the limit of three hosts.
- Three addresses per table and a maximum of three channels keep the proportion
  of the code (4096 each) and make the maximum bite within and between tables; two of
  each do in `scan_suggests_all`.

What the bounds leave open for larger instances is proved of every safety property
of a passing run, see 4.

### Fairness

Assumed of the client: libmodbus calls return (both have timeouts), time passes,
and the monitor gets its turn whenever it keeps finding the client free (strong:
it sleeps a second between turns, and tasks release the mutex after each cycle).
Of the module: the thread in a turn goes on, and a thread that keeps finding the mutex
free gets it. Of the peer nothing is assumed;
each property says under which behaviour of the peer it holds. Of the finder: the
engine keeps calling `tick()`, the rescan interval elapses, the broker answers about
all announcements in some passes again and again, and for *devices only*, a probe or a scan
that is tried again and again succeeds in the end. Of the settings (`SettingsFairness`): every request
of a page ends, by its timeout if not by an answer, and of the requests that wait for
`mutex_` some one gets it, because every pass of the finder ends; which one is open. Of
the mapping, where nothing is to happen in the end, nothing is assumed. Nothing is assumed of an
operation that the code could postpone for ever, of operators, or of restarts.

### Disagreements found

1. `discovery_range`. `configureAddressRange` writes the range into the targets
   there are. Without any (`device_discovery.enabled: false`, or no valid entry)
   it answers "Discovery settings updated. The next device finder pass will rescan
   them." (discovery.cpp:630), and the targets its sweep then finds are scanned
   over the default range. With a configured target the property holds, and is
   proved (`RangeCorrect`).
2. `settings_restart`. With `device_discovery.enabled: false` the constructor returns
   before it reads `network_scan` (discovery.cpp:280), so that a sweep switched off
   in the page, which said "Saved.", is on again after a restart. With discovery enabled
   file and finder agree after every undisturbed save, which is proved
   (`EnabledSettingsKept`).
3. `editors_blank_row`. `cleanMappings` means to leave incomplete rows out
   (shared.ts:53), but `Number("")` is 0: a row whose address is blank becomes
   register 0. `CompleteRowsSaved` says that nothing else goes wrong.
4. `scan_suggests_all`. The page promises that the finder "suggests every responding
   address" (pluginSettings.tsx:192); `appendChannels` stops at 4096 channels, counted
   over all four tables (discovery.cpp:219), though one table of an accepted range may
   answer as often by itself. The ranges are still shown in full, and up to the maximum
   nothing is left out, which is proved (`SoundSuggestions`).
5. `task_ownership_refused`. A connection is said to be "shared by at most one read task
   and one write task" (module_config.json:5). `createRuntime` takes the connection from
   the arguments of the task (module.cpp:234) and looks at no owner: a task that was
   refused and keeps its arguments, when it is started, works on the connection of
   another. Whether that happens is up to the engine, whose treatment of refused
   arguments this repository does not state; the plugin does not prevent it. For tasks
   that were not refused since their last accepted configuration it is proved that they own their
   slot, whatever the others do (`AcceptedTaskOwns`).

Noted while modelling, and built into the models as the code has it:

- A /31 or /32 among the additional subnets is accepted by the page and by the engine,
  and never probed (`SubnetsAreCovered`).
- The editor drops the `readback_channel` of a mapping, which the engine reads
  (`UntouchedSaveKeepsTask` excepts it).
- The module editor takes fields that were changed while a save was on its way for
  saved ones (moduleConfigs.tsx:82; `misled` in `CleanMeansStored`).
- Two saves that overlap, a request that gets lost, or one executed after its page gave
  up, may leave file and finder apart until the next save or restart (`undisturbed`).
- The page accepts subnets the engine does not, 192.168.010.0/24 for instance
  (`validIpv4Cidr` and `inet_pton`, discovery.cpp:597), and writes them to `plugin.json`
  before the engine refuses them: the page shows the error, the settings stay in the
  file, and the constructor, which does not parse them, takes them at the next restart
  (`parses`; `SavedTakesEffect` and `RestartKeepsEnabledSettings` except them).
- An entry of `targets` that is no object is passed over by the constructor
  (discovery.cpp:312) and made an object by the page, whose defaults the constructor
  accepts: after the first save and a restart there is a target that was none (`mended`).
- A write whose reply was lost may reach the server after the commands of a later
  cycle (`overtaken` in `RegistersHoldTheirCommands`): nothing in the protocol could
  tell the client.
- A configuration that is refused at its commit has already replaced the fixed inputs of
  the task (module.cpp:205; `refusals` in `InputsFollowAssociation`).
- An instance that is replaced leaves its alarm to its successor, which cannot resolve it before it has
  raised it anew (client.cpp:216; `orphaned` in `AlarmOnlyDuringOutage`), and an
  attempt of the successor is not spaced from the last one of its predecessor
  (`AttemptsSpaced`, which counts whole ticks). A settings request forgets all prompts, the open
  ones included, which may then be raised once more (`current` in `PendingStaysAnnounced`).

## 4. What is proved

Every invariant and every safety property of a passing run is a theorem: TLAPS
checks it for all values of the constants, from the named assumptions in the
modules. The theorems are about each component's own specification (`ScanSpec`,
`SettingsSpec`, ...); a run that follows several components (`sweep_and_scan`,
`interface`) checks the same formulas of the same actions. The arguments:

- **Client** (`ModbusModule_proofs`). The inductive invariant `ClientInv` adds to
  the stated invariants that the health flag equals the connection flag (else the
  early return of `setProtocolHealthy` could keep an old value on the channel),
  that an operation is in progress exactly while a call blocks, and `SpacingInv`:
  without a connection the time since the last attempt and the time to the next
  add up to a second. The last one gives `AttemptsSpaced`; `AlarmOnlyDuringOutage`
  gives each step of the refinement (`HealthImplemented`).
- **Module** (`ModbusModule_proofs`). `ModuleImplementsClient` is a step simulation
  by inclusion, so every theorem of the client is one of the module. Serialization
  rests on `LockInv` (who is in a turn holds the mutex) and on who may wait for an
  operation of the client. `StaleCorrect` needs to know which exchanges lie behind a
  place of the turn (`Made`): `CycleInv` says that `succeeded` means all of those were
  answered, that no other one was, and that a call that has returned true answered
  the exchange at hand. It holds for any number of blocks.
- **Ownership** (`TaskOwnership_proofs`). The two maps are inverse to each other. Of a task
  that was not refused since it was last accepted, arguments, association and, while it
  runs, the slot it works on are the same (`StagesConsistent`), so that it owns that slot
  (`AcceptedTaskOwns`). `InputsInv`
  follows the inputs through the stages of a configuration.
- **Finder** (`DeviceDiscovery_proofs`). `IndexInv`: while a scan is on there is a
  target, and the two indices are inside. `TrackingInv` for the prompts. `RangeInv`
  holds while a target is configured, and without one `configured` stays empty
  (`NoTargetKept`), so that `RangeCorrect` needs no assumption. `TargetsOnce` needs that the
  queue avoids targets and that what is added leaves the queue.
- **Mapping** (`RegisterMapping_proofs`). Within a block addresses go up by one, so
  that an element's offset determines its address; each block begins after the
  one before it. On that rest the four theorems about the cycles: what has been
  transferred is known from `next` and `failed` (every block before it, unless one
  failed), a block that is served reaches the registers of its mappings and no
  other, and two blocks that reach the same register wrote a command of a mapping
  it serves. A write that was given up is one the task may make (`LateInv`), so that it
  stays within the mapped registers whenever it is applied; which registers and which
  readbacks it has overtaken the histories say. A block that is too long shows nothing and fails its
  cycle (`LongInv`), since no channel is in two blocks (`ChannelsOnce`).
  `FewestRequests` needs the order, too: a sorted list without duplicates
  goes strictly up (`StrictOrder`), and `RunInv` says why a block ended where it did,
  so that the first and the last register of a block have no mapped neighbour
  outside (`BlockIsRun`), and every run is that of the block its first register is in
  (`RunIsBlock`).
- **Probe queue** (`ProbeQueue_proofs`). The code finds a block with masks and
  offsets; the properties speak of shared prefixes. Between the two are facts about
  powers of two: that they are positive and that the power of a sum is the product
  of the powers (`PowerOfSum`), which the prover's arithmetic does not know and
  which are proved by counting subsets instead of by induction. From them a block is
  an interval of addresses, the same for both (`Blocks`, `AskedHosts`). `SweepInv` then
  follows the pass: what is queued was asked for; of every subnet that is behind, all
  hosts are covered; of the current one, those before `offset`, and of its host the ports
  before `port`. A subnet that is skipped shares its key with one that is behind, and
  therefore its hosts (`SameKeySameHosts`).
- **Scan** (`RegisterScan_proofs`). `ScanInv`: what a table holds is what was answered
  so far (`Told`, `ToldSoFar`), although a table that turns out not to be supported
  is emptied half way, and in rising order (`Ordered`). `RangeInv`: the closed ranges
  and the open one together hold the addresses up to `position`, and are apart
  (`Gathered`). `SuggestionInv` says which addresses the announcement has passed; the
  channels are among them, no two are the same, and none is missing while there is
  room (`ChannelsArePassed`).
- **Settings** (`SettingsPage_proofs`). `SettingsInv`: whatever is on its way to the finder
  was written to the file before (`RunningWasSaved`), and while the save of an
  undisturbed page is between file and finder, the file is what the finder will be
  configured to (`Undisturbed`), or that and the targets mended; for that, constructing
  from a file that was just written must be configuring what was constructed before
  (`PersistedIsConfigured`), and file and finder must have the same targets all
  along, whatever their ranges (`SameTargets`).
- **Editors** (`InterfaceEditors_proofs`). Of the module editor: the copy is what is
  stored for the instance shown, unless `misled`. Of the task editor: a form that
  nobody has touched is `Normalized(task)`, also when a save of it failed and it is
  saved again (`UntouchedForm`); all its rows pass the filter, and a filter that drops
  nothing changes nothing (`UntouchedPayload`). For the rows of any other form, the filter
  keeps exactly those that satisfy its condition (`FilterKeeps`, `SavedMappings`).
  `NoneAssumption`, that a missing type or channel is none, is what makes it so.

The prover cannot use the induction theorems of its library, which take an operator
as a parameter. Where a proof is about what a recursive function makes of any list (the
filter of the editor), it takes the least position at which a fact fails (`LeastOne`, from the
well-foundedness of the natural numbers) and shows that it fails before that, too.
Elsewhere the induction is that over the steps of the specification: that the loops which
group, gather, expand and suggest are state machines serves the proofs as well. Where
only a number of elements is asked for, a bijection gives it.

Only model-checked is liveness, because fairness and `ENABLED` are out of the prover's
reach: `Reconnects` and the liveness in `ImplementsHealth` (client), `TurnsEnd`,
`FreshAgain` and `SilenceTurnsStale` (module), `DevicesArePrompted` (finder) and
`SavedTakesEffect` (settings). The five properties that are violated are refuted by
their runs.

## 5. What is not modelled

- Wording and throttling of messages, diagnostic counters, transaction times.
- How long a call takes; that a settings request waits for a register scan appears
  in `SettingsPage` as a request that is executed late.
- That `updateEventStatus` may fail, and that a replaced instance may be destroyed
  after its successor was built: both are the engine's.
- The values of command channels outside of a cycle: that configuring a write task
  sets its channels to 0 before its commit may be refused (module.cpp:199) is a
  hazard no property covers, since it matters only if two tasks share a channel,
  which is the operator's choice.
- Non-finite commands, two mappings of one channel.
- The order of the probe queue within the finder, the interfaces of the machine,
  the socket calls of a port probe.
- What is typed into a task's form while its save is on the way; the fields of module
  parameters one by one.
- The task cards, the registration of pages and the plugin's entry points, which keep
  no state; the SDK headers, which declare the engine's interface and appear as the
  environment of the modules.
- The scripts: they version, package and deploy the plugin on a developer's
  machine, one at a time, with no state that the running plugin shares.

## 6. Plan

Done: the client, its abstraction and proofs; the module; ownership; mapping; finder;
probe queue; scan; settings; the editors; a proof of every safety property they are
checked for.

What would add to this, in this order:

1. The engine's order of configure, start, stop and remove as a module of its own,
   composed with `TaskOwnership` and the command channels, once the engine's
   contract is written down: what becomes of refused arguments and the zeroed channels
   of a refused configuration need it.
2. The finder composed with `ProbeQueue`, whose result is now the operator
   `FreshEndpoints` of `DeviceDiscovery`: `HostsAskedFor` and `EverySubnetCovered` say
   of every pass what that operator assumes.
3. Abstract specifications for a cycle (registers and channels change places at
   once) and for a scan (the result at once), with `RegisterMapping` and `RegisterScan` as
   implementations of them.
