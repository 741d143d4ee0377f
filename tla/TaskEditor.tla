----------------------------- MODULE TaskEditor -----------------------------
(***************************************************************************)
(* The editor of a Modbus task (interface/src/taskConfigs.tsx, shared.ts)  *)
(* and what the engine makes of the arguments it saves (parseMappings and  *)
(* configureTask of engine/src/modbus_tcp_client_module.cpp).              *)
(*                                                                         *)
(* The text of an address field is an address, or one of three words:      *)
(* Blank, Fraction, Negative.  The spellings of a channel and of a register*)
(* type that both sides take for the same one are one value.  What is      *)
(* typed while a save is on its way is left out: a save that succeeds      *)
(* closes the editor, and one that fails lets it be typed afterwards.      *)
(***************************************************************************)
EXTENDS Naturals, Sequences, SequencesExt

CONSTANTS Instances,    \* module instances
          Channels,     \* channels of the rows
          Readbacks,    \* readback channels
          Addresses,    \* register addresses
          Intervals,    \* readback intervals, in seconds
          Blank, Fraction, Negative,
          NoInstance, NoChannel, NoType, NoInterval,
          InitialTasks, \* the task as the engine may hold it
          MaxRows       \* bound: rows of the form

ASSUME AddressesAssumption == Addresses \subseteq Nat /\ Intervals \subseteq Nat /\ 0 \in Intervals
ASSUME WordsAssumption == {Blank, Fraction, Negative} \cap Nat = {}

WriteTypes == {"coil", "holding_register"}
ReadTypes == WriteTypes \cup {"discrete_input", "input_register"}
ASSUME NoneAssumption == NoType \notin ReadTypes /\ NoChannel \notin Channels

\* The types a row of a kind of task offers.
TypesOf(kind) == IF kind = "read" THEN ReadTypes ELSE WriteTypes

\* A mapping in the arguments of a task, and a row of the form.
Item == [type : ReadTypes \cup {NoType}, register : Nat,
         channel : Channels, readback : Readbacks \cup {NoChannel}]
Row == [type : ReadTypes, register : Nat \cup {Blank, Fraction, Negative},
        channel : Channels \cup {NoChannel}]

\* legacy: the arguments hold a list `mappings'.
Task == [kind : {"read", "write"}, instance : Instances \cup {NoInstance}, items : Seq(Item),
         interval : Intervals \cup {NoInterval}, legacy : BOOLEAN]

ASSUME TasksAssumption == InitialTasks \subseteq Task

VARIABLES
  task,     \* the task the engine holds
  editor,   \* "closed", "editing" or "saving"
  selected, \* selectedInstance
  interval, \* the text of the readback interval
  rows,     \* readMappings or writeMappings
  touched   \* something was typed since the editor was opened (history)

form == <<selected, interval, rows, touched>>
taskVars == <<task, editor, form>>

-----------------------------------------------------------------------------
FallbackType(kind) == IF kind = "read" THEN "input_register" ELSE "coil"

\* Bug: one fallback type for both lists.
FallbackForWrites(kind) == "coil"

\* The fallback type of normalizeReadMappings and normalizeWriteMappings.
EditorFallback(kind) == FallbackType(kind)

\* normalizeList: readback_channel is not among what a row keeps.
Normalized(t) ==
  [i \in DOMAIN t.items |->
    [type     |-> IF t.items[i].type = NoType THEN EditorFallback(t.kind) ELSE t.items[i].type,
     register |-> t.items[i].register,
     channel  |-> t.items[i].channel]]

\* Number(text): of a blank field it is 0.
Number(text) == IF text = Blank THEN 0 ELSE text

\* Bug: register 0 is taken for a missing one.
KeptIfPositive(row) == Number(row.register) \notin {0, Negative} /\ row.channel # NoChannel

\* The filter of cleanMappings.
Kept(row) == Number(row.register) # Negative /\ row.channel # NoChannel

\* Filtering goes through the list from its beginning.
KeptRows(list) ==
  LET upTo[n \in 0..Len(list)] ==
        IF n = 0 THEN <<>>
        ELSE IF Kept(list[n]) THEN Append(upTo[n - 1], list[n]) ELSE upTo[n - 1]
  IN  upTo[Len(list)]

CleanMappings(list) ==
  LET kept == KeptRows(list)
  IN  [i \in DOMAIN kept |-> [type     |-> kept[i].type,
                              register |-> Number(kept[i].register),
                              channel  |-> kept[i].channel,
                              readback |-> NoChannel]]

\* payload: buildReadWritePayload, with the interval for a write task only.
Payload ==
  [kind     |-> task.kind,
   instance |-> selected,
   items    |-> CleanMappings(rows),
   interval |-> IF task.kind = "read" THEN NoInterval
                ELSE IF interval \in {Blank, Negative} THEN 0 ELSE interval,
   legacy   |-> FALSE]

-----------------------------------------------------------------------------
\* What parseMappings makes of a list before it sorts it, and what it refuses.
Parsed(t) ==
  [i \in DOMAIN t.items |->
    [t.items[i] EXCEPT !.type = IF @ = NoType THEN FallbackType(t.kind) ELSE @]]

Accepted(t) ==
  \A i \in DOMAIN t.items :
    /\ t.items[i].register \in Nat
    /\ Parsed(t)[i].type \in TypesOf(t.kind)

ReadbackInterval(t) == IF t.interval = NoInterval THEN 0 ELSE t.interval

-----------------------------------------------------------------------------
TaskEditorInit ==
  /\ task \in InitialTasks
  /\ editor = "closed"
  /\ selected = NoInstance
  /\ interval = 0
  /\ rows = <<>>
  /\ touched = FALSE

\* The form is filled from the arguments of the task.
OpenEditor ==
  /\ editor = "closed"
  /\ editor' = "editing"
  /\ selected' = task.instance
  /\ interval' = ReadbackInterval(task)
  /\ rows' = Normalized(task)
  /\ touched' = FALSE
  /\ UNCHANGED task

CloseEditor ==
  /\ editor' = "closed"
  /\ selected' = NoInstance
  /\ interval' = 0
  /\ rows' = <<>>
  /\ touched' = FALSE

Cancel == editor = "editing" /\ CloseEditor /\ UNCHANGED task

\* The operator changes one thing.
EditRows(list) ==
  /\ editor = "editing"
  /\ rows' = list
  /\ touched' = TRUE
  /\ UNCHANGED <<task, editor, selected, interval>>

AddRow ==
  /\ Len(rows) < MaxRows
  /\ EditRows(Append(rows, [type |-> IF task.kind = "read" THEN "discrete_input" ELSE "coil",
                            register |-> Blank, channel |-> NoChannel]))

ChangeRow(i, row) == EditRows([rows EXCEPT ![i] = row])

RemoveRow(i) == EditRows(RemoveAt(rows, i))

SelectInstance(m) ==
  /\ editor = "editing"
  /\ selected' = m
  /\ touched' = TRUE
  /\ UNCHANGED <<task, editor, interval, rows>>

ChangeInterval(text) ==
  /\ editor = "editing" /\ task.kind = "write"
  /\ interval' = text
  /\ touched' = TRUE
  /\ UNCHANGED <<task, editor, selected, rows>>

\* saveTask, up to the request. Without an instance or a mapping it only shows a
\* message, and a legacy task cannot be saved.
SaveTask ==
  /\ editor = "editing" /\ ~task.legacy
  /\ selected # NoInstance /\ Payload.items # <<>>
  /\ editor' = "saving"
  /\ UNCHANGED <<task, form>>

\* create-task configures the task, and the editor is closed.
TaskSaved ==
  /\ editor = "saving" /\ Accepted(Payload)
  /\ task' = Payload
  /\ CloseEditor

\* The engine has the arguments, but no answer comes in 30 seconds.
SaveUnanswered ==
  /\ editor = "saving" /\ Accepted(Payload)
  /\ task' = Payload
  /\ editor' = "editing"
  /\ UNCHANGED form

\* The engine refuses them, or the request is lost.
SaveRefused ==
  /\ editor = "saving"
  /\ editor' = "editing"
  /\ UNCHANGED <<task, form>>

TaskEditorNext ==
  \/ OpenEditor \/ Cancel \/ AddRow \/ SaveTask \/ TaskSaved \/ SaveUnanswered \/ SaveRefused
  \/ \E i \in DOMAIN rows :
       \/ RemoveRow(i)
       \/ \E type \in TypesOf(task.kind) : ChangeRow(i, [rows[i] EXCEPT !.type = type])
       \/ \E text \in Addresses \cup {Blank, Fraction, Negative} :
            ChangeRow(i, [rows[i] EXCEPT !.register = text])
       \/ \E channel \in Channels : ChangeRow(i, [rows[i] EXCEPT !.channel = channel])
  \/ \E m \in Instances : SelectInstance(m)
  \/ \E text \in Intervals \cup {Blank, Negative} : ChangeInterval(text)

TaskEditorSpec == TaskEditorInit /\ [][TaskEditorNext]_taskVars

-----------------------------------------------------------------------------
\* The mappings the engine works with.
EngineMappings(t) == ToSet(Parsed(t))

\* A row a reader of the form would call complete.
CompleteRows == {row \in ToSet(rows) : row.register \in Nat /\ row.channel # NoChannel}

Mapping(row) == [type |-> row.type, register |-> row.register, channel |-> row.channel,
                 readback |-> NoChannel]

\* Opening a task and saving it as it is leaves the engine with the same task,
\* whatever its arguments leave to defaults, but for the readback channels
\* (shared.ts:20-54 against module.cpp:86-125).
UntouchedSaveKeepsTask ==
  [][task' # task /\ ~touched =>
       /\ Parsed(task') = [i \in DOMAIN task.items |->
                            [Parsed(task)[i] EXCEPT !.readback = NoChannel]]
       /\ task'.instance = task.instance
       /\ task'.kind = "write" => ReadbackInterval(task') = ReadbackInterval(task)]_taskVars

\* A save stores every complete row, register 0 included, and nothing besides,
\* but the rows whose address field is blank: they become register 0
\* (shared.ts:47-54).
CompleteRowsSaved ==
  [][task' # task =>
       /\ {Mapping(row) : row \in CompleteRows} \subseteq EngineMappings(task')
       /\ \A m \in EngineMappings(task') \ {Mapping(row) : row \in CompleteRows} :
            m.register = 0 /\ \E row \in ToSet(rows) : row.register = Blank /\ row.channel = m.channel]_taskVars

\* What the filter of cleanMappings is for, and the engine's message says of a
\* mapping: a row without an address is no mapping (shared.ts:53, module.cpp:96).
BlankRowsAreLeftOut ==
  [][task' # task => EngineMappings(task') \subseteq {Mapping(row) : row \in CompleteRows}]_taskVars
=============================================================================
