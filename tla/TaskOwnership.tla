---------------------------- MODULE TaskOwnership ----------------------------
(***************************************************************************)
(* Which task may use which connection: the ownership maps of              *)
(* engine/src/modbus_tcp_client_module.cpp, the configuration of a task    *)
(* (configureTask), its start (createRuntime) and its removal              *)
(* (cleanupTaskOwnership).                                                 *)
(*                                                                         *)
(* A connection admits one task of each kind, so the thing owned is a slot,*)
(* a pair of a module instance and a kind: owner[<<i, "read">>] stands for *)
(* module_read_task_owners[i] and owner[<<i, "write">>] for                *)
(* module_write_task_owners[i].  The engine configures different tasks     *)
(* concurrently; configureTask holds ownership_mutex twice, for its first  *)
(* check and for its commit, and not in between.                           *)
(*                                                                         *)
(* configureTask and createRuntime both read the arguments of the task from*)
(* its runtime.  What the engine does with the arguments of a configuration*)
(* that threw is not stated by the SDK: here it keeps them or goes back to *)
(* the ones accepted last, as it likes.                                    *)
(***************************************************************************)

CONSTANTS Tasks,      \* task names
          Instances,  \* module instance names
          NoTask,     \* no owner
          NoSlot      \* no association

Kinds == {"read", "write"}
Slots == Instances \X Kinds

ASSUME NoTaskAssumption == NoTask \notin Tasks
ASSUME NoSlotAssumption == NoSlot \notin Slots

VARIABLES
  loaded,       \* instances getModuleInstance() finds
  owner,        \* module_read_task_owners and module_write_task_owners
  association,  \* task_module_ownership
  stage,        \* how far the configuration of a task has come
  arguments,    \* the slot the arguments of a task name (runtime.getArguments())
  inputs,       \* the slot whose command channels are the fixed inputs of a task
  refusals,     \* where configurations were refused since one was accepted (history)
  running       \* the slot a started task works on (its RuntimeContext)

vars == <<loaded, owner, association, stage, arguments, inputs, refusals, running>>

Stages == {"idle", "checked", "created"}
MaybeSlot == Slots \cup {NoSlot}

TypeOK ==
  /\ loaded \subseteq Instances
  /\ owner \in [Slots -> Tasks \cup {NoTask}]
  /\ association \in [Tasks -> MaybeSlot]
  /\ stage \in [Tasks -> Stages]
  /\ arguments \in [Tasks -> MaybeSlot]
  /\ inputs \in [Tasks -> MaybeSlot]
  /\ refusals \in [Tasks -> SUBSET {"check", "commit"}]
  /\ running \in [Tasks -> MaybeSlot]

Init ==
  /\ loaded \in SUBSET Instances
  /\ owner = [s \in Slots |-> NoTask]
  /\ association = [t \in Tasks |-> NoSlot]
  /\ stage = [t \in Tasks |-> "idle"]
  /\ arguments = [t \in Tasks |-> NoSlot]
  /\ inputs = [t \in Tasks |-> NoSlot]
  /\ refusals = [t \in Tasks |-> {}]
  /\ running = [t \in Tasks |-> NoSlot]

-----------------------------------------------------------------------------
FreeFor(t, s) == owner[s] \in {NoTask, t}

\* configureTask up to the end of its first critical section, when that does not
\* throw.  The engine configures a task that is not running.
CheckOwnership(t, s) ==
  /\ stage[t] = "idle" /\ running[t] = NoSlot
  /\ s[1] \in loaded
  /\ FreeFor(t, s)
  /\ stage' = [stage EXCEPT ![t] = "checked"]
  /\ arguments' = [arguments EXCEPT ![t] = s]
  /\ UNCHANGED <<loaded, owner, association, inputs, refusals, running>>

\* The engine keeps the refused arguments, or those accepted last.
RefusedArguments(t, s) == arguments' \in {[arguments EXCEPT ![t] = a] : a \in {s, association[t]}}

\* It throws: no such instance, or an owner.
RefuseCheck(t, s) ==
  /\ stage[t] = "idle" /\ running[t] = NoSlot
  /\ s[1] \notin loaded \/ ~FreeFor(t, s)
  /\ RefusedArguments(t, s)
  /\ refusals' = [refusals EXCEPT ![t] = @ \cup {"check"}]
  /\ UNCHANGED <<loaded, owner, association, stage, inputs, running>>

\* Only write tasks have command channels.
InputsOf(s) == IF s[2] = "write" THEN s ELSE NoSlot

\* Bug: a task that becomes a read task keeps the inputs it had.
CreatesWithoutClearing(t) ==
  /\ stage[t] = "checked"
  /\ inputs' = IF arguments[t][2] = "write" THEN [inputs EXCEPT ![t] = arguments[t]] ELSE inputs
  /\ stage' = [stage EXCEPT ![t] = "created"]
  /\ UNCHANGED <<loaded, owner, association, arguments, refusals, running>>

\* The channels are created and the fixed inputs set, outside the mutex.
CreateChannels(t) ==
  /\ stage[t] = "checked"
  /\ inputs' = [inputs EXCEPT ![t] = InputsOf(arguments[t])]
  /\ stage' = [stage EXCEPT ![t] = "created"]
  /\ UNCHANGED <<loaded, owner, association, arguments, refusals, running>>

\* Bug: the entry of the previous association stays.
KeepsPreviousEntry(t, s) == [x \in Slots |-> IF x = s THEN t ELSE owner[x]]

\* owners[instance] = task, after the task's previous entry is erased.
Reassign(t, s) ==
  [x \in Slots |-> IF x = s THEN t
                   ELSE IF x = association[t] /\ owner[x] = t THEN NoTask
                   ELSE owner[x]]

\* Bug: the second critical section does not look at the owner again.
CommitsUnchecked(t) ==
  /\ stage[t] = "created"
  /\ owner' = Reassign(t, arguments[t])
  /\ association' = [association EXCEPT ![t] = arguments[t]]
  /\ refusals' = [refusals EXCEPT ![t] = {}]
  /\ stage' = [stage EXCEPT ![t] = "idle"]
  /\ UNCHANGED <<loaded, arguments, inputs, running>>

\* The second critical section.
Commit(t) ==
  /\ stage[t] = "created"
  /\ FreeFor(t, arguments[t])
  /\ owner' = Reassign(t, arguments[t])
  /\ association' = [association EXCEPT ![t] = arguments[t]]
  /\ refusals' = [refusals EXCEPT ![t] = {}]
  /\ stage' = [stage EXCEPT ![t] = "idle"]
  /\ UNCHANGED <<loaded, arguments, inputs, running>>

\* The second critical section throws: another task was faster.
RefuseCommit(t) ==
  /\ stage[t] = "created"
  /\ ~FreeFor(t, arguments[t])
  /\ RefusedArguments(t, arguments[t])
  /\ refusals' = [refusals EXCEPT ![t] = @ \cup {"commit"}]
  /\ stage' = [stage EXCEPT ![t] = "idle"]
  /\ UNCHANGED <<loaded, owner, association, inputs, running>>

\* cleanupTaskOwnership, called when the task is removed; its TaskRuntime, and
\* with it the arguments and the inputs, goes away.
CleanupTask(t) ==
  /\ stage[t] = "idle" /\ running[t] = NoSlot
  /\ owner' = IF association[t] # NoSlot /\ owner[association[t]] = t
                THEN [owner EXCEPT ![association[t]] = NoTask]
                ELSE owner
  /\ association' = [association EXCEPT ![t] = NoSlot]
  /\ arguments' = [arguments EXCEPT ![t] = NoSlot]
  /\ inputs' = [inputs EXCEPT ![t] = NoSlot]
  /\ refusals' = [refusals EXCEPT ![t] = {}]
  /\ UNCHANGED <<loaded, stage, running>>

\* on_start: createRuntime takes the instance from the arguments of the task and
\* does not look at the owners.
StartTask(t) ==
  /\ stage[t] = "idle" /\ running[t] = NoSlot
  /\ arguments[t] # NoSlot
  /\ arguments[t][1] \in loaded
  /\ running' = [running EXCEPT ![t] = arguments[t]]
  /\ UNCHANGED <<loaded, owner, association, stage, arguments, inputs, refusals>>

\* The engine stops the task; the plugin has no on_end.
StopTask(t) ==
  /\ running[t] # NoSlot
  /\ running' = [running EXCEPT ![t] = NoSlot]
  /\ UNCHANGED <<loaded, owner, association, stage, arguments, inputs, refusals>>

LoadModule(i) ==
  /\ i \notin loaded
  /\ loaded' = loaded \cup {i}
  /\ UNCHANGED <<owner, association, stage, arguments, inputs, refusals, running>>

UnloadModule(i) ==
  /\ i \in loaded
  /\ loaded' = loaded \ {i}
  /\ UNCHANGED <<owner, association, stage, arguments, inputs, refusals, running>>

TaskStep(t) ==
  \/ \E s \in Slots : CheckOwnership(t, s) \/ RefuseCheck(t, s)
  \/ CreateChannels(t)
  \/ Commit(t)
  \/ RefuseCommit(t)
  \/ CleanupTask(t)
  \/ StartTask(t)
  \/ StopTask(t)

Next ==
  \/ \E t \in Tasks : TaskStep(t)
  \/ \E i \in Instances : LoadModule(i) \/ UnloadModule(i)

Spec == Init /\ [][Next]_vars

-----------------------------------------------------------------------------
\* The two maps are inverse to each other: a slot names a task exactly when the
\* task is recorded with that slot (module.cpp:211-229, 291-299).
OwnershipConsistent ==
  \A t \in Tasks, s \in Slots : owner[s] = t <=> association[t] = s

\* A started task owns the slot it works on for as long as it runs, whatever other
\* tasks are configured for meanwhile; unless a configuration of it was refused
\* since the last accepted one (module.cpp:183-193, 211-229, 232-237).
AcceptedTaskOwnsItsSlot ==
  \A t \in Tasks : running[t] # NoSlot /\ refusals[t] = {} => owner[running[t]] = t


\* The fixed inputs of a task are the command channels of the configuration it
\* is recorded with, unless a later configuration was refused at the commit,
\* after the inputs had been set (module.cpp:202-229).
InputsFollowAssociation ==
  \A t \in Tasks :
    stage[t] # "created" /\ "commit" \notin refusals[t] =>
      inputs[t] = IF association[t] = NoSlot THEN NoSlot ELSE InputsOf(association[t])

\* A slot passes from one task to another only through being free: no
\* configuration, however it races, takes the connection of another task, and
\* a refused one keeps its old owner (module.cpp:183-193, 213-217).
NoSlotTaken ==
  [][\A s \in Slots : owner[s] # NoTask => owner'[s] \in {owner[s], NoTask}]_vars
=============================================================================
