------------------------ MODULE TaskOwnership_proofs ------------------------
(***************************************************************************)
(* Proofs about TaskOwnership, for any tasks and any module instances.     *)
(***************************************************************************)
EXTENDS TaskOwnership, TLAPS

USE NoTaskAssumption, NoSlotAssumption

\* A configuration in progress has arguments, and is of a stopped task; a started
\* task works on what its arguments name; and the arguments of a task none of
\* whose configurations was refused are the ones it is recorded with.
StagesConsistent ==
  \A t \in Tasks :
    /\ stage[t] # "idle" => arguments[t] \in Slots /\ running[t] = NoSlot
    /\ running[t] # NoSlot => running[t] = arguments[t]
    /\ stage[t] = "idle" /\ refusals[t] = {} => arguments[t] = association[t]

OwnershipInv ==
  /\ TypeOK
  /\ StagesConsistent
  /\ OwnershipConsistent

-----------------------------------------------------------------------------
\* A slot is a pair, and its inputs are itself or none.
LEMMA InputsTypes ==
  ASSUME NEW s \in Slots
  PROVE  InputsOf(s) \in MaybeSlot
BY DEF InputsOf, MaybeSlot

LEMMA ReassignTypes ==
  ASSUME TypeOK, NEW t \in Tasks, NEW s \in Slots
  PROVE  Reassign(t, s) \in [Slots -> Tasks \cup {NoTask}]
BY DEF TypeOK, Reassign

\* Every step keeps the types and the bookkeeping of the stages.
LEMMA TypesAndStagesKept ==
  ASSUME TypeOK, StagesConsistent, [Next]_vars
  PROVE  TypeOK' /\ StagesConsistent'
<1> USE DEF TypeOK, StagesConsistent, Stages, MaybeSlot
<1>1. ASSUME NEW t \in Tasks, NEW s \in Slots, CheckOwnership(t, s)
      PROVE  TypeOK' /\ StagesConsistent'
  BY <1>1 DEF CheckOwnership
<1>2. ASSUME NEW t \in Tasks, CreateChannels(t)
      PROVE  TypeOK' /\ StagesConsistent'
  BY <1>2, InputsTypes DEF CreateChannels
<1>3. ASSUME NEW t \in Tasks, Commit(t)
      PROVE  TypeOK' /\ StagesConsistent'
  BY <1>3, ReassignTypes DEF Commit
<1>4. ASSUME NEW t \in Tasks, RefuseCommit(t)
      PROVE  TypeOK' /\ StagesConsistent'
  <2>1. PICK a \in {arguments[t], association[t]} : arguments' = [arguments EXCEPT ![t] = a]
    BY <1>4 DEF RefuseCommit, RefusedArguments
  <2>2. refusals' = [refusals EXCEPT ![t] = @ \cup {"commit"}]
        /\ stage' = [stage EXCEPT ![t] = "idle"]
        /\ UNCHANGED <<loaded, owner, association, inputs, running>>
    BY <1>4 DEF RefuseCommit
  <2>3. running[t] = NoSlot /\ a \in MaybeSlot
    BY <1>4 DEF RefuseCommit
  <2>4. TypeOK'
    BY <2>1, <2>2, <2>3
  <2>5. refusals'[t] # {}
    BY <2>2
  <2> QED
    BY <2>1, <2>2, <2>3, <2>4, <2>5
<1>5. ASSUME NEW t \in Tasks, CleanupTask(t)
      PROVE  TypeOK' /\ StagesConsistent'
  BY <1>5 DEF CleanupTask
<1>6. ASSUME NEW t \in Tasks, StartTask(t) \/ StopTask(t)
      PROVE  TypeOK' /\ StagesConsistent'
  BY <1>6 DEF StartTask, StopTask
<1>7. ASSUME NEW i \in Instances, LoadModule(i) \/ UnloadModule(i)
      PROVE  TypeOK' /\ StagesConsistent'
  BY <1>7 DEF LoadModule, UnloadModule
<1>8. CASE UNCHANGED vars
  BY <1>8 DEF vars
<1>9. ASSUME NEW t \in Tasks, NEW s \in Slots, RefuseCheck(t, s)
      PROVE  TypeOK' /\ StagesConsistent'
  <2>1. PICK a \in {s, association[t]} : arguments' = [arguments EXCEPT ![t] = a]
    BY <1>9 DEF RefuseCheck, RefusedArguments
  <2>2. refusals' = [refusals EXCEPT ![t] = @ \cup {"check"}]
        /\ UNCHANGED <<loaded, owner, association, stage, inputs, running>>
    BY <1>9 DEF RefuseCheck
  <2>3. stage[t] = "idle" /\ running[t] = NoSlot /\ a \in MaybeSlot
    BY <1>9 DEF RefuseCheck
  <2>4. TypeOK'
    BY <2>1, <2>2, <2>3
  <2>5. refusals'[t] # {}
    BY <2>2
  <2> QED
    BY <2>1, <2>2, <2>3, <2>4, <2>5
<1> QED
  BY <1>1, <1>2, <1>3, <1>4, <1>5, <1>6, <1>7, <1>8, <1>9 DEF Next, TaskStep

\* Only a commit and a cleanup touch the maps, and both touch them together.
LEMMA ConsistencyKept ==
  ASSUME OwnershipInv, [Next]_vars
  PROVE  OwnershipConsistent'
<1> USE DEF OwnershipInv, TypeOK, OwnershipConsistent
<1>1. ASSUME NEW t \in Tasks, Commit(t)
      PROVE  OwnershipConsistent'
  <2> DEFINE s == arguments[t]
  <2>1. s \in Slots /\ owner[s] \in {NoTask, t}
    BY <1>1 DEF Commit, FreeFor, StagesConsistent
  <2>2. owner' = Reassign(t, s) /\ association' = [association EXCEPT ![t] = s]
    BY <1>1 DEF Commit
  <2> SUFFICES ASSUME NEW u \in Tasks, NEW x \in Slots
               PROVE  owner'[x] = u <=> association'[u] = x
    OBVIOUS
  <2>3. owner'[x] = IF x = s THEN t
                    ELSE IF x = association[t] /\ owner[x] = t THEN NoTask ELSE owner[x]
    BY <2>2 DEF Reassign
  <2>4. CASE u = t
    BY <2>1, <2>2, <2>3, <2>4
  <2>5. CASE u # t
    BY <2>1, <2>2, <2>3, <2>5
  <2> QED
    BY <2>4, <2>5
<1>2. ASSUME NEW t \in Tasks, CleanupTask(t)
      PROVE  OwnershipConsistent'
  BY <1>2 DEF CleanupTask, MaybeSlot
<1>3. CASE UNCHANGED <<owner, association>>
  BY <1>3
<1> QED
  BY <1>1, <1>2, <1>3 DEF Next, TaskStep, CheckOwnership, RefuseCheck, CreateChannels, RefuseCommit,
     StartTask, StopTask, LoadModule, UnloadModule, vars

\* The invariant holds of every reachable state.
THEOREM OwnershipInvariant == Spec => []OwnershipInv
<1>1. Init => OwnershipInv
  BY DEF Init, OwnershipInv, TypeOK, StagesConsistent, OwnershipConsistent, Stages, MaybeSlot
<1>2. OwnershipInv /\ [Next]_vars => OwnershipInv'
  BY TypesAndStagesKept, ConsistencyKept DEF OwnershipInv
<1> QED
  BY <1>1, <1>2, PTL DEF Spec

\* The maps, the stages and the histories keep their types.
THEOREM TypesCorrect == Spec => []TypeOK
<1>1. OwnershipInv => TypeOK
  BY DEF OwnershipInv
<1> QED
  BY <1>1, OwnershipInvariant, PTL

\* Owner and record are inverse to each other.
THEOREM MapsAgree == Spec => []OwnershipConsistent
<1>1. OwnershipInv => OwnershipConsistent
  BY DEF OwnershipInv
<1> QED
  BY <1>1, OwnershipInvariant, PTL

\* A started task owns its slot: nobody takes it, and it works on the slot it is
\* recorded with, if its last configuration was accepted.
THEOREM AcceptedTaskOwns == Spec => []AcceptedTaskOwnsItsSlot
<1>1. OwnershipInv => AcceptedTaskOwnsItsSlot
  <2> SUFFICES ASSUME OwnershipInv, NEW t \in Tasks, running[t] # NoSlot, refusals[t] = {}
               PROVE  owner[running[t]] = t
    BY DEF AcceptedTaskOwnsItsSlot
  <2>1. running[t] = association[t] /\ running[t] \in Slots
    BY DEF OwnershipInv, StagesConsistent, TypeOK, MaybeSlot
  <2> QED
    BY <2>1 DEF OwnershipInv, OwnershipConsistent
<1> QED
  BY <1>1, OwnershipInvariant, PTL

\* Between its creation of channels and its commit a configuration has the inputs
\* of the slot its arguments name; else a task has those of its record.
InputsInv ==
  /\ \A t \in Tasks : stage[t] = "created" => inputs[t] = InputsOf(arguments[t])
  /\ InputsFollowAssociation

LEMMA InputsKept ==
  ASSUME OwnershipInv, InputsInv, [Next]_vars
  PROVE  InputsInv'
<1> DEFINE Follows(u) ==
             /\ stage[u] = "created" => inputs[u] = InputsOf(arguments[u])
             /\ stage[u] # "created" /\ "commit" \notin refusals[u] =>
                  inputs[u] = IF association[u] = NoSlot THEN NoSlot ELSE InputsOf(association[u])
<1>1. \A u \in Tasks : Follows(u)
  BY DEF InputsInv, InputsFollowAssociation
<1> SUFFICES ASSUME NEW u \in Tasks PROVE Follows(u)'
  BY DEF InputsInv, InputsFollowAssociation, InputsOf
<1> HIDE DEF Follows
<1>2. CASE UNCHANGED <<stage[u], inputs[u], arguments[u], association[u], refusals[u]>>
  BY <1>1, <1>2 DEF Follows, InputsOf
<1> USE DEF OwnershipInv, TypeOK
<1>3. ASSUME NEW t \in Tasks, NEW s \in Slots, CheckOwnership(t, s)
      PROVE  Follows(u)'
  <2>1. CASE u = t
    BY <1>1, <1>3, <2>1 DEF CheckOwnership, Follows, InputsOf
  <2> QED
    BY <1>2, <1>3, <2>1 DEF CheckOwnership
<1>4. ASSUME NEW t \in Tasks, CreateChannels(t)
      PROVE  Follows(u)'
  <2>1. CASE u = t
    BY <1>4, <2>1 DEF CreateChannels, Follows, InputsOf
  <2> QED
    BY <1>2, <1>4, <2>1 DEF CreateChannels
<1>5. ASSUME NEW t \in Tasks, Commit(t)
      PROVE  Follows(u)'
  <2>1. CASE u = t
    <3>1. inputs[u] = InputsOf(arguments[u]) /\ arguments[u] # NoSlot
      BY <1>1, <1>5, <2>1 DEF Commit, Follows, StagesConsistent
    <3> QED
      BY <1>5, <2>1, <3>1 DEF Commit, Follows, InputsOf
  <2> QED
    BY <1>2, <1>5, <2>1 DEF Commit
<1>6. ASSUME NEW t \in Tasks, RefuseCommit(t)
      PROVE  Follows(u)'
  <2>1. CASE u = t
    BY <1>6, <2>1 DEF RefuseCommit, Follows
  <2> QED
    BY <1>2, <1>6, <2>1 DEF RefuseCommit, RefusedArguments
<1>7. ASSUME NEW t \in Tasks, CleanupTask(t)
      PROVE  Follows(u)'
  <2>1. CASE u = t
    BY <1>7, <2>1 DEF CleanupTask, Follows
  <2> QED
    BY <1>2, <1>7, <2>1 DEF CleanupTask
<1>8. ASSUME NEW t \in Tasks, NEW s \in Slots, RefuseCheck(t, s)
      PROVE  Follows(u)'
  <2>1. CASE u = t
    BY <1>1, <1>8, <2>1 DEF RefuseCheck, Follows, InputsOf
  <2> QED
    BY <1>2, <1>8, <2>1 DEF RefuseCheck, RefusedArguments
<1> QED
  BY <1>2, <1>3, <1>4, <1>5, <1>6, <1>7, <1>8
  DEF Next, TaskStep, StartTask, StopTask, LoadModule, UnloadModule, vars

\* The fixed inputs are those of the record, but after a refused commit.
THEOREM InputsCorrect == Spec => []InputsFollowAssociation
<1>1. Init => InputsInv
  BY DEF Init, InputsInv, InputsFollowAssociation
<1>2. OwnershipInv /\ InputsInv /\ [Next]_vars => InputsInv'
  BY InputsKept
<1>3. InputsInv => InputsFollowAssociation
  BY DEF InputsInv
<1> QED
  BY <1>1, <1>2, <1>3, OwnershipInvariant, PTL DEF Spec

\* No configuration takes a slot from its owner.
THEOREM NoTaskRobbed == Spec => NoSlotTaken
<1>1. OwnershipInv /\ [Next]_vars
        => [\A s \in Slots : owner[s] # NoTask => owner'[s] \in {owner[s], NoTask}]_vars
  <2> SUFFICES ASSUME OwnershipInv, Next, NEW s \in Slots, owner[s] # NoTask
               PROVE  owner'[s] \in {owner[s], NoTask}
    OBVIOUS
  <2>1. ASSUME NEW t \in Tasks, Commit(t)
        PROVE  owner'[s] \in {owner[s], NoTask}
    BY <2>1 DEF Commit, FreeFor, Reassign
  <2>2. ASSUME NEW t \in Tasks, CleanupTask(t)
        PROVE  owner'[s] \in {owner[s], NoTask}
    BY <2>2 DEF CleanupTask, OwnershipInv, TypeOK, MaybeSlot
  <2>3. CASE UNCHANGED owner
    BY <2>3
  <2> QED
    BY <2>1, <2>2, <2>3 DEF Next, TaskStep, CheckOwnership, RefuseCheck, CreateChannels, RefuseCommit,
       StartTask, StopTask, LoadModule, UnloadModule
<1> QED
  BY <1>1, OwnershipInvariant, PTL DEF Spec, NoSlotTaken
=============================================================================
