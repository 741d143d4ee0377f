-------------------------- MODULE InterfaceEditors --------------------------
(***************************************************************************)
(* The pages of the interface side by side: the editor of a task, the     *)
(* editor of a module instance and the settings pages.  They share no      *)
(* state, so that their interleavings say nothing more: a behaviour is one *)
(* of one of them, and the others stay as they are at first.               *)
(***************************************************************************)
EXTENDS TaskEditor, ModuleEditor, SettingsPage

VARIABLE subject \* the page in use

vars == <<subject, taskVars, moduleEditorVars, settingsVars>>

AnyOf(S) == CHOOSE x \in S : TRUE

\* Of a page that is not in use only one initial state counts.
OneTask == task = AnyOf(InitialTasks)
OneModule == name = AnyOf(Names) /\ stored = [n \in Names |-> AnyOf(Parameters)]
OneManifest == file = AnyOf(InitialManifests)

Init ==
  /\ TaskEditorInit /\ ModuleEditorInit /\ SettingsInit
  /\ \/ subject = "task" /\ OneModule /\ OneManifest
     \/ subject = "module" /\ OneTask /\ OneManifest
     \/ subject = "settings" /\ OneTask /\ OneModule

Next ==
  /\ UNCHANGED subject
  /\ \/ subject = "task" /\ TaskEditorNext /\ UNCHANGED <<moduleEditorVars, settingsVars>>
     \/ subject = "module" /\ ModuleEditorNext /\ UNCHANGED <<taskVars, settingsVars>>
     \/ subject = "settings" /\ SettingsNext /\ UNCHANGED <<taskVars, moduleEditorVars>>

Spec == Init /\ [][Next]_vars

\* Only the settings pages are waited for.
FairSpec == Spec /\ SettingsFairness
=============================================================================
