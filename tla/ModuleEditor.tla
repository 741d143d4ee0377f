---------------------------- MODULE ModuleEditor ----------------------------
(***************************************************************************)
(* The editor of a module instance (interface/src/moduleConfigs.tsx), which*)
(* tells from a copy of the parameters last saved whether there is         *)
(* something to save.  The page around it keeps the fields, shows another  *)
(* instance when the operator selects one, and executes the save.          *)
(***************************************************************************)
CONSTANTS Names,      \* module instances
          Parameters, \* their parameters
          NoRequest

ASSUME RequestAssumption == NoRequest \notin [name : Names, parameters : Parameters]

VARIABLES
  stored,          \* the parameters the engine has stored
  name,            \* the instance the page shows
  parameters,      \* its fields
  savedParameters, \* the copy
  request,         \* what is being saved
  misled           \* the copy may differ from what is stored: see the actions (history)

moduleEditorVars == <<stored, name, parameters, savedParameters, request, misled>>

Shown == [name |-> name, parameters |-> parameters]

ModuleEditorTypeOK ==
  /\ stored \in [Names -> Parameters]
  /\ name \in Names
  /\ parameters \in Parameters
  /\ savedParameters \in Parameters
  /\ request \in [name : Names, parameters : Parameters] \cup {NoRequest}
  /\ misled \in BOOLEAN

ModuleEditorInit ==
  /\ stored \in [Names -> Parameters]
  /\ name \in Names
  /\ parameters = stored[name]
  /\ savedParameters = parameters
  /\ request = NoRequest
  /\ misled = FALSE

\* Bug: the copy is still that of the instance shown before.
KeepsTheCopy(n) ==
  /\ n # name
  /\ name' = n
  /\ parameters' = stored[n]
  /\ misled' = FALSE
  /\ UNCHANGED <<stored, savedParameters, request>>

\* Another instance is shown: the effect takes a new copy.
ShowInstance(n) ==
  /\ n # name
  /\ name' = n
  /\ parameters' = stored[n]
  /\ savedParameters' = stored[n]
  /\ misled' = FALSE
  /\ UNCHANGED <<stored, request>>

\* The fields can be changed at any time, also while a save is on its way.
UpdateParameterField(p) ==
  /\ parameters' = p
  /\ UNCHANGED <<stored, name, savedParameters, request, misled>>

HandleSave ==
  /\ request = NoRequest
  /\ request' = Shown
  /\ UNCHANGED <<stored, name, parameters, savedParameters, misled>>

Store == stored' = [stored EXCEPT ![request.name] = request.parameters]

\* save() returns: the copy is taken of the fields as they are by now, whether
\* they are what was saved or not.
ConfigSaved ==
  /\ request # NoRequest
  /\ Store
  /\ savedParameters' = parameters
  /\ misled' = (request # Shown)
  /\ request' = NoRequest
  /\ UNCHANGED <<name, parameters>>

\* It is stored, but save() throws for want of an answer.
ConfigUnanswered ==
  /\ request # NoRequest
  /\ Store
  /\ misled' = (misled \/ request.name = name)
  /\ request' = NoRequest
  /\ UNCHANGED <<name, parameters, savedParameters>>

\* save() throws, and nothing is stored.
ConfigNotSaved ==
  /\ request # NoRequest
  /\ request' = NoRequest
  /\ UNCHANGED <<stored, name, parameters, savedParameters, misled>>

ModuleEditorNext ==
  \/ \E n \in Names : ShowInstance(n)
  \/ \E p \in Parameters : UpdateParameterField(p)
  \/ HandleSave \/ ConfigSaved \/ ConfigUnanswered \/ ConfigNotSaved

ModuleEditorSpec == ModuleEditorInit /\ [][ModuleEditorNext]_moduleEditorVars

\* isDirty
Dirty == parameters # savedParameters

\* A page that shows nothing to save shows what the engine has stored, unless
\* what it showed was changed while a save was on its way (moduleConfigs.tsx:79)
\* or a save was executed and its answer was lost.
CleanMeansStored == ~Dirty /\ ~misled => parameters = stored[name]
=============================================================================
