-------------------------- MODULE ConnectionHealth --------------------------
(***************************************************************************)
(* What a Modbus connection promises to the rest of DARTWIC: a link that   *)
(* is up or down, and an alarm.  The client's own alarm is never raised    *)
(* while the link is up, is withdrawn only by the link coming up, and is   *)
(* raised sooner or later when the link stays down.  An alarm that a       *)
(* replaced instance left behind is nobody's until it is raised again.     *)
(***************************************************************************)

VARIABLES linkUp, alarm
vars == <<linkUp, alarm>>

Alarms == {"none", "own", "orphan"}

TypeOK == linkUp \in BOOLEAN /\ alarm \in Alarms

Init == linkUp = FALSE /\ alarm = "none"

\* The link comes up; the client's alarm is resolved in the same step.
Establish ==
  /\ ~linkUp
  /\ linkUp' = TRUE
  /\ alarm' = IF alarm = "own" THEN "none" ELSE alarm

\* The link goes down, with the alarm at once or a little later.
Lose ==
  /\ linkUp
  /\ linkUp' = FALSE
  /\ alarm' \in {alarm, "own"}

Raise ==
  /\ ~linkUp /\ alarm # "own"
  /\ alarm' = "own"
  /\ UNCHANGED linkUp

\* The module instance is replaced: its successor starts without a link and
\* does not know the alarm.
Replace ==
  /\ linkUp' = FALSE
  /\ alarm' = IF alarm = "none" THEN "none" ELSE "orphan"

Next == Establish \/ Lose \/ Raise \/ Replace

Safety == Init /\ [][Next]_vars

\* An outage without an alarm ends, by the alarm or by the link.
OutageEnds == alarm # "own" /\ (Establish \/ Raise)

Spec == Safety /\ WF_vars(OutageEnds)
=============================================================================
