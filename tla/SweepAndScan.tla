---------------------------- MODULE SweepAndScan ----------------------------
(***************************************************************************)
(* The two computations of a pass of the device finder side by side: the   *)
(* queue of endpoints to probe, and the scan of a device with what is      *)
(* suggested for it.  Within a pass one follows the other and they share   *)
(* no state: a behaviour is one of one of them, and the other stays as it  *)
(* is at first.                                                            *)
(***************************************************************************)
EXTENDS ProbeQueue, RegisterScan

VARIABLE computation \* the one that is followed

vars == <<computation, queueVars, scannerVars>>

\* The scan has one initial state; of the queue one is enough where it rests.
OneQueue == cidrs = <<>> /\ ~includeLocal /\ local = (CHOOSE l \in LocalSubnets : TRUE) /\ known = {}

Init ==
  /\ QueueInit /\ ScanInit
  /\ \/ computation = "queue"
     \/ computation = "scan" /\ OneQueue

Next ==
  /\ UNCHANGED computation
  /\ \/ computation = "queue" /\ QueueNext /\ UNCHANGED scannerVars
     \/ computation = "scan" /\ ScanNext /\ UNCHANGED queueVars

Spec == Init /\ [][Next]_vars
=============================================================================
