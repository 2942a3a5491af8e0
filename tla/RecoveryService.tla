-------------------------- MODULE RecoveryService --------------------------
(***************************************************************************)
(* The parts of the recovery service together.  They run in one process    *)
(* and have no variable in common yet: the monitor draws the outcome of a  *)
(* recovery by itself, and neither the orchestrator nor the queue has a    *)
(* caller.  So a behaviour of the service is an interleaving of theirs,    *)
(* and what holds of each part while the others rest holds of all.         *)
(***************************************************************************)
EXTENDS PriorityQueue, DlqMonitor, RecoveryOrchestrator

serviceVars == <<queueVars, monitorVars, orchestratorVars>>

Init == QueueInit /\ MonitorInit /\ OrchestratorInit

QueueStep == QueueNext /\ UNCHANGED <<monitorVars, orchestratorVars>>
MonitorStep == MonitorNext /\ UNCHANGED <<queueVars, orchestratorVars>>
OrchestratorStep == OrchestratorNext /\ UNCHANGED <<queueVars, monitorVars>>

Next == QueueStep \/ MonitorStep \/ OrchestratorStep

Spec == Init /\ [][Next]_serviceVars

\* Type invariant.
TypeOK == QueueTypeOK /\ MonitorTypeOK /\ OrchestratorTypeOK
=============================================================================
