------------------------------- MODULE Parts -------------------------------
(***************************************************************************)
(* The parts of the system whose state is their own: the recovery service, *)
(* the signing of batches, the list of pending transactions and the        *)
(* broadcast with retries.  They have no variable in common, so what each  *)
(* does while the others rest is all it does: focus names the one that     *)
(* moves, which keeps their states from multiplying.                       *)
(***************************************************************************)
EXTENDS RecoveryService, BatchSigning, PendingList, BroadcastRetry

VARIABLE focus

partsVars == <<serviceVars, batchVars, pendingVars, retryVars, focus>>

Foci == {"queue", "monitor", "orchestrator", "batches", "list", "retries"}

PartsInit ==
    /\ Init /\ BatchInit /\ PendingInit /\ RetryInit
    /\ focus \in Foci
    /\ focus # "retries" => kind = "SINGLE"

PartsNext ==
    \/ focus = "queue" /\ QueueStep /\ UNCHANGED <<batchVars, pendingVars, retryVars, focus>>
    \/ focus = "monitor" /\ MonitorStep /\ UNCHANGED <<batchVars, pendingVars, retryVars, focus>>
    \/ focus = "orchestrator" /\ OrchestratorStep /\ UNCHANGED <<batchVars, pendingVars, retryVars, focus>>
    \/ focus = "batches" /\ BatchNext /\ UNCHANGED <<serviceVars, pendingVars, retryVars, focus>>
    \/ focus = "list" /\ PendingNext /\ UNCHANGED <<serviceVars, batchVars, retryVars, focus>>
    \/ focus = "retries" /\ RetryNext /\ UNCHANGED <<serviceVars, batchVars, pendingVars, focus>>

PartsSpec == PartsInit /\ [][PartsNext]_partsVars

\* Type invariant.
PartsTypeOK == TypeOK /\ BatchTypeOK /\ PendingTypeOK /\ RetryTypeOK
=============================================================================
