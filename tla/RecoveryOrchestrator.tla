------------------------ MODULE RecoveryOrchestrator ------------------------
(***************************************************************************)
(* What the recovery service does with a dead message: the text of its     *)
(* error is analysed, a strategy chosen, and the strategy puts the message *)
(* back into the queue it came from or gives a reason why not.  A text is  *)
(* the set of the patterns it matches, often more than one: a refused      *)
(* connection, say, that also 'timed out'.                                 *)
(*                                                                         *)
(* Nothing follows from a result yet, retries included, and the monitor    *)
(* does not call processMessage yet.                                       *)
(***************************************************************************)
EXTENDS Naturals, Sequences, SequencesExt

CONSTANTS
    Texts,          \* error texts, each a set of patterns
    QueueTypes,
    EnableDummyTx

VARIABLES
    call,           \* the last message taken, and whether it is still in hand
    returned,       \* the queues it was sent back to
    result          \* what the last recovery returned

orchestratorVars == <<call, returned, result>>

\* Nonce errors are told apart once more, by isNonceError and extractNonceInfo
Nonce == {"nonceTooHigh", "nonceTooLow", "nonceOther"}
Patterns == Nonce \cup {"funds", "gas", "network", "timeout", "address"}

ASSUME OrchestratorAssumption ==
    Texts \subseteq SUBSET Patterns /\ QueueTypes # {} /\ EnableDummyTx \in BOOLEAN

\* Mutant: the network is looked at first
NetworkFirst(text) ==
    LET matches(type) == IF type = "nonce" THEN text \cap Nonce # {} ELSE type \in text
        order == <<"network", "nonce", "funds", "gas", "timeout", "address">>
        i == SelectInSeq(order, matches)
    IN  IF i = 0 THEN "unknown" ELSE order[i]

\* analyze: the first test that matches decides
Analyze(text) ==
    LET matches(type) == IF type = "nonce" THEN text \cap Nonce # {} ELSE type \in text
        order == <<"nonce", "funds", "gas", "network", "timeout", "address">>
        i == SelectInSeq(order, matches)
    IN  IF i = 0 THEN "unknown" ELSE order[i]

IsRetryable(type) == type \notin {"funds", "address"}

\* initializeStrategies: the others that analyze names do not exist
Strategies == {"nonce", "gas", "network", "unknown"}

CanRecover(strategy, type) == strategy = type /\ (type = "nonce" \/ IsRetryable(type))

\* The fallback takes errors of type UNKNOWN only, which have a strategy already
Strategy(type) == IF type \in Strategies THEN type ELSE "unknown"

Result(success, action, retry) == [success |-> success, action |-> action, shouldRetry |-> retry]
NoResult == Result(FALSE, "NONE", FALSE)

\* NonceErrorRecovery; the gap between the nonces is large, small or not a number
NonceResults(text) ==
    CASE "nonceTooHigh" \in text /\ ~EnableDummyTx -> {Result(FALSE, "DUMMY_TX_DISABLED", FALSE)}
      [] "nonceTooHigh" \in text /\ EnableDummyTx ->
             {Result(FALSE, "NONCE_GAP_TOO_LARGE", FALSE),
              Result(FALSE, "DUMMY_TX_NOT_IMPLEMENTED", FALSE)}
      [] "nonceTooHigh" \notin text /\ "nonceTooLow" \in text ->
             {Result(TRUE, "NONCE_ALREADY_PROCESSED", FALSE)}
      [] OTHER -> {Result(FALSE, "NONCE_ERROR_UNHANDLED", TRUE)}

GasResult == Result(FALSE, "GAS_ADJUSTMENT_NOT_IMPLEMENTED", FALSE)

\* getTargetQueueUrl of both strategies
TargetQueue(q) == q

\* processMessage up to the strategy's delay; a message no strategy takes is left
ProcessMessage(q, text) ==
    LET type == Analyze(text)
        strategy == Strategy(type)
        waits == CanRecover(strategy, type) /\ strategy \in {"network", "unknown"}
    IN  /\ call.at = "done"
        /\ call' = [at |-> IF waits THEN "delay" ELSE "done", queue |-> q, text |-> text]
        /\ result' \in CASE waits \/ ~CanRecover(strategy, type) -> {NoResult}
                         [] CanRecover(strategy, type) /\ strategy = "nonce" -> NonceResults(text)
                         [] CanRecover(strategy, type) /\ strategy = "gas" -> {GasResult}
        /\ returned' = {}

\* NetworkErrorRecovery and UnknownErrorRecovery send after the delay; a send that
\* reports an error may have been accepted
Requeue ==
    LET sent == returned \cup {TargetQueue(call.queue)}
    IN  /\ call.at = "delay"
        /\ \/ returned' = sent /\ result' = Result(TRUE, "REQUEUED", FALSE)
           \/ returned' \in {returned, sent} /\ result' = Result(FALSE, "RECOVERY_FAILED", TRUE)
        /\ call' = [call EXCEPT !.at = "done"]

OrchestratorInit ==
    /\ call = [at |-> "done", queue |-> CHOOSE q \in QueueTypes : TRUE, text |-> {}]
    /\ returned = {} /\ result = NoResult

OrchestratorNext ==
    \/ \E q \in QueueTypes, text \in Texts : ProcessMessage(q, text)
    \/ Requeue

OrchestratorSpec == OrchestratorInit /\ [][OrchestratorNext]_orchestratorVars

----------------------------------------------------------------------------
(* Properties *)

\* Type invariant.
OrchestratorTypeOK ==
    /\ call.at \in {"done", "delay"} /\ call.queue \in QueueTypes /\ call.text \subseteq Patterns
    /\ returned \subseteq QueueTypes
    /\ result.success \in BOOLEAN /\ result.shouldRetry \in BOOLEAN

\* Only what a second attempt may mend goes back, and only to the queue it died in: a
\* text that speaks of nonces, funds or gas keeps its message out of the queues
\* whatever else it says, so does a timeout or an address unless the network is to
\* blame; and a recovery that counts as a success sent the message or found its
\* nonce used.
OnlyMendableReturned ==
    /\ returned \subseteq {call.queue}
    /\ returned # {} =>
           /\ call.text \cap (Nonce \cup {"funds", "gas"}) = {}
           /\ "network" \in call.text \/ call.text \cap {"timeout", "address"} = {}
    /\ result.success => returned # {} \/ "nonceTooLow" \in call.text
=============================================================================
