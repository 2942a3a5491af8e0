----------------------------- MODULE DlqMonitor -----------------------------
(***************************************************************************)
(* The recovery service's monitor of one dead-letter queue, with the       *)
(* metrics it keeps.  A poll receives a batch and processes its messages   *)
(* one after the other; the interval starts the next poll whether or not   *)
(* the last one is done.  A message that is not deleted within 300 s is    *)
(* received again, and the metrics of a message are found by its           *)
(* identifier, which is the same each time.                                *)
(*                                                                         *)
(* Whether a message is recovered is drawn at random by the code.  The     *)
(* polls ask for no message attributes, so that the retry count is never   *)
(* there and a metric is never 'retrying'.                                 *)
(***************************************************************************)
EXTENDS Naturals, FiniteSets, Sequences, SequencesExt

CONSTANTS
    Msgs,         \* messages of the dead-letter queue
    Unparsable,   \* those whose body is not JSON
    Polls,        \* polls that may be under way at the same time
    BatchSize,
    MaxReceives   \* bound on the deliveries of one message

VARIABLES
    running,      \* isRunning
    dlq,          \* place of a message, and its last receipt
    poll,         \* where each poll stands, and what it still has to process
    metric,       \* status in messageMetrics
    timers,       \* clean-up timers of a message
    count         \* the system metrics, with the average left out

monitorVars == <<running, dlq, poll, metric, timers, count>>

ASSUME MonitorAssumption ==
    /\ Unparsable \subseteq Msgs
    /\ BatchSize \in Nat \ {0} /\ MaxReceives \in Nat \ {0}

Places == {"visible", "hidden", "deleted"}
Statuses == {"none", "processing", "completed", "failed"}
Stages == {"idle", "waiting", "next", "delete"}
Deliveries == [msg : Msgs, receipt : 1..MaxReceives]

\* Type invariant.
MonitorTypeOK ==
    /\ running \in BOOLEAN
    /\ dlq \in [Msgs -> [place : Places, receipt : 0..MaxReceives]]
    /\ poll \in [Polls -> [at : Stages, rest : Seq(Deliveries)]]
    /\ metric \in [Msgs -> Statuses]
    /\ timers \in [Msgs -> Nat]
    /\ count \in [received : Nat, processed : Nat, succeeded : Nat, failed : Nat]

----------------------------------------------------------------------------
(* MetricsCollectorService *)

\* startMessageProcessing: whatever entry there was is replaced
StartProcessing(m) ==
    /\ metric' = [metric EXCEPT ![m] = "processing"]
    /\ count' = [count EXCEPT !.received = @ + 1]
    /\ UNCHANGED timers

\* A count with one more message processed
Ended(c, success) ==
    [c EXCEPT !.processed = @ + 1,
              !.succeeded = IF success THEN @ + 1 ELSE @,
              !.failed = IF success THEN @ ELSE @ + 1]

\* Mutant: only a success is cleaned up
CompleteKeepsFailed(m, success) ==
    IF metric[m] = "none" THEN UNCHANGED <<metric, timers, count>>
    ELSE /\ metric' = [metric EXCEPT ![m] = IF success THEN "completed" ELSE "failed"]
         /\ timers' = [timers EXCEPT ![m] = IF success THEN @ + 1 ELSE @]
         /\ count' = Ended(count, success)

\* completeMessageProcessing: without an entry nothing is counted
CompleteProcessing(m, success) ==
    IF metric[m] = "none" THEN UNCHANGED <<metric, timers, count>>
    ELSE /\ metric' = [metric EXCEPT ![m] = IF success THEN "completed" ELSE "failed"]
         /\ timers' = [timers EXCEPT ![m] = @ + 1]
         /\ count' = Ended(count, success)

\* Both calls in one synchronous stretch
StartAndFail(m) ==
    /\ metric' = [metric EXCEPT ![m] = "failed"]
    /\ timers' = [timers EXCEPT ![m] = @ + 1]
    /\ count' = Ended([count EXCEPT !.received = @ + 1], FALSE)

\* The timer of an attempt deletes the entry of the identifier, whoever made it
CleanUp(m) ==
    /\ timers[m] > 0
    /\ timers' = [timers EXCEPT ![m] = @ - 1]
    /\ metric' = [metric EXCEPT ![m] = "none"]
    /\ UNCHANGED <<running, dlq, poll, count>>

----------------------------------------------------------------------------
(* DLQMonitorService *)

Idle == [at |-> "idle", rest |-> <<>>]
InHand(p) == Head(poll[p].rest).msg

\* What is left of a poll after the message in hand
Rest(p) ==
    LET rest == Tail(poll[p].rest)
    IN  IF rest = <<>> THEN Idle ELSE [at |-> "next", rest |-> rest]

\* start makes the first poll, the interval the others; polls under way survive a stop
StartPoll(p) ==
    /\ poll[p] = Idle
    /\ running' = TRUE
    /\ poll' = [poll EXCEPT ![p].at = "waiting"]
    /\ UNCHANGED <<dlq, metric, timers, count>>

StopMonitor == running /\ running' = FALSE /\ UNCHANGED <<dlq, poll, metric, timers, count>>

\* Messages that may be received: a batch of them in any order
Batches ==
    {<<>>} \cup {b \in SeqOf({m \in Msgs : dlq[m].place = "visible" /\ dlq[m].receipt < MaxReceives},
                             BatchSize) : IsInjective(b)}

\* The long poll ends with a batch, or with none
Receive(p) ==
    /\ poll[p].at = "waiting"
    /\ \E batch \in Batches :
           /\ dlq' = [m \in Msgs |-> IF m \in Range(batch)
                                     THEN [place |-> "hidden", receipt |-> dlq[m].receipt + 1]
                                     ELSE dlq[m]]
           /\ poll' = [poll EXCEPT ![p] =
                           IF batch = <<>> THEN Idle
                           ELSE [at |-> "next",
                                 rest |-> [i \in DOMAIN batch |->
                                               [msg |-> batch[i], receipt |-> dlq'[batch[i]].receipt]]]]
    /\ UNCHANGED <<running, metric, timers, count>>

\* The body is parsed and the outcome drawn
Process(p) ==
    LET m == InHand(p)
    IN  /\ poll[p].at = "next"
        /\ \/ /\ m \notin Unparsable
              /\ StartProcessing(m)
              /\ poll' = [poll EXCEPT ![p].at = "delete"]
           \/ /\ StartAndFail(m)
              /\ poll' = [poll EXCEPT ![p] = Rest(p)]
        /\ UNCHANGED <<running, dlq>>

\* A deletion with a receipt that is not the last one need not delete
Deleted(d) ==
    LET gone == [dlq EXCEPT ![d.msg].place = "deleted"]
    IN  IF d.receipt = dlq[d.msg].receipt THEN {gone} ELSE {gone, dlq}

\* Mutant: the success is reported before the deletion is awaited
DeleteReportedFirst(p) ==
    LET m == InHand(p)
    IN  /\ poll[p].at = "delete"
        /\ \/ /\ dlq' \in Deleted(Head(poll[p].rest))
              /\ CompleteProcessing(m, TRUE)
           \/ /\ dlq' \in {dlq} \cup Deleted(Head(poll[p].rest))
              /\ metric' = [metric EXCEPT ![m] = "failed"]
              /\ timers' = [timers EXCEPT ![m] = @ + 2]
              /\ count' = Ended(Ended(count, TRUE), FALSE)
        /\ poll' = [poll EXCEPT ![p] = Rest(p)]
        /\ UNCHANGED running

\* The deletion returns, or reports an error whether or not it was carried out
Delete(p) ==
    /\ poll[p].at = "delete"
    /\ \/ /\ dlq' \in Deleted(Head(poll[p].rest))
          /\ CompleteProcessing(InHand(p), TRUE)
       \/ /\ dlq' \in {dlq} \cup Deleted(Head(poll[p].rest))
          /\ CompleteProcessing(InHand(p), FALSE)
    /\ poll' = [poll EXCEPT ![p] = Rest(p)]
    /\ UNCHANGED running

\* The visibility timeout of 300 s
Reappear(m) ==
    /\ dlq[m].place = "hidden"
    /\ dlq' = [dlq EXCEPT ![m].place = "visible"]
    /\ UNCHANGED <<running, poll, metric, timers, count>>

MonitorInit ==
    /\ running = FALSE
    /\ dlq = [m \in Msgs |-> [place |-> "visible", receipt |-> 0]]
    /\ poll = [p \in Polls |-> Idle]
    /\ metric = [m \in Msgs |-> "none"]
    /\ timers = [m \in Msgs |-> 0]
    /\ count = [received |-> 0, processed |-> 0, succeeded |-> 0, failed |-> 0]

MonitorNext ==
    \/ \E p \in Polls : StartPoll(p) \/ Receive(p) \/ Process(p) \/ Delete(p)
    \/ \E m \in Msgs : Reappear(m) \/ CleanUp(m)
    \/ StopMonitor

MonitorSpec == MonitorInit /\ [][MonitorNext]_monitorVars

----------------------------------------------------------------------------
(* Properties *)

\* However polls overlap and calls fail, every delivery is counted as processed at
\* most once: what is processed and what is in hand is never more than was received.
CountedOnce ==
    /\ count.processed = count.succeeded + count.failed
    /\ count.processed + Cardinality({p \in Polls : poll[p].at = "delete"}) <= count.received

\* No entry of messageMetrics stays for ever, and none shows a message as active that
\* is not: a message 'processing' is in some poll's hand, and for one that is
\* finished a clean-up timer is set, although overlapping polls replace each other's
\* entries and timers delete what later attempts made.
EntriesEnd ==
    \A m \in Msgs :
        CASE metric[m] = "processing" -> \E p \in Polls : poll[p].at = "delete" /\ InHand(p) = m
          [] metric[m] \in {"completed", "failed"} -> timers[m] > 0
          [] OTHER -> TRUE
=============================================================================
